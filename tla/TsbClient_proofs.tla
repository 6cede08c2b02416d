--------------------------- MODULE TsbClient_proofs ---------------------------
(***************************************************************************)
(* Theorems about TsbClient, for every number of threads, labels, seeds    *)
(* and paths, either kind of JwtProvider, and a broker that answers, fails *)
(* and delays as it likes.  On top of TypeOK the inductive invariant says  *)
(*                                                                         *)
(*   Named     a request is for the key and the digest its caller named;   *)
(*   Fresh     tokens that had expired when a call began stay expired;     *)
(*   Honest    what the broker did and answered for a request, and what    *)
(*             the caller is told, agree with the masters it holds.        *)
(***************************************************************************)
EXTENDS TsbClient, SequenceTheorems, TLAPS

Keyed(c) == c.req.op \in {"sign", "pubkey"}

Named(c) ==
  /\ c.req.op # "none" => c.req.label \in Labels
  /\ c.req.op = "import" => c.req.seed \in Seeds
  /\ Keyed(c) => c.req.label = c.want.label /\ c.req.path = c.want.path
  /\ c.req.op = "sign" =>
       c.req.sighash \in Sighashes /\ c.req.sighash = c.want.sighash

Fresh(c) ==
  /\ c.expired \cap live = {}
  /\ Refreshing => c.bearer \notin c.expired

(* What the broker returns for a request about a key.                      *)
IsAnswer(c, x) ==
  LET leaf == Leaf(master[c.want.label], c.want.path) IN
  /\ master[c.want.label] # None
  /\ c.req.op = "sign" => x = Signature(leaf, c.want.sighash)
  /\ c.req.op = "pubkey" => x = leaf

Honest(c) ==
  /\ c.pc \in {"idle", "ready", "sent"} => ~c.applied /\ c.res = None
  /\ c.pc = "answered" => c.res = None /\ (c.applied => c.status = "ok")
  /\ c.pc = "done" => (c.applied => c.res # "duplicate")
  /\ c.pc = "answered" /\ c.status = "ok" /\ Keyed(c) =>
       c.body = None \/ IsAnswer(c, c.body)
  /\ c.pc = "done" /\ c.res = "ok" /\ Keyed(c) => IsAnswer(c, c.out)

CallOK(c) ==
  /\ c \in CallType
  /\ c.pc = "sent" => c.bearer # 0
  /\ c.pc = "answered" => c.status # None
  /\ c.pc = "idle" => c.req.op = "none"
  /\ Named(c) /\ Fresh(c) /\ Honest(c)

IInv == TypeOK /\ newest \in live /\ \A t \in Threads : CallOK(call[t])

-----------------------------------------------------------------------------
(* The broker takes a key name apart into what it was made of.             *)
LEMMA NameParts ==
  ASSUME NEW label \in Labels, NEW path \in Seq(Nat)
  PROVE  /\ Head(SignKeyName(label, path)) = label
         /\ Tail(SignKeyName(label, path)) = path
<1> DEFINE name == <<label>> \o path
<1>1. <<label>> \in Seq(Labels \cup Nat) /\ path \in Seq(Labels \cup Nat)
  OBVIOUS
<1>2. /\ name \in Seq(Labels \cup Nat) /\ Len(name) = 1 + Len(path)
      /\ name[1] = label
      /\ \A i \in 1..Len(path) : name[i + 1] = path[i]
  BY <1>1, ConcatProperties
<1>3. Len(path) \in Nat /\ name # << >>
  BY <1>2, LenProperties
<1> HIDE DEF name
<1>4. Head(name) = label
  BY <1>2, <1>3
<1>5. /\ Tail(name) \in Seq(Labels \cup Nat) /\ Len(Tail(name)) = Len(path)
      /\ \A i \in 1..Len(path) : Tail(name)[i] = path[i]
  BY <1>2, <1>3, HeadTailProperties
<1>6. Tail(name) = path
  BY <1>1, <1>5, SeqEqual
<1>7. QED
  BY <1>4, <1>6 DEF SignKeyName, name

(* A call that moves on is still a call: it begins, sends its request, has *)
(* its answer, or returns.                                                 *)
LEMMA BegunType ==
  ASSUME NEW Pc, NEW Req, NEW Want, NEW Expired, NEW Bearer, NEW Status,
         NEW Body, NEW Res, NEW Out,
         NEW c \in [pc : Pc, req : Req, want : Want, expired : Expired,
                    bearer : Bearer, applied : BOOLEAN, status : Status,
                    body : Body, res : Res, out : Out],
         NEW pc \in Pc, NEW q \in Req, NEW w \in Want, NEW e \in Expired
  PROVE  [c EXCEPT !.pc = pc, !.req = q, !.want = w, !.expired = e]
           \in [pc : Pc, req : Req, want : Want, expired : Expired,
                bearer : Bearer, applied : BOOLEAN, status : Status,
                body : Body, res : Res, out : Out]
OBVIOUS

LEMMA SentType ==
  ASSUME NEW Pc, NEW Req, NEW Want, NEW Expired, NEW Bearer, NEW Status,
         NEW Body, NEW Res, NEW Out,
         NEW c \in [pc : Pc, req : Req, want : Want, expired : Expired,
                    bearer : Bearer, applied : BOOLEAN, status : Status,
                    body : Body, res : Res, out : Out],
         NEW pc \in Pc, NEW b \in Bearer
  PROVE  [c EXCEPT !.pc = pc, !.bearer = b]
           \in [pc : Pc, req : Req, want : Want, expired : Expired,
                bearer : Bearer, applied : BOOLEAN, status : Status,
                body : Body, res : Res, out : Out]
OBVIOUS

LEMMA AnsweredType ==
  ASSUME NEW Pc, NEW Req, NEW Want, NEW Expired, NEW Bearer, NEW Status,
         NEW Body, NEW Res, NEW Out,
         NEW c \in [pc : Pc, req : Req, want : Want, expired : Expired,
                    bearer : Bearer, applied : BOOLEAN, status : Status,
                    body : Body, res : Res, out : Out],
         NEW pc \in Pc, NEW q \in Req, NEW w \in Want, NEW a \in BOOLEAN,
         NEW s \in Status, NEW b \in Body
  PROVE  [c EXCEPT !.pc = pc, !.req = q, !.want = w, !.applied = a,
                    !.status = s, !.body = b]
           \in [pc : Pc, req : Req, want : Want, expired : Expired,
                bearer : Bearer, applied : BOOLEAN, status : Status,
                body : Body, res : Res, out : Out]
OBVIOUS

LEMMA DoneType ==
  ASSUME NEW Pc, NEW Req, NEW Want, NEW Expired, NEW Bearer, NEW Status,
         NEW Body, NEW Res, NEW Out,
         NEW c \in [pc : Pc, req : Req, want : Want, expired : Expired,
                    bearer : Bearer, applied : BOOLEAN, status : Status,
                    body : Body, res : Res, out : Out],
         NEW pc \in Pc, NEW q \in Req, NEW w \in Want, NEW a \in BOOLEAN,
         NEW r \in Res, NEW o \in Out
  PROVE  [c EXCEPT !.pc = pc, !.req = q, !.want = w, !.applied = a,
                    !.res = r, !.out = o]
           \in [pc : Pc, req : Req, want : Want, expired : Expired,
                bearer : Bearer, applied : BOOLEAN, status : Status,
                body : Body, res : Res, out : Out]
OBVIOUS

LEMMA NoCallOK == TypeOK => CallOK(NoCall)
<1> SUFFICES ASSUME TypeOK PROVE CallOK(NoCall)
  OBVIOUS
<1>1. NoRequest \in RequestType /\ NoWant \in WantType
  BY DEF NoRequest, RequestType, NoWant, Wanted, WantType, Maybe
<1>2. NoCall \in CallType
  BY <1>1 DEF NoCall, CallType, Maybe, TypeOK
<1>3. QED
  BY <1>2 DEF CallOK, NoCall, NoRequest, Named, Fresh, Honest, Keyed

(* A step that changes one call.                                           *)
LEMMA OneCall ==
  ASSUME IInv, NEW t \in Threads, NEW d, CallOK(d),
         call' = [call EXCEPT ![t] = d],
         UNCHANGED <<master, newest, live>>,
         \A req \in wire' : req \in [label : Labels, seed : Seeds, bearer : 1..newest]
  PROVE  IInv'
<1>1. CallType' = CallType
  BY DEF CallType
<1>2. \A c : CallOK(c)' <=> CallOK(c)
  BY <1>1 DEF CallOK, Named, Fresh, Honest, IsAnswer
<1>3. \A u \in Threads : CallOK(call[u]')
  BY DEF IInv, TypeOK
<1>4. \A u \in Threads : CallOK(call[u])'
  BY <1>2, <1>3
<1>5. call' \in [Threads -> CallType']
  BY <1>1 DEF IInv, TypeOK, CallOK
<1>6. TypeOK'
  BY <1>3, <1>5 DEF IInv, TypeOK, At, CallOK
<1>7. QED
  BY <1>4, <1>6 DEF IInv

(* A label that gets its master takes back no answer given before.         *)
LEMMA RegisteredOK ==
  ASSUME TypeOK, NEW label \in Labels, NEW seed \in Seeds,
         Register(label, seed), UNCHANGED <<newest, live>>, NEW c, CallOK(c)
  PROVE  CallOK(c)'
<1>1. CallType' = CallType
  BY DEF CallType
<1>2. \A l \in Labels : master[l] # None => master'[l] = master[l]
  BY DEF Register, TypeOK
<1>3. \A x : Keyed(c) /\ IsAnswer(c, x) => IsAnswer(c, x)'
  BY <1>2 DEF Keyed, IsAnswer, CallOK, Named
<1>4. Honest(c)'
  BY <1>3 DEF CallOK, Honest, Keyed
<1>5. QED
  BY <1>1, <1>4 DEF CallOK, Named, Fresh, Keyed

-----------------------------------------------------------------------------
(* The invariant holds initially, and every step keeps it.                 *)

LEMMA InvInit == Init => IInv
<1> SUFFICES ASSUME Init PROVE IInv
  OBVIOUS
<1>1. /\ master \in [Labels -> Maybe(Seeds)] /\ newest \in 1..MaxTokens
      /\ live \subseteq 1..newest /\ newest \in live /\ wire = {}
  BY TokensAssumption DEF Init, Maybe
<1>2. NoRequest \in RequestType /\ NoWant \in WantType
  BY DEF NoRequest, RequestType, NoWant, Wanted, WantType, Maybe
<1>3. NoCall \in CallType
  BY <1>1, <1>2 DEF NoCall, CallType, Maybe
<1>4. TypeOK
  BY <1>1, <1>3 DEF Init, TypeOK, At, NoCall
<1>5. CallOK(NoCall)
  BY <1>4, NoCallOK
<1>6. QED
  BY <1>1, <1>4, <1>5 DEF Init, IInv

LEMMA StartOK ==
  ASSUME IInv, NEW t \in Threads, Start(t)
  PROVE  IInv'
<1>1. ASSUME NEW req \in RequestType, NEW want \in WantType,
             Begin(t, req, want), req.op # "none",
             Named([NoCall EXCEPT !.req = req, !.want = want])
      PROVE  IInv'
  <2> DEFINE exp == (1..newest) \ live
             d == [NoCall EXCEPT !.pc = "ready", !.req = req, !.want = want,
                                 !.expired = exp]
  <2>1. NoCall \in CallType /\ exp \in SUBSET (1..newest)
    BY NoCallOK DEF IInv, CallOK
  <2>2. d \in CallType
    BY <2>1, BegunType DEF CallType
  <2>3. CallOK(d)
    BY <1>1, <2>1, <2>2, TokensAssumption
    DEF CallOK, NoCall, Named, Fresh, Honest, Keyed
  <2>4. /\ call' = [call EXCEPT ![t] = d]
        /\ UNCHANGED <<master, newest, live, wire>>
    BY <1>1 DEF Begin
  <2>5. \A r \in wire' : r \in [label : Labels, seed : Seeds, bearer : 1..newest]
    BY <2>4 DEF IInv, TypeOK
  <2> HIDE DEF d
  <2>6. QED
    BY <2>3, <2>4, <2>5, OneCall
<1>2. CASE ImportSlip10Master(t)
  <2>1. PICK label \in Labels, seed \in Seeds :
          Begin(t, ImportRequest(label, seed), Wanted(label, << >>, None))
    BY <1>2, ProvisioningsAssumption DEF ImportSlip10Master
  <2> DEFINE req  == ImportRequest(label, seed)
             want == Wanted(label, << >>, None)
  <2>2. req \in RequestType /\ req.op = "import" /\ want \in WantType
    BY DEF ImportRequest, RequestType, Wanted, WantType, Maybe
  <2>3. Named([NoCall EXCEPT !.req = req, !.want = want])
    BY DEF Named, Keyed, NoCall, ImportRequest
  <2> HIDE DEF req, want
  <2>4. QED
    BY <1>1, <2>1, <2>2, <2>3 DEF req, want
<1>3. CASE SignSchnorr(t)
  <2>1. PICK label \in Labels, path \in Seq(Nat), sighash \in Sighashes :
          Begin(t, SignRequest(SignKeyName(label, path), sighash),
                Wanted(label, path, sighash))
    BY <1>3, KeyNamesAssumption DEF SignSchnorr
  <2> DEFINE req  == SignRequest(SignKeyName(label, path), sighash)
             want == Wanted(label, path, sighash)
  <2>2. req = [op |-> "sign", label |-> label, seed |-> None, path |-> path,
               sighash |-> sighash]
    BY NameParts DEF SignRequest
  <2> HIDE DEF req
  <2>3. req \in RequestType /\ req.op = "sign" /\ want \in WantType
    BY <2>2 DEF RequestType, Wanted, WantType, Maybe
  <2>4. Named([NoCall EXCEPT !.req = req, !.want = want])
    BY <2>2 DEF Named, Keyed, NoCall, Wanted
  <2> HIDE DEF want
  <2>5. QED
    BY <1>1, <2>1, <2>3, <2>4 DEF req, want
<1>4. CASE DerivedPublicKey(t)
  <2>1. PICK label \in Labels, path \in Seq(Nat) :
          Begin(t, PubkeyRequest(label, path), Wanted(label, path, None))
    BY <1>4, KeyNamesAssumption DEF DerivedPublicKey
  <2> DEFINE req  == PubkeyRequest(label, path)
             want == Wanted(label, path, None)
  <2>2. req \in RequestType /\ req.op = "pubkey" /\ want \in WantType
    BY DEF PubkeyRequest, RequestType, Wanted, WantType, Maybe
  <2>3. Named([NoCall EXCEPT !.req = req, !.want = want])
    BY DEF Named, Keyed, NoCall, PubkeyRequest, Wanted
  <2> HIDE DEF req, want
  <2>4. QED
    BY <1>1, <2>1, <2>2, <2>3 DEF req, want
<1>5. QED
  BY <1>2, <1>3, <1>4 DEF Start

(* A call that ends keeps what it was about.                               *)
LEMMA FinishOK ==
  ASSUME IInv, NEW t \in Threads, call[t].pc \in {"sent", "answered"},
         NEW res \in Statuses \cup {"http", "decode"},
         NEW out \in Maybe(LeafType \cup [key : LeafType, sighash : Sighashes]),
         Finish(t, res, out),
         call[t].applied => res # "duplicate",
         res = "ok" /\ Keyed(call[t]) => IsAnswer(call[t], out),
         UNCHANGED <<master, newest, live>>,
         \A req \in wire' : req \in [label : Labels, seed : Seeds, bearer : 1..newest]
  PROVE  IInv'
<1> DEFINE d == Done(call[t], res, out)
<1>1. CallOK(call[t]) /\ call[t] \in CallType
  BY DEF IInv, CallOK
<1>2. d \in CallType
  <2>1. /\ call[t].req \in RequestType /\ call[t].want \in WantType
        /\ call[t].applied \in BOOLEAN
    BY <1>1 DEF CallType
  <2>2. NoCall \in CallType
    BY NoCallOK DEF IInv, CallOK
  <2>3. QED
    BY <2>1, <2>2, DoneType DEF Done, CallType, Maybe
<1>3. /\ d.pc = "done" /\ d.res = res /\ d.out = out
      /\ d.req = call[t].req /\ d.want = call[t].want /\ d.expired = {}
      /\ d.bearer = 0 /\ d.applied = call[t].applied
  BY DEF Done, NoCall
<1>4. call' = [call EXCEPT ![t] = d]
  BY DEF Finish
<1> HIDE DEF d
<1>5. CallOK(d)
  BY <1>1, <1>2, <1>3 DEF CallOK, Named, Fresh, Honest, Keyed, IsAnswer
<1>6. QED
  BY <1>4, <1>5, OneCall

LEMMA StepOK ==
  ASSUME IInv, NEW t \in Threads, Step(t)
  PROVE  IInv'
<1>1. CallOK(call[t]) /\ call[t] \in CallType /\ newest \in 1..MaxTokens
  BY DEF IInv, CallOK, TypeOK
<1>2. \A req \in wire : req \in [label : Labels, seed : Seeds, bearer : 1..newest]
  BY DEF IInv, TypeOK
<1>3. CASE Send(t)
  <2> DEFINE d == [call[t] EXCEPT !.pc = "sent", !.bearer = Current]
  <2>1. Current \in 0..newest /\ Current # 0
    BY <1>1, TokensAssumption DEF Current
  <2>2. d \in CallType
    BY <1>1, <2>1, SentType DEF CallType
  <2>3. /\ d.pc = "sent" /\ d.bearer = Current /\ d.res = call[t].res
        /\ d.req = call[t].req /\ d.want = call[t].want
        /\ d.expired = call[t].expired /\ d.applied = call[t].applied
    BY <1>1 DEF CallType
  <2>4. call' = [call EXCEPT ![t] = d] /\ call[t].pc = "ready"
    BY <1>3 DEF Send, At
  <2>5. Refreshing => Current \notin call[t].expired
    BY <1>1 DEF Current, IInv, CallOK, Fresh
  <2> HIDE DEF d
  <2>6. CallOK(d)
    BY <1>1, <2>1, <2>2, <2>3, <2>4, <2>5
    DEF CallOK, Named, Fresh, Honest, Keyed
  <2>7. QED
    BY <1>2, <1>3, <2>4, <2>6, OneCall DEF Send
<1>4. CASE GiveUp(t)
  <2>1. \A req \in wire' : req \in [label : Labels, seed : Seeds, bearer : 1..newest]
    <3>1. CASE wire' = wire
      BY <1>2, <3>1
    <3>2. CASE wire' # wire
      <4>1. /\ call[t].pc = "sent" /\ call[t].req.op = "import"
            /\ wire' = wire \cup {[label |-> call[t].req.label,
                                   seed |-> call[t].req.seed,
                                   bearer |-> call[t].bearer]}
        BY <1>4, <3>2 DEF GiveUp, At
      <4>2. /\ call[t].req.label \in Labels /\ call[t].req.seed \in Seeds
            /\ call[t].bearer \in 0..newest /\ call[t].bearer # 0
        BY <1>1, <4>1 DEF CallOK, Named, CallType
      <4>3. call[t].bearer \in 1..newest
        BY <1>1, <4>2
      <4>4. QED
        BY <1>2, <4>1, <4>2, <4>3
    <3>3. QED
      BY <3>1, <3>2
  <2>2. call[t].pc \in {"sent", "answered"} /\ Finish(t, "http", None)
        /\ UNCHANGED <<master, newest, live>>
    BY <1>4 DEF GiveUp, At
  <2>3. QED
    BY <2>1, <2>2, FinishOK DEF Maybe
<1>5. CASE Receive(t)
  <2>1. /\ call[t].pc = "answered"
        /\ UNCHANGED <<master, newest, live, wire>>
    BY <1>5 DEF Receive, At
  <2>2. /\ call[t].status \in Maybe(Statuses)
        /\ call[t].body \in Maybe(LeafType \cup [key : LeafType, sighash : Sighashes])
        /\ call[t].applied => call[t].status = "ok"
        /\ call[t].status = "ok" /\ Keyed(call[t]) =>
             call[t].body = None \/ IsAnswer(call[t], call[t].body)
    BY <1>1, <2>1 DEF CallOK, Honest, CallType
  <2>3. CASE call[t].status # "ok" /\ Finish(t, call[t].status, None)
    <3>1. CASE call[t].status \in Statuses
      BY <1>2, <2>1, <2>2, <2>3, <3>1, FinishOK DEF Maybe
    <3>2. QED
      BY <1>1, <2>1, <2>2, <3>1 DEF Maybe, CallOK
  <2>4. CASE call[t].req.op = "import" /\ Finish(t, "ok", None)
    BY <1>2, <2>1, <2>4, FinishOK DEF Maybe, Keyed, Statuses
  <2>5. CASE call[t].body = None /\ Finish(t, "decode", None)
    BY <1>2, <2>1, <2>5, FinishOK DEF Maybe
  <2>6. CASE /\ call[t].status = "ok" /\ call[t].body # None
             /\ Finish(t, "ok", call[t].body)
    BY <1>2, <2>1, <2>2, <2>6, FinishOK DEF Statuses
  <2>7. QED
    BY <1>5, <2>3, <2>4, <2>5, <2>6 DEF Receive
<1>6. QED
  BY <1>3, <1>4, <1>5 DEF Step

(* A call whose request is answered.                                       *)
LEMMA AnsweredOK ==
  ASSUME IInv, NEW t \in Threads, call[t].pc = "sent",
         NEW status \in Statuses,
         NEW body \in Maybe(LeafType \cup [key : LeafType, sighash : Sighashes]),
         NEW applied \in BOOLEAN, applied => status = "ok",
         status = "ok" /\ Keyed(call[t]) =>
           body = None \/ IsAnswer(call[t], body)
  PROVE  CallOK(Answered(call[t], status, body, applied))
<1> DEFINE a == call[t].applied \/ applied
           d == Answered(call[t], status, body, applied)
<1>1. CallOK(call[t]) /\ call[t] \in CallType
  BY DEF IInv, CallOK
<1>2. ~call[t].applied /\ a \in BOOLEAN /\ (a <=> applied)
  BY <1>1 DEF CallOK, Honest, CallType
<1>3. d \in CallType
  <2>1. status \in Maybe(Statuses) /\ "answered" \in {"idle", "ready", "sent", "answered", "done"}
    BY DEF Maybe
  <2>2. call[t].req \in RequestType /\ call[t].want \in WantType
    BY <1>1 DEF CallType
  <2>3. NoCall \in CallType
    BY NoCallOK DEF IInv, CallOK
  <2>4. d = [NoCall EXCEPT !.pc = "answered", !.req = call[t].req,
                           !.want = call[t].want, !.applied = a,
                           !.status = status, !.body = body]
    BY DEF Answered
  <2> HIDE DEF a, d
  <2>5. QED
    BY <1>2, <2>1, <2>2, <2>3, <2>4, AnsweredType DEF CallType
<1>4. /\ d.pc = "answered" /\ d.status = status /\ d.body = body /\ d.applied = a
      /\ d.req = call[t].req /\ d.want = call[t].want /\ d.expired = {}
      /\ d.bearer = 0 /\ d.res = None
  BY DEF Answered, NoCall
<1> HIDE DEF d, a
<1>5. CallOK(d)
  BY <1>1, <1>2, <1>3, <1>4, NoneAssumption
  DEF CallOK, Named, Fresh, Honest, Keyed, IsAnswer
<1>6. QED
  BY <1>5 DEF d

(* The same, as a step of the broker that registers no master.             *)
LEMMA AnswerOK ==
  ASSUME IInv, NEW t \in Threads, call[t].pc = "sent",
         NEW status \in Statuses,
         NEW body \in Maybe(LeafType \cup [key : LeafType, sighash : Sighashes]),
         Answer(t, status, body, FALSE),
         status = "ok" /\ Keyed(call[t]) =>
           body = None \/ IsAnswer(call[t], body),
         UNCHANGED <<master, newest, live, wire>>
  PROVE  IInv'
<1> DEFINE d == Answered(call[t], status, body, FALSE)
<1>1. CallOK(d)
  BY AnsweredOK, Zenon
<1>2. call' = [call EXCEPT ![t] = d]
  BY DEF Answer
<1>3. \A req \in wire' : req \in [label : Labels, seed : Seeds, bearer : 1..newest]
  BY DEF IInv, TypeOK
<1> HIDE DEF d
<1>4. QED
  BY <1>1, <1>2, <1>3, OneCall

LEMMA ServeOK ==
  ASSUME IInv, NEW t \in Threads, Serve(t)
  PROVE  IInv'
<1>1. CallOK(call[t]) /\ call[t] \in CallType /\ TypeOK /\ call[t].pc = "sent"
  BY DEF IInv, CallOK, Serve, Refuse, ServeImport, ServeKey, At
<1>2. CASE Refuse(t)
  <2>1. UNCHANGED <<master, newest, live, wire>> /\ None \in Maybe(LeafType)
    BY <1>2 DEF Refuse, Maybe
  <2>2. CASE Answer(t, "unauthorized", None, FALSE)
    BY <1>1, <2>1, <2>2, AnswerOK DEF Statuses, Maybe
  <2>3. CASE Answer(t, "error", None, FALSE)
    BY <1>1, <2>1, <2>3, AnswerOK DEF Statuses, Maybe
  <2>4. QED
    BY <1>2, <2>2, <2>3 DEF Refuse
<1>3. CASE ServeImport(t)
  <2> DEFINE req == call[t].req
  <2>1. /\ req.op = "import" /\ req.label \in Labels /\ req.seed \in Seeds
        /\ UNCHANGED <<newest, live, wire>>
    BY <1>1, <1>3 DEF ServeImport, CallOK, Named
  <2>2. CASE Register(req.label, req.seed) /\ Answer(t, "ok", None, TRUE)
    <3> DEFINE d == Answered(call[t], "ok", None, TRUE)
    <3>1. "ok" \in Statuses /\ ~Keyed(call[t])
          /\ None \in Maybe(LeafType \cup [key : LeafType, sighash : Sighashes])
      BY <2>1 DEF Statuses, Maybe, Keyed
    <3>2. CallOK(d)
      BY <1>1, <3>1, AnsweredOK, Zenon
    <3>3. call' = [call EXCEPT ![t] = d]
      BY <2>2 DEF Answer
    <3> HIDE DEF d
    <3>4. \A u \in Threads : CallOK(call'[u])
      BY <3>2, <3>3 DEF IInv, TypeOK
    <3>5. \A c : CallOK(c) => CallOK(c)'
      BY <1>1, <2>1, <2>2, RegisteredOK
    <3>6. \A u \in Threads : CallOK(call[u])'
      BY <3>4, <3>5
    <3>7. master' \in [Labels -> Maybe(Seeds)]
      BY <1>1, <2>1, <2>2 DEF Register, TypeOK, Maybe
    <3>8. CallType' = CallType
      BY <2>1 DEF CallType
    <3>9. TypeOK'
      BY <1>1, <2>1, <3>3, <3>4, <3>7, <3>8 DEF TypeOK, At, CallOK
    <3>10. QED
      BY <2>1, <3>6, <3>9 DEF IInv
  <2>3. CASE Answer(t, "duplicate", None, FALSE) /\ UNCHANGED master
    BY <1>1, <2>1, <2>3, AnswerOK DEF Statuses, Maybe, Keyed
  <2>4. QED
    BY <1>3, <2>2, <2>3 DEF ServeImport
<1>4. CASE ServeKey(t)
  <2> DEFINE req  == call[t].req
             leaf == Leaf(master[req.label], req.path)
             body == IF req.op = "sign" THEN Signature(leaf, req.sighash) ELSE leaf
  <2>1. UNCHANGED <<master, newest, live, wire>> /\ Keyed(call[t])
    BY <1>4 DEF ServeKey, Keyed
  <2>2. /\ req.label \in Labels /\ req.label = call[t].want.label
        /\ req.path = call[t].want.path /\ req.path \in Seq(Nat)
        /\ req.op = "sign" => req.sighash = call[t].want.sighash
    BY <1>1, <2>1 DEF CallOK, Named, Keyed, CallType, RequestType
  <2>3. CASE Answer(t, "unknownKey", None, FALSE)
    BY <1>1, <2>1, <2>3, AnswerOK DEF Statuses, Maybe
  <2>4. CASE Answer(t, "ok", None, FALSE)
    BY <1>1, <2>1, <2>4, AnswerOK DEF Statuses, Maybe
  <2>5. CASE master[req.label] # None /\ Answer(t, "ok", body, FALSE)
    <3>1. master[req.label] \in Seeds
      BY <1>1, <2>2, <2>5 DEF TypeOK, Maybe
    <3>2. leaf \in LeafType
      BY <2>2, <3>1 DEF Leaf, LeafType
    <3>3. req.op = "sign" => body \in [key : LeafType, sighash : Sighashes]
      BY <1>1, <3>2 DEF Signature, CallOK, Named
    <3>4. IsAnswer(call[t], body)
      BY <2>1, <2>2, <2>5 DEF IsAnswer, Keyed
    <3>5. body \in Maybe(LeafType \cup [key : LeafType, sighash : Sighashes])
      BY <3>2, <3>3 DEF Maybe
    <3> HIDE DEF body
    <3>6. QED
      BY <1>1, <2>1, <2>5, <3>4, <3>5, AnswerOK DEF Statuses
  <2>6. QED
    BY <1>4, <2>3, <2>4, <2>5 DEF ServeKey
<1>5. QED
  BY <1>2, <1>3, <1>4 DEF Serve

(* The steps of the broker and the authorization service on their own.     *)
LEMMA EnvironmentOK ==
  ASSUME IInv, ServeLate \/ Issue \/ Expire
  PROVE  IInv'
<1>1. TypeOK /\ newest \in live /\ \A t \in Threads : CallOK(call[t])
  BY DEF IInv
<1>2. CASE ServeLate
  <2>1. PICK req \in wire :
          /\ wire' = wire \ {req}
          /\ Register(req.label, req.seed) \/ UNCHANGED master
    BY <1>2 DEF ServeLate
  <2>2. req.label \in Labels /\ req.seed \in Seeds
        /\ UNCHANGED <<newest, live, call>>
    BY <1>1, <1>2, <2>1 DEF TypeOK, ServeLate
  <2>3. CallType' = CallType
    BY <2>2 DEF CallType
  <2>4. \A c : CallOK(c) => CallOK(c)'
    <3>1. CASE Register(req.label, req.seed)
      BY <1>1, <2>2, <3>1, RegisteredOK
    <3>2. CASE UNCHANGED master
      BY <2>2, <2>3, <3>2 DEF CallOK, Named, Fresh, Honest, IsAnswer
    <3>3. QED
      BY <2>1, <3>1, <3>2
  <2>5. master' \in [Labels -> Maybe(Seeds)]
    BY <1>1, <2>1, <2>2 DEF Register, TypeOK, Maybe
  <2>6. TypeOK'
    BY <1>1, <2>1, <2>2, <2>3, <2>5 DEF TypeOK, At
  <2>7. QED
    BY <1>1, <2>2, <2>4, <2>6 DEF IInv
<1>3. CASE Issue
  <2>1. /\ newest' = newest + 1 /\ newest < MaxTokens
        /\ live' = live \cup {newest + 1} /\ UNCHANGED <<master, wire, call>>
    BY <1>3 DEF Issue
  <2>2. newest \in Nat /\ newest' \in 1..MaxTokens /\ 1..newest \subseteq 1..newest'
    BY <1>1, <2>1, TokensAssumption DEF TypeOK
  <2>3. ASSUME NEW c, CallOK(c) PROVE CallOK(c)'
    <3>1. /\ c \in CallType /\ c.expired \in SUBSET (1..newest)
          /\ c.bearer \in 0..newest
      BY <2>3 DEF CallOK, CallType
    <3>2. c.expired \in SUBSET (1..newest') /\ c.bearer \in 0..newest'
      BY <2>1, <2>2, <3>1
    <3>3. c \in CallType'
      BY <3>1, <3>2 DEF CallType
    <3>4. newest + 1 \notin c.expired
      BY <2>2, <3>1
    <3>5. Fresh(c)'
      BY <2>1, <2>3, <3>4 DEF CallOK, Fresh
    <3>6. Honest(c)'
      BY <2>1, <2>3 DEF CallOK, Honest, IsAnswer
    <3>7. QED
      BY <2>3, <3>3, <3>5, <3>6 DEF CallOK, Named
  <2>4. \A t \in Threads : CallOK(call[t])'
    BY <1>1, <2>1, <2>3
  <2>5. \A t \in Threads : call[t] \in CallType'
    BY <2>1, <2>4 DEF CallOK
  <2>6. call' \in [Threads -> CallType']
    BY <1>1, <2>1, <2>5 DEF TypeOK
  <2>7. \A req \in wire' : req \in [label : Labels, seed : Seeds, bearer : 1..newest']
    BY <1>1, <2>1, <2>2 DEF TypeOK
  <2>8. live' \subseteq 1..newest'
    BY <1>1, <2>1, <2>2 DEF TypeOK
  <2>9. TypeOK'
    BY <1>1, <2>1, <2>2, <2>6, <2>7, <2>8 DEF TypeOK, At
  <2>10. QED
    BY <2>1, <2>4, <2>9 DEF IInv
<1>4. CASE Expire
  <2>1. /\ newest \in live' /\ live' \subseteq live
        /\ UNCHANGED <<master, newest, wire, call>>
    BY <1>1, <1>4 DEF Expire
  <2>2. CallType' = CallType
    BY <2>1 DEF CallType
  <2>3. \A c : CallOK(c) => CallOK(c)'
    BY <2>1, <2>2 DEF CallOK, Named, Fresh, Honest, IsAnswer
  <2>4. TypeOK'
    BY <1>1, <2>1, <2>2 DEF TypeOK, At
  <2>5. QED
    BY <1>1, <2>1, <2>3, <2>4 DEF IInv
<1>5. QED
  BY <1>2, <1>3, <1>4

LEMMA InvNext == IInv /\ [Next]_vars => IInv'
<1> SUFFICES ASSUME IInv, [Next]_vars PROVE IInv'
  OBVIOUS
<1>1. ASSUME NEW t \in Threads, Take(t) PROVE IInv'
  <2>1. CallOK(NoCall)
    BY NoCallOK DEF IInv
  <2>2. /\ call' = [call EXCEPT ![t] = NoCall]
        /\ UNCHANGED <<master, newest, live, wire>>
    BY <1>1 DEF Take
  <2>3. \A r \in wire' : r \in [label : Labels, seed : Seeds, bearer : 1..newest]
    BY <2>2 DEF IInv, TypeOK
  <2>4. QED
    BY <2>1, <2>2, <2>3, OneCall
<1>2. CASE UNCHANGED vars
  BY <1>2 DEF vars, IInv, TypeOK, CallType, At, CallOK, Named, Fresh, Honest,
              IsAnswer
<1>3. QED
  BY <1>1, <1>2, StartOK, StepOK, ServeOK, EnvironmentOK DEF Next

LEMMA Invariant == Spec => []IInv
<1>1. QED
  BY InvInit, InvNext, PTL DEF Spec

-----------------------------------------------------------------------------
(* Every reachable state of the client and its broker is well typed, and   *)
(* every request sent carries a bearer token (mod.rs:141-146, 115-117).    *)
THEOREM TsbTypeCorrect == Spec => []TypeOK
<1>1. IInv => TypeOK
  BY DEF IInv
<1>2. QED
  BY <1>1, Invariant, PTL

(* What a successful call returns is the key its caller named by label and *)
(* path, or that key's signature of the caller's own digest: the name and  *)
(* the request carry all three to the broker, and neither a refused nor a  *)
(* malformed answer is passed on (mod.rs:119-167, 214-258, 347-364).       *)
THEOREM TsbAnswersOwnKey == Spec => []AnswersOwnKey
<1>1. IInv => AnswersOwnKey
  BY DEF IInv, CallOK, Honest, Keyed, IsAnswer, AnswersOwnKey
<1>2. QED
  BY <1>1, Invariant, PTL

(* A rejected duplicate was never registered by the same call              *)
(* (mod.rs:179-202).                                                       *)
THEOREM TsbDuplicateIsForeign == Spec => []DuplicateIsForeign
<1>1. IInv => DuplicateIsForeign
  <2> SUFFICES ASSUME IInv, NEW t \in Threads, call[t].res = "duplicate",
                      call[t].applied
               PROVE  FALSE
    BY DEF DuplicateIsForeign
  <2>1. call[t] \in CallType /\ Honest(call[t])
    BY DEF IInv, CallOK
  <2>2. None # "duplicate"
    BY NoneAssumption DEF Statuses
  <2>3. QED
    BY <2>1, <2>2 DEF Honest, CallType
<1>2. QED
  BY <1>1, Invariant, PTL

(* A provider that refreshes keeps expired tokens out of later calls       *)
(* (mod.rs:27-31, 113-117).                                                *)
THEOREM TsbRefreshIsTransparent == Spec => RefreshIsTransparent
<1>1. IInv => (Refreshing => \A t \in Threads :
                 At(t, "sent") /\ call'[t].status = "unauthorized" =>
                   call[t].bearer \notin call[t].expired)
  BY DEF IInv, CallOK, Fresh
<1>2. QED
  BY <1>1, Invariant, PTL DEF RefreshIsTransparent

-----------------------------------------------------------------------------
(***************************************************************************)
(* The imports of TsbClient implement ImportOnce, for every number of      *)
(* threads, labels and seeds.  A call is in one of three positions: not an *)
(* import, an import the broker may still apply (UnderWay), or one it has  *)
(* answered or the client has given up; each step of the client moves one  *)
(* call, so that Pending changes by that call's request at most.           *)
(***************************************************************************)

UnderWay(c) == c.req.op = "import" /\ c.pc \in {"ready", "sent"}

Bare(req) == [label |-> req.label, seed |-> req.seed]

(* The requests that are pending whatever thread t does.                   *)
Rest(t) ==
  {Bare(req) : req \in wire}
    \cup {Bare(call[u].req) : u \in {v \in Threads \ {t} : UnderWay(call[v])}}

AskOf(c) ==
  IF c.req.op # "import" THEN [state |-> "idle", req |-> None]
  ELSE [state |-> IF c.pc # "done" THEN "waiting"
                  ELSE IF c.res = "ok" THEN "ok" ELSE "failed",
        req |-> Bare(c.req)]

(* An import that was answered "ok" has its own seed under the label.      *)
CreditOK(c) ==
  c.pc = "answered" /\ c.status = "ok" /\ c.req.op = "import" =>
    master[c.req.label] = c.req.seed
Credit == \A t \in Threads : CreditOK(call[t])

-----------------------------------------------------------------------------
LEMMA AsksParts == Asks = [t \in Threads |-> AskOf(call[t])]
BY DEF Asks, AskOf, Importing, Asked, Bare

LEMMA PendingParts ==
  ASSUME NEW t \in Threads
  PROVE  Pending = Rest(t) \cup (IF UnderWay(call[t]) THEN {Bare(call[t].req)} ELSE {})
BY DEF Pending, Rest, UnderWay, Importing, Asked, Bare

(* What is left alone when one thread's call becomes d.                    *)
LEMMA Moved ==
  ASSUME IInv, NEW t \in Threads, NEW d, call' = [call EXCEPT ![t] = d]
  PROVE  /\ call'[t] = d
         /\ \A u \in Threads \ {t} : call'[u] = call[u]
         /\ Asks' = [Asks EXCEPT ![t] = AskOf(d)]
         /\ wire' = wire => Rest(t)' = Rest(t)
<1>1. call'[t] = d /\ \A u \in Threads \ {t} : call'[u] = call[u]
  BY DEF IInv, TypeOK
<1>2. Asks' = [u \in Threads |-> AskOf(call'[u])]
  BY AsksParts DEF Asks, AskOf, Importing, Asked, Bare
<1>3. Asks' = [Asks EXCEPT ![t] = AskOf(d)]
  BY <1>1, <1>2, AsksParts
<1>4. wire' = wire => Rest(t)' = Rest(t)
  BY <1>1 DEF Rest
<1>5. QED
  BY <1>1, <1>3, <1>4

LEMMA PendingPartsNext ==
  ASSUME NEW t \in Threads
  PROVE  Pending' = Rest(t)' \cup
                      (IF UnderWay(call'[t]) THEN {Bare(call'[t].req)} ELSE {})
BY DEF Pending, Rest, UnderWay, Importing, Asked, Bare

(* A call that stays where it is, as seen by ImportOnce.                   *)
LEMMA StaysPut ==
  ASSUME IInv, NEW t \in Threads, NEW d, call' = [call EXCEPT ![t] = d],
         wire' = wire, AskOf(d) = AskOf(call[t]),
         UnderWay(d) <=> UnderWay(call[t]), UnderWay(d) => d.req = call[t].req
  PROVE  UNCHANGED <<Pending, Asks>>
<1>1. Pending' = Pending
  <2>1. call'[t] = d /\ Rest(t)' = Rest(t)
    BY Moved
  <2>2. UnderWay(call'[t]) <=> UnderWay(call[t])
    BY <2>1
  <2>3. UnderWay(call'[t]) => call'[t].req = call[t].req
    BY <2>1
  <2>4. QED
    BY <2>1, <2>2, <2>3, PendingParts, PendingPartsNext
<1>2. Asks = [Asks EXCEPT ![t] = AskOf(call[t])]
  BY AsksParts
<1>3. Asks' = [Asks EXCEPT ![t] = AskOf(d)]
  BY Moved
<1>4. QED
  BY <1>1, <1>2, <1>3

(* A call whose request is no longer under way.                            *)
LEMMA Settled ==
  ASSUME IInv, NEW t \in Threads, NEW d, call' = [call EXCEPT ![t] = d],
         wire' = wire, UnderWay(call[t]), ~UnderWay(d)
  PROVE  /\ Bare(call[t].req) \in Pending
         /\ Once!Settle(Bare(call[t].req))
<1>1. call'[t] = d /\ Rest(t)' = Rest(t)
  BY Moved
<1>2. ~UnderWay(call'[t])
  BY <1>1
<1>3. Pending' = Rest(t) /\ Pending = Rest(t) \cup {Bare(call[t].req)}
  BY <1>1, <1>2, PendingParts, PendingPartsNext
<1>4. QED
  BY <1>3 DEF Once!Settle
(* A type of what an import asks for.                                      *)
LEMMA BareType ==
  ASSUME IInv, NEW t \in Threads, call[t].req.op = "import"
  PROVE  /\ Bare(call[t].req) \in Once!Request
         /\ call[t].req.label \in Labels /\ call[t].req.seed \in Seeds
         /\ master[call[t].req.label] # None =>
              master[call[t].req.label] \in Seeds
BY DEF IInv, TypeOK, CallOK, Named, Bare, Once!Request, Maybe

-----------------------------------------------------------------------------
(* An answer of "ok" is credited to the caller's seed, and stays so.       *)

LEMMA CreditKept ==
  ASSUME IInv, NEW label \in Labels, NEW seed \in Seeds, Register(label, seed),
         NEW c, CallOK(c), CreditOK(c)
  PROVE  CreditOK(c)'
<1>1. \A l \in Labels : master[l] # None => master'[l] = master[l]
  BY DEF Register, IInv, TypeOK
<1>2. c.req.op = "import" => c.req.label \in Labels /\ c.req.seed # None
  BY NoneAssumption DEF CallOK, Named
<1>3. QED
  BY <1>1, <1>2 DEF CreditOK

LEMMA CreditNext == IInv /\ Credit /\ [Next]_vars => Credit'
<1> SUFFICES ASSUME IInv, Credit, [Next]_vars PROVE Credit'
  OBVIOUS
<1>1. ASSUME NEW t \in Threads, UNCHANGED master,
             \A u \in Threads \ {t} : call'[u] = call[u], CreditOK(call'[t])
      PROVE  Credit'
  BY <1>1 DEF Credit, CreditOK
<1>2. ASSUME NEW t \in Threads, Start(t) \/ Step(t) \/ Take(t)
      PROVE  Credit'
  <2>1. call \in [Threads -> CallType] /\ call[t] \in CallType
    BY DEF IInv, TypeOK
  <2>2. CASE Start(t)
    <3>1. PICK r, w : Begin(t, r, w)
      BY <2>2 DEF Start, ImportSlip10Master, SignSchnorr, DerivedPublicKey
    <3>2. QED
      BY <1>1, <2>1, <3>1 DEF Begin, NoCall, CreditOK
  <2>3. CASE Send(t)
    BY <1>1, <2>1, <2>3 DEF Send, CallType, CreditOK
  <2>4. CASE GiveUp(t)
    BY <1>1, <2>1, <2>4 DEF GiveUp, Finish, Done, NoCall, CreditOK
  <2>5. CASE Receive(t)
    <3>1. PICK r, o : Finish(t, r, o)
      BY <2>5 DEF Receive
    <3>2. QED
      BY <1>1, <2>1, <2>5, <3>1 DEF Receive, Finish, Done, NoCall, CreditOK
  <2>6. CASE Take(t)
    BY <1>1, <2>1, <2>6 DEF Take, NoCall, CreditOK
  <2>7. QED
    BY <1>2, <2>2, <2>3, <2>4, <2>5, <2>6 DEF Step
<1>3. ASSUME NEW t \in Threads, Serve(t)
      PROVE  Credit'
  <2>1. /\ call \in [Threads -> CallType] /\ call[t] \in CallType
        /\ \A u \in Threads : CallOK(call[u])
    BY DEF IInv, TypeOK
  <2>2. CASE Refuse(t)
    BY <1>1, <2>1, <2>2 DEF Refuse, Answer, Answered, NoCall, CreditOK
  <2>3. CASE ServeKey(t)
    <3>1. PICK s, b : Answer(t, s, b, FALSE)
      BY <2>3 DEF ServeKey
    <3>2. QED
      BY <1>1, <2>1, <2>3, <3>1 DEF ServeKey, Answer, Answered, NoCall, CallType, CreditOK
  <2>4. CASE ServeImport(t)
    <3>1. CASE UNCHANGED master /\ Answer(t, "duplicate", None, FALSE)
      BY <1>1, <2>1, <3>1 DEF Answer, Answered, NoCall, CreditOK
    <3>2. CASE /\ Register(call[t].req.label, call[t].req.seed)
               /\ Answer(t, "ok", None, TRUE)
      <4>1. call[t].req.label \in Labels /\ call[t].req.seed \in Seeds
        BY <2>4, BareType DEF ServeImport
      <4>2. \A u \in Threads : CreditOK(call[u]) => CreditOK(call[u])' \/ u = t
        <5>1. \A c : CallOK(c) /\ CreditOK(c) => CreditOK(c)'
          BY <3>2, <4>1, CreditKept
        <5>2. \A u \in Threads \ {t} : call'[u] = call[u]
          BY <3>2 DEF Answer, IInv, TypeOK
        <5>3. \A u \in Threads \ {t} : CreditOK(call'[u]) /\ CallOK(call'[u])
          BY <2>1, <5>2 DEF Credit
        <5>4. QED
          BY <5>1, <5>3
      <4>3. CreditOK(call[t])'
        <5>1. master'[call[t].req.label] = call[t].req.seed
          BY <3>2, <4>1 DEF Register, IInv, TypeOK
        <5>2. call'[t].req = call[t].req
          BY <2>1, <3>2 DEF Answer, Answered, NoCall
        <5>3. QED
          BY <5>1, <5>2 DEF CreditOK
      <4>4. QED
        BY <4>2, <4>3 DEF Credit
    <3>3. QED
      BY <2>4, <3>1, <3>2 DEF ServeImport
  <2>5. QED
    BY <1>3, <2>2, <2>3, <2>4 DEF Serve
<1>4. CASE ServeLate
  <2>1. PICK req \in wire : Register(req.label, req.seed) \/ UNCHANGED master
    BY <1>4 DEF ServeLate
  <2>2. req.label \in Labels /\ req.seed \in Seeds /\ UNCHANGED call
    BY <1>4 DEF ServeLate, IInv, TypeOK
  <2>3. CASE Register(req.label, req.seed)
    BY <2>2, <2>3, CreditKept DEF Credit, IInv
  <2>4. CASE UNCHANGED master
    BY <2>2, <2>4 DEF Credit, CreditOK
  <2>5. QED
    BY <2>1, <2>3, <2>4
<1>5. CASE Issue \/ Expire \/ UNCHANGED vars
  BY <1>5 DEF Issue, Expire, vars, Credit, CreditOK
<1>6. QED
  BY <1>2, <1>3, <1>4, <1>5 DEF Next

-----------------------------------------------------------------------------
(* Initial states map to initial states, steps to steps or stutters.       *)

LEMMA OnceInit == Init => Once!Init /\ Credit
BY DEF Init, NoCall, NoRequest, Once!Init, Once!NoAsk, Pending, Asks, Importing,
       Credit, CreditOK

(* A call begins: an import is asked for, the others are not seen.         *)
LEMMA StartMaps ==
  ASSUME IInv, NEW t \in Threads, Start(t)
  PROVE  Once!Ask(t) \/ UNCHANGED Once!vars
<1>1. call[t].pc = "idle" /\ call[t].req.op = "none"
  BY DEF Start, ImportSlip10Master, SignSchnorr, DerivedPublicKey, Begin, At,
         IInv, CallOK
<1>2. AskOf(call[t]) = Once!NoAsk /\ ~UnderWay(call[t])
  BY <1>1 DEF AskOf, UnderWay, Once!NoAsk
<1>3. ASSUME NEW label \in Labels, NEW seed \in Seeds,
             NEW want, Begin(t, ImportRequest(label, seed), want)
      PROVE  Once!Ask(t)
  <2> DEFINE d == [NoCall EXCEPT !.pc = "ready", !.req = ImportRequest(label, seed),
                                 !.want = want, !.expired = (1..newest) \ live]
             req == [label |-> label, seed |-> seed]
  <2>1. /\ call' = [call EXCEPT ![t] = d]
        /\ UNCHANGED <<master, wire>>
    BY <1>3 DEF Begin
  <2>2. AskOf(d) = [state |-> "waiting", req |-> req] /\ UnderWay(d)
        /\ Bare(d.req) = req
    BY DEF AskOf, UnderWay, NoCall, ImportRequest, Bare
  <2> HIDE DEF d
  <2>3. /\ call'[t] = d /\ Rest(t)' = Rest(t)
        /\ Asks' = [Asks EXCEPT ![t] = AskOf(d)]
    BY <2>1, Moved
  <2>4. UnderWay(call'[t]) /\ Bare(call'[t].req) = req
    BY <2>2, <2>3
  <2>5. Pending' = Pending \cup {req}
    BY <1>2, <2>3, <2>4, PendingParts, PendingPartsNext
  <2>6. Asks[t] = Once!NoAsk /\ req \in Once!Request
    BY <1>2, AsksParts DEF Once!Request
  <2>7. QED
    BY <2>1, <2>2, <2>3, <2>5, <2>6 DEF Once!Ask
<1>4. ASSUME NEW req, NEW want, req.op # "import", Begin(t, req, want)
      PROVE  UNCHANGED Once!vars
  <2> DEFINE d == [NoCall EXCEPT !.pc = "ready", !.req = req,
                                 !.want = want, !.expired = (1..newest) \ live]
  <2>1. call' = [call EXCEPT ![t] = d] /\ UNCHANGED <<master, wire>>
    BY <1>4 DEF Begin
  <2>2. AskOf(d) = AskOf(call[t]) /\ ~UnderWay(d)
    BY <1>1, <1>4 DEF AskOf, UnderWay, NoCall
  <2> HIDE DEF d
  <2>3. QED
    BY <1>2, <2>1, <2>2, StaysPut DEF Once!vars
<1>5. CASE ImportSlip10Master(t)
  BY <1>3, <1>5, ProvisioningsAssumption DEF ImportSlip10Master
<1>6. CASE SignSchnorr(t)
  BY <1>4, <1>6 DEF SignSchnorr, SignRequest
<1>7. CASE DerivedPublicKey(t)
  BY <1>4, <1>7 DEF DerivedPublicKey, PubkeyRequest
<1>8. QED
  BY <1>5, <1>6, <1>7 DEF Start

(* A call of another kind moves on unseen.                                 *)
LEMMA OtherMaps ==
  ASSUME IInv, NEW t \in Threads, NEW d, call' = [call EXCEPT ![t] = d],
         UNCHANGED <<master, wire>>,
         call[t].req.op # "import", d.req.op # "import"
  PROVE  UNCHANGED Once!vars
<1>1. AskOf(d) = AskOf(call[t]) /\ ~UnderWay(d) /\ ~UnderWay(call[t])
  BY DEF AskOf, UnderWay
<1>2. QED
  BY <1>1, StaysPut DEF Once!vars

(* An import ends without "ok".                                            *)
LEMMA FailMaps ==
  ASSUME IInv, NEW t \in Threads, call[t].pc \in {"sent", "answered"},
         call[t].req.op = "import", NEW res, res # "ok", Finish(t, res, None),
         UNCHANGED master,
         \/ UNCHANGED wire
         \/ \E b : /\ call[t].pc = "sent"
                  /\ wire' = wire \cup {[label |-> call[t].req.label,
                                         seed |-> call[t].req.seed, bearer |-> b]}
  PROVE  Once!Fail(t)
<1> DEFINE d == Done(call[t], res, None)
           req == Bare(call[t].req)
<1>1. call[t] \in CallType /\ call' = [call EXCEPT ![t] = d]
  BY DEF IInv, TypeOK, Finish
<1>2. d.pc = "done" /\ d.res = res /\ d.req = call[t].req
  BY DEF Done, NoCall
<1> HIDE DEF d
<1>3. /\ AskOf(d) = [state |-> "failed", req |-> req]
      /\ AskOf(call[t]) = [state |-> "waiting", req |-> req]
      /\ ~UnderWay(d)
  BY <1>2 DEF AskOf, UnderWay
<1>4. call'[t] = d /\ Asks' = [Asks EXCEPT ![t] = AskOf(d)]
  BY <1>1, Moved
<1>5. Once!Settle(req)
  <2>1. ~UnderWay(call'[t])
    BY <1>3, <1>4
  <2>2. Pending' = Rest(t)'
    BY <2>1, PendingPartsNext
  <2>3. CASE UNCHANGED wire
    <3>1. Rest(t)' = Rest(t)
      BY <1>1, <2>3, Moved
    <3>2. QED
      BY <2>2, <3>1, PendingParts DEF Once!Settle
  <2>4. CASE wire' # wire
    <3>1. PICK b : /\ call[t].pc = "sent"
                   /\ wire' = wire \cup {[label |-> call[t].req.label,
                                          seed |-> call[t].req.seed, bearer |-> b]}
      BY <2>4
    <3>2. {Bare(r) : r \in wire'} = {Bare(r) : r \in wire} \cup {req}
      <4> DEFINE late == [label |-> call[t].req.label, seed |-> call[t].req.seed,
                          bearer |-> b]
      <4>1. Bare(late) = req
        BY DEF Bare
      <4>2. wire' = wire \cup {late}
        BY <3>1
      <4> HIDE DEF late, req
      <4>3. QED
        BY <4>1, <4>2
    <3>3. \A u \in Threads \ {t} : call'[u] = call[u]
      BY <1>1, Moved
    <3>4. Rest(t)' = Rest(t) \cup {req}
      BY <3>2, <3>3 DEF Rest
    <3>5. UnderWay(call[t])
      BY <3>1 DEF UnderWay
    <3>6. Pending = Rest(t) \cup {req}
      BY <3>5, PendingParts
    <3>7. QED
      BY <2>2, <3>4, <3>6 DEF Once!Settle
  <2>5. QED
    BY <2>3, <2>4
<1>6. Asks[t] = [state |-> "waiting", req |-> req]
  BY <1>3, AsksParts
<1> HIDE DEF req
<1>7. Asks' = [Asks EXCEPT ![t].state = "failed"]
  <2>1. [Asks[t] EXCEPT !.state = "failed"] = [state |-> "failed", req |-> req]
    BY <1>6
  <2>2. QED
    BY <1>3, <1>4, <2>1
<1>8. QED
  BY <1>5, <1>6, <1>7 DEF Once!Fail

(* The client's own steps: only the end of an import is seen.              *)
LEMMA StepMaps ==
  ASSUME IInv, Credit, NEW t \in Threads, Step(t)
  PROVE  Once!Next \/ UNCHANGED Once!vars
<1>1. call[t] \in CallType /\ UNCHANGED master
  BY DEF IInv, TypeOK, Step, Send, GiveUp, Receive
<1>2. CASE Send(t)
  <2> DEFINE d == [call[t] EXCEPT !.pc = "sent", !.bearer = Current]
  <2>1. call' = [call EXCEPT ![t] = d] /\ wire' = wire /\ call[t].pc = "ready"
    BY <1>1, <1>2 DEF Send, At
  <2>2. d.req = call[t].req /\ d.pc = "sent"
    BY <1>1 DEF CallType
  <2> HIDE DEF d
  <2>3. AskOf(d) = AskOf(call[t]) /\ (UnderWay(d) <=> UnderWay(call[t]))
    BY <2>1, <2>2 DEF AskOf, UnderWay
  <2>4. QED
    BY <1>1, <2>1, <2>2, <2>3, StaysPut DEF Once!vars
<1>3. ASSUME NEW r, NEW o, Finish(t, r, o), UNCHANGED wire,
             call[t].req.op # "import"
      PROVE  UNCHANGED Once!vars
  <2> DEFINE d == Done(call[t], r, o)
  <2>1. call' = [call EXCEPT ![t] = d] /\ d.req = call[t].req
    BY <1>3 DEF Finish, Done, NoCall
  <2> HIDE DEF d
  <2>2. QED
    BY <1>1, <1>3, <2>1, OtherMaps
<1>4. CASE GiveUp(t)
  <2>1. CASE call[t].req.op = "import"
    BY <1>1, <1>4, <2>1, FailMaps DEF GiveUp, At, Once!Next
  <2>2. CASE call[t].req.op # "import"
    BY <1>3, <1>4, <2>2 DEF GiveUp
  <2>3. QED
    BY <2>1, <2>2
<1>5. CASE Receive(t)
  <2>1. call[t].pc = "answered" /\ UNCHANGED wire
    BY <1>5 DEF Receive, At
  <2>2. CASE call[t].req.op # "import"
    <3>1. PICK r, o : Finish(t, r, o)
      BY <1>5 DEF Receive
    <3>2. QED
      BY <1>3, <2>1, <2>2, <3>1
  <2>3. CASE call[t].req.op = "import" /\ call[t].status # "ok"
    BY <1>1, <1>5, <2>1, <2>3, FailMaps DEF Receive, Once!Next
  <2>4. CASE call[t].req.op = "import" /\ call[t].status = "ok"
    <3> DEFINE d == Done(call[t], "ok", None)
               req == Bare(call[t].req)
    <3>1. call' = [call EXCEPT ![t] = d]
      BY <1>5, <2>4 DEF Receive, Finish
    <3>2. d.req = call[t].req /\ d.pc = "done" /\ d.res = "ok"
      BY DEF Done, NoCall
    <3> HIDE DEF d
    <3>3. /\ AskOf(d) = [state |-> "ok", req |-> req] /\ ~UnderWay(d)
          /\ AskOf(call[t]) = [state |-> "waiting", req |-> req]
          /\ ~UnderWay(call[t])
      BY <2>1, <2>4, <3>2 DEF AskOf, UnderWay
    <3>4. /\ call'[t] = d /\ Rest(t)' = Rest(t)
          /\ Asks' = [Asks EXCEPT ![t] = AskOf(d)]
      BY <2>1, <3>1, Moved
    <3>5. ~UnderWay(call'[t])
      BY <3>3, <3>4
    <3>6. Pending' = Pending
      BY <3>3, <3>4, <3>5, PendingParts, PendingPartsNext
    <3>7. Asks[t] = [state |-> "waiting", req |-> req]
      BY <3>3, AsksParts
    <3>8. master[req.label] = req.seed
      BY <2>1, <2>4 DEF Credit, CreditOK, Bare
    <3> HIDE DEF req
    <3>9. [Asks[t] EXCEPT !.state = "ok"] = [state |-> "ok", req |-> req]
      BY <3>7
    <3>10. Asks' = [Asks EXCEPT ![t].state = "ok"]
      BY <3>3, <3>4, <3>9
    <3>11. Once!Succeed(t)
      BY <1>1, <3>6, <3>7, <3>8, <3>10 DEF Once!Succeed
    <3>12. QED
      BY <3>11 DEF Once!Next
  <2>5. QED
    BY <2>2, <2>3, <2>4
<1>6. QED
  BY <1>2, <1>4, <1>5 DEF Step

LEMMA TakeMaps ==
  ASSUME IInv, NEW t \in Threads, Take(t)
  PROVE  Once!Return(t) \/ UNCHANGED Once!vars
<1>1. /\ call[t].pc = "done" /\ call' = [call EXCEPT ![t] = NoCall]
      /\ UNCHANGED <<master, wire>>
  BY DEF Take, At
<1>2. AskOf(NoCall) = Once!NoAsk /\ ~UnderWay(NoCall) /\ NoCall.req.op = "none"
  BY DEF AskOf, UnderWay, NoCall, NoRequest, Once!NoAsk
<1>3. CASE call[t].req.op # "import"
  BY <1>1, <1>2, <1>3, OtherMaps
<1>4. CASE call[t].req.op = "import"
  <2>1. /\ call'[t] = NoCall /\ Rest(t)' = Rest(t)
        /\ Asks' = [Asks EXCEPT ![t] = Once!NoAsk]
    BY <1>1, <1>2, Moved
  <2>2. ~UnderWay(call[t]) /\ ~UnderWay(call'[t])
    BY <1>1, <1>2, <2>1 DEF UnderWay
  <2>3. Pending' = Pending
    BY <2>1, <2>2, PendingParts, PendingPartsNext
  <2>4. Asks[t].state \in {"ok", "failed"}
    BY <1>1, <1>4, AsksParts DEF AskOf
  <2>5. QED
    BY <1>1, <2>1, <2>3, <2>4 DEF Once!Return
<1>5. QED
  BY <1>3, <1>4

(* The broker answers: an import's request has been used up.               *)
LEMMA AnswerMaps ==
  ASSUME IInv, NEW t \in Threads, call[t].pc = "sent",
         NEW status, NEW body, NEW applied, Answer(t, status, body, applied),
         UNCHANGED wire
  PROVE  /\ call[t].req.op # "import" => UNCHANGED <<Pending, Asks>>
         /\ call[t].req.op = "import" =>
              /\ Bare(call[t].req) \in Pending
              /\ Once!Settle(Bare(call[t].req))
              /\ UNCHANGED Asks
<1> DEFINE d == Answered(call[t], status, body, applied)
<1>1. call[t] \in CallType /\ call' = [call EXCEPT ![t] = d]
  BY DEF Answer, IInv, TypeOK
<1>2. d.req = call[t].req /\ d.pc = "answered"
  BY DEF Answered, NoCall
<1> HIDE DEF d
<1>3. AskOf(d) = AskOf(call[t]) /\ ~UnderWay(d)
  BY <1>2 DEF AskOf, UnderWay
<1>4. CASE call[t].req.op # "import"
  <2>1. ~UnderWay(call[t])
    BY <1>4 DEF UnderWay
  <2>2. QED
    BY <1>1, <1>3, <1>4, <2>1, StaysPut
<1>5. CASE call[t].req.op = "import"
  <2>1. UnderWay(call[t])
    BY <1>5 DEF UnderWay
  <2>2. Bare(call[t].req) \in Pending /\ Once!Settle(Bare(call[t].req))
    BY <1>1, <1>3, <2>1, Settled
  <2>3. Asks' = [Asks EXCEPT ![t] = AskOf(d)]
    BY <1>1, Moved
  <2>4. Asks = [Asks EXCEPT ![t] = AskOf(call[t])]
    BY AsksParts
  <2>5. QED
    BY <1>3, <1>5, <2>2, <2>3, <2>4
<1>6. QED
  BY <1>4, <1>5

LEMMA ServeMaps ==
  ASSUME IInv, NEW t \in Threads, Serve(t)
  PROVE  Once!Next \/ UNCHANGED Once!vars
<1> DEFINE req == Bare(call[t].req)
<1>1. call[t].pc = "sent" /\ UNCHANGED wire
  BY DEF Serve, Refuse, ServeImport, ServeKey, At
<1>2. ASSUME NEW status, NEW body, Answer(t, status, body, FALSE),
             UNCHANGED master
      PROVE  Once!Next \/ UNCHANGED Once!vars
  <2>1. CASE call[t].req.op # "import"
    BY <1>1, <1>2, <2>1, AnswerMaps DEF Once!vars
  <2>2. CASE call[t].req.op = "import"
    BY <1>1, <1>2, <2>2, AnswerMaps DEF Once!Forget, Once!Next
  <2>3. QED
    BY <2>1, <2>2
<1>3. CASE Refuse(t) \/ ServeKey(t)
  <2>1. PICK s, b : Answer(t, s, b, FALSE)
    BY <1>3 DEF Refuse, ServeKey
  <2>2. UNCHANGED master
    BY <1>3 DEF Refuse, ServeKey
  <2>3. QED
    BY <1>2, <2>1, <2>2
<1>4. CASE ServeImport(t)
  <2>1. CASE Answer(t, "duplicate", None, FALSE) /\ UNCHANGED master
    BY <1>2, <2>1
  <2>2. CASE /\ Register(call[t].req.label, call[t].req.seed)
             /\ Answer(t, "ok", None, TRUE)
    <3>1. req \in Pending /\ Once!Settle(req) /\ UNCHANGED Asks
      BY <1>1, <1>4, <2>2, AnswerMaps DEF ServeImport
    <3>2. /\ master[req.label] = None
          /\ master' = [master EXCEPT ![req.label] = req.seed]
      BY <2>2 DEF Register, Bare
    <3> HIDE DEF req
    <3>3. QED
      BY <3>1, <3>2 DEF Once!Apply, Once!Next
  <2>3. QED
    BY <1>4, <2>1, <2>2 DEF ServeImport
<1>5. QED
  BY <1>3, <1>4 DEF Serve

(* An abandoned request is applied after all, or lost.                     *)
LEMMA LateMaps ==
  ASSUME IInv, ServeLate
  PROVE  Once!Apply \/ Once!Forget
<1>1. PICK late \in wire :
        /\ wire' = wire \ {late}
        /\ Register(late.label, late.seed) \/ UNCHANGED master
  BY DEF ServeLate
<1> DEFINE req == Bare(late)
           Others == {Asked(u) : u \in {v \in Threads :
                        Importing(v) /\ call[v].pc \in {"ready", "sent"}}}
<1>2. UNCHANGED Asks /\ Others' = Others
  BY DEF ServeLate, Asks, Importing, Asked
<1>3. /\ Pending = {Bare(r) : r \in wire} \cup Others
      /\ Pending' = {Bare(r) : r \in wire'} \cup Others'
  BY DEF Pending, Bare
<1>4. req \in Pending
  BY <1>1, <1>3
<1> HIDE DEF Others, req
<1>5. Once!Settle(req)
  <2>1. {Bare(r) : r \in wire'} \cup {req} = {Bare(r) : r \in wire}
    BY <1>1 DEF req
  <2>2. QED
    BY <1>2, <1>3, <2>1 DEF Once!Settle
<1>6. CASE Register(late.label, late.seed)
  <2>1. /\ master[req.label] = None
        /\ master' = [master EXCEPT ![req.label] = req.seed]
    BY <1>6 DEF Register, Bare, req
  <2>2. QED
    BY <1>2, <1>4, <1>5, <2>1 DEF Once!Apply
<1>7. CASE UNCHANGED master
  BY <1>2, <1>4, <1>5, <1>7 DEF Once!Forget
<1>8. QED
  BY <1>1, <1>6, <1>7

LEMMA OnceNext == IInv /\ Credit /\ [Next]_vars => [Once!Next]_(Once!vars)
<1> SUFFICES ASSUME IInv, Credit, [Next]_vars
             PROVE  Once!Next \/ UNCHANGED Once!vars
  OBVIOUS
<1>1. ASSUME NEW t \in Threads, Start(t) \/ Take(t)
      PROVE  Once!Next \/ UNCHANGED Once!vars
  BY <1>1, StartMaps, TakeMaps DEF Once!Next
<1>2. CASE ServeLate
  BY <1>2, LateMaps DEF Once!Next
<1>3. CASE Issue \/ Expire \/ UNCHANGED vars
  BY <1>3 DEF Issue, Expire, vars, Once!vars, Pending, Asks, Asked, Importing
<1>4. QED
  BY <1>1, <1>2, <1>3, StepMaps, ServeMaps DEF Next

(* However imports overlap, time out, are answered with an error or served *)
(* late, a label gets one master for good, of a seed some caller asked     *)
(* for, and Ok is told only to a caller whose seed it is (mod.rs:169-212). *)
THEOREM TsbImplementsImportOnce == Spec => ImplementsImportOnce
<1>1. Init => Once!Init /\ Credit
  BY OnceInit
<1>2. IInv /\ Credit /\ [Next]_vars => Credit'
  BY CreditNext
<1>3. IInv /\ Credit /\ [Next]_vars => [Once!Next]_(Once!vars)
  BY OnceNext
<1>4. QED
  BY <1>1, <1>2, <1>3, Invariant, PTL DEF Spec, ImplementsImportOnce, Once!Spec
=============================================================================
