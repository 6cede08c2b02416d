----------------------------- MODULE TsbClient -----------------------------
(***************************************************************************)
(* TsbClient (src/tsb/mod.rs): several threads share one client, and each  *)
(* call is one request to the Transaction Security Broker.  The broker and *)
(* the authorization service that issues bearer tokens are not part of the *)
(* repository: a request may be refused, fail, get lost, or be applied     *)
(* after the client has given up; a token may expire at any time.          *)
(***************************************************************************)
EXTENDS Naturals, Sequences, FiniteSets

CONSTANTS
  Threads,
  Labels,         \* on-token labels of masters
  Seeds,
  Provisionings,  \* <<label, seed>> pairs that are imported
  KeyNames,       \* <<label, BIP-32 path>> pairs that callers name a key by
  Sighashes,      \* digests to sign
  None,
  Refreshing,     \* the JwtProvider refreshes (TRUE) or is a StaticJwt (FALSE)
  MaxTokens,      \* bound: bearer tokens the authorization service issues
  MaxWire         \* bound: abandoned imports the broker may still apply

(* How the broker answers, beside "ok" with the body that was asked for.   *)
Statuses == {"ok", "unauthorized", "duplicate", "unknownKey", "error"}

ASSUME NoneAssumption == None \notin Seeds \cup Statuses
ASSUME ProvisioningsAssumption == Provisionings \subseteq Labels \X Seeds
ASSUME KeyNamesAssumption == KeyNames \subseteq Labels \X Seq(Nat)
ASSUME TokensAssumption == MaxTokens \in Nat \ {0}

VARIABLES
  master,  \* broker: the seed whose master a label holds, or None
  newest,  \* authorization service: the last token it issued
  live,    \* broker: the tokens it still accepts
  wire,    \* broker: imports whose client gave up on them
  call     \* what each thread is doing inside the client

vars == <<master, newest, live, wire, call>>

-----------------------------------------------------------------------------
(* Requests.  sign_key_name: "<master label>/<path>", the bare label when  *)
(* the path is empty; the broker takes the name apart again.               *)

(* Mutant: the path below the master is left out of the name.              *)
SignKeyNameBare(label, path) == <<label>>
SignKeyName(label, path) == <<label>> \o path

ImportRequest(label, seed) ==
  [op |-> "import", label |-> label, seed |-> seed, path |-> << >>,
   sighash |-> None]
SignRequest(name, sighash) ==
  [op |-> "sign", label |-> Head(name), seed |-> None, path |-> Tail(name),
   sighash |-> sighash]
PubkeyRequest(label, path) ==
  [op |-> "pubkey", label |-> label, seed |-> None, path |-> path,
   sighash |-> None]
NoRequest ==
  [op |-> "none", label |-> None, seed |-> None, path |-> << >>,
   sighash |-> None]

(* The key of a path below a seed's master, and a signature made with it.  *)
Leaf(seed, path) == [seed |-> seed, path |-> path]
Signature(key, sighash) == [key |-> key, sighash |-> sighash]

-----------------------------------------------------------------------------
(* The local state of a call.  want and expired are history variables: the *)
(* arguments the caller named the key and the digest by, and the tokens    *)
(* already expired when the call began.  applied: the broker registered    *)
(* the master for this call.                                               *)

Wanted(label, path, sighash) ==
  [label |-> label, path |-> path, sighash |-> sighash]
NoWant == Wanted(None, << >>, None)

NoCall == [pc |-> "idle", req |-> NoRequest, want |-> NoWant, expired |-> {},
           bearer |-> 0, applied |-> FALSE, status |-> None, body |-> None,
           res |-> None, out |-> None]

At(t, pc) == call[t].pc = pc
Busy(t) == call[t].pc \notin {"idle", "done"}

(* What is left of a call that has returned.                               *)
Done(c, res, out) ==
  [NoCall EXCEPT !.pc = "done", !.req = c.req, !.want = c.want,
                 !.applied = c.applied, !.res = res, !.out = out]
Finish(t, res, out) == call' = [call EXCEPT ![t] = Done(call[t], res, out)]

(* JwtProvider::current.  Mutant: the token the client was built with.     *)
CurrentAtBuild == 1
Current == IF Refreshing THEN newest ELSE 1

Init ==
  /\ master = [l \in Labels |-> None]
  /\ newest = 1
  /\ live = {1}
  /\ wire = {}
  /\ call = [t \in Threads |-> NoCall]

-----------------------------------------------------------------------------
Begin(t, req, want) ==
  /\ At(t, "idle")
  /\ call' = [call EXCEPT ![t] =
       [NoCall EXCEPT !.pc = "ready", !.req = req, !.want = want,
                      !.expired = (1..newest) \ live]]
  /\ UNCHANGED <<master, newest, live, wire>>

ImportSlip10Master(t) ==
  \E p \in Provisionings :
    Begin(t, ImportRequest(p[1], p[2]), Wanted(p[1], << >>, None))

(* sign_schnorr names the key and calls sign_bip340.                       *)
SignSchnorr(t) ==
  \E k \in KeyNames, sighash \in Sighashes :
    Begin(t, SignRequest(SignKeyName(k[1], k[2]), sighash),
          Wanted(k[1], k[2], sighash))

DerivedPublicKey(t) ==
  \E k \in KeyNames :
    Begin(t, PubkeyRequest(k[1], k[2]), Wanted(k[1], k[2], None))

(* Mutant: bearer_auth is forgotten.                                       *)
SendBare(t) ==
  /\ At(t, "ready")
  /\ call' = [call EXCEPT ![t].pc = "sent"]
  /\ UNCHANGED <<master, newest, live, wire>>

(* post(..).bearer_auth(self.bearer()).send(): the token is read for this  *)
(* request, when it is sent.                                               *)
Send(t) ==
  /\ At(t, "ready")
  /\ call' = [call EXCEPT ![t].pc = "sent", ![t].bearer = Current]
  /\ UNCHANGED <<master, newest, live, wire>>

(* Mutant: a request that failed in transport is sent once more.           *)
GiveUpRetry(t) ==
  /\ At(t, "sent") \/ At(t, "answered")
  /\ call' = [call EXCEPT ![t].pc = "ready"]
  /\ UNCHANGED <<master, newest, live, wire>>

(* send() or text() fails: the connection breaks, or 30 seconds are over.  *)
(* A request that has not been served may never be, or be served later.    *)
GiveUp(t) ==
  /\ \/ At(t, "sent") \/ At(t, "answered")
  /\ Finish(t, "http", None)
  /\ \/ UNCHANGED wire
     \/ /\ At(t, "sent") /\ call[t].req.op = "import"
        /\ Cardinality(wire) < MaxWire
        /\ wire' = wire \cup {[label |-> call[t].req.label,
                               seed |-> call[t].req.seed,
                               bearer |-> call[t].bearer]}
  /\ UNCHANGED <<master, newest, live>>

(* Mutant: the status is not looked at.                                    *)
ReceiveUnchecked(t) ==
  /\ At(t, "answered")
  /\ Finish(t, "ok", call[t].body)
  /\ UNCHANGED <<master, newest, live, wire>>

(* The status decides first: anything but a 2xx is TsbError::Api.  An      *)
(* import ignores the body; the others decode it - JSON, the field, its    *)
(* base64, its length and the point - or fail with TsbError::Decode.       *)
Receive(t) ==
  LET c == call[t] IN
  /\ At(t, "answered")
  /\ \/ c.status # "ok" /\ Finish(t, c.status, None)
     \/ c.status = "ok" /\ c.req.op = "import" /\ Finish(t, "ok", None)
     \/ /\ c.status = "ok" /\ c.req.op # "import"
        /\ IF c.body = None THEN Finish(t, "decode", None)
           ELSE Finish(t, "ok", c.body)
  /\ UNCHANGED <<master, newest, live, wire>>

Take(t) ==
  /\ At(t, "done")
  /\ call' = [call EXCEPT ![t] = NoCall]
  /\ UNCHANGED <<master, newest, live, wire>>

-----------------------------------------------------------------------------
(* The broker.                                                             *)

(* What the client has of a call that is answered; the token is used up.   *)
Answered(c, status, body, applied) ==
  [NoCall EXCEPT !.pc = "answered", !.req = c.req, !.want = c.want,
                 !.applied = c.applied \/ applied, !.status = status,
                 !.body = body]
Answer(t, status, body, applied) ==
  call' = [call EXCEPT ![t] = Answered(call[t], status, body, applied)]

(* It refuses a token it no longer accepts, and may fail on any request.   *)
Refuse(t) ==
  /\ At(t, "sent")
  /\ \/ call[t].bearer \notin live /\ Answer(t, "unauthorized", None, FALSE)
     \/ Answer(t, "error", None, FALSE)
  /\ UNCHANGED <<master, newest, live, wire>>

Register(label, seed) ==
  /\ master[label] = None
  /\ master' = [master EXCEPT ![label] = seed]

(* importedKey: a label in use is rejected, whatever seed it was used for. *)
ServeImport(t) ==
  LET req == call[t].req IN
  /\ At(t, "sent") /\ call[t].bearer \in live /\ req.op = "import"
  /\ \/ /\ Register(req.label, req.seed)
        /\ Answer(t, "ok", None, TRUE)
     \/ /\ master[req.label] # None
        /\ Answer(t, "duplicate", None, FALSE)
        /\ UNCHANGED master
  /\ UNCHANGED <<newest, live, wire>>

(* synchronousSign and derivedKey: the broker derives the leaf on the fly. *)
(* A body that does not decode is None.                                    *)
ServeKey(t) ==
  LET req  == call[t].req
      leaf == Leaf(master[req.label], req.path)
  IN
  /\ At(t, "sent") /\ call[t].bearer \in live /\ req.op \in {"sign", "pubkey"}
  /\ \/ master[req.label] = None /\ Answer(t, "unknownKey", None, FALSE)
     \/ /\ master[req.label] # None
        /\ \/ Answer(t, "ok", IF req.op = "sign"
                              THEN Signature(leaf, req.sighash) ELSE leaf, FALSE)
           \/ Answer(t, "ok", None, FALSE)
  /\ UNCHANGED <<master, newest, live, wire>>

(* An abandoned import is served after all, or lost.                       *)
ServeLate ==
  /\ \E req \in wire :
       /\ wire' = wire \ {req}
       /\ \/ req.bearer \in live /\ Register(req.label, req.seed)
          \/ UNCHANGED master
  /\ UNCHANGED <<newest, live, call>>

(* The authorization service issues a new token before the last expires.   *)
Issue ==
  /\ newest < MaxTokens
  /\ newest' = newest + 1
  /\ live' = live \cup {newest + 1}
  /\ UNCHANGED <<master, wire, call>>

Expire ==
  /\ \E token \in live \ {newest} : live' = live \ {token}
  /\ UNCHANGED <<master, newest, wire, call>>

-----------------------------------------------------------------------------
Start(t) == ImportSlip10Master(t) \/ SignSchnorr(t) \/ DerivedPublicKey(t)
Step(t) == Send(t) \/ GiveUp(t) \/ Receive(t)
Serve(t) == Refuse(t) \/ ServeImport(t) \/ ServeKey(t)

Next ==
  \/ \E t \in Threads : Start(t) \/ Step(t) \/ Serve(t) \/ Take(t)
  \/ ServeLate \/ Issue \/ Expire

Spec == Init /\ [][Next]_vars

(* A thread keeps running and its request times out: nothing is assumed of *)
(* the broker.                                                             *)
FairSpec == Spec /\ \A t \in Threads : WF_vars(Step(t))

-----------------------------------------------------------------------------
(* Properties.                                                             *)

Maybe(S) == S \cup {None}
LeafType == [seed : Seeds, path : Seq(Nat)]

RequestType ==
  [op : {"none", "import", "sign", "pubkey"}, label : Maybe(Labels),
   seed : Maybe(Seeds), path : Seq(Nat), sighash : Maybe(Sighashes)]
WantType == [label : Maybe(Labels), path : Seq(Nat), sighash : Maybe(Sighashes)]

CallType ==
  [pc : {"idle", "ready", "sent", "answered", "done"}, req : RequestType,
   want : WantType, expired : SUBSET (1..newest), bearer : 0..newest,
   applied : BOOLEAN, status : Maybe(Statuses),
   body : Maybe(LeafType \cup [key : LeafType, sighash : Sighashes]),
   res : Maybe(Statuses \cup {"http", "decode"}),
   out : Maybe(LeafType \cup [key : LeafType, sighash : Sighashes])]

(* Every variable has its type, and every request the client has sent,     *)
(* also one it has given up on, carries a bearer token.                    *)
TypeOK ==
  /\ master \in [Labels -> Maybe(Seeds)]
  /\ newest \in 1..MaxTokens
  /\ live \subseteq 1..newest
  /\ \A req \in wire : req \in [label : Labels, seed : Seeds, bearer : 1..newest]
  /\ call \in [Threads -> CallType]
  /\ \A t \in Threads : At(t, "sent") => call[t].bearer # 0

(* What a call that succeeds returns is of the key its caller named: a     *)
(* signature of the caller's own digest by the leaf at the full path below *)
(* the master of the caller's label, or that leaf; through the name and    *)
(* the request they are put into, whatever other threads do meanwhile to   *)
(* this label and to others, and however malformed a 2xx body may be       *)
(* (mod.rs:119-167, 214-258, 347-364).                                     *)
AnswersOwnKey ==
  \A t \in Threads :
    LET c    == call[t]
        leaf == Leaf(master[c.want.label], c.want.path)
    IN
    c.pc = "done" /\ c.res = "ok" =>
      /\ c.req.op = "sign" => c.out = Signature(leaf, c.want.sighash)
      /\ c.req.op = "pubkey" => c.out = leaf

(* "already exists" (mod.rs:179-182) is never this call's own doing: the   *)
(* client sends a request once, so a caller that gets it knows that the    *)
(* label was taken before.                                                 *)
DuplicateIsForeign ==
  \A t \in Threads : call[t].res = "duplicate" => ~call[t].applied

(* With a provider that refreshes, no call is refused for a token that had *)
(* expired before it began: the provider is asked on every request, so     *)
(* that a refresh is transparent (mod.rs:27-31).                           *)
RefreshIsTransparent ==
  [][Refreshing => \A t \in Threads :
       At(t, "sent") /\ call'[t].status = "unauthorized" =>
         call[t].bearer \notin call[t].expired]_vars

(* Every call into the client returns.                                     *)
EveryCallReturns == \A t \in Threads : Busy(t) ~> ~Busy(t)

-----------------------------------------------------------------------------
(* The imports of the client implement ImportOnce.                         *)

Asked(t) == [label |-> call[t].req.label, seed |-> call[t].req.seed]
Importing(t) == call[t].req.op = "import"

Pending ==
  {[label |-> req.label, seed |-> req.seed] : req \in wire}
    \cup {Asked(t) : t \in {u \in Threads :
                              Importing(u) /\ call[u].pc \in {"ready", "sent"}}}
Asks ==
  [t \in Threads |->
     IF ~Importing(t) THEN [state |-> "idle", req |-> None]
     ELSE [state |-> IF call[t].pc # "done" THEN "waiting"
                     ELSE IF call[t].res = "ok" THEN "ok" ELSE "failed",
           req |-> Asked(t)]]

Once == INSTANCE ImportOnce
          WITH Callers <- Threads, pending <- Pending, ask <- Asks

(* However calls overlap, time out and are served late, a label gets one   *)
(* master for good, of a seed some caller asked for, and Ok is told only   *)
(* to a caller whose seed it is (mod.rs:169-182).                          *)
ImplementsImportOnce == Once!Spec
=============================================================================
