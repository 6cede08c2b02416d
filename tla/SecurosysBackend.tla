-------------------------- MODULE SecurosysBackend --------------------------
(***************************************************************************)
(* SecurosysBackend (src/pkcs11/backend.rs) over one token, shared by      *)
(* several threads, restarted with the environment it then finds.          *)
(*                                                                         *)
(* Every PKCS#11 call, every TSB request and every hold of the pub_of      *)
(* mutex is one step of the calling thread; between two of them the other  *)
(* threads, the broker and the environment may act.  The backend is shared *)
(* by reference and takes the session as an argument, so nothing in it     *)
(* forbids any of these interleavings.                                     *)
(***************************************************************************)
EXTENDS PubMap, FiniteSets

CONSTANTS
  Threads,
  Provisionings,  \* <<seed, label>> pairs given to derive_master_key
  EmptySeed,
  Paths,          \* paths given to derive_path
  MaxDepth,       \* bound: longest path a derived key may have
  MaxCopies,      \* bound: native masters the token holds under one label
  MaxWire,        \* bound: requests the broker may still apply later
  Envs,           \* TSB environments a restart may find: [url, jwt]
  InOrder,        \* bound: TRUE makes the token issue the lowest free handles
  Reissue         \* TRUE: the token may issue a dead object's handle again,
                  \* whoever in this process still remembers it

ASSUME ProvisioningsAssumption ==
  Provisionings \subseteq (Seeds \cup {EmptySeed}) \X (Label \ {NoLabel})
ASSUME PathsAssumption == Paths \subseteq Seq(Nat)
ASSUME EnvsAssumption == Envs \subseteq [url : BOOLEAN, jwt : BOOLEAN]
ASSUME NoneIsNoOutcome == None \notin {"ok", "duplicate", "failed"}

VARIABLES
  store,    \* the token: the object behind each handle, or None
  wire,     \* imports the client gave up on and the broker may still apply
  taproot,  \* whether the backend found TSB configured when it was built
  pubOf,    \* the backend's PubMap
  outdated, \* history: mapped handles whose entry is not about their object
  call      \* what each thread is doing inside the backend

vars == <<store, wire, taproot, pubOf, outdated, call>>

-----------------------------------------------------------------------------
(* The local state of a call: the handles it holds, what it has read so    *)
(* far, and the key its caller asked about (want).  stale: its session was *)
(* lost.  age and old are history variables: how many entries of pubOf are *)
(* behind the one this call recorded and has yet to look up, or Cap; and   *)
(* that the map answered this call with an outdated entry.                 *)

NoCall == [op |-> "none", pc |-> "idle", res |-> None, imp |-> None,
           label |-> NoLabel, path |-> << >>, want |-> None, priv |-> None,
           pub |-> None, point |-> None, chain |-> None, age |-> Cap,
           old |-> FALSE, stale |-> FALSE]

HsmPcs == {"gen", "derive", "findPriv", "findPub", "label", "same",
           "sibling", "point", "chain"}
Pcs == HsmPcs \cup {"idle", "import", "record", "lookup", "done"}
Ops == {"none", "master", "account", "leaf", "reload"}
Results == {"ok", "emptySeed", "hsmError", "importFailed", "noPriv", "noPub"}

At(t, pc) == call[t].pc = pc
HsmAt(t, pc) == At(t, pc) /\ ~call[t].stale
Busy(t) == call[t].pc \notin {"idle", "done"}

(* All that is left of a call that returns something other than an xpub.   *)
Returned(c, res) == [NoCall EXCEPT !.op = c.op, !.pc = "done", !.res = res]
Return(t, res) == call' = [call EXCEPT ![t] = Returned(call[t], res)]

Env == [url : BOOLEAN, jwt : BOOLEAN]

(* from_env, and new's unwrap_or_else: no signer unless both are set and   *)
(* the HTTP client can be built.                                           *)
TaprootIn(env, built) == env.url /\ env.jwt /\ built

Init ==
  /\ store = [h \in Handles |-> None]
  /\ wire = {}
  /\ \E env \in Envs, built \in BOOLEAN : taproot = TaprootIn(env, built)
  /\ pubOf = EmptyPubMap
  /\ outdated = {}
  /\ call = [t \in Threads |-> NoCall]

-----------------------------------------------------------------------------
(* The token issues two handles that no object has.  One that reissues     *)
(* handles knows nothing of what a process remembers; for one that does    *)
(* not, a handle nobody remembers is as good as one never issued.  InOrder *)
(* leaves a token that reissues handles two choices of the second one, so  *)
(* that a handle may come back with another partner.                       *)

InMap == Mapped(pubOf) \cup {pubOf.map[h] : h \in Mapped(pubOf)}
Remembered ==
  InMap \cup {call[t].priv : t \in Threads} \cup {call[t].pub : t \in Threads}
Free == Handles \ (Live(store) \cup (IF Reissue THEN {} ELSE Remembered))

FreePair(hPriv, hPub) ==
  /\ hPriv # hPub
  /\ InOrder => /\ \A h \in Free : hPriv <= h
                /\ Cardinality({h \in Free \ {hPriv} : h < hPub})
                     <= (IF Reissue THEN 1 ELSE 0)

(* An entry the map has of the handle is now about a former object.        *)
Outdate(h) == outdated' = outdated \cup ({h} \cap Mapped(pubOf))

(* Handles a caller can pass in: a labelled master it finds on the token,  *)
(* or a child some call has returned.                                      *)
Masters == {h \in Live(store) :
              store[h].class = "private" /\ store[h].label # NoLabel}
Children == {h \in Live(store) :
               /\ store[h].class = "private" /\ store[h].label = NoLabel
               /\ \A t \in Threads : HsmAt(t, "record") => call[t].priv # h}

-----------------------------------------------------------------------------
(* Entry points.                                                           *)

Begin(t, c) == At(t, "idle") /\ call' = [call EXCEPT ![t] = c]

(* Mutant: the empty seed is not rejected.                                 *)
DeriveMasterKeyUnchecked(t) ==
  /\ \E p \in Provisionings :
       Begin(t, [NoCall EXCEPT !.op = "master", !.label = p[2],
                               !.pc = IF taproot THEN "import" ELSE "gen",
                               !.want = Master(p[1])])
  /\ UNCHANGED <<store, wire, taproot, pubOf, outdated>>


(* derive_master_key up to its first call.                                 *)
DeriveMasterKey(t) ==
  /\ \E p \in Provisionings :
       Begin(t, IF p[1] = EmptySeed
                THEN [NoCall EXCEPT !.op = "master", !.pc = "done",
                                    !.res = "emptySeed"]
                ELSE [NoCall EXCEPT !.op = "master", !.label = p[2],
                                    !.pc = IF taproot THEN "import" ELSE "gen",
                                    !.want = Master(p[1])])
  /\ UNCHANGED <<store, wire, taproot, pubOf, outdated>>

(* derive_path of a signing key from any key ("leaf"), or of the account   *)
(* key from a master followed by read_xpub of the handle it returned.      *)
DerivePath(t) ==
  /\ \E op \in {"account", "leaf"}, path \in Paths,
        h \in Masters \cup Children :
       /\ op = "account" => h \in Masters
       /\ Len(store[h].key.path) + Len(path) <= MaxDepth
       /\ Begin(t, [NoCall EXCEPT
                      !.op = op, !.path = path, !.priv = h,
                      !.want = Child(store[h].key, path),
                      !.pc = IF path # << >> THEN "derive"
                             ELSE IF op = "account" THEN "lookup" ELSE "done",
                      !.res = IF path = << >> /\ op = "leaf" THEN "ok"
                              ELSE None])
  /\ UNCHANGED <<store, wire, taproot, pubOf, outdated>>

(* read_xpub, or master_fingerprint, of a master found by its label.       *)
ReadXpub(t) ==
  /\ \E h \in Masters :
       Begin(t, [NoCall EXCEPT !.op = "reload", !.pc = "lookup", !.priv = h,
                               !.want = store[h].key])
  /\ UNCHANGED <<store, wire, taproot, pubOf, outdated>>

(* The caller takes the result.                                            *)
Take(t) ==
  /\ At(t, "done")
  /\ call' = [call EXCEPT ![t] = NoCall]
  /\ UNCHANGED <<store, wire, taproot, pubOf, outdated>>

-----------------------------------------------------------------------------
(* Native creation and derivation.                                         *)

(* C_GenerateKeyPair: two token objects under sibling labels; the token    *)
(* does not mind that objects with these labels exist already.             *)
Generate(t) ==
  /\ HsmAt(t, "gen")
  /\ Cardinality(Matching(store, "private", call[t].label)) < MaxCopies
  /\ \E hPriv, hPub \in Free :
       /\ FreePair(hPriv, hPub)
       /\ store' = WithPair(store, hPriv, hPub,
            KeyObject("private", call[t].want, call[t].label, TRUE, FALSE),
            KeyObject("public", call[t].want, PubSiblingLabel(call[t].label),
                      TRUE, FALSE))
       /\ Outdate(hPriv)
       /\ call' = [call EXCEPT ![t].pc = "record", ![t].priv = hPriv,
                               ![t].pub = hPub]
  /\ UNCHANGED <<wire, taproot, pubOf>>

(* C_DeriveKeyPair: two session objects without a label.                   *)
Derive(t) ==
  /\ HsmAt(t, "derive")
  /\ call[t].priv \in Live(store)
  /\ \E hPriv, hPub \in Free :
       LET child == Child(store[call[t].priv].key, call[t].path) IN
       /\ FreePair(hPriv, hPub)
       /\ store' = WithPair(store, hPriv, hPub,
            KeyObject("private", child, NoLabel, FALSE, FALSE),
            KeyObject("public", child, NoLabel, FALSE, FALSE))
       /\ Outdate(hPriv)
       /\ call' = [call EXCEPT ![t].pc = "record", ![t].priv = hPriv,
                               ![t].pub = hPub]
  /\ UNCHANGED <<wire, taproot, pubOf>>

(* record_pair, then what the operation does next: a master's xpub is read *)
(* through the handles at hand, an account's through the map, and a leaf's *)
(* handle is returned.  A call whose session was lost records a pair that  *)
(* is gone, a master's apart, and maybe over one that is there.            *)
Record(t) ==
  LET isNew == call[t].priv \notin Mapped(pubOf)
      later(u) == IF isNew /\ At(u, "lookup") /\ call[u].age < Cap
                  THEN call[u].age + 1 ELSE call[u].age
      next == CASE call[t].op = "master"  -> [call[t] EXCEPT !.pc = "point"]
                [] call[t].op = "account" -> [call[t] EXCEPT
                                                !.pc = "lookup", !.pub = None,
                                                !.age = IF isNew THEN 0
                                                        ELSE Behind(pubOf, call[t].priv)]
                [] OTHER -> Returned(call[t], "ok")
      late == call[t].stale /\ call[t].op # "master"
  IN /\ At(t, "record")
     /\ pubOf' = InsertPair(pubOf, call[t].priv, call[t].pub)
     /\ outdated' = Mapped(pubOf') \cap
          (IF late THEN outdated \cup {call[t].priv} ELSE outdated \ {call[t].priv})
     /\ call' = [u \in Threads |->
                   IF u = t THEN next ELSE [call[u] EXCEPT !.age = later(u)]]
     /\ UNCHANGED <<store, wire, taproot>>

-----------------------------------------------------------------------------
(* import_master_via_tsb.                                                  *)

(* The broker registers the master and puts both of its objects on the     *)
(* token under the one label.                                              *)
Imported(label, key) ==
  \E hPriv, hPub \in Free :
    /\ FreePair(hPriv, hPub)
    /\ store' = WithPair(store, hPriv, hPub,
         KeyObject("private", key, label, TRUE, TRUE),
         KeyObject("public", key, label, TRUE, TRUE))
    /\ Outdate(hPriv)

Registered(label) == \E h \in Matching(store, "private", label) : store[h].tsb

(* The request and its answer: applied, with the answer received or lost;  *)
(* rejected because the label is taken (certain when TSB registered it,    *)
(* possible when only PKCS#11 knows it); lost; or given up on while under  *)
(* way.  The code keeps the outcome and goes on whichever it is.           *)
Import(t) ==
  LET label == call[t].label
      Outcome(imp) == call' = [call EXCEPT ![t].pc = "findPriv", ![t].imp = imp]
  IN /\ At(t, "import")
     /\ \/ /\ ~Registered(label)
           /\ Imported(label, call[t].want)
           /\ \E imp \in {"ok", "failed"} : Outcome(imp)
           /\ UNCHANGED wire
        \/ /\ Matching(store, "private", label) # {}
           /\ Outcome("duplicate")
           /\ UNCHANGED <<store, wire, outdated>>
        \/ /\ Outcome("failed")
           /\ UNCHANGED <<store, wire, outdated>>
        \/ /\ Cardinality(wire) < MaxWire
           /\ Outcome("failed")
           /\ wire' = wire \cup {[label |-> label, key |-> call[t].want]}
           /\ UNCHANGED <<store, outdated>>
     /\ UNCHANGED <<taproot, pubOf>>

(* Mutants: the search forgets the label; the import is tried again until  *)
(* the key shows up.                                                       *)
FindPrivAnyLabel(t) ==
  LET found == {h \in Live(store) : store[h].class = "private"} IN
  /\ HsmAt(t, "findPriv")
  /\ \/ \E h \in found : call' = [call EXCEPT ![t].pc = "findPub", ![t].priv = h]
     \/ found = {} /\ Return(t, "noPriv")
  /\ UNCHANGED <<store, wire, taproot, pubOf, outdated>>

FindPrivRetry(t) ==
  LET found == Matching(store, "private", call[t].label) IN
  /\ HsmAt(t, "findPriv")
  /\ \/ \E h \in found : call' = [call EXCEPT ![t].pc = "findPub", ![t].priv = h]
     \/ found = {} /\ call' = [call EXCEPT ![t].pc = "import"]
  /\ UNCHANGED <<store, wire, taproot, pubOf, outdated>>

(* find_one(PRIVATE_KEY, label): any match may come first; without one the *)
(* import's own error is returned, if it had one.                          *)
FindPriv(t) ==
  LET found == Matching(store, "private", call[t].label) IN
  /\ HsmAt(t, "findPriv")
  /\ \/ \E h \in found : call' = [call EXCEPT ![t].pc = "findPub", ![t].priv = h]
     \/ /\ found = {}
        /\ Return(t, IF call[t].imp = "ok" THEN "noPriv" ELSE "importFailed")
  /\ UNCHANGED <<store, wire, taproot, pubOf, outdated>>

(* Mutant: the sibling label of a native master is accepted as well.       *)
FindPubSibling(t) ==
  LET found == Matching(store, "public", call[t].label)
                 \cup Matching(store, "public", PubSiblingLabel(call[t].label)) IN
  /\ HsmAt(t, "findPub")
  /\ \/ \E h \in found : call' = [call EXCEPT ![t].pc = "record", ![t].pub = h]
     \/ found = {} /\ Return(t, "noPub")
  /\ UNCHANGED <<store, wire, taproot, pubOf, outdated>>

(* find_one(PUBLIC_KEY, label): the same label only, not the sibling.      *)
FindPub(t) ==
  LET found == Matching(store, "public", call[t].label) IN
  /\ HsmAt(t, "findPub")
  /\ \/ \E h \in found : call' = [call EXCEPT ![t].pc = "record", ![t].pub = h]
     \/ found = {} /\ Return(t, "noPub")
  /\ UNCHANGED <<store, wire, taproot, pubOf, outdated>>

-----------------------------------------------------------------------------
(* read_xpub: pub_handle_for, then build_xpub.                             *)

LookupPub(t) ==
  LET p == Lookup(pubOf, call[t].priv) IN
  /\ At(t, "lookup")
  /\ call' = [call EXCEPT ![t].pub = p,
                          ![t].old = p # None /\ call[t].priv \in outdated,
                          ![t].pc = IF p # None THEN "point" ELSE "label"]
  /\ UNCHANGED <<store, wire, taproot, pubOf, outdated>>

ReadLabel(t) ==
  /\ HsmAt(t, "label")
  /\ call[t].priv \in Live(store)
  /\ call' = [call EXCEPT ![t].pc = "same",
                          ![t].label = store[call[t].priv].label]
  /\ UNCHANGED <<store, wire, taproot, pubOf, outdated>>

(* Mutants: only the sibling is tried; any public key will do.             *)
FindCandidateSibling(t) ==
  LET found == Matching(store, "public", PubSiblingLabel(call[t].label)) IN
  /\ HsmAt(t, "same")
  /\ \/ \E h \in found : call' = [call EXCEPT ![t].pc = "point", ![t].pub = h]
     \/ found = {} /\ Return(t, "noPub")
  /\ UNCHANGED <<store, wire, taproot, pubOf, outdated>>

FindCandidateAnyLabel(t) ==
  /\ HsmAt(t, "same")
  /\ \E h \in Live(store) :
       /\ store[h].class = "public"
       /\ call' = [call EXCEPT ![t].pc = "point", ![t].pub = h]
  /\ UNCHANGED <<store, wire, taproot, pubOf, outdated>>

(* The two candidates of the fallback, the label itself first.             *)
FindCandidate(t) ==
  \/ /\ HsmAt(t, "same")
     /\ LET found == Matching(store, "public", call[t].label) IN
        \/ \E h \in found : call' = [call EXCEPT ![t].pc = "point", ![t].pub = h]
        \/ found = {} /\ call' = [call EXCEPT ![t].pc = "sibling"]
     /\ UNCHANGED <<store, wire, taproot, pubOf, outdated>>
  \/ /\ HsmAt(t, "sibling")
     /\ LET found == Matching(store, "public", PubSiblingLabel(call[t].label)) IN
        \/ \E h \in found : call' = [call EXCEPT ![t].pc = "point", ![t].pub = h]
        \/ found = {} /\ Return(t, "noPub")
     /\ UNCHANGED <<store, wire, taproot, pubOf, outdated>>

(* build_xpub: the EC point comes from the public key ...                  *)
ReadPoint(t) ==
  /\ HsmAt(t, "point")
  /\ call[t].pub \in Live(store)
  /\ call' = [call EXCEPT ![t].pc = "chain",
                          ![t].point = store[call[t].pub].key]
  /\ UNCHANGED <<store, wire, taproot, pubOf, outdated>>

(* ... and the chain code from the private key, in a second call.          *)
ReadChain(t) ==
  /\ HsmAt(t, "chain")
  /\ call[t].priv \in Live(store)
  /\ call' = [call EXCEPT ![t].pc = "done", ![t].res = "ok",
                          ![t].chain = store[call[t].priv].key,
                          ![t].priv = None, ![t].pub = None]
  /\ UNCHANGED <<store, wire, taproot, pubOf, outdated>>

(* Any PKCS#11 call may fail - a token error, a handle or a session that   *)
(* is no longer valid, a full token - and every caller returns the error.  *)
HsmFault(t) ==
  /\ call[t].pc \in HsmPcs
  /\ Return(t, "hsmError")
  /\ UNCHANGED <<store, wire, taproot, pubOf, outdated>>

-----------------------------------------------------------------------------
(* The environment.                                                        *)

(* The broker applies, after all, an import the client gave up on.         *)
TsbApply ==
  /\ \E req \in wire :
       /\ wire' = wire \ {req}
       /\ \/ ~Registered(req.label) /\ Imported(req.label, req.key)
          \/ /\ Matching(store, "private", req.label) # {}
             /\ UNCHANGED <<store, outdated>>
  /\ UNCHANGED <<taproot, pubOf, call>>

(* The session is lost (the token invalidates it when another is opened):  *)
(* its session objects go, and the calls under way can only fail.          *)
LoseSession ==
  /\ store' = TokenObjects(store)
  /\ call' = [t \in Threads |-> [call[t] EXCEPT !.stale = @ \/ Busy(t)]]
  /\ UNCHANGED <<wire, taproot, pubOf, outdated>>

(* A crash, or a restart, in any state: new builds a backend with an empty *)
(* map from the environment it then finds.                                 *)
Restart ==
  /\ store' = TokenObjects(store)
  /\ pubOf' = EmptyPubMap
  /\ outdated' = {}
  /\ call' = [t \in Threads |-> NoCall]
  /\ \E env \in Envs, built \in BOOLEAN : taproot' = TaprootIn(env, built)
  /\ UNCHANGED wire

-----------------------------------------------------------------------------
Start(t) == DeriveMasterKey(t) \/ DerivePath(t) \/ ReadXpub(t)

Step(t) ==
  \/ Generate(t) \/ Derive(t) \/ Record(t)
  \/ Import(t) \/ FindPriv(t) \/ FindPub(t)
  \/ LookupPub(t) \/ ReadLabel(t) \/ FindCandidate(t)
  \/ ReadPoint(t) \/ ReadChain(t) \/ HsmFault(t)

Next ==
  \/ \E t \in Threads : Start(t) \/ Step(t) \/ Take(t)
  \/ TsbApply \/ LoseSession \/ Restart

Spec == Init /\ [][Next]_vars

(* A thread inside the backend keeps running, and every call it makes      *)
(* comes back: a PKCS#11 call returns, an HTTP request times out.          *)
FairSpec == Spec /\ \A t \in Threads : WF_vars(Step(t))

-----------------------------------------------------------------------------
(* Properties.                                                             *)

Maybe(S) == S \cup {None}

CallType ==
  [op : Ops, pc : Pcs, res : Maybe(Results),
   imp : Maybe({"ok", "duplicate", "failed"}), label : Label, path : Seq(Nat),
   want : Maybe(Key), priv : Maybe(Handles), pub : Maybe(Handles),
   point : Maybe(Key), chain : Maybe(Key), age : 0..Cap, old : BOOLEAN,
   stale : BOOLEAN]

(* Every variable has its type: the state SecurosysBackend and the token   *)
(* can be in.                                                              *)
TypeOK ==
  /\ store \in [Handles -> Maybe(Object)]
  /\ \A req \in wire : req \in [label : Label, key : Key]
  /\ taproot \in BOOLEAN
  /\ pubOf \in PubMapType
  /\ outdated \subseteq Mapped(pubOf)
  /\ call \in [Threads -> CallType]

(* The queue and the map of PubMap never disagree, however record_pair     *)
(* calls of several threads interleave with sessions and restarts, and the *)
(* map never holds more than PUB_MAP_CAP pairs.                            *)
PubMapOK == WellFormed(pubOf)

(* A mapped handle that is a private key's and the public handle it maps   *)
(* to are the two halves of one key, so that an EC point read through the  *)
(* map (backend.rs:236) belongs with the chain code read from the handle;  *)
(* also where the token has issued the handle before (backend.rs:262), for *)
(* record_pair replaces what the map had of it.  The exceptions are the    *)
(* outdated entries: the new object's pair is yet to be recorded, or a     *)
(* call has recorded an old pair since, after its session was lost.        *)
PairsMatch ==
  \A h \in (Mapped(pubOf) \cap Live(store)) \ outdated :
    store[h].class = "private" =>
      LET p == pubOf.map[h] IN
      /\ p \in Live(store)
      /\ store[p].class = "public" /\ store[p].key = store[h].key

(* The account handle read_xpub is asked about "right after it is derived" *)
(* is still mapped as long as fewer than PUB_MAP_CAP entries are behind    *)
(* its own, which the pairs of other threads join: it is age places from   *)
(* the end, and less safe than a new one if the handle was mapped before.  *)
AccountResolves ==
  \A t \in Threads :
    At(t, "lookup") /\ call[t].age < Cap =>
      LET n == Len(pubOf.order) - call[t].age IN
      /\ n >= 1 /\ pubOf.order[n] = call[t].priv
      /\ pubOf.map[call[t].priv] # None

(* The map had an entry for the call's handle, if its key has no label to  *)
(* be found by, and the entry was not outdated.                            *)
Sure(c) == ~c.old /\ (c.op = "account" /\ c.path # << >> => c.age < Cap)

(* The xpub read_xpub returns has both its halves from the key asked       *)
(* about: a persisted master after any number of restarts, or an account   *)
(* whose pair had no chance of being evicted since it was recorded; unless *)
(* the token has issued the handle again and the map's entry is outdated.  *)
XpubIsOwn ==
  \A t \in Threads :
    LET c == call[t] IN
    c.pc = "done" /\ c.res = "ok" /\ c.op \in {"account", "reload"} /\ Sure(c)
    => c.point = c.want /\ c.chain = c.want

(* The seeds of what may be found under a label: derive_master_key was     *)
(* called with them and the label, or one whose sibling it is.             *)
SeedsUnder(label) ==
  {p[1] : p \in {q \in Provisionings : /\ q[1] # EmptySeed
                                      /\ label \in {q[2], PubSiblingLabel(q[2])}}}

(* A native derive_master_key returns the master of the seed it was given, *)
(* whatever else is generated, imported or lost meanwhile, and also under  *)
(* a label in use; one over TSB goes by what it finds under the label, and *)
(* returns a master of the seed, or of another that the label has been     *)
(* used for (backend.rs:298-313, 430-441).                                 *)
MasterIsFromSeed ==
  \A t \in Threads :
    LET c == call[t] IN
    c.pc = "done" /\ c.res = "ok" /\ c.op = "master" =>
      /\ {c.point, c.chain} \subseteq {Master(seed) : seed \in SeedsUnder(c.label)}
      /\ c.imp = None => c.point = c.want /\ c.chain = c.want

(* A master that a TSB-configured backend returns is registered with TSB   *)
(* under its label, so the taproot signer can derive from it, even if the  *)
(* import failed and an older key of that label was on the token.          *)
TsbMasterDerivable ==
  [][\A t \in Threads :
       (ReadChain(t) /\ taproot /\ call[t].op = "master") =>
         \E h \in Matching(store, "private", call[t].label) :
           store[h].tsb /\ store[h].key = call[t].point]_vars

(* A persisted master that the caller found by label always has a public   *)
(* key that pub_handle_for finds, whichever way it was created, whatever   *)
(* became of its map entry: read_xpub fails only if the token fails.       *)
MasterReloads ==
  \A t \in Threads :
    call[t].op = "reload" /\ call[t].pc = "done" => call[t].res # "noPub"

(* Every call into the backend returns.                                    *)
EveryCallReturns == \A t \in Threads : Busy(t) ~> ~Busy(t)

-----------------------------------------------------------------------------
(* What the comments of backend.rs say of the code.                        *)

(* :345: both ways of provisioning yield the byte-identical master for a   *)
(* seed, also when TSB answers that the label is taken.                    *)
DuplicateHasSeed ==
  \A t \in Threads :
    LET c == call[t] IN
    c.pc = "done" /\ c.res = "ok" /\ c.imp = "duplicate" => c.chain = c.want

(* :284-286: if TSB rejects a duplicate but the key is already on the      *)
(* token, the on-token key is used: the call does not fail for want of a   *)
(* public key.                                                             *)
ProceedsWithOnTokenKey ==
  [][\A t \in Threads :
       At(t, "findPub") /\ call[t].imp = "duplicate" =>
         call'[t].res # "noPub"]_vars

(* :112-114: a bounded FIFO can never evict a still-needed entry, so the    *)
(* xpub of a freshly derived account never has its point from the public   *)
(* key of another key.                                                     *)
AccountNotMixed ==
  \A t \in Threads :
    LET c == call[t] IN
    c.pc = "done" /\ c.res = "ok" /\ c.op = "account" => c.point = c.chain
=============================================================================
