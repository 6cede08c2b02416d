---------------------------- MODULE Slip10Probe ----------------------------
(***************************************************************************)
(* examples/slip10_probe.rs: a process that opens a session on an HSM,     *)
(* makes a SLIP-10 master, derives a child, signs and verifies.  Several   *)
(* operators may run it at once; a partition has one session, and opening  *)
(* another invalidates it (tests/securosys_live.rs:184-188).               *)
(***************************************************************************)
EXTENDS Naturals, Sequences, FiniteSets

CONSTANTS
  Probes,
  Slots,      \* slot ids of the provider
  Labels,     \* token labels, and what the operator may configure
  NoLabel,    \* SECUROSYS_SLOT_LABEL is not set
  None,
  MaxUnplug   \* bound: tokens that disappear

ASSUME SlotsAssumption == IsFiniteSet(Slots) /\ Slots \subseteq Nat /\ 0 \in Slots
ASSUME NoLabelAssumption == NoLabel \notin Labels

VARIABLES
  label,    \* label of the token in each slot
  present,  \* slots with a token
  session,  \* per slot: the probe whose session is valid, or None
  objects,  \* objects on the tokens
  probe     \* what each process is doing

vars == <<label, present, session, objects, probe>>

-----------------------------------------------------------------------------
(* The calls between Login and Verify, in their order.                     *)
Calls == <<"generate", "readMasterChain", "derive", "readPoint", "readChain",
           "signInit", "sign", "verify">>
After(pc) == LET i == CHOOSE i \in DOMAIN Calls : Calls[i] = pc IN Calls[i + 1]

NoProbe == [pc |-> "start", wanted |-> NoLabel, count |-> 0, slots |-> << >>,
            slot |-> None, point |-> None, active |-> None, sig |-> None]

At(p, pc) == probe[p].pc = pc
Move(p, pc) == probe' = [probe EXCEPT ![p].pc = pc]
Ended(p) == probe[p].pc \in {"passed", "failed"}
HasSession(p) == probe[p].slot # None /\ session[probe[p].slot] = p

(* A key pair is one object here: the master, or the child at the path.    *)
(* token is the CKA_TOKEN of its templates.                                *)
Pair(p, key, token) ==
  [slot |-> probe[p].slot, owner |-> p, key |-> key, token |-> token]
KeyOf(p, name) == <<p, name>>

Init ==
  /\ label \in [Slots -> Labels]
  /\ present = Slots
  /\ session = [s \in Slots |-> None]
  /\ objects = {}
  /\ probe \in [Probes -> {[NoProbe EXCEPT !.wanted = l] : l \in Labels \cup {NoLabel}}]

-----------------------------------------------------------------------------
(* Any call may fail, also the loading of the library and of its symbols:  *)
(* the process ends without cleaning up.  Mutant: it starts over.          *)
FailAndRetry(p) ==
  /\ ~Ended(p) /\ probe[p].pc \notin {"destroy", "close"}
  /\ probe' = [probe EXCEPT ![p] = [NoProbe EXCEPT !.wanted = probe[p].wanted]]
  /\ UNCHANGED <<label, present, session, objects>>
Fail(p) ==
  /\ ~Ended(p) /\ probe[p].pc \notin {"destroy", "close"}
  /\ Move(p, "failed")
  /\ UNCHANGED <<label, present, session, objects>>

(* C_GetSlotList for the number of slots.                                  *)
CountSlots(p) ==
  /\ At(p, "start")
  /\ probe' = [probe EXCEPT ![p].pc = "list", ![p].count = Cardinality(present)]
  /\ UNCHANGED <<label, present, session, objects>>

(* C_GetSlotList for the slots: too many are an error (Fail).  When a slot *)
(* has gone since, the vector is not truncated and ends in zeros.          *)
ListSlots(p) ==
  LET n == Cardinality(present) IN
  /\ At(p, "list") /\ n <= probe[p].count
  /\ \E slots \in [1..probe[p].count -> present \cup {0}] :
       /\ {slots[i] : i \in 1..n} = present
       /\ \A i \in (n + 1)..probe[p].count : slots[i] = 0
       /\ probe' = [probe EXCEPT ![p].pc = "choose", ![p].slots = slots]
  /\ UNCHANGED <<label, present, session, objects>>

(* Without a configured label any token will do.                           *)
Suits(p, s) == probe[p].wanted \in {NoLabel, label[s]}

(* C_GetTokenInfo of one slot after the other, until one suits; a slot     *)
(* whose call fails is passed over.                                        *)
ChooseSlot(p) ==
  LET slots == probe[p].slots IN
  /\ At(p, "choose")
  /\ \E answering \in SUBSET {i \in DOMAIN slots : slots[i] \in present} :
       LET suitable == {i \in answering : Suits(p, slots[i])} IN
       \/ \E i \in suitable :
            /\ \A j \in suitable : i <= j
            /\ probe' = [probe EXCEPT ![p].pc = "open", ![p].slot = slots[i],
                                     ![p].slots = << >>, ![p].count = 0]
       \/ suitable = {} /\ Move(p, "failed")
  /\ UNCHANGED <<label, present, session, objects>>

SessionObjects(s) == {o \in objects : o.slot = s /\ ~o.token}

OpenSession(p) ==
  LET s == probe[p].slot IN
  /\ At(p, "open") /\ s \in present
  /\ session' = [session EXCEPT ![s] = p]
  /\ objects' = objects \ SessionObjects(s)
  /\ Move(p, "login")
  /\ UNCHANGED <<label, present>>

Login(p) ==
  /\ At(p, "login") /\ HasSession(p)
  /\ Move(p, "generate")
  /\ UNCHANGED <<label, present, session, objects>>

(* C_GenerateKeyPair and C_DeriveKeyPair, with CKA_TOKEN false in all four *)
(* templates.  Mutant: the master is made the way the backend makes it.    *)
CreatePersistent(p) ==
  /\ probe[p].pc \in {"generate", "derive"} /\ HasSession(p)
  /\ objects' = objects \cup {Pair(p, KeyOf(p, probe[p].pc), At(p, "generate"))}
  /\ Move(p, After(probe[p].pc))
  /\ UNCHANGED <<label, present, session>>
Create(p) ==
  /\ probe[p].pc \in {"generate", "derive"} /\ HasSession(p)
  /\ objects' = objects \cup {Pair(p, KeyOf(p, probe[p].pc), FALSE)}
  /\ Move(p, After(probe[p].pc))
  /\ UNCHANGED <<label, present, session>>

(* read_var asks for the length and then for the value.  The diagnostic    *)
(* read of the private key's point may fail, and nothing depends on it.    *)
ReadVar(p) ==
  /\ probe[p].pc \in {"readMasterChain", "readPoint", "readChain"} /\ HasSession(p)
  /\ probe' = [probe EXCEPT
       ![p].pc = After(probe[p].pc),
       ![p].point = IF At(p, "readPoint") THEN KeyOf(p, "derive") ELSE @]
  /\ UNCHANGED <<label, present, session, objects>>

SignInit(p) ==
  /\ At(p, "signInit") /\ HasSession(p)
  /\ probe' = [probe EXCEPT ![p].pc = "sign", ![p].active = KeyOf(p, "derive")]
  /\ UNCHANGED <<label, present, session, objects>>

(* C_Sign for the length, then for the signature; what the HSM returns may *)
(* be no signature of that key.                                            *)
Sign(p) ==
  /\ At(p, "sign") /\ HasSession(p)
  /\ \E sig \in {probe[p].active, None} :
       probe' = [probe EXCEPT ![p].pc = "verify", ![p].sig = sig]
  /\ UNCHANGED <<label, present, session, objects>>

(* verify, on the host: needs no session.                                  *)
Verify(p) ==
  /\ At(p, "verify") /\ probe[p].sig = probe[p].point
  /\ Move(p, "destroy")
  /\ UNCHANGED <<label, present, session, objects>>

(* The four C_DestroyObject calls, and logout, close and finalize; what    *)
(* they return is ignored, so a lost session changes nothing.              *)
Destroy(p) ==
  /\ At(p, "destroy")
  /\ \E failed \in SUBSET {o \in objects : o.owner = p} :
       /\ ~HasSession(p) => failed = {o \in objects : o.owner = p}
       /\ objects' = {o \in objects : o.owner # p} \cup failed
  /\ Move(p, "close")
  /\ UNCHANGED <<label, present, session>>

EndSession(p) ==
  /\ session' = [s \in Slots |-> IF session[s] = p THEN None ELSE session[s]]
  /\ objects' = {o \in objects : o.owner # p \/ o.token}

Close(p) ==
  /\ At(p, "close")
  /\ EndSession(p)
  /\ Move(p, "passed")
  /\ UNCHANGED <<label, present>>

-----------------------------------------------------------------------------
(* The HSM notices some time later that a process has died, or its token   *)
(* goes away with what was on it.                                          *)
Reap(p) ==
  /\ At(p, "failed") /\ \E s \in Slots : session[s] = p
  /\ EndSession(p)
  /\ UNCHANGED <<label, present, probe>>

Unplug ==
  /\ Cardinality(Slots \ present) < MaxUnplug
  /\ \E s \in present :
       /\ present' = present \ {s}
       /\ session' = [session EXCEPT ![s] = None]
       /\ objects' = {o \in objects : o.slot # s}
  /\ UNCHANGED <<label, probe>>

Step(p) ==
  \/ CountSlots(p) \/ ListSlots(p) \/ ChooseSlot(p) \/ OpenSession(p) \/ Login(p)
  \/ Create(p) \/ ReadVar(p) \/ SignInit(p) \/ Sign(p) \/ Verify(p)
  \/ Destroy(p) \/ Close(p) \/ Fail(p)

Next == (\E p \in Probes : Step(p) \/ Reap(p)) \/ Unplug

(* A process keeps running, and the HSM notices that one has died.         *)
Spec == Init /\ [][Next]_vars /\ \A p \in Probes : WF_vars(Step(p)) /\ WF_vars(Reap(p))

-----------------------------------------------------------------------------
(* Properties.                                                             *)

(* What a probe has made is on the HSM only as long as its own session     *)
(* there is valid: nothing is left by one that lost it, failed half-way or *)
(* passed, and nobody else's session keeps it alive (:12, :325-333).       *)
ObjectsNeedSession == \A o \in objects : session[o.slot] = o.owner

(* "Ephemeral session objects only (nothing persisted)" (:12): whichever   *)
(* call fails, the tokens are in the end as they were.                     *)
NothingPersisted == <>[](objects = {})

(* No run hangs, and two that take each other's session do not go on doing *)
(* so.                                                                     *)
EveryRunEnds == \A p \in Probes : <>Ended(p)
=============================================================================
