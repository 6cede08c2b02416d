------------------------- MODULE Slip10Probe_proofs -------------------------
(***************************************************************************)
(* A theorem about Slip10Probe, for any number of probes, slots and        *)
(* labels: no object is on an HSM without the session it was made in.      *)
(***************************************************************************)
EXTENDS Slip10Probe, FiniteSetTheorems, SequenceTheorems, TLAPS

Pcs == {"start", "list", "choose", "open", "login", "generate", "readMasterChain",
        "derive", "readPoint", "readChain", "signInit", "sign", "verify", "destroy",
        "close", "passed", "failed"}
Points == {KeyOf(p, "derive") : p \in Probes} \cup {None}
ProbeType ==
  [pc : Pcs, wanted : Labels \cup {NoLabel}, count : Nat, slots : Seq(Slots),
   slot : Slots \cup {None}, point : Points, active : Points, sig : Points]

TypeOK ==
  /\ label \in [Slots -> Labels]
  /\ present \in SUBSET Slots
  /\ session \in [Slots -> Probes \cup {None}]
  /\ \A o \in objects : o.slot \in Slots /\ ~o.token
  /\ probe \in [Probes -> ProbeType]

Sound == TypeOK /\ ObjectsNeedSession

-----------------------------------------------------------------------------
(* The calls follow each other as in the program.                          *)
LEMMA AfterEach ==
  /\ After("generate") = "readMasterChain" /\ After("readMasterChain") = "derive"
  /\ After("derive") = "readPoint" /\ After("readPoint") = "readChain"
  /\ After("readChain") = "signInit"
<1>1. DOMAIN Calls = 1..8
  BY DEF Calls
<1>2. ASSUME NEW n \in 1..5
      PROVE  After(Calls[n]) = Calls[n + 1]
  <2>1. \A i \in DOMAIN Calls : Calls[i] = Calls[n] <=> i = n
    BY <1>1 DEF Calls
  <2> QED
    BY <1>1, <2>1 DEF After
<1> QED
  BY <1>2 DEF Calls

(* A step that only moves one process to another call.                     *)
LEMMA OnlyMoves ==
  ASSUME TypeOK, NEW p \in Probes, NEW to \in Pcs, Move(p, to)
  PROVE  probe' \in [Probes -> ProbeType]
BY DEF Move, TypeOK, ProbeType

(* The end of p's session takes p's objects with it, and nobody else's.    *)
LEMMA EndSessionOK ==
  ASSUME Sound, NEW p \in Probes, EndSession(p)
  PROVE  /\ session' \in [Slots -> Probes \cup {None}]
         /\ \A o \in objects' : o.slot \in Slots /\ ~o.token
         /\ ObjectsNeedSession'
BY DEF EndSession, Sound, TypeOK, ObjectsNeedSession

-----------------------------------------------------------------------------
LEMMA SoundInit == Init => Sound
<1> SUFFICES ASSUME Init PROVE Sound
  OBVIOUS
<1>1. ASSUME NEW l \in Labels \cup {NoLabel}, NEW r, r = [NoProbe EXCEPT !.wanted = l]
      PROVE  r \in ProbeType /\ r.slot = None /\ r.pc = "start"
  <2>1. r = [pc |-> "start", wanted |-> l, count |-> 0, slots |-> << >>,
             slot |-> None, point |-> None, active |-> None, sig |-> None]
    BY <1>1 DEF NoProbe
  <2>2. << >> \in Seq(Slots)
    OBVIOUS
  <2> QED
    BY <2>1, <2>2 DEF ProbeType, Points, Pcs
<1>2. probe \in [Probes -> ProbeType]
  BY <1>1 DEF Init
<1>3. \A p \in Probes : probe[p].slot = None /\ probe[p].pc = "start"
  BY <1>1 DEF Init
<1> QED
  BY <1>2, <1>3
  DEF Init, Sound, TypeOK, ObjectsNeedSession

LEMMA SoundStep ==
  ASSUME Sound, NEW p \in Probes, Step(p)
  PROVE  Sound'
<1> USE DEF At
<1>t. probe[p] \in ProbeType
  BY DEF Sound, TypeOK
<1>1. ASSUME UNCHANGED <<label, present, session, objects>>,
             NEW r \in ProbeType, probe' = [probe EXCEPT ![p] = r]
      PROVE  Sound'
  BY <1>1 DEF Sound, TypeOK, ObjectsNeedSession
<1>2. ASSUME UNCHANGED <<label, present, session, objects>>, NEW to \in Pcs, Move(p, to)
      PROVE  Sound'
  <2>1. probe' \in [Probes -> ProbeType]
    BY <1>2, OnlyMoves DEF Sound
  <2> QED
    BY <1>2, <2>1 DEF Sound, TypeOK, ObjectsNeedSession
<1>3. CASE CountSlots(p)
  <2> DEFINE r == [probe[p] EXCEPT !.pc = "list", !.count = Cardinality(present)]
  <2>1. Cardinality(present) \in Nat
    BY SlotsAssumption, FS_Subset, FS_CardinalityType DEF Sound, TypeOK
  <2>2. r \in ProbeType
    BY <1>t, <2>1 DEF ProbeType, Pcs
  <2>3. probe' = [probe EXCEPT ![p] = r]
    BY <1>3 DEF CountSlots, Sound, TypeOK
  <2> HIDE DEF r
  <2> QED
    BY <1>1, <1>3, <2>2, <2>3 DEF CountSlots
<1>4. CASE ListSlots(p)
  <2>1. PICK slots \in [1..probe[p].count -> present \cup {0}] :
          probe' = [probe EXCEPT ![p].pc = "choose", ![p].slots = slots]
    BY <1>4 DEF ListSlots
  <2> DEFINE r == [probe[p] EXCEPT !.pc = "choose", !.slots = slots]
  <2>2. slots \in Seq(Slots)
    <3>1. probe[p].count \in Nat
      BY <1>t DEF ProbeType
    <3>2. slots \in [1..probe[p].count -> Slots]
      BY SlotsAssumption DEF Sound, TypeOK
    <3> QED
      BY <3>1, <3>2
  <2>3. r \in ProbeType
    BY <1>t, <2>2 DEF ProbeType, Pcs
  <2>4. probe' = [probe EXCEPT ![p] = r]
    BY <2>1 DEF Sound, TypeOK
  <2> HIDE DEF r
  <2> QED
    BY <1>1, <1>4, <2>3, <2>4 DEF ListSlots
<1>5. CASE ChooseSlot(p)
  <2>1. CASE Move(p, "failed")
    BY <1>2, <1>5, <2>1 DEF ChooseSlot, Pcs
  <2>2. ASSUME NEW i \in DOMAIN probe[p].slots, probe[p].slots[i] \in present,
               probe' = [probe EXCEPT ![p].pc = "open", ![p].slot = probe[p].slots[i],
                                      ![p].slots = << >>, ![p].count = 0]
        PROVE  Sound'
    <3> DEFINE s == probe[p].slots[i]
    <3> DEFINE r == [probe[p] EXCEPT !.pc = "open", !.slot = s, !.slots = << >>, !.count = 0]
    <3>1. s \in Slots
      BY <2>2 DEF Sound, TypeOK
    <3>2. << >> \in Seq(Slots)
      OBVIOUS
    <3>3. r \in ProbeType
      BY <1>t, <3>1, <3>2 DEF ProbeType, Pcs
    <3>4. probe' = [probe EXCEPT ![p] = r]
      BY <2>2 DEF Sound, TypeOK
    <3> HIDE DEF r
    <3> QED
      BY <1>1, <1>5, <3>3, <3>4 DEF ChooseSlot
  <2> QED
    BY <1>5, <2>1, <2>2 DEF ChooseSlot
<1>6. CASE OpenSession(p)
  <2>1. probe' \in [Probes -> ProbeType]
    BY <1>6, OnlyMoves DEF OpenSession, Pcs, Sound
  <2>2. probe[p].slot \in Slots
    BY <1>6 DEF OpenSession, Sound, TypeOK
  <2> QED
    BY <1>6, <2>1, <2>2
    DEF OpenSession, SessionObjects, Sound, TypeOK, ObjectsNeedSession
<1>7. CASE Login(p)
  BY <1>2, <1>7 DEF Login, Pcs
<1>8. CASE Create(p)
  <2>1. After(probe[p].pc) \in Pcs
    BY <1>8, AfterEach DEF Create, Pcs
  <2>2. probe' \in [Probes -> ProbeType]
    BY <1>8, <2>1, OnlyMoves DEF Create, Sound
  <2>3. probe[p].slot \in Slots /\ session[probe[p].slot] = p
    BY <1>8, <1>t DEF Create, HasSession, ProbeType
  <2> DEFINE o == Pair(p, KeyOf(p, probe[p].pc), FALSE)
  <2>4. o.slot = probe[p].slot /\ o.owner = p /\ ~o.token
    BY DEF Pair
  <2>5. objects' = objects \cup {o}
    BY <1>8 DEF Create
  <2> HIDE DEF o
  <2> QED
    BY <1>8, <2>2, <2>3, <2>4, <2>5 DEF Create, Sound, TypeOK, ObjectsNeedSession
<1>9. CASE ReadVar(p)
  <2> DEFINE point == IF At(p, "readPoint") THEN KeyOf(p, "derive") ELSE probe[p].point
             r == [probe[p] EXCEPT !.pc = After(probe[p].pc), !.point = point]
  <2>1. After(probe[p].pc) \in Pcs
    BY <1>9, AfterEach DEF ReadVar, Pcs
  <2>2. point \in Points
    BY <1>t DEF ProbeType, Points
  <2>3. r \in ProbeType
    BY <1>t, <2>1, <2>2 DEF ProbeType
  <2>4. probe' = [probe EXCEPT ![p] = r]
    BY <1>9 DEF ReadVar, Sound, TypeOK
  <2> HIDE DEF r
  <2> QED
    BY <1>1, <1>9, <2>3, <2>4 DEF ReadVar
<1>10. CASE SignInit(p)
  <2> DEFINE r == [probe[p] EXCEPT !.pc = "sign", !.active = KeyOf(p, "derive")]
  <2>1. r \in ProbeType
    BY <1>t DEF ProbeType, Pcs, Points
  <2>2. probe' = [probe EXCEPT ![p] = r]
    BY <1>10 DEF SignInit, Sound, TypeOK
  <2> HIDE DEF r
  <2> QED
    BY <1>1, <1>10, <2>1, <2>2 DEF SignInit
<1>11. CASE Sign(p)
  <2>1. PICK sig \in {probe[p].active, None} :
          probe' = [probe EXCEPT ![p].pc = "verify", ![p].sig = sig]
    BY <1>11 DEF Sign
  <2> DEFINE r == [probe[p] EXCEPT !.pc = "verify", !.sig = sig]
  <2>2. r \in ProbeType
    BY <1>t DEF ProbeType, Pcs, Points
  <2>3. probe' = [probe EXCEPT ![p] = r]
    BY <2>1 DEF Sound, TypeOK
  <2> HIDE DEF r
  <2> QED
    BY <1>1, <1>11, <2>2, <2>3 DEF Sign
<1>12. CASE Verify(p)
  BY <1>2, <1>12 DEF Verify, Pcs
<1>13. CASE Destroy(p)
  <2>1. probe' \in [Probes -> ProbeType]
    BY <1>13, OnlyMoves DEF Destroy, Pcs, Sound
  <2>2. objects' \subseteq objects
    BY <1>13 DEF Destroy
  <2> QED
    BY <1>13, <2>1, <2>2 DEF Destroy, Sound, TypeOK, ObjectsNeedSession
<1>14. CASE Close(p)
  <2>1. probe' \in [Probes -> ProbeType]
    BY <1>14, OnlyMoves DEF Close, Pcs, Sound
  <2> QED
    BY <1>14, <2>1, EndSessionOK DEF Close, Sound, TypeOK
<1>15. CASE Fail(p)
  BY <1>2, <1>15 DEF Fail, Pcs
<1> QED
  BY <1>3, <1>4, <1>5, <1>6, <1>7, <1>8, <1>9, <1>10, <1>11, <1>12, <1>13, <1>14, <1>15
  DEF Step

LEMMA SoundNext == Sound /\ [Next]_vars => Sound'
<1> SUFFICES ASSUME Sound, [Next]_vars PROVE Sound'
  OBVIOUS
<1>1. ASSUME NEW p \in Probes, Step(p) PROVE Sound'
  BY <1>1, SoundStep
<1>2. ASSUME NEW p \in Probes, Reap(p) PROVE Sound'
  BY <1>2, EndSessionOK DEF Reap, Sound, TypeOK
<1>3. CASE Unplug
  BY <1>3 DEF Unplug, Sound, TypeOK, ObjectsNeedSession
<1>4. CASE UNCHANGED vars
  BY <1>4 DEF vars, Sound, TypeOK, ObjectsNeedSession
<1> QED
  BY <1>1, <1>2, <1>3, <1>4 DEF Next

LEMMA SoundInvariant == Spec => []Sound
BY SoundInit, SoundNext, PTL DEF Spec

-----------------------------------------------------------------------------
(* Results.                                                                *)

(* No object outlives the session of the probe that made it                *)
(* (examples/slip10_probe.rs:12, :325-333).                                *)
THEOREM ObjectsDieWithSession == Spec => []ObjectsNeedSession
<1>1. Sound => ObjectsNeedSession
  BY DEF Sound
<1> QED
  BY <1>1, SoundInvariant, PTL
=============================================================================
