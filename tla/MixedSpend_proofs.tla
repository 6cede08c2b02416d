-------------------------- MODULE MixedSpend_proofs --------------------------
(***************************************************************************)
(* Theorems about MixedSpend, for fleets of any vendors and keys and for   *)
(* any number of runs against one node: what a run that passes has done.   *)
(***************************************************************************)
EXTENDS MixedSpend, FiniteSetTheorems, SequenceTheorems, TLAPS

Funded == {"sign", "check", "broadcast", "mineSpend", "confirm"}
Signed == Funded \ {"sign"}
Checked == Signed \ {"check"}
Spending == Checked \ {"broadcast"}

(* The fleet that a run has gone on with.                                  *)
FleetOK ==
  /\ DOMAIN fleet = 1..3
  /\ OfVendor("securosys") # {} /\ OfVendor("dev") # {}

(* The signatures are those of the two cosigners, good or bad.             *)
SigsOK ==
  \E valid \in [Registered -> BOOLEAN] :
    sigs = {Signature(fleet[i].key, valid[i]) : i \in Registered}

(* How far a run has come: each check it has passed holds from there on.   *)
Progress ==
  /\ pc \notin {"fleet", "end"} => FleetOK
  /\ pc \in Funded => coin = Coin(run)
  /\ pc \in Signed => SigsOK
  /\ pc \in Checked => Cardinality(sigs) = Threshold /\ \A sig \in sigs : sig.valid
  /\ pc \in Spending => Spend(coin) \in spent

TypeOK ==
  /\ fleet \in Seq([vendor : Vendors, key : Keys])
  /\ run \in 1..MaxRuns
  /\ outcome \in [1..MaxRuns -> {"passed", "failed", "not confirmed", None}]

Runs == TypeOK /\ Progress /\ PassedIsThresholdSpend

-----------------------------------------------------------------------------
(* Lemmas about the fleet.                                                 *)

(* position(..) finds a member of the vendor if there is one.              *)
LEMMA PositionFinds ==
  ASSUME FleetOK, NEW vendor, OfVendor(vendor) # {}
  PROVE  Position(vendor) \in OfVendor(vendor)
<1> DEFINE S == OfVendor(vendor)
<1>1. S \subseteq 1..3
  BY DEF FleetOK, OfVendor
<1>2. PICK a \in S : TRUE
  OBVIOUS
<1> HIDE DEF S
<1>3. \E i \in S : \A j \in S : i <= j
  <2>1. CASE 1 \in S
    BY <1>1, <2>1
  <2>2. CASE 1 \notin S /\ 2 \in S
    BY <1>1, <2>2
  <2>3. CASE 1 \notin S /\ 2 \notin S
    BY <1>1, <1>2, <2>3
  <2> QED
    BY <2>1, <2>2, <2>3
<1> QED
  BY <1>3 DEF Position, S

(* The fleet and its members stay the same in every run.                   *)
LEMMA FleetStays ==
  ASSUME UNCHANGED fleet
  PROVE  /\ \A vendor : OfVendor(vendor)' = OfVendor(vendor)
         /\ Registered' = Registered /\ FleetOK' = FleetOK
<1>1. \A vendor : OfVendor(vendor)' = OfVendor(vendor)
  BY DEF OfVendor
<1>2. \A vendor : Position(vendor)' = Position(vendor)
  BY <1>1 DEF Position
<1> QED
  BY <1>1, <1>2 DEF Registered, FleetOK

(* What has passed stays passed while the chain grows.                     *)
LEMMA PassedStays ==
  ASSUME PassedIsThresholdSpend, UNCHANGED fleet,
         spent \subseteq spent', confirmed \subseteq confirmed',
         \A n \in 1..MaxRuns : outcome'[n] = "passed" => outcome[n] = "passed"
  PROVE  PassedIsThresholdSpend'
<1>1. \A vendor : OfVendor(vendor)' = OfVendor(vendor)
  BY FleetStays
<1>2. \A n : SpendOf(n) \subseteq SpendOf(n)'
  BY DEF SpendOf
<1> QED
  BY <1>1, <1>2 DEF PassedIsThresholdSpend

(* A run that ends without having passed.                                  *)
LEMMA EndsUnpassed ==
  ASSUME TypeOK, NEW result \in {"failed", "not confirmed"}, End(result)
  PROVE  /\ outcome' \in [1..MaxRuns -> {"passed", "failed", "not confirmed", None}]
         /\ \A n \in 1..MaxRuns : outcome'[n] = "passed" => outcome[n] = "passed"
         /\ pc' = "end"
BY DEF End, TypeOK

-----------------------------------------------------------------------------
LEMMA RunsInit == Init => Runs
<1> SUFFICES ASSUME Init PROVE Runs
  OBVIOUS
<1>1. fleet \in Seq([vendor : Vendors, key : Keys])
  <2>1. PICK n \in 0..MaxSize : fleet \in [1..n -> [vendor : Vendors, key : Keys]]
    BY DEF Init
  <2>2. n \in Nat
    BY BoundsAssumption
  <2>3. ASSUME NEW S, NEW f \in [1..n -> S] PROVE f \in Seq(S)
    BY <2>2
  <2> QED
    BY <2>1, <2>3
<1>2. TypeOK
  BY <1>1, BoundsAssumption DEF Init, TypeOK
<1>3. Progress
  BY DEF Init, Progress, Funded, Signed, Checked, Spending
<1>4. PassedIsThresholdSpend
  BY NoneAssumption DEF Init, PassedIsThresholdSpend
<1> QED
  BY <1>2, <1>3, <1>4 DEF Runs

(* A step of the run, or its loss, that adds to the chain at most.         *)
LEMMA OnChain ==
  ASSUME Runs, UNCHANGED <<fleet, run>>, spent \subseteq spent', confirmed \subseteq confirmed',
         NEW next, Answered(next) \/ Lost,
         Answered(next) => Progress'
  PROVE  Runs'
<1>1. CASE Answered(next)
  BY <1>1, PassedStays DEF Answered, Runs, TypeOK
<1>2. CASE Lost
  <2>1. /\ outcome' \in [1..MaxRuns -> {"passed", "failed", "not confirmed", None}]
        /\ \A n \in 1..MaxRuns : outcome'[n] = "passed" => outcome[n] = "passed"
        /\ pc' = "end"
    BY <1>2, EndsUnpassed DEF Lost, Runs
  <2>2. Progress'
    BY <2>1 DEF Progress, Funded, Signed, Checked, Spending
  <2> QED
    BY <2>1, <2>2, PassedStays DEF Runs, TypeOK
<1> QED
  BY <1>1, <1>2

LEMMA RunsNext == Runs /\ [Next]_vars => Runs'
<1> SUFFICES ASSUME Runs, [Next]_vars PROVE Runs'
  OBVIOUS
<1> USE DEF Funded, Signed, Checked, Spending, chain
<1>1. CASE BuildFleet
  <2>1. DOMAIN fleet = 1..3
    BY <1>1, LenProperties DEF BuildFleet, Runs, TypeOK
  <2>2. FleetOK'
    BY <1>1, <2>1, FleetStays DEF BuildFleet, FleetOK
  <2>3. PassedIsThresholdSpend'
    BY <1>1, PassedStays DEF BuildFleet, Runs
  <2> QED
    BY <1>1, <2>2, <2>3 DEF BuildFleet, Runs, TypeOK, Progress
<1>2. CASE Fund
  <2>1. Answered("mineFunding") => Progress'
    BY <1>2, FleetStays DEF Fund, Answered, Runs, Progress
  <2> QED
    BY <1>2, <2>1, OnChain DEF Fund
<1>3. CASE MineFunding
  <2>1. Answered("locate") => Progress'
    BY <1>3, FleetStays DEF MineFunding, Mine, Answered, Runs, Progress
  <2> QED
    BY <1>3, <2>1, OnChain DEF MineFunding, Mine
<1>4. CASE Locate
  <2>1. PassedIsThresholdSpend'
    BY <1>4, PassedStays DEF Locate, Runs
  <2> QED
    BY <1>4, <2>1, FleetStays DEF Locate, Runs, TypeOK, Progress, Coin
<1>5. CASE Sign
  <2>1. PassedIsThresholdSpend'
    BY <1>5, PassedStays DEF Sign, Runs
  <2>2. SigsOK'
    BY <1>5, FleetStays DEF Sign, SigsOK, Signature
  <2> QED
    BY <1>5, <2>1, <2>2, FleetStays DEF Sign, Runs, TypeOK, Progress, Coin
<1>6. CASE Check
  <2>1. PassedIsThresholdSpend'
    BY <1>6, PassedStays DEF Check, Runs
  <2>2. SigsOK'
    BY <1>6, FleetStays DEF Check, Runs, Progress, SigsOK, Signature
  <2> QED
    BY <1>6, <2>1, <2>2, FleetStays DEF Check, Runs, TypeOK, Progress, Coin
<1>7. CASE Broadcast
  <2>1. SigsOK'
    BY <1>7, FleetStays DEF Broadcast, Runs, Progress, SigsOK, Signature
  <2>2. Answered("mineSpend") => Progress'
    BY <1>7, <2>1, FleetStays DEF Broadcast, Answered, Runs, Progress, Coin, Spend
  <2> QED
    BY <1>7, <2>2, OnChain DEF Broadcast
<1>8. CASE MineSpend
  <2>1. SigsOK'
    BY <1>8, FleetStays DEF MineSpend, Mine, Runs, Progress, SigsOK, Signature
  <2>2. Answered("confirm") => Progress'
    BY <1>8, <2>1, FleetStays DEF MineSpend, Mine, Answered, Runs, Progress, Coin, Spend
  <2> QED
    BY <1>8, <2>2, OnChain DEF MineSpend, Mine
<1>9. CASE Confirm
  <2>1. CASE End("not confirmed")
    <3>1. /\ outcome' \in [1..MaxRuns -> {"passed", "failed", "not confirmed", None}]
          /\ \A n \in 1..MaxRuns : outcome'[n] = "passed" => outcome[n] = "passed"
          /\ pc' = "end"
      BY <2>1, EndsUnpassed DEF Runs
    <3>2. PassedIsThresholdSpend'
      BY <1>9, <3>1, PassedStays DEF Confirm, Runs
    <3> QED
      BY <1>9, <3>1, <3>2 DEF Confirm, Runs, TypeOK, Progress
  <2>2. CASE Spend(coin) \in confirmed /\ End("passed")
    <3> DEFINE tx == Spend(coin)
               i == Position("securosys")
               j == Position("dev")
    <3>1. FleetOK /\ SigsOK /\ coin = Coin(run) /\ tx \in spent /\ tx \in confirmed
          /\ Cardinality(sigs) = Threshold /\ \A sig \in sigs : sig.valid
      BY <1>9, <2>2 DEF Confirm, Runs, Progress
    <3>2. tx \in SpendOf(run) /\ tx.sigs = sigs
      BY <3>1 DEF Spend, SpendOf
    <3>3. i \in OfVendor("securosys") /\ j \in OfVendor("dev")
      BY <3>1, PositionFinds DEF FleetOK
    <3>4. sigs = {Signature(fleet[i].key, TRUE), Signature(fleet[j].key, TRUE)}
      <4>1. PICK valid \in [Registered -> BOOLEAN] :
              sigs = {Signature(fleet[k].key, valid[k]) : k \in Registered}
        BY <3>1 DEF SigsOK
      <4>2. ASSUME NEW k \in Registered PROVE valid[k] = TRUE
        <5>1. Signature(fleet[k].key, valid[k]) \in sigs
          BY <4>1
        <5>2. Signature(fleet[k].key, valid[k]).valid
          BY <3>1, <5>1
        <5>3. Signature(fleet[k].key, valid[k]).valid = valid[k]
          BY DEF Signature
        <5> QED
          BY <5>2, <5>3
      <4>3. sigs = {Signature(fleet[k].key, TRUE) : k \in Registered}
        BY <4>1, <4>2
      <4>4. Registered = {i, j}
        BY DEF Registered
      <4> HIDE DEF i, j
      <4> QED
        BY <4>3, <4>4
    <3>5. Cardinality(DOMAIN fleet) > Threshold
      <4>1. Cardinality(1..3) = 3
        <5>1. 1 \in Int /\ 3 \in Int
          OBVIOUS
        <5>2. Cardinality(1..3) = IF 1 > 3 THEN 0 ELSE 3 - 1 + 1
          BY <5>1, FS_Interval
        <5> QED
          BY <5>2
      <4> QED
        BY <3>1, <4>1 DEF FleetOK, Threshold
    <3> HIDE DEF i, j, tx
    <3>6. \E t \in SpendOf(run) :
            /\ Cardinality(t.sigs) = Threshold
            /\ \E k \in OfVendor("securosys"), l \in OfVendor("dev") :
                 t.sigs = {Signature(fleet[k].key, TRUE), Signature(fleet[l].key, TRUE)}
            /\ Cardinality(DOMAIN fleet) > Threshold
      BY <3>1, <3>2, <3>3, <3>4, <3>5
    <3>7. \A n \in 1..MaxRuns : outcome'[n] = "passed" => outcome[n] = "passed" \/ n = run
      BY <2>2 DEF End, Runs, TypeOK
    <3>8. UNCHANGED <<fleet, spent, confirmed>>
      BY <1>9 DEF Confirm
    <3>9. \A n \in 1..MaxRuns : outcome'[n] = "passed" =>
            \E t \in SpendOf(n) :
              /\ Cardinality(t.sigs) = Threshold
              /\ \E k \in OfVendor("securosys"), l \in OfVendor("dev") :
                   t.sigs = {Signature(fleet[k].key, TRUE), Signature(fleet[l].key, TRUE)}
              /\ Cardinality(DOMAIN fleet) > Threshold
      BY <3>6, <3>7 DEF Runs, PassedIsThresholdSpend
    <3>10. PassedIsThresholdSpend'
      <4>1. \A n : SpendOf(n)' = SpendOf(n)
        BY <3>8 DEF SpendOf
      <4>2. \A vendor : OfVendor(vendor)' = OfVendor(vendor)
        BY <3>8, FleetStays
      <4> QED
        BY <3>8, <3>9, <4>1, <4>2 DEF PassedIsThresholdSpend
    <3>11. outcome' \in [1..MaxRuns -> {"passed", "failed", "not confirmed", None}]
           /\ pc' = "end"
      BY <2>2 DEF End, Runs, TypeOK
    <3> QED
      BY <1>9, <3>10, <3>11 DEF Confirm, Runs, TypeOK, Progress
  <2> QED
    BY <1>9, <2>1, <2>2 DEF Confirm
<1>10. CASE Fail
  <2>1. /\ outcome' \in [1..MaxRuns -> {"passed", "failed", "not confirmed", None}]
        /\ \A n \in 1..MaxRuns : outcome'[n] = "passed" => outcome[n] = "passed"
        /\ pc' = "end"
    BY <1>10, EndsUnpassed DEF Fail, Runs
  <2>2. PassedIsThresholdSpend'
    BY <1>10, <2>1, PassedStays DEF Fail, Runs
  <2> QED
    BY <1>10, <2>1, <2>2 DEF Fail, Runs, TypeOK, Progress
<1>11. CASE RunAgain
  <2>1. PassedIsThresholdSpend'
    BY <1>11, PassedStays DEF RunAgain, Runs
  <2>2. run' \in 1..MaxRuns
    <3>1. run \in 1..MaxRuns /\ run < MaxRuns /\ run' = run + 1
      BY <1>11 DEF RunAgain, Runs, TypeOK
    <3> QED
      BY <3>1, BoundsAssumption
  <2> QED
    BY <1>11, <2>1, <2>2 DEF RunAgain, Runs, TypeOK, Progress
<1>12. CASE UNCHANGED vars
  <2> USE <1>12 DEF vars
  <2>1. PassedIsThresholdSpend'
    BY PassedStays DEF Runs
  <2>2. SigsOK' = SigsOK
    BY FleetStays DEF SigsOK, Signature
  <2> QED
    BY <2>1, <2>2, FleetStays DEF Runs, TypeOK, Progress, Coin, Spend
<1> QED
  BY <1>1, <1>2, <1>3, <1>4, <1>5, <1>6, <1>7, <1>8, <1>9, <1>10, <1>11, <1>12 DEF Next

-----------------------------------------------------------------------------
(* Result.                                                                 *)

(* A run that passes has spent its own coin in a confirmed transaction     *)
(* with one valid signature of a Securosys and one of a dev cosigner       *)
(* (examples/mixed_taproot_spend_regtest.rs:134-135, :169-220).            *)
THEOREM PassedSpends == Spec => []PassedIsThresholdSpend
<1>1. Spec => []Runs
  BY RunsInit, RunsNext, PTL DEF Spec
<1>2. Runs => PassedIsThresholdSpend
  BY DEF Runs
<1> QED
  BY <1>1, <1>2, PTL
=============================================================================
