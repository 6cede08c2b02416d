----------------------------- MODULE MixedSpend -----------------------------
(***************************************************************************)
(* examples/mixed_taproot_spend_regtest.rs: fund a 2-of-3 taproot vault on *)
(* a regtest node and spend it with two of its cosigners.  The program is  *)
(* run again and again against one node, whose bitcoin-cli may fail before *)
(* or after a call took effect.  The keys of a cosigner come from its      *)
(* seed, so that every run with a fleet has the same vault address.        *)
(***************************************************************************)
EXTENDS Naturals, Sequences, FiniteSets

CONSTANTS
  Vendors,   \* vendors of fleet members, "securosys" and "dev" among them
  Keys,      \* account keys their tokens hold
  MaxSize,   \* bound: members of a fleet
  None,
  MaxRuns    \* bound: runs of the program

ASSUME VendorsAssumption == {"securosys", "dev"} \subseteq Vendors
ASSUME BoundsAssumption == MaxSize \in Nat /\ MaxRuns \in Nat /\ MaxRuns >= 1
ASSUME NoneAssumption == None \notin {"passed", "failed", "not confirmed"}

Threshold == 2

VARIABLES
  fleet,      \* the members EMVAULT_FLEET_* names, in their order
  run,        \* the number of this run
  pc,         \* where it is
  coin,       \* the funding coin it knows of, or None
  sigs,       \* the tap script signatures in its PSBT
  funded,     \* coins paid to the vault: unconfirmed or confirmed
  spent,      \* transactions that spend from it
  confirmed,  \* coins and transactions in a block
  outcome     \* per run: "passed", why it failed, or None

vars == <<fleet, run, pc, coin, sigs, funded, spent, confirmed, outcome>>
chain == <<funded, spent, confirmed>>

-----------------------------------------------------------------------------
(* The first member of a vendor: vendors.iter().position(..).              *)
OfVendor(vendor) == {i \in DOMAIN fleet : fleet[i].vendor = vendor}
Position(vendor) == CHOOSE i \in OfVendor(vendor) : \A j \in OfVendor(vendor) : i <= j
Registered == {Position("securosys"), Position("dev")}

Coin(n) == [coin |-> n]
Spend(n) == [spends |-> n, sigs |-> sigs]

(* A cosigner signs with its account key over what it was asked to sign; a *)
(* signature may turn out not to verify.  The PSBT has one per key.        *)
Signature(key, valid) == [key |-> key, valid |-> valid]

Init ==
  /\ fleet \in UNION {[1..n -> [vendor : Vendors, key : Keys]] : n \in 0..MaxSize}
  /\ run = 1 /\ pc = "fleet"
  /\ coin = None /\ sigs = {}
  /\ funded = {} /\ spent = {} /\ confirmed = {}
  /\ outcome = [n \in 1..MaxRuns |-> None]

End(result) ==
  /\ outcome' = [outcome EXCEPT ![run] = result]
  /\ pc' = "end"

(* `?` on a call or a check of this program.                               *)
Fail ==
  /\ pc # "end"
  /\ End("failed")
  /\ UNCHANGED <<fleet, run, coin, sigs, chain>>

-----------------------------------------------------------------------------
(* Fleet::from_env and build_signers, with the checks of the fleet: three  *)
(* members, one at least of either vendor.  The descriptor has three keys. *)
BuildFleet ==
  /\ pc = "fleet"
  /\ Len(fleet) = 3
  /\ OfVendor("securosys") # {} /\ OfVendor("dev") # {}
  /\ pc' = "fund"
  /\ UNCHANGED <<fleet, run, coin, sigs, chain, outcome>>

(* A call to the node changes the chain, and its answer arrives or not.    *)
Answered(next) == pc' = next /\ UNCHANGED outcome
Lost == End("failed")

(* sendtoaddress.                                                          *)
Fund ==
  /\ pc = "fund"
  /\ funded' = funded \cup {Coin(run)}
  /\ Answered("mineFunding") \/ Lost
  /\ UNCHANGED <<fleet, run, coin, sigs, spent, confirmed>>

(* mine(1) puts what is in the mempool into a block.                       *)
Mine(at, next) ==
  /\ pc = at
  /\ confirmed' = confirmed \cup funded \cup spent
  /\ Answered(next) \/ Lost
  /\ UNCHANGED <<fleet, run, coin, sigs, funded, spent>>
MineFunding == Mine("mineFunding", "locate")

(* getrawtransaction, the output to the vault, apply_unconfirmed_txs: the  *)
(* wallet is new in every run, and this is the only coin it learns of.     *)
Locate ==
  /\ pc = "locate"
  /\ coin' = Coin(run)
  /\ pc' = "sign"
  /\ UNCHANGED <<fleet, run, sigs, chain, outcome>>

(* build_tx drains the wallet, and each registered signer signs in turn.   *)
Sign ==
  /\ pc = "sign"
  /\ \E valid \in [Registered -> BOOLEAN] :
       sigs' = {Signature(fleet[i].key, valid[i]) : i \in Registered}
  /\ pc' = "check"
  /\ UNCHANGED <<fleet, run, coin, chain, outcome>>

(* Exactly THRESHOLD signatures, and all of them verify.  Mutant: as many  *)
(* as there are have to verify.                                            *)
CheckUncounted ==
  /\ pc = "check"
  /\ \A sig \in sigs : sig.valid
  /\ pc' = "broadcast"
  /\ UNCHANGED <<fleet, run, coin, sigs, chain, outcome>>
Check ==
  /\ pc = "check"
  /\ Cardinality(sigs) = Threshold
  /\ \A sig \in sigs : sig.valid
  /\ pc' = "broadcast"
  /\ UNCHANGED <<fleet, run, coin, sigs, chain, outcome>>

(* finalize_psbt and sendrawtransaction: the node takes the transaction if *)
(* its coin is unspent and its signatures satisfy the script.              *)
Broadcast ==
  /\ pc = "broadcast"
  /\ coin \in funded /\ \A tx \in spent : tx.spends # coin
  /\ spent' = spent \cup {Spend(coin)}
  /\ Answered("mineSpend") \/ Lost
  /\ UNCHANGED <<fleet, run, coin, sigs, funded, confirmed>>

MineSpend == Mine("mineSpend", "confirm")

(* getrawtransaction once more: an error counts as no confirmations.       *)
Confirm ==
  /\ pc = "confirm"
  /\ \/ Spend(coin) \in confirmed /\ End("passed")
     \/ End("not confirmed")
  /\ UNCHANGED <<fleet, run, coin, sigs, chain>>

(* The operator runs it again; the node keeps its chain.                   *)
RunAgain ==
  /\ pc = "end" /\ run < MaxRuns
  /\ run' = run + 1 /\ pc' = "fleet"
  /\ coin' = None /\ sigs' = {}
  /\ UNCHANGED <<fleet, chain, outcome>>

Next ==
  \/ BuildFleet \/ Fund \/ MineFunding \/ Locate \/ Sign \/ Check \/ Broadcast
  \/ MineSpend \/ Confirm \/ Fail \/ RunAgain

Spec == Init /\ [][Next]_vars

-----------------------------------------------------------------------------
(* Properties.                                                             *)

SpendOf(n) == {tx \in confirmed \cap spent : tx.spends = Coin(n)}

(* A run that passes has spent its own coin in a confirmed transaction,    *)
(* and two cosigners have signed it, one of them a Securosys key: the      *)
(* third, withheld one was not needed (:7-8, :134-135, :169-220).          *)
PassedIsThresholdSpend ==
  \A n \in 1..MaxRuns : outcome[n] = "passed" =>
    \E tx \in SpendOf(n) :
      /\ Cardinality(tx.sigs) = Threshold
      /\ \E i \in OfVendor("securosys"), j \in OfVendor("dev") :
           tx.sigs = {Signature(fleet[i].key, TRUE), Signature(fleet[j].key, TRUE)}
      /\ Cardinality(DOMAIN fleet) > Threshold
=============================================================================
