--------------------------------- MODULE Ffi ---------------------------------
(***************************************************************************)
(* SecurosysBackend::ffi (src/pkcs11/backend.rs): loading the vendor       *)
(* library and resolving its two entry points, lazily and once per         *)
(* backend, without a lock around the load.  The registrar's factory       *)
(* builds one backend per signer, so several share the process's library.  *)
(*                                                                         *)
(* dlopen counts references: the library is mapped as long as one handle   *)
(* to it is open.  A handle is named by its owner, the thread that opened  *)
(* it or the backend whose Ffi took it over.  mapping counts how often the *)
(* library was mapped: an address is good only while its mapping lasts.    *)
(***************************************************************************)
EXTENDS Naturals

CONSTANTS
  Threads, Backends, None,
  MaxMappings  \* bound: how often the library may be mapped

ASSUME OwnersAssumption == Threads \cap Backends = {}
ASSUME MappingsAssumption == MaxMappings \in Nat /\ None \notin Nat

VARIABLES
  handles,  \* the owners of the open library handles
  mapping,  \* the number of the current, or last, mapping
  cell,     \* the OnceLock of each backend: the mapping of its pointers, or None
  pc,       \* where each thread is in ffi, "use": calling an entry point
  on        \* the backend each thread is calling

vars == <<handles, mapping, cell, pc, on>>

Init ==
  /\ handles = {}
  /\ mapping = 0
  /\ cell = [b \in Backends |-> None]
  /\ pc = [t \in Threads |-> "out"]
  /\ on \in [Threads -> Backends]

Goto(t, from, to) == pc[t] = from /\ pc' = [pc EXCEPT ![t] = to]

-----------------------------------------------------------------------------
(* self.ffi.get()                                                          *)
Get(t, b) ==
  /\ Goto(t, "out", IF cell[b] # None THEN "use" ELSE "open")
  /\ on' = [on EXCEPT ![t] = b]
  /\ UNCHANGED <<handles, mapping, cell>>

(* Library::new: the first handle maps the library anew.                   *)
Open(t) ==
  /\ Goto(t, "open", "generate")
  /\ handles = {} => mapping < MaxMappings
  /\ handles' = handles \cup {t}
  /\ mapping' = IF handles = {} THEN mapping + 1 ELSE mapping
  /\ UNCHANGED <<cell, on>>

OpenFails(t) ==
  /\ Goto(t, "open", "out")
  /\ UNCHANGED <<handles, mapping, cell, on>>

(* lib.get(b"C_GenerateKeyPair"), lib.get(b"C_DeriveKeyPair")              *)
Resolve(t) ==
  /\ \/ Goto(t, "generate", "derive")
     \/ Goto(t, "derive", "publish")
  /\ UNCHANGED <<handles, mapping, cell, on>>

(* Mutant: the handle stays open.                                          *)
ResolveFailsOpen(t) ==
  /\ Goto(t, "generate", "out") \/ Goto(t, "derive", "out")
  /\ UNCHANGED <<handles, mapping, cell, on>>

(* A missing symbol: the early return drops lib, which closes the handle.  *)
ResolveFails(t) ==
  /\ Goto(t, "generate", "out") \/ Goto(t, "derive", "out")
  /\ handles' = handles \ {t}
  /\ UNCHANGED <<mapping, cell, on>>

(* Mutants: the library is forgotten instead of owned; it is dropped; the  *)
(* loser takes the winner's pointers away; the loser goes round again.     *)
PublishForgotten(t) ==
  /\ Goto(t, "publish", "use")
  /\ cell' = [cell EXCEPT ![on[t]] = IF @ = None THEN mapping ELSE @]
  /\ handles' = (handles \ {t}) \cup {None}
  /\ UNCHANGED <<mapping, on>>

PublishUnowned(t) ==
  /\ Goto(t, "publish", "use")
  /\ cell' = [cell EXCEPT ![on[t]] = IF @ = None THEN mapping ELSE @]
  /\ handles' = handles \ {t}
  /\ UNCHANGED <<mapping, on>>

PublishAgain(t) ==
  /\ Goto(t, "publish", "use")
  /\ cell' = [cell EXCEPT ![on[t]] = IF @ = None THEN mapping ELSE None]
  /\ handles' = (handles \ {t}) \cup {on[t]}
  /\ UNCHANGED <<mapping, on>>

PublishRetries(t) ==
  /\ Goto(t, "publish", IF cell[on[t]] = None THEN "open" ELSE "use")
  /\ handles' = handles \ {t}
  /\ UNCHANGED <<mapping, cell, on>>

(* get_or_init: the first one in moves its library into the cell; for the  *)
(* others the closure is not run, and dropping it closes their handle.     *)
Publish(t) ==
  /\ Goto(t, "publish", "use")
  /\ LET b == on[t] IN
       IF cell[b] = None
       THEN /\ cell' = [cell EXCEPT ![b] = mapping]
            /\ handles' = (handles \ {t}) \cup {b}
       ELSE handles' = handles \ {t} /\ UNCHANGED cell
  /\ UNCHANGED <<mapping, on>>

(* The C_GenerateKeyPair or C_DeriveKeyPair call comes back.               *)
Called(t) ==
  /\ Goto(t, "use", "out")
  /\ UNCHANGED <<handles, mapping, cell, on>>

(* A signer and its backend are dropped, which nobody is borrowing; the    *)
(* factory builds the next one in its place.                               *)
Replace(b) ==
  /\ \A t \in Threads : pc[t] # "out" => on[t] # b
  /\ cell' = [cell EXCEPT ![b] = None]
  /\ handles' = handles \ {b}
  /\ UNCHANGED <<mapping, pc, on>>

Step(t) ==
  \/ Open(t) \/ OpenFails(t) \/ Resolve(t) \/ ResolveFails(t)
  \/ Publish(t) \/ Called(t)

Next ==
  \/ \E t \in Threads : Step(t) \/ \E b \in Backends : Get(t, b)
  \/ \E b \in Backends : Replace(b)

Spec == Init /\ [][Next]_vars

(* A thread inside ffi keeps running, and the entry points return.         *)
FairSpec == Spec /\ \A t \in Threads : WF_vars(Step(t))

-----------------------------------------------------------------------------
Loading == {"generate", "derive", "publish"}

(* Every variable has its type.                                            *)
TypeOK ==
  /\ handles \subseteq Threads \cup Backends
  /\ mapping \in Nat
  /\ cell \in [Backends -> Nat \cup {None}]
  /\ pc \in [Threads -> Loading \cup {"out", "open", "use"}]
  /\ on \in [Threads -> Backends]

(* Every entry point a thread calls through (backend.rs:418, :491) is in   *)
(* the library as it is mapped now, whichever threads raced to load it and *)
(* whichever other backends were dropped meanwhile.                        *)
PointersValid ==
  \A t \in Threads :
    pc[t] = "use" => handles # {} /\ cell[on[t]] = mapping

(* A load that failed, or lost the race, leaves no handle behind: the open *)
(* ones are those of loads under way and of the backends' cells.           *)
NoHandleLeaks ==
  handles = {t \in Threads : pc[t] \in Loading}
              \cup {b \in Backends : cell[b] # None}

(* Every call that needs the entry points gets them or an error.           *)
EveryLoadReturns == \A t \in Threads : pc[t] # "out" ~> pc[t] = "out"

(* For each backend this is InitOnce: the cell is set once, all successful *)
(* calls share it, and a call that finds it set does not fail.             *)
Phase(b, t) ==
  IF pc[t] = "out" \/ on[t] # b THEN "out"
  ELSE IF pc[t] = "use" THEN "in" ELSE "cold"

Once(b) == INSTANCE InitOnce WITH
  Values <- Nat, cell <- cell[b], phase <- [t \in Threads |-> Phase(b, t)]

ImplementsInitOnce ==
  /\ \A b \in Backends : Once(b)!Init
  /\ [][\A b \in Backends : [Once(b)!Next]_(Once(b)!vars)]_vars
=============================================================================
