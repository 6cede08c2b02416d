------------------------------ MODULE InitOnce ------------------------------
(***************************************************************************)
(* What callers of SecurosysBackend::ffi are promised of one backend: its  *)
(* entry points are resolved at most once, every successful call gets the  *)
(* same ones, and a call can fail only if it began before they were there. *)
(***************************************************************************)
CONSTANTS Threads, Values, None

VARIABLES
  cell,   \* the entry points all calls share, or None
  phase   \* of each thread: "out", "cold" (entered before cell was set), "in"

vars == <<cell, phase>>

Init == cell = None /\ phase = [t \in Threads |-> "out"]

Enter(t) ==
  /\ phase[t] = "out"
  /\ phase' = [phase EXCEPT ![t] = IF cell = None THEN "cold" ELSE "in"]
  /\ UNCHANGED cell

Resolve(t) ==
  /\ phase[t] = "cold"
  /\ phase' = [phase EXCEPT ![t] = "in"]
  /\ IF cell = None THEN cell' \in Values ELSE UNCHANGED cell

Fail(t) ==
  /\ phase[t] = "cold"
  /\ phase' = [phase EXCEPT ![t] = "out"]
  /\ UNCHANGED cell

Leave(t) ==
  /\ phase[t] = "in"
  /\ phase' = [phase EXCEPT ![t] = "out"]
  /\ UNCHANGED cell

(* The owner drops the backend and builds another one in its place.        *)
Renew ==
  /\ \A t \in Threads : phase[t] = "out"
  /\ cell' = None
  /\ UNCHANGED phase

Next == (\E t \in Threads : Enter(t) \/ Resolve(t) \/ Fail(t) \/ Leave(t)) \/ Renew

Spec == Init /\ [][Next]_vars
=============================================================================
