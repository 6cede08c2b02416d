------------------------------ MODULE Ffi_proofs ------------------------------
(***************************************************************************)
(* Ffi never calls through a dangling entry point, leaks no handle and     *)
(* implements InitOnce, for any number of threads and backends.            *)
(***************************************************************************)
EXTENDS Ffi, TLAPS

(* Pointers are good because a cell that is set belongs to a backend that  *)
(* holds a handle (NoHandleLeaks), so the library was not mapped again     *)
(* since; and a thread that uses a cell keeps its backend from being       *)
(* replaced.                                                               *)
Current ==
  /\ \A b \in Backends : cell[b] # None => cell[b] = mapping
  /\ \A t \in Threads : pc[t] = "use" => cell[on[t]] # None

IInv == TypeOK /\ NoHandleLeaks /\ Current

LEMMA InvInit == Init => IInv
BY MappingsAssumption
DEF Init, IInv, TypeOK, NoHandleLeaks, Current, Loading

LEMMA InvNext == IInv /\ [Next]_vars => IInv'
<1> SUFFICES ASSUME IInv, [Next]_vars PROVE IInv'
  OBVIOUS
<1> USE OwnersAssumption, MappingsAssumption DEF IInv, TypeOK, Loading, Goto
<1>1. ASSUME NEW t \in Threads, NEW b \in Backends, Get(t, b) PROVE IInv'
  BY <1>1 DEF Get, NoHandleLeaks, Current
<1>2. ASSUME NEW t \in Threads, Open(t) PROVE IInv'
  <2>1. TypeOK'
    BY <1>2 DEF Open
  <2>2. NoHandleLeaks'
    BY <1>2 DEF Open, NoHandleLeaks
  <2>3. handles = {} => \A b \in Backends : cell[b] = None
    BY DEF NoHandleLeaks
  <2>4. Current'
    BY <1>2, <2>3 DEF Open, Current
  <2>5. QED
    BY <2>1, <2>2, <2>4
<1>3. ASSUME NEW t \in Threads, OpenFails(t) \/ Resolve(t) \/ Called(t)
      PROVE  IInv'
  BY <1>3 DEF OpenFails, Resolve, Called, NoHandleLeaks, Current
<1>4. ASSUME NEW t \in Threads, ResolveFails(t) PROVE IInv'
  BY <1>4 DEF ResolveFails, NoHandleLeaks, Current
<1>5. ASSUME NEW t \in Threads, Publish(t) PROVE IInv'
  <2>1. on[t] \in Backends /\ mapping # None
    OBVIOUS
  <2>2. CASE cell[on[t]] = None
    BY <1>5, <2>1, <2>2 DEF Publish, NoHandleLeaks, Current
  <2>3. CASE cell[on[t]] # None
    BY <1>5, <2>1, <2>3 DEF Publish, NoHandleLeaks, Current
  <2>4. QED
    BY <2>2, <2>3
<1>6. ASSUME NEW b \in Backends, Replace(b) PROVE IInv'
  BY <1>6 DEF Replace, NoHandleLeaks, Current
<1>7. CASE UNCHANGED vars
  BY <1>7 DEF vars, NoHandleLeaks, Current
<1>8. QED
  BY <1>1, <1>2, <1>3, <1>4, <1>5, <1>6, <1>7 DEF Next, Step

LEMMA Invariant == Spec => []IInv
BY InvInit, InvNext, PTL DEF Spec

(* ffi is type-correct.                                                    *)
THEOREM FfiTypeCorrect == Spec => []TypeOK
<1>1. IInv => TypeOK
  BY DEF IInv
<1>2. QED
  BY <1>1, Invariant, PTL

(* Threads only ever call through entry points of the library as it is     *)
(* mapped, however their loads race and other backends come and go: the    *)
(* "kept loaded" of backend.rs:101.                                        *)
THEOREM FfiPointersValid == Spec => []PointersValid
<1>1. IInv => PointersValid
  BY OwnersAssumption
  DEF IInv, TypeOK, NoHandleLeaks, Current, PointersValid
<1>2. QED
  BY <1>1, Invariant, PTL

(* Failed and losing loads close the library handle they opened.           *)
THEOREM FfiNoHandleLeaks == Spec => []NoHandleLeaks
<1>1. IInv => NoHandleLeaks
  BY DEF IInv
<1>2. QED
  BY <1>1, Invariant, PTL

-----------------------------------------------------------------------------
(* Refinement: a step of ffi is a step of InitOnce for the backend it is   *)
(* about, and a stutter for the others.                                    *)

LEMMA OnceInit == ASSUME Init, NEW b \in Backends PROVE Once(b)!Init
BY DEF Init, Once!Init, Phase

LEMMA OnceNext ==
  ASSUME IInv, [Next]_vars, NEW b \in Backends
  PROVE  [Once(b)!Next]_(Once(b)!vars)
<1> DEFINE phase == [t \in Threads |-> Phase(b, t)]
<1> USE MappingsAssumption DEF IInv, TypeOK, Loading, Goto, Phase
<1>1. ASSUME NEW t \in Threads, NEW a \in Backends, Get(t, a)
      PROVE  Once(b)!Enter(t) \/ UNCHANGED Once(b)!vars
  <2>1. CASE a = b
    BY <1>1, <2>1 DEF Get, Once!Enter
  <2>2. CASE a # b
    BY <1>1, <2>2 DEF Get, Once!vars
  <2>3. QED
    BY <2>1, <2>2
<1>2. ASSUME NEW t \in Threads, Open(t) \/ Resolve(t)
      PROVE  UNCHANGED Once(b)!vars
  BY <1>2 DEF Open, Resolve, Once!vars
<1>3. ASSUME NEW t \in Threads, OpenFails(t) \/ ResolveFails(t)
      PROVE  Once(b)!Fail(t) \/ UNCHANGED Once(b)!vars
  <2>1. CASE on[t] = b
    BY <1>3, <2>1 DEF OpenFails, ResolveFails, Once!Fail
  <2>2. CASE on[t] # b
    BY <1>3, <2>2 DEF OpenFails, ResolveFails, Once!vars
  <2>3. QED
    BY <2>1, <2>2
<1>4. ASSUME NEW t \in Threads, Publish(t)
      PROVE  Once(b)!Resolve(t) \/ UNCHANGED Once(b)!vars
  <2>1. CASE on[t] = b
    BY <1>4, <2>1 DEF Publish, Once!Resolve
  <2>2. CASE on[t] # b
    BY <1>4, <2>2 DEF Publish, Once!vars
  <2>3. QED
    BY <2>1, <2>2
<1>5. ASSUME NEW t \in Threads, Called(t)
      PROVE  Once(b)!Leave(t) \/ UNCHANGED Once(b)!vars
  <2>1. CASE on[t] = b
    BY <1>5, <2>1 DEF Called, Once!Leave
  <2>2. CASE on[t] # b
    BY <1>5, <2>2 DEF Called, Once!vars
  <2>3. QED
    BY <2>1, <2>2
<1>6. ASSUME NEW a \in Backends, Replace(a)
      PROVE  Once(b)!Renew \/ UNCHANGED Once(b)!vars
  <2>1. CASE a = b
    BY <1>6, <2>1 DEF Replace, Once!Renew
  <2>2. CASE a # b
    BY <1>6, <2>2 DEF Replace, Once!vars
  <2>3. QED
    BY <2>1, <2>2
<1>7. CASE UNCHANGED vars
  BY <1>7 DEF vars, Once!vars
<1>8. QED
  BY <1>1, <1>2, <1>3, <1>4, <1>5, <1>6, <1>7 DEF Next, Step, Once!Next

(* Every backend's ffi implements InitOnce: the entry points are resolved  *)
(* once, every successful call gets the same ones, and no call that starts *)
(* after that fails to load the library.                                   *)
THEOREM FfiImplementsInitOnce == Spec => ImplementsInitOnce
<1>1. Init => \A b \in Backends : Once(b)!Init
  BY OnceInit
<1>2. IInv /\ [Next]_vars =>
        [\A b \in Backends : [Once(b)!Next]_(Once(b)!vars)]_vars
  BY OnceNext
<1>3. QED
  BY <1>1, <1>2, Invariant, PTL DEF Spec, ImplementsInitOnce
=============================================================================
