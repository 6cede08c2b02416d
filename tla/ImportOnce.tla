----------------------------- MODULE ImportOnce -----------------------------
(***************************************************************************)
(* What importing a master promises its callers: a label gets at most one  *)
(* master, of a seed that somebody asked to import under it; a caller that *)
(* is told "ok" finds its own seed there; one that is told "failed" knows  *)
(* nothing, as its request may yet be applied.                             *)
(***************************************************************************)
CONSTANTS Callers, Labels, Seeds, None

VARIABLES
  master,   \* the seed whose master each label holds, or None
  pending,  \* requests under way, also of callers that no longer wait
  ask       \* what each caller asked for, and what it was told

vars == <<master, pending, ask>>

Request == [label : Labels, seed : Seeds]
NoAsk == [state |-> "idle", req |-> None]
AskType == [state : {"idle"}, req : {None}]
             \cup [state : {"waiting", "ok", "failed"}, req : Request]

Init ==
  /\ master = [l \in Labels |-> None]
  /\ pending = {}
  /\ ask = [c \in Callers |-> NoAsk]

Ask(c) ==
  /\ ask[c] = NoAsk
  /\ \E req \in Request :
       /\ ask' = [ask EXCEPT ![c] = [state |-> "waiting", req |-> req]]
       /\ pending' = pending \cup {req}
  /\ UNCHANGED master

(* A request leaves the set when its last copy is gone.                    *)
Settle(req) == pending' = pending \/ pending' = pending \ {req}

Apply ==
  /\ \E req \in pending :
       /\ master[req.label] = None
       /\ master' = [master EXCEPT ![req.label] = req.seed]
       /\ Settle(req)
  /\ UNCHANGED ask

Forget ==
  /\ \E req \in pending : Settle(req)
  /\ UNCHANGED <<master, ask>>

Succeed(c) ==
  /\ ask[c].state = "waiting"
  /\ master[ask[c].req.label] = ask[c].req.seed
  /\ ask' = [ask EXCEPT ![c].state = "ok"]
  /\ UNCHANGED <<master, pending>>

Fail(c) ==
  /\ ask[c].state = "waiting"
  /\ ask' = [ask EXCEPT ![c].state = "failed"]
  /\ Settle(ask[c].req)
  /\ UNCHANGED master

Return(c) ==
  /\ ask[c].state \in {"ok", "failed"}
  /\ ask' = [ask EXCEPT ![c] = NoAsk]
  /\ UNCHANGED <<master, pending>>

Next ==
  \/ \E c \in Callers : Ask(c) \/ Succeed(c) \/ Fail(c) \/ Return(c)
  \/ Apply \/ Forget

Spec == Init /\ [][Next]_vars
=============================================================================
