------------------------------- MODULE PubMap -------------------------------
(***************************************************************************)
(* PubMap of src/pkcs11/backend.rs: the bounded map from a private-key     *)
(* handle to the handle of its public key, with FIFO eviction.  The hash   *)
(* map is a function on all handles that is None where nothing is mapped.  *)
(***************************************************************************)
EXTENDS Token

CONSTANT Cap  \* PUB_MAP_CAP

ASSUME CapAssumption == Cap \in Nat \ {0}

EmptyPubMap == [order |-> << >>, map |-> [h \in Handles |-> None]]

Lookup(m, h) == m.map[h]
Mapped(m) == {h \in Handles : m.map[h] # None}

(* How many entries of the queue are to be evicted after the one of h.      *)
Behind(m, h) ==
  Len(m.order) - (CHOOSE i \in 1..Len(m.order) : m.order[i] = h)

(* push_back, then the pops: drop pairs leave at the front of the queue.    *)
Push(m, h, p, drop) ==
  LET queue   == Append(m.order, h)
      evicted == {queue[i] : i \in 1..drop}
  IN [order |-> SubSeq(queue, drop + 1, Len(queue)),
      map   |-> [k \in Handles |-> IF k \in evicted THEN None
                                   ELSE IF k = h THEN p ELSE m.map[k]]]

(* Mutants: the loop stops one entry late, or one entry early.              *)
ExcessLate(len) == IF len > Cap + 1 THEN len - (Cap + 1) ELSE 0
ExcessEarly(len) == IF len >= Cap THEN len - Cap + 1 ELSE 0

(* while order.len() > PUB_MAP_CAP: how many pairs the loop drops.          *)
Excess(len) == IF len > Cap THEN len - Cap ELSE 0

(* Mutant: the entry of a handle already mapped is kept.                    *)
InsertPairOnce(m, h, p) ==
  IF h \in Mapped(m) THEN m ELSE Push(m, h, p, Excess(Len(m.order) + 1))

(* record_pair, under the mutex: a handle already mapped keeps its place in *)
(* the queue; a new one is queued, and the while loop drops the oldest ones *)
(* until no more than Cap are left.                                         *)
InsertPair(m, h, p) ==
  IF h \in Mapped(m)
  THEN [m EXCEPT !.map[h] = p]
  ELSE Push(m, h, p, Excess(Len(m.order) + 1))

-----------------------------------------------------------------------------
PubMapType == [order : Seq(Handles), map : [Handles -> Handles \cup {None}]]

(* The queue and the map hold the same handles, each once, and never more   *)
(* than Cap: an entry can always be evicted and none is evicted twice.      *)
WellFormed(m) ==
  /\ Len(m.order) <= Cap
  /\ \A i, j \in 1..Len(m.order) : m.order[i] = m.order[j] => i = j
  /\ Mapped(m) = {m.order[i] : i \in 1..Len(m.order)}
=============================================================================
