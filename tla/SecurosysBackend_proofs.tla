---------------------- MODULE SecurosysBackend_proofs -----------------------
(***************************************************************************)
(* Theorems about SecurosysBackend, for every number of threads, handles,  *)
(* seeds, labels and paths, every capacity of the map and every            *)
(* environment: first what record_pair does to the map, then the types and *)
(* the eviction of entries, then which keys are paired and returned.       *)
(*                                                                         *)
(* The inductive invariant of the second part is                           *)
(*                                                                         *)
(*   TypeOK       every variable has its type;                             *)
(*   PubMapOK     the queue and the map agree;                             *)
(*   HeldOK       a call that is about to use a handle or a key holds one; *)
(*   AccountResolves  the entry a call will look up is where its age puts  *)
(*                it, and so has not been evicted.                         *)
(*                                                                         *)
(* What is said of keys comes in layers, each on top of those before it:   *)
(* Sources (what is on the token and in a call has a provisioned seed; no  *)
(* condition), Pairs (the map pairs halves; LabelsApart or NativeOnly),    *)
(* Keys (xpubs are their keys; LabelsApart) and Current (no entry is       *)
(* outdated; NoReissue).                                                   *)
(***************************************************************************)
EXTENDS SecurosysBackend, SequenceTheorems, TLAPS

-----------------------------------------------------------------------------
(***************************************************************************)
(* What record_pair (InsertPair) does to the queue and the map of PubMap,  *)
(* for every capacity and every set of handles.                            *)
(***************************************************************************)

(* The empty map of SecurosysBackend::new has its type and is well formed.  *)
LEMMA EmptyPubMapOK == EmptyPubMap \in PubMapType /\ WellFormed(EmptyPubMap)
BY CapAssumption DEF EmptyPubMap, PubMapType, WellFormed, Mapped

(* How many entries make room for a new one.                                *)
Gone(m) == IF Len(m.order) = Cap THEN 1 ELSE 0

(* In a well-formed map the while loop runs at most once, and only when     *)
(* the map is full: a new handle goes to the back, the others keep their    *)
(* order, and the oldest one makes room if it has to.                       *)
LEMMA InsertNew ==
  ASSUME NEW m \in PubMapType, WellFormed(m),
         NEW h \in Handles \ Mapped(m), NEW p \in Handles
  PROVE  /\ InsertPair(m, h, p) \in PubMapType
         /\ Len(InsertPair(m, h, p).order) = Len(m.order) + 1 - Gone(m)
         /\ InsertPair(m, h, p).order[Len(m.order) + 1 - Gone(m)] = h
         /\ \A i \in 1..Len(m.order) - Gone(m) :
              InsertPair(m, h, p).order[i] = m.order[i + Gone(m)]
         /\ \A k \in Handles :
              InsertPair(m, h, p).map[k] =
                IF Gone(m) = 1 /\ k = Append(m.order, h)[1] THEN None
                ELSE IF k = h THEN p ELSE m.map[k]
<1> DEFINE queue == Append(m.order, h)
           excess == IF Len(queue) > Cap THEN Len(queue) - Cap ELSE 0
           gone == Gone(m)
           kept == SubSeq(queue, excess + 1, Len(queue))
<1>1. /\ m.order \in Seq(Handles) /\ Len(m.order) \in Nat
      /\ Len(m.order) <= Cap /\ Cap \in Nat \ {0}
  BY CapAssumption, LenProperties DEF PubMapType, WellFormed
<1>2. /\ queue \in Seq(Handles) /\ Len(queue) = Len(m.order) + 1
      /\ queue[Len(queue)] = h
      /\ \A i \in 1..Len(m.order) : queue[i] = m.order[i]
  BY <1>1
<1>3. excess = gone /\ excess \in {0, 1} /\ excess < Len(queue)
  BY <1>1, <1>2 DEF Gone
<1>4. /\ kept \in Seq(Handles)
      /\ Len(kept) = Len(queue) - excess
      /\ \A i \in 1..Len(kept) : kept[i] = queue[i + excess]
  <2> HIDE DEF queue, excess, gone
  <2>1. /\ \A i \in (excess + 1)..Len(queue) : queue[i] \in Handles
        /\ excess + 1 \in Int /\ Len(queue) \in Int
    BY <1>1, <1>2, <1>3, ElementOfSeq
  <2>2. /\ kept \in Seq(Handles)
        /\ Len(kept) = IF excess + 1 <= Len(queue)
                       THEN Len(queue) - (excess + 1) + 1 ELSE 0
        /\ \A i \in 1..Len(queue) - (excess + 1) + 1 :
             kept[i] = queue[(excess + 1) + i - 1]
    BY <2>1, SubSeqProperties
  <2> HIDE DEF kept
  <2>3. QED
    BY <2>1, <2>2, <1>2, <1>3
<1> DEFINE evicted == {queue[i] : i \in 1..excess}
           map == [k \in Handles |-> IF k \in evicted THEN None
                                     ELSE IF k = h THEN p ELSE m.map[k]]
<1>5. InsertPair(m, h, p) = [order |-> kept, map |-> map]
  BY <1>2 DEF InsertPair, Push, Excess
<1>6. evicted = IF gone = 1 THEN {queue[1]} ELSE {}
  <2> HIDE DEF queue
  <2>1. CASE excess = 0
    BY <2>1, <1>3
  <2>2. CASE excess = 1
    <3>1. 1..excess = {1}
      BY <2>2
    <3>2. QED
      BY <3>1, <2>2, <1>3
  <2>3. QED
    BY <2>1, <2>2, <1>3
<1>7. /\ map \in [Handles -> Handles \cup {None}]
      /\ \A k \in Handles : map[k] = IF gone = 1 /\ k = queue[1] THEN None
                                    ELSE IF k = h THEN p ELSE m.map[k]
  <2>1. m.map \in [Handles -> Handles \cup {None}]
    BY DEF PubMapType
  <2> HIDE DEF queue, gone, excess, evicted
  <2>2. QED
    BY <2>1, <1>6
<1>8. /\ kept[Len(kept)] = h
      /\ \A i \in 1..Len(kept) - 1 : kept[i] = m.order[i + gone]
  <2> HIDE DEF queue, gone, excess, kept
  <2>1. /\ Len(kept) = Len(m.order) + 1 - gone /\ Len(kept) \in 1..Len(queue)
        /\ Len(kept) + excess = Len(queue) /\ gone \in {0, 1}
    BY <1>1, <1>2, <1>3, <1>4
  <2>2. kept[Len(kept)] = h
    BY <2>1, <1>2, <1>4
  <2>3. ASSUME NEW i \in 1..Len(kept) - 1 PROVE kept[i] = m.order[i + gone]
    <3>1. i \in 1..Len(kept) /\ i + gone \in 1..Len(m.order)
      BY <2>1, <1>1
    <3>2. QED
      BY <3>1, <1>2, <1>3, <1>4
  <2>4. QED
    BY <2>2, <2>3
<1>9. InsertPair(m, h, p) \in PubMapType
  <2> HIDE DEF kept, map
  <2>1. QED
    BY <1>4, <1>5, <1>7 DEF PubMapType
<1>10. /\ InsertPair(m, h, p).order = kept
       /\ InsertPair(m, h, p).map = map
  <2> HIDE DEF kept, map
  <2>1. QED
    BY <1>5
<1>11. Len(kept) = Len(m.order) + 1 - gone
  <2> HIDE DEF kept, queue, excess, gone
  <2>1. QED
    BY <1>1, <1>2, <1>3, <1>4
<1>12. QED
  <2> HIDE DEF kept, map, excess
  <2>1. Len(kept) \in Nat /\ gone \in {0, 1} /\ Len(kept) - 1 = Len(m.order) - gone
    BY <1>1, <1>3, <1>11
  <2>2. QED
    BY <2>1, <1>7, <1>8, <1>9, <1>10, <1>11

(* record_pair keeps the map typed.                                         *)
LEMMA InsertPairType ==
  ASSUME NEW m \in PubMapType, WellFormed(m),
         NEW h \in Handles, NEW p \in Handles
  PROVE  InsertPair(m, h, p) \in PubMapType
<1>1. CASE h \in Mapped(m)
  BY <1>1 DEF InsertPair, PubMapType
<1>2. CASE h \notin Mapped(m)
  BY <1>2, InsertNew
<1>3. QED
  BY <1>1, <1>2

(* record_pair keeps the queue and the map in agreement and within Cap.     *)
LEMMA InsertPairWellFormed ==
  ASSUME NEW m \in PubMapType, WellFormed(m),
         NEW h \in Handles, NEW p \in Handles
  PROVE  WellFormed(InsertPair(m, h, p))
<1>0. None \notin Handles /\ Cap \in Nat \ {0} /\ Len(m.order) \in Nat
  BY NoneAssumption, CapAssumption, LenProperties DEF PubMapType
<1>1. CASE h \in Mapped(m)
  <2>1. /\ InsertPair(m, h, p).order = m.order
        /\ InsertPair(m, h, p).map = [m.map EXCEPT ![h] = p]
    BY <1>1 DEF InsertPair, PubMapType
  <2>2. Mapped(InsertPair(m, h, p)) = Mapped(m)
    BY <1>0, <1>1, <2>1 DEF Mapped, PubMapType
  <2>3. QED
    BY <2>1, <2>2 DEF WellFormed
<1>2. CASE h \notin Mapped(m)
  <2> DEFINE n == InsertPair(m, h, p)
             gone == Gone(m)
  <2>1. /\ n \in PubMapType /\ Len(n.order) = Len(m.order) + 1 - gone
        /\ n.order[Len(m.order) + 1 - gone] = h
        /\ \A i \in 1..Len(m.order) - gone : n.order[i] = m.order[i + gone]
        /\ \A k \in Handles :
             n.map[k] = IF gone = 1 /\ k = Append(m.order, h)[1] THEN None
                        ELSE IF k = h THEN p ELSE m.map[k]
    BY <1>2, InsertNew
  <2>2. /\ Len(m.order) <= Cap /\ gone \in {0, 1}
        /\ \A i, j \in 1..Len(m.order) : m.order[i] = m.order[j] => i = j
        /\ Mapped(m) = {m.order[i] : i \in 1..Len(m.order)}
    BY DEF WellFormed, Gone
  <2>3. gone = 1 => Len(m.order) = Cap
    BY DEF Gone
  <2>3a. gone = 1 => Append(m.order, h)[1] = m.order[1]
    <3>1. m.order \in Seq(Handles)
      BY DEF PubMapType
    <3>2. gone = 1 => Len(m.order) >= 1
      BY <2>3, <1>0
    <3> HIDE DEF gone
    <3>3. QED
      BY <1>0, <3>1, <3>2
  <2>3b. gone = 0 => Len(m.order) # Cap
    BY DEF Gone
  <2>3c. m.order \in Seq(Handles) /\ m.map \in [Handles -> Handles \cup {None}]
    BY DEF PubMapType
  <2> HIDE DEF n, gone
  <2>3d. Len(n.order) \in 1..Cap /\ h = n.order[Len(n.order)]
    BY <1>0, <2>1, <2>2, <2>3, <2>3b
  <2>4. Len(n.order) <= Cap
    BY <1>0, <2>1, <2>2, <2>3, <2>3b
  <2>5. \A i \in 1..Len(n.order) - 1 :
          n.order[i] = m.order[i + gone] /\ n.order[i] \in Mapped(m)
            /\ n.order[i] # h /\ i + gone \in 1..Len(m.order)
    BY <1>0, <1>2, <2>1, <2>2
  <2>6. \A i, j \in 1..Len(n.order) : n.order[i] = n.order[j] => i = j
    <3> SUFFICES ASSUME NEW i \in 1..Len(n.order), NEW j \in 1..Len(n.order),
                        n.order[i] = n.order[j]
                 PROVE  i = j
      OBVIOUS
    <3>1. CASE i < Len(n.order) /\ j < Len(n.order)
      <4>1. i \in 1..Len(n.order) - 1 /\ j \in 1..Len(n.order) - 1
        BY <3>1, <2>1, <2>2, <1>0
      <4>2. i + gone = j + gone
        BY <4>1, <2>5, <2>2
      <4>3. QED
        BY <4>2, <4>1, <2>2
    <3>2. CASE i = Len(n.order) /\ j < Len(n.order)
      BY <3>2, <2>1, <2>2, <2>5, <1>0
    <3>3. CASE i < Len(n.order) /\ j = Len(n.order)
      BY <3>3, <2>1, <2>2, <2>5, <1>0
    <3>4. QED
      BY <3>1, <3>2, <3>3, <2>3d, <1>0
  <2>7. Mapped(n) = {n.order[i] : i \in 1..Len(n.order)}
    <3>1. \A k \in Mapped(n) : \E i \in 1..Len(n.order) : n.order[i] = k
      <4> SUFFICES ASSUME NEW k \in Mapped(n)
                   PROVE  \E i \in 1..Len(n.order) : n.order[i] = k
        OBVIOUS
      <4>1. k \in Handles /\ n.map[k] # None
        BY DEF Mapped
      <4>2. CASE k = h
        BY <4>2, <2>3d, <1>0
      <4>3. CASE k # h
        <5>1. k \in Mapped(m) /\ ~(gone = 1 /\ k = m.order[1])
          BY <4>1, <4>3, <2>1, <2>3a DEF Mapped
        <5>2. PICK j \in 1..Len(m.order) : m.order[j] = k
          BY <5>1, <2>2
        <5>3. j - gone \in 1..Len(n.order) - 1
          <6>1. gone = 1 => j # 1
            BY <5>1, <5>2
          <6>2. QED
            BY <6>1, <2>1, <2>2, <1>0
        <5>4. n.order[j - gone] = k
          BY <5>2, <5>3, <2>1, <2>2
        <5>5. QED
          BY <5>3, <5>4, <2>1, <2>2, <1>0
      <4>4. QED
        BY <4>2, <4>3
    <3>2. \A i \in 1..Len(n.order) : n.order[i] \in Mapped(n)
      <4> SUFFICES ASSUME NEW i \in 1..Len(n.order)
                   PROVE  n.order[i] \in Mapped(n)
        OBVIOUS
      <4>1. CASE i = Len(n.order)
        <5>1. gone = 1 => h # m.order[1]
          BY <1>0, <1>2, <2>2, <2>3
        <5>2. n.map[h] = p
          BY <5>1, <2>1, <2>3a
        <5>3. QED
          BY <5>2, <4>1, <2>1, <1>0 DEF Mapped
      <4>2. CASE i # Len(n.order)
        <5>1. i \in 1..Len(n.order) - 1
          BY <4>2, <2>1, <2>2, <1>0
        <5>2. /\ n.order[i] \in Mapped(m) /\ n.order[i] # h
              /\ n.order[i] = m.order[i + gone] /\ i + gone \in 1..Len(m.order)
          BY <5>1, <2>5
        <5>3. gone = 1 => n.order[i] # m.order[1]
          BY <5>1, <5>2, <2>2, <1>0
        <5>4. n.order[i] \in Handles /\ m.map[n.order[i]] # None
          BY <5>2 DEF Mapped
        <5>5. n.map[n.order[i]] = m.map[n.order[i]]
          BY <5>2, <5>3, <5>4, <2>1, <2>3a
        <5>6. QED
          BY <5>4, <5>5 DEF Mapped
      <4>3. QED
        BY <4>1, <4>2
    <3>3. QED
      BY <3>1, <3>2
  <2>8. QED
    BY <2>4, <2>6, <2>7 DEF WellFormed, n
<1>3. QED
  BY <1>1, <1>2

(* The entry of a mapped handle is where Behind places it, and so has fewer *)
(* than Cap entries behind it.                                              *)
LEMMA BehindPlace ==
  ASSUME NEW m \in PubMapType, WellFormed(m), NEW h \in Mapped(m)
  PROVE  /\ Behind(m, h) \in 0..Cap /\ Behind(m, h) < Cap
         /\ Len(m.order) - Behind(m, h) \in 1..Len(m.order)
         /\ m.order[Len(m.order) - Behind(m, h)] = h
<1> DEFINE i == CHOOSE j \in 1..Len(m.order) : m.order[j] = h
<1>1. Len(m.order) \in Nat /\ Len(m.order) <= Cap /\ Cap \in Nat
  BY CapAssumption, LenProperties DEF PubMapType, WellFormed
<1>2. \E j \in 1..Len(m.order) : m.order[j] = h
  BY DEF WellFormed
<1>3. i \in 1..Len(m.order) /\ m.order[i] = h
  BY <1>2
<1>4. Behind(m, h) = Len(m.order) - i
  BY DEF Behind
<1> HIDE DEF i
<1>5. Len(m.order) - Behind(m, h) = i
  BY <1>1, <1>3, <1>4
<1>6. QED
  BY <1>1, <1>3, <1>4, <1>5

-----------------------------------------------------------------------------
(***************************************************************************)
(* Types and evictions.                                                    *)
(***************************************************************************)

(* What a call holds at each point of its code.                             *)
HeldOK ==
  \A t \in Threads :
    LET c == call[t] IN
    /\ c.pc \in {"gen", "import"} => c.want \in Key
    /\ c.pc \in {"derive", "record", "lookup", "label", "same", "sibling",
                 "findPub", "point", "chain"} => c.priv \in Handles
    /\ c.pc \in {"record", "point", "chain"} => c.pub \in Handles

Typed == TypeOK /\ PubMapOK /\ HeldOK

-----------------------------------------------------------------------------
(* Lemmas about keys, labels and objects.                                   *)

(* Seeds give keys, and deriving a path from a key gives a key.             *)
LEMMA KeysAreKeys ==
  /\ \A s \in Seeds : Master(s) \in Key
  /\ \A k \in Key, path \in Seq(Nat) : Child(k, path) \in Key
<1>1. \A s \in Seeds : Master(s) \in Key
  BY EmptySeq DEF Master, Key
<1>2. ASSUME NEW k \in Key, NEW path \in Seq(Nat) PROVE Child(k, path) \in Key
  <2>1. k.path \o path \in Seq(Nat)
    BY ConcatProperties DEF Key
  <2>2. QED
    BY <2>1 DEF Child, Key
<1>3. QED
  BY <1>1, <1>2

(* pub_sibling_label gives a label, whatever the suffix of its argument.    *)
LEMMA SiblingIsLabel == ASSUME NEW l \in Label PROVE PubSiblingLabel(l) \in Label
<1> DEFINE Word == Names \cup {"priv", "pub"}
<1>0. "pub" \in Word /\ l \in Seq(Word)
  BY DEF Label
<1>1. Append(l, "pub") \in Seq(Word)
  BY <1>0, AppendProperties, Zenon
<1>2. ASSUME l # << >>
      PROVE  Append(SubSeq(l, 1, Len(l) - 1), "pub") \in Seq(Word)
  <2>1. Len(l) - 1 \in Nat
    BY <1>0, <1>2, EmptySeq
  <2>2. SubSeq(l, 1, Len(l) - 1) \in Seq(Word)
    BY <1>0, <2>1, SubSeqProperties, ElementOfSeq
  <2>3. QED
    BY <1>0, <2>2, AppendProperties, Zenon
<1>3. QED
  BY <1>1, <1>2, Zenon DEF PubSiblingLabel, Label

(* Creating a pair, and losing the session objects, keep the store typed.   *)
LEMMA WithPairType ==
  ASSUME NEW s \in [Handles -> Maybe(Object)], NEW hPriv, NEW hPub,
         NEW a \in Object, NEW b \in Object
  PROVE  WithPair(s, hPriv, hPub, a, b) \in [Handles -> Maybe(Object)]
BY DEF WithPair, Maybe

LEMMA TokenObjectsType ==
  ASSUME NEW s \in [Handles -> Maybe(Object)]
  PROVE  TokenObjects(s) \in [Handles -> Maybe(Object)]
BY DEF TokenObjects, Maybe

(* An object is what it was created as.                                     *)
LEMMA KeyObjectType ==
  ASSUME NEW class \in {"private", "public"}, NEW key \in Key,
         NEW label \in Label, NEW token \in BOOLEAN, NEW tsb \in BOOLEAN
  PROVE  KeyObject(class, key, label, token, tsb) \in Object
BY DEF KeyObject, Object

(* So does an import.                                                       *)
LEMMA ImportedType ==
  ASSUME TypeOK, NEW label \in Label, NEW key \in Key, Imported(label, key)
  PROVE  /\ store' \in [Handles -> Maybe(Object)]
         /\ outdated' \subseteq Mapped(pubOf)
<1>1. PICK hPriv \in Free, hPub \in Free :
        store' = WithPair(store, hPriv, hPub,
                          KeyObject("private", key, label, TRUE, TRUE),
                          KeyObject("public", key, label, TRUE, TRUE))
  BY DEF Imported
<1>2. /\ KeyObject("private", key, label, TRUE, TRUE) \in Object
      /\ KeyObject("public", key, label, TRUE, TRUE) \in Object
  BY KeyObjectType
<1>3. QED
  BY <1>1, <1>2, WithPairType DEF TypeOK, Imported, Outdate

(* The idle call is a call.                                                 *)
LEMMA NoCallType == NoCall \in CallType
BY CapAssumption DEF NoCall, CallType, Ops, Pcs, Maybe, NoLabel, Label

(* A call that moves on, to other handles perhaps, is still a call.         *)
LEMMA MovedType ==
  ASSUME NEW c \in CallType, NEW pc \in Pcs, NEW hPriv \in Maybe(Handles),
         NEW hPub \in Maybe(Handles)
  PROVE  /\ [c EXCEPT !.pc = pc, !.priv = hPriv] \in CallType
         /\ [c EXCEPT !.pc = pc, !.priv = hPriv, !.pub = hPub] \in CallType
BY DEF CallType

(* A lost session leaves a call what it is and what it holds.               *)
LEMMA StaleType ==
  ASSUME NEW c \in CallType, NEW b \in BOOLEAN
  PROVE  LET d == [c EXCEPT !.stale = b] IN
         /\ d \in CallType
         /\ d.pc = c.pc /\ d.want = c.want /\ d.priv = c.priv /\ d.pub = c.pub
BY DEF CallType

(* The state of the calls after one of them has changed.                    *)
LEMMA UpdatedType ==
  ASSUME call \in [Threads -> CallType], NEW t \in Threads, NEW c \in CallType,
         call' = [call EXCEPT ![t] = c]
  PROVE  call' \in [Threads -> CallType]
OBVIOUS

-----------------------------------------------------------------------------
(* Every step keeps the invariant: first the steps of the environment and   *)
(* the entry points, then the steps inside the backend.                     *)

LEMMA TypedInit == Init => Typed
<1> SUFFICES ASSUME Init PROVE Typed
  OBVIOUS
<1>1. TypeOK
  BY NoCallType, EmptyPubMapOK DEF Init, TypeOK, Maybe, TaprootIn, Env, EnvsAssumption
<1>2. PubMapOK
  BY EmptyPubMapOK DEF Init, PubMapOK
<1>3. HeldOK
  BY DEF Init, HeldOK, NoCall
<1>4. QED
  BY <1>1, <1>2, <1>3 DEF Typed

LEMMA TypedStart ==
  ASSUME Typed, NEW t \in Threads, Start(t) \/ Take(t)
  PROVE  Typed'
<1> USE DEF Typed
<1>1. \E c \in CallType :
        /\ c.pc \in {"idle", "done", "import", "gen", "derive", "lookup"}
        /\ c.pc \in {"gen", "import"} => c.want \in Key
        /\ c.pc \in {"derive", "lookup"} => c.priv \in Handles
        /\ call' = [call EXCEPT ![t] = c]
  <2>1. CASE DeriveMasterKey(t)
    <3>1. PICK p \in Provisionings :
            Begin(t, IF p[1] = EmptySeed
                     THEN [NoCall EXCEPT !.op = "master", !.pc = "done",
                                         !.res = "emptySeed"]
                     ELSE [NoCall EXCEPT !.op = "master", !.label = p[2],
                                         !.pc = IF taproot THEN "import" ELSE "gen",
                                         !.want = Master(p[1])])
      BY <2>1 DEF DeriveMasterKey
    <3>2. p[2] \in Label /\ (p[1] # EmptySeed => Master(p[1]) \in Key)
      BY ProvisioningsAssumption, KeysAreKeys
    <3>3. CASE p[1] = EmptySeed
      BY <3>1, <3>3, NoCallType
      DEF Begin, NoCall, CallType, Ops, Pcs, Results, Maybe
    <3>4. CASE p[1] # EmptySeed
      BY <3>1, <3>2, <3>4, NoCallType
      DEF Begin, NoCall, CallType, Ops, Pcs, HsmPcs, Maybe
    <3>5. QED
      BY <3>3, <3>4
  <2>2. CASE DerivePath(t)
    <3>1. PICK op \in {"account", "leaf"}, path \in Paths,
               h \in Masters \cup Children :
            Begin(t, [NoCall EXCEPT
                        !.op = op, !.path = path, !.priv = h,
                        !.want = Child(store[h].key, path),
                        !.pc = IF path # << >> THEN "derive"
                               ELSE IF op = "account" THEN "lookup" ELSE "done",
                        !.res = IF path = << >> /\ op = "leaf" THEN "ok"
                                ELSE None])
      BY <2>2 DEF DerivePath
    <3>2. h \in Handles /\ store[h] \in Object
      BY DEF Masters, Children, Live, TypeOK, Maybe
    <3>3. path \in Seq(Nat) /\ Child(store[h].key, path) \in Key
      BY <3>2, PathsAssumption, KeysAreKeys DEF Object
    <3> DEFINE pc == IF path # << >> THEN "derive"
                     ELSE IF op = "account" THEN "lookup" ELSE "done"
               res == IF path = << >> /\ op = "leaf" THEN "ok" ELSE None
               want == Child(store[h].key, path)
               c == [NoCall EXCEPT !.op = op, !.path = path, !.priv = h,
                                   !.want = want,
                                   !.pc = pc, !.res = res]
    <3>4. /\ pc \in Pcs /\ pc \in {"derive", "lookup", "done"}
          /\ op \in Ops /\ res \in Maybe(Results)
          /\ want \in Maybe(Key) /\ h \in Maybe(Handles)
      BY <3>2, <3>3 DEF Pcs, HsmPcs, Ops, Results, Maybe
    <3>5. c \in CallType /\ c.pc = pc /\ c.priv = h
      <4> HIDE DEF pc, res, want
      <4>1. QED
        BY <3>3, <3>4, NoCallType DEF NoCall, CallType
    <3>6. call' = [call EXCEPT ![t] = c]
      BY <3>1 DEF Begin
    <3>7. QED
      <4> HIDE DEF pc, c
      <4>1. QED
        BY <3>2, <3>4, <3>5, <3>6
  <2>3. CASE ReadXpub(t)
    <3>1. PICK h \in Masters :
            Begin(t, [NoCall EXCEPT !.op = "reload", !.pc = "lookup", !.priv = h,
                                    !.want = store[h].key])
      BY <2>3 DEF ReadXpub
    <3>2. h \in Handles /\ store[h] \in Object
      BY DEF Masters, Live, TypeOK, Maybe
    <3>3. QED
      BY <3>1, <3>2, NoCallType
      DEF Begin, NoCall, CallType, Ops, Pcs, Maybe, Object
  <2>4. CASE Take(t)
    BY <2>4, NoCallType DEF Take, NoCall
  <2>5. QED
    BY <2>1, <2>2, <2>3, <2>4 DEF Start
<1>2. UNCHANGED <<store, wire, taproot, pubOf, outdated>>
  BY DEF Start, DeriveMasterKey, DerivePath, ReadXpub, Take
<1>3. TypeOK'
  BY <1>1, <1>2 DEF TypeOK
<1>4. PubMapOK'
  BY <1>2 DEF PubMapOK
<1>5. HeldOK'
  BY <1>1 DEF HeldOK, TypeOK
<1>6. QED
  BY <1>3, <1>4, <1>5

LEMMA TypedEnvironment ==
  ASSUME Typed, TsbApply \/ LoseSession \/ Restart
  PROVE  Typed'
<1> USE DEF Typed
<1>1. CASE TsbApply
  <2>1. PICK req \in wire :
          /\ wire' = wire \ {req}
          /\ \/ ~Registered(req.label) /\ Imported(req.label, req.key)
             \/ Matching(store, "private", req.label) # {} /\ UNCHANGED <<store, outdated>>
    BY <1>1 DEF TsbApply
  <2>2. req.label \in Label /\ req.key \in Key
    BY DEF TypeOK
  <2>3. store' \in [Handles -> Maybe(Object)] /\ outdated' \subseteq Mapped(pubOf)
    <3>1. CASE Imported(req.label, req.key)
      <4>1. PICK label \in Label, key \in Key : label = req.label /\ key = req.key
        BY <2>2
      <4>2. QED
        BY <3>1, <4>1, ImportedType
    <3>2. QED
      BY <3>1, <2>1 DEF TypeOK
  <2>4. QED
    BY <2>1, <2>3, <1>1 DEF TsbApply, TypeOK, PubMapOK, HeldOK
<1>2. CASE LoseSession
  <2>1. store' \in [Handles -> Maybe(Object)]
    BY <1>2, TokenObjectsType DEF LoseSession, TypeOK
  <2>2. \A t \in Threads :
          /\ call'[t] = [call[t] EXCEPT !.stale = @ \/ Busy(t)]
          /\ call'[t] \in CallType
          /\ call'[t].pc = call[t].pc /\ call'[t].want = call[t].want
          /\ call'[t].priv = call[t].priv /\ call'[t].pub = call[t].pub
    <3> SUFFICES ASSUME NEW t \in Threads
                 PROVE  LET d == [call[t] EXCEPT !.stale = @ \/ Busy(t)] IN
                        /\ d \in CallType
                        /\ d.pc = call[t].pc /\ d.want = call[t].want
                        /\ d.priv = call[t].priv /\ d.pub = call[t].pub
      BY <1>2 DEF LoseSession
    <3>1. call[t] \in CallType
      BY DEF TypeOK
    <3>2. (call[t].stale \/ Busy(t)) \in BOOLEAN
      OBVIOUS
    <3>3. QED
      BY <3>1, <3>2, StaleType
  <2>3. call' \in [Threads -> CallType]
    BY <1>2, <2>2 DEF LoseSession
  <2>4. HeldOK'
    BY <2>2 DEF HeldOK
  <2>5. QED
    BY <1>2, <2>1, <2>3, <2>4 DEF LoseSession, TypeOK, PubMapOK
<1>3. CASE Restart
  <2>1. store' \in [Handles -> Maybe(Object)]
    BY <1>3, TokenObjectsType DEF Restart, TypeOK
  <2>2. taproot' \in BOOLEAN
    BY <1>3 DEF Restart, TaprootIn
  <2>3. QED
    BY <1>3, <2>1, <2>2, NoCallType, EmptyPubMapOK
    DEF Restart, TypeOK, PubMapOK, HeldOK, NoCall
<1>4. QED
  BY <1>1, <1>2, <1>3

(* The points of the code, and the absent value, as the calls use them.     *)
LEMMA Tags ==
  /\ {"done", "import", "gen", "record", "lookup", "point", "chain", "label",
      "same", "sibling", "findPriv", "findPub"} \subseteq Pcs
  /\ {"ok", "duplicate", "failed"} \subseteq Maybe({"ok", "duplicate", "failed"})
  /\ \A S : None \in Maybe(S) /\ S \subseteq Maybe(S)
BY DEF Pcs, HsmPcs, Maybe

(* A call that returns holds nothing any more.                              *)
LEMMA ReturnType ==
  ASSUME Typed, NEW t \in Threads, NEW res \in Results, Return(t, res)
  PROVE  call' \in [Threads -> CallType] /\ HeldOK'
<1>1. call[t] \in CallType
  BY DEF Typed, TypeOK
<1>2. call' \in [Threads -> CallType]
  <2>1. res \in Maybe(Results) /\ "done" \in Pcs
    BY Tags
  <2>2. Returned(call[t], res) \in CallType
    BY <1>1, <2>1, NoCallType DEF Returned, NoCall, CallType
  <2>3. QED
    BY <2>2, UpdatedType DEF Return, Typed, TypeOK
<1>3. HeldOK'
  <2>1. Returned(call[t], res).pc = "done"
    BY DEF Returned, NoCall
  <2>2. QED
    BY <2>1 DEF Return, Typed, TypeOK, HeldOK
<1>4. QED
  BY <1>2, <1>3

(* What is left of the call, and that of the others everything is.          *)
LEMMA ReturnFields ==
  ASSUME call \in [Threads -> CallType], NEW t \in Threads, NEW res, Return(t, res)
  PROVE  /\ call'[t].pc = "done" /\ call'[t].res = res
         /\ call'[t].op = call[t].op
         /\ \A u \in Threads \ {t} : call'[u] = call[u]
<1>1. /\ Returned(call[t], res).pc = "done" /\ Returned(call[t], res).res = res
      /\ Returned(call[t], res).op = call[t].op
  BY DEF Returned, NoCall
<1>2. QED
  BY <1>1 DEF Return

(* A created pair goes to record_pair.                                      *)
LEMMA CreatedType ==
  ASSUME Typed, NEW t \in Threads, NEW hPriv \in Handles, NEW hPub \in Handles,
         call' = [call EXCEPT ![t].pc = "record", ![t].priv = hPriv,
                              ![t].pub = hPub]
  PROVE  call' \in [Threads -> CallType] /\ HeldOK'
<1>1. call[t] \in CallType
  BY DEF Typed, TypeOK
<1>2. call' \in [Threads -> CallType]
  <2>1. "record" \in Pcs /\ hPriv \in Maybe(Handles) /\ hPub \in Maybe(Handles)
    BY DEF Pcs, Maybe
  <2>2. [call[t] EXCEPT !.pc = "record", !.priv = hPriv, !.pub = hPub] \in CallType
    BY <1>1, <2>1, MovedType
  <2>3. QED
    BY <2>2, UpdatedType DEF Typed, TypeOK
<1>3. HeldOK'
  BY <1>1 DEF Typed, TypeOK, HeldOK, CallType
<1>4. QED
  BY <1>2, <1>3

LEMMA TypedStep ==
  ASSUME Typed, NEW t \in Threads, Step(t)
  PROVE  Typed'
<1> USE DEF Typed
<1>0. /\ call[t] \in CallType /\ call \in [Threads -> CallType]
      /\ store \in [Handles -> Maybe(Object)] /\ pubOf \in PubMapType
      /\ None \notin Handles
  BY NoneAssumption DEF TypeOK
<1>1. CASE Generate(t)
  <2>1. PICK hPriv \in Free, hPub \in Free :
          /\ store' = WithPair(store, hPriv, hPub,
               KeyObject("private", call[t].want, call[t].label, TRUE, FALSE),
               KeyObject("public", call[t].want, PubSiblingLabel(call[t].label),
                         TRUE, FALSE))
          /\ call' = [call EXCEPT ![t].pc = "record", ![t].priv = hPriv,
                                  ![t].pub = hPub]
    BY <1>1 DEF Generate
  <2>2. call[t].want \in Key /\ call[t].label \in Label
    BY <1>0, <1>1 DEF Generate, HsmAt, At, HeldOK, CallType
  <2>3. store' \in [Handles -> Maybe(Object)]
    BY <1>0, <2>1, <2>2, WithPairType, KeyObjectType, SiblingIsLabel
  <2>4. hPriv \in Handles /\ hPub \in Handles
    BY DEF Free
  <2>5. QED
    BY <1>1, <2>1, <2>3, <2>4, CreatedType DEF Generate, Outdate, TypeOK, PubMapOK
<1>2. CASE Derive(t)
  <2> DEFINE child == Child(store[call[t].priv].key, call[t].path)
  <2>1. PICK hPriv \in Free, hPub \in Free :
          /\ store' = WithPair(store, hPriv, hPub,
               KeyObject("private", child, NoLabel, FALSE, FALSE),
               KeyObject("public", child, NoLabel, FALSE, FALSE))
          /\ call' = [call EXCEPT ![t].pc = "record", ![t].priv = hPriv,
                                  ![t].pub = hPub]
    BY <1>2 DEF Derive
  <2>2. store[call[t].priv] \in Object /\ call[t].path \in Seq(Nat)
    BY <1>0, <1>2 DEF Derive, Live, Maybe, CallType
  <2>3. child \in Key /\ NoLabel \in Label
    BY <2>2, KeysAreKeys, EmptySeq DEF Object, NoLabel, Label
  <2>4. store' \in [Handles -> Maybe(Object)]
    <3> HIDE DEF child
    <3>1. QED
      BY <1>0, <2>1, <2>3, WithPairType, KeyObjectType
  <2>5. hPriv \in Handles /\ hPub \in Handles
    BY DEF Free
  <2>6. QED
    BY <1>2, <2>1, <2>4, <2>5, CreatedType DEF Derive, Outdate, TypeOK, PubMapOK
<1>3. CASE Record(t)
  <2>1. call[t].priv \in Handles /\ call[t].pub \in Handles
    BY <1>3 DEF Record, At, HeldOK
  <2>2. pubOf' \in PubMapType /\ PubMapOK'
    BY <1>0, <1>3, <2>1, InsertPairType, InsertPairWellFormed
    DEF Record, PubMapOK
  <2>3. ASSUME NEW u \in Threads
        PROVE  /\ call'[u] \in CallType
               /\ u # t => /\ call'[u].pc = call[u].pc
                           /\ call'[u].want = call[u].want
                           /\ call'[u].priv = call[u].priv
                           /\ call'[u].pub = call[u].pub
               /\ u = t => /\ call'[u].pc \in {"point", "lookup", "done"}
                           /\ call'[u].pc # "done" => call'[u].priv = call[t].priv
                           /\ call'[u].pc = "point" => call'[u].pub = call[t].pub
    <3>1. CASE u # t
      <4> DEFINE later == IF /\ call[t].priv \notin Mapped(pubOf)
                             /\ At(u, "lookup") /\ call[u].age < Cap
                          THEN call[u].age + 1 ELSE call[u].age
      <4>1. call[u] \in CallType /\ later \in 0..Cap
        BY <1>0, CapAssumption DEF CallType
      <4>2. call'[u] = [call[u] EXCEPT !.age = later]
        BY <1>3, <3>1 DEF Record
      <4> HIDE DEF later
      <4>3. QED
        BY <3>1, <4>1, <4>2 DEF CallType
    <3>2. CASE u = t
      <4>1. CASE call[t].op = "master"
        BY <1>0, <1>3, <3>2, <4>1 DEF Record, CallType, Pcs, HsmPcs
      <4>2. CASE call[t].op = "account"
        <5> DEFINE age == IF call[t].priv \notin Mapped(pubOf) THEN 0
                          ELSE Behind(pubOf, call[t].priv)
        <5>1. age \in 0..Cap /\ "lookup" \in Pcs /\ None \in Maybe(Handles)
          BY <1>0, CapAssumption, Tags, BehindPlace DEF PubMapOK
        <5>2. call'[u] = [call[t] EXCEPT !.pc = "lookup", !.pub = None, !.age = age]
          BY <1>3, <3>2, <4>2 DEF Record
        <5> HIDE DEF age
        <5>3. QED
          BY <1>0, <3>2, <5>1, <5>2 DEF CallType
      <4>3. CASE call[t].op \notin {"master", "account"}
        <5>1. call'[u] = Returned(call[t], "ok")
          BY <1>3, <3>2, <4>3 DEF Record
        <5>2. "ok" \in Maybe(Results) /\ call[t].op \in Ops
          BY <1>0 DEF Maybe, Results, CallType
        <5>3. QED
          BY <3>2, <5>1, <5>2, Tags, NoCallType DEF Returned, NoCall, CallType
      <4>4. QED
        BY <4>1, <4>2, <4>3
    <3>3. QED
      BY <3>1, <3>2
  <2>4. call' \in [Threads -> CallType]
    BY <1>3, <2>3 DEF Record
  <2>5. HeldOK'
    BY <2>1, <2>3 DEF HeldOK
  <2>6. QED
    BY <1>3, <2>2, <2>4, <2>5 DEF Record, TypeOK
<1>4. CASE Import(t)
  <2>1. PICK imp \in {"ok", "duplicate", "failed"} :
          call' = [call EXCEPT ![t].pc = "findPriv", ![t].imp = imp]
    BY <1>4 DEF Import
  <2>2. call' \in [Threads -> CallType]
    BY <1>0, <2>1, Tags DEF CallType
  <2>3. HeldOK'
    BY <1>0, <2>1 DEF HeldOK, CallType
  <2>4. call[t].label \in Label /\ call[t].want \in Key
    BY <1>0, <1>4 DEF Import, At, HeldOK, CallType
  <2>5. store' \in [Handles -> Maybe(Object)] /\ outdated' \subseteq Mapped(pubOf)
    <3>1. CASE Imported(call[t].label, call[t].want)
      <4>1. PICK label \in Label, key \in Key :
              label = call[t].label /\ key = call[t].want
        BY <2>4
      <4>2. QED
        BY <3>1, <4>1, ImportedType
    <3>2. CASE UNCHANGED <<store, outdated>>
      BY <1>0, <3>2 DEF TypeOK
    <3>3. QED
      BY <1>4, <3>1, <3>2 DEF Import
  <2>6. \A req \in wire' : req \in [label : Label, key : Key]
    BY <1>4, <2>4 DEF Import, TypeOK
  <2>7. QED
    BY <1>4, <2>2, <2>3, <2>5, <2>6 DEF Import, TypeOK, PubMapOK
<1>5. CASE FindPriv(t)
  <2>1. ASSUME NEW res \in {"noPriv", "importFailed"}, Return(t, res)
        PROVE  Typed'
    BY <1>5, <2>1, ReturnType DEF FindPriv, Results, TypeOK, PubMapOK
  <2>2. ASSUME NEW h \in Matching(store, "private", call[t].label),
               call' = [call EXCEPT ![t].pc = "findPub", ![t].priv = h]
        PROVE  Typed'
    <3>1. h \in Handles
      BY DEF Matching, Live
    <3>2. call' \in [Threads -> CallType]
      <4>1. "findPub" \in Pcs /\ h \in Maybe(Handles) /\ None \in Maybe(Handles)
        BY <3>1 DEF Pcs, HsmPcs, Maybe
      <4>2. [call[t] EXCEPT !.pc = "findPub", !.priv = h] \in CallType
        BY <1>0, <4>1, MovedType
      <4>3. QED
        BY <2>2, <4>2, UpdatedType DEF TypeOK
    <3>3. HeldOK'
      BY <1>0, <2>2, <3>1 DEF HeldOK, CallType
    <3>4. QED
      BY <1>5, <3>2, <3>3 DEF FindPriv, TypeOK, PubMapOK
  <2>3. QED
    BY <1>5, <2>1, <2>2 DEF FindPriv
<1>6. CASE FindPub(t)
  <2>1. CASE Return(t, "noPub")
    BY <1>6, <2>1, ReturnType DEF FindPub, Results, TypeOK, PubMapOK
  <2>2. ASSUME NEW h \in Matching(store, "public", call[t].label),
               call' = [call EXCEPT ![t].pc = "record", ![t].pub = h]
        PROVE  Typed'
    <3>1. h \in Handles /\ call[t].priv \in Handles
      BY <1>6 DEF Matching, Live, FindPub, HsmAt, At, HeldOK
    <3>2. call' \in [Threads -> CallType]
      BY <1>0, <2>2, <3>1 DEF CallType, Pcs, Maybe
    <3>3. HeldOK'
      BY <1>0, <2>2, <3>1 DEF HeldOK, CallType
    <3>4. QED
      BY <1>6, <3>2, <3>3 DEF FindPub, TypeOK, PubMapOK
  <2>3. QED
    BY <1>6, <2>1, <2>2 DEF FindPub
<1>7. CASE LookupPub(t)
  <2>1. call[t].priv \in Handles
    BY <1>7 DEF LookupPub, At, HeldOK
  <2>2. Lookup(pubOf, call[t].priv) \in Maybe(Handles)
    BY <1>0, <2>1 DEF Lookup, PubMapType, Maybe
  <2>3. call' \in [Threads -> CallType]
    <3>1. (IF Lookup(pubOf, call[t].priv) # None THEN "point" ELSE "label") \in Pcs
      BY Tags
    <3>2. (Lookup(pubOf, call[t].priv) # None /\ call[t].priv \in outdated) \in BOOLEAN
      OBVIOUS
    <3>3. QED
      BY <1>0, <1>7, <2>2, <3>1, <3>2 DEF LookupPub, CallType
  <2>4. HeldOK'
    BY <1>0, <1>7, <2>1, <2>2 DEF LookupPub, HeldOK, CallType, Maybe
  <2>5. QED
    BY <1>7, <2>3, <2>4 DEF LookupPub, TypeOK, PubMapOK
<1>8. CASE ReadLabel(t)
  <2>1. call[t].priv \in Handles /\ store[call[t].priv] \in Object
    BY <1>0, <1>8 DEF ReadLabel, Live, Maybe
  <2>2. call' \in [Threads -> CallType]
    BY <1>0, <1>8, <2>1 DEF ReadLabel, CallType, Pcs, HsmPcs, Object
  <2>3. HeldOK'
    BY <1>0, <1>8, <2>1 DEF ReadLabel, HeldOK, CallType
  <2>4. QED
    BY <1>8, <2>2, <2>3 DEF ReadLabel, TypeOK, PubMapOK
<1>9. CASE FindCandidate(t)
  <2>1. call[t].priv \in Handles
    BY <1>9 DEF FindCandidate, HsmAt, At, HeldOK
  <2>2. CASE Return(t, "noPub")
    BY <1>9, <2>2, ReturnType DEF FindCandidate, Results, TypeOK, PubMapOK
  <2>3. ASSUME NEW h \in Handles,
               call' = [call EXCEPT ![t].pc = "point", ![t].pub = h]
        PROVE  Typed'
    <3>1. call' \in [Threads -> CallType]
      BY <1>0, <2>3, Tags DEF CallType
    <3>2. HeldOK'
      BY <1>0, <2>1, <2>3 DEF HeldOK, CallType
    <3>3. QED
      BY <1>9, <3>1, <3>2 DEF FindCandidate, TypeOK, PubMapOK
  <2>4. ASSUME call' = [call EXCEPT ![t].pc = "sibling"]
        PROVE  Typed'
    <3>1. call' \in [Threads -> CallType]
      BY <1>0, <2>4 DEF CallType, Pcs, HsmPcs
    <3>2. HeldOK'
      BY <1>0, <2>1, <2>4 DEF HeldOK, CallType
    <3>3. QED
      BY <1>9, <3>1, <3>2 DEF FindCandidate, TypeOK, PubMapOK
  <2>5. \A class, label : Matching(store, class, label) \subseteq Handles
    BY DEF Matching, Live
  <2>6. QED
    BY <1>9, <2>2, <2>3, <2>4, <2>5 DEF FindCandidate
<1>10. CASE ReadPoint(t)
  <2>1. /\ call[t].priv \in Handles /\ call[t].pub \in Handles
        /\ store[call[t].pub] \in Object
    BY <1>0, <1>10 DEF ReadPoint, Live, Maybe, HsmAt, At, HeldOK
  <2>2. call' \in [Threads -> CallType]
    BY <1>0, <1>10, <2>1 DEF ReadPoint, CallType, Pcs, HsmPcs, Object, Maybe
  <2>3. HeldOK'
    BY <1>0, <1>10, <2>1 DEF ReadPoint, HeldOK, CallType
  <2>4. QED
    BY <1>10, <2>2, <2>3 DEF ReadPoint, TypeOK, PubMapOK
<1>11. CASE ReadChain(t)
  <2>1. store[call[t].priv] \in Object
    BY <1>0, <1>11 DEF ReadChain, Live, Maybe
  <2>2. call' \in [Threads -> CallType]
    <3>1. /\ "done" \in Pcs /\ "ok" \in Maybe(Results) /\ None \in Maybe(Handles)
          /\ store[call[t].priv].key \in Maybe(Key)
      BY <2>1, Tags DEF Object, Results, Maybe
    <3>2. QED
      BY <1>0, <1>11, <3>1 DEF ReadChain, CallType
  <2>3. HeldOK'
    BY <1>0, <1>11, <2>1 DEF ReadChain, HeldOK, CallType
  <2>4. QED
    BY <1>11, <2>2, <2>3 DEF ReadChain, TypeOK, PubMapOK
<1>12. CASE HsmFault(t)
  BY <1>12, ReturnType DEF HsmFault, Results, TypeOK, PubMapOK
<1>13. QED
  BY <1>1, <1>2, <1>3, <1>4, <1>5, <1>6, <1>7, <1>8, <1>9, <1>10, <1>11, <1>12
  DEF Step

LEMMA TypedNext == Typed /\ [Next]_vars => Typed'
<1> SUFFICES ASSUME Typed, [Next]_vars PROVE Typed'
  OBVIOUS
<1>1. CASE UNCHANGED vars
  BY <1>1 DEF vars, Typed, TypeOK, PubMapOK, HeldOK
<1>2. CASE Next
  BY <1>2, TypedStart, TypedStep, TypedEnvironment DEF Next
<1>3. QED
  BY <1>1, <1>2

(* SecurosysBackend is type-correct, and its calls hold what they use.      *)
THEOREM Typing == Spec => []Typed
BY TypedInit, TypedNext, PTL DEF Spec

(* Every variable keeps its type.                                           *)
THEOREM TypeCorrect == Spec => []TypeOK
<1>1. Typed => TypeOK
  BY DEF Typed
<1>2. QED
  BY <1>1, Typing, PTL

(* The map of public handles never exceeds PUB_MAP_CAP and its queue and    *)
(* hash map hold the same handles, whatever the threads, the sessions and   *)
(* the restarts do (record_pair, backend.rs:203-214).                       *)
THEOREM PubMapCorrect == Spec => []PubMapOK
<1>1. Typed => PubMapOK
  BY DEF Typed
<1>2. QED
  BY <1>1, Typing, PTL

-----------------------------------------------------------------------------
(* The entry of an account that is about to be looked up.                   *)

(* A step that leaves the map alone, and brings no call to its lookup with  *)
(* an age, keeps the entries where they are.                                *)
LEMMA SameLookups ==
  ASSUME AccountResolves, UNCHANGED pubOf,
         \A u \in Threads : call'[u].pc = "lookup" /\ call'[u].age < Cap =>
           /\ call[u].pc = "lookup" /\ call[u].age = call'[u].age
           /\ call[u].priv = call'[u].priv
  PROVE  AccountResolves'
BY DEF AccountResolves, At

(* A new pair pushes every entry back by one at most - by its age - and     *)
(* pops only the oldest one, which no call younger than Cap waits for.      *)
LEMMA RecordResolves ==
  ASSUME Typed, AccountResolves, NEW t \in Threads, Record(t)
  PROVE  AccountResolves'
<1> DEFINE h == call[t].priv
           p == call[t].pub
           isNew == h \notin Mapped(pubOf)
<1>0. /\ h \in Handles /\ p \in Handles /\ Cap \in Nat \ {0}
      /\ pubOf \in PubMapType /\ WellFormed(pubOf)
      /\ Len(pubOf.order) \in Nat /\ Len(pubOf.order) <= Cap
      /\ pubOf' = InsertPair(pubOf, h, p)
      /\ \A u \in Threads : call[u] \in CallType /\ call[u].age \in 0..Cap
  BY CapAssumption, LenProperties
  DEF Record, At, Typed, TypeOK, HeldOK, PubMapOK, PubMapType, WellFormed, CallType
<1>1. WellFormed(pubOf') /\ pubOf' \in PubMapType
  BY <1>0, InsertPairType, InsertPairWellFormed
<1>2. SUFFICES ASSUME NEW u \in Threads,
                      call'[u].pc = "lookup", call'[u].age < Cap
               PROVE  LET n == Len(pubOf'.order) - call'[u].age
                      IN n \in 1..Len(pubOf'.order)
                           /\ pubOf'.order[n] = call'[u].priv
  <2>1. ASSUME NEW u \in Threads, call'[u].pc = "lookup", call'[u].age < Cap,
               NEW n \in 1..Len(pubOf'.order), pubOf'.order[n] = call'[u].priv
        PROVE  pubOf'.map[call'[u].priv] # None
    BY <1>1, <2>1 DEF WellFormed, Mapped
  <2>2. QED
    BY <2>1 DEF AccountResolves, At
<1>3. CASE ~isNew
  <2>1. pubOf'.order = pubOf.order
    BY <1>0, <1>3 DEF InsertPair, PubMapType
  <2>2. CASE u = t
    <3>1. call'[u].age = Behind(pubOf, h) /\ call'[u].priv = h
      BY <1>0, <1>2, <1>3, <2>2 DEF Record, Returned, NoCall, CallType
    <3>2. QED
      BY <3>1, <2>1, <1>0, <1>3, BehindPlace
  <2>3. CASE u # t
    <3>1. call'[u] = [call[u] EXCEPT !.age = call[u].age]
      BY <1>3, <2>3 DEF Record
    <3>2. /\ call[u].pc = "lookup" /\ call[u].age = call'[u].age
          /\ call[u].priv = call'[u].priv
      BY <3>1, <1>0, <1>2 DEF CallType
    <3>3. QED
      BY <2>1, <3>2, <1>0, <1>2 DEF AccountResolves, At
  <2>4. QED
    BY <2>2, <2>3
<1>4. CASE isNew
  <2> DEFINE gone == Gone(pubOf)
  <2>1. /\ Len(pubOf'.order) = Len(pubOf.order) + 1 - gone
        /\ pubOf'.order[Len(pubOf.order) + 1 - gone] = h
        /\ \A i \in 1..Len(pubOf.order) - gone :
             pubOf'.order[i] = pubOf.order[i + gone]
    BY <1>0, <1>4, InsertNew
  <2>2. /\ gone \in {0, 1}
        /\ gone = 1 => Len(pubOf.order) = Cap
        /\ Len(pubOf.order) + 1 - gone >= 1
    BY <1>0 DEF Gone
  <2>3. CASE u = t
    <3>1. call'[u].age = 0 /\ call'[u].priv = h
      BY <1>0, <1>2, <1>4, <2>3 DEF Record, Returned, NoCall, CallType
    <3>2. QED
      BY <3>1, <2>1, <2>2, <1>0
  <2>4. CASE u # t
    <3>1. call'[u] = [call[u] EXCEPT !.age =
                        IF call[u].pc = "lookup" /\ call[u].age < Cap
                        THEN call[u].age + 1 ELSE call[u].age]
      BY <1>4, <2>4 DEF Record, At
    <3>2. /\ call[u].pc = "lookup" /\ call[u].priv = call'[u].priv
          /\ call[u].age < Cap /\ call'[u].age = call[u].age + 1
      BY <3>1, <1>0, <1>2 DEF CallType
    <3>3. /\ Len(pubOf.order) - call[u].age >= 1
          /\ pubOf.order[Len(pubOf.order) - call[u].age] = call[u].priv
      BY <3>2 DEF AccountResolves, At
    <3> DEFINE n == Len(pubOf'.order) - call'[u].age
    <3>4. n \in 1..Len(pubOf.order) - gone
      <4> HIDE DEF gone
      <4>1. /\ call[u].age \in Nat /\ Len(pubOf.order) \in Nat /\ gone \in Nat
            /\ Cap \in Nat
        BY <1>0, <2>2
      <4>2. n = (Len(pubOf.order) + 1 - gone) - (call[u].age + 1)
        BY <3>2, <2>1
      <4>3. call[u].age + 1 < Cap
        BY <3>2, <1>2
      <4>4. \A l, a, g, c \in Nat :
              g \in {0, 1} /\ (g = 1 => l = c) /\ l - a >= 1 /\ a + 1 < c
                => (l + 1 - g) - (a + 1) \in 1..(l - g)
        OBVIOUS
      <4>5. (Len(pubOf.order) + 1 - gone) - (call[u].age + 1)
              \in 1..Len(pubOf.order) - gone
        BY <4>1, <4>3, <4>4, <3>3, <2>2, Zenon
      <4> HIDE DEF n
      <4>6. QED
        BY <4>2, <4>5, Zenon
    <3>5. n + gone = Len(pubOf.order) - call[u].age
      <4> HIDE DEF gone
      <4>1. call[u].age \in Nat /\ Len(pubOf.order) \in Nat /\ gone \in Nat
        BY <1>0, <2>2
      <4>2. n = (Len(pubOf.order) + 1 - gone) - (call[u].age + 1)
        BY <3>2, <2>1
      <4>3. \A l, a, g \in Nat : ((l + 1 - g) - (a + 1)) + g = l - a
        OBVIOUS
      <4> HIDE DEF n
      <4>4. QED
        BY <4>1, <4>2, <4>3, Zenon
    <3>6. pubOf'.order[n] = call'[u].priv
      <4> HIDE DEF gone, n
      <4>1. QED
        BY <3>2, <3>3, <3>4, <3>5, <2>1
    <3>7. n \in 1..Len(pubOf'.order)
      <4> HIDE DEF gone, n
      <4>1. QED
        BY <3>4, <2>1, <2>2, <1>0
    <3>8. QED
      BY <3>6, <3>7
  <2>5. QED
    BY <2>3, <2>4
<1>5. QED
  BY <1>3, <1>4

LEMMA ResolvesNext ==
  ASSUME Typed, AccountResolves, [Next]_vars
  PROVE  AccountResolves'
<1>0. call \in [Threads -> CallType] /\ Cap \in Nat \ {0}
  BY CapAssumption DEF Typed, TypeOK
<1>1. CASE UNCHANGED vars
  BY <1>1, SameLookups DEF vars
<1>2. ASSUME NEW t \in Threads, Record(t)
      PROVE  AccountResolves'
  BY <1>2, RecordResolves
<1>3. ASSUME NEW t \in Threads, Start(t) \/ Take(t)
      PROVE  AccountResolves'
  <2>1. call'[t].age = Cap
    <3>1. CASE DeriveMasterKey(t)
      <4>1. PICK p \in Provisionings :
              Begin(t, IF p[1] = EmptySeed
                       THEN [NoCall EXCEPT !.op = "master", !.pc = "done",
                                           !.res = "emptySeed"]
                       ELSE [NoCall EXCEPT !.op = "master", !.label = p[2],
                                           !.pc = IF taproot THEN "import"
                                                  ELSE "gen",
                                           !.want = Master(p[1])])
        BY <3>1 DEF DeriveMasterKey
      <4>2. QED
        BY <1>0, <4>1 DEF Begin, NoCall
    <3>2. CASE DerivePath(t)
      <4>1. PICK op \in {"account", "leaf"}, path \in Paths,
                 h \in Masters \cup Children :
              Begin(t, [NoCall EXCEPT
                          !.op = op, !.path = path, !.priv = h,
                          !.want = Child(store[h].key, path),
                          !.pc = IF path # << >> THEN "derive"
                                 ELSE IF op = "account" THEN "lookup" ELSE "done",
                          !.res = IF path = << >> /\ op = "leaf" THEN "ok"
                                  ELSE None])
        BY <3>2 DEF DerivePath
      <4>2. QED
        BY <1>0, <4>1 DEF Begin, NoCall
    <3>3. CASE ReadXpub(t)
      BY <1>0, <3>3 DEF ReadXpub, Begin, NoCall
    <3>4. CASE Take(t)
      BY <1>0, <3>4 DEF Take, NoCall
    <3>5. QED
      BY <1>3, <3>1, <3>2, <3>3, <3>4 DEF Start
  <2>2. \A u \in Threads \ {t} : call'[u] = call[u]
    BY <1>0, <1>3
    DEF Start, DeriveMasterKey, DerivePath, ReadXpub, Take, Begin
  <2>3. UNCHANGED pubOf
    BY <1>3 DEF Start, DeriveMasterKey, DerivePath, ReadXpub, Take
  <2>4. QED
    BY <1>0, <2>1, <2>2, <2>3, SameLookups
<1>4. ASSUME NEW t \in Threads, Step(t), ~Record(t)
      PROVE  AccountResolves'
  <2>1. UNCHANGED pubOf
    BY <1>4
    DEF Step, Generate, Derive, Import, FindPriv, FindPub, LookupPub, ReadLabel,
        FindCandidate, ReadPoint, ReadChain, HsmFault
  <2>2. /\ call'[t].pc # "lookup"
        /\ \A u \in Threads \ {t} : call'[u] = call[u]
    <3>1. CASE Generate(t) \/ Derive(t)
      <4>1. PICK hPriv, hPub :
              call' = [call EXCEPT ![t].pc = "record", ![t].priv = hPriv,
                                   ![t].pub = hPub]
        BY <3>1 DEF Generate, Derive
      <4>2. QED
        BY <1>0, <4>1 DEF CallType
    <3>2. CASE Import(t)
      <4>1. PICK imp \in {"ok", "duplicate", "failed"} :
              call' = [call EXCEPT ![t].pc = "findPriv", ![t].imp = imp]
        BY <3>2 DEF Import
      <4>2. QED
        BY <1>0, <4>1 DEF CallType
    <3>3. CASE FindPriv(t) \/ FindPub(t) \/ FindCandidate(t)
      BY <1>0, <3>3, ReturnFields DEF FindPriv, FindPub, FindCandidate, CallType
    <3>4. CASE LookupPub(t) \/ ReadLabel(t) \/ ReadPoint(t)
      BY <1>0, <3>4 DEF LookupPub, ReadLabel, ReadPoint, CallType
    <3>5. CASE ReadChain(t) \/ HsmFault(t)
      BY <1>0, <3>5, ReturnFields DEF ReadChain, HsmFault, CallType
    <3>6. QED
      BY <1>4, <3>1, <3>2, <3>3, <3>4, <3>5 DEF Step
  <2>3. QED
    BY <2>1, <2>2, SameLookups
<1>5. CASE TsbApply
  BY <1>5, SameLookups DEF TsbApply
<1>6. CASE LoseSession
  <2>1. \A u \in Threads : /\ call'[u].pc = call[u].pc
                           /\ call'[u].age = call[u].age
                           /\ call'[u].priv = call[u].priv
    BY <1>0, <1>6 DEF LoseSession, CallType
  <2>2. QED
    BY <1>6, <2>1, SameLookups DEF LoseSession
<1>7. CASE Restart
  BY <1>7 DEF Restart, AccountResolves, At, NoCall
<1>8. QED
  BY <1>1, <1>2, <1>3, <1>4, <1>5, <1>6, <1>7 DEF Next

(* An account looked up "right after it is derived" is still mapped unless  *)
(* PUB_MAP_CAP other pairs were recorded in between (backend.rs:109-114):   *)
(* its xpub is then never read through the label fallback.                  *)
THEOREM AccountsResolve == Spec => []AccountResolves
<1>1. Init => AccountResolves
  BY DEF Init, AccountResolves, At, NoCall
<1>2. Typed /\ AccountResolves /\ [Next]_vars => AccountResolves'
  BY ResolvesNext
<1>3. QED
  BY <1>1, <1>2, Typing, PTL DEF Spec

-----------------------------------------------------------------------------
(***************************************************************************)
(* Where keys come from, whatever the labels, the threads and the token    *)
(* do.  The inductive invariant, Sources, says                             *)
(*                                                                         *)
(*   StoreOK  an object with a label persists and is the master of a seed  *)
(*            provisioned under the label, or its public half beside it;   *)
(*            every labelled private key has a public key there;           *)
(*   wire     so is the master of every import still to be applied;        *)
(*   MasterOK a call for a master holds, and has read, such objects only,  *)
(*            and those of its own seed if it generated them;              *)
(*   ReloadOK a call about a persisted master still holds it, and finds a  *)
(*            public key beside it if there was none under its own label.  *)
(***************************************************************************)

Real == {p \in Provisionings : p[1] # EmptySeed}

(* The key belongs under the label: as a master, or as a native one's       *)
(* public half.                                                             *)
Belongs(label, key) == \E p \in Real : label = p[2] /\ key = Master(p[1])
BelongsBeside(label, key) ==
  \E p \in Real : label = PubSiblingLabel(p[2]) /\ key = Master(p[1])

ObjectOK(o) ==
  o.label # NoLabel =>
    /\ o.token
    /\ \/ Belongs(o.label, o.key)
       \/ o.class = "public" /\ BelongsBeside(o.label, o.key)

IsMaster(s, h, label) ==
  h \in Live(s) /\ s[h].class = "private" /\ s[h].label = label /\ label # NoLabel
IsPersisted(s, h) == IsMaster(s, h, s[h].label)

HasPublic(s, label) == Matching(s, "public", label) # {}

StoreOK(s) ==
  /\ \A h \in Live(s) : ObjectOK(s[h])
  /\ \A h \in Handles, label \in Label : IsMaster(s, h, label) =>
       HasPublic(s, label) \/ HasPublic(s, PubSiblingLabel(label))

(* The masters a call for one may come by: of the seeds of its label, and   *)
(* of its own seed if there was no import.                                  *)
Source(c, key) ==
  /\ key \in {Master(seed) : seed \in SeedsUnder(c.label)}
  /\ c.imp = None => key = c.want

Found(s, c, h) == h \in Live(s) /\ s[h].token /\ Source(c, s[h].key)

MasterPcs == {"gen", "import", "findPriv", "findPub", "record", "point", "chain"}

MasterOK(s, c) ==
  /\ c.pc \in {"gen", "import", "findPriv", "findPub"} => c.op = "master"
  /\ c.op = "master" =>
       /\ c.pc \in MasterPcs \cup {"done"}
       /\ c.pc \in MasterPcs => Belongs(c.label, c.want)
       /\ c.pc \in {"findPriv", "findPub"} => c.imp # None
       /\ c.pc = "findPub" => IsMaster(s, c.priv, c.label)
       /\ c.pc \in {"record", "point", "chain"} => Found(s, c, c.priv)
       /\ c.pc \in {"record", "point"} => Found(s, c, c.pub)
       /\ c.pc = "chain" \/ (c.pc = "done" /\ c.res = "ok") => Source(c, c.point)
       /\ c.pc = "done" /\ c.res = "ok" => Source(c, c.chain)

(* A call about a persisted master: there is no path to derive first.       *)
OfMaster(c) == c.op = "reload" \/ (c.op = "account" /\ c.path = << >>)

LookPcs == {"lookup", "label", "same", "sibling"}

ReloadOK(s, c) ==
  /\ c.pc \in LookPcs => c.op \in {"account", "reload"}
  /\ c.pc \in {"derive", "record"} =>
       c.op = "master" \/ (c.op \in {"account", "leaf"} /\ c.path # << >>)
  /\ OfMaster(c) =>
       /\ c.pc \in LookPcs => IsPersisted(s, c.priv)
       /\ c.pc \in {"same", "sibling"} => IsMaster(s, c.priv, c.label)
       /\ c.pc = "sibling" => HasPublic(s, PubSiblingLabel(c.label))
  /\ c.pc = "done" /\ c.op = "reload" => c.res # "noPub"

CallOK(s, c) == MasterOK(s, c) /\ ReloadOK(s, c)

Sources ==
  /\ StoreOK(store)
  /\ \A req \in wire : Belongs(req.label, req.key)
  /\ \A t \in Threads : CallOK(store, call[t])

Store == [Handles -> Maybe(Object)]

-----------------------------------------------------------------------------
(* What labels and objects tell.                                            *)

LEMMA BelongsUnderLabel ==
  ASSUME NEW label, NEW key, Belongs(label, key)
  PROVE  /\ label \in Label /\ label # NoLabel
         /\ key \in Key
         /\ PubSiblingLabel(label) # NoLabel
<1>1. PICK p \in Real : label = p[2] /\ key = Master(p[1])
  BY DEF Belongs
<1>2. label \in Label /\ label # NoLabel /\ key \in Key
  BY <1>1, ProvisioningsAssumption, KeysAreKeys DEF Real
<1>3. PubSiblingLabel(label) # NoLabel
  <2> DEFINE Word == Names \cup {"priv", "pub"}
  <2>1. \A l \in Seq(Word) : Append(l, "pub") # << >>
    <3>1. "pub" \in Word
      OBVIOUS
    <3>2. \A l \in Seq(Word) : Append(l, "pub") \in Seq(Word) \ {<< >>}
      <4> HIDE DEF Word
      <4>1. QED
        BY <3>1, AppendProperties
    <3>3. QED
      BY <3>2
  <2>2. label \in Seq(Word)
    BY <1>2 DEF Label
  <2>3. CASE label # << >> /\ label[Len(label)] = "priv"
    <3>1. SubSeq(label, 1, Len(label) - 1) \in Seq(Word)
      <4>1. Len(label) - 1 \in Nat
        BY <2>2, <2>3, EmptySeq
      <4>2. QED
        BY <2>2, <4>1, SubSeqProperties, ElementOfSeq
    <3>2. QED
      BY <2>1, <2>3, <3>1 DEF PubSiblingLabel, NoLabel
  <2>4. CASE ~(label # << >> /\ label[Len(label)] = "priv")
    BY <2>1, <2>2, <2>4 DEF PubSiblingLabel, NoLabel
  <2>5. QED
    BY <2>3, <2>4
<1>4. QED
  BY <1>2, <1>3

(* Whatever is found under a label is a master of one of its seeds.         *)
LEMMA FoundHasSource ==
  ASSUME NEW s, StoreOK(s), NEW h \in Live(s), s[h].label # NoLabel
  PROVE  /\ s[h].token
         /\ s[h].key \in {Master(seed) : seed \in SeedsUnder(s[h].label)}
<1>1. ObjectOK(s[h])
  BY DEF StoreOK
<1>2. PICK p \in Real : /\ s[h].label \in {p[2], PubSiblingLabel(p[2])}
                        /\ s[h].key = Master(p[1])
  BY <1>1 DEF ObjectOK, Belongs, BelongsBeside
<1>3. p[1] \in SeedsUnder(s[h].label)
  BY <1>2 DEF SeedsUnder, Real
<1>4. QED
  BY <1>1, <1>2, <1>3 DEF ObjectOK

(* So is the master a label is provisioned with.                            *)
LEMMA WantedHasSource ==
  ASSUME NEW label, NEW key, Belongs(label, key)
  PROVE  key \in {Master(seed) : seed \in SeedsUnder(label)}
<1>1. PICK p \in Real : label = p[2] /\ key = Master(p[1])
  BY DEF Belongs
<1>2. p[1] \in SeedsUnder(label)
  BY <1>1 DEF SeedsUnder, Real
<1>3. QED
  BY <1>1, <1>2

-----------------------------------------------------------------------------
(* What stays when objects come and when the session objects go.            *)

Grown(s, s2) == \A h \in Live(s) : h \in Live(s2) /\ s2[h] = s[h]
Persists(s, s2) == \A h \in Live(s) : s[h].token => h \in Live(s2) /\ s2[h] = s[h]

(* Labelled objects are token objects.                                      *)
LEMMA MastersPersist ==
  ASSUME NEW s, NEW s2, StoreOK(s), Persists(s, s2)
  PROVE  /\ \A h, label : IsMaster(s, h, label) => IsMaster(s2, h, label)
         /\ \A h : IsPersisted(s, h) => IsPersisted(s2, h)
         /\ \A label : label # NoLabel /\ HasPublic(s, label) => HasPublic(s2, label)
<1>1. \A h \in Live(s) : s[h].label # NoLabel => h \in Live(s2) /\ s2[h] = s[h]
  BY DEF StoreOK, ObjectOK, Persists
<1>2. \A h, label : IsMaster(s, h, label) => IsMaster(s2, h, label)
  BY <1>1 DEF IsMaster
<1>3. \A h : IsPersisted(s, h) => IsPersisted(s2, h)
  BY <1>1 DEF IsPersisted, IsMaster
<1>4. \A label : label # NoLabel /\ HasPublic(s, label) => HasPublic(s2, label)
  BY <1>1 DEF HasPublic, Matching
<1>5. QED
  BY <1>2, <1>3, <1>4

LEMMA SessionPersists ==
  ASSUME NEW s
  PROVE  Persists(s, TokenObjects(s))
BY DEF Persists, TokenObjects, Live

(* A call keeps what it has.                                                *)
LEMMA CallKept ==
  ASSUME NEW s, NEW s2, StoreOK(s), Persists(s, s2), NEW c, CallOK(s, c),
         NEW d, d.op = c.op, d.pc = c.pc, d.res = c.res, d.label = c.label,
         d.path = c.path, d.want = c.want, d.imp = c.imp, d.priv = c.priv,
         d.pub = c.pub, d.point = c.point, d.chain = c.chain
  PROVE  CallOK(s2, d)
<1>1. /\ \A h, label : IsMaster(s, h, label) => IsMaster(s2, h, label)
      /\ \A h : IsPersisted(s, h) => IsPersisted(s2, h)
      /\ \A label : label # NoLabel /\ HasPublic(s, label) => HasPublic(s2, label)
  BY MastersPersist
<1>2. \A key : Source(d, key) <=> Source(c, key)
  BY DEF Source
<1>3. \A h : Found(s, c, h) => Found(s2, d, h)
  BY <1>2 DEF Found, Persists
<1>4. MasterOK(s2, d)
  BY <1>1, <1>2, <1>3 DEF CallOK, MasterOK
<1>5. IsMaster(s, c.priv, c.label) => PubSiblingLabel(c.label) # NoLabel
  <2>1. IsMaster(s, c.priv, c.label) => Belongs(c.label, s[c.priv].key)
    BY DEF IsMaster, StoreOK, ObjectOK
  <2>2. QED
    BY <2>1, BelongsUnderLabel
<1>6. ReloadOK(s2, d)
  BY <1>1, <1>5 DEF CallOK, ReloadOK, OfMaster
<1>7. QED
  BY <1>4, <1>6 DEF CallOK

(* A call that ends without a key to show owes little.                      *)
LEMMA NothingMade ==
  ASSUME NEW s, NEW c, c.pc = "done", c.res # "ok" \/ c.op = "leaf",
         c.op = "reload" => c.res # "noPub"
  PROVE  CallOK(s, c)
BY DEF CallOK, MasterOK, MasterPcs, ReloadOK, LookPcs

(* A pair created at two free handles, under labels beside each other,      *)
(* leaves everything in order.                                              *)
LEMMA PairedStore ==
  ASSUME NEW s \in Store, StoreOK(s), NEW a \in Handles \ Live(s),
         NEW b \in Handles \ Live(s), a # b, NEW o1 \in Object,
         NEW o2 \in Object, ObjectOK(o1), ObjectOK(o2),
         o1.class = "private", o2.class = "public",
         o1.label # NoLabel => o2.label \in {o1.label, PubSiblingLabel(o1.label)}
  PROVE  LET s2 == WithPair(s, a, b, o1, o2) IN
         /\ StoreOK(s2) /\ Grown(s, s2) /\ Persists(s, s2)
         /\ s2[a] = o1 /\ s2[b] = o2 /\ a \in Live(s2) /\ b \in Live(s2)
         /\ \A h \in Live(s2) : h \in Live(s) \cup {a, b}
<1> DEFINE s2 == WithPair(s, a, b, o1, o2)
<1>1. /\ s2 \in Store /\ s2[a] = o1 /\ s2[b] = o2
      /\ \A h \in Handles \ {a, b} : s2[h] = s[h]
  BY DEF WithPair, Store, Maybe
<1>2. a \in Live(s2) /\ b \in Live(s2)
  BY <1>1, NoneIsNoObject DEF Live
<1>3. Live(s) \subseteq Handles \ {a, b}
  BY DEF Live
<1> HIDE DEF s2
<1>4. \A h \in Live(s2) : ObjectOK(s2[h])
  BY <1>1 DEF StoreOK, Live
<1>5. \A label : HasPublic(s, label) => HasPublic(s2, label)
  BY <1>1, <1>3 DEF HasPublic, Matching, Live
<1>6. ASSUME NEW h \in Handles, NEW label \in Label, IsMaster(s2, h, label)
      PROVE  HasPublic(s2, label) \/ HasPublic(s2, PubSiblingLabel(label))
  <2>1. CASE h = a
    BY <1>1, <1>2, <1>6, <2>1 DEF IsMaster, HasPublic, Matching
  <2>2. CASE h = b
    BY <1>1, <1>6, <2>2 DEF IsMaster
  <2>3. CASE h \notin {a, b}
    <3>1. IsMaster(s, h, label)
      BY <1>1, <1>6, <2>3 DEF IsMaster, Live
    <3>2. QED
      BY <3>1, <1>5 DEF StoreOK
  <2>4. QED
    BY <2>1, <2>2, <2>3
<1>7. Grown(s, s2) /\ Persists(s, s2) /\ \A h \in Live(s2) : h \in Live(s) \cup {a, b}
  BY <1>1, <1>3 DEF Grown, Persists, Live
<1>8. QED
  BY <1>1, <1>2, <1>4, <1>6, <1>7 DEF StoreOK, s2

LEMMA WithoutSessionOK ==
  ASSUME NEW s \in Store, StoreOK(s)
  PROVE  StoreOK(TokenObjects(s))
<1> DEFINE s2 == TokenObjects(s)
<1>1. \A h \in Live(s2) : h \in Live(s) /\ s2[h] = s[h]
  BY DEF TokenObjects, Live
<1>2. ASSUME NEW h \in Handles, NEW label \in Label, IsMaster(s2, h, label)
      PROVE  HasPublic(s2, label) \/ HasPublic(s2, PubSiblingLabel(label))
  <2> HIDE DEF s2
  <2>1. IsMaster(s, h, label)
    BY <1>1, <1>2 DEF IsMaster
  <2>2. HasPublic(s, label) \/ HasPublic(s, PubSiblingLabel(label))
    BY <2>1 DEF StoreOK
  <2>3. label # NoLabel /\ PubSiblingLabel(label) # NoLabel
    <3>1. Belongs(label, s[h].key)
      BY <2>1 DEF IsMaster, StoreOK, ObjectOK
    <3>2. QED
      BY <3>1, BelongsUnderLabel
  <2>4. QED
    BY <2>2, <2>3, MastersPersist, SessionPersists DEF s2
<1> HIDE DEF s2
<1>3. \A h \in Live(s2) : ObjectOK(s2[h])
  BY <1>1 DEF StoreOK
<1>4. QED
  BY <1>2, <1>3 DEF StoreOK, s2

-----------------------------------------------------------------------------
(* The steps that leave the token alone.                                    *)

LEMMA SourcesQuiet ==
  ASSUME Sources, NEW t \in Threads, CallOK(store, call'[t]),
         \A u \in Threads \ {t} : call'[u] = call[u],
         UNCHANGED <<store, wire>>
  PROVE  Sources'
BY DEF Sources

(* The calls that begin, with what their caller passes in.                  *)
LEMMA SourcesStart ==
  ASSUME Typed, Sources, NEW t \in Threads, Start(t) \/ Take(t)
  PROVE  Sources'
<1>1. call \in [Threads -> CallType]
  BY DEF Typed, TypeOK
<1>2. CallOK(store, NoCall)
  BY DEF NoCall, CallOK, MasterOK, ReloadOK, MasterPcs, LookPcs, OfMaster
<1>3. CallOK(store, call'[t])
  <2>1. CASE DeriveMasterKey(t)
    <3>1. PICK p \in Provisionings :
            Begin(t, IF p[1] = EmptySeed
                     THEN [NoCall EXCEPT !.op = "master", !.pc = "done",
                                         !.res = "emptySeed"]
                     ELSE [NoCall EXCEPT !.op = "master", !.label = p[2],
                                         !.pc = IF taproot THEN "import" ELSE "gen",
                                         !.want = Master(p[1])])
      BY <2>1 DEF DeriveMasterKey
    <3>2. CASE p[1] = EmptySeed
      <4>1. /\ call'[t].pc = "done" /\ call'[t].res = "emptySeed"
            /\ call'[t].op = "master"
        BY <1>1, <3>1, <3>2 DEF Begin, NoCall
      <4>2. QED
        BY <4>1, NothingMade
    <3>3. CASE p[1] # EmptySeed
      <4>1. /\ call'[t].pc \in {"import", "gen"} /\ call'[t].op = "master"
            /\ call'[t].label = p[2] /\ call'[t].want = Master(p[1])
        BY <1>1, <3>1, <3>3 DEF Begin, NoCall
      <4>2. Belongs(p[2], Master(p[1]))
        BY <3>3 DEF Belongs, Real
      <4>3. QED
        BY <4>1, <4>2
        DEF CallOK, MasterOK, ReloadOK, MasterPcs, LookPcs, OfMaster
    <3>4. QED
      BY <3>2, <3>3
  <2>2. CASE DerivePath(t)
    <3>1. PICK op \in {"account", "leaf"}, path \in Paths,
               h \in Masters \cup Children :
            /\ op = "account" => h \in Masters
            /\ Begin(t, [NoCall EXCEPT
                           !.op = op, !.path = path, !.priv = h,
                           !.want = Child(store[h].key, path),
                           !.pc = IF path # << >> THEN "derive"
                                  ELSE IF op = "account" THEN "lookup" ELSE "done",
                           !.res = IF path = << >> /\ op = "leaf" THEN "ok"
                                   ELSE None])
      BY <2>2 DEF DerivePath
    <3> DEFINE c == call'[t]
               want == Child(store[h].key, path)
    <3>2. /\ c.op = op /\ c.path = path /\ c.priv = h
          /\ c.pc = IF path # << >> THEN "derive"
                    ELSE IF op = "account" THEN "lookup" ELSE "done"
      <4> HIDE DEF want
      <4>1. Begin(t, [NoCall EXCEPT
                        !.op = op, !.path = path, !.priv = h, !.want = want,
                        !.pc = IF path # << >> THEN "derive"
                               ELSE IF op = "account" THEN "lookup" ELSE "done",
                        !.res = IF path = << >> /\ op = "leaf" THEN "ok"
                                ELSE None])
        BY <3>1 DEF want
      <4>2. QED
        BY <1>1, <4>1 DEF Begin, NoCall
    <3>3. op = "account" => IsPersisted(store, h)
      BY <3>1 DEF IsPersisted, IsMaster, Masters
    <3> HIDE DEF c
    <3>4. CallOK(store, c)
      BY <3>2, <3>3 DEF CallOK, MasterOK, ReloadOK, MasterPcs, LookPcs, OfMaster
    <3>5. QED
      BY <3>4 DEF c
  <2>3. CASE ReadXpub(t)
    <3>1. PICK h \in Masters :
            Begin(t, [NoCall EXCEPT !.op = "reload", !.pc = "lookup", !.priv = h,
                                    !.want = store[h].key])
      BY <2>3 DEF ReadXpub
    <3>2. /\ call'[t].op = "reload" /\ call'[t].pc = "lookup"
          /\ call'[t].priv = h
      BY <1>1, <3>1 DEF Begin, NoCall
    <3>3. IsPersisted(store, h)
      BY DEF IsPersisted, IsMaster, Masters
    <3>4. QED
      BY <3>2, <3>3 DEF CallOK, MasterOK, ReloadOK, LookPcs, OfMaster
  <2>4. CASE Take(t)
    BY <1>1, <1>2, <2>4 DEF Take
  <2>5. QED
    BY <2>1, <2>2, <2>3, <2>4 DEF Start
<1>4. \A u \in Threads \ {t} : call'[u] = call[u]
  BY <1>1 DEF Start, DeriveMasterKey, DerivePath, ReadXpub, Take, Begin
<1>5. UNCHANGED <<store, wire>>
  BY DEF Start, DeriveMasterKey, DerivePath, ReadXpub, Take
<1>6. QED
  BY <1>3, <1>4, <1>5, SourcesQuiet

(* The searches of an import, by the label of the master it is for.         *)
LEMMA SourcesFind ==
  ASSUME Typed, Sources, NEW t \in Threads, FindPriv(t) \/ FindPub(t)
  PROVE  Sources'
<1> DEFINE c == call[t]
<1>1. /\ call \in [Threads -> CallType] /\ c \in CallType
      /\ StoreOK(store) /\ CallOK(store, c)
  BY DEF Typed, TypeOK, Sources
<1>2. /\ c.op = "master" /\ c.pc \in MasterPcs /\ Belongs(c.label, c.want)
      /\ c.imp # None
  BY <1>1 DEF FindPriv, FindPub, HsmAt, At, CallOK, MasterOK, MasterPcs
<1>3. c.label # NoLabel
  BY <1>2, BelongsUnderLabel
<1>4. /\ \A u \in Threads \ {t} : call'[u] = call[u]
      /\ UNCHANGED <<store, wire>>
  BY <1>1 DEF FindPriv, FindPub, Return
<1>5. ASSUME NEW res \in {"noPriv", "importFailed", "noPub"}, Return(t, res)
      PROVE  CallOK(store, call'[t])
  BY <1>1, <1>2, <1>5, ReturnFields, NothingMade
<1>6. CASE FindPriv(t)
  <2>1. ASSUME NEW h \in Matching(store, "private", c.label),
               call' = [call EXCEPT ![t].pc = "findPub", ![t].priv = h]
        PROVE  CallOK(store, call'[t])
    <3>1. /\ call'[t].pc = "findPub" /\ call'[t].priv = h
          /\ call'[t].op = c.op /\ call'[t].label = c.label
          /\ call'[t].want = c.want /\ call'[t].imp = c.imp
      BY <1>1, <2>1 DEF CallType
    <3>2. IsMaster(store, h, c.label)
      BY <1>3 DEF IsMaster, Matching
    <3> HIDE DEF c
    <3>3. QED
      BY <1>2, <3>1, <3>2
      DEF CallOK, MasterOK, ReloadOK, MasterPcs, LookPcs, OfMaster
  <2>2. QED
    BY <1>4, <1>5, <1>6, <2>1, SourcesQuiet DEF FindPriv
<1>7. CASE FindPub(t)
  <2>1. ASSUME NEW h \in Matching(store, "public", c.label),
               call' = [call EXCEPT ![t].pc = "record", ![t].pub = h]
        PROVE  CallOK(store, call'[t])
    <3> DEFINE d == call'[t]
    <3>1. /\ d.pc = "record" /\ d.priv = c.priv /\ d.pub = h
          /\ d.op = c.op /\ d.label = c.label
          /\ d.want = c.want /\ d.imp = c.imp
      BY <1>1, <2>1 DEF CallType
    <3>2. IsMaster(store, c.priv, c.label)
      BY <1>1, <1>2, <1>7 DEF FindPub, HsmAt, At, CallOK, MasterOK
    <3>3. ASSUME NEW g \in {c.priv, h} PROVE Found(store, d, g)
      <4>1. g \in Live(store) /\ store[g].label = c.label
        BY <3>2 DEF Matching, IsMaster
      <4>2. /\ store[g].token
            /\ store[g].key \in {Master(seed) : seed \in SeedsUnder(store[g].label)}
        BY <1>1, <1>3, <4>1, FoundHasSource
      <4> HIDE DEF c, d
      <4>3. QED
        BY <1>2, <3>1, <4>1, <4>2 DEF Found, Source
    <3>4. Found(store, d, d.priv) /\ Found(store, d, d.pub)
      BY <3>1, <3>3
    <3> HIDE DEF c, d
    <3>5. CallOK(store, d)
      BY <1>2, <3>1, <3>4
      DEF CallOK, MasterOK, ReloadOK, MasterPcs, LookPcs, OfMaster
    <3>6. QED
      BY <3>5 DEF d
  <2>2. QED
    BY <1>4, <1>5, <1>7, <2>1, SourcesQuiet DEF FindPub
<1>8. QED
  BY <1>6, <1>7

(* pub_handle_for: the map first, then the label and its sibling, one of    *)
(* which has a public key.                                                  *)
LEMMA SourcesLookup ==
  ASSUME Typed, Sources, NEW t \in Threads,
         LookupPub(t) \/ ReadLabel(t) \/ FindCandidate(t)
  PROVE  Sources'
<1> DEFINE c == call[t]
           d == call'[t]
<1>1. /\ call \in [Threads -> CallType] /\ c \in CallType
      /\ StoreOK(store) /\ CallOK(store, c)
  BY DEF Typed, TypeOK, Sources
<1>2. /\ c.pc \in LookPcs /\ c.op \in {"account", "reload"}
      /\ OfMaster(c) => IsPersisted(store, c.priv)
  BY <1>1
  DEF LookupPub, ReadLabel, FindCandidate, HsmAt, At, CallOK, ReloadOK, LookPcs
<1>3. /\ \A u \in Threads \ {t} : call'[u] = call[u]
      /\ UNCHANGED <<store, wire>>
  BY <1>1 DEF LookupPub, ReadLabel, FindCandidate, Return
<1>4. CallOK(store, d)
  <2>1. CASE LookupPub(t)
    <3>1. /\ d.pc \in {"point", "label"} /\ d.priv = c.priv
          /\ d.op = c.op /\ d.path = c.path
      BY <1>1, <2>1 DEF LookupPub, CallType
    <3> HIDE DEF c, d
    <3>2. QED
      BY <1>2, <3>1 DEF CallOK, MasterOK, ReloadOK, LookPcs, OfMaster
  <2>2. CASE ReadLabel(t)
    <3>1. /\ d.pc = "same" /\ d.label = store[c.priv].label
          /\ d.op = c.op /\ d.path = c.path /\ d.priv = c.priv
      BY <1>1, <2>2 DEF ReadLabel, CallType
    <3> HIDE DEF c, d
    <3>2. QED
      BY <1>2, <3>1 DEF CallOK, MasterOK, ReloadOK, LookPcs, OfMaster, IsPersisted
  <2>3. CASE FindCandidate(t)
    <3>1. ASSUME NEW h, call' = [call EXCEPT ![t].pc = "point", ![t].pub = h]
          PROVE  CallOK(store, d)
      <4>1. d.pc = "point" /\ d.op = c.op
        BY <1>1, <3>1 DEF CallType
      <4> HIDE DEF c, d
      <4>2. QED
        BY <1>2, <4>1 DEF CallOK, MasterOK, ReloadOK, LookPcs, OfMaster
    <3>2. /\ OfMaster(c) => IsMaster(store, c.priv, c.label)
          /\ OfMaster(c) /\ c.pc = "sibling"
               => HasPublic(store, PubSiblingLabel(c.label))
      BY <1>1, <2>3 DEF FindCandidate, HsmAt, At, CallOK, ReloadOK
    <3>3. CASE HsmAt(t, "same")
      <4>1. CASE \E h \in Matching(store, "public", c.label) :
                   call' = [call EXCEPT ![t].pc = "point", ![t].pub = h]
        BY <3>1, <4>1
      <4>2. CASE /\ Matching(store, "public", c.label) = {}
                 /\ call' = [call EXCEPT ![t].pc = "sibling"]
        <5>1. /\ d.pc = "sibling" /\ d.label = c.label
              /\ d.op = c.op /\ d.path = c.path /\ d.priv = c.priv
          BY <1>1, <4>2 DEF CallType
        <5>2. OfMaster(c) => HasPublic(store, PubSiblingLabel(c.label))
          <6>1. c.label \in Label
            BY <1>1 DEF CallType
          <6>2. OfMaster(c) => c.priv \in Handles
            BY <3>2 DEF IsMaster, Live
          <6> HIDE DEF c
          <6>3. QED
            BY <1>1, <3>2, <4>2, <6>1, <6>2 DEF StoreOK, HasPublic
        <5> HIDE DEF c, d
        <5>3. QED
          BY <1>2, <3>2, <5>1, <5>2
          DEF CallOK, MasterOK, ReloadOK, LookPcs, OfMaster
      <4>3. QED
        BY <2>3, <3>3, <4>1, <4>2 DEF FindCandidate, HsmAt, At
    <3>4. CASE HsmAt(t, "sibling")
      <4>1. CASE \E h \in Matching(store, "public", PubSiblingLabel(c.label)) :
                   call' = [call EXCEPT ![t].pc = "point", ![t].pub = h]
        BY <3>1, <4>1
      <4>2. CASE /\ Matching(store, "public", PubSiblingLabel(c.label)) = {}
                 /\ Return(t, "noPub")
        <5>1. c.op # "reload"
          BY <3>2, <3>4, <4>2 DEF HsmAt, At, OfMaster, HasPublic
        <5>2. QED
          BY <1>1, <4>2, <5>1, ReturnFields, NothingMade
      <4>3. QED
        BY <2>3, <3>4, <4>1, <4>2 DEF FindCandidate, HsmAt, At
    <3>5. QED
      BY <2>3, <3>3, <3>4 DEF FindCandidate
  <2>4. QED
    BY <2>1, <2>2, <2>3
<1>5. QED
  BY <1>3, <1>4, SourcesQuiet

(* build_xpub, and the failure of any call to the token.                    *)
LEMMA SourcesRead ==
  ASSUME Typed, Sources, NEW t \in Threads,
         ReadPoint(t) \/ ReadChain(t) \/ HsmFault(t)
  PROVE  Sources'
<1> DEFINE c == call[t]
           d == call'[t]
<1>1. /\ call \in [Threads -> CallType] /\ c \in CallType /\ CallOK(store, c)
  BY DEF Typed, TypeOK, Sources
<1>2. /\ \A u \in Threads \ {t} : call'[u] = call[u]
      /\ UNCHANGED <<store, wire>>
  BY <1>1 DEF ReadPoint, ReadChain, HsmFault, Return
<1>3. CallOK(store, d)
  <2>1. CASE ReadPoint(t)
    <3>1. /\ c.op = "master" => /\ Belongs(c.label, c.want)
                                /\ Found(store, c, c.priv) /\ Found(store, c, c.pub)
      BY <1>1, <2>1 DEF ReadPoint, HsmAt, At, CallOK, MasterOK, MasterPcs
    <3>2. /\ d.pc = "chain" /\ d.point = store[c.pub].key
          /\ d.op = c.op /\ d.path = c.path /\ d.label = c.label
          /\ d.want = c.want /\ d.imp = c.imp /\ d.priv = c.priv
      BY <1>1, <2>1 DEF ReadPoint, CallType
    <3> HIDE DEF c, d
    <3>3. QED
      BY <3>1, <3>2
      DEF CallOK, MasterOK, ReloadOK, MasterPcs, LookPcs, OfMaster, Found, Source
  <2>2. CASE ReadChain(t)
    <3>1. c.op = "master" => Found(store, c, c.priv) /\ Source(c, c.point)
      BY <1>1, <2>2 DEF ReadChain, HsmAt, At, CallOK, MasterOK, MasterPcs
    <3>2. /\ d.pc = "done" /\ d.res = "ok" /\ d.chain = store[c.priv].key
          /\ d.point = c.point /\ d.op = c.op /\ d.path = c.path
          /\ d.label = c.label /\ d.want = c.want /\ d.imp = c.imp
      BY <1>1, <2>2 DEF ReadChain, CallType
    <3> HIDE DEF c, d
    <3>3. QED
      BY <3>1, <3>2
      DEF CallOK, MasterOK, ReloadOK, MasterPcs, LookPcs, OfMaster, Found, Source
  <2>3. CASE HsmFault(t)
    BY <1>1, <2>3, ReturnFields, NothingMade DEF HsmFault
  <2>4. QED
    BY <2>1, <2>2, <2>3
<1>4. QED
  BY <1>2, <1>3, SourcesQuiet

(* record_pair hands a master's pair on as it is.                           *)
LEMMA SourcesRecord ==
  ASSUME Typed, Sources, NEW t \in Threads, Record(t)
  PROVE  Sources'
<1> DEFINE c == call[t]
           d == call'[t]
<1>1. /\ call \in [Threads -> CallType] /\ c \in CallType /\ CallOK(store, c)
      /\ StoreOK(store) /\ UNCHANGED <<store, wire>>
  BY DEF Typed, TypeOK, Sources, Record
<1>2. /\ c.pc = "record"
      /\ c.op = "master" \/ (c.op \in {"account", "leaf"} /\ c.path # << >>)
  BY <1>1 DEF Record, At, CallOK, ReloadOK
<1>3. CallOK(store, d)
  <2>1. CASE c.op = "master"
    <3>1. d = [c EXCEPT !.pc = "point"]
      BY <1>1, <2>1 DEF Record
    <3>2. /\ d.pc = "point" /\ d.op = c.op /\ d.label = c.label
          /\ d.want = c.want /\ d.imp = c.imp
          /\ d.priv = c.priv /\ d.pub = c.pub
      BY <1>1, <3>1 DEF CallType
    <3> HIDE DEF c, d
    <3>3. QED
      BY <1>1, <1>2, <2>1, <3>2
      DEF CallOK, MasterOK, ReloadOK, MasterPcs, LookPcs, OfMaster, Found, Source
  <2>2. CASE c.op = "account"
    <3>1. PICK age : d = [c EXCEPT !.pc = "lookup", !.pub = None, !.age = age]
      BY <1>1, <2>2 DEF Record
    <3>2. d.pc = "lookup" /\ d.op = c.op /\ d.path = c.path
      BY <1>1, <3>1 DEF CallType
    <3> HIDE DEF c, d
    <3>3. QED
      BY <1>2, <2>2, <3>2 DEF CallOK, MasterOK, ReloadOK, LookPcs, OfMaster
  <2>3. CASE c.op = "leaf"
    <3>1. d = Returned(c, "ok")
      BY <1>1, <2>3 DEF Record
    <3>2. d.pc = "done" /\ d.op = "leaf"
      BY <2>3, <3>1 DEF Returned, NoCall
    <3>3. QED
      BY <3>2, NothingMade
  <2>4. QED
    BY <1>2, <2>1, <2>2, <2>3
<1>4. ASSUME NEW u \in Threads, u # t PROVE CallOK(store, call'[u])
  <2>1. PICK age : call'[u] = [call[u] EXCEPT !.age = age]
    BY <1>4 DEF Record
  <2>2. call[u] \in CallType /\ CallOK(store, call[u])
    BY <1>1 DEF Sources
  <2>3. /\ call'[u].op = call[u].op /\ call'[u].pc = call[u].pc
        /\ call'[u].res = call[u].res /\ call'[u].label = call[u].label
        /\ call'[u].path = call[u].path /\ call'[u].want = call[u].want
        /\ call'[u].imp = call[u].imp /\ call'[u].priv = call[u].priv
        /\ call'[u].pub = call[u].pub /\ call'[u].point = call[u].point
        /\ call'[u].chain = call[u].chain
    BY <2>1, <2>2 DEF CallType
  <2>4. Persists(store, store)
    BY DEF Persists
  <2>5. QED
    BY <1>1, <2>2, <2>3, <2>4, CallKept
<1>5. QED
  BY <1>1, <1>3, <1>4 DEF Sources

-----------------------------------------------------------------------------
(* The steps that create a pair, and those that lose the session objects.   *)

(* What a created pair is: the halves of one key, for the label if it has   *)
(* one; as Generate, Derive and the broker make them.                       *)
Created(s, s2, a, b, key) ==
  /\ StoreOK(s2) /\ Grown(s, s2) /\ Persists(s, s2)
  /\ a \in Live(s2) \ Live(s) /\ b \in Live(s2) \ Live(s)
  /\ s2[a].class = "private" /\ s2[b].class = "public"
  /\ s2[a].key = key /\ s2[b].key = key /\ s2[a].token = s2[b].token
  /\ \A h \in Live(s2) : h \in Live(s) \cup {a, b}

LEMMA GeneratedPair ==
  ASSUME Typed, Sources, NEW t \in Threads, Generate(t)
  PROVE  /\ Belongs(call[t].label, call[t].want) /\ call[t].op = "master"
         /\ \E a, b \in Free :
              /\ Created(store, store', a, b, call[t].want) /\ store'[a].token
              /\ outdated' = outdated \cup ({a} \cap Mapped(pubOf))
              /\ call' = [call EXCEPT ![t].pc = "record", ![t].priv = a,
                                      ![t].pub = b]
<1> DEFINE c == call[t]
<1>1. store \in Store /\ StoreOK(store) /\ CallOK(store, c)
  BY DEF Typed, TypeOK, Store, Sources
<1>2. c.op = "master" /\ Belongs(c.label, c.want)
  BY <1>1 DEF Generate, HsmAt, At, CallOK, MasterOK, MasterPcs
<1>3. c.label \in Label /\ PubSiblingLabel(c.label) \in Label /\ c.want \in Key
  BY <1>2, BelongsUnderLabel, SiblingIsLabel
<1> DEFINE o1 == KeyObject("private", c.want, c.label, TRUE, FALSE)
           o2 == KeyObject("public", c.want, PubSiblingLabel(c.label), TRUE, FALSE)
<1>4. /\ o1 \in Object /\ o2 \in Object
      /\ o1.class = "private" /\ o2.class = "public" /\ o1.key = c.want
      /\ o2.key = c.want /\ o1.token /\ o2.token /\ o1.token = o2.token
      /\ o1.label = c.label /\ o2.label = PubSiblingLabel(c.label)
  BY <1>3, KeyObjectType DEF KeyObject
<1>5. BelongsBeside(PubSiblingLabel(c.label), c.want)
  BY <1>2 DEF Belongs, BelongsBeside
<1>6. PICK a \in Free, b \in Free :
        /\ FreePair(a, b) /\ store' = WithPair(store, a, b, o1, o2) /\ Outdate(a)
        /\ call' = [call EXCEPT ![t].pc = "record", ![t].priv = a, ![t].pub = b]
  BY DEF Generate
<1>7. a \in Handles \ Live(store) /\ b \in Handles \ Live(store) /\ a # b
  BY <1>6 DEF Free, FreePair
<1> HIDE DEF o1, o2
<1>8. ObjectOK(o1) /\ ObjectOK(o2)
  BY <1>2, <1>4, <1>5 DEF ObjectOK
<1>9. Created(store, store', a, b, c.want) /\ store'[a].token
  <2>1. PICK s2 : s2 = store'
    OBVIOUS
  <2>2. /\ StoreOK(s2) /\ Grown(store, s2) /\ Persists(store, s2)
        /\ s2[a] = o1 /\ s2[b] = o2 /\ a \in Live(s2) /\ b \in Live(s2)
        /\ \A h \in Live(s2) : h \in Live(store) \cup {a, b}
    BY <1>1, <1>4, <1>6, <1>7, <1>8, <2>1, PairedStore
  <2> HIDE DEF c
  <2>3. QED
    BY <1>4, <1>7, <2>1, <2>2 DEF Created
<1>10. QED
  BY <1>2, <1>6, <1>9 DEF Outdate

LEMMA DerivedPair ==
  ASSUME Typed, Sources, NEW t \in Threads, Derive(t)
  PROVE  \E a, b \in Free :
           /\ Created(store, store', a, b,
                      Child(store[call[t].priv].key, call[t].path))
           /\ outdated' = outdated \cup ({a} \cap Mapped(pubOf))
           /\ call' = [call EXCEPT ![t].pc = "record", ![t].priv = a,
                                   ![t].pub = b]
<1> DEFINE c == call[t]
           child == Child(store[c.priv].key, c.path)
<1>1. store \in Store /\ StoreOK(store) /\ c \in CallType /\ c.priv \in Live(store)
  BY DEF Typed, TypeOK, Store, Sources, Derive
<1>2. child \in Key
  <2>1. store[c.priv] \in Object /\ c.path \in Seq(Nat)
    BY <1>1 DEF Store, Live, Maybe, CallType
  <2>2. QED
    BY <2>1, KeysAreKeys DEF Object
<1> DEFINE o1 == KeyObject("private", child, NoLabel, FALSE, FALSE)
           o2 == KeyObject("public", child, NoLabel, FALSE, FALSE)
<1>3. PICK a \in Free, b \in Free :
        /\ FreePair(a, b) /\ store' = WithPair(store, a, b, o1, o2) /\ Outdate(a)
        /\ call' = [call EXCEPT ![t].pc = "record", ![t].priv = a, ![t].pub = b]
  BY DEF Derive
<1> HIDE DEF child
<1>4. /\ o1 \in Object /\ o2 \in Object
      /\ o1.class = "private" /\ o2.class = "public" /\ o1.key = child
      /\ o2.key = child /\ o1.token = o2.token
      /\ o1.label = NoLabel /\ o2.label = NoLabel
  <2>1. NoLabel \in Label
    BY DEF NoLabel, Label
  <2>2. QED
    BY <1>2, <2>1, KeyObjectType DEF KeyObject
<1>5. a \in Handles \ Live(store) /\ b \in Handles \ Live(store) /\ a # b
  BY <1>3 DEF Free, FreePair
<1> HIDE DEF o1, o2
<1>6. ObjectOK(o1) /\ ObjectOK(o2)
  BY <1>4 DEF ObjectOK
<1>7. Created(store, store', a, b, child)
  <2>1. PICK s2 : s2 = store'
    OBVIOUS
  <2>2. /\ StoreOK(s2) /\ Grown(store, s2) /\ Persists(store, s2)
        /\ s2[a] = o1 /\ s2[b] = o2 /\ a \in Live(s2) /\ b \in Live(s2)
        /\ \A h \in Live(s2) : h \in Live(store) \cup {a, b}
    BY <1>1, <1>3, <1>4, <1>5, <1>6, <2>1, PairedStore
  <2>3. QED
    BY <1>4, <1>5, <2>1, <2>2 DEF Created
<1>8. QED
  BY <1>3, <1>7 DEF Outdate, child

(* The broker, whoever asked it and however long ago.                       *)
LEMMA ImportedPair ==
  ASSUME Typed, StoreOK(store), NEW label, NEW key, Belongs(label, key),
         Imported(label, key)
  PROVE  \E a, b \in Free :
           /\ Created(store, store', a, b, key) /\ store'[a].token
           /\ outdated' = outdated \cup ({a} \cap Mapped(pubOf))
<1> DEFINE o1 == KeyObject("private", key, label, TRUE, TRUE)
           o2 == KeyObject("public", key, label, TRUE, TRUE)
<1>1. /\ o1 \in Object /\ o2 \in Object
      /\ o1.class = "private" /\ o2.class = "public" /\ o1.key = key
      /\ o2.key = key /\ o1.token /\ o2.token /\ o1.token = o2.token
      /\ o1.label = label /\ o2.label = label
  BY BelongsUnderLabel, KeyObjectType DEF KeyObject
<1>2. PICK a \in Free, b \in Free :
        FreePair(a, b) /\ store' = WithPair(store, a, b, o1, o2) /\ Outdate(a)
  BY DEF Imported
<1>3. a \in Handles \ Live(store) /\ b \in Handles \ Live(store) /\ a # b
  BY <1>2 DEF Free, FreePair
<1> HIDE DEF o1, o2
<1>4. ObjectOK(o1) /\ ObjectOK(o2)
  BY <1>1 DEF ObjectOK
<1>5. store \in Store
  BY DEF Typed, TypeOK, Store
<1>6. Created(store, store', a, b, key) /\ store'[a].token
  <2>1. PICK s2 : s2 = store'
    OBVIOUS
  <2>2. /\ StoreOK(s2) /\ Grown(store, s2) /\ Persists(store, s2)
        /\ s2[a] = o1 /\ s2[b] = o2 /\ a \in Live(s2) /\ b \in Live(s2)
        /\ \A h \in Live(s2) : h \in Live(store) \cup {a, b}
    BY <1>1, <1>2, <1>3, <1>4, <1>5, <2>1, PairedStore
  <2>3. QED
    BY <1>1, <1>3, <2>1, <2>2 DEF Created
<1>7. QED
  BY <1>2, <1>6 DEF Outdate

(* Every call keeps what it has while the token gains or loses objects.     *)
LEMMA CallsKept ==
  ASSUME Sources, Persists(store, store')
  PROVE  \A u \in Threads : CallOK(store', call[u])
<1>1. PICK s : s = store'
  OBVIOUS
<1>2. StoreOK(store) /\ Persists(store, s) /\ \A u \in Threads : CallOK(store, call[u])
  BY <1>1 DEF Sources
<1>3. \A u \in Threads : CallOK(s, call[u])
  BY <1>2, CallKept
<1>4. QED
  BY <1>1, <1>3

LEMMA SourcesCreate ==
  ASSUME Typed, Sources, NEW t \in Threads, Generate(t) \/ Derive(t)
  PROVE  Sources'
<1> DEFINE c == call[t]
           d == call'[t]
<1>1. /\ call \in [Threads -> CallType] /\ c \in CallType /\ CallOK(store, c)
      /\ wire' = wire
  BY DEF Typed, TypeOK, Sources, Generate, Derive
<1>2. ASSUME NEW a, NEW b, NEW key, Created(store, store', a, b, key),
             call' = [call EXCEPT ![t].pc = "record", ![t].priv = a, ![t].pub = b],
             CallOK(store', d)
      PROVE  Sources'
  <2>1. \A u \in Threads \ {t} : call'[u] = call[u]
    BY <1>1, <1>2
  <2>2. StoreOK(store') /\ Persists(store, store')
    BY <1>2 DEF Created
  <2>3. \A u \in Threads : CallOK(store', call'[u])
    BY <1>2, <2>1, <2>2, CallsKept
  <2>4. QED
    BY <1>1, <2>2, <2>3 DEF Sources
<1>3. ASSUME NEW a, NEW b,
             call' = [call EXCEPT ![t].pc = "record", ![t].priv = a, ![t].pub = b]
      PROVE  /\ d.pc = "record" /\ d.priv = a /\ d.pub = b
             /\ d.op = c.op /\ d.label = c.label /\ d.path = c.path
             /\ d.want = c.want /\ d.imp = c.imp
  BY <1>1, <1>3 DEF CallType
<1>4. CASE Generate(t)
  <2>1. c.op = "master" /\ Belongs(c.label, c.want)
    BY <1>4, GeneratedPair
  <2>2. PICK a \in Free, b \in Free :
          /\ Created(store, store', a, b, c.want) /\ store'[a].token
          /\ call' = [call EXCEPT ![t].pc = "record", ![t].priv = a, ![t].pub = b]
    BY <1>4, GeneratedPair
  <2>3. /\ d.pc = "record" /\ d.priv = a /\ d.pub = b
        /\ d.op = c.op /\ d.label = c.label /\ d.want = c.want /\ d.imp = c.imp
    BY <1>3, <2>2
  <2>4. /\ a \in Live(store') /\ b \in Live(store')
        /\ store'[a].token /\ store'[b].token
        /\ store'[a].key = c.want /\ store'[b].key = c.want
    BY <2>2 DEF Created
  <2>5. c.want \in {Master(seed) : seed \in SeedsUnder(c.label)}
    BY <2>1, WantedHasSource
  <2> HIDE DEF c, d
  <2>6. CallOK(store', d)
    BY <2>1, <2>3, <2>4, <2>5
    DEF CallOK, MasterOK, ReloadOK, MasterPcs, LookPcs, OfMaster, Found, Source
  <2>7. QED
    BY <1>2, <2>2, <2>6
<1>5. CASE Derive(t)
  <2>1. c.op \in {"account", "leaf"} /\ c.path # << >>
    <3>1. c.pc = "derive"
      BY <1>5 DEF Derive, HsmAt, At
    <3>2. c.op # "master"
      BY <1>1, <3>1 DEF CallOK, MasterOK, MasterPcs
    <3>3. QED
      BY <1>1, <3>1, <3>2 DEF CallOK, ReloadOK
  <2>2. PICK a \in Free, b \in Free :
          /\ Created(store, store', a, b, Child(store[c.priv].key, c.path))
          /\ call' = [call EXCEPT ![t].pc = "record", ![t].priv = a, ![t].pub = b]
    BY <1>5, DerivedPair
  <2>3. d.pc = "record" /\ d.op = c.op /\ d.path = c.path
    BY <1>3, <2>2
  <2> DEFINE child == Child(store[c.priv].key, c.path)
  <2>4. CallOK(store', d)
    <3> HIDE DEF c, d
    <3>1. QED
      BY <2>1, <2>3 DEF CallOK, MasterOK, ReloadOK, LookPcs, OfMaster
  <2>5. Created(store, store', a, b, child)
    BY <2>2
  <2> HIDE DEF child
  <2>6. QED
    BY <1>2, <2>2, <2>4, <2>5
<1>6. QED
  BY <1>4, <1>5

LEMMA SourcesImport ==
  ASSUME Typed, Sources, NEW t \in Threads, Import(t)
  PROVE  Sources'
<1> DEFINE c == call[t]
           d == call'[t]
<1>1. /\ call \in [Threads -> CallType] /\ c \in CallType /\ CallOK(store, c)
      /\ StoreOK(store) /\ \A req \in wire : Belongs(req.label, req.key)
  BY DEF Typed, TypeOK, Sources
<1>2. c.op = "master" /\ Belongs(c.label, c.want)
  BY <1>1 DEF Import, At, CallOK, MasterOK, MasterPcs
<1>3. /\ d.pc = "findPriv" /\ d.imp # None
      /\ d.op = c.op /\ d.label = c.label /\ d.want = c.want
      /\ \A u \in Threads \ {t} : call'[u] = call[u]
  <2>1. PICK imp \in {"ok", "duplicate", "failed"} :
          call' = [call EXCEPT ![t].pc = "findPriv", ![t].imp = imp]
    BY DEF Import
  <2>2. imp # None
    BY NoneIsNoOutcome
  <2>3. QED
    BY <1>1, <2>1, <2>2 DEF CallType
<1>4. CallOK(store', d)
  <2> HIDE DEF c, d
  <2>1. QED
    BY <1>2, <1>3 DEF CallOK, MasterOK, ReloadOK, MasterPcs, LookPcs, OfMaster
<1>5. StoreOK(store') /\ Persists(store, store')
  <2>1. CASE Imported(c.label, c.want)
    <3>1. \E a, b \in Free : Created(store, store', a, b, c.want)
      BY <1>1, <1>2, <2>1, ImportedPair
    <3>2. QED
      BY <3>1 DEF Created
  <2>2. CASE UNCHANGED store
    BY <1>1, <2>2 DEF Persists
  <2>3. QED
    BY <2>1, <2>2 DEF Import
<1>6. \A req \in wire' : Belongs(req.label, req.key)
  <2>1. wire' = wire \/ wire' = wire \cup {[label |-> c.label, key |-> c.want]}
    BY DEF Import
  <2>2. QED
    BY <1>1, <1>2, <2>1
<1>7. \A u \in Threads : CallOK(store', call'[u])
  BY <1>3, <1>4, <1>5, CallsKept
<1>8. QED
  BY <1>5, <1>6, <1>7 DEF Sources

LEMMA SourcesEnvironment ==
  ASSUME Typed, Sources, TsbApply \/ LoseSession \/ Restart
  PROVE  Sources'
<1>1. /\ call \in [Threads -> CallType] /\ store \in Store
      /\ StoreOK(store) /\ \A req \in wire : Belongs(req.label, req.key)
  BY DEF Typed, TypeOK, Store, Sources
<1>2. CASE TsbApply
  <2>1. PICK req \in wire :
          /\ wire' = wire \ {req}
          /\ Imported(req.label, req.key) \/ UNCHANGED store
    BY <1>2 DEF TsbApply
  <2>2. StoreOK(store') /\ Persists(store, store')
    <3>1. CASE Imported(req.label, req.key)
      <4>1. PICK label, key : label = req.label /\ key = req.key
        OBVIOUS
      <4>2. Belongs(label, key) /\ Imported(label, key)
        BY <1>1, <3>1, <4>1
      <4>3. \E a, b \in Free : Created(store, store', a, b, key)
        BY <1>1, <4>2, ImportedPair
      <4>4. QED
        BY <4>3 DEF Created
    <3>2. CASE UNCHANGED store
      BY <1>1, <3>2 DEF Persists
    <3>3. QED
      BY <2>1, <3>1, <3>2
  <2>3. UNCHANGED call
    BY <1>2 DEF TsbApply
  <2>4. \A u \in Threads : CallOK(store', call[u])
    BY <2>2, CallsKept
  <2>5. QED
    BY <1>1, <2>1, <2>2, <2>3, <2>4 DEF Sources
<1>3. CASE LoseSession
  <2>1. store' = TokenObjects(store) /\ UNCHANGED wire
    BY <1>3 DEF LoseSession
  <2>2. StoreOK(store') /\ Persists(store, store')
    BY <1>1, <2>1, WithoutSessionOK, SessionPersists
  <2>3. ASSUME NEW u \in Threads PROVE CallOK(store', call'[u])
    <3> DEFINE c == call[u]
               d == call'[u]
    <3>1. c \in CallType /\ CallOK(store, c)
      BY <1>1 DEF Sources
    <3>2. d = [c EXCEPT !.stale = @ \/ Busy(u)]
      BY <1>3 DEF LoseSession
    <3>3. /\ d.op = c.op /\ d.pc = c.pc /\ d.res = c.res /\ d.label = c.label
          /\ d.path = c.path /\ d.want = c.want /\ d.imp = c.imp
          /\ d.priv = c.priv /\ d.pub = c.pub /\ d.point = c.point
          /\ d.chain = c.chain
      BY <3>1, <3>2 DEF CallType
    <3> HIDE DEF c, d
    <3>4. PICK s : s = store'
      OBVIOUS
    <3>5. Persists(store, s)
      BY <2>2, <3>4
    <3>6. CallOK(s, d)
      BY <1>1, <3>1, <3>3, <3>5, CallKept
    <3>7. QED
      BY <3>4, <3>6 DEF d
  <2>4. QED
    BY <1>1, <2>1, <2>2, <2>3 DEF Sources
<1>4. CASE Restart
  <2>1. StoreOK(store') /\ wire' = wire
    BY <1>1, <1>4, WithoutSessionOK DEF Restart
  <2>2. \A u \in Threads : CallOK(store', call'[u])
    BY <1>4
    DEF Restart, NoCall, CallOK, MasterOK, ReloadOK, MasterPcs, LookPcs, OfMaster
  <2>3. QED
    BY <1>1, <2>1, <2>2 DEF Sources
<1>5. QED
  BY <1>2, <1>3, <1>4

-----------------------------------------------------------------------------
LEMMA SourcesInit == Init => Sources
<1> SUFFICES ASSUME Init PROVE Sources
  OBVIOUS
<1>1. StoreOK(store)
  BY DEF Init, StoreOK, Live, IsMaster
<1>2. \A t \in Threads : CallOK(store, call[t])
  BY DEF Init, NoCall, CallOK, MasterOK, ReloadOK, MasterPcs, LookPcs, OfMaster
<1>3. QED
  BY <1>1, <1>2 DEF Init, Sources

LEMMA SourcesNext == ASSUME Typed, Sources, [Next]_vars PROVE Sources'
<1>1. CASE UNCHANGED vars
  BY <1>1 DEF vars, Sources
<1>2. ASSUME NEW t \in Threads, Start(t) \/ Take(t) PROVE Sources'
  BY <1>2, SourcesStart
<1>3. ASSUME NEW t \in Threads, Step(t) PROVE Sources'
  BY <1>3, SourcesCreate, SourcesRecord, SourcesImport, SourcesFind,
     SourcesLookup, SourcesRead
  DEF Step
<1>4. CASE TsbApply \/ LoseSession \/ Restart
  BY <1>4, SourcesEnvironment
<1>5. QED
  BY <1>1, <1>2, <1>3, <1>4 DEF Next

LEMMA SourcesHold == Spec => [](Typed /\ Sources)
<1>1. Typed /\ Sources /\ [Next]_vars => Sources'
  BY SourcesNext
<1>2. QED
  BY <1>1, SourcesInit, Typing, PTL DEF Spec

(* A native derive_master_key returns the master of the seed it was given,  *)
(* also under a label in use (backend.rs:406-446); one over TSB returns     *)
(* what it finds under the label (:309-313), a master of the seed or of     *)
(* another seed that the label has been used for, and nothing else.         *)
THEOREM MastersAreTheirSeeds == Spec => []MasterIsFromSeed
<1>1. Sources => MasterIsFromSeed
  BY DEF Sources, CallOK, MasterOK, Source, MasterIsFromSeed
<1>2. QED
  BY <1>1, SourcesHold, PTL

(* read_xpub of a persisted master never fails for want of a public key:    *)
(* the label or its sibling has one, whichever way it was created (:258)    *)
(* and whatever else has been put under these labels.                       *)
THEOREM MastersReload == Spec => []MasterReloads
<1>1. Sources => MasterReloads
  BY DEF Sources, CallOK, ReloadOK, MasterReloads
<1>2. QED
  BY <1>1, SourcesHold, PTL

-----------------------------------------------------------------------------
(***************************************************************************)
(* Which handles the map pairs, however the token reissues handles, where  *)
(* no label has two seeds (LabelsApart) or TSB is never configured, so     *)
(* that nothing is taken from the token by its label (NativeOnly).  The    *)
(* inductive invariant, Pairs, says that a call which has not lost its     *)
(* session records the two halves of one key, as does any call for a       *)
(* master; and that an entry of the map, when it is not outdated, has the  *)
(* other half of the private key it is for.                                *)
(***************************************************************************)

(* No label holds the masters of two seeds, and the sibling of a label is   *)
(* neither a label nor the sibling of another seed's.                       *)
LabelsApart ==
  \A p, q \in Real :
    /\ PubSiblingLabel(p[2]) # q[2]
    /\ p[2] = q[2] \/ PubSiblingLabel(p[2]) = PubSiblingLabel(q[2])
         => p[1] = q[1]

NativeOnly == \A env \in Envs : ~(env.url /\ env.jwt)

Native ==
  /\ ~taproot /\ wire = {}
  /\ \A t \in Threads : call[t].pc \notin {"import", "findPriv", "findPub"}

IsPrivate(s, h) == h \in Live(s) /\ s[h].class = "private"

Halves(s, h, p) ==
  /\ p \in Live(s) /\ s[p].class = "public"
  /\ s[p].key = s[h].key /\ s[p].token = s[h].token

RecordsHalves(s, c) ==
  c.pc = "record" /\ (c.op = "master" \/ ~c.stale) =>
    IsPrivate(s, c.priv) /\ Halves(s, c.priv, c.pub)

MapOK(s, m, out) ==
  \A h \in Mapped(m) \ out : IsPrivate(s, h) => Halves(s, h, m.map[h])

Pairs ==
  /\ MapOK(store, pubOf, outdated)
  /\ \A t \in Threads : RecordsHalves(store, call[t])

-----------------------------------------------------------------------------
(* Whatever is found under a label, or beside it, has the label's key.      *)
LEMMA FoundIsOwn ==
  ASSUME LabelsApart, NEW s, StoreOK(s), NEW label, NEW key,
         Belongs(label, key), NEW h \in Live(s)
  PROVE  /\ s[h].label = label => s[h].key = key
         /\ s[h].class = "public" /\ s[h].label = PubSiblingLabel(label)
              => s[h].key = key
<1>1. PICK p \in Real : label = p[2] /\ key = Master(p[1])
  BY DEF Belongs
<1>2. label # NoLabel /\ PubSiblingLabel(label) # NoLabel
  BY BelongsUnderLabel
<1>3. ObjectOK(s[h])
  BY DEF StoreOK
<1>4. ASSUME NEW q \in Real, s[h].key = Master(q[1]),
             s[h].label = q[2] \/ s[h].label = PubSiblingLabel(q[2])
      PROVE  s[h].label \in {label, PubSiblingLabel(label)} => s[h].key = key
  BY <1>1, <1>4 DEF LabelsApart
<1>5. QED
  BY <1>2, <1>3, <1>4 DEF ObjectOK, Belongs, BelongsBeside

(* Halves stay halves when objects come.                                    *)
LEMMA HalvesKept ==
  ASSUME NEW s, NEW s2, Grown(s, s2), NEW h \in Live(s), NEW p, Halves(s, h, p)
  PROVE  Halves(s2, h, p) /\ (IsPrivate(s, h) => IsPrivate(s2, h))
BY DEF Grown, Halves, IsPrivate

(* A pair is created at handles the map may know: what it has of the        *)
(* private half is outdated from then on.                                   *)
LEMMA PairsGrown ==
  ASSUME Typed, Pairs, NEW a, NEW b, NEW key, Created(store, store', a, b, key),
         outdated' = outdated \cup ({a} \cap Mapped(pubOf)), UNCHANGED pubOf
  PROVE  /\ MapOK(store', pubOf', outdated')
         /\ \A u \in Threads : RecordsHalves(store', call[u])
         /\ IsPrivate(store', a) /\ Halves(store', a, b)
<1>1. Grown(store, store')
  BY DEF Created
<1>2. IsPrivate(store', a) /\ Halves(store', a, b)
  BY DEF Created, IsPrivate, Halves
<1>3. ASSUME NEW h \in Mapped(pubOf') \ outdated', IsPrivate(store', h)
      PROVE  Halves(store', h, pubOf'.map[h])
  <2>1. h \in Mapped(pubOf) \ outdated /\ h # a
    BY <1>3
  <2>2. h \in Live(store) /\ IsPrivate(store, h)
    BY <1>1, <1>3, <2>1 DEF Created, IsPrivate, Grown
  <2>3. Halves(store, h, pubOf.map[h])
    BY <2>1, <2>2 DEF Pairs, MapOK
  <2>4. Halves(store', h, pubOf.map[h])
    BY <1>1, <2>2, <2>3 DEF Grown, Halves
  <2>5. QED
    BY <2>4
<1>4. \A u \in Threads : RecordsHalves(store', call[u])
  BY <1>1 DEF Pairs, RecordsHalves, IsPrivate, Halves, Grown
<1>5. QED
  BY <1>2, <1>3, <1>4 DEF MapOK

LEMMA PairsQuiet ==
  ASSUME Pairs, NEW t \in Threads, RecordsHalves(store, call'[t]),
         \A u \in Threads \ {t} : call'[u] = call[u],
         UNCHANGED <<store, pubOf, outdated>>
  PROVE  Pairs'
BY DEF Pairs

LEMMA PairsCreate ==
  ASSUME Typed, Sources, Pairs, NEW t \in Threads, Generate(t) \/ Derive(t)
  PROVE  Pairs'
<1>1. call \in [Threads -> CallType] /\ UNCHANGED pubOf
  BY DEF Typed, TypeOK, Generate, Derive
<1>2. PICK a, b, key :
        /\ Created(store, store', a, b, key)
        /\ outdated' = outdated \cup ({a} \cap Mapped(pubOf))
        /\ call' = [call EXCEPT ![t].pc = "record", ![t].priv = a, ![t].pub = b]
  <2>1. CASE Generate(t)
    <3>1. PICK key : key = call[t].want
      OBVIOUS
    <3>2. QED
      BY <2>1, <3>1, GeneratedPair
  <2>2. CASE Derive(t)
    <3>1. PICK key : key = Child(store[call[t].priv].key, call[t].path)
      OBVIOUS
    <3>2. QED
      BY <2>2, <3>1, DerivedPair
  <2>3. QED
    BY <2>1, <2>2
<1>3. /\ MapOK(store', pubOf', outdated')
      /\ \A u \in Threads : RecordsHalves(store', call[u])
      /\ IsPrivate(store', a) /\ Halves(store', a, b)
  BY <1>1, <1>2, PairsGrown
<1>4. /\ call'[t].priv = a /\ call'[t].pub = b
      /\ \A u \in Threads \ {t} : call'[u] = call[u]
  BY <1>1, <1>2 DEF CallType
<1>5. RecordsHalves(store', call'[t])
  BY <1>3, <1>4 DEF RecordsHalves
<1>6. QED
  BY <1>3, <1>4, <1>5 DEF Pairs

LEMMA PairsImport ==
  ASSUME Typed, Sources, Pairs, NEW t \in Threads, Import(t)
  PROVE  Pairs'
<1>1. /\ call \in [Threads -> CallType] /\ StoreOK(store) /\ UNCHANGED pubOf
      /\ Belongs(call[t].label, call[t].want)
  <2>1. CallOK(store, call[t]) /\ call[t].pc = "import"
    BY DEF Sources, Import, At
  <2>2. QED
    BY <2>1 DEF Typed, TypeOK, Sources, Import, CallOK, MasterOK, MasterPcs
<1>2. call'[t].pc = "findPriv" /\ \A u \in Threads \ {t} : call'[u] = call[u]
  <2>1. PICK imp : call' = [call EXCEPT ![t].pc = "findPriv", ![t].imp = imp]
    BY DEF Import
  <2>2. QED
    BY <1>1, <2>1 DEF CallType
<1>3. \A s : RecordsHalves(s, call'[t])
  BY <1>2 DEF RecordsHalves
<1>4. CASE Imported(call[t].label, call[t].want)
  <2>1. PICK a, b : /\ Created(store, store', a, b, call[t].want)
                    /\ outdated' = outdated \cup ({a} \cap Mapped(pubOf))
    BY <1>1, <1>4, ImportedPair
  <2>2. PICK key : key = call[t].want
    OBVIOUS
  <2>3. Created(store, store', a, b, key)
    BY <2>1, <2>2
  <2>4. /\ MapOK(store', pubOf', outdated')
        /\ \A u \in Threads : RecordsHalves(store', call[u])
    BY <1>1, <2>1, <2>3, PairsGrown
  <2>5. QED
    BY <1>2, <1>3, <2>4 DEF Pairs
<1>5. CASE UNCHANGED <<store, outdated>>
  BY <1>1, <1>2, <1>3, <1>5, PairsQuiet
<1>6. QED
  BY <1>4, <1>5 DEF Import

(* The pair an import finds by its label is one only where the label has    *)
(* one seed.                                                                *)
LEMMA PairsFound ==
  ASSUME Typed, Sources, Pairs, LabelsApart \/ Native, NEW t \in Threads, FindPub(t)
  PROVE  Pairs'
<1> DEFINE c == call[t]
           d == call'[t]
<1>1. /\ call \in [Threads -> CallType] /\ c \in CallType
      /\ StoreOK(store) /\ CallOK(store, c) /\ c.pc = "findPub"
      /\ UNCHANGED <<store, pubOf, outdated>>
  BY DEF Typed, TypeOK, Sources, FindPub, HsmAt, At
<1>2. LabelsApart
  BY <1>1 DEF Native
<1>3. c.op = "master" /\ Belongs(c.label, c.want) /\ IsMaster(store, c.priv, c.label)
  BY <1>1 DEF CallOK, MasterOK, MasterPcs
<1>4. \A u \in Threads \ {t} : call'[u] = call[u]
  BY <1>1 DEF FindPub, Return
<1>5. RecordsHalves(store, d)
  <2>1. CASE Return(t, "noPub")
    BY <1>1, <2>1, ReturnFields DEF RecordsHalves
  <2>2. ASSUME NEW h \in Matching(store, "public", c.label),
               call' = [call EXCEPT ![t].pc = "record", ![t].pub = h]
        PROVE  RecordsHalves(store, d)
    <3>1. d.priv = c.priv /\ d.pub = h
      BY <1>1, <2>2 DEF CallType
    <3>2. /\ h \in Live(store) /\ store[h].class = "public"
          /\ c.priv \in Live(store) /\ store[c.priv].class = "private"
          /\ store[h].label = c.label /\ store[c.priv].label = c.label
          /\ c.label # NoLabel
      BY <1>3 DEF Matching, IsMaster
    <3>3. store[h].key = c.want /\ store[c.priv].key = c.want
      BY <1>1, <1>2, <1>3, <3>2, FoundIsOwn
    <3>4. store[h].token = store[c.priv].token
      <4>1. store[h].token /\ store[c.priv].token
        BY <1>1, <3>2, FoundHasSource
      <4>2. store[h] \in Object /\ store[c.priv] \in Object
        BY <3>2 DEF Typed, TypeOK, Live, Maybe
      <4>3. QED
        BY <4>1, <4>2 DEF Object
    <3> HIDE DEF c, d
    <3>5. QED
      BY <3>1, <3>2, <3>3, <3>4 DEF RecordsHalves, IsPrivate, Halves
  <2>3. QED
    BY <2>1, <2>2 DEF FindPub
<1>6. QED
  BY <1>1, <1>4, <1>5, PairsQuiet

(* record_pair replaces what the map had of the handle; the new entry is    *)
(* outdated if the call's pair is gone.                                     *)
LEMMA PairsRecord ==
  ASSUME Typed, Pairs, NEW t \in Threads, Record(t)
  PROVE  Pairs'
<1> DEFINE c == call[t]
           late == c.stale /\ c.op # "master"
<1>1. /\ call \in [Threads -> CallType] /\ c \in CallType
      /\ pubOf \in PubMapType /\ c.pc = "record" /\ UNCHANGED store
      /\ pubOf' = InsertPair(pubOf, c.priv, c.pub)
      /\ outdated' = Mapped(pubOf') \cap
           (IF late THEN outdated \cup {c.priv} ELSE outdated \ {c.priv})
  BY DEF Typed, TypeOK, Record, At
<1>2. \A h \in Handles :
        \/ pubOf'.map[h] = None
        \/ pubOf'.map[h] = pubOf.map[h] /\ h # c.priv
        \/ pubOf'.map[h] = c.pub /\ h = c.priv
  <2>1. CASE c.priv \in Mapped(pubOf)
    BY <1>1, <2>1 DEF InsertPair, PubMapType
  <2>2. CASE c.priv \notin Mapped(pubOf)
    BY <1>1, <2>2 DEF InsertPair, Push
  <2>3. QED
    BY <2>1, <2>2
<1>3. ASSUME NEW h \in Mapped(pubOf') \ outdated', IsPrivate(store, h)
      PROVE  Halves(store, h, pubOf'.map[h])
  <2> HIDE DEF c
  <2>1. CASE h = c.priv
    <3>1. ~late
      BY <1>1, <1>3, <2>1
    <3>2. Halves(store, c.priv, c.pub)
      BY <1>1, <3>1 DEF Pairs, RecordsHalves, c
    <3>3. pubOf'.map[h] = c.pub
      BY <1>2, <2>1 DEF Mapped
    <3>4. QED
      BY <2>1, <3>2, <3>3
  <2>2. CASE h # c.priv
    <3>1. pubOf'.map[h] = pubOf.map[h] /\ h \in Mapped(pubOf) \ outdated
      BY <1>1, <1>2, <2>2 DEF Mapped
    <3>2. QED
      BY <1>3, <3>1 DEF Pairs, MapOK
  <2>3. QED
    BY <2>1, <2>2
<1>4. call'[t].pc \in {"point", "lookup", "done"}
  BY <1>1 DEF Record, Returned, NoCall, CallType
<1>5. ASSUME NEW u \in Threads PROVE RecordsHalves(store, call'[u])
  <2>1. CASE u = t
    BY <1>4, <2>1 DEF RecordsHalves
  <2>2. CASE u # t
    <3>1. /\ call'[u].pc = call[u].pc /\ call'[u].op = call[u].op
          /\ call'[u].stale = call[u].stale /\ call'[u].priv = call[u].priv
          /\ call'[u].pub = call[u].pub
      BY <1>1, <2>2 DEF Record, CallType
    <3>2. QED
      BY <3>1 DEF Pairs, RecordsHalves
  <2>3. QED
    BY <2>1, <2>2
<1>6. QED
  BY <1>1, <1>3, <1>5 DEF Pairs, MapOK

(* The broker may apply an import; session objects go in pairs, and what a  *)
(* call records after that is outdated, a master's apart.                   *)
LEMMA PairsEnvironment ==
  ASSUME Typed, Sources, Pairs, TsbApply \/ LoseSession \/ Restart
  PROVE  Pairs'
<1>1. /\ call \in [Threads -> CallType] /\ StoreOK(store)
      /\ \A req \in wire : Belongs(req.label, req.key)
  BY DEF Typed, TypeOK, Sources
<1>2. CASE TsbApply
  <2>1. PICK req \in wire :
          Imported(req.label, req.key) \/ UNCHANGED <<store, outdated>>
    BY <1>2 DEF TsbApply
  <2>2. UNCHANGED <<pubOf, call>>
    BY <1>2 DEF TsbApply
  <2>3. CASE Imported(req.label, req.key)
    <3>1. PICK label, key : label = req.label /\ key = req.key
      OBVIOUS
    <3>2. Belongs(label, key) /\ Imported(label, key)
      BY <1>1, <2>3, <3>1
    <3>3. PICK a, b : /\ Created(store, store', a, b, key)
                      /\ outdated' = outdated \cup ({a} \cap Mapped(pubOf))
      BY <1>1, <3>2, ImportedPair
    <3>4. /\ MapOK(store', pubOf', outdated')
          /\ \A u \in Threads : RecordsHalves(store', call[u])
      BY <2>2, <3>3, PairsGrown
    <3>5. QED
      BY <2>2, <3>4 DEF Pairs
  <2>4. CASE UNCHANGED <<store, outdated>>
    BY <2>2, <2>4 DEF Pairs
  <2>5. QED
    BY <2>1, <2>3, <2>4
<1>3. CASE LoseSession
  <2>1. store' = TokenObjects(store) /\ UNCHANGED <<pubOf, outdated>>
    BY <1>3 DEF LoseSession
  <2>2. /\ \A h, p : IsPrivate(store', h) /\ Halves(store, h, p) => Halves(store', h, p)
        /\ \A h : IsPrivate(store', h) => IsPrivate(store, h)
        /\ \A h : IsPrivate(store, h) /\ store[h].token => IsPrivate(store', h)
    BY <2>1 DEF IsPrivate, Halves, TokenObjects, Live
  <2>3. MapOK(store', pubOf', outdated')
    BY <2>1, <2>2 DEF Pairs, MapOK
  <2>4. ASSUME NEW u \in Threads PROVE RecordsHalves(store', call'[u])
    <3> DEFINE c == call[u]
               d == call'[u]
    <3>1. c \in CallType /\ CallOK(store, c) /\ RecordsHalves(store, c)
      BY <1>1 DEF Sources, Pairs
    <3>2. d = [c EXCEPT !.stale = @ \/ Busy(u)]
      BY <1>3 DEF LoseSession
    <3>3. /\ d.op = c.op /\ d.pc = c.pc /\ d.priv = c.priv /\ d.pub = c.pub
          /\ c.pc = "record" => d.stale
      BY <3>1, <3>2 DEF CallType, Busy
    <3> HIDE DEF c, d
    <3>4. ASSUME c.pc = "record", c.op = "master"
          PROVE  IsPrivate(store', c.priv) /\ Halves(store', c.priv, c.pub)
      <4>1. IsPrivate(store, c.priv) /\ Halves(store, c.priv, c.pub)
        BY <3>1, <3>4 DEF RecordsHalves
      <4>2. store[c.priv].token
        BY <3>1, <3>4 DEF CallOK, MasterOK, Found
      <4>3. QED
        BY <2>2, <4>1, <4>2
    <3>5. QED
      BY <3>3, <3>4 DEF RecordsHalves, d
  <2>5. QED
    BY <2>3, <2>4 DEF Pairs
<1>4. CASE Restart
  BY <1>4
  DEF Restart, NoCall, EmptyPubMap, Mapped, Pairs, MapOK, RecordsHalves
<1>5. QED
  BY <1>2, <1>3, <1>4

LEMMA PairsNext ==
  ASSUME Typed, Sources, Pairs, LabelsApart \/ Native, [Next]_vars
  PROVE  Pairs'
<1>1. call \in [Threads -> CallType]
  BY DEF Typed, TypeOK
<1>2. CASE UNCHANGED vars
  BY <1>2 DEF vars, Pairs
<1>3. ASSUME NEW t \in Threads, Start(t) \/ Take(t) PROVE Pairs'
  <2>1. /\ \A u \in Threads \ {t} : call'[u] = call[u]
        /\ UNCHANGED <<store, pubOf, outdated>>
    BY <1>1, <1>3 DEF Start, DeriveMasterKey, DerivePath, ReadXpub, Take, Begin
  <2>2. call'[t].pc # "record"
    <3>1. CASE DeriveMasterKey(t)
      BY <1>1, <3>1 DEF DeriveMasterKey, Begin, NoCall
    <3>2. CASE DerivePath(t)
      BY <1>1, <3>2 DEF DerivePath, Begin, NoCall
    <3>3. CASE ReadXpub(t)
      BY <1>1, <3>3 DEF ReadXpub, Begin, NoCall
    <3>4. CASE Take(t)
      BY <1>1, <3>4 DEF Take, NoCall
    <3>5. QED
      BY <1>3, <3>1, <3>2, <3>3, <3>4 DEF Start
  <2>3. QED
    BY <2>1, <2>2, PairsQuiet DEF RecordsHalves
<1>4. ASSUME NEW t \in Threads,
             \/ FindPriv(t) \/ LookupPub(t) \/ ReadLabel(t) \/ FindCandidate(t)
             \/ ReadPoint(t) \/ ReadChain(t) \/ HsmFault(t)
      PROVE  Pairs'
  <2>1. /\ \A u \in Threads \ {t} : call'[u] = call[u]
        /\ UNCHANGED <<store, pubOf, outdated>>
    BY <1>1, <1>4
    DEF FindPriv, LookupPub, ReadLabel, FindCandidate, ReadPoint, ReadChain,
        HsmFault, Return
  <2>2. call'[t].pc # "record"
    <3>1. CASE FindPriv(t) \/ FindCandidate(t) \/ HsmFault(t)
      BY <1>1, <3>1, ReturnFields DEF FindPriv, FindCandidate, HsmFault, CallType
    <3>2. CASE LookupPub(t) \/ ReadLabel(t) \/ ReadPoint(t) \/ ReadChain(t)
      BY <1>1, <3>2 DEF LookupPub, ReadLabel, ReadPoint, ReadChain, CallType
    <3>3. QED
      BY <1>4, <3>1, <3>2
  <2>3. QED
    BY <2>1, <2>2, PairsQuiet DEF RecordsHalves
<1>5. ASSUME NEW t \in Threads, Step(t) PROVE Pairs'
  BY <1>4, <1>5, PairsCreate, PairsRecord, PairsImport, PairsFound DEF Step
<1>6. CASE TsbApply \/ LoseSession \/ Restart
  BY <1>6, PairsEnvironment
<1>7. QED
  BY <1>2, <1>3, <1>5, <1>6 DEF Next

LEMMA PairsInit == Init => Pairs
BY DEF Init, NoCall, EmptyPubMap, Mapped, Pairs, MapOK, RecordsHalves

(* A backend that never finds TSB configured imports nothing.               *)
LEMMA NativeHolds ==
  ASSUME NativeOnly PROVE Spec => []Native
<1>1. Init => Native
  <2>1. Init => ~taproot
    BY DEF Init, NativeOnly, TaprootIn
  <2>2. Init => \A t \in Threads : call[t].pc = "idle"
    BY DEF Init, NoCall
  <2>3. QED
    BY <2>1, <2>2 DEF Init, Native
<1>2. ASSUME Typed, Native, [Next]_vars PROVE Native'
  <2>1. call \in [Threads -> CallType]
    BY <1>2 DEF Typed, TypeOK
  <2>2. CASE UNCHANGED vars
    BY <1>2, <2>2 DEF vars, Native
  <2>3. ASSUME NEW t \in Threads, Start(t) \/ Step(t) \/ Take(t) PROVE Native'
    <3>1. ~Import(t) /\ ~FindPriv(t) /\ ~FindPub(t)
      BY <1>2 DEF Native, Import, FindPriv, FindPub, HsmAt, At
    <3>2. UNCHANGED <<taproot, wire>>
      BY <2>3, <3>1
      DEF Start, DeriveMasterKey, DerivePath, ReadXpub, Take, Step, Generate,
          Derive, Record, LookupPub, ReadLabel, FindCandidate, ReadPoint,
          ReadChain, HsmFault
    <3>3. \A u \in Threads \ {t} : call'[u].pc = call[u].pc
      BY <2>1, <2>3, <3>1
      DEF Start, DeriveMasterKey, DerivePath, ReadXpub, Take, Begin, Step,
          Generate, Derive, Record, LookupPub, ReadLabel, FindCandidate,
          ReadPoint, ReadChain, HsmFault, Return, CallType
    <3>4. call'[t].pc \notin {"import", "findPriv", "findPub"}
      <4>1. CASE DeriveMasterKey(t)
        BY <1>2, <2>1, <4>1 DEF DeriveMasterKey, Begin, NoCall, Native
      <4>2. CASE DerivePath(t)
        BY <2>1, <4>2 DEF DerivePath, Begin, NoCall
      <4>3. CASE ReadXpub(t) \/ Take(t)
        <5>1. CASE ReadXpub(t)
          BY <2>1, <5>1 DEF ReadXpub, Begin, NoCall
        <5>2. CASE Take(t)
          BY <2>1, <5>2 DEF Take, NoCall
        <5>3. QED
          BY <4>3, <5>1, <5>2
      <4>4. CASE Generate(t) \/ Derive(t)
        <5>1. PICK a, b :
                call' = [call EXCEPT ![t].pc = "record", ![t].priv = a, ![t].pub = b]
          BY <4>4 DEF Generate, Derive
        <5>2. QED
          BY <2>1, <5>1 DEF CallType
      <4>5. CASE Record(t)
        BY <2>1, <4>5 DEF Record, Returned, NoCall, CallType
      <4>6. CASE LookupPub(t) \/ ReadLabel(t) \/ ReadPoint(t) \/ ReadChain(t)
        BY <2>1, <4>6 DEF LookupPub, ReadLabel, ReadPoint, ReadChain, CallType
      <4>7. CASE FindCandidate(t) \/ HsmFault(t)
        BY <2>1, <4>7, ReturnFields DEF FindCandidate, HsmFault, CallType
      <4>8. QED
        BY <2>3, <3>1, <4>1, <4>2, <4>3, <4>4, <4>5, <4>6, <4>7 DEF Start, Step
    <3>5. QED
      BY <1>2, <3>2, <3>3, <3>4 DEF Native
  <2>4. CASE TsbApply
    BY <1>2, <2>4 DEF Native, TsbApply
  <2>5. CASE LoseSession
    <3>1. /\ UNCHANGED <<taproot, wire>>
          /\ \A u \in Threads : call'[u].pc = call[u].pc
      BY <2>1, <2>5 DEF LoseSession, CallType
    <3>2. QED
      BY <1>2, <3>1 DEF Native
  <2>6. CASE Restart
    BY <1>2, <2>6 DEF Restart, NativeOnly, TaprootIn, NoCall, Native
  <2>7. QED
    BY <1>2, <2>2, <2>3, <2>4, <2>5, <2>6 DEF Next
<1>3. Typed /\ Native /\ [Next]_vars => Native'
  BY <1>2
<1>4. QED
  BY <1>1, <1>3, Typing, PTL DEF Spec

LEMMA PairsHold ==
  ASSUME LabelsApart \/ NativeOnly PROVE Spec => []Pairs
<1>1. CASE LabelsApart
  <2>1. Typed /\ Sources /\ Pairs /\ [Next]_vars => Pairs'
    BY <1>1, PairsNext
  <2>2. QED
    BY <2>1, PairsInit, SourcesHold, PTL DEF Spec
<1>2. CASE NativeOnly
  <2>1. Typed /\ Sources /\ Native /\ Pairs /\ [Next]_vars => Pairs'
    BY PairsNext
  <2>2. Spec => []Native
    BY <1>2, NativeHolds
  <2>3. QED
    BY <2>1, <2>2, PairsInit, SourcesHold, PTL DEF Spec
<1>3. QED
  BY <1>1, <1>2

(* An EC point read through the map (backend.rs:236) belongs with the chain *)
(* code read from the handle, however many threads record pairs, whatever   *)
(* handles the token issues again and whatever it loses; the outdated       *)
(* entries apart.  Where TSB is configured, no label may have two seeds.    *)
THEOREM MapPairsHalves ==
  ASSUME LabelsApart \/ NativeOnly PROVE Spec => []PairsMatch
<1>1. Pairs => PairsMatch
  BY DEF Pairs, MapOK, IsPrivate, Halves, PairsMatch
<1>2. QED
  BY <1>1, PairsHold, PTL

-----------------------------------------------------------------------------
(***************************************************************************)
(* Which keys the calls for accounts and reloads return, where no label    *)
(* has two seeds.  The inductive invariant, Keys, says what such a call    *)
(* holds and has read while it has its session, and of a point that it     *)
(* read it from its own key's public half, unless the map had no entry for *)
(* an account or an outdated one; chain codes are read from the handle     *)
(* itself and always own.                                                  *)
(***************************************************************************)

Holds(s, h, key) == IsPrivate(s, h) /\ s[h].key = key
Has(s, h, key) == h \in Live(s) /\ s[h].key = key

HoldsKey(s, c) ==
  /\ c.pc = "derive" =>
       c.priv \in Live(s) /\ c.want = Child(s[c.priv].key, c.path)
  /\ c.pc \in LookPcs \cup {"record", "point", "chain"} => Holds(s, c.priv, c.want)
  /\ c.pc \in LookPcs \ {"lookup"} => OfMaster(c) \/ ~Sure(c)
  /\ c.pc = "point" /\ Sure(c) => Has(s, c.pub, c.want)
  /\ c.pc = "chain" /\ Sure(c) => c.point = c.want

KeysOK(s, c) ==
  c.op # "master" =>
    /\ c.pc # "done" /\ ~c.stale => HoldsKey(s, c)
    /\ c.pc = "done" /\ c.res = "ok" /\ c.op # "leaf" =>
         c.chain = c.want /\ (Sure(c) => c.point = c.want)

Keys == \A t \in Threads : KeysOK(store, call[t])

(* The master of a label is that of its only seed.                          *)
LEMMA SourceIsOwn ==
  ASSUME LabelsApart, NEW c, Belongs(c.label, c.want), NEW key, Source(c, key)
  PROVE  key = c.want
<1>1. PICK p \in Real : c.label = p[2] /\ c.want = Master(p[1])
  BY DEF Belongs
<1>2. PICK seed \in SeedsUnder(c.label) : key = Master(seed)
  BY DEF Source
<1>3. PICK q \in Provisionings :
        /\ seed = q[1] /\ q[1] # EmptySeed
        /\ c.label \in {q[2], PubSiblingLabel(q[2])}
  BY <1>2 DEF SeedsUnder
<1>4. q \in Real
  BY <1>3 DEF Real
<1>5. q[1] = p[1]
  BY <1>1, <1>3, <1>4 DEF LabelsApart
<1>6. QED
  BY <1>1, <1>2, <1>3, <1>5

LEMMA KeysKept ==
  ASSUME NEW s, NEW s2, Grown(s, s2), NEW c, KeysOK(s, c)
  PROVE  KeysOK(s2, c)
<1>1. HoldsKey(s, c) => HoldsKey(s2, c)
  BY DEF HoldsKey, Holds, Has, IsPrivate, Grown
<1>2. QED
  BY <1>1 DEF KeysOK

LEMMA KeysQuiet ==
  ASSUME Keys, NEW t \in Threads, KeysOK(store, call'[t]),
         \A u \in Threads \ {t} : call'[u] = call[u], UNCHANGED store
  PROVE  Keys'
BY DEF Keys

(* A master's call, one that ends with an error, and one that ends with     *)
(* nothing to show, have no part in this.                                   *)
LEMMA NoKeys ==
  ASSUME NEW s, NEW c, c.op = "master" \/ (c.pc = "done" /\ (c.res # "ok" \/ c.op = "leaf"))
  PROVE  KeysOK(s, c)
BY DEF KeysOK

LEMMA KeysStart ==
  ASSUME Typed, Keys, NEW t \in Threads, Start(t) \/ Take(t)
  PROVE  Keys'
<1>1. call \in [Threads -> CallType] /\ store \in Store
  BY DEF Typed, TypeOK, Store
<1>2. KeysOK(store, call'[t])
  <2>1. CASE DeriveMasterKey(t)
    <3>1. call'[t].op = "master"
      BY <1>1, <2>1 DEF DeriveMasterKey, Begin, NoCall
    <3>2. QED
      BY <3>1, NoKeys
  <2>2. CASE DerivePath(t)
    <3>1. PICK op \in {"account", "leaf"}, path \in Paths,
               h \in Masters \cup Children :
            /\ op = "account" => h \in Masters
            /\ Begin(t, [NoCall EXCEPT
                           !.op = op, !.path = path, !.priv = h,
                           !.want = Child(store[h].key, path),
                           !.pc = IF path # << >> THEN "derive"
                                  ELSE IF op = "account" THEN "lookup" ELSE "done",
                           !.res = IF path = << >> /\ op = "leaf" THEN "ok"
                                   ELSE None])
      BY <2>2 DEF DerivePath
    <3> DEFINE c == call'[t]
               want == Child(store[h].key, path)
    <3>2. /\ c.op = op /\ c.path = path /\ c.priv = h /\ c.want = want
          /\ c.pc = IF path # << >> THEN "derive"
                    ELSE IF op = "account" THEN "lookup" ELSE "done"
      <4> HIDE DEF want
      <4>1. Begin(t, [NoCall EXCEPT
                        !.op = op, !.path = path, !.priv = h, !.want = want,
                        !.pc = IF path # << >> THEN "derive"
                               ELSE IF op = "account" THEN "lookup" ELSE "done",
                        !.res = IF path = << >> /\ op = "leaf" THEN "ok"
                                ELSE None])
        BY <3>1 DEF want
      <4>2. QED
        BY <1>1, <4>1 DEF Begin, NoCall
    <3>3. h \in Live(store) /\ store[h] \in Object
      BY <1>1 DEF Masters, Children, Live, Store, Maybe
    <3>4. CASE path # << >>
      <4>1. c.pc = "derive"
        BY <3>2, <3>4
      <4>2. h \in Live(store) /\ want = Child(store[h].key, path)
        BY <3>3
      <4> HIDE DEF c, want
      <4>3. KeysOK(store, c)
        BY <3>2, <4>1, <4>2 DEF KeysOK, HoldsKey, LookPcs
      <4>4. QED
        BY <4>3 DEF c
    <3>5. CASE path = << >> /\ op = "account"
      <4>1. want = store[h].key
        <5>1. store[h].key \in Key /\ store[h].key.path \in Seq(Nat)
          BY <3>3 DEF Object, Key
        <5>2. store[h].key.path \o << >> = store[h].key.path
          BY <5>1, ConcatEmptySeq
        <5>3. QED
          BY <3>5, <5>1, <5>2 DEF Child, Key
      <4>2. Holds(store, h, want)
        BY <3>1, <3>5, <4>1 DEF Holds, IsPrivate, Masters
      <4>3. c.pc = "lookup"
        BY <3>2, <3>5
      <4> HIDE DEF c, want
      <4>4. KeysOK(store, c)
        BY <3>2, <4>2, <4>3 DEF KeysOK, HoldsKey, LookPcs
      <4>5. QED
        BY <4>4 DEF c
    <3>6. CASE path = << >> /\ op = "leaf"
      <4>1. c.pc = "done" /\ c.op = "leaf"
        BY <3>2, <3>6
      <4>2. QED
        BY <4>1, NoKeys
    <3>7. QED
      BY <3>4, <3>5, <3>6
  <2>3. CASE ReadXpub(t)
    <3>1. PICK h \in Masters :
            Begin(t, [NoCall EXCEPT !.op = "reload", !.pc = "lookup", !.priv = h,
                                    !.want = store[h].key])
      BY <2>3 DEF ReadXpub
    <3>2. /\ call'[t].op = "reload" /\ call'[t].pc = "lookup"
          /\ call'[t].priv = h /\ call'[t].want = store[h].key
      BY <1>1, <3>1 DEF Begin, NoCall
    <3>3. Holds(store, h, store[h].key)
      BY DEF Holds, IsPrivate, Masters
    <3>4. QED
      BY <3>2, <3>3 DEF KeysOK, HoldsKey, LookPcs
  <2>4. CASE Take(t)
    <3>1. call'[t] = NoCall
      BY <1>1, <2>4 DEF Take
    <3>2. QED
      BY <3>1 DEF NoCall, KeysOK, HoldsKey, LookPcs
  <2>5. QED
    BY <2>1, <2>2, <2>3, <2>4 DEF Start
<1>3. \A u \in Threads \ {t} : call'[u] = call[u]
  BY <1>1 DEF Start, DeriveMasterKey, DerivePath, ReadXpub, Take, Begin
<1>4. UNCHANGED store
  BY DEF Start, DeriveMasterKey, DerivePath, ReadXpub, Take
<1>5. QED
  BY <1>2, <1>3, <1>4, KeysQuiet

(* pub_handle_for: an entry of the map that is not outdated has the other   *)
(* half, and a persisted master's is found by its label.                    *)
LEMMA KeysLookup ==
  ASSUME LabelsApart, Typed, Sources, Pairs, Keys, AccountResolves,
         NEW t \in Threads, LookupPub(t) \/ ReadLabel(t) \/ FindCandidate(t)
  PROVE  Keys'
<1> DEFINE c == call[t]
           d == call'[t]
<1>1. /\ call \in [Threads -> CallType] /\ c \in CallType
      /\ StoreOK(store) /\ CallOK(store, c) /\ KeysOK(store, c)
  BY DEF Typed, TypeOK, Sources, Keys
<1>2. /\ c.pc \in LookPcs /\ c.op \in {"account", "reload"}
      /\ ~c.stale => Holds(store, c.priv, c.want)
      /\ ~c.stale /\ c.pc # "lookup" => OfMaster(c) \/ ~Sure(c)
  <2>1. c.pc \in LookPcs
    BY DEF LookupPub, ReadLabel, FindCandidate, HsmAt, At, LookPcs
  <2>2. c.op \in {"account", "reload"}
    BY <1>1, <2>1 DEF CallOK, ReloadOK
  <2>3. ~c.stale => HoldsKey(store, c)
    BY <1>1, <2>1, <2>2 DEF KeysOK, LookPcs
  <2> HIDE DEF c
  <2>4. QED
    BY <2>1, <2>2, <2>3 DEF HoldsKey
<1>3. \A u \in Threads \ {t} : call'[u] = call[u]
  BY <1>1 DEF LookupPub, ReadLabel, FindCandidate, Return
<1>4. KeysOK(store, d)
  <2>1. CASE LookupPub(t)
    <3>1. c.pc = "lookup" /\ c.priv \in Handles
      BY <2>1 DEF LookupPub, At, Typed, HeldOK
    <3>2. /\ d.pc = (IF pubOf.map[c.priv] # None THEN "point" ELSE "label")
          /\ d.old = (pubOf.map[c.priv] # None /\ c.priv \in outdated)
          /\ d.pub = pubOf.map[c.priv] /\ d.priv = c.priv
          /\ d.op = c.op /\ d.path = c.path /\ d.stale = c.stale
          /\ d.age = c.age /\ d.want = c.want
      BY <1>1, <2>1 DEF LookupPub, Lookup, CallType
    <3>3. CASE pubOf.map[c.priv] # None
      <4>1. ~c.stale /\ ~d.old => Halves(store, c.priv, pubOf.map[c.priv])
        BY <1>2, <3>1, <3>2, <3>3 DEF Pairs, MapOK, Mapped, Holds
      <4>2. d.pc = "point"
        BY <3>2, <3>3
      <4> HIDE DEF c, d
      <4>3. ~d.stale /\ Sure(d) => Has(store, d.pub, d.want)
        BY <1>2, <3>2, <4>1 DEF Sure, Holds, Halves, Has
      <4>4. QED
        BY <1>2, <3>2, <4>2, <4>3 DEF KeysOK, HoldsKey, LookPcs, d
    <3>4. CASE pubOf.map[c.priv] = None
      <4>1. ~(c.age < Cap)
        BY <2>1, <3>4 DEF LookupPub, AccountResolves
      <4>2. d.pc = "label"
        BY <3>2, <3>4
      <4> HIDE DEF c, d
      <4>3. OfMaster(d) \/ ~Sure(d)
        BY <1>2, <3>2, <4>1 DEF OfMaster, Sure
      <4>4. QED
        BY <1>2, <3>2, <4>2, <4>3 DEF KeysOK, HoldsKey, LookPcs, d
    <3>5. QED
      BY <3>3, <3>4
  <2>2. CASE ReadLabel(t)
    <3>1. /\ d.pc = "same" /\ d.op = c.op /\ d.path = c.path /\ d.old = c.old
          /\ d.age = c.age /\ d.want = c.want /\ d.priv = c.priv
      BY <1>1, <2>2 DEF ReadLabel, CallType
    <3>2. ~c.stale /\ c.pc # "lookup"
      BY <2>2 DEF ReadLabel, HsmAt, At
    <3> HIDE DEF c, d
    <3>3. QED
      BY <1>2, <3>1, <3>2 DEF KeysOK, HoldsKey, LookPcs, OfMaster, Sure, d
  <2>3. CASE FindCandidate(t)
    <3>1. c.pc \in {"same", "sibling"} /\ ~c.stale
      BY <2>3 DEF FindCandidate, HsmAt, At
    <3>2. OfMaster(c) => Belongs(c.label, c.want)
      <4>1. OfMaster(c) => IsMaster(store, c.priv, c.label)
        BY <1>1, <3>1 DEF CallOK, ReloadOK
      <4> HIDE DEF c
      <4>2. QED
        BY <1>1, <1>2, <3>1, <4>1 DEF IsMaster, Holds, StoreOK, ObjectOK
    <3>3. ASSUME NEW h \in Live(store), store[h].class = "public",
                 store[h].label \in {c.label, PubSiblingLabel(c.label)},
                 call' = [call EXCEPT ![t].pc = "point", ![t].pub = h]
          PROVE  KeysOK(store, d)
      <4>1. /\ d.pc = "point" /\ d.pub = h
            /\ d.op = c.op /\ d.path = c.path /\ d.old = c.old
            /\ d.age = c.age /\ d.want = c.want /\ d.priv = c.priv
        BY <1>1, <3>3 DEF CallType
      <4>2. OfMaster(c) => Has(store, h, c.want)
        BY <1>1, <3>2, <3>3, FoundIsOwn DEF Has
      <4> HIDE DEF c, d
      <4>3. Sure(d) => Has(store, d.pub, d.want)
        BY <1>2, <3>1, <4>1, <4>2 DEF Sure
      <4>4. QED
        BY <1>2, <3>1, <4>1, <4>3 DEF KeysOK, HoldsKey, LookPcs, d
    <3>4. CASE call' = [call EXCEPT ![t].pc = "sibling"]
      <4>1. /\ d.pc = "sibling" /\ d.op = c.op /\ d.path = c.path /\ d.old = c.old
            /\ d.age = c.age /\ d.want = c.want /\ d.priv = c.priv
        BY <1>1, <3>4 DEF CallType
      <4> HIDE DEF c, d
      <4>2. QED
        BY <1>2, <3>1, <4>1 DEF KeysOK, HoldsKey, LookPcs, OfMaster, Sure, d
    <3>5. CASE Return(t, "noPub")
      BY <1>1, <3>5, ReturnFields, NoKeys
    <3>6. QED
      BY <2>3, <3>3, <3>4, <3>5 DEF FindCandidate, Matching
  <2>4. QED
    BY <2>1, <2>2, <2>3
<1>5. UNCHANGED store
  BY DEF LookupPub, ReadLabel, FindCandidate
<1>6. QED
  BY <1>3, <1>4, <1>5, KeysQuiet

(* build_xpub, and the failure of any call to the token.                    *)
LEMMA KeysRead ==
  ASSUME Typed, Keys, NEW t \in Threads,
         ReadPoint(t) \/ ReadChain(t) \/ HsmFault(t)
  PROVE  Keys'
<1> DEFINE c == call[t]
           d == call'[t]
<1>1. call \in [Threads -> CallType] /\ c \in CallType /\ KeysOK(store, c)
  BY DEF Typed, TypeOK, Keys
<1>2. /\ \A u \in Threads \ {t} : call'[u] = call[u]
      /\ UNCHANGED store
  BY <1>1 DEF ReadPoint, ReadChain, HsmFault, Return
<1>3. KeysOK(store, d)
  <2>1. CASE ReadPoint(t)
    <3>1. /\ c.pc = "point" /\ ~c.stale
          /\ d.pc = "chain" /\ d.point = store[c.pub].key
          /\ d.op = c.op /\ d.path = c.path /\ d.old = c.old
          /\ d.age = c.age /\ d.want = c.want /\ d.priv = c.priv
      BY <1>1, <2>1 DEF ReadPoint, HsmAt, At, CallType
    <3> HIDE DEF c, d
    <3>2. QED
      BY <1>1, <3>1 DEF KeysOK, HoldsKey, LookPcs, Sure, Has, d
  <2>2. CASE ReadChain(t)
    <3>1. /\ c.pc = "chain" /\ ~c.stale
          /\ d.pc = "done" /\ d.chain = store[c.priv].key /\ d.point = c.point
          /\ d.op = c.op /\ d.path = c.path /\ d.old = c.old
          /\ d.age = c.age /\ d.want = c.want
      BY <1>1, <2>2 DEF ReadChain, HsmAt, At, CallType
    <3> HIDE DEF c, d
    <3>2. QED
      BY <1>1, <3>1 DEF KeysOK, HoldsKey, Holds, Sure, d
  <2>3. CASE HsmFault(t)
    BY <1>1, <2>3, ReturnFields, NoKeys DEF HsmFault
  <2>4. QED
    BY <2>1, <2>2, <2>3
<1>4. QED
  BY <1>2, <1>3, KeysQuiet

LEMMA KeysCreate ==
  ASSUME Typed, Sources, Keys, NEW t \in Threads, Generate(t) \/ Derive(t)
  PROVE  Keys'
<1> DEFINE c == call[t]
           d == call'[t]
<1>1. call \in [Threads -> CallType] /\ c \in CallType /\ KeysOK(store, c)
  BY DEF Typed, TypeOK, Keys
<1>2. ASSUME NEW a, NEW b, NEW key, Created(store, store', a, b, key),
             call' = [call EXCEPT ![t].pc = "record", ![t].priv = a, ![t].pub = b],
             c.op # "master" /\ ~c.stale => key = c.want
      PROVE  Keys'
  <2>1. /\ d.pc = "record" /\ d.priv = a /\ d.op = c.op /\ d.want = c.want
        /\ d.stale = c.stale
        /\ \A u \in Threads \ {t} : call'[u] = call[u]
    BY <1>1, <1>2 DEF CallType
  <2>2. Holds(store', a, key)
    BY <1>2 DEF Created, Holds, IsPrivate
  <2>3. KeysOK(store', d)
    <3> HIDE DEF c, d
    <3>1. QED
      BY <1>2, <2>1, <2>2 DEF KeysOK, HoldsKey, LookPcs
  <2>4. \A u \in Threads : KeysOK(store', call[u])
    <3>1. PICK s : s = store'
      OBVIOUS
    <3>2. Grown(store, s) /\ \A u \in Threads : KeysOK(store, call[u])
      BY <1>2, <3>1 DEF Created, Keys
    <3>3. \A u \in Threads : KeysOK(s, call[u])
      BY <3>2, KeysKept
    <3>4. QED
      BY <3>1, <3>3
  <2>5. QED
    BY <2>1, <2>3, <2>4 DEF Keys
<1>3. CASE Generate(t)
  <2>1. c.op = "master"
    BY <1>3, GeneratedPair
  <2>2. PICK key : key = c.want
    OBVIOUS
  <2>3. QED
    BY <1>2, <1>3, <2>1, <2>2, GeneratedPair
<1>4. CASE Derive(t)
  <2>1. PICK key : key = Child(store[c.priv].key, c.path)
    OBVIOUS
  <2>2. PICK a \in Free, b \in Free :
          /\ Created(store, store', a, b, key)
          /\ call' = [call EXCEPT ![t].pc = "record", ![t].priv = a, ![t].pub = b]
    BY <1>4, <2>1, DerivedPair
  <2>3. c.op # "master" /\ ~c.stale => key = c.want
    <3>1. c.pc = "derive"
      BY <1>4 DEF Derive, HsmAt, At
    <3>2. QED
      BY <1>1, <2>1, <3>1 DEF KeysOK, HoldsKey
  <2>4. QED
    BY <1>2, <2>2, <2>3
<1>5. QED
  BY <1>3, <1>4

(* The broker's objects change nothing for the calls that look for others.  *)
LEMMA KeysImport ==
  ASSUME Typed, Sources, Keys,
         NEW t \in Threads, Import(t) \/ FindPriv(t) \/ FindPub(t)
  PROVE  Keys'
<1>1. call \in [Threads -> CallType] /\ StoreOK(store)
  BY DEF Typed, TypeOK, Sources
<1>2. /\ call[t].pc \in {"import", "findPriv", "findPub"} /\ CallOK(store, call[t])
      /\ \A u \in Threads \ {t} : call'[u] = call[u]
  BY <1>1 DEF Import, FindPriv, FindPub, HsmAt, At, Return, Sources
<1>3. call[t].op = "master" /\ Belongs(call[t].label, call[t].want)
  BY <1>2 DEF CallOK, MasterOK, MasterPcs
<1>4. call'[t].op = "master"
  BY <1>1, <1>3, ReturnFields DEF Import, FindPriv, FindPub, CallType
<1>5. Grown(store, store')
  <2>1. CASE Imported(call[t].label, call[t].want)
    <3>1. PICK label, key : label = call[t].label /\ key = call[t].want
      OBVIOUS
    <3>2. \E a, b \in Free : Created(store, store', a, b, key)
      BY <1>1, <1>3, <2>1, <3>1, ImportedPair
    <3>3. QED
      BY <3>2 DEF Created
  <2>2. CASE UNCHANGED store
    BY <2>2 DEF Grown
  <2>3. QED
    BY <2>1, <2>2 DEF Import, FindPriv, FindPub
<1>6. PICK s : s = store'
  OBVIOUS
<1>7. \A u \in Threads : KeysOK(s, call[u])
  BY <1>5, <1>6, KeysKept DEF Keys
<1>8. KeysOK(store', call'[t])
  BY <1>4, NoKeys
<1>9. QED
  BY <1>2, <1>6, <1>7, <1>8 DEF Keys

LEMMA KeysRecord ==
  ASSUME Typed, Sources, Keys, NEW t \in Threads, Record(t)
  PROVE  Keys'
<1> DEFINE c == call[t]
           d == call'[t]
<1>1. /\ call \in [Threads -> CallType] /\ c \in CallType /\ KeysOK(store, c)
      /\ CallOK(store, c) /\ c.pc = "record" /\ UNCHANGED store
  BY DEF Typed, TypeOK, Keys, Sources, Record, At
<1>2. KeysOK(store, d)
  <2>1. CASE c.op = "master"
    <3>1. d = [c EXCEPT !.pc = "point"]
      BY <1>1, <2>1 DEF Record
    <3>2. d.op = "master"
      BY <1>1, <2>1, <3>1 DEF CallType
    <3>3. QED
      BY <3>2, NoKeys
  <2>2. CASE c.op = "account"
    <3>1. PICK age : d = [c EXCEPT !.pc = "lookup", !.pub = None, !.age = age]
      BY <1>1, <2>2 DEF Record
    <3>2. /\ d.pc = "lookup" /\ d.op = c.op /\ d.stale = c.stale
          /\ d.want = c.want /\ d.priv = c.priv
      BY <1>1, <3>1 DEF CallType
    <3> HIDE DEF c, d
    <3>3. QED
      BY <1>1, <2>2, <3>2 DEF KeysOK, HoldsKey, LookPcs, d
  <2>3. CASE c.op = "leaf"
    <3>1. d = Returned(c, "ok")
      BY <1>1, <2>3 DEF Record
    <3>2. d.pc = "done" /\ d.op = "leaf"
      BY <2>3, <3>1 DEF Returned, NoCall
    <3>3. QED
      BY <3>2, NoKeys
  <2>4. c.op \in {"master", "account", "leaf"}
    BY <1>1 DEF CallOK, ReloadOK
  <2>5. QED
    BY <2>1, <2>2, <2>3, <2>4
<1>3. ASSUME NEW u \in Threads, u # t PROVE KeysOK(store, call'[u])
  <2> DEFINE b == call[u]
             e == call'[u]
  <2>1. PICK age : e = [b EXCEPT !.age = age] /\ (b.pc # "lookup" => age = b.age)
    BY <1>3 DEF Record, At
  <2>2. b \in CallType /\ KeysOK(store, b)
    BY <1>1 DEF Keys
  <2>3. CASE b.pc # "lookup"
    <3>1. e = b
      BY <2>1, <2>2, <2>3 DEF CallType
    <3>2. QED
      BY <2>2, <3>1
  <2>4. CASE b.pc = "lookup"
    <3>1. /\ e.pc = "lookup" /\ e.op = b.op /\ e.stale = b.stale
          /\ e.want = b.want /\ e.priv = b.priv
      BY <2>1, <2>2, <2>4 DEF CallType
    <3> HIDE DEF b, e
    <3>2. QED
      BY <2>2, <2>4, <3>1 DEF KeysOK, HoldsKey, LookPcs, e
  <2>5. QED
    BY <2>3, <2>4
<1>4. QED
  BY <1>1, <1>2, <1>3 DEF Keys

LEMMA KeysEnvironment ==
  ASSUME Typed, Sources, Keys, TsbApply \/ LoseSession \/ Restart
  PROVE  Keys'
<1>1. /\ call \in [Threads -> CallType] /\ StoreOK(store)
      /\ \A req \in wire : Belongs(req.label, req.key)
  BY DEF Typed, TypeOK, Sources
<1>2. CASE TsbApply
  <2>1. PICK req \in wire : Imported(req.label, req.key) \/ UNCHANGED store
    BY <1>2 DEF TsbApply
  <2>2. Grown(store, store')
    <3>1. CASE Imported(req.label, req.key)
      <4>1. PICK label, key : label = req.label /\ key = req.key
        OBVIOUS
      <4>2. Belongs(label, key) /\ Imported(label, key)
        BY <1>1, <3>1, <4>1
      <4>3. \E a, b \in Free : Created(store, store', a, b, key)
        BY <1>1, <4>2, ImportedPair
      <4>4. QED
        BY <4>3 DEF Created
    <3>2. QED
      BY <2>1, <3>1 DEF Grown
  <2>3. PICK s : s = store'
    OBVIOUS
  <2>4. \A u \in Threads : KeysOK(s, call[u])
    BY <2>2, <2>3, KeysKept DEF Keys
  <2>5. QED
    BY <1>2, <2>3, <2>4 DEF TsbApply, Keys
<1>3. CASE LoseSession
  <2>1. ASSUME NEW u \in Threads PROVE KeysOK(store', call'[u])
    <3> DEFINE c == call[u]
               d == call'[u]
    <3>1. c \in CallType /\ KeysOK(store, c)
      BY <1>1 DEF Keys
    <3>2. d = [c EXCEPT !.stale = @ \/ Busy(u)]
      BY <1>3 DEF LoseSession
    <3>3. /\ d.op = c.op /\ d.pc = c.pc /\ d.res = c.res /\ d.path = c.path
          /\ d.want = c.want /\ d.point = c.point /\ d.chain = c.chain
          /\ d.age = c.age /\ d.old = c.old
          /\ c.pc \notin {"idle", "done"} => d.stale
      BY <3>1, <3>2 DEF CallType, Busy
    <3> HIDE DEF c, d
    <3>4. CASE c.pc = "idle"
      BY <3>3, <3>4 DEF KeysOK, HoldsKey, LookPcs, d
    <3>5. CASE c.pc # "idle"
      BY <3>1, <3>3, <3>5 DEF KeysOK, Sure, d
    <3>6. QED
      BY <3>4, <3>5
  <2>2. QED
    BY <2>1 DEF Keys
<1>4. CASE Restart
  BY <1>4 DEF Restart, NoCall, Keys, KeysOK, HoldsKey, LookPcs
<1>5. QED
  BY <1>2, <1>3, <1>4

LEMMA KeysInit == Init => Keys
BY DEF Init, NoCall, Keys, KeysOK, HoldsKey, LookPcs

LEMMA KeysNext ==
  ASSUME LabelsApart, Typed, AccountResolves, Sources, Pairs, Keys, [Next]_vars
  PROVE  Keys'
<1>1. CASE UNCHANGED vars
  BY <1>1 DEF vars, Keys
<1>2. ASSUME NEW t \in Threads, Start(t) \/ Take(t) PROVE Keys'
  BY <1>2, KeysStart
<1>3. ASSUME NEW t \in Threads, Step(t) PROVE Keys'
  BY <1>3, KeysCreate, KeysRecord, KeysImport, KeysLookup, KeysRead DEF Step
<1>4. CASE TsbApply \/ LoseSession \/ Restart
  BY <1>4, KeysEnvironment
<1>5. QED
  BY <1>1, <1>2, <1>3, <1>4 DEF Next

(* What the calls hold and have read is of the keys they are asked about.   *)
LEMMA KeysHold ==
  ASSUME LabelsApart PROVE Spec => [](Typed /\ Sources /\ Pairs /\ Keys)
<1>1. Typed /\ AccountResolves /\ Sources /\ Pairs /\ Keys /\ [Next]_vars => Keys'
  BY KeysNext
<1>2. Spec => []Pairs
  BY PairsHold
<1>3. QED
  BY <1>1, <1>2, KeysInit, SourcesHold, AccountsResolve, PTL DEF Spec

(* The xpub of a persisted master, and of an account whose entry had no     *)
(* chance of being evicted, has both halves of the key asked about          *)
(* (backend.rs:107-118), unless the map's entry was outdated: the token had *)
(* issued the handle again and the pair now behind it was not recorded, or  *)
(* an old one was over it.                                                  *)
THEOREM XpubsAreTheirKeys ==
  ASSUME LabelsApart PROVE Spec => []XpubIsOwn
<1>1. Keys => XpubIsOwn
  BY DEF Keys, KeysOK, XpubIsOwn
<1>2. QED
  BY <1>1, KeysHold, PTL
-----------------------------------------------------------------------------
(***************************************************************************)
(* A token that issues no handle again while this process remembers it     *)
(* leaves the map no outdated entry of a handle that is there: what is     *)
(* said above of the map and of xpubs then has no exception.               *)
(***************************************************************************)

NoReissue == Reissue = FALSE

Current ==
  /\ outdated \cap Live(store) = {}
  /\ \A t \in Threads :
       call[t].pc = "record" /\ call[t].op # "master" =>
         IF call[t].stale THEN call[t].priv \notin Live(store)
         ELSE call[t].priv \in Live(store) => ~store[call[t].priv].token

(* A pair is created at handles nobody remembers.                           *)
LEMMA CurrentGrown ==
  ASSUME NoReissue, Typed, Current, NEW a \in Free, NEW b \in Free, NEW key,
         Created(store, store', a, b, key),
         outdated' = outdated \cup ({a} \cap Mapped(pubOf))
  PROVE  /\ outdated' \cap Live(store') = {}
         /\ \A u \in Threads : call[u].priv \notin {a, b}
         /\ \A h \in Handles \ {a, b} :
              /\ h \in Live(store') <=> h \in Live(store)
              /\ h \in Live(store) => store'[h] = store[h]
<1>1. \A h \in Free : h \notin Mapped(pubOf) /\ \A u \in Threads : call[u].priv # h
  BY DEF NoReissue, Free, Remembered, InMap
<1>2. outdated' = outdated /\ outdated \subseteq Mapped(pubOf)
  BY <1>1 DEF Typed, TypeOK
<1>3. \A h \in Handles \ {a, b} :
        /\ h \in Live(store') <=> h \in Live(store)
        /\ h \in Live(store) => store'[h] = store[h]
  BY DEF Created, Grown
<1>4. outdated' \cap Live(store') = {}
  BY <1>1, <1>2, <1>3 DEF Current, Live
<1>5. QED
  BY <1>1, <1>3, <1>4

LEMMA CurrentNext ==
  ASSUME NoReissue, Typed, Sources, Current, [Next]_vars
  PROVE  Current'
<1>1. call \in [Threads -> CallType] /\ StoreOK(store)
  BY DEF Typed, TypeOK, Sources
<1>2. CASE UNCHANGED vars
  BY <1>2 DEF vars, Current
<1>3. ASSUME NEW t \in Threads, call'[t].pc # "record" \/ call'[t].op = "master",
             \A u \in Threads \ {t} : call'[u] = call[u],
             UNCHANGED <<store, outdated>>
      PROVE  Current'
  BY <1>3 DEF Current
<1>4. ASSUME NEW t \in Threads, Start(t) \/ Take(t) PROVE Current'
  <2>1. /\ \A u \in Threads \ {t} : call'[u] = call[u]
        /\ UNCHANGED <<store, outdated>>
    BY <1>1, <1>4 DEF Start, DeriveMasterKey, DerivePath, ReadXpub, Take, Begin
  <2>2. call'[t].pc # "record"
    <3>1. CASE DeriveMasterKey(t)
      BY <1>1, <3>1 DEF DeriveMasterKey, Begin, NoCall
    <3>2. CASE DerivePath(t)
      BY <1>1, <3>2 DEF DerivePath, Begin, NoCall
    <3>3. CASE ReadXpub(t)
      BY <1>1, <3>3 DEF ReadXpub, Begin, NoCall
    <3>4. CASE Take(t)
      BY <1>1, <3>4 DEF Take, NoCall
    <3>5. QED
      BY <1>4, <3>1, <3>2, <3>3, <3>4 DEF Start
  <2>3. QED
    BY <1>3, <2>1, <2>2
<1>5. ASSUME NEW t \in Threads,
             \/ FindPriv(t) \/ LookupPub(t) \/ ReadLabel(t) \/ FindCandidate(t)
             \/ ReadPoint(t) \/ ReadChain(t) \/ HsmFault(t)
      PROVE  Current'
  <2>1. /\ \A u \in Threads \ {t} : call'[u] = call[u]
        /\ UNCHANGED <<store, outdated>>
    BY <1>1, <1>5
    DEF FindPriv, LookupPub, ReadLabel, FindCandidate, ReadPoint, ReadChain,
        HsmFault, Return
  <2>2. call'[t].pc # "record"
    <3>1. CASE FindPriv(t) \/ FindCandidate(t) \/ HsmFault(t)
      BY <1>1, <3>1, ReturnFields DEF FindPriv, FindCandidate, HsmFault, CallType
    <3>2. CASE LookupPub(t) \/ ReadLabel(t) \/ ReadPoint(t) \/ ReadChain(t)
      BY <1>1, <3>2 DEF LookupPub, ReadLabel, ReadPoint, ReadChain, CallType
    <3>3. QED
      BY <1>5, <3>1, <3>2
  <2>3. QED
    BY <1>3, <2>1, <2>2
<1>6. ASSUME NEW t \in Threads, FindPub(t) PROVE Current'
  <2>1. /\ \A u \in Threads \ {t} : call'[u] = call[u]
        /\ UNCHANGED <<store, outdated>>
    BY <1>1, <1>6 DEF FindPub, Return
  <2>2. call[t].op = "master"
    <3>1. CallOK(store, call[t]) /\ call[t].pc = "findPub"
      BY <1>6 DEF Sources, FindPub, HsmAt, At
    <3>2. QED
      BY <3>1 DEF CallOK, MasterOK
  <2>3. call'[t].op = "master"
    BY <1>1, <1>6, <2>2, ReturnFields DEF FindPub, CallType
  <2>4. QED
    BY <1>3, <2>1, <2>3
<1>7. ASSUME NEW a \in Free, NEW b \in Free, NEW key,
             Created(store, store', a, b, key),
             outdated' = outdated \cup ({a} \cap Mapped(pubOf)),
             NEW t \in Threads, \A u \in Threads \ {t} : call'[u] = call[u],
             call'[t].pc = "record" /\ call'[t].op # "master" =>
               ~call'[t].stale /\ call'[t].priv = a /\ ~store'[a].token
      PROVE  Current'
  <2>1. /\ outdated' \cap Live(store') = {}
        /\ \A u \in Threads : call[u].priv \notin {a, b}
        /\ \A h \in Handles \ {a, b} :
             /\ h \in Live(store') <=> h \in Live(store)
             /\ h \in Live(store) => store'[h] = store[h]
    BY <1>7, CurrentGrown
  <2>2. ASSUME NEW u \in Threads \ {t}, call'[u].pc = "record", call'[u].op # "master"
        PROVE  IF call'[u].stale THEN call'[u].priv \notin Live(store')
               ELSE call'[u].priv \in Live(store') => ~store'[call'[u].priv].token
    <3>1. call'[u] = call[u] /\ call[u].priv \in Handles \ {a, b}
      BY <1>7, <2>1, <2>2 DEF Typed, HeldOK
    <3>2. QED
      BY <2>1, <2>2, <3>1 DEF Current
  <2>3. QED
    BY <1>7, <2>1, <2>2 DEF Current
<1>8. ASSUME NEW t \in Threads, Generate(t) PROVE Current'
  <2>1. PICK key : key = call[t].want
    OBVIOUS
  <2>2. PICK a \in Free, b \in Free :
          /\ Created(store, store', a, b, key)
          /\ outdated' = outdated \cup ({a} \cap Mapped(pubOf))
          /\ call' = [call EXCEPT ![t].pc = "record", ![t].priv = a, ![t].pub = b]
    BY <1>8, <2>1, GeneratedPair
  <2>3. call[t].op = "master"
    BY <1>8, GeneratedPair
  <2>4. call'[t].op = "master" /\ \A u \in Threads \ {t} : call'[u] = call[u]
    BY <1>1, <2>2, <2>3 DEF CallType
  <2>5. QED
    BY <1>7, <2>2, <2>4
<1>9. ASSUME NEW t \in Threads, Derive(t) PROVE Current'
  <2>1. PICK a \in Free, b \in Free :
          /\ FreePair(a, b)
          /\ store' = WithPair(store, a, b,
               KeyObject("private", Child(store[call[t].priv].key, call[t].path),
                         NoLabel, FALSE, FALSE),
               KeyObject("public", Child(store[call[t].priv].key, call[t].path),
                         NoLabel, FALSE, FALSE))
          /\ call' = [call EXCEPT ![t].pc = "record", ![t].priv = a, ![t].pub = b]
    BY <1>9 DEF Derive
  <2>2. PICK key : key = Child(store[call[t].priv].key, call[t].path)
    OBVIOUS
  <2>3. PICK c \in Free, d \in Free :
          /\ Created(store, store', c, d, key)
          /\ outdated' = outdated \cup ({c} \cap Mapped(pubOf))
          /\ call' = [call EXCEPT ![t].pc = "record", ![t].priv = c, ![t].pub = d]
    BY <1>9, <2>2, DerivedPair
  <2>4. /\ call'[t].priv = a /\ call'[t].priv = c /\ ~call'[t].stale
        /\ \A u \in Threads \ {t} : call'[u] = call[u]
    BY <1>1, <1>9, <2>1, <2>3 DEF Derive, HsmAt, CallType
  <2>5. ~store'[a].token
    BY <2>1 DEF WithPair, KeyObject, FreePair, Free, Typed, TypeOK
  <2>6. QED
    BY <1>7, <2>3, <2>4, <2>5
<1>10. ASSUME NEW t \in Threads, Import(t) PROVE Current'
  <2>1. call'[t].pc = "findPriv" /\ \A u \in Threads \ {t} : call'[u] = call[u]
    <3>1. PICK imp : call' = [call EXCEPT ![t].pc = "findPriv", ![t].imp = imp]
      BY <1>10 DEF Import
    <3>2. QED
      BY <1>1, <3>1 DEF CallType
  <2>2. CASE Imported(call[t].label, call[t].want)
    <3>1. PICK label, key : label = call[t].label /\ key = call[t].want
      OBVIOUS
    <3>2. CallOK(store, call[t]) /\ call[t].pc = "import"
      BY <1>10 DEF Sources, Import, At
    <3>3. Belongs(label, key)
      BY <3>1, <3>2 DEF CallOK, MasterOK, MasterPcs
    <3>4. PICK a \in Free, b \in Free :
            /\ Created(store, store', a, b, key)
            /\ outdated' = outdated \cup ({a} \cap Mapped(pubOf))
      BY <1>1, <2>2, <3>1, <3>3, ImportedPair
    <3>5. QED
      BY <1>7, <2>1, <3>4
  <2>3. CASE UNCHANGED <<store, outdated>>
    BY <1>3, <2>1, <2>3
  <2>4. QED
    BY <1>10, <2>2, <2>3 DEF Import
<1>11. ASSUME NEW t \in Threads, Record(t) PROVE Current'
  <2> DEFINE c == call[t]
             late == c.stale /\ c.op # "master"
  <2>1. /\ c.pc = "record" /\ UNCHANGED store
        /\ outdated' = Mapped(pubOf') \cap
             (IF late THEN outdated \cup {c.priv} ELSE outdated \ {c.priv})
    BY <1>11 DEF Record, At
  <2>2. late => c.priv \notin Live(store)
    BY <2>1 DEF Current
  <2>3. outdated' \cap Live(store') = {}
    BY <2>1, <2>2 DEF Current
  <2>4. call'[t].pc # "record"
    <3>1. c \in CallType
      BY <1>1
    <3>2. QED
      BY <1>11, <3>1 DEF Record, Returned, NoCall, CallType
  <2>5. ASSUME NEW u \in Threads \ {t}
        PROVE  /\ call'[u].pc = call[u].pc /\ call'[u].op = call[u].op
               /\ call'[u].stale = call[u].stale /\ call'[u].priv = call[u].priv
    BY <1>1, <1>11 DEF Record, CallType
  <2> HIDE DEF c, late
  <2>6. QED
    BY <2>1, <2>3, <2>4, <2>5 DEF Current
<1>12. CASE TsbApply
  <2>1. PICK req \in wire :
          Imported(req.label, req.key) \/ UNCHANGED <<store, outdated>>
    BY <1>12 DEF TsbApply
  <2>2. UNCHANGED call
    BY <1>12 DEF TsbApply
  <2>3. CASE Imported(req.label, req.key)
    <3>1. PICK label, key : label = req.label /\ key = req.key
      OBVIOUS
    <3>2. Belongs(label, key) /\ Imported(label, key)
      BY <2>3, <3>1 DEF Sources
    <3>3. PICK a \in Free, b \in Free :
            /\ Created(store, store', a, b, key)
            /\ outdated' = outdated \cup ({a} \cap Mapped(pubOf))
      BY <1>1, <3>2, ImportedPair
    <3>4. /\ outdated' \cap Live(store') = {}
          /\ \A u \in Threads : call[u].priv \notin {a, b}
          /\ \A h \in Handles \ {a, b} :
               /\ h \in Live(store') <=> h \in Live(store)
               /\ h \in Live(store) => store'[h] = store[h]
      BY <3>3, CurrentGrown
    <3>5. \A u \in Threads : call[u].pc = "record" => call[u].priv \in Handles \ {a, b}
      BY <3>4 DEF Typed, HeldOK
    <3>6. QED
      BY <2>2, <3>4, <3>5 DEF Current
  <2>4. CASE UNCHANGED <<store, outdated>>
    BY <2>2, <2>4 DEF Current
  <2>5. QED
    BY <2>1, <2>3, <2>4
<1>13. CASE LoseSession
  <2>1. store' = TokenObjects(store) /\ UNCHANGED outdated
    BY <1>13 DEF LoseSession
  <2>2. \A h : h \in Live(store') =>
          h \in Live(store) /\ store'[h] = store[h] /\ store[h].token
    BY <2>1 DEF TokenObjects, Live
  <2>3. ASSUME NEW u \in Threads, call'[u].pc = "record", call'[u].op # "master"
        PROVE  call'[u].priv \notin Live(store')
    <3>1. call[u] \in CallType /\ call'[u] = [call[u] EXCEPT !.stale = @ \/ Busy(u)]
      BY <1>1, <1>13 DEF LoseSession
    <3>2. /\ call'[u].pc = call[u].pc /\ call'[u].op = call[u].op
          /\ call'[u].priv = call[u].priv
      BY <3>1 DEF CallType
    <3>3. QED
      BY <2>2, <2>3, <3>2 DEF Current
  <2>4. QED
    BY <2>1, <2>2, <2>3 DEF Current
<1>14. CASE Restart
  BY <1>14 DEF Restart, NoCall, Current
<1>15. QED
  BY <1>2, <1>4, <1>5, <1>6, <1>8, <1>9, <1>10, <1>11, <1>12, <1>13, <1>14
  DEF Next, Step

(* On a token that issues no handle this process remembers, every private   *)
(* key of the map that is there has its other half at the handle it maps to.*)
THEOREM MapIsCurrent ==
  ASSUME NoReissue, LabelsApart \/ NativeOnly
  PROVE  Spec => [](\A h \in Mapped(pubOf) :
                      IsPrivate(store, h) => Halves(store, h, pubOf.map[h]))
<1>1. Init => Current
  BY DEF Init, NoCall, Current
<1>2. Typed /\ Sources /\ Current /\ [Next]_vars => Current'
  BY CurrentNext
<1>3. Pairs /\ Current =>
        \A h \in Mapped(pubOf) : IsPrivate(store, h) => Halves(store, h, pubOf.map[h])
  BY DEF Pairs, MapOK, Current, IsPrivate
<1>4. QED
  BY <1>1, <1>2, <1>3, PairsHold, SourcesHold, PTL DEF Spec
=============================================================================
