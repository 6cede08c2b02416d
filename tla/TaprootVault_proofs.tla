------------------------ MODULE TaprootVault_proofs -------------------------
(***************************************************************************)
(* Theorems about TaprootVault: the masters that the PKCS#11 backend of a  *)
(* fleet with TSB returns are registered with TSB, and what TSB signs with *)
(* by name is the leaf of the account the vault was built with over        *)
(* PKCS#11.                                                                *)
(***************************************************************************)
EXTENDS TaprootVault, SecurosysBackend_proofs

-----------------------------------------------------------------------------
(***************************************************************************)
(* A master that a TSB-configured SecurosysBackend returns is registered   *)
(* with TSB: on top of the invariant Sources, what two labels tell apart.  *)
(* A native master's public half is beside its label, so a public key found*)
(* under the label itself, the only one the search of an import accepts,   *)
(* was put there by the broker together with its private half.             *)
(***************************************************************************)

MasterLabel(label) == \E p \in Real : label = p[2]

Derivable(s, label) ==
  \E h \in Matching(s, "private", label) : s[h].tsb

PublicsOK(s) ==
  \A h \in Live(s) :
    s[h].class = "public" /\ MasterLabel(s[h].label) => Derivable(s, s[h].label)

(* A call for a master of a backend with TSB goes through the import.       *)
ImportedOK(s, c) ==
  c.op = "master" =>
    /\ c.pc # "gen"
    /\ c.pc \in {"record", "point", "chain"} => Derivable(s, c.label)

Imports ==
  /\ PublicsOK(store)
  /\ taproot => \A t \in Threads : ImportedOK(store, call[t])

(* What is derivable stays so.                                              *)
Stays(s, s2) ==
  \A label : label # NoLabel /\ Derivable(s, label) => Derivable(s2, label)

-----------------------------------------------------------------------------
(* The token.                                                               *)

LEMMA PairAdded ==
  ASSUME NEW s \in Store, PublicsOK(s), NEW a \in Handles \ Live(s),
         NEW b \in Handles \ Live(s), a # b, NEW o1 \in Object,
         NEW o2 \in Object, o1.class = "private",
         MasterLabel(o2.label) => o1.label = o2.label /\ o1.tsb
  PROVE  LET s2 == WithPair(s, a, b, o1, o2) IN PublicsOK(s2) /\ Stays(s, s2)
<1> DEFINE s2 == WithPair(s, a, b, o1, o2)
<1>1. /\ s2[a] = o1 /\ s2[b] = o2 /\ a \in Live(s2)
      /\ \A h \in Handles \ {a, b} : s2[h] = s[h]
      /\ \A h \in Live(s) : h \in Live(s2) /\ s2[h] = s[h]
  BY NoneIsNoObject DEF WithPair, Store, Live
<1> HIDE DEF s2
<1>2. \A label : Derivable(s, label) => Derivable(s2, label)
  BY <1>1 DEF Derivable, Matching
<1>3. ASSUME NEW h \in Live(s2), s2[h].class = "public", MasterLabel(s2[h].label)
      PROVE  Derivable(s2, s2[h].label)
  <2>1. CASE h = a
    BY <1>1, <1>3, <2>1
  <2>2. CASE h = b
    BY <1>1, <1>3, <2>2 DEF Derivable, Matching
  <2>3. CASE h \notin {a, b}
    BY <1>1, <1>2, <1>3, <2>3 DEF PublicsOK, Live
  <2>4. QED
    BY <2>1, <2>2, <2>3
<1>4. QED
  BY <1>2, <1>3 DEF PublicsOK, Stays, s2

LEMMA SessionGone ==
  ASSUME NEW s \in Store, StoreOK(s), PublicsOK(s)
  PROVE  LET s2 == TokenObjects(s) IN PublicsOK(s2) /\ Stays(s, s2)
<1> DEFINE s2 == TokenObjects(s)
<1>1. \A h \in Live(s2) : h \in Live(s) /\ s2[h] = s[h]
  BY DEF TokenObjects, Live
<1>2. \A h \in Live(s) : s[h].label # NoLabel => h \in Live(s2) /\ s2[h] = s[h]
  BY DEF TokenObjects, Live, StoreOK, ObjectOK
<1> HIDE DEF s2
<1>3. Stays(s, s2)
  BY <1>2 DEF Stays, Derivable, Matching
<1>4. \A label : MasterLabel(label) => label # NoLabel
  BY ProvisioningsAssumption DEF MasterLabel, Real
<1>5. PublicsOK(s2)
  BY <1>1, <1>3, <1>4 DEF PublicsOK, Stays
<1>6. QED
  BY <1>3, <1>5 DEF s2

(* No step takes a registered master away, or puts a public key under a     *)
(* label that has none.                                                     *)
LEMMA TokenSteps ==
  ASSUME LabelsApart, Typed, Sources, PublicsOK(store), [Next]_vars
  PROVE  PublicsOK(store') /\ Stays(store, store')
<1>1. /\ store \in Store /\ call \in [Threads -> CallType] /\ StoreOK(store)
      /\ \A u \in Threads : CallOK(store, call[u])
      /\ \A req \in wire : Belongs(req.label, req.key)
  BY DEF Typed, TypeOK, Store, Sources
<1>2. CASE store' = store
  BY <1>2 DEF Stays
<1>3. CASE store' = TokenObjects(store)
  BY <1>1, <1>3, SessionGone
<1>4. ASSUME NEW a \in Free, NEW b \in Free, FreePair(a, b),
             NEW o1 \in Object, NEW o2 \in Object, o1.class = "private",
             MasterLabel(o2.label) => o1.label = o2.label /\ o1.tsb,
             store' = WithPair(store, a, b, o1, o2)
      PROVE  PublicsOK(store') /\ Stays(store, store')
  <2>1. a \in Handles \ Live(store) /\ b \in Handles \ Live(store) /\ a # b
    BY <1>4 DEF Free, FreePair
  <2>2. QED
    BY <1>1, <1>4, <2>1, PairAdded
<1>5. ASSUME NEW label, NEW key, Belongs(label, key), Imported(label, key)
      PROVE  PublicsOK(store') /\ Stays(store, store')
  <2> DEFINE o1 == KeyObject("private", key, label, TRUE, TRUE)
             o2 == KeyObject("public", key, label, TRUE, TRUE)
  <2>1. PICK a \in Free, b \in Free :
          FreePair(a, b) /\ store' = WithPair(store, a, b, o1, o2)
    BY <1>5 DEF Imported
  <2>2. o1 \in Object /\ o2 \in Object
    BY <1>5, BelongsUnderLabel, KeyObjectType
  <2>3. o1.class = "private" /\ o1.label = o2.label /\ o1.tsb
    BY DEF KeyObject
  <2> HIDE DEF o1, o2
  <2>4. QED
    BY <1>4, <2>1, <2>2, <2>3
<1>6. ASSUME NEW t \in Threads, Generate(t)
      PROVE  PublicsOK(store') /\ Stays(store, store')
  <2> DEFINE c == call[t]
             o1 == KeyObject("private", c.want, c.label, TRUE, FALSE)
             o2 == KeyObject("public", c.want, PubSiblingLabel(c.label), TRUE, FALSE)
  <2>1. PICK a \in Free, b \in Free :
          FreePair(a, b) /\ store' = WithPair(store, a, b, o1, o2)
    BY <1>6 DEF Generate
  <2>2. Belongs(c.label, c.want)
    BY <1>6, GeneratedPair
  <2>3. o1 \in Object /\ o2 \in Object
    BY <2>2, BelongsUnderLabel, SiblingIsLabel, KeyObjectType
  <2>4. o1.class = "private" /\ o2.label = PubSiblingLabel(c.label)
    BY DEF KeyObject
  <2>5. ~MasterLabel(PubSiblingLabel(c.label))
    BY <2>2 DEF LabelsApart, Belongs, MasterLabel
  <2> HIDE DEF o1, o2
  <2>6. QED
    BY <1>4, <2>1, <2>3, <2>4, <2>5
<1>7. ASSUME NEW t \in Threads, Derive(t)
      PROVE  PublicsOK(store') /\ Stays(store, store')
  <2> DEFINE child == Child(store[call[t].priv].key, call[t].path)
             o1 == KeyObject("private", child, NoLabel, FALSE, FALSE)
             o2 == KeyObject("public", child, NoLabel, FALSE, FALSE)
  <2>1. PICK a \in Free, b \in Free :
          FreePair(a, b) /\ store' = WithPair(store, a, b, o1, o2)
    BY <1>7 DEF Derive
  <2>2. child \in Key
    <3>1. store[call[t].priv] \in Object /\ call[t].path \in Seq(Nat)
      BY <1>1, <1>7 DEF Derive, Store, Live, Maybe, CallType
    <3>2. QED
      BY <3>1, KeysAreKeys DEF Object
  <2>3. NoLabel \in Label
    BY DEF NoLabel, Label
  <2> HIDE DEF child
  <2>4. o1 \in Object /\ o2 \in Object
    BY <2>2, <2>3, KeyObjectType
  <2>5. o1.class = "private" /\ o2.label = NoLabel
    BY DEF KeyObject
  <2>6. ~MasterLabel(NoLabel)
    BY ProvisioningsAssumption DEF MasterLabel, Real
  <2> HIDE DEF o1, o2
  <2>7. QED
    BY <1>4, <2>1, <2>4, <2>5, <2>6
<1>8. ASSUME NEW t \in Threads, Import(t)
      PROVE  PublicsOK(store') /\ Stays(store, store')
  <2>1. Belongs(call[t].label, call[t].want)
    BY <1>1, <1>8 DEF Import, At, CallOK, MasterOK, MasterPcs
  <2>2. CASE Imported(call[t].label, call[t].want)
    <3>1. PICK label, key : label = call[t].label /\ key = call[t].want
      OBVIOUS
    <3>2. QED
      BY <1>5, <2>1, <2>2, <3>1
  <2>3. QED
    BY <1>2, <1>8, <2>2 DEF Import
<1>9. CASE TsbApply
  <2>1. PICK req \in wire : Imported(req.label, req.key) \/ UNCHANGED store
    BY <1>9 DEF TsbApply
  <2>2. CASE Imported(req.label, req.key)
    <3>1. PICK label, key : label = req.label /\ key = req.key
      OBVIOUS
    <3>2. Belongs(label, key)
      BY <1>1, <3>1
    <3>3. QED
      BY <1>5, <2>2, <3>1, <3>2
  <2>3. QED
    BY <1>2, <2>1, <2>2
<1>10. ASSUME NEW t \in Threads, Step(t), ~(Generate(t) \/ Derive(t) \/ Import(t))
       PROVE  store' = store
  BY <1>10
  DEF Step, Record, FindPriv, FindPub, LookupPub, ReadLabel, FindCandidate,
      ReadPoint, ReadChain, HsmFault
<1>11. ASSUME NEW t \in Threads, Start(t) \/ Take(t)
       PROVE  store' = store
  BY <1>11 DEF Start, Take, DeriveMasterKey, DerivePath, ReadXpub
<1>12. CASE LoseSession \/ Restart
  BY <1>3, <1>12 DEF LoseSession, Restart
<1>13. CASE UNCHANGED vars
  BY <1>2, <1>13 DEF vars
<1>14. QED
  BY <1>2, <1>6, <1>7, <1>8, <1>9, <1>10, <1>11, <1>12, <1>13 DEF Next

-----------------------------------------------------------------------------
(* The calls.                                                               *)

(* What a call for a master relies on stays, as long as it stays where it   *)
(* is or goes on within the same part of its code.                          *)
LEMMA ImportedStays ==
  ASSUME NEW s, NEW s2, NEW c, NEW d, Stays(s, s2), MasterOK(s, c),
         ImportedOK(s, c), d.op = c.op, d.label = c.label,
         \/ d.pc = c.pc
         \/ d.pc = "done"
         \/ c.pc \in {"import", "findPriv"} /\ d.pc \in {"findPriv", "findPub"}
         \/ c.pc \in {"record", "point"} /\ d.pc \in {"point", "chain"}
  PROVE  ImportedOK(s2, d)
<1>1. SUFFICES ASSUME c.op = "master",
                      c.pc \in {"import", "findPriv", "findPub", "record", "point",
                                "chain"}
               PROVE  ImportedOK(s2, d)
  BY DEF ImportedOK
<1>2. c.label # NoLabel
  BY <1>1, BelongsUnderLabel DEF MasterOK, MasterPcs
<1>3. QED
  BY <1>1, <1>2 DEF ImportedOK, Stays

(* The steps of a call inside the backend.                                  *)
LEMMA CallSteps ==
  ASSUME Typed, Sources, Imports, taproot, NEW t \in Threads, Step(t),
         Stays(store, store')
  PROVE  ImportedOK(store', call'[t])
<1> DEFINE c == call[t]
           d == call'[t]
<1>1. /\ call \in [Threads -> CallType] /\ c \in CallType
      /\ ImportedOK(store, c) /\ PublicsOK(store)
      /\ MasterOK(store, c) /\ ReloadOK(store, c)
  BY DEF Typed, TypeOK, Sources, CallOK, Imports
<1>2. ASSUME d.op = c.op, c.op # "master" PROVE ImportedOK(store', d)
  BY <1>2 DEF ImportedOK
<1>3. ASSUME NEW res, Return(t, res) PROVE ImportedOK(store', d)
  BY <1>1, <1>3, ReturnFields DEF ImportedOK
<1>4. CASE Generate(t)
  <2>1. FALSE
    BY <1>1, <1>4 DEF Generate, HsmAt, At, ImportedOK, MasterOK
  <2>2. QED
    BY <2>1
<1>5. CASE Derive(t)
  <2>1. c.op # "master"
    BY <1>1, <1>5 DEF Derive, HsmAt, At, MasterOK, MasterPcs
  <2>2. PICK a, b :
          call' = [call EXCEPT ![t].pc = "record", ![t].priv = a, ![t].pub = b]
    BY <1>5 DEF Derive
  <2>3. d.op = c.op
    BY <1>1, <2>2 DEF CallType
  <2>4. QED
    BY <1>2, <2>1, <2>3
<1>6. CASE Record(t)
  <2>1. c.pc = "record" /\ c.op \in {"master", "account", "leaf"}
    BY <1>1, <1>6 DEF Record, At, ReloadOK
  <2>2. CASE c.op = "master"
    <3>1. d = [c EXCEPT !.pc = "point"]
      BY <1>1, <1>6, <2>2 DEF Record
    <3>2. d.pc = "point" /\ d.op = c.op /\ d.label = c.label
      BY <1>1, <3>1 DEF CallType
    <3> HIDE DEF c, d
    <3>3. QED
      BY <1>1, <2>1, <3>2, ImportedStays DEF c, d
  <2>3. CASE c.op = "account"
    <3>1. PICK age : d = [c EXCEPT !.pc = "lookup", !.pub = None, !.age = age]
      BY <1>1, <1>6, <2>3 DEF Record
    <3>2. QED
      BY <1>1, <1>2, <2>3, <3>1 DEF CallType
  <2>4. CASE c.op = "leaf"
    <3>1. d = Returned(c, "ok")
      BY <1>1, <1>6, <2>4 DEF Record
    <3>2. QED
      BY <1>2, <2>4, <3>1 DEF Returned, NoCall
  <2>5. QED
    BY <2>1, <2>2, <2>3, <2>4
<1>7. CASE Import(t)
  <2>1. PICK imp : call' = [call EXCEPT ![t].pc = "findPriv", ![t].imp = imp]
    BY <1>7 DEF Import
  <2>2. /\ c.pc = "import" /\ d.pc = "findPriv" /\ d.op = c.op
        /\ d.label = c.label
    BY <1>1, <1>7, <2>1 DEF Import, At, CallType
  <2> HIDE DEF c, d
  <2>3. QED
    BY <1>1, <2>2, ImportedStays DEF c, d
<1>8. CASE FindPriv(t)
  <2>1. ASSUME NEW h,
               call' = [call EXCEPT ![t].pc = "findPub", ![t].priv = h]
        PROVE  ImportedOK(store', d)
    <3>1. /\ c.pc = "findPriv" /\ d.pc = "findPub" /\ d.op = c.op
          /\ d.label = c.label
      BY <1>1, <1>8, <2>1 DEF FindPriv, HsmAt, At, CallType
    <3> HIDE DEF c, d
    <3>2. QED
      BY <1>1, <3>1, ImportedStays DEF c, d
  <2>2. QED
    BY <1>3, <1>8, <2>1 DEF FindPriv
<1>9. CASE FindPub(t)
  <2>1. ASSUME NEW h \in Matching(store, "public", c.label),
               call' = [call EXCEPT ![t].pc = "record", ![t].pub = h]
        PROVE  ImportedOK(store', d)
    <3>1. c.pc = "findPub" /\ Belongs(c.label, c.want)
      BY <1>1, <1>9 DEF FindPub, HsmAt, At, MasterOK, MasterPcs
    <3>2. d.pc = "record" /\ d.op = c.op /\ d.label = c.label
      BY <1>1, <2>1 DEF CallType
    <3>3. Derivable(store, c.label)
      BY <1>1, <2>1, <3>1 DEF Matching, PublicsOK, MasterLabel, Belongs
    <3>4. Derivable(store', c.label)
      BY <3>1, <3>3, BelongsUnderLabel DEF Stays
    <3> HIDE DEF c, d
    <3>5. QED
      BY <3>1, <3>2, <3>4 DEF ImportedOK
  <2>2. QED
    BY <1>3, <1>9, <2>1 DEF FindPub
<1>10. CASE LookupPub(t) \/ ReadLabel(t) \/ FindCandidate(t)
  <2>1. c.op # "master"
    BY <1>1, <1>10
    DEF LookupPub, ReadLabel, FindCandidate, HsmAt, At, ReloadOK, LookPcs
  <2>2. d.op = c.op
    <3>1. CASE LookupPub(t)
      BY <1>1, <3>1 DEF LookupPub, CallType
    <3>2. CASE ReadLabel(t)
      BY <1>1, <3>2 DEF ReadLabel, CallType
    <3>3. CASE FindCandidate(t)
      <4>1. ASSUME NEW pc, NEW h,
                   \/ call' = [call EXCEPT ![t].pc = pc, ![t].pub = h]
                   \/ call' = [call EXCEPT ![t].pc = pc]
            PROVE  d.op = c.op
        BY <1>1, <4>1 DEF CallType
      <4>2. Return(t, "noPub") => d.op = c.op
        BY <1>1, ReturnFields
      <4>3. QED
        BY <3>3, <4>1, <4>2 DEF FindCandidate
    <3>4. QED
      BY <1>10, <3>1, <3>2, <3>3
  <2>3. QED
    BY <1>2, <2>1, <2>2
<1>11. CASE ReadPoint(t)
  <2>1. /\ c.pc = "point" /\ d.pc = "chain" /\ d.op = c.op
        /\ d.label = c.label
    BY <1>1, <1>11 DEF ReadPoint, HsmAt, At, CallType
  <2> HIDE DEF c, d
  <2>2. QED
    BY <1>1, <2>1, ImportedStays DEF c, d
<1>12. CASE ReadChain(t)
  <2>1. d.pc = "done"
    BY <1>1, <1>12 DEF ReadChain, CallType
  <2>2. QED
    BY <2>1 DEF ImportedOK
<1>13. CASE HsmFault(t)
  BY <1>3, <1>13 DEF HsmFault
<1>14. QED
  BY <1>4, <1>5, <1>6, <1>7, <1>8, <1>9, <1>10, <1>11, <1>12, <1>13 DEF Step

LEMMA ImportsNext ==
  ASSUME LabelsApart, Typed, Sources, Imports, [Next]_vars
  PROVE  Imports'
<1>1. call \in [Threads -> CallType] /\ PublicsOK(store)
  BY DEF Typed, TypeOK, Imports
<1>2. PublicsOK(store') /\ Stays(store, store')
  BY <1>1, TokenSteps
<1>3. SUFFICES ASSUME taproot', NEW u \in Threads
               PROVE  ImportedOK(store', call'[u])
  BY <1>2 DEF Imports
<1>4. ASSUME taproot, call'[u].op = call[u].op, call'[u].pc = call[u].pc,
             call'[u].label = call[u].label
      PROVE  ImportedOK(store', call'[u])
  <2>1. MasterOK(store, call[u]) /\ ImportedOK(store, call[u])
    BY <1>4 DEF Sources, CallOK, Imports
  <2>2. PICK s, d : s = store' /\ d = call'[u]
    OBVIOUS
  <2>3. QED
    BY <1>2, <1>4, <2>1, <2>2, ImportedStays
<1>5. CASE UNCHANGED vars \/ TsbApply
  BY <1>3, <1>4, <1>5 DEF vars, TsbApply
<1>6. CASE LoseSession
  <2>1. /\ call'[u] = [call[u] EXCEPT !.stale = @ \/ Busy(u)]
        /\ call[u] \in CallType /\ taproot' = taproot
    BY <1>1, <1>6 DEF LoseSession
  <2>2. QED
    BY <1>3, <1>4, <2>1 DEF CallType
<1>7. CASE Restart
  BY <1>7 DEF Restart, NoCall, ImportedOK
<1>8. ASSUME NEW t \in Threads, Start(t) \/ Step(t) \/ Take(t), u # t
      PROVE  ImportedOK(store', call'[u])
  <2>1. taproot' = taproot
    BY <1>8
    DEF Start, Step, Take, DeriveMasterKey, DerivePath, ReadXpub, Generate, Derive,
        Record, Import, FindPriv, FindPub, LookupPub, ReadLabel, FindCandidate,
        ReadPoint, ReadChain, HsmFault
  <2>2. CASE Record(t)
    <3>1. PICK age : call'[u] = [call[u] EXCEPT !.age = age]
      BY <1>8, <2>2 DEF Record
    <3>2. call[u] \in CallType
      BY <1>1
    <3>3. QED
      BY <1>3, <1>4, <2>1, <3>1, <3>2 DEF CallType
  <2>3. CASE ~Record(t)
    <3>1. call'[u] = call[u]
      BY <1>1, <1>8, <2>3
      DEF Start, Step, Take, DeriveMasterKey, DerivePath, ReadXpub, Begin, Generate,
          Derive, Import, FindPriv, FindPub, LookupPub, ReadLabel,
          FindCandidate, ReadPoint, ReadChain, HsmFault, Return
    <3>2. QED
      BY <1>3, <1>4, <2>1, <3>1
  <2>4. QED
    BY <2>2, <2>3
<1>9. CASE Step(u)
  <2>1. taproot
    BY <1>3, <1>9
    DEF Step, Generate, Derive, Record, Import, FindPriv, FindPub, LookupPub,
        ReadLabel, FindCandidate, ReadPoint, ReadChain, HsmFault
  <2>2. QED
    BY <1>2, <1>9, <2>1, CallSteps
<1>10. CASE Start(u) \/ Take(u)
  <2>1. CASE DeriveMasterKey(u)
    <3>1. PICK p \in Provisionings :
            Begin(u, IF p[1] = EmptySeed
                     THEN [NoCall EXCEPT !.op = "master", !.pc = "done",
                                         !.res = "emptySeed"]
                     ELSE [NoCall EXCEPT !.op = "master", !.label = p[2],
                                         !.pc = IF taproot THEN "import" ELSE "gen",
                                         !.want = Master(p[1])])
      BY <2>1 DEF DeriveMasterKey
    <3>2. taproot
      BY <1>3, <2>1 DEF DeriveMasterKey
    <3>3. CASE p[1] = EmptySeed
      BY <1>1, <3>1, <3>3 DEF Begin, NoCall, ImportedOK
    <3>4. CASE p[1] # EmptySeed
      <4>1. call'[u].pc = "import"
        BY <1>1, <3>1, <3>2, <3>4 DEF Begin, NoCall
      <4>2. QED
        BY <4>1 DEF ImportedOK
    <3>5. QED
      BY <3>3, <3>4
  <2>2. CASE DerivePath(u)
    <3>1. call'[u].op \in {"account", "leaf"}
      BY <1>1, <2>2 DEF DerivePath, Begin, NoCall
    <3>2. QED
      BY <3>1 DEF ImportedOK
  <2>3. CASE ReadXpub(u)
    <3>1. call'[u].op = "reload"
      BY <1>1, <2>3 DEF ReadXpub, Begin, NoCall
    <3>2. QED
      BY <3>1 DEF ImportedOK
  <2>4. CASE Take(u)
    BY <1>1, <2>4 DEF Take, NoCall, ImportedOK
  <2>5. QED
    BY <1>10, <2>1, <2>2, <2>3, <2>4 DEF Start
<1>11. QED
  BY <1>5, <1>6, <1>7, <1>8, <1>9, <1>10 DEF Next

LEMMA ImportsInit == Init => Imports
BY DEF Init, Imports, PublicsOK, Live, ImportedOK, NoCall

LEMMA ImportsHold ==
  ASSUME LabelsApart PROVE Spec => [](Typed /\ Sources /\ Imports)
<1>1. Typed /\ Sources /\ Imports /\ [Next]_vars => Imports'
  BY ImportsNext
<1>2. QED
  BY <1>1, ImportsInit, SourcesHold, PTL DEF Spec

(* A master that a backend with TSB returns is registered under its label:  *)
(* the taproot signer can derive from it, even where the import failed and  *)
(* the key of an earlier one was found instead (backend.rs:284-345).        *)
THEOREM MastersAreDerivable ==
  ASSUME LabelsApart PROVE Spec => TsbMasterDerivable
<1>1. ASSUME Typed, Sources, Imports, taproot, NEW t \in Threads, ReadChain(t),
             call[t].op = "master"
      PROVE  \E h \in Matching(store, "private", call[t].label) :
               store[h].tsb /\ store[h].key = call[t].point
  <2>1. /\ store \in Store /\ StoreOK(store)
        /\ MasterOK(store, call[t]) /\ ImportedOK(store, call[t])
    BY <1>1 DEF Typed, TypeOK, Store, Sources, CallOK, Imports
  <2>2. call[t].pc = "chain"
    BY <1>1 DEF ReadChain, HsmAt, At
  <2>3. /\ Belongs(call[t].label, call[t].want)
        /\ Derivable(store, call[t].label)
    BY <1>1, <2>1, <2>2 DEF ImportedOK, MasterOK, MasterPcs
  <2>4. call[t].point = call[t].want
    <3>1. Source(call[t], call[t].point)
      BY <1>1, <2>1, <2>2 DEF MasterOK
    <3>2. PICK c, key : c = call[t] /\ key = call[t].point
      OBVIOUS
    <3>3. QED
      BY <2>3, <3>1, <3>2, SourceIsOwn
  <2>5. PICK h \in Matching(store, "private", call[t].label) : store[h].tsb
    BY <2>3 DEF Derivable
  <2>6. h \in Live(store) /\ store[h].label = call[t].label
    BY DEF Matching
  <2>7. store[h].key = call[t].want
    <3>1. PICK label, key : label = call[t].label /\ key = call[t].want
      OBVIOUS
    <3>2. QED
      BY <2>1, <2>3, <2>6, <3>1, FoundIsOwn
  <2>8. QED
    BY <2>4, <2>5, <2>7
<1>2. Typed /\ Sources /\ Imports =>
        \A t \in Threads :
          (ReadChain(t) /\ taproot /\ call[t].op = "master") =>
            \E h \in Matching(store, "private", call[t].label) :
              store[h].tsb /\ store[h].key = call[t].point
  BY <1>1
<1>3. QED
  BY <1>2, ImportsHold, PTL DEF Spec, TsbMasterDerivable

-----------------------------------------------------------------------------
(***************************************************************************)
(* What TSB signs with by name is the leaf of the account the vault was    *)
(* built with over PKCS#11.  The invariant, on top of those of the backend,*)
(* says what the account calls are about (AccountsOK), that returned       *)
(* masters are derivable (DoneOK, ProvisionedOK) and whose the vault's key *)
(* is (VaultOK).                                                           *)
(***************************************************************************)

(* The key derives along the path from a master provisioned under the label.*)
Derived(label, path, key) ==
  \E p \in Real : label = p[2] /\ key = Child(Master(p[1]), path)

Failed(c) == c.pc = "done" /\ c.res # "ok"

AccountsOK ==
  \A t \in Threads :
    call[t].op = "account" /\ ~Failed(call[t]) =>
      Derived(origin[t], call[t].path, call[t].want)

DoneOK(s, c) ==
  c.op = "master" /\ c.pc = "done" /\ c.res = "ok" =>
    c.label # NoLabel /\ Derivable(s, c.label)

MastersDone == taproot => \A t \in Threads : DoneOK(store, call[t])

ProvisionedOK ==
  \A label \in provisioned : label # NoLabel /\ Derivable(store, label)

VaultOK ==
  vault # None =>
    /\ vault.path \in Seq(Nat)
    /\ Derived(PrivLabel(vault.name), vault.path, vault.chain)
    /\ vault.sure => vault.point = vault.chain

(* The chain code of the xpub at least is that of the signing leaf's parent,*)
(* whatever its point was read from.                                       *)
SignedOK ==
  signed # None /\ signed.res = "ok" =>
    vault # None /\ signed.key = Child(vault.chain, signed.leaf)

Vault ==
  /\ origin \in [Threads -> Label]
  /\ AccountsOK /\ MastersDone /\ ProvisionedOK /\ VaultOK
  /\ SignedOK /\ ProvisionedSigns

Backend == Typed /\ Sources /\ Keys /\ Imports

-----------------------------------------------------------------------------
(* The steps of the vault are steps of the backend, or leave it alone.      *)
LEMMA BackendOfVault == VaultSpec => Spec
<1>1. VaultInit => Init
  BY DEF VaultInit
<1>2. [VaultNext]_allVars => [Next]_vars
  BY DEF VaultNext, allVars, BackendStep, RestartSigner, SignSchnorr,
         DeriveAccount, TakeResult, Next, Start, vars
<1>3. QED
  BY <1>1, <1>2, PTL DEF VaultSpec, Spec

(* A step inside the backend leaves every call what it is about, except     *)
(* that one which fails, or returns a leaf, forgets it.                     *)
Kept(c, d) ==
  /\ d.op = c.op
  /\ \/ Failed(d) \/ d.op = "leaf"
     \/ ~Failed(c) /\ d.path = c.path /\ d.want = c.want

LEMMA StepKeeps ==
  ASSUME call \in [Threads -> CallType], Sources, NEW t \in Threads, Step(t),
         NEW u \in Threads
  PROVE  Kept(call[u], call'[u])
<1> DEFINE c == call[u]
           d == call'[u]
<1>0. c \in CallType
  OBVIOUS
<1>1. CASE u # t
  <2>1. CASE Record(t)
    <3>1. PICK age : d = [c EXCEPT !.age = age]
      BY <1>1, <2>1 DEF Record
    <3>2. /\ d.op = c.op /\ d.path = c.path /\ d.want = c.want
          /\ d.pc = c.pc /\ d.res = c.res
      BY <1>0, <3>1 DEF CallType
    <3>3. QED
      BY <3>2 DEF Kept, Failed
  <2>2. CASE ~Record(t)
    <3>1. d = c
      BY <1>1, <2>2
      DEF Step, Generate, Derive, Import, FindPriv, FindPub, LookupPub, ReadLabel,
          FindCandidate, ReadPoint, ReadChain, HsmFault, Return
    <3>2. QED
      BY <3>1 DEF Kept
  <2>3. QED
    BY <2>1, <2>2
<1>2. CASE u = t
  <2>1. c.pc # "done"
    BY <1>2
    DEF Step, Generate, Derive, Record, Import, FindPriv, FindPub, LookupPub,
        ReadLabel, FindCandidate, ReadPoint, ReadChain, HsmFault, HsmAt, At, HsmPcs
  <2>2. ASSUME d.op = c.op, d.path = c.path, d.want = c.want PROVE Kept(c, d)
    BY <2>1, <2>2 DEF Kept, Failed
  <2>3. ASSUME NEW res, res # "ok", Return(t, res) PROVE Kept(c, d)
    BY <1>2, <2>3, ReturnFields DEF Kept, Failed
  <2>4. CASE Record(t)
    <3>1. CASE c.op = "master"
      <4>1. d = [c EXCEPT !.pc = "point"]
        BY <1>2, <2>4, <3>1 DEF Record
      <4>2. QED
        BY <1>0, <2>2, <4>1 DEF CallType
    <3>2. CASE c.op = "account"
      <4>1. PICK age : d = [c EXCEPT !.pc = "lookup", !.pub = None, !.age = age]
        BY <1>2, <2>4, <3>2 DEF Record
      <4>2. QED
        BY <1>0, <2>2, <4>1 DEF CallType
    <3>3. CASE c.op \notin {"master", "account"}
      <4>1. d = Returned(c, "ok")
        BY <1>2, <2>4, <3>3 DEF Record
      <4>2. c.op = "leaf"
        BY <1>2, <2>4, <3>3 DEF Record, At, Sources, CallOK, ReloadOK
      <4>3. QED
        BY <4>1, <4>2 DEF Returned, NoCall, Kept
    <3>4. QED
      BY <3>1, <3>2, <3>3
  <2>5. CASE Generate(t) \/ Derive(t)
    <3>1. PICK a, b :
            call' = [call EXCEPT ![t].pc = "record", ![t].priv = a, ![t].pub = b]
      BY <2>5 DEF Generate, Derive
    <3>2. QED
      BY <1>0, <1>2, <2>2, <3>1 DEF CallType
  <2>6. CASE Import(t)
    <3>1. PICK imp : call' = [call EXCEPT ![t].pc = "findPriv", ![t].imp = imp]
      BY <2>6 DEF Import
    <3>2. QED
      BY <1>0, <1>2, <2>2, <3>1 DEF CallType
  <2>7. ASSUME NEW h, NEW pc,
               \/ call' = [call EXCEPT ![t].pc = pc, ![t].priv = h]
               \/ call' = [call EXCEPT ![t].pc = pc, ![t].pub = h]
               \/ call' = [call EXCEPT ![t].pc = pc]
        PROVE  Kept(c, d)
    <3>1. CASE call' = [call EXCEPT ![t].pc = pc]
      BY <1>0, <1>2, <2>2, <3>1 DEF CallType
    <3>2. CASE call' = [call EXCEPT ![t].pc = pc, ![t].pub = h]
      BY <1>0, <1>2, <2>2, <3>2 DEF CallType
    <3>3. CASE call' = [call EXCEPT ![t].pc = pc, ![t].priv = h]
      BY <1>0, <1>2, <2>2, <3>3 DEF CallType
    <3>4. QED
      BY <2>7, <3>1, <3>2, <3>3
  <2>8. CASE FindPriv(t)
    <3>1. \/ \E h : call' = [call EXCEPT ![t].pc = "findPub", ![t].priv = h]
          \/ Return(t, "noPriv") \/ Return(t, "importFailed")
      BY <2>8 DEF FindPriv
    <3>2. QED
      BY <2>3, <2>7, <3>1
  <2>9. CASE FindPub(t) \/ FindCandidate(t)
    BY <2>3, <2>7, <2>9 DEF FindPub, FindCandidate
  <2>10. CASE LookupPub(t)
    <3>1. PICK h, old, pc :
            call' = [call EXCEPT ![t].pub = h, ![t].old = old, ![t].pc = pc]
      BY <2>10 DEF LookupPub
    <3>2. QED
      BY <1>0, <1>2, <2>2, <3>1 DEF CallType
  <2>11. CASE ReadLabel(t)
    BY <1>0, <1>2, <2>2, <2>11 DEF ReadLabel, CallType
  <2>12. CASE ReadPoint(t)
    BY <1>0, <1>2, <2>2, <2>12 DEF ReadPoint, CallType
  <2>13. CASE ReadChain(t)
    BY <1>0, <1>2, <2>2, <2>13 DEF ReadChain, CallType
  <2>14. CASE HsmFault(t)
    BY <2>3, <2>14 DEF HsmFault
  <2>15. QED
    BY <2>4, <2>5, <2>6, <2>8, <2>9, <2>10, <2>11, <2>12, <2>13, <2>14 DEF Step
<1>3. QED
  BY <1>1, <1>2

(* No step makes a returned master of a backend with TSB one that TSB does  *)
(* not know.                                                                *)
LEMMA MastersDoneNext ==
  ASSUME LabelsApart, Backend, MastersDone, [Next]_vars
  PROVE  MastersDone'
<1>1. /\ call \in [Threads -> CallType] /\ PublicsOK(store)
      /\ Sources
  BY DEF Backend, Typed, TypeOK, Imports
<1>2. Stays(store, store')
  BY <1>1, TokenSteps DEF Backend
<1>3. SUFFICES ASSUME taproot', NEW u \in Threads, call'[u].op = "master",
                      call'[u].pc = "done", call'[u].res = "ok"
               PROVE  call'[u].label # NoLabel /\ Derivable(store', call'[u].label)
  BY DEF MastersDone, DoneOK
<1>4. ASSUME taproot, call[u].op = "master", call[u].pc = "done",
             call[u].res = "ok", call'[u].label = call[u].label
      PROVE  call'[u].label # NoLabel /\ Derivable(store', call'[u].label)
  BY <1>2, <1>4 DEF MastersDone, DoneOK, Stays
<1>5. CASE UNCHANGED vars \/ TsbApply
  BY <1>3, <1>4, <1>5 DEF vars, TsbApply
<1>6. CASE LoseSession
  <2>1. /\ call'[u] = [call[u] EXCEPT !.stale = @ \/ Busy(u)]
        /\ call[u] \in CallType /\ taproot' = taproot
    BY <1>1, <1>6 DEF LoseSession
  <2>2. QED
    BY <1>3, <1>4, <2>1 DEF CallType
<1>7. CASE Restart
  BY <1>3, <1>7 DEF Restart, NoCall
<1>8. ASSUME NEW t \in Threads, Start(t) \/ Step(t) \/ Take(t)
      PROVE  /\ taproot' = taproot
             /\ u # t /\ ~Record(t) => call'[u] = call[u]
  <2>1. taproot' = taproot
    BY <1>8
    DEF Start, Step, Take, DeriveMasterKey, DerivePath, ReadXpub, Generate, Derive,
        Record, Import, FindPriv, FindPub, LookupPub, ReadLabel, FindCandidate,
        ReadPoint, ReadChain, HsmFault
  <2>2. u # t /\ ~Record(t) => call'[u] = call[u]
    BY <1>1, <1>8
    DEF Start, Step, Take, DeriveMasterKey, DerivePath, ReadXpub, Begin, Generate,
        Derive, Import, FindPriv, FindPub, LookupPub, ReadLabel,
        FindCandidate, ReadPoint, ReadChain, HsmFault, Return
  <2>3. QED
    BY <2>1, <2>2
<1>9. ASSUME NEW t \in Threads, Start(t) \/ Step(t) \/ Take(t), u # t
      PROVE  call'[u].label # NoLabel /\ Derivable(store', call'[u].label)
  <2>1. CASE Record(t)
    <3>1. PICK age : call'[u] = [call[u] EXCEPT !.age = age]
      BY <1>9, <2>1 DEF Record
    <3>2. call[u] \in CallType
      BY <1>1
    <3>3. QED
      BY <1>3, <1>4, <1>8, <1>9, <3>1, <3>2 DEF CallType
  <2>2. CASE ~Record(t)
    BY <1>3, <1>4, <1>8, <1>9, <2>2
  <2>3. QED
    BY <2>1, <2>2
<1>10. CASE Start(u) \/ Take(u)
  <2>1. CASE DeriveMasterKey(u)
    <3>1. PICK p \in Provisionings :
            Begin(u, IF p[1] = EmptySeed
                     THEN [NoCall EXCEPT !.op = "master", !.pc = "done",
                                         !.res = "emptySeed"]
                     ELSE [NoCall EXCEPT !.op = "master", !.label = p[2],
                                         !.pc = IF taproot THEN "import" ELSE "gen",
                                         !.want = Master(p[1])])
      BY <2>1 DEF DeriveMasterKey
    <3>2. call'[u].pc = "done" => call'[u].res = "emptySeed"
      BY <1>1, <3>1 DEF Begin, NoCall
    <3>3. QED
      BY <1>3, <3>2
  <2>2. CASE DerivePath(u)
    <3>1. call'[u].op \in {"account", "leaf"}
      BY <1>1, <2>2 DEF DerivePath, Begin, NoCall
    <3>2. QED
      BY <1>3, <3>1
  <2>3. CASE ReadXpub(u)
    <3>1. call'[u].op = "reload"
      BY <1>1, <2>3 DEF ReadXpub, Begin, NoCall
    <3>2. QED
      BY <1>3, <3>1
  <2>4. CASE Take(u)
    BY <1>1, <1>3, <2>4 DEF Take, NoCall
  <2>5. QED
    BY <1>10, <2>1, <2>2, <2>3, <2>4 DEF Start
<1>11. CASE Step(u)
  <2>1. taproot /\ call[u].op = "master"
    BY <1>1, <1>3, <1>8, <1>11, StepKeeps DEF Kept
  <2>2. CASE ReadChain(u)
    <3>1. call[u].pc = "chain" /\ ImportedOK(store, call[u])
      BY <2>1, <2>2 DEF ReadChain, HsmAt, At, Backend, Imports
    <3>2. call[u].label # NoLabel /\ Derivable(store, call[u].label)
      <4>1. Belongs(call[u].label, call[u].want)
        BY <1>1, <2>1, <3>1 DEF Sources, CallOK, MasterOK, MasterPcs
      <4>2. PICK label, key : label = call[u].label /\ key = call[u].want
        OBVIOUS
      <4>3. label # NoLabel
        BY <4>1, <4>2, BelongsUnderLabel
      <4>4. QED
        BY <2>1, <3>1, <4>2, <4>3 DEF ImportedOK
    <3>3. call'[u].label = call[u].label
      BY <1>1, <2>2 DEF ReadChain, CallType
    <3>4. QED
      BY <1>2, <3>2, <3>3 DEF Stays
  <2>3. CASE ~ReadChain(u)
    <3>1. CASE Record(u)
      <4>1. call'[u] = [call[u] EXCEPT !.pc = "point"]
        BY <1>1, <2>1, <3>1 DEF Record
      <4>2. QED
        BY <1>1, <1>3, <4>1 DEF CallType
    <3>2. CASE Generate(u) \/ Derive(u)
      <4>1. PICK a, b :
              call' = [call EXCEPT ![u].pc = "record", ![u].priv = a, ![u].pub = b]
        BY <3>2 DEF Generate, Derive
      <4>2. QED
        BY <1>1, <1>3, <4>1 DEF CallType
    <3>3. CASE Import(u)
      <4>1. PICK imp : call' = [call EXCEPT ![u].pc = "findPriv", ![u].imp = imp]
        BY <3>3 DEF Import
      <4>2. QED
        BY <1>1, <1>3, <4>1 DEF CallType
    <3>4. CASE FindPriv(u) \/ FindPub(u) \/ FindCandidate(u) \/ HsmFault(u)
      <4>1. ASSUME NEW res, res # "ok", Return(u, res)
            PROVE  call'[u].pc = "done" => call'[u].res # "ok"
        BY <1>1, <4>1, ReturnFields
      <4>2. ASSUME NEW pc, NEW h, pc # "done",
                   \/ call' = [call EXCEPT ![u].pc = pc, ![u].priv = h]
                   \/ call' = [call EXCEPT ![u].pc = pc, ![u].pub = h]
                   \/ call' = [call EXCEPT ![u].pc = pc]
            PROVE  call'[u].pc # "done"
        BY <1>1, <4>2 DEF CallType
      <4>3. call'[u].pc = "done" => call'[u].res # "ok"
        BY <3>4, <4>1, <4>2 DEF FindPriv, FindPub, FindCandidate, HsmFault
      <4>4. QED
        BY <1>3, <4>3
    <3>5. CASE LookupPub(u) \/ ReadLabel(u) \/ ReadPoint(u)
      <4>1. call'[u].pc # "done"
        BY <1>1, <3>5 DEF LookupPub, ReadLabel, ReadPoint, CallType
      <4>2. QED
        BY <1>3, <4>1
    <3>6. QED
      BY <1>11, <2>3, <3>1, <3>2, <3>3, <3>4, <3>5 DEF Step
  <2>4. QED
    BY <2>2, <2>3
<1>12. QED
  BY <1>5, <1>6, <1>7, <1>9, <1>10, <1>11 DEF Next

-----------------------------------------------------------------------------
(* Deriving a leaf from the account is deriving it from the master by the   *)
(* full path.                                                               *)
LEMMA ChildOfChild ==
  ASSUME NEW k \in Key, NEW a \in Seq(Nat), NEW b \in Seq(Nat)
  PROVE  Child(k, a \o b) = Child(Child(k, a), b)
<1>1. k.path \in Seq(Nat)
  BY DEF Key
<1>2. k.path \o (a \o b) = (k.path \o a) \o b
  <2>1. ASSUME NEW x \in Seq(Nat), NEW y \in Seq(Nat), NEW z \in Seq(Nat)
        PROVE  x \o (y \o z) = (x \o y) \o z
    OBVIOUS
  <2>2. QED
    BY <1>1, <2>1, Zenon
<1>3. /\ Child(k, a \o b) = [k EXCEPT !.path = k.path \o (a \o b)]
      /\ Child(Child(k, a), b)
           = [Child(k, a) EXCEPT !.path = Child(k, a).path \o b]
  BY DEF Child
<1>4. /\ Child(k, a) = [k EXCEPT !.path = k.path \o a]
      /\ Child(k, a).path = k.path \o a
  BY DEF Child, Key
<1>5. \A x, y : [[k EXCEPT !.path = x] EXCEPT !.path = y] = [k EXCEPT !.path = y]
  BY DEF Key
<1>6. QED
  BY <1>2, <1>3, <1>4, <1>5

(* Steps that leave the vault and its answers alone.                        *)
LEMMA VaultSteps ==
  ASSUME LabelsApart, Backend, Vault, [Next]_vars,
         UNCHANGED <<provisioned, vault>>,
         signed' \in {signed, None},
         origin' \in [Threads -> Label],
         AccountsOK'
  PROVE  Vault'
<1>1. Stays(store, store')
  BY TokenSteps DEF Backend, Imports
<1>2. ProvisionedOK'
  BY <1>1 DEF Vault, ProvisionedOK, Stays
<1>3. MastersDone'
  BY MastersDoneNext DEF Vault
<1>4. VaultOK'
  BY DEF Vault, VaultOK
<1>5. SignedOK' /\ ProvisionedSigns'
  <2>1. CASE signed' = signed
    BY <2>1 DEF Vault, SignedOK, ProvisionedSigns
  <2>2. CASE signed' = None
    BY <2>2 DEF SignedOK, ProvisionedSigns
  <2>3. QED
    BY <2>1, <2>2
<1>6. QED
  BY <1>2, <1>3, <1>4, <1>5 DEF Vault

LEMMA VaultBackendStep ==
  ASSUME LabelsApart, Backend, Vault, BackendStep
  PROVE  Vault'
<1>1. call \in [Threads -> CallType] /\ Sources
  BY DEF Backend, Typed, TypeOK
<1>2. [Next]_vars /\ UNCHANGED vaultVars
  BY DEF BackendStep, Next, Start
<1>3. ASSUME NEW u \in Threads, call'[u].op = "account", ~Failed(call'[u])
      PROVE  Derived(origin[u], call'[u].path, call'[u].want)
  <2>1. /\ call[u].op = "account" /\ ~Failed(call[u])
        /\ call'[u].path = call[u].path /\ call'[u].want = call[u].want
    <3>1. ASSUME NEW t \in Threads, DeriveMasterKey(t)
          PROVE  call'[u] = call[u]
      <4>1. u # t
        <5>1. CASE u = t
          <6>1. call'[u].op = "master"
            BY <1>1, <3>1, <5>1 DEF DeriveMasterKey, Begin, NoCall
          <6>2. QED
            BY <1>3, <6>1
        <5>2. QED
          BY <5>1
      <4>2. QED
        BY <1>1, <3>1, <4>1 DEF DeriveMasterKey, Begin
    <3>2. ASSUME NEW t \in Threads, ReadXpub(t)
          PROVE  call'[u] = call[u]
      <4>1. u # t
        <5>1. CASE u = t
          <6>1. call'[u].op = "reload"
            BY <1>1, <3>2, <5>1 DEF ReadXpub, Begin, NoCall
          <6>2. QED
            BY <1>3, <6>1
        <5>2. QED
          BY <5>1
      <4>2. QED
        BY <1>1, <3>2, <4>1 DEF ReadXpub, Begin
    <3>3. ASSUME NEW t \in Threads, Step(t)
          PROVE  /\ call[u].op = "account" /\ ~Failed(call[u])
                 /\ call'[u].path = call[u].path /\ call'[u].want = call[u].want
      BY <1>1, <1>3, <3>3, StepKeeps DEF Kept
    <3>4. CASE TsbApply
      BY <1>3, <3>4 DEF TsbApply
    <3>5. CASE LoseSession
      <4>1. /\ call'[u] = [call[u] EXCEPT !.stale = @ \/ Busy(u)]
            /\ call[u] \in CallType
        BY <1>1, <3>5 DEF LoseSession
      <4>2. QED
        BY <1>3, <4>1 DEF CallType, Failed
    <3>6. QED
      BY <1>3, <3>1, <3>2, <3>3, <3>4, <3>5 DEF BackendStep
  <2>2. QED
    BY <2>1 DEF Vault, AccountsOK
<1>4. AccountsOK'
  BY <1>2, <1>3 DEF AccountsOK, vaultVars
<1>5. QED
  BY <1>2, <1>4, VaultSteps DEF Vault, vaultVars

LEMMA VaultRestart ==
  ASSUME LabelsApart, Backend, Vault, RestartSigner
  PROVE  Vault'
<1>1. /\ [Next]_vars /\ UNCHANGED <<provisioned, vault>> /\ signed' = None
      /\ origin' = [t \in Threads |-> NoLabel]
  BY DEF RestartSigner, Next
<1>2. origin' \in [Threads -> Label]
  BY <1>1 DEF NoLabel, Label
<1>3. AccountsOK'
  BY DEF RestartSigner, Restart, NoCall, AccountsOK
<1>4. QED
  BY <1>1, <1>2, <1>3, VaultSteps

LEMMA VaultDerive ==
  ASSUME LabelsApart, Backend, Vault, NEW t \in Threads, DeriveAccount(t)
  PROVE  Vault'
<1>1. /\ call \in [Threads -> CallType] /\ store \in Store /\ StoreOK(store)
      /\ origin \in [Threads -> Label] /\ AccountsOK
  BY DEF Backend, Typed, TypeOK, Store, Sources, Vault
<1>2. PICK op \in {"account", "leaf"}, path \in Paths,
           h \in Masters \cup Children :
        /\ op = "account" => h \in Masters
        /\ Begin(t, [NoCall EXCEPT
                       !.op = op, !.path = path, !.priv = h,
                       !.want = Child(store[h].key, path),
                       !.pc = IF path # << >> THEN "derive"
                              ELSE IF op = "account" THEN "lookup" ELSE "done",
                       !.res = IF path = << >> /\ op = "leaf" THEN "ok"
                               ELSE None])
  BY DEF DeriveAccount, DerivePath
<1> DEFINE want == Child(store[h].key, path)
<1>3. /\ call'[t].op = op /\ call'[t].path = path /\ call'[t].priv = h
      /\ call'[t].want = want
      /\ \A u \in Threads \ {t} : call'[u] = call[u]
  <2>1. Begin(t, [NoCall EXCEPT
                    !.op = op, !.path = path, !.priv = h, !.want = want,
                    !.pc = IF path # << >> THEN "derive"
                           ELSE IF op = "account" THEN "lookup" ELSE "done",
                    !.res = IF path = << >> /\ op = "leaf" THEN "ok"
                            ELSE None])
    BY <1>2
  <2> HIDE DEF want
  <2>2. QED
    BY <1>1, <2>1 DEF Begin, NoCall
<1>4. h \in Live(store) /\ store[h] \in Object
  BY <1>1 DEF Masters, Children, Live, Store, Maybe
<1>5. /\ origin' = [origin EXCEPT ![t] = store[h].label]
      /\ origin' \in [Threads -> Label]
  <2>1. origin' = [origin EXCEPT ![t] = store[h].label]
    BY <1>3 DEF DeriveAccount
  <2>2. QED
    BY <1>1, <1>4, <2>1 DEF Object
<1>6. op = "account" => Derived(store[h].label, path, want)
  <2>1. SUFFICES ASSUME op = "account"
                 PROVE  Derived(store[h].label, path, want)
    OBVIOUS
  <2>2. store[h].class = "private" /\ store[h].label # NoLabel
    BY <1>2, <2>1 DEF Masters
  <2>3. Belongs(store[h].label, store[h].key)
    BY <1>1, <1>4, <2>2 DEF StoreOK, ObjectOK
  <2>4. QED
    BY <2>3 DEF Belongs, Derived
<1> HIDE DEF want
<1>7. AccountsOK'
  BY <1>1, <1>3, <1>5, <1>6 DEF AccountsOK
<1>8. [Next]_vars /\ UNCHANGED <<vault, provisioned, signed>>
  BY DEF DeriveAccount, Next, Start
<1>9. QED
  BY <1>5, <1>7, <1>8, VaultSteps

LEMMA VaultTake ==
  ASSUME LabelsApart, Backend, Vault, NEW t \in Threads, TakeResult(t)
  PROVE  Vault'
<1> DEFINE c == call[t]
<1>1. /\ call \in [Threads -> CallType] /\ c \in CallType
      /\ KeysOK(store, c) /\ c.pc = "done"
      /\ origin \in [Threads -> Label] /\ AccountsOK /\ UNCHANGED store
      /\ call' = [call EXCEPT ![t] = NoCall]
  BY DEF Backend, Typed, TypeOK, Keys, Vault, TakeResult, Take, At
<1>2. [Next]_vars /\ signed' = None
  BY DEF TakeResult, Next
<1>3. origin' \in [Threads -> Label]
  BY <1>1 DEF TakeResult, NoLabel, Label
<1>4. AccountsOK'
  BY <1>1 DEF AccountsOK, TakeResult, NoCall
<1>5. MastersDone'
  BY <1>2, MastersDoneNext DEF Vault
<1>6. ProvisionedOK'
  BY <1>1 DEF TakeResult, Vault, ProvisionedOK, MastersDone, DoneOK
<1>7. VaultOK'
  <2>1. CASE UNCHANGED vault
    BY <2>1 DEF Vault, VaultOK
  <2>2. ASSUME Publishes(c), NEW n, origin[t] = PrivLabel(n),
               vault' = [name |-> n, path |-> c.path, point |-> c.point,
                         chain |-> c.chain, sure |-> Sure(c)]
        PROVE  VaultOK'
    <3>1. c.op = "account" /\ c.res = "ok"
      BY <2>2 DEF Publishes
    <3>2. c.chain = c.want /\ (Sure(c) => c.point = c.want)
      BY <1>1, <3>1 DEF KeysOK
    <3>3. c.path \in Seq(Nat) /\ Derived(PrivLabel(n), c.path, c.want)
      BY <1>1, <2>2, <3>1 DEF CallType, AccountsOK, Failed
    <3>4. PICK sure : sure = Sure(c)
      OBVIOUS
    <3> HIDE DEF c
    <3>5. QED
      BY <2>2, <3>2, <3>3, <3>4 DEF VaultOK
  <2>3. QED
    BY <2>1, <2>2 DEF TakeResult
<1>8. SignedOK' /\ ProvisionedSigns'
  BY <1>2 DEF SignedOK, ProvisionedSigns
<1>9. QED
  BY <1>3, <1>4, <1>5, <1>6, <1>7, <1>8 DEF Vault

LEMMA VaultSign ==
  ASSUME LabelsApart, Backend, Vault, SignSchnorr
  PROVE  Vault'
<1>1. /\ store \in Store /\ StoreOK(store) /\ VaultOK /\ ProvisionedOK
      /\ UNCHANGED <<vars, origin, vault, provisioned>> /\ vault # None
  BY DEF Backend, Typed, TypeOK, Store, Sources, Vault, SignSchnorr
<1>2. PICK leaf \in LeafPaths :
        LET name  == SignKeyName(vault.name, vault.path, leaf)
            found == {h \in Matching(store, "private", name.master) : store[h].tsb}
        IN \/ \E h \in found :
                signed' = [leaf |-> leaf, res |-> "ok",
                           key |-> Child(store[h].key, name.path)]
           \/ /\ found = {}
              /\ signed' = [leaf |-> leaf, res |-> "unknownKey", key |-> None]
  BY DEF SignSchnorr
<1> DEFINE label == PrivLabel(vault.name)
           full  == vault.path \o leaf
<1>3. \/ \E h \in Matching(store, "private", label) :
           signed' = [leaf |-> leaf, res |-> "ok", key |-> Child(store[h].key, full)]
      \/ /\ ~Derivable(store, label)
         /\ signed' = [leaf |-> leaf, res |-> "unknownKey", key |-> None]
  BY <1>2 DEF SignKeyName, Derivable
<1>4. SignedOK'
  <2>1. CASE signed'.res = "ok"
    <3>1. PICK h \in Matching(store, "private", label) :
            signed' = [leaf |-> leaf, res |-> "ok", key |-> Child(store[h].key, full)]
      BY <1>3, <2>1
    <3>2. PICK p \in Real : label = p[2] /\ vault.chain = Child(Master(p[1]), vault.path)
      BY <1>1 DEF VaultOK, Derived
    <3>3. Belongs(label, Master(p[1])) /\ h \in Live(store) /\ store[h].label = label
      BY <3>2 DEF Belongs, Matching
    <3>4. store[h].key = Master(p[1])
      <4>1. PICK l, key : l = label /\ key = Master(p[1])
        OBVIOUS
      <4>2. QED
        BY <1>1, <3>3, <4>1, FoundIsOwn
    <3>5. Master(p[1]) \in Key /\ leaf \in Seq(Nat) /\ vault.path \in Seq(Nat)
      BY <1>1, LeafPathsAssumption, ProvisioningsAssumption, KeysAreKeys DEF Real, VaultOK
    <3>6. signed'.key = Child(vault.chain, leaf) /\ signed'.leaf = leaf
      BY <3>1, <3>2, <3>4, <3>5, ChildOfChild
    <3>7. QED
      BY <1>1, <3>6 DEF SignedOK
  <2>2. CASE signed'.res # "ok"
    BY <2>2 DEF SignedOK
  <2>3. QED
    BY <2>1, <2>2
<1>5. ProvisionedSigns'
  <2>1. label \in provisioned => Derivable(store, label)
    BY <1>1 DEF ProvisionedOK
  <2>2. label \in provisioned => signed'.res = "ok"
    BY <1>3, <2>1
  <2>3. QED
    BY <1>1, <2>2 DEF ProvisionedSigns
<1>6. QED
  BY <1>1, <1>4, <1>5
  DEF Vault, AccountsOK, MastersDone, ProvisionedOK, VaultOK, vars

-----------------------------------------------------------------------------
LEMMA VaultInitOK == VaultInit => Vault
BY DEF VaultInit, Init, NoCall, NoLabel, Label, Vault, AccountsOK, MastersDone, DoneOK,
       ProvisionedOK, VaultOK, SignedOK, ProvisionedSigns

LEMMA VaultKept ==
  ASSUME LabelsApart, Backend, Vault, [VaultNext]_allVars
  PROVE  Vault'
<1>1. CASE UNCHANGED allVars
  BY <1>1
  DEF allVars, vars, vaultVars, Vault, AccountsOK, MastersDone, ProvisionedOK, VaultOK,
      SignedOK, ProvisionedSigns
<1>2. CASE VaultNext
  BY <1>2, VaultBackendStep, VaultRestart, VaultSign, VaultDerive, VaultTake
  DEF VaultNext
<1>3. QED
  BY <1>1, <1>2

LEMMA VaultHolds ==
  ASSUME LabelsApart PROVE VaultSpec => []Vault
<1>1. Backend /\ Vault /\ [VaultNext]_allVars => Vault'
  BY VaultKept
<1>2. Spec => []Backend
  BY KeysHold, ImportsHold, PTL DEF Backend
<1>3. QED
  BY <1>1, <1>2, VaultInitOK, BackendOfVault, PTL DEF VaultSpec

(* A Schnorr signature by the name of label and path is of the leaf of the  *)
(* account xpub that was read over PKCS#11 (mod.rs:347-384), whichever      *)
(* transport made the master and however often the signer was restarted.    *)
THEOREM SignaturesVerify ==
  ASSUME LabelsApart PROVE VaultSpec => []SchnorrVerifies
<1>1. Vault => SchnorrVerifies
  BY DEF Vault, VaultOK, SignedOK, SchnorrVerifies
<1>2. QED
  BY <1>1, VaultHolds, PTL

(* A vault whose master was returned with TSB configured can be signed for  *)
(* ever after: no import, restart or late request makes TSB forget it.      *)
THEOREM ProvisionedVaultsSign ==
  ASSUME LabelsApart PROVE VaultSpec => []ProvisionedSigns
<1>1. Vault => ProvisionedSigns
  BY DEF Vault
<1>2. QED
  BY <1>1, VaultHolds, PTL
=============================================================================
