------------------------------- MODULE Token -------------------------------
(***************************************************************************)
(* The PKCS#11 token as src/pkcs11/backend.rs uses it: SLIP-10 keys, the   *)
(* labels its objects carry, and the objects themselves.  The token is not *)
(* part of the repository; only PubSiblingLabel is code of the repository. *)
(***************************************************************************)
EXTENDS Naturals, Sequences

CONSTANTS
  Handles,  \* the object handles the token may issue (CK_OBJECT_HANDLE)
  Seeds,    \* the non-empty master seeds
  Names,    \* the words labels are built from, beside the two suffixes
  None      \* no handle, no object, no value

ASSUME NoneAssumption == None \notin Handles

-----------------------------------------------------------------------------
(* SLIP-10: a key is its seed and the path derived from it.  Deriving a    *)
(* path at once or in pieces gives the same key.                           *)

Master(seed) == [seed |-> seed, path |-> << >>]
Child(key, path) == [key EXCEPT !.path = @ \o path]
Key == [seed : Seeds, path : Seq(Nat)]

(* A label "emvault.v1.x.priv" is the sequence of its base and suffixes,   *)
(* <<"x", "priv">>; an object created without CKA_LABEL has the empty one. *)
NoLabel == << >>
Label == Seq(Names \cup {"priv", "pub"})

(* pub_sibling_label: ".priv" becomes ".pub", any other label gains ".pub". *)
PubSiblingLabel(label) ==
  IF label # << >> /\ label[Len(label)] = "priv"
  THEN Append(SubSeq(label, 1, Len(label) - 1), "pub")
  ELSE Append(label, "pub")

-----------------------------------------------------------------------------
(* token: CKA_TOKEN, survives the session.  tsb: registered with the       *)
(* Transaction Security Broker as a derivable SLIP-10 master.              *)
Object == [class : {"private", "public"}, key : Key, label : Label,
           token : BOOLEAN, tsb : BOOLEAN]

ASSUME NoneIsNoObject == None \notin Object

KeyObject(class, key, label, token, tsb) ==
  [class |-> class, key |-> key, label |-> label, token |-> token, tsb |-> tsb]

Live(store) == {h \in Handles : store[h] # None}

(* The handles C_FindObjects returns for a class and an exact label.       *)
Matching(store, class, label) ==
  {h \in Live(store) : store[h].class = class /\ store[h].label = label}

(* A call that creates a key pair at two unused handles.                   *)
WithPair(store, hPriv, hPub, priv, pub) ==
  [store EXCEPT ![hPriv] = priv, ![hPub] = pub]

(* What is left when the session that owns the session objects is gone.    *)
TokenObjects(store) ==
  [h \in Handles |->
     IF store[h] # None /\ store[h].token THEN store[h] ELSE None]
=============================================================================
