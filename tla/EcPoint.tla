------------------------------- MODULE EcPoint -------------------------------
(***************************************************************************)
(* How a public key gets from the HSM into the program as bytes: over      *)
(* PKCS#11 as CKA_EC_POINT (parse_ec_point and build_xpub of               *)
(* src/pkcs11/backend.rs, verify of examples/slip10_probe.rs), over TSB as *)
(* a SubjectPublicKeyInfo (derived_public_key of src/tsb/mod.rs).          *)
(*                                                                         *)
(* Lengths and tags are those of secp256k1.  The curve is a parameter: its *)
(* x coordinates, and for each the two y's, told apart by their parity.    *)
(***************************************************************************)
EXTENDS Naturals, Sequences

CONSTANTS
  Xs,          \* x coordinates of the points of the curve, big-endian
  YOf(_, _),   \* YOf(x, odd) is the y of that parity
  Lengths,     \* lengths of chain codes a token may answer with
  None

Coordinates == [1..32 -> 0..255]

ASSUME XsAssumption == Xs \subseteq Coordinates
ASSUME YsAssumption ==
  \A x \in Xs :
    /\ YOf(x, TRUE) \in Coordinates /\ YOf(x, FALSE) \in Coordinates
    /\ YOf(x, TRUE) # YOf(x, FALSE)
ASSUME NoneAssumption == None \notin [x : Xs, odd : BOOLEAN] /\ None \notin Seq(0..255)

-----------------------------------------------------------------------------
(* secp256k1::PublicKey, from_slice and its serializations.                *)

PublicKeys == [x : Xs, odd : BOOLEAN]

Compressed(k) == <<IF k.odd THEN 3 ELSE 2>> \o k.x
Uncompressed(k) == <<4>> \o k.x \o YOf(k.x, k.odd)

Drop(s, n) == SubSeq(s, n + 1, Len(s))

FromSlice(b) ==
  LET keys == {k \in PublicKeys : b = Compressed(k) \/ b = Uncompressed(k)} IN
  IF keys = {} THEN None ELSE CHOOSE k \in keys : TRUE

-----------------------------------------------------------------------------
(* parse_ec_point: an OCTET STRING is unwrapped by its length's own form,  *)
(* whatever length it gives; the short form is all slip10_probe knows.     *)

IsWrapped(der) == Len(der) >= 2 /\ der[1] = 4

(* Mutant: the first length octet is forgotten in the long form.           *)
UnwrapEarly(der) ==
  IF ~IsWrapped(der) THEN der
  ELSE IF der[2] < 128 THEN Drop(der, 2)
  ELSE IF 1 + (der[2] % 128) <= Len(der) THEN Drop(der, 1 + (der[2] % 128))
  ELSE << >>

Unwrap(der) ==
  IF ~IsWrapped(der) THEN der
  ELSE IF der[2] < 128 THEN Drop(der, 2)
  ELSE IF 2 + (der[2] % 128) <= Len(der) THEN Drop(der, 2 + (der[2] % 128))
  ELSE << >>

ParseEcPoint(der) == FromSlice(Unwrap(der))

(* Mutant: the probe takes the attribute for the point itself.             *)
ProbePointRaw(der) == FromSlice(der)
ProbePoint(der) == FromSlice(IF IsWrapped(der) THEN Drop(der, 2) ELSE der)

(* derived_public_key: the point is the last 65 bytes of the SPKI.  Mutant: *)
(* the tag of the point is cut off.                                        *)
SpkiPointShort(spki) ==
  IF Len(spki) < 64 THEN None ELSE FromSlice(Drop(spki, Len(spki) - 64))
SpkiPoint(spki) ==
  IF Len(spki) < 65 THEN None ELSE FromSlice(Drop(spki, Len(spki) - 65))

-----------------------------------------------------------------------------
(* What the HSM may answer for a key.                                      *)

Points(k) == {Compressed(k), Uncompressed(k)}
Short(s) == <<4, Len(s)>> \o s
Long(s) == <<4, 129, Len(s)>> \o s
Padded(s) == <<4, 130, 0, Len(s)>> \o s
Truncated(s) == <<4, 129>>

Wrapped(k) == UNION {{Short(s), Long(s), Padded(s)} : s \in Points(k)}
EcPoints(k) == Wrapped(k) \cup Points(k) \cup {Truncated(Compressed(k)), << >>}

(* The 23 bytes before an uncompressed point of a named curve, and their   *)
(* counterpart with the length of a compressed one.                        *)
SpkiHeader(n) == [i \in 1..23 |-> IF i = 2 THEN 21 + n ELSE IF i = 22 THEN n + 1 ELSE 48]
Spki(s) == SpkiHeader(Len(s)) \o s
Spkis(k) == {Spki(s) : s \in Points(k)}

-----------------------------------------------------------------------------
VARIABLES
  key,    \* the key pair the program asks about
  point,  \* CKA_EC_POINT as the token answered, or None if it is missing
  xpub,   \* what build_xpub made of it
  spki,   \* the SPKI TSB answered with
  tsbKey  \* what derived_public_key made of that

vars == <<key, point, xpub, spki, tsbKey>>

NoXpub == [res |-> "unread", key |-> None]

Init ==
  /\ key \in PublicKeys
  /\ point = None /\ xpub = NoXpub
  /\ spki = << >> /\ tsbKey = None

(* build_xpub: both attributes are read before either is looked at; each   *)
(* may be missing, the point may not parse, and a chain code that has not  *)
(* 32 bytes is refused.                                                    *)
BuildXpub(der, length) ==
  LET res == IF der = None THEN "noPoint"
             ELSE IF length = None THEN "noChain"
             ELSE IF ParseEcPoint(der) = None THEN "badPoint"
             ELSE IF length # 32 THEN "badChain"
             ELSE "ok"
  IN [res |-> res, key |-> IF res = "ok" THEN ParseEcPoint(der) ELSE None]

ReadXpub ==
  /\ \E der \in EcPoints(key) \cup {None}, length \in Lengths \cup {None} :
       point' = der /\ xpub' = BuildXpub(der, length)
  /\ UNCHANGED <<key, spki, tsbKey>>

ReadSpki ==
  /\ \E s \in Spkis(key) : spki' = s /\ tsbKey' = SpkiPoint(s)
  /\ UNCHANGED <<key, point, xpub>>

OtherKey ==
  /\ key' \in PublicKeys
  /\ point' = None /\ xpub' = NoXpub
  /\ spki' = << >> /\ tsbKey' = None

Next == ReadXpub \/ ReadSpki \/ OtherKey

Spec == Init /\ [][Next]_vars

-----------------------------------------------------------------------------
(* Properties.                                                             *)

(* A point in an OCTET STRING, whatever the form of its length, and a bare *)
(* compressed one are read as the key they encode (backend.rs:621-637).    *)
WrappedRoundTrips ==
  point \in Wrapped(key) \cup {Compressed(key)} /\ xpub.res \notin {"noChain", "badChain"} =>
    xpub = [res |-> "ok", key |-> key]

(* The parser returns another key only for a bare uncompressed point whose *)
(* x begins with 0x9e and ends with the tag of a compressed point: then 30 *)
(* "length octets" are dropped and y is taken for x.                       *)
MisreadOnlyIfAligned ==
  xpub.res = "ok" /\ xpub.key # key =>
    point = Uncompressed(key) /\ key.x[1] = 158 /\ key.x[32] \in {2, 3}

(* The SPKI of an uncompressed point gives the key; that of a compressed   *)
(* point is refused (mod.rs:243-258).                                      *)
SpkiIsOwn ==
  spki # << >> =>
    tsbKey = IF spki = Spki(Uncompressed(key)) THEN key ELSE None

(* What the probe established of the short form carries over: a point the  *)
(* probe can parse, the backend parses to the same key.                    *)
ProbeAgrees ==
  point # None /\ point # << >> /\ ProbePoint(point) # None =>
    ParseEcPoint(point) = ProbePoint(point)
=============================================================================
