--------------------------- MODULE EcPoint_proofs ---------------------------
(***************************************************************************)
(* Theorems about EcPoint, for any curve with 32-byte coordinates: what    *)
(* the parsers make of every answer a token or the broker may give.        *)
(*                                                                         *)
(* Compressed points have 33 bytes and uncompressed ones 65, so what       *)
(* from_slice makes of a string is settled by its length and first byte;   *)
(* the lemmas follow the length of what each parser leaves.                *)
(***************************************************************************)
EXTENDS EcPoint, SequenceTheorems, TLAPS

Bytes == Seq(0..255)

-----------------------------------------------------------------------------
(* Lemmas about strings of bytes.                                          *)

LEMMA FunctionIsSeq ==
  ASSUME NEW S, NEW n \in Nat, NEW f \in [1..n -> S]
  PROVE  f \in Seq(S)
OBVIOUS

LEMMA ConcatBytes ==
  ASSUME NEW s \in Bytes, NEW t \in Bytes
  PROVE  /\ s \o t \in Bytes /\ Len(s \o t) = Len(s) + Len(t)
         /\ \A i \in 1..Len(s) + Len(t) :
              (s \o t)[i] = IF i <= Len(s) THEN s[i] ELSE t[i - Len(s)]
BY ConcatProperties DEF Bytes

LEMMA DropPrefix ==
  ASSUME NEW h \in Bytes, NEW s \in Bytes
  PROVE  Drop(h \o s, Len(h)) = s
<1>1. h \o s \in Bytes /\ Len(h \o s) = Len(h) + Len(s)
      /\ \A i \in 1..Len(h) + Len(s) : (h \o s)[i] = IF i <= Len(h) THEN h[i] ELSE s[i - Len(h)]
  BY ConcatProperties DEF Bytes
<1>2. Len(h) \in Nat /\ Len(s) \in Nat
  BY DEF Bytes
<1> DEFINE d == SubSeq(h \o s, Len(h) + 1, Len(h) + Len(s))
<1>3. \A i \in Len(h) + 1 .. Len(h) + Len(s) : (h \o s)[i] \in 0..255
  BY <1>1, <1>2, ElementOfSeq DEF Bytes
<1>4. d \in Bytes /\ Len(d) = Len(s) /\ \A i \in 1..Len(s) : d[i] = (h \o s)[Len(h) + i]
  <2>1. /\ d \in Seq(0..255)
        /\ Len(d) = IF Len(h) + 1 <= Len(h) + Len(s)
                    THEN Len(h) + Len(s) - (Len(h) + 1) + 1 ELSE 0
        /\ \A i \in 1 .. Len(h) + Len(s) - (Len(h) + 1) + 1 :
             d[i] = (h \o s)[Len(h) + 1 + i - 1]
    BY <1>2, <1>3, SubSeqProperties
  <2> HIDE DEF d
  <2> QED
    BY <1>2, <2>1 DEF Bytes
<1>5. \A i \in 1..Len(s) : d[i] = s[i]
  <2> HIDE DEF d
  <2> QED
    BY <1>1, <1>2, <1>4
<1>6. d = s
  <2> HIDE DEF d
  <2> QED
    BY <1>4, <1>5, SeqEqual DEF Bytes
<1> QED
  BY <1>1, <1>6 DEF Drop

LEMMA DropProperties ==
  ASSUME NEW s \in Bytes, NEW n \in Nat, n <= Len(s)
  PROVE  /\ Drop(s, n) \in Bytes /\ Len(Drop(s, n)) = Len(s) - n
         /\ n < Len(s) => Drop(s, n)[1] = s[n + 1]
<1>1. Len(s) \in Nat
  BY DEF Bytes
<1>2. \A i \in n + 1 .. Len(s) : s[i] \in 0..255
  BY <1>1, ElementOfSeq DEF Bytes
<1>3. /\ Drop(s, n) \in Seq(0..255)
      /\ Len(Drop(s, n)) = IF n + 1 <= Len(s) THEN Len(s) - (n + 1) + 1 ELSE 0
      /\ \A i \in 1 .. Len(s) - (n + 1) + 1 : Drop(s, n)[i] = s[n + 1 + i - 1]
  BY <1>1, <1>2, SubSeqProperties DEF Drop
<1> QED
  BY <1>1, <1>3 DEF Bytes

-----------------------------------------------------------------------------
(* Lemmas about points.                                                    *)

LEMMA CoordinateBytes ==
  ASSUME NEW x \in Coordinates
  PROVE  x \in Bytes /\ Len(x) = 32
<1>1. x \in Seq(0..255) /\ DOMAIN x = 1..32
  BY FunctionIsSeq DEF Coordinates
<1>2. Len(x) \in Nat /\ DOMAIN x = 1..Len(x)
  BY <1>1, LenProperties
<1> QED
  BY <1>1, <1>2 DEF Bytes

LEMMA KeyCoordinates ==
  ASSUME NEW k \in PublicKeys
  PROVE  /\ k.x \in Xs /\ k.odd \in BOOLEAN
         /\ k.x \in Coordinates /\ YOf(k.x, k.odd) \in Coordinates
BY XsAssumption, YsAssumption DEF PublicKeys

LEMMA CompressedBytes ==
  ASSUME NEW k \in PublicKeys
  PROVE  /\ Compressed(k) \in Bytes /\ Len(Compressed(k)) = 33
         /\ Compressed(k)[1] = IF k.odd THEN 3 ELSE 2
         /\ Drop(Compressed(k), 1) = k.x
<1>1. k.x \in Bytes /\ Len(k.x) = 32
  BY KeyCoordinates, CoordinateBytes
<1> DEFINE h == <<IF k.odd THEN 3 ELSE 2>>
<1>2. h \in Bytes /\ Len(h) = 1 /\ h[1] = IF k.odd THEN 3 ELSE 2
  BY DEF Bytes
<1>3. Compressed(k) = h \o k.x
  BY DEF Compressed
<1> HIDE DEF h
<1> QED
  <2> DEFINE x == k.x
             b == h \o x
  <2>1. /\ b \in Bytes /\ Len(b) = Len(h) + Len(x)
        /\ \A i \in 1..Len(h) + Len(x) : b[i] = IF i <= Len(h) THEN h[i] ELSE x[i - Len(h)]
    BY <1>1, <1>2, ConcatBytes
  <2>2. Drop(b, Len(h)) = x
    BY <1>1, <1>2, DropPrefix
  <2>3. Compressed(k) = b /\ Len(x) = 32
    BY <1>1, <1>3
  <2> HIDE DEF b, x
  <2>4. Len(b) = 33 /\ b[1] = h[1]
    BY <1>2, <2>1, <2>3
  <2> QED
    BY <1>2, <2>1, <2>2, <2>3, <2>4 DEF x

LEMMA UncompressedBytes ==
  ASSUME NEW k \in PublicKeys
  PROVE  /\ Uncompressed(k) \in Bytes /\ Len(Uncompressed(k)) = 65
         /\ Uncompressed(k)[1] = 4
         /\ \A i \in 1..32 : Uncompressed(k)[i + 1] = k.x[i]
         /\ Drop(Uncompressed(k), 33) = YOf(k.x, k.odd)
<1> DEFINE h == <<4>>
           x == k.x
           y == YOf(k.x, k.odd)
           hx == h \o x
           b == hx \o y
<1>1. x \in Bytes /\ Len(x) = 32 /\ y \in Bytes /\ Len(y) = 32
  BY KeyCoordinates, CoordinateBytes
<1>2. h \in Bytes /\ Len(h) = 1 /\ h[1] = 4
  BY DEF Bytes
<1>3. Uncompressed(k) = b
  BY DEF Uncompressed
<1> HIDE DEF h, x, y
<1>4. /\ hx \in Bytes /\ Len(hx) = Len(h) + Len(x)
      /\ \A i \in 1..Len(h) + Len(x) : hx[i] = IF i <= Len(h) THEN h[i] ELSE x[i - Len(h)]
  BY <1>1, <1>2, ConcatBytes
<1> HIDE DEF hx
<1>5. Len(hx) = 33 /\ hx[1] = 4 /\ \A i \in 1..32 : hx[i + 1] = x[i]
  BY <1>1, <1>2, <1>4
<1>6. /\ b \in Bytes /\ Len(b) = Len(hx) + Len(y)
      /\ \A i \in 1..Len(hx) + Len(y) : b[i] = IF i <= Len(hx) THEN hx[i] ELSE y[i - Len(hx)]
  BY <1>1, <1>4, ConcatBytes
<1>7. Drop(b, Len(hx)) = y
  BY <1>1, <1>4, DropPrefix
<1> HIDE DEF b
<1>8. Len(b) = 65 /\ b[1] = 4 /\ \A i \in 1..32 : b[i + 1] = x[i]
  BY <1>1, <1>5, <1>6
<1> QED
  BY <1>3, <1>5, <1>6, <1>7, <1>8 DEF x, y

(* Both encodings determine the key, and none is the other of another key. *)
LEMMA EncodingsDiffer ==
  ASSUME NEW k \in PublicKeys, NEW l \in PublicKeys
  PROVE  /\ Compressed(k) = Compressed(l) => k = l
         /\ Uncompressed(k) = Uncompressed(l) => k = l
         /\ Compressed(k) # Uncompressed(l)
<1>1. k.x = l.x /\ k.odd = l.odd => k = l
  BY DEF PublicKeys
<1>2. ASSUME Compressed(k) = Compressed(l) PROVE k = l
  <2>1. k.x = l.x
    BY <1>2, CompressedBytes
  <2>2. k.odd = l.odd
    BY <1>2, CompressedBytes, KeyCoordinates
  <2> QED
    BY <1>1, <2>1, <2>2
<1>3. ASSUME Uncompressed(k) = Uncompressed(l) PROVE k = l
  <2>1. k.x = l.x
    <3>1. \A i \in 1..32 : k.x[i] = l.x[i]
      BY <1>3, UncompressedBytes
    <3>2. k.x \in Coordinates /\ l.x \in Coordinates
      BY KeyCoordinates
    <3> QED
      BY <3>1, <3>2 DEF Coordinates
  <2>2. YOf(k.x, k.odd) = YOf(k.x, l.odd)
    BY <1>3, <2>1, UncompressedBytes
  <2>3. k.odd = l.odd
    BY <2>2, KeyCoordinates, YsAssumption
  <2> QED
    BY <1>1, <2>1, <2>3
<1> QED
  BY <1>2, <1>3, CompressedBytes, UncompressedBytes

LEMMA FromSliceReads ==
  ASSUME NEW k \in PublicKeys
  PROVE  FromSlice(Compressed(k)) = k /\ FromSlice(Uncompressed(k)) = k
<1>1. {l \in PublicKeys : Compressed(k) = Compressed(l) \/ Compressed(k) = Uncompressed(l)} = {k}
  BY EncodingsDiffer
<1>2. {l \in PublicKeys : Uncompressed(k) = Compressed(l) \/ Uncompressed(k) = Uncompressed(l)} = {k}
  BY EncodingsDiffer
<1> QED
  BY <1>1, <1>2 DEF FromSlice

LEMMA FromSliceChecks ==
  ASSUME NEW b, FromSlice(b) # None
  PROVE  /\ FromSlice(b) \in PublicKeys
         /\ b = Compressed(FromSlice(b)) \/ b = Uncompressed(FromSlice(b))
BY DEF FromSlice

(* What from_slice accepts has one of two lengths, and its tag.            *)
LEMMA FromSliceRefuses ==
  ASSUME NEW b, FromSlice(b) # None
  PROVE  \/ Len(b) = 33 /\ b[1] \in {2, 3}
         \/ Len(b) = 65 /\ b[1] = 4
<1> DEFINE k == FromSlice(b)
<1>1. k \in PublicKeys /\ (b = Compressed(k) \/ b = Uncompressed(k))
  BY FromSliceChecks
<1> HIDE DEF k
<1> QED
  BY <1>1, CompressedBytes, UncompressedBytes

-----------------------------------------------------------------------------
(* Lemmas about the parsers.                                               *)

(* A string behind a header of two bytes or more.                          *)
LEMMA Headed ==
  ASSUME NEW h \in Bytes, Len(h) >= 2, NEW s \in Bytes, NEW b, b = h \o s
  PROVE  /\ b \in Bytes /\ Len(b) = Len(h) + Len(s)
         /\ b[1] = h[1] /\ b[2] = h[2]
         /\ Drop(b, Len(h)) = s /\ Len(Drop(b, 2)) = Len(b) - 2
<1>1. Len(h) \in Nat /\ Len(s) \in Nat
  BY DEF Bytes
<1>2. /\ b \in Bytes /\ Len(b) = Len(h) + Len(s)
      /\ \A i \in 1..Len(h) + Len(s) : b[i] = IF i <= Len(h) THEN h[i] ELSE s[i - Len(h)]
  BY ConcatBytes
<1>3. b[1] = h[1] /\ b[2] = h[2]
  BY <1>1, <1>2
<1>4. Drop(b, Len(h)) = s
  BY DropPrefix
<1>5. Len(Drop(b, 2)) = Len(b) - 2
  <2>1. b \in Bytes /\ 2 \in Nat /\ 2 <= Len(b)
    BY <1>1, <1>2
  <2> QED
    BY <2>1, DropProperties
<1> QED
  BY <1>2, <1>3, <1>4, <1>5

LEMMA HeaderBytes ==
  ASSUME NEW n \in 0..255
  PROVE  <<4, n>> \in Bytes /\ <<4, 129, n>> \in Bytes /\ <<4, 130, 0, n>> \in Bytes
BY DEF Bytes

LEMMA ShortLength ==
  ASSUME NEW s \in Bytes, Len(s) < 128
  PROVE  Len(s) \in 0..255
<1> DEFINE n == Len(s)
<1>1. n \in Nat /\ n < 128
  BY DEF Bytes
<1> HIDE DEF n
<1>2. n \in 0..255
  BY <1>1
<1> QED
  BY <1>2 DEF n

(* An OCTET STRING is unwrapped whatever the form of its length; the probe *)
(* unwraps the short form only.                                            *)
LEMMA UnwrapsShort ==
  ASSUME NEW s \in Bytes, Len(s) < 128
  PROVE  Unwrap(Short(s)) = s /\ IsWrapped(Short(s)) /\ Drop(Short(s), 2) = s
<1> DEFINE h == <<4, Len(s)>>
           b == Short(s)
<1>1. h \in Bytes /\ Len(h) = 2 /\ h[1] = 4 /\ h[2] = Len(s)
  <2>1. h \in Bytes
    BY ShortLength, HeaderBytes
  <2>2. Len(h) = 2 /\ h[1] = 4 /\ h[2] = Len(s)
    OBVIOUS
  <2> QED
    BY <2>1, <2>2
<1>2. b = h \o s
  BY DEF Short
<1> HIDE DEF h, b
<1>3. Len(b) = 2 + Len(s) /\ b[1] = 4 /\ b[2] = Len(s) /\ Drop(b, 2) = s
  <2>1. Len(h) >= 2
    BY <1>1
  <2>2. /\ b \in Bytes /\ Len(b) = Len(h) + Len(s) /\ b[1] = h[1] /\ b[2] = h[2]
        /\ Drop(b, Len(h)) = s /\ Len(Drop(b, 2)) = Len(b) - 2
    <3>1. h \in Bytes
      BY <1>1
    <3> QED
      BY <1>2, <2>1, <3>1, Headed
  <2>3. Len(s) \in Nat
    BY DEF Bytes
  <2> QED
    BY <1>1, <2>2, <2>3
<1>4. IsWrapped(b)
  BY <1>3 DEF IsWrapped
<1>5. Unwrap(b) = s
  <2>1. b[2] < 128
    BY <1>3
  <2>2. Unwrap(b) = Drop(b, 2)
    BY <1>4, <2>1 DEF Unwrap
  <2> QED
    BY <1>3, <2>2
<1> QED
  BY <1>3, <1>4, <1>5 DEF b

LEMMA UnwrapsLong ==
  ASSUME NEW s \in Bytes, Len(s) < 128
  PROVE  /\ Unwrap(Long(s)) = s /\ IsWrapped(Long(s))
         /\ Long(s) \in Bytes /\ Len(Drop(Long(s), 2)) = Len(s) + 1
<1> DEFINE h == <<4, 129, Len(s)>>
           b == Long(s)
<1>1. h \in Bytes /\ Len(h) = 3 /\ h[1] = 4 /\ h[2] = 129
  <2>1. h \in Bytes
    BY ShortLength, HeaderBytes
  <2>2. Len(h) = 3 /\ h[1] = 4 /\ h[2] = 129
    OBVIOUS
  <2> QED
    BY <2>1, <2>2
<1>2. b = h \o s
  BY DEF Long
<1> HIDE DEF h, b
<1>3. /\ b \in Bytes /\ Len(b) = 3 + Len(s) /\ b[1] = 4 /\ b[2] = 129
      /\ Drop(b, 3) = s /\ Len(Drop(b, 2)) = Len(s) + 1
  <2>1. Len(h) >= 2
    BY <1>1
  <2>2. /\ b \in Bytes /\ Len(b) = Len(h) + Len(s) /\ b[1] = h[1] /\ b[2] = h[2]
        /\ Drop(b, Len(h)) = s /\ Len(Drop(b, 2)) = Len(b) - 2
    <3>1. h \in Bytes
      BY <1>1
    <3> QED
      BY <1>2, <2>1, <3>1, Headed
  <2>3. Len(s) \in Nat
    BY DEF Bytes
  <2> QED
    BY <1>1, <2>2, <2>3
<1>4. IsWrapped(b)
  BY <1>3 DEF IsWrapped
<1>5. ~(129 < 128) /\ 2 + (129 % 128) = 3
  OBVIOUS
<1>6. Unwrap(b) = s
  BY <1>3, <1>4, <1>5 DEF Unwrap
<1> QED
  BY <1>3, <1>4, <1>6 DEF b

LEMMA UnwrapsPadded ==
  ASSUME NEW s \in Bytes, Len(s) < 128
  PROVE  /\ Unwrap(Padded(s)) = s /\ IsWrapped(Padded(s))
         /\ Padded(s) \in Bytes /\ Len(Drop(Padded(s), 2)) = Len(s) + 2
<1> DEFINE h == <<4, 130, 0, Len(s)>>
           b == Padded(s)
<1>1. h \in Bytes /\ Len(h) = 4 /\ h[1] = 4 /\ h[2] = 130
  <2>1. h \in Bytes
    BY ShortLength, HeaderBytes
  <2>2. Len(h) = 4 /\ h[1] = 4 /\ h[2] = 130
    OBVIOUS
  <2> QED
    BY <2>1, <2>2
<1>2. b = h \o s
  BY DEF Padded
<1> HIDE DEF h, b
<1>3. /\ b \in Bytes /\ Len(b) = 4 + Len(s) /\ b[1] = 4 /\ b[2] = 130
      /\ Drop(b, 4) = s /\ Len(Drop(b, 2)) = Len(s) + 2
  <2>1. Len(h) >= 2
    BY <1>1
  <2>2. /\ b \in Bytes /\ Len(b) = Len(h) + Len(s) /\ b[1] = h[1] /\ b[2] = h[2]
        /\ Drop(b, Len(h)) = s /\ Len(Drop(b, 2)) = Len(b) - 2
    <3>1. h \in Bytes
      BY <1>1
    <3> QED
      BY <1>2, <2>1, <3>1, Headed
  <2>3. Len(s) \in Nat
    BY DEF Bytes
  <2> QED
    BY <1>1, <2>2, <2>3
<1>4. IsWrapped(b)
  BY <1>3 DEF IsWrapped
<1>5. ~(130 < 128) /\ 2 + (130 % 128) = 4
  OBVIOUS
<1>6. Unwrap(b) = s
  BY <1>3, <1>4, <1>5 DEF Unwrap
<1> QED
  BY <1>3, <1>4, <1>6 DEF b

LEMMA PointBytes ==
  ASSUME NEW k \in PublicKeys, NEW s \in Points(k)
  PROVE  s \in Bytes /\ Len(s) < 128 /\ FromSlice(s) = k
<1>1. \A n : n = 33 \/ n = 65 => n < 128
  OBVIOUS
<1>2. Len(Compressed(k)) < 128 /\ Len(Uncompressed(k)) < 128
  BY <1>1, CompressedBytes, UncompressedBytes, Zenon
<1> QED
  BY <1>2, CompressedBytes, UncompressedBytes, FromSliceReads DEF Points

LEMMA WrappedReads ==
  ASSUME NEW k \in PublicKeys, NEW der \in Wrapped(k)
  PROVE  ParseEcPoint(der) = k /\ der \in Bytes
<1>1. PICK s \in Points(k) : der \in {Short(s), Long(s), Padded(s)}
  BY DEF Wrapped
<1>2. s \in Bytes /\ Len(s) < 128 /\ FromSlice(s) = k
  BY PointBytes
<1>3. Short(s) \in Bytes
  <2>1. <<4, Len(s)>> \in Bytes
    BY <1>2, ShortLength, HeaderBytes
  <2> QED
    BY <1>2, <2>1, ConcatBytes DEF Short
<1> QED
  BY <1>1, <1>2, <1>3, UnwrapsShort, UnwrapsLong, UnwrapsPadded DEF ParseEcPoint

(* Bare points: a compressed one does not look like an OCTET STRING.       *)
LEMMA CompressedReads ==
  ASSUME NEW k \in PublicKeys
  PROVE  /\ ~IsWrapped(Compressed(k)) /\ ParseEcPoint(Compressed(k)) = k
         /\ Compressed(k) \in Bytes
<1>1. Compressed(k) \in Bytes /\ Compressed(k)[1] # 4
  BY CompressedBytes, KeyCoordinates
<1> QED
  BY <1>1, FromSliceReads DEF IsWrapped, Unwrap, ParseEcPoint

(* An uncompressed one does, and its x is taken for a length.              *)
LEMMA UncompressedMisread ==
  ASSUME NEW k \in PublicKeys, ParseEcPoint(Uncompressed(k)) # None
  PROVE  k.x[1] = 158 /\ k.x[32] \in {2, 3}
<1> DEFINE b == Uncompressed(k)
           f == k.x[1]
           u == Unwrap(b)
<1>1. b \in Bytes /\ Len(b) = 65 /\ b[1] = 4 /\ b[2] = f /\ b[33] = k.x[32]
  <2>1. b[1 + 1] = k.x[1] /\ b[32 + 1] = k.x[32]
    BY UncompressedBytes
  <2> QED
    BY <2>1, UncompressedBytes
<1>2. f \in 0..255
  BY KeyCoordinates DEF Coordinates
<1>3. \/ Len(u) = 33 /\ u[1] \in {2, 3}
      \/ Len(u) = 65 /\ u[1] = 4
  <2>1. FromSlice(u) # None
    BY DEF ParseEcPoint
  <2> QED
    BY <2>1, FromSliceRefuses
<1> HIDE DEF b, f
<1>4. IsWrapped(b)
  BY <1>1 DEF IsWrapped
<1>5. ASSUME NEW n \in Nat, n <= 65
      PROVE  Len(Drop(b, n)) = 65 - n /\ (n < 65 => Drop(b, n)[1] = b[n + 1])
  <2>1. n <= Len(b)
    BY <1>1, <1>5
  <2>2. Len(Drop(b, n)) = Len(b) - n /\ (n < Len(b) => Drop(b, n)[1] = b[n + 1])
    BY <1>1, <2>1, DropProperties
  <2> QED
    BY <1>1, <2>2
<1>6. CASE f < 128
  <2>1. u = Drop(b, 2)
    BY <1>1, <1>4, <1>6 DEF Unwrap
  <2>2. Len(u) = 63
    <3>1. 2 \in Nat /\ 2 <= 65
      OBVIOUS
    <3>2. Len(Drop(b, 2)) = 65 - 2
      BY <1>5, <3>1
    <3> QED
      BY <2>1, <3>2
  <2> HIDE DEF u
  <2> QED
    BY <1>3, <2>2
<1>7. CASE f >= 128
  <2> DEFINE n == 2 + (f % 128)
  <2>1. n \in Nat /\ n >= 2 /\ n = f - 126
    BY <1>2, <1>7
  <2>2. u = IF n <= 65 THEN Drop(b, n) ELSE << >>
    <3>1. ~(b[2] < 128)
      BY <1>1, <1>2, <1>7
    <3>2. u = IF 2 + (b[2] % 128) <= Len(b)
              THEN Drop(b, 2 + (b[2] % 128)) ELSE << >>
      BY <1>4, <3>1, Zenon DEF Unwrap
    <3>3. 2 + (b[2] % 128) = n /\ Len(b) = 65
      BY <1>1, Zenon
    <3> HIDE DEF u, n
    <3> QED
      BY <3>2, <3>3, Zenon
  <2> HIDE DEF n, u
  <2>3. CASE n <= 65
    <3>1. u = Drop(b, n) /\ Len(u) = 65 - n /\ (n < 65 => u[1] = b[n + 1])
      BY <1>5, <2>1, <2>2, <2>3
    <3>2. n = 32 /\ u[1] \in {2, 3}
      <4> DEFINE len == Len(u)
      <4>1. len = 65 - n /\ ((len = 33 /\ u[1] \in {2, 3}) \/ len = 65)
        BY <1>3, <3>1
      <4> HIDE DEF len
      <4>2. 65 - n # 65 /\ (65 - n = 33 => n = 32)
        <5>1. n \in Nat /\ n >= 2
          BY <2>1
        <5>2. \A i \in Nat : i >= 2 => 65 - i # 65 /\ (65 - i = 33 => i = 32)
          OBVIOUS
        <5> QED
          BY <5>1, <5>2
      <4> QED
        BY <4>1, <4>2
    <3>3. f = 158 /\ b[33] \in {2, 3}
      BY <1>2, <2>1, <3>1, <3>2
    <3> QED
      BY <1>1, <3>3 DEF f
  <2>4. CASE n > 65
    BY <1>3, <2>1, <2>2, <2>4
  <2> QED
    BY <2>1, <2>3, <2>4
<1> QED
  BY <1>2, <1>6, <1>7

(* Nothing is read from what has neither length of a point.                *)
LEMMA NothingRead ==
  ASSUME NEW der, Len(der) \notin {33, 65}
  PROVE  FromSlice(der) = None
BY FromSliceRefuses

LEMMA TruncatedRefused ==
  ASSUME NEW s
  PROVE  /\ ParseEcPoint(Truncated(s)) = None /\ Truncated(s) \in Bytes
         /\ ProbePoint(Truncated(s)) = None
<1> DEFINE b == <<4, 129>>
<1>1. b \in Bytes /\ Len(b) = 2 /\ b[1] = 4 /\ b[2] = 129
  BY DEF Bytes
<1>2. Truncated(s) = b
  BY DEF Truncated
<1> HIDE DEF b
<1>3. IsWrapped(b)
  BY <1>1 DEF IsWrapped
<1>4. ~(129 < 128) /\ ~(2 + (129 % 128) <= 2)
  OBVIOUS
<1>5. Unwrap(b) = << >>
  BY <1>1, <1>3, <1>4 DEF Unwrap
<1>6. FromSlice(<< >>) = None
  BY NothingRead
<1>7. Len(Drop(b, 2)) = 0
  <2>1. b \in Bytes /\ 2 \in Nat /\ 2 <= Len(b)
    BY <1>1
  <2>2. Len(Drop(b, 2)) = Len(b) - 2
    BY <2>1, DropProperties
  <2> QED
    BY <1>1, <2>2
<1>8. FromSlice(Drop(b, 2)) = None
  BY <1>7, NothingRead
<1> QED
  BY <1>1, <1>2, <1>3, <1>5, <1>6, <1>8 DEF ParseEcPoint, ProbePoint

LEMMA EmptyRefused == ParseEcPoint(<< >>) = None
<1>1. FromSlice(<< >>) = None
  BY NothingRead
<1> QED
  BY <1>1 DEF ParseEcPoint, Unwrap, IsWrapped

LEMMA SpkiReads ==
  ASSUME NEW k \in PublicKeys
  PROVE  /\ Spki(Uncompressed(k)) # << >> /\ SpkiPoint(Spki(Uncompressed(k))) = k
         /\ Spki(Compressed(k)) # << >> /\ SpkiPoint(Spki(Compressed(k))) = None
         /\ Spki(Compressed(k)) # Spki(Uncompressed(k))
<1>1. ASSUME NEW n \in 0..200
      PROVE  SpkiHeader(n) \in Bytes /\ Len(SpkiHeader(n)) = 23
  <2>1. SpkiHeader(n) \in [1..23 -> 0..255]
    BY DEF SpkiHeader
  <2>2. SpkiHeader(n) \in Seq(0..255) /\ DOMAIN SpkiHeader(n) = 1..23
    BY <2>1, FunctionIsSeq
  <2>3. Len(SpkiHeader(n)) \in Nat /\ DOMAIN SpkiHeader(n) = 1..Len(SpkiHeader(n))
    BY <2>2, LenProperties
  <2> QED
    BY <2>2, <2>3 DEF Bytes
<1>2. Len(Spki(Uncompressed(k))) = 88 /\ Drop(Spki(Uncompressed(k)), 23) = Uncompressed(k)
  <2> DEFINE h == SpkiHeader(65)
             s == Uncompressed(k)
  <2>1. h \in Bytes /\ Len(h) = 23 /\ s \in Bytes /\ Len(s) = 65
    BY <1>1, UncompressedBytes
  <2>2. Spki(s) = h \o s
    BY <2>1 DEF Spki
  <2> HIDE DEF h, s
  <2>3. Len(h \o s) = Len(h) + Len(s) /\ Drop(h \o s, Len(h)) = s
    BY <2>1, ConcatBytes, DropPrefix
  <2>4. Len(Spki(s)) = 88 /\ Drop(Spki(s), 23) = s
    BY <2>1, <2>2, <2>3
  <2> QED
    BY <2>4 DEF s
<1>3. Len(Spki(Compressed(k))) = 56
  <2> DEFINE h == SpkiHeader(33)
             s == Compressed(k)
  <2>1. h \in Bytes /\ Len(h) = 23 /\ s \in Bytes /\ Len(s) = 33
    BY <1>1, CompressedBytes
  <2>2. Spki(s) = h \o s
    BY <2>1 DEF Spki
  <2> HIDE DEF h, s
  <2>3. Len(h \o s) = Len(h) + Len(s)
    BY <2>1, ConcatBytes
  <2>4. Len(Spki(s)) = 56
    BY <2>1, <2>2, <2>3
  <2> QED
    BY <2>4 DEF s
<1>4. Len(<< >>) = 0
  OBVIOUS
<1>5. SpkiPoint(Spki(Uncompressed(k))) = k
  <2> DEFINE b == Spki(Uncompressed(k))
  <2>1. Len(b) = 88 /\ FromSlice(Drop(b, 23)) = k
    BY <1>2, FromSliceReads
  <2> HIDE DEF b
  <2>2. SpkiPoint(b) = k
    BY <2>1 DEF SpkiPoint
  <2> QED
    BY <2>2 DEF b
<1>6. SpkiPoint(Spki(Compressed(k))) = None
  <2> DEFINE b == Spki(Compressed(k))
  <2>1. Len(b) = 56
    BY <1>3
  <2> HIDE DEF b
  <2>2. SpkiPoint(b) = None
    BY <2>1 DEF SpkiPoint
  <2> QED
    BY <2>2 DEF b
<1>7. ASSUME NEW s, NEW t, NEW m, NEW n, Len(s) = m, Len(t) = n, m # n
      PROVE  s # t
  BY <1>7, Zenon
<1>8. 88 # 56 /\ 88 # 0 /\ 56 # 0
  OBVIOUS
<1>9. /\ Spki(Compressed(k)) # Spki(Uncompressed(k))
      /\ Spki(Uncompressed(k)) # << >> /\ Spki(Compressed(k)) # << >>
  <2> DEFINE a == Spki(Uncompressed(k))
             b == Spki(Compressed(k))
  <2>1. Len(a) = 88 /\ Len(b) = 56
    BY <1>2, <1>3
  <2> HIDE DEF a, b
  <2>2. a # b
    <3> SUFFICES ASSUME a = b PROVE FALSE
      OBVIOUS
    <3>1. Len(a) = 56
      BY <2>1
    <3> QED
      BY <1>8, <2>1, <3>1
  <2>3. a # << >> /\ b # << >>
    BY <1>4, <1>7, <1>8, <2>1
  <2> QED
    BY <2>2, <2>3 DEF a, b
<1> QED
  BY <1>5, <1>6, <1>9

-----------------------------------------------------------------------------
(* What has been read is what the parsers make of an answer for this key.  *)
Answered ==
  /\ key \in PublicKeys
  /\ \/ point = None /\ xpub = NoXpub
     \/ /\ point \in EcPoints(key) \cup {None}
        /\ \E length \in Lengths \cup {None} : xpub = BuildXpub(point, length)
  /\ \/ spki = << >>
     \/ spki \in Spkis(key) /\ tsbKey = SpkiPoint(spki)

LEMMA AnsweredInvariant == Spec => []Answered
<1>1. Init => Answered
  BY DEF Init, Answered
<1>2. Answered /\ [Next]_vars => Answered'
  <2> SUFFICES ASSUME Answered, [Next]_vars PROVE Answered'
    OBVIOUS
  <2> USE DEF Answered
  <2>1. CASE ReadXpub
    BY <2>1 DEF ReadXpub
  <2>2. CASE ReadSpki
    BY <2>2 DEF ReadSpki
  <2>3. CASE OtherKey
    BY <2>3 DEF OtherKey
  <2>4. CASE UNCHANGED vars
    BY <2>4 DEF vars
  <2> QED
    BY <2>1, <2>2, <2>3, <2>4 DEF Next
<1> QED
  BY <1>1, <1>2, PTL DEF Spec

LEMMA KeysAreSomething == \A k \in PublicKeys : k # None
BY NoneAssumption DEF PublicKeys

-----------------------------------------------------------------------------
(* Results.                                                                *)

(* Every OCTET STRING around a point, and every bare compressed point, is  *)
(* read as the key it encodes (src/pkcs11/backend.rs:621-637).             *)
THEOREM WrappedPointsRead == Spec => []WrappedRoundTrips
<1>1. Answered => WrappedRoundTrips
  <2> SUFFICES ASSUME Answered, point \in Wrapped(key) \cup {Compressed(key)},
                      xpub.res \notin {"noChain", "badChain"}
               PROVE  xpub = [res |-> "ok", key |-> key]
    BY DEF WrappedRoundTrips
  <2>1. ParseEcPoint(point) = key /\ point \in Bytes
    BY WrappedReads, CompressedReads DEF Answered
  <2>2. point # None /\ ParseEcPoint(point) # None
    BY <2>1, NoneAssumption, KeysAreSomething DEF Bytes, Answered
  <2>3. PICK length : xpub = BuildXpub(point, length)
    BY <2>2 DEF Answered
  <2> QED
    BY <2>1, <2>2, <2>3 DEF BuildXpub
<1> QED
  BY <1>1, AnsweredInvariant, PTL

(* A token whose answer is misread as another key has answered with a bare *)
(* uncompressed point of one particular shape                              *)
(* (src/pkcs11/backend.rs:621-637).                                        *)
THEOREM MisreadsAreAligned == Spec => []MisreadOnlyIfAligned
<1>1. Answered => MisreadOnlyIfAligned
  <2> SUFFICES ASSUME Answered, xpub.res = "ok", xpub.key # key
               PROVE  point = Uncompressed(key) /\ key.x[1] = 158 /\ key.x[32] \in {2, 3}
    BY DEF MisreadOnlyIfAligned
  <2>1. point \in EcPoints(key) \cup {None} /\ \E length : xpub = BuildXpub(point, length)
    BY DEF Answered, NoXpub
  <2>2. /\ point # None /\ ParseEcPoint(point) # None
        /\ xpub.key = ParseEcPoint(point)
    BY <2>1 DEF BuildXpub
  <2>3. key \in PublicKeys
    BY DEF Answered
  <2>4. point \notin Wrapped(key) /\ point # Compressed(key)
    BY <2>2, <2>3, WrappedReads, CompressedReads
  <2>5. point # << >> /\ point # Truncated(Compressed(key))
    BY <2>2, TruncatedRefused, EmptyRefused
  <2>6. point = Uncompressed(key)
    BY <2>1, <2>2, <2>4, <2>5 DEF EcPoints, Points
  <2> QED
    BY <2>2, <2>3, <2>6, UncompressedMisread
<1> QED
  BY <1>1, AnsweredInvariant, PTL

(* TSB's SubjectPublicKeyInfo of an uncompressed point gives the key, that *)
(* of a compressed one is refused (src/tsb/mod.rs:243-258).                *)
THEOREM SpkisAreOwn == Spec => []SpkiIsOwn
<1>1. Answered => SpkiIsOwn
  BY SpkiReads DEF Answered, SpkiIsOwn, Spkis, Points
<1> QED
  BY <1>1, AnsweredInvariant, PTL

(* The backend reads every point the probe can parse, and as the same key  *)
(* (examples/slip10_probe.rs:364-374, src/pkcs11/backend.rs:621-637).      *)
THEOREM ProbeAndBackendAgree == Spec => []ProbeAgrees
<1>1. ASSUME NEW k \in PublicKeys, NEW der \in EcPoints(k), der # << >>,
             ProbePoint(der) # None
      PROVE  ParseEcPoint(der) = ProbePoint(der)
  <2>1. CASE \E s \in Points(k) : der = Short(s)
    BY <2>1, PointBytes, UnwrapsShort DEF ParseEcPoint, ProbePoint
  <2>2. ASSUME NEW s \in Points(k), der = Long(s) \/ der = Padded(s)
        PROVE  FALSE
    <3>1. s = Compressed(k) \/ s = Uncompressed(k)
      BY DEF Points
    <3>2. s \in Bytes /\ Len(s) < 128
      BY PointBytes
    <3> DEFINE m == Len(s)
               d == Drop(der, 2)
    <3>3. m = 33 \/ m = 65
      BY <3>1, CompressedBytes, UncompressedBytes
    <3>4. (Len(d) = m + 1 \/ Len(d) = m + 2) /\ IsWrapped(der)
      BY <2>2, <3>2, UnwrapsLong, UnwrapsPadded
    <3> HIDE DEF m, d
    <3>5. FromSlice(d) = None
      <4>1. CASE m = 33
        BY <3>4, <4>1, NothingRead
      <4>2. CASE m = 65
        BY <3>4, <4>2, NothingRead
      <4> QED
        BY <3>3, <4>1, <4>2
    <3> QED
      BY <1>1, <3>4, <3>5 DEF ProbePoint, d
  <2>3. CASE der = Compressed(k)
    BY <2>3, CompressedReads, FromSliceReads DEF ProbePoint
  <2>4. CASE der = Uncompressed(k)
    <3> DEFINE b == Uncompressed(k)
    <3>1. b \in Bytes /\ Len(b) = 65 /\ b[1] = 4
      BY UncompressedBytes
    <3> HIDE DEF b
    <3>2. 2 <= Len(b) /\ IsWrapped(b)
      BY <3>1 DEF IsWrapped
    <3>3. Len(Drop(b, 2)) = 63
      <4>1. 2 \in Nat /\ 2 <= Len(b)
        BY <3>2
      <4>2. Len(Drop(b, 2)) = Len(b) - 2
        BY <3>1, <4>1, DropProperties
      <4> QED
        BY <3>1, <4>2
    <3>4. FromSlice(Drop(b, 2)) = None
      BY <3>3, NothingRead
    <3> QED
      BY <1>1, <2>4, <3>2, <3>4 DEF ProbePoint, b
  <2>5. CASE der = Truncated(Compressed(k))
    BY <1>1, <2>5, TruncatedRefused
  <2> QED
    BY <1>1, <2>1, <2>2, <2>3, <2>4, <2>5 DEF EcPoints, Wrapped, Points
<1>2. Answered => ProbeAgrees
  BY <1>1 DEF Answered, ProbeAgrees
<1> QED
  BY <1>2, AnsweredInvariant, PTL
=============================================================================
