--------------------------- MODULE PayloadsProofs ---------------------------
(***************************************************************************)
(* Proofs about the codecs and the payloads that go through them: for every *)
(* radix, table of types, packet, byte order and damage, decoders stay in   *)
(* their payload and on word boundaries, undamaged packets mean what was    *)
(* meant, and notifications are in order.                                   *)
(*                                                                          *)
(* From numbers to bytes, to encodings, to what decoders do with any bytes  *)
(* and with bytes that carry an encoding, to packets, and then the          *)
(* invariant of the steps.                                                  *)
(***************************************************************************)
EXTENDS Payloads, SequenceTheorems, TLAPS

-----------------------------------------------------------------------------
(* Numbers *)

\* Division with remainder.
LEMMA DivFacts ==
  ASSUME NEW n \in Int, NEW b \in Nat \ {0}
  PROVE  n \div b \in Int /\ n % b \in 0 .. b - 1 /\ n = b * (n \div b) + (n % b)
  OBVIOUS

\* A number below the square of a base has a quotient below the base.
LEMMA QuotientBelow ==
  ASSUME NEW b \in Nat \ {0}, NEW n \in 0 .. b * b - 1
  PROVE  n \div b \in 0 .. b - 1
<1>1. PICK q \in Int, r \in 0 .. b - 1 : q = n \div b /\ n = b * q + r
  BY DivFacts
<1>2. q >= 0
  <2> SUFFICES ASSUME q <= -1 PROVE FALSE
    OBVIOUS
  <2>1. b * q <= b * (-1)
    OBVIOUS
  <2> QED BY <1>1, <2>1
<1>3. q < b
  <2> SUFFICES ASSUME q >= b PROVE FALSE
    BY <1>1
  <2>1. b * q >= b * b
    OBVIOUS
  <2> QED BY <1>1, <2>1
<1> QED BY <1>1, <1>2, <1>3

\* Quotient and remainder are determined.
LEMMA DivUnique ==
  ASSUME NEW b \in Nat \ {0}, NEW q \in Int, NEW r \in 0 .. b - 1
  PROVE  (b * q + r) \div b = q /\ (b * q + r) % b = r
<1>1. PICK n \in Int : n = b * q + r
  OBVIOUS
<1>2. PICK p \in Int, s \in 0 .. b - 1 : p = n \div b /\ s = n % b /\ n = b * p + s
  BY DivFacts
<1>3. b * q + r = b * p + s
  BY <1>1, <1>2
<1>4. ~(q < p)
  <2> SUFFICES ASSUME q + 1 <= p PROVE FALSE
    OBVIOUS
  <2>1. b * (q + 1) <= b * p
    OBVIOUS
  <2> QED BY <1>3, <2>1
<1>5. ~(p < q)
  <2> SUFFICES ASSUME p + 1 <= q PROVE FALSE
    OBVIOUS
  <2>1. b * (p + 1) <= b * q
    OBVIOUS
  <2> QED BY <1>3, <2>1
<1>6. p = q /\ r = s
  BY <1>2, <1>3, <1>4, <1>5
<1> QED BY <1>1, <1>2, <1>6

\* Two digits are a number below the square of their base.
LEMMA WholeBelow ==
  ASSUME NEW b \in Nat \ {0}, NEW x \in 0 .. b - 1, NEW y \in 0 .. b - 1, NEW o
  PROVE  Whole(x, y, b, o) \in 0 .. b * b - 1
<1>1. ASSUME NEW q \in 0 .. b - 1, NEW r \in 0 .. b - 1 PROVE q * b + r \in 0 .. b * b - 1
  <2>1. q * b \in Int /\ q * b >= 0 /\ b * b \in Int /\ (b - 1) * b = b * b - b
    OBVIOUS
  <2>2. q * b <= (b - 1) * b
    OBVIOUS
  <2> QED BY <2>1, <2>2
<1> QED BY <1>1 DEF Whole

\* The digits of a number, and the number of its digits.
LEMMA HalvesFacts ==
  ASSUME NEW b \in Nat \ {0}, NEW n \in Int, NEW o
  PROVE  LET h == Halves(n, b, o)
         IN  /\ h[1] \in 0 .. b - 1 /\ h[2] \in 0 .. b - 1 /\ h = <<h[1], h[2]>>
             /\ n \in 0 .. b * b - 1 => Whole(h[1], h[2], b, o) = n
<1>1. PICK q \in Int, r \in 0 .. b - 1 : q = n \div b /\ r = n % b /\ n = b * q + r
  BY DivFacts
<1>2. PICK p \in 0 .. b - 1 : p = q % b
  BY DivFacts
<1>3. Halves(n, b, o) = IF o = "big" THEN <<p, r>> ELSE <<r, p>>
  BY <1>1, <1>2 DEF Halves
<1>4. ASSUME n \in 0 .. b * b - 1 PROVE p = q /\ p * b + r = n
  <2>1. q \in 0 .. b - 1
    BY <1>1, <1>4, QuotientBelow
  <2>2. q = b * 0 + q
    BY <2>1
  <2>3. q % b = q
    BY <2>1, <2>2, DivUnique
  <2>4. p * b = b * p
    OBVIOUS
  <2> QED BY <1>1, <1>2, <2>3, <2>4
<1>5. CASE o = "big"
  BY <1>3, <1>4, <1>5 DEF Whole
<1>6. CASE o # "big"
  BY <1>3, <1>4, <1>6 DEF Whole
<1> QED BY <1>5, <1>6

\* Sums of whole words.
LEMMA WordsAdd ==
  ASSUME NEW a \in Nat, NEW b \in Nat, a % 4 = 0, b % 4 = 0
  PROVE  (a + b) % 4 = 0
OBVIOUS

\* The bases of the numbers.
LEMMA Bases ==
  /\ Radix \in Nat \ {0} /\ HalfWord \in Nat \ {0} /\ Word \in Nat \ {0}
  /\ HalfWord = Radix * Radix /\ Word = HalfWord * HalfWord
<1>1. Radix \in Nat \ {0} /\ Radix * Radix \in Nat \ {0}
  BY CodecAssumption
<1>2. HalfWord \in Nat \ {0}
  BY <1>1 DEF HalfWord
<1>3. HalfWord * HalfWord \in Nat \ {0}
  BY <1>2
<1> QED BY <1>1, <1>2, <1>3 DEF HalfWord, Word

-----------------------------------------------------------------------------
(* Bytes *)

\* The payload has these bytes at an offset.
Carries(payload, at, bytes) ==
  \A i \in 1 .. Len(bytes) : at + i \in DOMAIN payload /\ payload[at + i] = bytes[i]

\* Two encodings one after the other are carried one after the other.
LEMMA CarriesBoth ==
  ASSUME NEW payload, NEW at \in Nat, NEW a \in Seq(Byte), NEW b \in Seq(Byte),
         Carries(payload, at, a \o b)
  PROVE  Carries(payload, at, a) /\ Carries(payload, at + Len(a), b)
<1>1. /\ Len(a) \in Nat /\ Len(b) \in Nat /\ Len(a \o b) = Len(a) + Len(b)
      /\ \A i \in 1 .. Len(a) : (a \o b)[i] = a[i]
      /\ \A i \in 1 .. Len(b) : (a \o b)[Len(a) + i] = b[i]
  BY ConcatProperties
<1>2. ASSUME NEW i \in 1 .. Len(a) PROVE at + i \in DOMAIN payload /\ payload[at + i] = a[i]
  <2>1. i \in 1 .. Len(a \o b)
    BY <1>1
  <2> QED BY <1>1, <2>1 DEF Carries
<1>3. ASSUME NEW i \in 1 .. Len(b)
      PROVE  at + Len(a) + i \in DOMAIN payload /\ payload[at + Len(a) + i] = b[i]
  <2>1. Len(a) + i \in 1 .. Len(a \o b)
    BY <1>1
  <2>2. at + (Len(a) + i) = at + Len(a) + i
    BY <1>1
  <2> QED BY <1>1, <2>1, <2>2 DEF Carries
<1> QED BY <1>2, <1>3 DEF Carries

\* A number in two bytes.
LEMMA Uint16Codec ==
  ASSUME NEW n \in Int, NEW o
  PROVE  /\ PutUint16(n, o) \in Seq(Byte) /\ Len(PutUint16(n, o)) = 2
         /\ n \in 0 .. HalfWord - 1 =>
              \A payload \in Seq(Byte), at \in Nat :
                Carries(payload, at, PutUint16(n, o)) => GetUint16(payload, at, o) = n
<1>1. PICK x, y : /\ x \in Byte /\ y \in Byte /\ PutUint16(n, o) = <<x, y>>
                  /\ n \in 0 .. HalfWord - 1 => Whole(x, y, Radix, o) = n
  BY HalvesFacts, Bases DEF PutUint16, Byte
<1>2. ASSUME n \in 0 .. HalfWord - 1, NEW payload \in Seq(Byte), NEW at \in Nat,
             Carries(payload, at, PutUint16(n, o))
      PROVE  GetUint16(payload, at, o) = n
  <2>1. at + 1 \in DOMAIN payload /\ payload[at + 1] = x /\ at + 2 \in DOMAIN payload /\ payload[at + 2] = y
    BY <1>1, <1>2 DEF Carries
  <2> QED BY <1>1, <1>2, <2>1 DEF GetUint16, At
<1>3. PutUint16(n, o) \in Seq(Byte) /\ Len(PutUint16(n, o)) = 2
  BY <1>1
<1> QED BY <1>2, <1>3

\* A number in four bytes.
LEMMA Uint32Codec ==
  ASSUME NEW n \in Int, NEW o
  PROVE  /\ PutUint32(n, o) \in Seq(Byte) /\ Len(PutUint32(n, o)) = 4
         /\ n \in 0 .. Word - 1 =>
              \A payload \in Seq(Byte), at \in Nat :
                Carries(payload, at, PutUint32(n, o)) => GetUint32(payload, at, o) = n
<1>1. PICK x \in 0 .. HalfWord - 1, y \in 0 .. HalfWord - 1 :
        /\ Halves(n, HalfWord, o) = <<x, y>>
        /\ n \in 0 .. Word - 1 => Whole(x, y, HalfWord, o) = n
  BY HalvesFacts, Bases
<1>2. PutUint32(n, o) = PutUint16(x, o) \o PutUint16(y, o)
  BY <1>1 DEF PutUint32
<1>3. x \in Int /\ y \in Int
  BY Bases
<1>4. PICK a \in Seq(Byte), b \in Seq(Byte) :
        /\ a = PutUint16(x, o) /\ b = PutUint16(y, o) /\ Len(a) = 2 /\ Len(b) = 2
  BY <1>3, Uint16Codec
<1>5. PutUint32(n, o) = a \o b /\ a \o b \in Seq(Byte) /\ Len(a \o b) = 4
  <2>1. a \o b \in Seq(Byte) /\ Len(a \o b) = Len(a) + Len(b)
    BY ConcatProperties, Zenon
  <2> QED BY <1>2, <1>4, <2>1
<1>6. ASSUME n \in 0 .. Word - 1, NEW payload \in Seq(Byte), NEW at \in Nat,
             Carries(payload, at, PutUint32(n, o))
      PROVE  GetUint32(payload, at, o) = n
  <2>1. Carries(payload, at, a) /\ Carries(payload, at + 2, b) /\ at + 2 \in Nat
    BY <1>4, <1>5, <1>6, CarriesBoth
  <2>2. GetUint16(payload, at, o) = x
    BY <1>3, <1>4, <2>1, Uint16Codec
  <2>3. GetUint16(payload, at + 2, o) = y
    BY <1>3, <1>4, <2>1, Uint16Codec
  <2> QED BY <1>1, <1>6, <2>2, <2>3 DEF GetUint32
<1> QED BY <1>5, <1>6

\* A number in eight bytes.
LEMMA Uint64Codec ==
  ASSUME NEW n \in Int, NEW o
  PROVE  /\ PutUint64(n, o) \in Seq(Byte) /\ Len(PutUint64(n, o)) = 8
         /\ n \in 0 .. Word * Word - 1 =>
              \A payload \in Seq(Byte), at \in Nat :
                Carries(payload, at, PutUint64(n, o)) => GetUint64(payload, at, o) = n
<1>1. PICK x \in 0 .. Word - 1, y \in 0 .. Word - 1 :
        /\ Halves(n, Word, o) = <<x, y>>
        /\ n \in 0 .. Word * Word - 1 => Whole(x, y, Word, o) = n
  BY HalvesFacts, Bases
<1>2. PutUint64(n, o) = PutUint32(x, o) \o PutUint32(y, o)
  BY <1>1 DEF PutUint64
<1>3. x \in Int /\ y \in Int
  BY Bases
<1>4. PICK a \in Seq(Byte), b \in Seq(Byte) :
        /\ a = PutUint32(x, o) /\ b = PutUint32(y, o) /\ Len(a) = 4 /\ Len(b) = 4
  BY <1>3, Uint32Codec
<1>5. PutUint64(n, o) = a \o b /\ a \o b \in Seq(Byte) /\ Len(a \o b) = 8
  <2>1. a \o b \in Seq(Byte) /\ Len(a \o b) = Len(a) + Len(b)
    BY ConcatProperties, Zenon
  <2> QED BY <1>2, <1>4, <2>1
<1>6. ASSUME n \in 0 .. Word * Word - 1, NEW payload \in Seq(Byte), NEW at \in Nat,
             Carries(payload, at, PutUint64(n, o))
      PROVE  GetUint64(payload, at, o) = n
  <2>1. Carries(payload, at, a) /\ Carries(payload, at + 4, b) /\ at + 4 \in Nat
    BY <1>4, <1>5, <1>6, CarriesBoth
  <2>2. GetUint32(payload, at, o) = x
    BY <1>3, <1>4, <2>1, Uint32Codec
  <2>3. GetUint32(payload, at + 4, o) = y
    BY <1>3, <1>4, <2>1, Uint32Codec
  <2> QED BY <1>1, <1>6, <2>2, <2>3 DEF GetUint64
<1> QED BY <1>5, <1>6

\* What is read is a byte, whatever the offset.
LEMMA GetsByte ==
  ASSUME NEW payload \in Seq(Byte), NEW i
  PROVE  At(payload, i) \in Byte
<1>1. 0 \in Byte
  BY Bases DEF Byte
<1>2. \A k \in DOMAIN payload : payload[k] \in Byte
  OBVIOUS
<1> QED BY <1>1, <1>2 DEF At

\* What is read is a number of its width, whatever the bytes.
LEMMA GetsUint ==
  ASSUME NEW payload \in Seq(Byte), NEW at \in Nat, NEW o
  PROVE  /\ GetUint16(payload, at, o) \in 0 .. HalfWord - 1
         /\ GetUint32(payload, at, o) \in 0 .. Word - 1
         /\ GetUint64(payload, at, o) \in 0 .. Word * Word - 1
<1>1. \A i : At(payload, i) \in 0 .. Radix - 1
  BY GetsByte DEF Byte
<1>2. ASSUME NEW k \in Nat PROVE GetUint16(payload, k, o) \in 0 .. HalfWord - 1
  BY <1>1, WholeBelow, Bases DEF GetUint16
<1>3. ASSUME NEW k \in Nat PROVE GetUint32(payload, k, o) \in 0 .. Word - 1
  <2>1. k + 2 \in Nat
    OBVIOUS
  <2> QED BY <1>2, <2>1, WholeBelow, Bases DEF GetUint32
<1>4. at + 4 \in Nat
  OBVIOUS
<1> QED BY <1>2, <1>3, <1>4, WholeBelow, Bases DEF GetUint64

-----------------------------------------------------------------------------
(* Encodings *)

\* What a header can announce.
WholeWords == {bytes \in Seq(Byte) : Len(bytes) % 4 = 0}

\* An error is no encoding.
LEMMA NoBytesIsNone ==
  NoBytes \notin Seq(Byte)
<1> SUFFICES ASSUME NoBytes \in Seq(Byte) PROVE FALSE
  OBVIOUS
<1>1. 1 \in DOMAIN NoBytes /\ NoBytes[1] = -1
  BY DEF NoBytes
<1>2. NoBytes[1] \in Byte
  BY <1>1
<1> QED BY <1>1, <1>2 DEF Byte

\* One encoding after the other.
LEMMA ConcatBytes ==
  ASSUME NEW a \in Seq(Byte), NEW b \in Seq(Byte)
  PROVE  /\ a \o b \in Seq(Byte) /\ Len(a \o b) = Len(a) + Len(b) /\ a \o b # NoBytes
         /\ Len(a) \in Nat /\ Len(b) \in Nat
         /\ a \in WholeWords /\ b \in WholeWords => a \o b \in WholeWords
<1>1. a \o b \in Seq(Byte) /\ Len(a \o b) = Len(a) + Len(b)
  BY ConcatProperties, Zenon
<1>2. Len(a) \in Nat /\ Len(b) \in Nat
  OBVIOUS
<1>3. ASSUME Len(a) % 4 = 0, Len(b) % 4 = 0 PROVE (Len(a) + Len(b)) % 4 = 0
  BY <1>2, <1>3
<1> QED BY <1>1, <1>2, <1>3, NoBytesIsNone DEF WholeWords

\* A packet or an item of several parts is encoded if every part is.
LEMMA CatEncodes ==
  ASSUME NEW a \in WholeWords \cup {NoBytes}, NEW b \in WholeWords \cup {NoBytes}
  PROVE  /\ Cat(a, b) \in WholeWords \cup {NoBytes}
         /\ Cat(a, b) # NoBytes <=> a # NoBytes /\ b # NoBytes
         /\ Cat(a, b) # NoBytes =>
              a \in WholeWords /\ b \in WholeWords /\ Cat(a, b) = a \o b /\ Cat(a, b) \in WholeWords
<1>1. CASE NoBytes \in {a, b}
  BY <1>1 DEF Cat
<1>2. CASE NoBytes \notin {a, b}
  <2>1. a \in Seq(Byte) /\ b \in Seq(Byte) /\ a \in WholeWords /\ b \in WholeWords
    BY <1>2 DEF WholeWords
  <2>2. a \o b \in WholeWords /\ a \o b # NoBytes
    BY <2>1, ConcatBytes
  <2> QED BY <1>2, <2>1, <2>2 DEF Cat
<1> QED BY <1>1, <1>2

\* A function on an interval from 1 is a sequence.
LEMMA FunctionIsSeq ==
  ASSUME NEW S, NEW n \in Nat, NEW f \in [1 .. n -> S]
  PROVE  f \in Seq(S) /\ Len(f) = n
<1>1. f \in Seq(S)
  BY SeqDef
<1>2. DOMAIN f = 1 .. n
  OBVIOUS
<1> QED BY <1>1, <1>2

\* Carried bytes are there.
LEMMA CarriedFits ==
  ASSUME NEW payload \in Seq(Byte), NEW at \in Nat, NEW bytes \in Seq(Byte),
         Len(bytes) > 0, Carries(payload, at, bytes)
  PROVE  at + Len(bytes) <= Len(payload)
<1>1. Len(bytes) \in 1 .. Len(bytes) /\ Len(payload) \in Nat /\ DOMAIN payload = 1 .. Len(payload)
  OBVIOUS
<1>2. at + Len(bytes) \in DOMAIN payload
  BY <1>1 DEF Carries
<1> QED BY <1>1, <1>2

\* The four bytes of a sub-identifier among those of an oid.
LEMMA SubidentifierBytes ==
  ASSUME NEW subs \in OIDs, NEW o
  PROVE  /\ PutSubidentifiers(subs, o) \in Seq(Byte)
         /\ Len(PutSubidentifiers(subs, o)) = 4 * Len(subs)
         /\ \A k \in 1 .. Len(subs), j \in 1 .. 4 :
              PutSubidentifiers(subs, o)[4 * (k - 1) + j] = PutUint32(subs[k], o)[j]
<1>1. Len(subs) \in Nat /\ 4 * Len(subs) \in Nat /\ \A k \in 1 .. Len(subs) : subs[k] \in Uint32
  BY DEF OIDs
<1>2. \A m \in Uint32 : m \in Int
  BY Bases DEF Uint32
<1>3. ASSUME NEW i \in 1 .. 4 * Len(subs)
      PROVE  PutUint32(subs[(i + 3) \div 4], o)[((i - 1) % 4) + 1] \in Byte
  <2>1. (i + 3) \div 4 \in 1 .. Len(subs) /\ ((i - 1) % 4) + 1 \in 1 .. 4
    BY <1>1
  <2>2. PICK m \in Int : m = subs[(i + 3) \div 4]
    BY <1>1, <1>2, <2>1
  <2>3. PICK bytes \in Seq(Byte) : bytes = PutUint32(m, o) /\ Len(bytes) = 4
    BY Uint32Codec
  <2>4. \A j \in 1 .. 4 : bytes[j] \in Byte
    BY <2>3, ElementOfSeq, Zenon
  <2> QED BY <2>1, <2>2, <2>3, <2>4
<1>4. PutSubidentifiers(subs, o) \in [1 .. 4 * Len(subs) -> Byte]
  BY <1>3 DEF PutSubidentifiers
<1>5. ASSUME NEW k \in 1 .. Len(subs), NEW j \in 1 .. 4
      PROVE  PutSubidentifiers(subs, o)[4 * (k - 1) + j] = PutUint32(subs[k], o)[j]
  <2>1. PICK i \in 1 .. 4 * Len(subs) :
          /\ i = 4 * (k - 1) + j /\ (i + 3) \div 4 = k /\ ((i - 1) % 4) + 1 = j
    BY <1>1
  <2> QED BY <2>1 DEF PutSubidentifiers
<1> QED BY <1>1, <1>4, <1>5, FunctionIsSeq

\* An oid that is not too long is encoded, and what is decoded is that oid.
LEMMA OIDCodec ==
  ASSUME NEW x \in ObjectIdentifiers, NEW o
  PROVE  LET bytes == MarshalOID(x, o) IN
         /\ bytes \in WholeWords \cup {NoBytes}
         /\ bytes # NoBytes <=> Len(x.subs) <= MaxSubidentifiers
         /\ bytes # NoBytes =>
              /\ bytes \in WholeWords /\ Len(bytes) >= 4
              /\ \A payload \in Seq(Byte), at \in Nat :
                   Carries(payload, at, bytes) =>
                     UnmarshalOID(payload, at, o) = Decoded(Len(bytes), Len(bytes), x)
<1>1. PICK prefix \in Byte, include \in Byte, subs \in OIDs :
        x = [prefix |-> prefix, include |-> include, subs |-> subs]
  BY DEF ObjectIdentifiers
<1>2. PICK n \in Nat, max \in Nat : n = Len(subs) /\ max = MaxSubidentifiers /\ max <= Radix - 1
  BY CodecAssumption DEF OIDs, Byte
<1>3. CASE n > max
  BY <1>1, <1>2, <1>3 DEF MarshalOID
<1>4. CASE n <= max
  <2>1. n \in Byte /\ 0 \in Byte
    BY <1>2, <1>4, Bases DEF Byte
  <2>2. PICK front \in Seq(Byte) : front = <<n, prefix, include, 0>>
    <3>1. <<n, prefix, include, 0>> \in Seq(Byte)
      BY <2>1
    <3> QED BY <3>1, Zenon
  <2>3. Len(front) = 4 /\ front[1] = n /\ front[2] = prefix /\ front[3] = include
    BY <2>2
  <2>4. PICK rest \in Seq(Byte) :
          /\ rest = PutSubidentifiers(subs, o) /\ Len(rest) = 4 * n
          /\ \A k \in 1 .. n, j \in 1 .. 4 : rest[4 * (k - 1) + j] = PutUint32(subs[k], o)[j]
    <3>1. PICK rest : rest = PutSubidentifiers(subs, o)
      OBVIOUS
    <3>2. /\ rest \in Seq(Byte) /\ Len(rest) = 4 * Len(subs)
          /\ \A k \in 1 .. Len(subs), j \in 1 .. 4 : rest[4 * (k - 1) + j] = PutUint32(subs[k], o)[j]
      BY <3>1, SubidentifierBytes
    <3> QED BY <1>2, <3>1, <3>2, Zenon
  <2>5. MarshalOID(x, o) = front \o rest
    BY <1>1, <1>2, <1>4, <2>2, <2>4 DEF MarshalOID
  <2>6. PICK bytes \in Seq(Byte) :
          bytes = front \o rest /\ bytes # NoBytes /\ Len(bytes) = Len(front) + Len(rest)
    BY ConcatBytes
  <2>7. Len(bytes) = 4 + 4 * n
    BY <2>3, <2>4, <2>6
  <2>8. (4 + 4 * n) % 4 = 0
    OBVIOUS
  <2>9. bytes \in WholeWords
    BY <2>7, <2>8 DEF WholeWords
  <2>10. ASSUME NEW payload \in Seq(Byte), NEW at \in Nat, Carries(payload, at, bytes)
         PROVE  UnmarshalOID(payload, at, o) = Decoded(4 + 4 * n, 4 + 4 * n, x)
    <3>1. Carries(payload, at, front) /\ Carries(payload, at + Len(front), rest)
      BY <2>6, <2>10, CarriesBoth
    <3>2. PICK len \in Nat : len = Len(payload) /\ at + 4 + 4 * n <= len
      <4>1. Len(bytes) > 0
        BY <2>7
      <4>2. at + Len(bytes) <= Len(payload)
        BY <2>10, <4>1, CarriedFits
      <4>3. Len(payload) \in Nat
        OBVIOUS
      <4> QED BY <2>7, <4>2, <4>3
    <3>3. At(payload, at + 1) = n /\ At(payload, at + 2) = prefix /\ At(payload, at + 3) = include
      BY <2>3, <3>1 DEF Carries, At
    <3>4. ASSUME NEW k \in 1 .. n
          PROVE  GetUint32(payload, (at + 4) + 4 * (k - 1), o) = subs[k]
      <4>1. subs[k] \in Uint32
        BY <1>2, ElementOfSeq DEF OIDs
      <4>2. PICK m \in Int : m = subs[k] /\ m \in 0 .. Word - 1
        BY <4>1, Bases DEF Uint32
      <4>3. PutUint32(m, o) \in Seq(Byte) /\ Len(PutUint32(m, o)) = 4
        BY Uint32Codec
      <4>4. PICK w \in Nat : w = (at + 4) + 4 * (k - 1)
        OBVIOUS
      <4>5. ASSUME NEW j \in 1 .. 4
            PROVE  w + j \in DOMAIN payload /\ payload[w + j] = PutUint32(m, o)[j]
        <5>1. PICK i \in 1 .. 4 * n : i = 4 * (k - 1) + j /\ at + 4 + i = w + j
          BY <4>4
        <5>2. rest[i] = PutUint32(m, o)[j]
          BY <2>4, <4>2, <5>1
        <5>3. i \in 1 .. Len(rest) /\ (at + Len(front)) + i = w + j
          BY <2>3, <2>4, <5>1
        <5>4. (at + Len(front)) + i \in DOMAIN payload /\ payload[(at + Len(front)) + i] = rest[i]
          BY <3>1, <5>3 DEF Carries
        <5> QED BY <5>2, <5>3, <5>4
      <4>6. Carries(payload, w, PutUint32(m, o))
        BY <4>3, <4>5 DEF Carries
      <4> QED BY <4>2, <4>4, <4>6, Uint32Codec
    <3>5. GetSubidentifiers(payload, at + 4, n, o) = subs
      <4>1. subs = [k \in 1 .. n |-> subs[k]]
        BY <1>2 DEF OIDs
      <4> QED BY <3>4, <4>1 DEF GetSubidentifiers
    <3>6. OIDSize(n) = 4 + 4 * n
      BY DEF OIDSize
    <3>7. HasWord(payload, at) /\ OIDFits(n, len - at)
      BY <1>2, <1>4, <3>2, <3>6 DEF OIDFits, HasWord
    <3> QED BY <1>1, <3>2, <3>3, <3>5, <3>6, <3>7 DEF UnmarshalOID
  <2>11. x.subs = subs
    BY <1>1
  <2> QED BY <1>2, <1>4, <2>5, <2>6, <2>7, <2>9, <2>10, <2>11
<1> QED BY <1>2, <1>3, <1>4

\* The bytes that fill a text up to a whole word.
LEMMA PaddingFacts ==
  ASSUME NEW n \in Nat
  PROVE  /\ padding(n) \in 0 .. 3 /\ (n + padding(n)) % 4 = 0 /\ octetStringSize(n) = 4 + n + padding(n)
         /\ octetStringSize(n) \in Nat /\ octetStringSize(n) % 4 = 0
         /\ \A avail \in Nat : avail % 4 = 0 /\ n <= avail - 4 => octetStringSize(n) <= avail
<1>1. PICK k \in Nat, m \in 0 .. 3 : n = 4 * k + m /\ m = n % 4
  <2>1. PICK k \in Int : k = n \div 4 /\ n = 4 * k + (n % 4) /\ n % 4 \in 0 .. 3
    OBVIOUS
  <2> QED BY <2>1
<1>2. padding(n) = IF m = 0 THEN 0 ELSE 4 - m
  BY <1>1 DEF padding
<1>3. PICK q \in 0 .. 3 : q = padding(n) /\ (m = 0 => q = 0) /\ (m # 0 => q = 4 - m)
  BY <1>2
<1>4. PICK w \in Nat : n + q = 4 * w
  <2>1. CASE m = 0
    BY <1>1, <1>3, <2>1
  <2>2. CASE m # 0
    <3>1. k + 1 \in Nat /\ n + q = 4 * (k + 1)
      BY <1>1, <1>3, <2>2
    <3> QED BY <3>1
  <2> QED BY <2>1, <2>2
<1>5. (n + q) % 4 = 0
  BY <1>4
<1>6. (4 + n + q) % 4 = 0 /\ 4 + n + q \in Nat
  <2>1. PICK u \in Nat : 4 + n + q = 4 * u
    <3>1. 4 + n + q = 4 * (w + 1) /\ w + 1 \in Nat
      BY <1>4
    <3> QED BY <3>1
  <2> QED BY <2>1
<1>7. ASSUME NEW avail \in Nat, avail % 4 = 0, n <= avail - 4 PROVE 4 + n + q <= avail
  <2>1. PICK u \in Int : avail = 4 * u
    BY <1>7
  <2>2. 4 * w <= 4 * u - 1
    BY <1>3, <1>4, <1>7, <2>1
  <2> QED BY <1>4, <2>1, <2>2
<1> QED BY <1>3, <1>5, <1>6, <1>7 DEF octetStringSize

\* A text is encoded, and what is decoded is that text.
LEMMA TextCodec ==
  ASSUME NEW text \in Texts, NEW o
  PROVE  LET bytes == MarshalText(text, o) IN
         /\ bytes \in WholeWords /\ bytes # NoBytes /\ Len(bytes) >= 4
         /\ \A payload \in Seq(Byte), at \in Nat :
              Carries(payload, at, bytes) =>
                UnmarshalText(payload, at, o) = Decoded(Len(bytes), 4 + Len(text), text)
<1>1. text \in Seq(Byte)
  BY DEF Texts
<1>2. PICK n \in Nat : n = Len(text) /\ n \in 0 .. Word - 1 /\ n \in Int
  BY <1>1, Bases DEF Texts
<1>3. PICK front \in Seq(Byte) : front = PutUint32(n, o) /\ Len(front) = 4
  BY <1>2, Uint32Codec
<1>4. PICK q \in 0 .. 3 : q = padding(n) /\ octetStringSize(n) = 4 + n + q /\ (4 + n + q) % 4 = 0
  BY PaddingFacts
<1>5. PICK pad \in Seq(Byte) : pad = TextPad(n) /\ Len(pad) = q
  <2>1. 0 \in Byte
    BY Bases DEF Byte
  <2>2. TextPad(n) \in [1 .. q -> Byte]
    BY <1>4, <2>1 DEF TextPad
  <2> QED BY <2>2, FunctionIsSeq
<1>6. PICK start \in Seq(Byte) : start = front \o text /\ Len(start) = 4 + n
  <2>1. front \o text \in Seq(Byte) /\ Len(front \o text) = Len(front) + Len(text)
    BY <1>1, ConcatBytes
  <2> QED BY <1>2, <1>3, <2>1
<1>7. PICK bytes \in Seq(Byte) : bytes = start \o pad /\ bytes # NoBytes /\ Len(bytes) = (4 + n) + q
  <2>1. start \o pad \in Seq(Byte) /\ start \o pad # NoBytes /\ Len(start \o pad) = Len(start) + Len(pad)
    BY ConcatBytes
  <2> QED BY <1>5, <1>6, <2>1
<1>8. MarshalText(text, o) = bytes
  BY <1>2, <1>3, <1>5, <1>6, <1>7 DEF MarshalText
<1>9. bytes \in WholeWords /\ Len(bytes) >= 4
  BY <1>4, <1>7 DEF WholeWords
<1>10. ASSUME NEW payload \in Seq(Byte), NEW at \in Nat, Carries(payload, at, bytes)
       PROVE  UnmarshalText(payload, at, o) = Decoded((4 + n) + q, 4 + n, text)
  <2>1. Carries(payload, at, start)
    BY <1>7, <1>10, CarriesBoth
  <2>2. Carries(payload, at, front) /\ Carries(payload, at + 4, text)
    BY <1>1, <1>3, <1>6, <2>1, CarriesBoth
  <2>3. GetUint32(payload, at, o) = n
    BY <1>2, <1>3, <2>2, Uint32Codec
  <2>4. PICK len \in Nat : len = Len(payload) /\ at + 4 + n <= len
    <3>1. Len(start) > 0
      BY <1>6
    <3>2. at + Len(start) <= Len(payload) /\ Len(payload) \in Nat
      BY <2>1, <3>1, CarriedFits
    <3> QED BY <1>6, <3>2
  <2>5. SubSeq(payload, at + 5, at + 4 + n) = text
    <3>1. PICK m \in Int, k \in Int : m = at + 5 /\ k = at + 4 + n
      OBVIOUS
    <3>2. \A i \in m .. k : payload[i] \in Byte
      <4>1. \A i \in 1 .. len : payload[i] \in Byte
        BY <2>4, ElementOfSeq
      <4> QED BY <2>4, <3>1, <4>1
    <3>3. /\ SubSeq(payload, m, k) \in Seq(Byte)
          /\ Len(SubSeq(payload, m, k)) = IF m <= k THEN k - m + 1 ELSE 0
          /\ \A i \in 1 .. k - m + 1 : SubSeq(payload, m, k)[i] = payload[m + i - 1]
      BY <3>2, SubSeqProperties
    <3>4. Len(SubSeq(payload, m, k)) = n /\ k - m + 1 = n
      BY <3>1, <3>3
    <3>5. ASSUME NEW i \in 1 .. n PROVE SubSeq(payload, m, k)[i] = text[i]
      <4>1. m + i - 1 = (at + 4) + i
        BY <3>1
      <4> QED BY <1>2, <2>2, <3>3, <3>4, <4>1 DEF Carries
    <3>6. SubSeq(payload, m, k) = text
      BY <1>1, <1>2, <3>3, <3>4, <3>5, SeqEqual
    <3> QED BY <3>1, <3>6
  <2>6. HasWord(payload, at) /\ ~(n > len - at - 4)
    BY <2>4 DEF HasWord
  <2> QED BY <1>4, <2>3, <2>4, <2>5, <2>6 DEF UnmarshalText
<1> QED BY <1>2, <1>7, <1>8, <1>9, <1>10

-----------------------------------------------------------------------------
(* Decoding any payload *)

\* A decoder has looked at bytes of the payload only, whether it accepts or rejects.
\* One that accepts has used whole words, at least as many bytes as said, and none
\* that are not there if the payload is whole words.
Fits(r, payload, at, least) ==
  \/ /\ r.ok = FALSE /\ r.reach \in Nat
     /\ at <= Len(payload) => at + r.reach <= Len(payload)
  \/ /\ r.ok = TRUE
     /\ r.size \in Nat /\ r.reach \in Nat /\ r.size % 4 = 0 /\ r.size >= least
     /\ at + r.reach <= Len(payload)
     /\ Len(payload) % 4 = 0 /\ at % 4 = 0 => at + r.size <= Len(payload)

\* A success is judged by its numbers.
LEMMA DecodedFits ==
  ASSUME NEW payload, NEW at, NEW least, NEW value, NEW size \in Nat, NEW reached \in Nat,
         size % 4 = 0, size >= least, at + reached <= Len(payload),
         Len(payload) % 4 = 0 /\ at % 4 = 0 => at + size <= Len(payload)
  PROVE  Fits(Decoded(size, reached, value), payload, at, least)
BY DEF Fits, Decoded

\* So is a rejection.
LEMMA RejectedFits ==
  ASSUME NEW payload, NEW at, NEW least, NEW reached \in Nat,
         at <= Len(payload) => at + reached <= Len(payload)
  PROVE  Fits(Rejected(reached), payload, at, least) /\ Rejected(reached).ok = FALSE
BY DEF Fits, Rejected

\* One that has looked at nothing fits anywhere.
LEMMA RejectedAtOnce ==
  ASSUME NEW payload \in Seq(Byte), NEW at \in Nat, NEW least
  PROVE  Fits(Rejected(0), payload, at, least) /\ Rejected(0).ok = FALSE
<1>1. 0 \in Nat /\ at + 0 = at
  OBVIOUS
<1> QED BY <1>1, RejectedFits

\* An oid whose count is more than there is is refused (object_identifier.go).
LEMMA OIDDecodes ==
  ASSUME NEW payload \in Seq(Byte), NEW at \in Nat, NEW o
  PROVE  /\ Fits(UnmarshalOID(payload, at, o), payload, at, 4)
         /\ UnmarshalOID(payload, at, o).ok = TRUE =>
              at + UnmarshalOID(payload, at, o).size <= Len(payload)
<1>1. PICK count : count = At(payload, at + 1)
  OBVIOUS
<1>2. count \in Nat
  BY <1>1, GetsByte DEF Byte
<1>3. PICK len \in Nat : len = Len(payload)
  OBVIOUS
<1>4. CASE ~HasWord(payload, at)
  <2>1. UnmarshalOID(payload, at, o) = Rejected(0)
    BY <1>1, <1>3, <1>4 DEF UnmarshalOID
  <2> QED BY <2>1, RejectedAtOnce
<1>5. CASE HasWord(payload, at) /\ ~OIDFits(count, len - at)
  <2>1. UnmarshalOID(payload, at, o) = Rejected(1)
    BY <1>1, <1>3, <1>5 DEF UnmarshalOID
  <2>2. 1 \in Nat /\ at + 1 <= Len(payload)
    BY <1>5 DEF HasWord
  <2> QED BY <2>1, <2>2, RejectedFits
<1>6. CASE HasWord(payload, at) /\ OIDFits(count, len - at)
  <2>1. PICK value : UnmarshalOID(payload, at, o) = Decoded(OIDSize(count), OIDSize(count), value)
    BY <1>1, <1>3, <1>6 DEF UnmarshalOID
  <2>2. PICK size \in Nat : size = OIDSize(count) /\ size % 4 = 0 /\ size >= 4
    <3>1. (4 + count * 4) % 4 = 0
      BY <1>2
    <3> QED BY <1>2, <3>1 DEF OIDSize
  <2>3. at + size <= len
    BY <1>2, <1>3, <1>6, <2>2 DEF OIDFits
  <2>4. UnmarshalOID(payload, at, o).size = size
    BY <2>1, <2>2 DEF Decoded
  <2>5. Fits(Decoded(size, size, value), payload, at, 4)
    BY <1>3, <2>2, <2>3, DecodedFits
  <2> QED BY <1>3, <2>1, <2>2, <2>3, <2>4, <2>5
<1> QED BY <1>4, <1>6, <1>5

\* A text whose length is more than there is is refused; its padding need not be
\* there (octet_string.go).
LEMMA TextDecodes ==
  ASSUME NEW payload \in Seq(Byte), NEW at \in Nat, NEW o
  PROVE  Fits(UnmarshalText(payload, at, o), payload, at, 4)
<1>1. PICK n \in Nat : n = GetUint32(payload, at, o)
  BY GetsUint, Bases
<1>2. PICK len \in Nat : len = Len(payload)
  OBVIOUS
<1>3. CASE ~HasWord(payload, at)
  <2>1. UnmarshalText(payload, at, o) = Rejected(0)
    BY <1>3 DEF UnmarshalText
  <2> QED BY <2>1, RejectedAtOnce
<1>4. CASE HasWord(payload, at) /\ n > len - at - 4
  <2>1. UnmarshalText(payload, at, o) = Rejected(4)
    <3>1. GetUint32(payload, at, o) > Len(payload) - at - 4
      BY <1>1, <1>2, <1>4
    <3> QED BY <1>4, <3>1 DEF UnmarshalText
  <2>2. 4 \in Nat /\ at + 4 <= Len(payload)
    BY <1>4 DEF HasWord
  <2> QED BY <2>1, <2>2, RejectedFits
<1>5. CASE HasWord(payload, at) /\ ~(n > len - at - 4)
  <2>1. PICK value : UnmarshalText(payload, at, o) = Decoded(octetStringSize(n), 4 + n, value)
    BY <1>1, <1>2, <1>5 DEF UnmarshalText
  <2>2. PICK avail \in Nat : avail = len - at /\ n <= avail - 4
    <3>1. len - at >= 4
      BY <1>2, <1>5 DEF HasWord
    <3>2. len - at \in Nat /\ n <= (len - at) - 4
      BY <1>5, <3>1
    <3> QED BY <3>2
  <2>3. PICK size \in Nat :
          size = octetStringSize(n) /\ size % 4 = 0 /\ size >= 4 /\ (avail % 4 = 0 => size <= avail)
    <3>1. padding(n) \in 0 .. 3 /\ octetStringSize(n) = 4 + n + padding(n)
      BY PaddingFacts
    <3>2. octetStringSize(n) % 4 = 0 /\ (avail % 4 = 0 => octetStringSize(n) <= avail)
      BY <2>2, PaddingFacts
    <3>3. octetStringSize(n) \in Nat /\ octetStringSize(n) >= 4
      BY <3>1
    <3> QED BY <3>2, <3>3
  <2>4. 4 + n \in Nat /\ at + (4 + n) <= len
    BY <2>2
  <2>5. ASSUME len % 4 = 0 /\ at % 4 = 0 PROVE at + size <= len
    <3>1. avail % 4 = 0
      BY <2>2, <2>5
    <3> QED BY <2>2, <2>3, <3>1
  <2>6. Fits(Decoded(size, 4 + n, value), payload, at, 4)
    BY <1>2, <2>3, <2>4, <2>5, DecodedFits
  <2> QED BY <2>1, <2>3, <2>6
<1> QED BY <1>3, <1>5, <1>4

\* Only the value changes.
LEMMA RetypedFits ==
  ASSUME NEW r, NEW payload, NEW at, NEW go, NEW val, Fits(r, payload, at, 4),
         \/ \E reached : r = Rejected(reached)
         \/ \E size, reached, value : r = Decoded(size, reached, value)
  PROVE  Fits(Retyped(r, go, val), payload, at, 0)
<1>1. ASSUME NEW reached, r = Rejected(reached)
      PROVE  Fits(Retyped(r, go, val), payload, at, 0)
  BY <1>1 DEF Rejected, Retyped, Fits
<1>2. ASSUME NEW size, NEW reached, NEW value, r = Decoded(size, reached, value)
      PROVE  Fits(Retyped(r, go, val), payload, at, 0)
  <2>1. Retyped(r, go, val) = Decoded(size, reached, [go |-> go, val |-> val])
    BY <1>2 DEF Retyped, Decoded
  <2> QED BY <1>2, <2>1 DEF Fits, Decoded
<1> QED BY <1>1, <1>2

\* A number is there in full.
LEMMA FixedFits ==
  ASSUME NEW payload \in Seq(Byte), NEW at \in Nat, NEW width \in {4, 8}, NEW go, NEW val
  PROVE  Fits(Fixed(payload, at, width, go, val), payload, at, 0)
<1>1. PICK len \in Nat : len = Len(payload)
  OBVIOUS
<1>2. CASE len - at < width
  BY <1>1, <1>2, RejectedAtOnce DEF Fixed
<1>3. CASE ~(len - at < width)
  <2>1. Fixed(payload, at, width, go, val) = Decoded(width, width, [go |-> go, val |-> val])
    BY <1>1, <1>3 DEF Fixed
  <2>2. width \in Nat /\ width % 4 = 0 /\ width >= 0 /\ at + width <= len
    BY <1>3
  <2> QED BY <1>1, <2>1, <2>2, DecodedFits
<1> QED BY <1>2, <1>3

\* Fits of a part, at the end of the parts before it.
LEMMA FitsAfter ==
  ASSUME NEW payload \in Seq(Byte), NEW at \in Nat, NEW before \in Nat, before % 4 = 0, before >= 4,
         NEW r, NEW value, Fits(r, payload, at + before, 0), r.ok = TRUE
  PROVE  Fits(Decoded(before + r.size, before + r.reach, value), payload, at, 4)
<1>1. PICK len \in Nat : len = Len(payload)
  OBVIOUS
<1>2. PICK size \in Nat, reached \in Nat :
        /\ size = r.size /\ reached = r.reach /\ size % 4 = 0 /\ (at + before) + reached <= len
        /\ len % 4 = 0 /\ (at + before) % 4 = 0 => (at + before) + size <= len
  BY <1>1 DEF Fits
<1>3. before + size \in Nat /\ before + reached \in Nat /\ (before + size) % 4 = 0 /\ before + size >= 4
  <2>1. (before + size) % 4 = 0
    BY <1>2, WordsAdd
  <2> QED BY <2>1
<1>4. at + (before + reached) <= len
  BY <1>2
<1>5. ASSUME len % 4 = 0 /\ at % 4 = 0 PROVE at + (before + size) <= len
  <2>1. (at + before) % 4 = 0
    BY <1>5, WordsAdd
  <2>2. (at + before) + size <= len
    BY <1>2, <1>5, <2>1
  <2> QED BY <2>2
<1> QED BY <1>1, <1>2, <1>3, <1>4, <1>5, DecodedFits

\* A rejection of a part, at the end of the parts before it.
LEMMA RejectedAfter ==
  ASSUME NEW payload \in Seq(Byte), NEW at \in Nat, NEW before \in Nat, at + before <= Len(payload),
         NEW r, Fits(r, payload, at + before, 0), r.ok = FALSE
  PROVE  Fits(Rejected(before + r.reach), payload, at, 4)
<1>1. PICK reached \in Nat : reached = r.reach /\ (at + before) + reached <= Len(payload)
  BY DEF Fits
<1>2. before + reached \in Nat /\ at + (before + reached) <= Len(payload)
  BY <1>1
<1> QED BY <1>1, <1>2, RejectedFits

\* The value of a variable, of every type.
LEMMA ValueDecodes ==
  ASSUME NEW type, NEW payload \in Seq(Byte), NEW at \in Nat, NEW o, at <= Len(payload)
  PROVE  Fits(unmarshalValue(type, payload, at, o), payload, at, 0)
<1>1. Fits(UnmarshalText(payload, at, o), payload, at, 4) /\ Fits(UnmarshalOID(payload, at, o), payload, at, 4)
  BY TextDecodes, OIDDecodes
<1>2. (\E reached : UnmarshalText(payload, at, o) = Rejected(reached))
      \/ \E size, reached, value : UnmarshalText(payload, at, o) = Decoded(size, reached, value)
  BY DEF UnmarshalText
<1>3. (\E reached : UnmarshalOID(payload, at, o) = Rejected(reached))
      \/ \E size, reached, value : UnmarshalOID(payload, at, o) = Decoded(size, reached, value)
  BY DEF UnmarshalOID
<1>4. \A go, val : Fits(Retyped(UnmarshalText(payload, at, o), go, val), payload, at, 0)
                   /\ Fits(Retyped(UnmarshalOID(payload, at, o), go, val), payload, at, 0)
  BY <1>1, <1>2, <1>3, RetypedFits
<1>5. \A go, val : Fits(Fixed(payload, at, 4, go, val), payload, at, 0)
                   /\ Fits(Fixed(payload, at, 8, go, val), payload, at, 0)
  BY FixedFits
<1>6. Fits(Rejected(0), payload, at, 0)
  BY RejectedAtOnce
<1>7. CASE type \in NoData
  <2>1. Fits(Decoded(0, 0, [go |-> "nil", val |-> 0]), payload, at, 0)
    <3>1. 0 \in Nat /\ 0 % 4 = 0 /\ 0 >= 0 /\ at + 0 <= Len(payload)
      OBVIOUS
    <3> QED BY <3>1, DecodedFits
  <2> QED BY <1>7, <2>1 DEF unmarshalValue, NoData
<1>8. CASE type \notin NoData
  BY <1>4, <1>5, <1>6, <1>8 DEF unmarshalValue
<1> QED BY <1>7, <1>8

\* A name and a value, each where the one before it ended (variable.go).
LEMMA VariableDecodes ==
  ASSUME NEW payload \in Seq(Byte), NEW at \in Nat, NEW o
  PROVE  Fits(UnmarshalVariable(payload, at, o), payload, at, 4)
<1> DEFINE type  == VariableType(GetUint16(payload, at, o))
           name  == UnmarshalOID(payload, at + 4, o)
           value == unmarshalValue(type, payload, at + 4 + name.size, o)
<1>1. CASE ~HasWord(payload, at)
  <2>1. UnmarshalVariable(payload, at, o) = Rejected(0)
    BY <1>1 DEF UnmarshalVariable
  <2> QED BY <2>1, RejectedAtOnce
<1>2. CASE HasWord(payload, at)
  <2>1. at + 4 \in Nat /\ at + 4 <= Len(payload)
    BY <1>2 DEF HasWord
  <2>2. Fits(name, payload, at + 4, 4) /\ (name.ok = TRUE => (at + 4) + name.size <= Len(payload))
    BY <2>1, OIDDecodes
  <2>3. CASE name.ok = FALSE
    <3>1. UnmarshalVariable(payload, at, o) = Rejected(4 + name.reach)
      BY <1>2, <2>3 DEF UnmarshalVariable
    <3>2. PICK reached \in Nat : reached = name.reach /\ (at + 4) + reached <= Len(payload)
      BY <2>1, <2>2, <2>3 DEF Fits
    <3>3. 4 + reached \in Nat /\ at + (4 + reached) <= Len(payload)
      BY <3>2
    <3> QED BY <3>1, <3>2, <3>3, RejectedFits
  <2>4. CASE name.ok = TRUE
    <3>1. PICK size \in Nat : size = name.size /\ size % 4 = 0 /\ size >= 4 /\ (at + 4) + size <= Len(payload)
      BY <2>2, <2>4 DEF Fits
    <3>2. PICK before \in Nat :
            before = 4 + size /\ before % 4 = 0 /\ before >= 4 /\ at + before <= Len(payload)
            /\ at + 4 + size = at + before /\ at + before \in Nat
      <4>1. (4 + size) % 4 = 0
        BY <3>1
      <4>2. 4 + size \in Nat /\ 4 + size >= 4 /\ at + (4 + size) <= Len(payload)
        BY <3>1
      <4> QED BY <4>1, <4>2
    <3>3. PICK r : r = unmarshalValue(type, payload, at + before, o)
      OBVIOUS
    <3>4. r = value
      BY <3>1, <3>2, <3>3
    <3>5. Fits(r, payload, at + before, 0)
      BY <3>2, <3>3, ValueDecodes
    <3>6. CASE r.ok = FALSE
      <4>1. UnmarshalVariable(payload, at, o) = Rejected(before + r.reach)
        <5>1. 4 + name.size = before
          BY <3>1, <3>2
        <5> QED BY <1>2, <2>4, <3>4, <3>6, <5>1 DEF UnmarshalVariable
      <4> QED BY <3>2, <3>5, <3>6, <4>1, RejectedAfter
    <3>7. CASE r.ok = TRUE
      <4>1. PICK v : UnmarshalVariable(payload, at, o)
                       = Decoded(VariableSize(name, value), 4 + name.size + value.reach, v)
        BY <1>2, <2>4, <3>4, <3>7 DEF UnmarshalVariable
      <4>2. VariableSize(name, value) = before + r.size /\ 4 + name.size + value.reach = before + r.reach
        BY <3>1, <3>2, <3>4 DEF VariableSize
      <4> QED BY <3>2, <3>5, <3>7, <4>1, <4>2, FitsAfter
    <3> QED BY <3>5, <3>6, <3>7 DEF Fits
  <2> QED BY <2>2, <2>3, <2>4 DEF Fits
<1> QED BY <1>1, <1>2

\* Two oids (range.go).
LEMMA RangeDecodes ==
  ASSUME NEW payload \in Seq(Byte), NEW at \in Nat, NEW o
  PROVE  Fits(UnmarshalRange(payload, at, o), payload, at, 4)
<1> DEFINE from == UnmarshalOID(payload, at, o)
           to   == UnmarshalOID(payload, at + from.size, o)
<1>1. Fits(from, payload, at, 4) /\ (from.ok = TRUE => at + from.size <= Len(payload))
  BY OIDDecodes
<1>2. CASE from.ok = FALSE
  <2>1. UnmarshalRange(payload, at, o) = from
    BY <1>2 DEF UnmarshalRange
  <2> QED BY <1>1, <2>1
<1>3. CASE from.ok = TRUE
  <2>1. PICK before \in Nat :
          /\ before = from.size /\ before % 4 = 0 /\ before >= 4 /\ at + before \in Nat
          /\ at + before <= Len(payload)
    BY <1>1, <1>3 DEF Fits
  <2>2. PICK r : r = to /\ r = UnmarshalOID(payload, at + before, o)
    BY <2>1
  <2>3. Fits(r, payload, at + before, 4)
    BY <2>1, <2>2, OIDDecodes
  <2>4. Fits(r, payload, at + before, 0)
    BY <2>3 DEF Fits
  <2>5. CASE r.ok = FALSE
    <3>1. UnmarshalRange(payload, at, o) = Rejected(before + r.reach)
      BY <1>3, <2>1, <2>2, <2>5 DEF UnmarshalRange
    <3> QED BY <2>1, <2>4, <2>5, <3>1, RejectedAfter
  <2>6. CASE r.ok = TRUE
    <3>1. PICK v : UnmarshalRange(payload, at, o) = Decoded(from.size + to.size, from.size + to.reach, v)
      BY <1>3, <2>2, <2>6 DEF UnmarshalRange
    <3> QED BY <2>1, <2>2, <2>4, <2>6, <3>1, FitsAfter
  <2> QED BY <2>3, <2>5, <2>6 DEF Fits
<1> QED BY <1>1, <1>2, <1>3 DEF Fits

\* Items of every shape.
LEMMA ItemDecodes ==
  ASSUME NEW shape, NEW payload \in Seq(Byte), NEW at \in Nat, NEW o
  PROVE  Fits(UnmarshalItem(shape, payload, at, o), payload, at, 4)
<1>1. Fits(Rejected(0), payload, at, 4)
  BY RejectedAtOnce
<1> QED BY <1>1, VariableDecodes, RangeDecodes, OIDDecodes, TextDecodes DEF UnmarshalItem

-----------------------------------------------------------------------------
(* Encoding any packet *)

\* Types and their codes.
LEMMA TypeCodeFacts ==
  \A t \in DOMAIN TypeCodes : TypeCodes[t] \in Int /\ TypeCodes[t] \in 0 .. HalfWord - 1
BY CodecAssumption, Bases

\* The fixed part of a variable.
LEMMA VariableFront ==
  ASSUME NEW n \in Int, NEW o
  PROVE  /\ PutUint16(n, o) \o <<0, 0>> \in WholeWords
         /\ Len(PutUint16(n, o) \o <<0, 0>>) = 4
         /\ PutUint16(n, o) \in Seq(Byte) /\ <<0, 0>> \in Seq(Byte)
<1>1. PICK a \in Seq(Byte) : a = PutUint16(n, o) /\ Len(a) = 2
  BY Uint16Codec
<1>2. PICK z \in Seq(Byte) : z = <<0, 0>> /\ Len(z) = 2
  <2>1. 0 \in Byte
    BY Bases DEF Byte
  <2>2. <<0, 0>> \in Seq(Byte) /\ Len(<<0, 0>>) = 2
    BY <2>1
  <2> QED BY <2>2
<1>3. a \o z \in Seq(Byte) /\ Len(a \o z) = Len(a) + Len(z)
  BY ConcatBytes
<1>4. Len(a \o z) = 4 /\ 4 % 4 = 0
  BY <1>1, <1>2, <1>3
<1> QED BY <1>1, <1>2, <1>3, <1>4 DEF WholeWords

\* The four bytes of an address.
LEMMA To4Facts ==
  ASSUME NEW ip \in Texts
  PROVE  To4(ip) # NoBytes => To4(ip) \in Texts /\ Len(To4(ip)) = 4
<1>1. ip \in Seq(Byte) /\ Len(ip) \in Nat
  BY DEF Texts
<1>2. 4 < Word
  <2>1. PICK m \in Nat : m = HalfWord /\ m >= 4
    <3>1. PICK b \in Nat : b = Radix /\ b >= 2
      BY CodecAssumption
    <3>2. b * 2 <= b * b /\ b * 2 >= 4 /\ b * b \in Nat
      BY <3>1
    <3> QED BY <3>1, <3>2 DEF HalfWord
  <2>2. m * 4 <= m * m /\ m * 4 >= 16
    BY <2>1
  <2> QED BY <2>1, <2>2 DEF Word
<1>3. CASE Len(ip) = 4
  BY <1>1, <1>3 DEF To4
<1>4. CASE Len(ip) = 16
  <2>1. To4(ip) \in {SubSeq(ip, 13, 16), NoBytes}
    BY <1>4 DEF To4
  <2>2. \A i \in 13 .. 16 : ip[i] \in Byte
    <3>1. \A i \in 1 .. Len(ip) : ip[i] \in Byte
      BY <1>1, ElementOfSeq
    <3> QED BY <1>4, <3>1
  <2>3. SubSeq(ip, 13, 16) \in Seq(Byte) /\ Len(SubSeq(ip, 13, 16)) = 4
    BY <2>2, SubSeqProperties
  <2> QED BY <1>2, <2>1, <2>3 DEF Texts
<1>5. CASE Len(ip) \notin {4, 16}
  BY <1>5 DEF To4
<1> QED BY <1>3, <1>4, <1>5

\* A plain oid is its sub-identifiers.
LEMMA SetGetIdentifier ==
  ASSUME NEW oid \in OIDs
  PROVE  SetIdentifier(oid) \in ObjectIdentifiers /\ GetIdentifier(SetIdentifier(oid)) = oid
<1>1. SetIdentifier(oid) \in ObjectIdentifiers
  BY Bases DEF SetIdentifier, ObjectIdentifiers, Byte
<1>2. <<>> \o oid = oid
  BY ConcatEmptySeq DEF OIDs
<1> QED BY <1>1, <1>2 DEF SetIdentifier, GetIdentifier

\* Ticks fit in a word, and a duration made of ticks is those ticks.
LEMMA TicksFacts ==
  /\ \A d \in Int : Ticks(d) \in 0 .. Word - 1
  /\ \A n \in 0 .. Word - 1 : Ticks(n * Tick) = n
<1>1. PICK w \in Nat \ {0}, t \in Nat \ {0} : w = Word /\ t = Tick
  BY Bases, CodecAssumption
<1>2. ASSUME NEW d \in Int PROVE Ticks(d) \in 0 .. w - 1
  <2>1. d \div t \in Int /\ -((-d) \div t) \in Int
    BY DivFacts
  <2>2. PICK n \in Int : n = IF d < 0 THEN -((-d) \div t) ELSE d \div t
    BY <2>1
  <2>3. n % w \in 0 .. w - 1
    BY DivFacts
  <2> QED BY <1>1, <2>2, <2>3 DEF Ticks
<1>3. ASSUME NEW n \in 0 .. w - 1 PROVE Ticks(n * t) = n
  <2>1. n * t = t * n + 0 /\ 0 \in 0 .. t - 1 /\ n \in Int /\ ~(n * t < 0)
    OBVIOUS
  <2>2. (n * t) \div t = n
    BY <2>1, DivUnique
  <2>3. n = w * 0 + n /\ 0 \in Int
    OBVIOUS
  <2>4. n % w = n
    BY <2>3, DivUnique
  <2> QED BY <1>1, <2>1, <2>2, <2>4 DEF Ticks
<1> QED BY <1>1, <1>2, <1>3

\* A signed number survives its way through an unsigned word.
LEMMA SignedFacts ==
  ASSUME NEW val \in GoValues("int32")
  PROVE  val \in Int /\ val % Word \in 0 .. Word - 1 /\ Signed(val % Word) = val
<1>1. PICK w \in Nat \ {0} : w = Word
  BY Bases
<1>2. PICK half \in Nat : half = w \div 2 /\ half + half <= w /\ w <= half + half + 1
  OBVIOUS
<1>3. val \in half - w .. half - 1 /\ val \in Int
  BY <1>1, <1>2 DEF GoValues
<1>4. CASE val >= 0
  <2>1. val \in 0 .. w - 1 /\ val = w * 0 + val /\ 0 \in Int
    BY <1>2, <1>3, <1>4
  <2>2. val % w = val
    BY <2>1, DivUnique
  <2> QED BY <1>1, <1>2, <1>3, <2>1, <2>2 DEF Signed
<1>5. CASE val < 0
  <2>1. val + w \in 0 .. w - 1 /\ val = w * (-1) + (val + w) /\ -1 \in Int
    BY <1>2, <1>3, <1>5
  <2>2. val % w = val + w
    BY <2>1, DivUnique
  <2> QED BY <1>1, <1>2, <1>3, <2>1, <2>2 DEF Signed
<1> QED BY <1>3, <1>4, <1>5

\* The number of a word is itself modulo the word.
LEMMA InWord ==
  ASSUME NEW n \in 0 .. Word - 1
  PROVE  n \in Int /\ n % Word = n
<1>1. PICK w \in Nat \ {0} : w = Word
  BY Bases
<1>2. n \in Int /\ n = w * 0 + n /\ 0 \in Int /\ n \in 0 .. w - 1
  BY <1>1
<1> QED BY <1>1, <1>2, DivUnique

\* The bytes of a value are decoded to a value of the same meaning.
Returns(v, bytes, o) ==
  \A payload \in Seq(Byte), at \in Nat :
    at <= Len(payload) /\ Carries(payload, at, bytes) =>
      \E reached, go, val :
        /\ unmarshalValue(v.type, payload, at, o) = Decoded(Len(bytes), reached, [go |-> go, val |-> val])
        /\ \A name : ValueMeaning([type |-> v.type, name |-> name, go |-> go, val |-> val]) = ValueMeaning(v)

\* A number of four bytes that stands for the value.
LEMMA WordReturns ==
  ASSUME NEW v, NEW o, NEW n \in 0 .. Word - 1, NEW go, NEW val,
         \A payload, at : GetUint32(payload, at, o) = n =>
                            unmarshalValue(v.type, payload, at, o) = Fixed(payload, at, 4, go, val),
         \A name : ValueMeaning([type |-> v.type, name |-> name, go |-> go, val |-> val]) = ValueMeaning(v)
  PROVE  /\ PutUint32(n, o) \in WholeWords
         /\ Returns(v, PutUint32(n, o), o)
<1>1. n \in Int
  BY InWord
<1>2. PICK bytes \in Seq(Byte) : bytes = PutUint32(n, o) /\ Len(bytes) = 4
  BY <1>1, Uint32Codec
<1>3. ASSUME NEW payload \in Seq(Byte), NEW at \in Nat, Carries(payload, at, bytes)
      PROVE  unmarshalValue(v.type, payload, at, o) = Decoded(4, 4, [go |-> go, val |-> val])
  <2>1. GetUint32(payload, at, o) = n
    BY <1>1, <1>2, <1>3, Uint32Codec
  <2>2. at + Len(bytes) <= Len(payload) /\ Len(payload) \in Nat
    <3>1. Len(bytes) > 0
      BY <1>2
    <3> QED BY <1>3, <3>1, CarriedFits
  <2>3. ~(Len(payload) - at < 4)
    BY <1>2, <2>2
  <2>4. unmarshalValue(v.type, payload, at, o) = Fixed(payload, at, 4, go, val)
    BY <2>1
  <2> QED BY <2>3, <2>4 DEF Fixed
<1>4. bytes \in WholeWords
  <2>1. 4 % 4 = 0
    OBVIOUS
  <2> QED BY <1>2, <2>1 DEF WholeWords
<1> QED BY <1>2, <1>3, <1>4 DEF Returns

\* A text that stands for the value.
LEMMA TextReturns ==
  ASSUME NEW v, NEW o, NEW text \in Texts, NEW go,
         \A payload, at : unmarshalValue(v.type, payload, at, o)
                            = Retyped(UnmarshalText(payload, at, o), go, UnmarshalText(payload, at, o).value),
         \A name : ValueMeaning([type |-> v.type, name |-> name, go |-> go, val |-> text]) = ValueMeaning(v)
  PROVE  /\ MarshalText(text, o) \in WholeWords
         /\ Returns(v, MarshalText(text, o), o)
<1>1. PICK bytes : bytes = MarshalText(text, o)
  OBVIOUS
<1>2. /\ bytes \in WholeWords
      /\ \A payload \in Seq(Byte), at \in Nat :
           Carries(payload, at, bytes) =>
             UnmarshalText(payload, at, o) = Decoded(Len(bytes), 4 + Len(text), text)
  BY <1>1, TextCodec
<1>3. \A size, reached : /\ Decoded(size, reached, text).value = text
                         /\ Retyped(Decoded(size, reached, text), go, text) = Decoded(size, reached, [go |-> go, val |-> text])
  BY DEF Retyped, Decoded
<1>4. ASSUME NEW payload \in Seq(Byte), NEW at \in Nat, Carries(payload, at, bytes)
      PROVE  unmarshalValue(v.type, payload, at, o) = Decoded(Len(bytes), 4 + Len(text), [go |-> go, val |-> text])
  BY <1>2, <1>3, <1>4
<1> QED BY <1>1, <1>2, <1>4 DEF Returns

\* The value of a variable is encoded unless it is refused, and is decoded to a
\* value of the same meaning.
LEMMA ValueCodec ==
  ASSUME NEW v, IsVariable(v), NEW o
  PROVE  /\ marshalValue(v, o) \in WholeWords \cup {NoBytes}
         /\ marshalValue(v, o) # NoBytes => Returns(v, marshalValue(v, o), o)
<1> DEFINE bytes == marshalValue(v, o)
<1> SUFFICES ASSUME Encodable(v) PROVE bytes \in WholeWords \cup {NoBytes} /\ (bytes # NoBytes => Returns(v, bytes, o))
  <2>1. ~Encodable(v) => bytes = NoBytes
    BY DEF marshalValue
  <2> QED BY <2>1
<1>1. PICK type, name, go, val :
        /\ v = [type |-> type, name |-> name, go |-> go, val |-> val] /\ val \in GoValues(go)
        /\ v.type = type /\ v.go = go /\ v.val = val
  BY DEF IsVariable
<1>2. CASE type \in NoData
  <2>1. bytes = <<>>
    BY <1>1, <1>2 DEF marshalValue, NoData
  <2>2. <<>> \in WholeWords /\ Len(<<>>) = 0
    BY DEF WholeWords
  <2>3. \A payload, at : unmarshalValue(v.type, payload, at, o) = Decoded(0, 0, [go |-> "nil", val |-> 0])
    BY <1>1, <1>2 DEF unmarshalValue, NoData
  <2>4. \A n : ValueMeaning([type |-> v.type, name |-> n, go |-> "nil", val |-> 0]) = ValueMeaning(v)
    BY <1>1, <1>2 DEF ValueMeaning, NoData
  <2> QED BY <2>1, <2>2, <2>3, <2>4 DEF Returns
<1>3. CASE type = "Integer"
  <2>1. go = "int32" /\ bytes = PutUint32(val % Word, o)
    BY <1>1, <1>3 DEF marshalValue, Encodable, NoData
  <2>2. PICK n \in 0 .. Word - 1 : n = val % Word /\ Signed(n) = val
    BY <1>1, <2>1, SignedFacts
  <2>3. \A payload, at : GetUint32(payload, at, o) = n =>
                           unmarshalValue(v.type, payload, at, o) = Fixed(payload, at, 4, "int32", val)
    BY <1>1, <1>3, <2>2 DEF unmarshalValue, NoData
  <2>4. \A m : ValueMeaning([type |-> v.type, name |-> m, go |-> "int32", val |-> val]) = ValueMeaning(v)
    BY <1>1, <1>3 DEF ValueMeaning, NoData
  <2> QED BY <2>1, <2>2, <2>3, <2>4, WordReturns
<1>4. CASE type \in {"Counter32", "Gauge32"}
  <2>1. go = "uint32" /\ bytes = PutUint32(val % Word, o)
    BY <1>1, <1>4 DEF marshalValue, Encodable, NoData
  <2>2. val \in 0 .. Word - 1
    BY <1>1, <2>1 DEF GoValues, Uint32
  <2>3. val % Word = val
    BY <2>2, InWord
  <2>4. \A payload, at : GetUint32(payload, at, o) = val =>
                           unmarshalValue(v.type, payload, at, o) = Fixed(payload, at, 4, "uint32", val)
    BY <1>1, <1>4 DEF unmarshalValue, NoData
  <2>5. \A m : ValueMeaning([type |-> v.type, name |-> m, go |-> "uint32", val |-> val]) = ValueMeaning(v)
    BY <1>1, <1>4 DEF ValueMeaning, NoData
  <2> QED BY <2>1, <2>2, <2>3, <2>4, <2>5, WordReturns
<1>5. CASE type = "TimeTicks"
  <2>1. PICK n \in 0 .. Word - 1 : bytes = PutUint32(n, o) /\ ValueMeaning(v) = n
    <3>1. CASE go = "duration"
      <4>1. bytes = PutUint32(Ticks(val), o) /\ ValueMeaning(v) = Ticks(val)
        BY <1>1, <1>5, <3>1 DEF marshalValue, ValueMeaning, NoData
      <4>2. val \in Int
        BY <1>1, <3>1 DEF GoValues
      <4> QED BY <4>1, <4>2, TicksFacts
    <3>2. CASE go # "duration"
      <4>1. go = "uint32" /\ bytes = PutUint32(val, o) /\ ValueMeaning(v) = val
        BY <1>1, <1>5, <3>2 DEF marshalValue, Encodable, ValueMeaning, NoData
      <4>2. val \in 0 .. Word - 1
        BY <1>1, <4>1 DEF GoValues, Uint32
      <4> QED BY <4>1, <4>2
    <3> QED BY <3>1, <3>2
  <2>2. PICK d : d = n * Tick /\ Ticks(d) = n
    BY TicksFacts
  <2>3. \A payload, at : GetUint32(payload, at, o) = n =>
                           unmarshalValue(v.type, payload, at, o) = Fixed(payload, at, 4, "duration", d)
    BY <1>1, <1>5, <2>2 DEF unmarshalValue, NoData
  <2>4. \A m : ValueMeaning([type |-> v.type, name |-> m, go |-> "duration", val |-> d]) = ValueMeaning(v)
    BY <1>1, <1>5, <2>1, <2>2 DEF ValueMeaning, NoData
  <2>5. PutUint32(n, o) \in WholeWords /\ Returns(v, PutUint32(n, o), o)
    BY <2>3, <2>4, WordReturns
  <2> QED BY <2>1, <2>5
<1>6. CASE type = "Counter64"
  <2>1. go = "uint64" /\ bytes = PutUint64(val, o)
    BY <1>1, <1>6 DEF marshalValue, Encodable, NoData
  <2>2. val \in 0 .. Word * Word - 1 /\ val \in Int
    <3>1. Word * Word \in Nat
      BY Bases
    <3> QED BY <1>1, <2>1, <3>1 DEF GoValues
  <2>3. PICK b \in Seq(Byte) : b = PutUint64(val, o) /\ Len(b) = 8
    BY <2>2, Uint64Codec
  <2>4. ASSUME NEW payload \in Seq(Byte), NEW at \in Nat, Carries(payload, at, b)
        PROVE  unmarshalValue(v.type, payload, at, o) = Decoded(8, 8, [go |-> "uint64", val |-> val])
    <3>1. GetUint64(payload, at, o) = val
      BY <2>2, <2>3, <2>4, Uint64Codec
    <3>2. Len(b) > 0
      BY <2>3
    <3>3. at + Len(b) <= Len(payload) /\ Len(payload) \in Nat
      BY <2>4, <3>2, CarriedFits
    <3>4. ~(Len(payload) - at < 8)
      BY <2>3, <3>3
    <3>5. unmarshalValue(v.type, payload, at, o) = Fixed(payload, at, 8, "uint64", val)
      BY <1>1, <1>6, <3>1 DEF unmarshalValue, NoData
    <3> QED BY <3>4, <3>5 DEF Fixed
  <2>5. \A m : ValueMeaning([type |-> v.type, name |-> m, go |-> "uint64", val |-> val]) = ValueMeaning(v)
    BY <1>1, <1>6 DEF ValueMeaning, NoData
  <2>6. b \in WholeWords
    <3>1. 8 % 4 = 0
      OBVIOUS
    <3> QED BY <2>3, <3>1 DEF WholeWords
  <2> QED BY <2>1, <2>3, <2>4, <2>5, <2>6 DEF Returns
<1>7. CASE type \in {"OctetString", "Opaque"}
  <2>1. go \in {"string", "bytes"} /\ bytes = MarshalText(val, o)
    BY <1>1, <1>7 DEF marshalValue, Encodable, NoData
  <2>2. val \in Texts
    BY <1>1, <2>1 DEF GoValues
  <2>3. PICK g : \A payload, at :
          unmarshalValue(v.type, payload, at, o)
            = Retyped(UnmarshalText(payload, at, o), g, UnmarshalText(payload, at, o).value)
    BY <1>1, <1>7 DEF unmarshalValue, NoData
  <2>4. \A m : ValueMeaning([type |-> v.type, name |-> m, go |-> g, val |-> val]) = ValueMeaning(v)
    BY <1>1, <1>7 DEF ValueMeaning, NoData
  <2> QED BY <2>1, <2>2, <2>3, <2>4, TextReturns
<1>8. CASE type = "IPAddress"
  <2>1. go \in {"ip", "bytes", "string"} /\ To4(val) # NoBytes /\ bytes = MarshalText(To4(val), o)
    BY <1>1, <1>8 DEF marshalValue, Encodable, NoData
  <2>2. val \in Texts
    BY <1>1, <2>1 DEF GoValues
  <2>3. PICK t \in Texts : t = To4(val) /\ Len(t) = 4
    BY <2>1, <2>2, To4Facts
  <2>4. \A payload, at :
          unmarshalValue(v.type, payload, at, o)
            = Retyped(UnmarshalText(payload, at, o), "ip", UnmarshalText(payload, at, o).value)
    BY <1>1, <1>8 DEF unmarshalValue, NoData
  <2>5. To4(t) = t
    BY <2>3 DEF To4
  <2>6. \A m : ValueMeaning([type |-> v.type, name |-> m, go |-> "ip", val |-> t]) = ValueMeaning(v)
    BY <1>1, <1>8, <2>3, <2>5 DEF ValueMeaning, NoData
  <2> QED BY <2>1, <2>3, <2>4, <2>6, TextReturns
<1>9. CASE type = "ObjectIdentifier"
  <2>1. bytes = MarshalOID(SetIdentifier(oidValue(v)), o)
        /\ (go \in {"oid", "uint32s"} \/ (go = "string" /\ val \in DOMAIN OIDTexts))
    BY <1>1, <1>9 DEF marshalValue, Encodable, NoData
  <2>2. PICK oid \in OIDs : oid = oidValue(v)
    <3>1. CASE go = "string"
      BY <1>1, <2>1, <3>1, CodecAssumption DEF oidValue
    <3>2. CASE go \in {"oid", "uint32s"}
      BY <1>1, <3>2 DEF oidValue, GoValues
    <3> QED BY <2>1, <3>1, <3>2
  <2>3. PICK x \in ObjectIdentifiers : x = SetIdentifier(oid) /\ GetIdentifier(x) = oid
    BY SetGetIdentifier
  <2>4. bytes \in WholeWords \cup {NoBytes} /\ bytes = MarshalOID(x, o)
    BY <2>1, <2>2, <2>3, OIDCodec
  <2>5. ASSUME bytes # NoBytes, NEW payload \in Seq(Byte), NEW at \in Nat, Carries(payload, at, bytes)
        PROVE  unmarshalValue(v.type, payload, at, o) = Decoded(Len(bytes), Len(bytes), [go |-> "oid", val |-> oid])
    <3>1. PICK size : size = Len(bytes)
      OBVIOUS
    <3>2. PICK r : r = UnmarshalOID(payload, at, o) /\ r = Decoded(size, size, x)
      BY <2>4, <2>5, <3>1, OIDCodec
    <3>3. r.ok = TRUE /\ r.value = x /\ Retyped(r, "oid", oid) = Decoded(size, size, [go |-> "oid", val |-> oid])
      <4>1. \A s, y : /\ Decoded(s, s, y).ok = TRUE /\ Decoded(s, s, y).value = y
                      /\ Retyped(Decoded(s, s, y), "oid", oid) = Decoded(s, s, [go |-> "oid", val |-> oid])
        BY DEF Retyped, Decoded
      <4> QED BY <3>2, <4>1
    <3>4. unmarshalValue(v.type, payload, at, o) = Retyped(r, "oid", IF r.ok THEN GetIdentifier(r.value) ELSE <<>>)
      BY <1>1, <1>9, <3>2 DEF unmarshalValue, NoData
    <3> QED BY <2>3, <3>1, <3>3, <3>4
  <2>6. \A m : ValueMeaning([type |-> v.type, name |-> m, go |-> "oid", val |-> oid]) = ValueMeaning(v)
    <3>1. \A m : oidValue([type |-> v.type, name |-> m, go |-> "oid", val |-> oid]) = oid
      BY DEF oidValue
    <3> QED BY <1>1, <1>9, <2>2, <3>1 DEF ValueMeaning, NoData
  <2> QED BY <2>4, <2>5, <2>6 DEF Returns
<1> HIDE DEF bytes
<1>10. type \in NoData \cup {"Integer", "Counter32", "Gauge32", "TimeTicks", "Counter64", "OctetString",
                             "Opaque", "IPAddress", "ObjectIdentifier"}
  BY <1>1 DEF Encodable, NoData
<1> QED BY <1>2, <1>3, <1>4, <1>5, <1>6, <1>7, <1>8, <1>9, <1>10

\* The type of a code is the type that has it.
LEMMA VariableTypeFacts ==
  ASSUME NEW t \in DOMAIN TypeCodes
  PROVE  VariableType(TypeCodes[t]) = t
<1>1. \A u \in DOMAIN TypeCodes : TypeCodes[u] = TypeCodes[t] => u = t
  BY CodecAssumption
<1> QED BY <1>1 DEF VariableType

\* Decoded time ticks are a duration of less than a word of ticks.
LEMMA TicksDecoded ==
  ASSUME NEW payload \in Seq(Byte), NEW at \in Nat, NEW o, NEW size, NEW reached, NEW go, NEW val,
         unmarshalValue("TimeTicks", payload, at, o) = Decoded(size, reached, [go |-> go, val |-> val])
  PROVE  go = "duration" /\ val \div Tick = Ticks(val)
<1>1. PICK n \in 0 .. Word - 1 : n = GetUint32(payload, at, o)
  BY GetsUint
<1>2. PICK d : d = n * Tick
  OBVIOUS
<1>3. unmarshalValue("TimeTicks", payload, at, o) = Fixed(payload, at, 4, "duration", d)
  BY <1>1, <1>2 DEF unmarshalValue, NoData
<1>4. Fixed(payload, at, 4, "duration", d) \in {Rejected(0), Decoded(4, 4, [go |-> "duration", val |-> d])}
  BY DEF Fixed
<1>5. [go |-> go, val |-> val] = [go |-> "duration", val |-> d]
  BY <1>3, <1>4 DEF Decoded, Rejected
<1>6. go = "duration" /\ val = d
  BY <1>5
<1>7. d \div Tick = n
  <2>1. PICK t \in Nat \ {0} : t = Tick
    BY CodecAssumption
  <2>2. n \in Int /\ n * t = t * n + 0 /\ 0 \in 0 .. t - 1
    BY InWord
  <2>3. (t * n + 0) \div t = n
    BY <2>2, DivUnique
  <2> QED BY <1>2, <2>1, <2>2, <2>3
<1>8. Ticks(d) = n
  BY <1>2, TicksFacts
<1> QED BY <1>6, <1>7, <1>8

\* A variable is encoded unless its name or its value is refused, and is decoded to
\* one of the same type, name and meaning.
LEMMA VariableCodec ==
  ASSUME NEW v, IsVariable(v), NEW o
  PROVE  LET bytes == MarshalVariable(v, o) IN
         /\ bytes \in WholeWords \cup {NoBytes}
         /\ bytes # NoBytes <=> MarshalOID(v.name, o) # NoBytes /\ marshalValue(v, o) # NoBytes
         /\ bytes # NoBytes =>
              /\ Len(bytes) >= 4
              /\ \A payload \in Seq(Byte), at \in Nat :
                   Carries(payload, at, bytes) =>
                     \E reached, w :
                       /\ UnmarshalVariable(payload, at, o) = Decoded(Len(bytes), reached, w)
                       /\ Meaning(w) = Meaning(v)
                       /\ v.type = "TimeTicks" => w.go = "duration" /\ w.val \div Tick = ValueMeaning(v)
<1>1. v.type \in DOMAIN TypeCodes /\ v.name \in ObjectIdentifiers
  BY DEF IsVariable
<1>2. PICK front \in WholeWords :
        front = PutUint16(TypeCodes[v.type], o) \o <<0, 0>> /\ front # NoBytes /\ Len(front) = 4
  BY <1>1, TypeCodeFacts, VariableFront, NoBytesIsNone DEF WholeWords
<1>3. PICK nameB \in WholeWords \cup {NoBytes}, valueB \in WholeWords \cup {NoBytes} :
        nameB = MarshalOID(v.name, o) /\ valueB = marshalValue(v, o)
  BY <1>1, OIDCodec, ValueCodec
<1>4. PICK rest \in WholeWords \cup {NoBytes} :
        /\ rest = Cat(nameB, valueB)
        /\ rest # NoBytes <=> nameB # NoBytes /\ valueB # NoBytes
        /\ rest # NoBytes => nameB \in WholeWords /\ valueB \in WholeWords /\ rest = nameB \o valueB
  BY CatEncodes
<1>5. PICK bytes \in WholeWords \cup {NoBytes} :
        /\ bytes = Cat(front, rest)
        /\ bytes # NoBytes <=> rest # NoBytes
        /\ bytes # NoBytes => rest \in WholeWords /\ bytes = front \o rest
  <2>1. front \in WholeWords \cup {NoBytes}
    OBVIOUS
  <2>2. /\ Cat(front, rest) \in WholeWords \cup {NoBytes}
        /\ Cat(front, rest) # NoBytes <=> front # NoBytes /\ rest # NoBytes
        /\ Cat(front, rest) # NoBytes => rest \in WholeWords /\ Cat(front, rest) = front \o rest
    BY <2>1, CatEncodes
  <2> QED BY <1>2, <2>2
<1>6. MarshalVariable(v, o) = bytes
  BY <1>2, <1>3, <1>4, <1>5 DEF MarshalVariable
<1>7. ASSUME bytes # NoBytes
      PROVE  Len(bytes) >= 4
  <2>1. front \in Seq(Byte) /\ rest \in Seq(Byte) /\ bytes = front \o rest
    BY <1>5, <1>7 DEF WholeWords
  <2>2. Len(bytes) = Len(front) + Len(rest) /\ Len(rest) \in Nat
    BY <2>1, ConcatBytes
  <2> QED BY <1>2, <2>2
<1>8. ASSUME bytes # NoBytes, NEW payload \in Seq(Byte), NEW at \in Nat, Carries(payload, at, bytes)
      PROVE  \E reached, w :
               /\ UnmarshalVariable(payload, at, o) = Decoded(Len(bytes), reached, w)
               /\ Meaning(w) = Meaning(v)
               /\ v.type = "TimeTicks" => w.go = "duration" /\ w.val \div Tick = ValueMeaning(v)
  <2>1. /\ front \in Seq(Byte) /\ rest \in Seq(Byte) /\ nameB \in Seq(Byte) /\ valueB \in Seq(Byte)
        /\ bytes = front \o rest /\ rest = nameB \o valueB /\ nameB # NoBytes /\ valueB # NoBytes
    BY <1>4, <1>5, <1>8 DEF WholeWords
  <2>2. Carries(payload, at, front) /\ Carries(payload, at + 4, rest)
    <3>1. Carries(payload, at, front) /\ Carries(payload, at + Len(front), rest)
      BY <1>8, <2>1, CarriesBoth
    <3> QED BY <1>2, <3>1
  <2>3. PICK size \in Nat : size = Len(nameB) /\ size >= 4
    BY <1>1, <1>3, <2>1, OIDCodec
  <2>4. PICK a \in Nat, c \in Nat : a = at + 4 /\ c = at + 4 + size
    OBVIOUS
  <2>5. Carries(payload, a, nameB) /\ Carries(payload, a + size, valueB)
    BY <2>1, <2>2, <2>3, <2>4, CarriesBoth
  <2>6. UnmarshalOID(payload, a, o) = Decoded(size, size, v.name)
    BY <1>1, <1>3, <2>1, <2>3, <2>5, OIDCodec
  <2>7. c <= Len(payload) /\ Carries(payload, c, valueB) /\ ~(Len(payload) - at < 4) /\ Len(payload) \in Nat
    <3>1. Len(nameB) > 0
      BY <2>3
    <3>2. a + Len(nameB) <= Len(payload) /\ Len(payload) \in Nat
      BY <2>1, <2>5, <3>1, CarriedFits
    <3>3. c = a + size
      BY <2>4
    <3> QED BY <2>3, <2>4, <2>5, <3>2, <3>3
  <2>8. GetUint16(payload, at, o) = TypeCodes[v.type]
    <3>1. PICK n \in Int : n = TypeCodes[v.type] /\ n \in 0 .. HalfWord - 1
      BY <1>1, TypeCodeFacts
    <3>2. PICK p \in Seq(Byte), z \in Seq(Byte) : p = PutUint16(n, o) /\ z = <<0, 0>>
      BY VariableFront
    <3>3. Carries(payload, at, p)
      BY <1>2, <2>2, <3>1, <3>2, CarriesBoth
    <3> QED BY <3>1, <3>2, <3>3, Uint16Codec
  <2>9. PICK reached, go, val :
          /\ unmarshalValue(v.type, payload, c, o) = Decoded(Len(valueB), reached, [go |-> go, val |-> val])
          /\ \A m : ValueMeaning([type |-> v.type, name |-> m, go |-> go, val |-> val]) = ValueMeaning(v)
    <3>1. Returns(v, valueB, o)
      BY <1>3, <2>1, ValueCodec
    <3> QED BY <2>1, <2>7, <3>1 DEF Returns
  <2>10. PICK w : w = [type |-> v.type, name |-> v.name, go |-> go, val |-> val]
    OBVIOUS
  <2>11. Len(bytes) = 4 + size + Len(valueB)
    <3>1. Len(bytes) = Len(front) + Len(rest) /\ Len(rest) = Len(nameB) + Len(valueB)
          /\ Len(nameB) \in Nat /\ Len(valueB) \in Nat
      BY <2>1, ConcatBytes
    <3> QED BY <1>2, <2>3, <3>1
  <2>12. UnmarshalVariable(payload, at, o) = Decoded(Len(bytes), 4 + size + reached, w)
    <3>1. PICK type, name, value :
            /\ type = VariableType(GetUint16(payload, at, o)) /\ name = UnmarshalOID(payload, at + 4, o)
            /\ value = unmarshalValue(type, payload, at + 4 + name.size, o)
      OBVIOUS
    <3>2. type = v.type
      BY <1>1, <2>8, <3>1, VariableTypeFacts
    <3>3. name.ok = TRUE /\ name.size = size /\ name.value = v.name
      BY <2>4, <2>6, <3>1 DEF Decoded
    <3>4. value = Decoded(Len(valueB), reached, [go |-> go, val |-> val])
      BY <2>4, <2>9, <3>1, <3>2, <3>3
    <3>5. value.ok = TRUE /\ value.size = Len(valueB) /\ value.reach = reached
          /\ value.value.go = go /\ value.value.val = val
      BY <3>4 DEF Decoded
    <3>6. VariableSize(name, value) = Len(bytes)
      BY <2>11, <3>3, <3>5 DEF VariableSize
    <3>7. HasWord(payload, at)
      BY <2>7 DEF HasWord
    <3> QED BY <2>10, <3>1, <3>2, <3>3, <3>5, <3>6, <3>7 DEF UnmarshalVariable
  <2>13. Meaning(w) = Meaning(v)
    <3>1. ValueMeaning(w) = ValueMeaning(v) /\ w.type = v.type /\ w.name = v.name
      BY <2>9, <2>10
    <3> QED BY <3>1 DEF Meaning
  <2>14. ASSUME v.type = "TimeTicks" PROVE w.go = "duration" /\ w.val \div Tick = ValueMeaning(v)
    <3>1. go = "duration" /\ val \div Tick = Ticks(val)
      BY <2>9, <2>14, TicksDecoded
    <3>2. ValueMeaning(w) = Ticks(val)
      BY <2>10, <2>14, <3>1 DEF ValueMeaning, NoData
    <3>3. ValueMeaning(w) = ValueMeaning(v)
      BY <2>9, <2>10
    <3> QED BY <2>10, <3>1, <3>2, <3>3
  <2> QED BY <2>12, <2>13, <2>14
<1> QED BY <1>3, <1>4, <1>5, <1>6, <1>7, <1>8

\* A range is encoded unless one of its oids is refused, and is decoded to one of
\* the same meaning.
LEMMA RangeCodec ==
  ASSUME NEW r \in [from : ObjectIdentifiers, to : ObjectIdentifiers], NEW o
  PROVE  LET bytes == MarshalRange(r, o) IN
         /\ bytes \in WholeWords \cup {NoBytes}
         /\ bytes # NoBytes =>
              /\ Len(bytes) >= 4
              /\ \A payload \in Seq(Byte), at \in Nat :
                   Carries(payload, at, bytes) =>
                     \E reached, w :
                       /\ UnmarshalRange(payload, at, o) = Decoded(Len(bytes), reached, w)
                       /\ ItemMeaning("range", w) = ItemMeaning("range", r)
<1>1. PICK x \in ObjectIdentifiers, y \in ObjectIdentifiers :
        x = r.from /\ y = [r.to EXCEPT !.include = 0] /\ GetIdentifier(y) = GetIdentifier(r.to)
  <2>1. 0 \in Byte
    BY Bases DEF Byte
  <2>2. r.from \in ObjectIdentifiers /\ r.to \in ObjectIdentifiers
    OBVIOUS
  <2>3. /\ [r.to EXCEPT !.include = 0] \in ObjectIdentifiers
        /\ [r.to EXCEPT !.include = 0].prefix = r.to.prefix /\ [r.to EXCEPT !.include = 0].subs = r.to.subs
    BY <2>1, <2>2 DEF ObjectIdentifiers
  <2>4. PICK y \in ObjectIdentifiers :
          y = [r.to EXCEPT !.include = 0] /\ y.prefix = r.to.prefix /\ y.subs = r.to.subs
    BY <2>3
  <2>5. GetIdentifier(y) = GetIdentifier(r.to)
    <3>1. PICK z, prefix, subs : z = r.to /\ prefix = z.prefix /\ subs = z.subs
      OBVIOUS
    <3>2. y.prefix = prefix /\ y.subs = subs
      BY <2>4, <3>1
    <3>3. GetIdentifier(y) = (IF prefix # 0 THEN <<1, 3, 6, 1, prefix>> ELSE <<>>) \o subs
      BY <3>2, Zenon DEF GetIdentifier
    <3>4. GetIdentifier(z) = (IF prefix # 0 THEN <<1, 3, 6, 1, prefix>> ELSE <<>>) \o subs
      BY <3>1, Zenon DEF GetIdentifier
    <3> QED BY <3>1, <3>3, <3>4
  <2> QED BY <2>2, <2>4, <2>5
<1>2. PICK a \in WholeWords \cup {NoBytes}, b \in WholeWords \cup {NoBytes} :
        a = MarshalOID(x, o) /\ b = MarshalOID(y, o)
  BY OIDCodec
<1>3. PICK bytes \in WholeWords \cup {NoBytes} :
        /\ bytes = Cat(a, b)
        /\ bytes # NoBytes =>
             a # NoBytes /\ b # NoBytes /\ a \in WholeWords /\ b \in WholeWords /\ bytes = a \o b
  BY CatEncodes
<1>4. MarshalRange(r, o) = bytes
  BY <1>1, <1>2, <1>3 DEF MarshalRange
<1>5. ASSUME bytes # NoBytes
      PROVE  /\ Len(bytes) >= 4
             /\ \A payload \in Seq(Byte), at \in Nat :
                  Carries(payload, at, bytes) =>
                    \E reached, w :
                      /\ UnmarshalRange(payload, at, o) = Decoded(Len(bytes), reached, w)
                      /\ ItemMeaning("range", w) = ItemMeaning("range", r)
  <2>1. a \in Seq(Byte) /\ b \in Seq(Byte) /\ bytes = a \o b /\ a # NoBytes /\ b # NoBytes
    BY <1>3, <1>5 DEF WholeWords
  <2>2. PICK m \in Nat, n \in Nat : m = Len(a) /\ n = Len(b) /\ m >= 4
    BY <1>2, <2>1, OIDCodec
  <2>3. Len(bytes) = m + n
    BY <2>1, <2>2, ConcatBytes
  <2>4. ASSUME NEW payload \in Seq(Byte), NEW at \in Nat, Carries(payload, at, bytes)
        PROVE  \E reached, w :
                 /\ UnmarshalRange(payload, at, o) = Decoded(m + n, reached, w)
                 /\ ItemMeaning("range", w) = ItemMeaning("range", r)
    <3>1. PICK c \in Nat : c = at + m
      OBVIOUS
    <3>2. Carries(payload, at, a) /\ Carries(payload, c, b)
      BY <2>1, <2>2, <2>4, <3>1, CarriesBoth
    <3>3. PICK from : from = UnmarshalOID(payload, at, o) /\ from = Decoded(m, m, x)
      BY <1>2, <2>1, <2>2, <3>2, OIDCodec
    <3>4. from.ok = TRUE /\ from.size = m /\ from.value = x
      BY <3>3 DEF Decoded
    <3>5. PICK to : to = UnmarshalOID(payload, at + from.size, o) /\ to = Decoded(n, n, y)
      BY <1>2, <2>1, <2>2, <3>1, <3>2, <3>4, OIDCodec
    <3>6. to.ok = TRUE /\ to.size = n /\ to.reach = n /\ to.value = y
      BY <3>5 DEF Decoded
    <3>7. PICK w : w = [from |-> x, to |-> y]
      OBVIOUS
    <3>8. UnmarshalRange(payload, at, o) = Decoded(m + n, m + n, w)
      BY <3>3, <3>4, <3>5, <3>6, <3>7 DEF UnmarshalRange
    <3>9. ItemMeaning("range", w) = ItemMeaning("range", r)
      <4>1. w.from = x /\ w.to = y
        BY <3>7
      <4> QED BY <1>1, <4>1 DEF ItemMeaning
    <3> QED BY <3>8, <3>9
  <2> QED BY <2>2, <2>3, <2>4
<1> QED BY <1>3, <1>4, <1>5

\* What is decoded of an item.
Recovers(shape, item, bytes, o) ==
  \A payload \in Seq(Byte), at \in Nat :
    Carries(payload, at, bytes) =>
      \E reached, w :
        /\ UnmarshalItem(shape, payload, at, o) = Decoded(Len(bytes), reached, w)
        /\ ItemMeaning(shape, w) = ItemMeaning(shape, item)
        /\ shape = "variable" /\ item.type = "TimeTicks" =>
             w.go = "duration" /\ w.val \div Tick = ValueMeaning(item)

\* Items of every shape are encoded or refused, and are decoded to what was meant.
LEMMA ItemCodec ==
  ASSUME NEW shape, NEW item, IsItem(shape, item), NEW o
  PROVE  LET bytes == MarshalItem(shape, item, o) IN
         /\ bytes \in WholeWords \cup {NoBytes}
         /\ bytes # NoBytes => Len(bytes) >= 4 /\ Recovers(shape, item, bytes, o)
<1>1. shape \in {"variable", "range", "oid", "text"}
  BY DEF IsItem
<1>2. PICK bytes : bytes = MarshalItem(shape, item, o)
  OBVIOUS
<1>3. CASE shape = "variable"
  <2>1. IsVariable(item) /\ bytes = MarshalVariable(item, o)
    BY <1>2, <1>3 DEF IsItem, MarshalItem
  <2>2. /\ \A w : ItemMeaning(shape, w) = Meaning(w)
        /\ \A payload, at : UnmarshalItem(shape, payload, at, o) = UnmarshalVariable(payload, at, o)
    BY <1>3 DEF ItemMeaning, UnmarshalItem
  <2>3. ASSUME bytes # NoBytes PROVE Recovers(shape, item, bytes, o)
    BY <2>1, <2>2, <2>3, VariableCodec DEF Recovers
  <2>4. bytes \in WholeWords \cup {NoBytes} /\ (bytes # NoBytes => Len(bytes) >= 4)
    BY <2>1, VariableCodec
  <2> QED BY <1>2, <2>3, <2>4
<1>4. CASE shape = "range"
  <2>1. item \in [from : ObjectIdentifiers, to : ObjectIdentifiers] /\ bytes = MarshalRange(item, o)
    BY <1>2, <1>4 DEF IsItem, MarshalItem
  <2>2. \A payload, at : UnmarshalItem(shape, payload, at, o) = UnmarshalRange(payload, at, o)
    BY <1>4 DEF UnmarshalItem
  <2>3. ASSUME bytes # NoBytes PROVE Recovers(shape, item, bytes, o)
    BY <1>4, <2>1, <2>2, <2>3, RangeCodec DEF Recovers
  <2>4. bytes \in WholeWords \cup {NoBytes} /\ (bytes # NoBytes => Len(bytes) >= 4)
    BY <2>1, RangeCodec
  <2> QED BY <1>2, <2>3, <2>4
<1>5. CASE shape = "oid"
  <2>1. item \in ObjectIdentifiers /\ bytes = MarshalOID(item, o)
    BY <1>2, <1>5 DEF IsItem, MarshalItem
  <2>2. \A payload, at : UnmarshalItem(shape, payload, at, o) = UnmarshalOID(payload, at, o)
    BY <1>5 DEF UnmarshalItem
  <2>3. ASSUME bytes # NoBytes PROVE Recovers(shape, item, bytes, o)
    BY <1>5, <2>1, <2>2, <2>3, OIDCodec DEF Recovers
  <2>4. bytes \in WholeWords \cup {NoBytes} /\ (bytes # NoBytes => Len(bytes) >= 4)
    BY <2>1, OIDCodec
  <2> QED BY <1>2, <2>3, <2>4
<1>6. CASE shape = "text"
  <2>1. item \in Texts /\ bytes = MarshalText(item, o)
    BY <1>2, <1>6 DEF IsItem, MarshalItem
  <2>2. \A payload, at : UnmarshalItem(shape, payload, at, o) = UnmarshalText(payload, at, o)
    BY <1>6 DEF UnmarshalItem
  <2>3. Recovers(shape, item, bytes, o)
    BY <1>6, <2>1, <2>2, TextCodec DEF Recovers
  <2>4. bytes \in WholeWords \cup {NoBytes} /\ (bytes # NoBytes => Len(bytes) >= 4)
    BY <2>1, TextCodec
  <2> QED BY <1>2, <2>3, <2>4
<1> QED BY <1>1, <1>3, <1>4, <1>5, <1>6

\* A timeout is whole seconds in a byte, or an error (timeout.go).
LEMMA SecondsFacts ==
  /\ \A d : InByte(d) => Seconds(d) \in Byte
  /\ \A k \in Byte : Seconds(k * Second) = k
<1>1. PICK s \in Nat \ {0}, b \in Nat \ {0} : s = Second /\ b = Radix
  BY Bases, CodecAssumption
<1>2. ASSUME NEW d \in 0 .. (b - 1) * s PROVE d \div s \in 0 .. b - 1
  <2>1. (b - 1) * s \in Int /\ (b - 1) * s = s * (b - 1)
    OBVIOUS
  <2>2. PICK q \in Int, r \in 0 .. s - 1 : q = d \div s /\ d = s * q + r
    BY <2>1, DivFacts
  <2>3. q >= 0
    <3> SUFFICES ASSUME q <= -1 PROVE FALSE
      OBVIOUS
    <3>1. s * q <= s * (-1)
      OBVIOUS
    <3> QED BY <2>1, <2>2, <3>1
  <2>4. q <= b - 1
    <3> SUFFICES ASSUME q >= b PROVE FALSE
      OBVIOUS
    <3>1. s * q >= s * b /\ s * (b - 1) = s * b - s /\ s * b \in Int
      OBVIOUS
    <3> QED BY <2>1, <2>2, <3>1
  <2> QED BY <2>2, <2>3, <2>4
<1>3. ASSUME NEW k \in 0 .. b - 1 PROVE (k * s) \div s = k
  <2>1. k * s = s * k + 0 /\ 0 \in 0 .. s - 1 /\ k \in Int
    OBVIOUS
  <2> QED BY <2>1, DivUnique
<1> QED BY <1>1, <1>2, <1>3 DEF Seconds, InByte, Byte

\* Four bytes.
LEMMA FourBytes ==
  ASSUME NEW a \in Byte, NEW b \in Byte
  PROVE  LET bytes == <<a, b, 0, 0>> IN
         /\ bytes \in WholeWords /\ Len(bytes) = 4
         /\ \A payload \in Seq(Byte) :
              Carries(payload, 0, bytes) =>
                At(payload, 1) = a /\ At(payload, 2) = b /\ payload[3] = 0 /\ Len(payload) >= 4
<1>1. 0 \in Byte
  BY Bases DEF Byte
<1>2. PICK bytes \in Seq(Byte) : bytes = <<a, b, 0, 0>>
  <2>1. <<a, b, 0, 0>> \in Seq(Byte)
    BY <1>1
  <2> QED BY <2>1, Zenon
<1>3. Len(bytes) = 4 /\ bytes[1] = a /\ bytes[2] = b /\ bytes[3] = 0
  BY <1>2
<1>4. bytes \in WholeWords
  <2>1. 4 % 4 = 0
    OBVIOUS
  <2> QED BY <1>3, <2>1 DEF WholeWords
<1>5. ASSUME NEW payload \in Seq(Byte), Carries(payload, 0, bytes)
      PROVE  At(payload, 1) = a /\ At(payload, 2) = b /\ payload[3] = 0 /\ Len(payload) >= 4
  <2>1. \A i \in 1 .. 4 : 0 + i \in DOMAIN payload /\ payload[0 + i] = bytes[i]
    BY <1>3, <1>5 DEF Carries
  <2>2. \A i \in 1 .. 4 : i \in DOMAIN payload /\ payload[i] = bytes[i]
    BY <2>1
  <2>3. Len(payload) >= 4
    BY <2>2
  <2> QED BY <1>3, <2>2, <2>3 DEF At
<1> QED BY <1>2, <1>3, <1>4, <1>5

\* What is decoded of the fixed part.
RecoversHead(p, bytes, o) ==
  \A payload \in Seq(Byte) :
    Carries(payload, 0, bytes) =>
      /\ Len(payload) >= HeadSize(p.kind)
      /\ p.kind = "register" => payload[3] = 0
      /\ HeadMeaning(p.kind, UnmarshalHead(p.kind, payload, o)) = HeadMeaning(p.kind, p.head)

\* The fixed part of a response (response.go).
LEMMA ResponseCodec ==
  ASSUME NEW p, p.kind = "response", IsHead(p.kind, p.head), NEW o
  PROVE  LET bytes == MarshalHead(p, o) IN
         bytes \in WholeWords /\ Len(bytes) = 8 /\ RecoversHead(p, bytes, o)
<1>1. PICK up \in Int, err \in 0 .. HalfWord - 1, index \in 0 .. HalfWord - 1 :
        up = p.head.upTime /\ err = p.head.error /\ index = p.head.index
  BY DEF IsHead
<1>2. PICK ticks \in 0 .. Word - 1 : ticks = Ticks(up)
  BY TicksFacts
<1>3. ticks \in Int /\ err \in Int /\ index \in Int
  BY Bases
<1>4. PICK a \in Seq(Byte), b \in Seq(Byte), c \in Seq(Byte) :
        /\ a = PutUint32(ticks, o) /\ b = PutUint16(err, o) /\ c = PutUint16(index, o)
        /\ Len(a) = 4 /\ Len(b) = 2 /\ Len(c) = 2
  BY <1>3, Uint32Codec, Uint16Codec
<1>5. PICK ab \in Seq(Byte) : ab = a \o b /\ Len(ab) = 6
  <2>1. a \o b \in Seq(Byte) /\ Len(a \o b) = Len(a) + Len(b)
    BY ConcatBytes
  <2>2. Len(a \o b) = 6
    BY <1>4, <2>1
  <2> QED BY <2>1, <2>2, Zenon
<1>6. PICK bytes \in Seq(Byte) : bytes = ab \o c /\ Len(bytes) = 8
  <2>1. ab \o c \in Seq(Byte) /\ Len(ab \o c) = Len(ab) + Len(c)
    BY ConcatBytes
  <2>2. Len(ab \o c) = 8
    BY <1>4, <1>5, <2>1
  <2> QED BY <2>1, <2>2, Zenon
<1>7. MarshalHead(p, o) = bytes
  BY <1>1, <1>2, <1>4, <1>5, <1>6 DEF MarshalHead, MarshalResponse
<1>8. bytes \in WholeWords
  <2>1. 8 % 4 = 0
    OBVIOUS
  <2> QED BY <1>6, <2>1 DEF WholeWords
<1>9. ASSUME NEW payload \in Seq(Byte), Carries(payload, 0, bytes)
      PROVE  /\ Len(payload) >= 8
             /\ HeadMeaning(p.kind, UnmarshalHead(p.kind, payload, o)) = HeadMeaning(p.kind, p.head)
  <2>1. 0 \in Nat /\ 4 \in Nat /\ 6 \in Nat /\ 0 + 4 = 4 /\ 0 + 6 = 6 /\ 0 + 8 = 8 /\ Len(bytes) > 0
    BY <1>6
  <2>2. Carries(payload, 0, ab) /\ Carries(payload, 0 + Len(ab), c)
    BY <1>6, <1>9, <2>1, CarriesBoth
  <2>3. Carries(payload, 0, a) /\ Carries(payload, 0 + Len(a), b)
    BY <1>5, <2>1, <2>2, CarriesBoth
  <2>4. Carries(payload, 4, b) /\ Carries(payload, 6, c)
    BY <1>4, <1>5, <2>1, <2>2, <2>3
  <2>5. GetUint32(payload, 0, o) = ticks /\ GetUint16(payload, 4, o) = err /\ GetUint16(payload, 6, o) = index
    BY <1>3, <1>4, <2>1, <2>3, <2>4, Uint32Codec, Uint16Codec
  <2>6. 0 + Len(bytes) <= Len(payload) /\ Len(payload) \in Nat
    BY <1>9, <2>1, CarriedFits
  <2>7. Ticks(ticks * Tick) = ticks
    BY TicksFacts
  <2>8. PICK h : h = UnmarshalHead(p.kind, payload, o)
    OBVIOUS
  <2>9. h.upTime = ticks * Tick /\ h.error = err /\ h.index = index
    BY <2>5, <2>8 DEF UnmarshalHead, UnmarshalResponse
  <2>10. HeadMeaning(p.kind, h) = <<ticks, err, index>>
    BY <2>7, <2>9 DEF HeadMeaning
  <2>11. HeadMeaning(p.kind, p.head) = <<ticks, err, index>>
    BY <1>1, <1>2 DEF HeadMeaning
  <2>12. Len(payload) >= 8
    BY <1>6, <2>6
  <2> QED BY <2>8, <2>10, <2>11, <2>12, Zenon
<1>10. HeadSize(p.kind) = 8
  BY DEF HeadSize
<1> QED BY <1>6, <1>7, <1>8, <1>9, <1>10 DEF RecoversHead

\* The fixed part of every packet is encoded or refused, and is decoded to what was
\* meant.
LEMMA HeadCodec ==
  ASSUME NEW p, IsHead(p.kind, p.head), NEW o
  PROVE  LET bytes == MarshalHead(p, o) IN
         /\ bytes \in WholeWords \cup {NoBytes}
         /\ bytes # NoBytes => Len(bytes) = HeadSize(p.kind) /\ RecoversHead(p, bytes, o)
<1>1. PICK bytes : bytes = MarshalHead(p, o)
  OBVIOUS
<1>2. 0 \in Byte
  BY Bases DEF Byte
<1>3. CASE p.kind = "response"
  BY <1>1, <1>3, ResponseCodec DEF HeadSize
<1>4. CASE p.kind \in {"open", "register"}
  <2>1. PICK d \in Int, priority \in Byte : d = p.head.duration /\ priority = p.head.priority
    BY <1>4 DEF IsHead
  <2>2. CASE ~InByte(d)
    BY <1>1, <1>4, <2>1, <2>2 DEF MarshalHead, MarshalOpen, MarshalRegister, MarshalTimeout
  <2>3. CASE InByte(d)
    <3>1. PICK s \in Byte : s = Seconds(d) /\ Seconds(s * Second) = s
      BY <2>3, SecondsFacts
    <3>2. PICK b \in Byte : b = (IF p.kind = "open" THEN 0 ELSE priority)
      BY <1>2
    <3>3. bytes = <<s, b, 0, 0>>
      BY <1>1, <1>4, <2>1, <2>3, <3>1, <3>2 DEF MarshalHead, MarshalOpen, MarshalRegister, MarshalTimeout
    <3>4. /\ bytes \in WholeWords /\ Len(bytes) = 4
          /\ \A payload \in Seq(Byte) :
               Carries(payload, 0, bytes) =>
                 At(payload, 1) = s /\ At(payload, 2) = b /\ payload[3] = 0 /\ Len(payload) >= 4
      BY <3>3, FourBytes
    <3>5. HeadSize(p.kind) = 4
      BY <1>4 DEF HeadSize
    <3>6. ASSUME NEW payload \in Seq(Byte), At(payload, 1) = s, At(payload, 2) = b
          PROVE  HeadMeaning(p.kind, UnmarshalHead(p.kind, payload, o)) = HeadMeaning(p.kind, p.head)
      <4>1. PICK h : h = UnmarshalHead(p.kind, payload, o)
        OBVIOUS
      <4>2. h.duration = s * Second /\ (p.kind = "register" => h.priority = b)
        BY <1>4, <3>6, <4>1 DEF UnmarshalHead, UnmarshalOpen, UnmarshalTimeout
      <4>3. CASE p.kind = "open"
        BY <2>1, <3>1, <4>1, <4>2, <4>3 DEF HeadMeaning
      <4>4. CASE p.kind = "register"
        BY <2>1, <3>1, <3>2, <4>1, <4>2, <4>4 DEF HeadMeaning
      <4> QED BY <1>4, <4>3, <4>4
    <3>7. RecoversHead(p, bytes, o)
      BY <3>4, <3>5, <3>6 DEF RecoversHead
    <3> QED BY <1>1, <3>4, <3>5, <3>7
  <2> QED BY <2>2, <2>3
<1>5. CASE p.kind = "unregister"
  <2>1. PICK priority \in Byte : priority = p.head.priority
    BY <1>5 DEF IsHead
  <2>2. bytes = <<0, priority, 0, 0>>
    BY <1>1, <1>5, <2>1 DEF MarshalHead, MarshalUnregister
  <2>3. /\ bytes \in WholeWords /\ Len(bytes) = 4
        /\ \A payload \in Seq(Byte) :
             Carries(payload, 0, bytes) => At(payload, 2) = priority /\ Len(payload) >= 4
    BY <1>2, <2>2, FourBytes
  <2>4. HeadSize(p.kind) = 4
    BY <1>5 DEF HeadSize
  <2>5. ASSUME NEW payload \in Seq(Byte), At(payload, 2) = priority
        PROVE  HeadMeaning(p.kind, UnmarshalHead(p.kind, payload, o)) = HeadMeaning(p.kind, p.head)
    BY <1>5, <2>1, <2>5 DEF UnmarshalHead, UnmarshalUnregister, HeadMeaning
  <2>6. RecoversHead(p, bytes, o)
    BY <1>5, <2>3, <2>4, <2>5 DEF RecoversHead
  <2> QED BY <1>1, <2>3, <2>4, <2>6
<1>6. CASE p.kind = "close"
  <2>1. PICK reason \in Byte : reason = p.head.reason
    BY <1>6 DEF IsHead
  <2>2. bytes = <<reason, 0, 0, 0>>
    BY <1>1, <1>6, <2>1 DEF MarshalHead, MarshalClose
  <2>3. /\ bytes \in WholeWords /\ Len(bytes) = 4
        /\ \A payload \in Seq(Byte) :
             Carries(payload, 0, bytes) => At(payload, 1) = reason /\ Len(payload) >= 4
    BY <1>2, <2>2, FourBytes
  <2>4. HeadSize(p.kind) = 4
    BY <1>6 DEF HeadSize
  <2>5. ASSUME NEW payload \in Seq(Byte), At(payload, 1) = reason
        PROVE  HeadMeaning(p.kind, UnmarshalHead(p.kind, payload, o)) = HeadMeaning(p.kind, p.head)
    BY <1>6, <2>1, <2>5 DEF UnmarshalHead, UnmarshalClose, HeadMeaning
  <2>6. RecoversHead(p, bytes, o)
    BY <1>6, <2>3, <2>4, <2>5 DEF RecoversHead
  <2> QED BY <1>1, <2>3, <2>4, <2>6
<1>7. CASE p.kind \notin {"response", "open", "register", "unregister", "close"}
  <2>1. bytes = <<>> /\ HeadSize(p.kind) = 0
    BY <1>1, <1>7 DEF MarshalHead, HeadSize
  <2>2. <<>> \in WholeWords /\ Len(<<>>) = 0
    BY DEF WholeWords
  <2>3. \A h : HeadMeaning(p.kind, h) = <<>>
    BY <1>7 DEF HeadMeaning
  <2>4. RecoversHead(p, bytes, o)
    BY <1>7, <2>1, <2>3 DEF RecoversHead
  <2> QED BY <1>1, <2>1, <2>2, <2>4
<1> QED BY <1>3, <1>4, <1>5, <1>6, <1>7

\* What is on the wire stays there when more is written.
LEMMA CarriesMore ==
  ASSUME NEW payload \in Seq(Byte), NEW more \in Seq(Byte)
  PROVE  /\ \A at, bytes : Carries(payload, at, bytes) => Carries(payload \o more, at, bytes)
         /\ Carries(payload \o more, Len(payload), more)
<1>1. PICK all \in Seq(Byte) :
        /\ all = payload \o more /\ Len(all) = Len(payload) + Len(more)
        /\ \A i \in 1 .. Len(payload) + Len(more) :
             all[i] = IF i <= Len(payload) THEN payload[i] ELSE more[i - Len(payload)]
  <2>1. /\ payload \o more \in Seq(Byte) /\ Len(payload \o more) = Len(payload) + Len(more)
        /\ \A i \in 1 .. Len(payload) + Len(more) :
             (payload \o more)[i] = IF i <= Len(payload) THEN payload[i] ELSE more[i - Len(payload)]
    BY ConcatProperties
  <2> QED BY <2>1, Zenon
<1>2. PICK n \in Nat, m \in Nat : n = Len(payload) /\ m = Len(more) /\ DOMAIN payload = 1 .. n /\ DOMAIN all = 1 .. n + m
  BY <1>1
<1>3. ASSUME NEW i \in DOMAIN payload PROVE i \in DOMAIN all /\ all[i] = payload[i]
  BY <1>1, <1>2
<1>4. ASSUME NEW at, NEW bytes, Carries(payload, at, bytes) PROVE Carries(all, at, bytes)
  BY <1>3, <1>4 DEF Carries
<1>5. ASSUME NEW i \in 1 .. m PROVE n + i \in DOMAIN all /\ all[n + i] = more[i]
  <2>1. n + i \in 1 .. n + m /\ ~(n + i <= n) /\ (n + i) - n = i
    OBVIOUS
  <2> QED BY <1>1, <1>2, <2>1
<1>6. Carries(all, n, more)
  BY <1>2, <1>5 DEF Carries
<1> QED BY <1>1, <1>2, <1>4, <1>6

\* A timestamp in front of a list (notify.go).
LEMMA Prepended ==
  ASSUME NEW p \in Packets, NEW first
  PROVE  LET items == <<first>> \o p.items IN
         /\ Len(p.items) \in Nat /\ Len(items) = Len(p.items) + 1 /\ DOMAIN items = 1 .. Len(p.items) + 1
         /\ items[1] = first /\ \A k \in 1 .. Len(p.items) : items[k + 1] = p.items[k]
<1>1. PICK n \in Nat : n = Len(p.items) /\ p.items = [i \in 1 .. n |-> p.items[i]]
  BY PacketsAssumption
<1>2. PICK S : first \in S /\ \A i \in 1 .. n : p.items[i] \in S
  <2>1. first \in {first} \cup {p.items[i] : i \in 1 .. n}
    OBVIOUS
  <2>2. \A i \in 1 .. n : p.items[i] \in {first} \cup {p.items[j] : j \in 1 .. n}
    OBVIOUS
  <2> QED BY <2>1, <2>2
<1>3. p.items \in [1 .. n -> S]
  BY <1>1, <1>2
<1>4. PICK s \in Seq(S), f \in Seq(S) : s = p.items /\ f = <<first>> /\ Len(f) = 1 /\ f[1] = first /\ Len(s) = n
  <2>1. p.items \in Seq(S) /\ Len(p.items) = n
    BY <1>1, <1>3, FunctionIsSeq
  <2>2. <<first>> \in Seq(S) /\ Len(<<first>>) = 1 /\ <<first>>[1] = first
    BY <1>2
  <2> QED BY <2>1, <2>2
<1>5. PICK items \in Seq(S) :
        /\ items = f \o s /\ Len(items) = Len(f) + Len(s)
        /\ \A i \in 1 .. Len(f) + Len(s) : items[i] = IF i <= Len(f) THEN f[i] ELSE s[i - Len(f)]
  <2>1. /\ f \o s \in Seq(S) /\ Len(f \o s) = Len(f) + Len(s)
        /\ \A i \in 1 .. Len(f) + Len(s) : (f \o s)[i] = IF i <= Len(f) THEN f[i] ELSE s[i - Len(f)]
    BY ConcatProperties
  <2> QED BY <2>1, Zenon
<1>6. items = <<first>> \o p.items
  BY <1>4, <1>5
<1>7. Len(items) = n + 1 /\ DOMAIN items = 1 .. n + 1
  BY <1>4, <1>5
<1>8. items[1] = first
  <2>1. 1 \in 1 .. Len(f) + Len(s) /\ 1 <= Len(f)
    BY <1>4
  <2> QED BY <1>4, <1>5, <2>1
<1>9. ASSUME NEW k \in 1 .. n PROVE items[k + 1] = p.items[k]
  <2>1. k + 1 \in 1 .. Len(f) + Len(s) /\ ~(k + 1 <= Len(f)) /\ (k + 1) - Len(f) = k
    BY <1>4
  <2> QED BY <1>4, <1>5, <2>1
<1> QED BY <1>1, <1>6, <1>7, <1>8, <1>9

\* The timestamp as a variable.
UpTime(p) ==
  [type |-> "TimeTicks", name |-> SetIdentifier(OIDSysUpTime), go |-> "duration", val |-> p.head.timestamp]

\* The timestamp of a notification can be encoded unless it is negative.
LEMMA UpTimeFacts ==
  ASSUME NEW p \in Packets, p.kind = "notify", NEW o
  PROVE  /\ IsVariable(UpTime(p)) /\ p.head.timestamp \in Int
         /\ GetIdentifier(UpTime(p).name) = OIDSysUpTime
         /\ p.head.timestamp >= 0 => MarshalVariable(UpTime(p), o) # NoBytes
<1>1. PICK oid \in OIDs : oid = OIDSysUpTime /\ Len(oid) <= MaxSubidentifiers /\ "TimeTicks" \in DOMAIN TypeCodes
  BY CodecAssumption
<1>2. PICK x \in ObjectIdentifiers : x = SetIdentifier(oid) /\ GetIdentifier(x) = oid /\ x.subs = oid
  BY SetGetIdentifier DEF SetIdentifier
<1>3. PICK ts \in Int : ts = p.head.timestamp
  BY PacketsAssumption DEF IsHead
<1>4. PICK v : /\ v = UpTime(p) /\ v = [type |-> "TimeTicks", name |-> x, go |-> "duration", val |-> ts]
               /\ v.type = "TimeTicks" /\ v.name = x /\ v.go = "duration" /\ v.val = ts
  <2>1. UpTime(p) = [type |-> "TimeTicks", name |-> x, go |-> "duration", val |-> ts]
    BY <1>1, <1>2, <1>3, Zenon DEF UpTime
  <2> QED BY <2>1
<1>5. IsVariable(v)
  BY <1>1, <1>4 DEF IsVariable, GoValues
<1>6. ASSUME ts >= 0 PROVE MarshalVariable(v, o) # NoBytes
  <2>1. MarshalOID(x, o) # NoBytes
    BY <1>1, <1>2, OIDCodec
  <2>2. Encodable(v)
    BY <1>4, <1>6 DEF Encodable, NoData
  <2>3. marshalValue(v, o) = PutUint32(Ticks(ts), o)
    BY <1>4, <2>2 DEF marshalValue, NoData
  <2>4. Ticks(ts) \in Int
    BY TicksFacts, Bases
  <2>5. marshalValue(v, o) # NoBytes
    BY <2>3, <2>4, Uint32Codec, NoBytesIsNone
  <2> QED BY <1>4, <1>5, <2>1, <2>5, VariableCodec
<1> QED BY <1>1, <1>2, <1>3, <1>4, <1>5, <1>6

\* What a packet puts on the wire.
LEMMA PacketFacts ==
  ASSUME NEW p \in Packets
  PROVE  /\ IsHead(p.kind, p.head)
         /\ Len(WireItems(p)) \in Nat /\ DOMAIN WireItems(p) = 1 .. Len(WireItems(p))
         /\ \A k \in 1 .. Len(WireItems(p)) : IsItem(Shape(p.kind, k), WireItems(p)[k])
         /\ p.kind \notin Lists => Len(WireItems(p)) = FixedItems(p.kind)
<1>1. /\ IsHead(p.kind, p.head) /\ Len(p.items) \in Nat /\ DOMAIN p.items = 1 .. Len(p.items)
      /\ p.kind \in Lists \/ Len(p.items) = FixedItems(p.kind)
      /\ \A k \in 1 .. Len(p.items) : IsItem(Shape(p.kind, k), p.items[k])
  BY PacketsAssumption
<1>2. CASE WireItems(p) = p.items
  BY <1>1, <1>2
<1>3. CASE WireItems(p) # p.items
  <2>1. p.kind = "notify" /\ WireItems(p) = <<UpTime(p)>> \o p.items
    BY <1>3 DEF WireItems, varBindList, UpTime
  <2>2. PICK n \in Nat : n = Len(p.items)
    BY <1>1
  <2>3. PICK items :
          /\ items = WireItems(p) /\ n = Len(p.items) /\ Len(items) = n + 1 /\ DOMAIN items = 1 .. n + 1
          /\ items[1] = UpTime(p) /\ \A k \in 1 .. n : items[k + 1] = p.items[k]
    BY <2>1, <2>2, Prepended
  <2>4. \A k : Shape(p.kind, k) = "variable"
    BY <2>1 DEF Shape, VariableLists, RangeLists
  <2>5. IsVariable(UpTime(p)) /\ p.kind \in Lists
    BY <2>1, UpTimeFacts DEF Lists, VariableLists
  <2>6. ASSUME NEW k \in 1 .. n + 1 PROVE IsItem(Shape(p.kind, k), items[k])
    <3>1. CASE k = 1
      BY <2>3, <2>4, <2>5, <3>1 DEF IsItem
    <3>2. CASE k # 1
      <4>1. PICK j \in 1 .. n : k = j + 1
        <5>1. k - 1 \in 1 .. n /\ k = (k - 1) + 1
          BY <3>2
        <5> QED BY <5>1
      <4>2. IsItem("variable", p.items[j])
        BY <1>1, <2>3, <2>4
      <4> QED BY <2>3, <2>4, <4>1, <4>2
    <3> QED BY <3>1, <3>2
  <2> QED BY <1>1, <2>3, <2>5, <2>6
<1> QED BY <1>2, <1>3

-----------------------------------------------------------------------------
(* The inductive invariant *)

\* The bytes of the k-th item of a packet on the wire.
ItemBytes(p, o, k) == MarshalItem(Shape(p.kind, k), WireItems(p)[k], o)

\* Where the k-th item begins, and where the last one ends.
Begin(s, d, k) == IF k <= Len(s) THEN s[k] ELSE Len(d)

\* A payload has the fixed part of a packet and then its first Len(s) items, each
\* where the one before it ended, and nothing else.
LaidOut(p, o, s, d) ==
  /\ MarshalHead(p, o) # NoBytes /\ Carries(d, 0, MarshalHead(p, o))
  /\ Begin(s, d, 1) = HeadSize(p.kind)
  /\ Len(s) <= Len(WireItems(p))
  /\ \A k \in 1 .. Len(s) :
       /\ ItemBytes(p, o, k) # NoBytes /\ Carries(d, Begin(s, d, k), ItemBytes(p, o, k))
       /\ Begin(s, d, k + 1) = Begin(s, d, k) + Len(ItemBytes(p, o, k))

\* A decoded item means what the k-th item of a packet does.
SameItem(p, k, w) ==
  /\ ItemMeaning(Shape(p.kind, k), w) = ItemMeaning(Shape(p.kind, k), WireItems(p)[k])
  /\ Shape(p.kind, k) = "variable" /\ WireItems(p)[k].type = "TimeTicks" =>
       w.go = "duration" /\ w.val \div Tick = ValueMeaning(WireItems(p)[k])

Phases == {"idle", "encoding", "unencodable", "encoded", "decoding", "accepted", "rejected"}

Typed ==
  /\ phase \in Phases /\ damaged \in BOOLEAN
  /\ phase # "idle" => pkt \in Packets
  /\ starts \in Seq(Nat) /\ data \in Seq(Byte) /\ off \in Nat /\ reach \in Nat
  /\ \E S : out \in Seq(S)

\* Nothing is decoded before everything is encoded, and only that is damaged.
Staged ==
  /\ phase \in {"idle", "encoding", "unencodable", "encoded"} => out = <<>> /\ off = 0 /\ reach = 0
  /\ phase \in {"idle", "encoding", "unencodable"} => damaged = FALSE
  /\ phase = "idle" => data = <<>> /\ starts = <<>> /\ pkt = NoPacket

Aligned ==
  /\ damaged = FALSE => Len(data) % 4 = 0
  /\ reach <= Len(data)
  /\ off % 4 = 0 /\ Len(out) * 4 <= off
  /\ Len(data) % 4 = 0 => off <= Len(data)
  /\ phase = "accepted" /\ pkt.kind \in Lists => off >= Len(data)

\* What is decoded so far of an undamaged payload.
ReadBack ==
  /\ phase # "rejected"
  /\ Len(out) <= Len(starts) /\ off = Begin(starts, data, Len(out) + 1)
  /\ phase = "accepted" => Len(out) = Len(starts)
  /\ phase = "decoding" \/ pkt.kind # "notify" =>
       HeadMeaning(pkt.kind, head) = HeadMeaning(pkt.kind, pkt.head)
  /\ \A k \in 1 .. Len(out) : SameItem(pkt, k, out[k])

Layout ==
  /\ damaged = FALSE /\ phase \notin {"idle", "unencodable"} =>
       /\ LaidOut(pkt, order, starts, data)
       /\ phase # "encoding" => Len(starts) = Len(WireItems(pkt))
  /\ damaged = FALSE /\ phase \in {"decoding", "accepted", "rejected"} => ReadBack

\* Why a packet is not encoded, and where the timestamp of a notification is from.
Reasons ==
  /\ phase \notin {"idle", "unencodable"} => Valid(pkt)
  /\ phase = "unencodable" =>
       \/ ~Valid(pkt) \/ MarshalHead(pkt, order) = NoBytes
       \/ \E k \in 1 .. Len(WireItems(pkt)) : ItemBytes(pkt, order, k) = NoBytes
  /\ phase = "accepted" /\ pkt.kind = "notify" => head.timestamp = Timestamp(out)

-----------------------------------------------------------------------------
(* Alignment and bounds *)

\* The next item begins in the payload or at its end, damaged or not: only the last
\* one can lack its padding.
Within ==
  phase = "decoding" =>
    /\ pkt.kind \notin Lists => Len(out) <= FixedItems(pkt.kind)
    /\ ~Complete => off <= Len(data)

Sound == Typed /\ Staged /\ Aligned /\ Within

\* An empty payload is aligned and in bounds.
LEMMA SoundInit == Init => Sound
<1> SUFFICES ASSUME Init PROVE Sound
  OBVIOUS
<1>1. <<>> \in Seq(Nat) /\ <<>> \in Seq(Byte) /\ Len(<<>>) = 0 /\ 0 % 4 = 0 /\ 0 * 4 = 0
  OBVIOUS
<1>2. Typed
  BY <1>1 DEF Init, Typed, Phases
<1>3. Staged
  BY DEF Init, Staged
<1>4. Aligned
  BY <1>1 DEF Init, Aligned
<1>5. Within
  BY DEF Init, Within
<1> QED BY <1>2, <1>3, <1>4, <1>5 DEF Sound

\* What is written is whole words.
LEMMA WriteFacts ==
  ASSUME data \in Seq(Byte), Len(data) % 4 = 0, NEW bytes \in WholeWords \cup {NoBytes}, NEW going,
         Write(bytes, going)
  PROVE  /\ data' \in Seq(Byte) /\ Len(data') % 4 = 0
         /\ bytes = NoBytes => data' = <<>> /\ phase' = "unencodable"
         /\ bytes # NoBytes => /\ data' = data \o bytes /\ phase' = going /\ bytes \in Seq(Byte)
                               /\ Len(data') = Len(data) + Len(bytes)
<1>1. CASE bytes = NoBytes
  <2>1. data' = <<>> /\ phase' = "unencodable"
    BY <1>1 DEF Write
  <2>2. <<>> \in Seq(Byte) /\ Len(<<>>) = 0 /\ 0 % 4 = 0
    OBVIOUS
  <2> QED BY <1>1, <2>1, <2>2
<1>2. CASE bytes # NoBytes
  <2>1. data' = data \o bytes /\ phase' = going /\ bytes \in WholeWords /\ bytes \in Seq(Byte)
    BY <1>2 DEF Write, WholeWords
  <2>2. data \in WholeWords
    BY DEF WholeWords
  <2>3. data \o bytes \in WholeWords /\ Len(data \o bytes) = Len(data) + Len(bytes)
    BY <2>1, <2>2, ConcatBytes
  <2> QED BY <1>2, <2>1, <2>3 DEF WholeWords
<1> QED BY <1>1, <1>2

\* The fixed part of a packet is whole words.
LEMMA SoundMarshalStart ==
  ASSUME Sound, NEW p \in Packets, NEW o, MarshalStart(p, o)
  PROVE  Sound'
<1>1. /\ phase = "idle" /\ data = <<>> /\ out = <<>> /\ off = 0 /\ reach = 0 /\ damaged = FALSE /\ pkt' = p
      /\ starts' = starts /\ damaged' = damaged /\ off' = off /\ reach' = reach /\ out' = out
      /\ starts \in Seq(Nat)
  BY DEF Sound, Typed, Staged, MarshalStart
<1>2. PICK bytes \in WholeWords \cup {NoBytes} : Write(bytes, "encoding")
  <2>1. IsHead(p.kind, p.head)
    BY PacketFacts
  <2>2. MarshalHead(p, o) \in WholeWords \cup {NoBytes}
    BY <2>1, HeadCodec
  <2> QED BY <2>2 DEF MarshalStart
<1>3. data \in Seq(Byte) /\ Len(data) % 4 = 0
  BY <1>1 DEF Sound, Typed, Aligned
<1>4. data' \in Seq(Byte) /\ Len(data') % 4 = 0 /\ phase' \in {"encoding", "unencodable"}
  BY <1>2, <1>3, WriteFacts
<1>5. <<>> \in Seq(Nat) /\ Len(<<>>) = 0 /\ 0 % 4 = 0 /\ 0 * 4 = 0 /\ Len(data') \in Nat
  BY <1>4
<1>6. Typed'
  BY <1>1, <1>4, <1>5 DEF Typed, Phases
<1>7. Staged'
  BY <1>1, <1>4 DEF Staged
<1>8. Aligned'
  BY <1>1, <1>4, <1>5 DEF Aligned
<1>9. Within'
  BY <1>4 DEF Within
<1> QED BY <1>6, <1>7, <1>8, <1>9 DEF Sound

\* Every item is whole words.
LEMMA SoundMarshalNext ==
  ASSUME Sound, MarshalNext
  PROVE  Sound'
<1>1. /\ phase = "encoding" /\ out = <<>> /\ off = 0 /\ reach = 0 /\ damaged = FALSE /\ pkt \in Packets
      /\ starts' = Append(starts, Len(data)) /\ damaged' = damaged /\ off' = off /\ reach' = reach
      /\ out' = out /\ pkt' = pkt /\ starts \in Seq(Nat)
  BY DEF Sound, Typed, Staged, MarshalNext
<1>2. PICK bytes \in WholeWords \cup {NoBytes} : Write(bytes, "encoding")
  <2>1. Len(starts) + 1 \in 1 .. Len(WireItems(pkt))
    <3>1. Len(starts) \in Nat /\ Len(WireItems(pkt)) \in Nat /\ Len(starts) < Len(WireItems(pkt))
      BY <1>1, PacketFacts DEF MarshalNext
    <3> QED BY <3>1
  <2>2. PICK i : i = Len(starts) + 1 /\ IsItem(Shape(pkt.kind, i), WireItems(pkt)[i])
    BY <1>1, <2>1, PacketFacts
  <2>3. MarshalItem(Shape(pkt.kind, i), WireItems(pkt)[i], order) \in WholeWords \cup {NoBytes}
    BY <2>2, ItemCodec
  <2> QED BY <2>2, <2>3 DEF MarshalNext
<1>3. data \in Seq(Byte) /\ Len(data) % 4 = 0 /\ Len(data) \in Nat
  BY <1>1 DEF Sound, Typed, Aligned
<1>4. data' \in Seq(Byte) /\ Len(data') % 4 = 0 /\ phase' \in {"encoding", "unencodable"}
  BY <1>2, <1>3, WriteFacts
<1>5. <<>> \in Seq(Nat) /\ Len(<<>>) = 0 /\ 0 % 4 = 0 /\ 0 * 4 = 0 /\ Len(data') \in Nat
  BY <1>4
<1>6. starts' \in Seq(Nat)
  BY <1>1, <1>3, AppendProperties
<1>7. Typed'
  BY <1>1, <1>4, <1>5, <1>6 DEF Typed, Phases
<1>8. Staged'
  BY <1>1, <1>4 DEF Staged
<1>9. Aligned'
  BY <1>1, <1>4, <1>5 DEF Aligned
<1>10. Within'
  BY <1>4 DEF Within
<1> QED BY <1>7, <1>8, <1>9, <1>10 DEF Sound

\* The end of the encoding leaves the payload alone.
LEMMA SoundMarshalEnd ==
  ASSUME Sound, MarshalEnd
  PROVE  Sound'
<1>1. Typed'
  BY DEF Sound, Typed, Phases, MarshalEnd
<1>2. Staged'
  BY DEF Sound, Staged, MarshalEnd
<1>3. Aligned'
  BY DEF Sound, Aligned, MarshalEnd
<1>4. Within'
  BY DEF Within, MarshalEnd
<1> QED BY <1>1, <1>2, <1>3, <1>4 DEF Sound

\* Damage leaves bytes, and nothing has been decoded of them.
LEMMA SoundDamage ==
  ASSUME Sound, Damage
  PROVE  Sound'
<1>1. /\ phase = "encoded" /\ phase' = "encoded" /\ out = <<>> /\ out' = <<>> /\ off' = 0 /\ reach' = 0
      /\ damaged' = TRUE /\ pkt' = pkt /\ starts' = starts /\ pkt \in Packets /\ starts \in Seq(Nat)
      /\ data \in Seq(Byte)
  BY DEF Sound, Typed, Staged, Damage
<1>2. data' \in Seq(Byte)
  <2>1. ASSUME NEW n \in 0 .. Len(data) - 1, data' = SubSeq(data, 1, n) PROVE data' \in Seq(Byte)
    <3>1. \A i \in 1 .. Len(data) : data[i] \in Byte
      BY <1>1, ElementOfSeq
    <3>2. n \in Int /\ 1 \in Int /\ \A i \in 1 .. n : data[i] \in Byte
      <4>1. Len(data) \in Nat
        BY <1>1
      <4> QED BY <3>1, <4>1
    <3> QED BY <2>1, <3>2, SubSeqProperties
  <2>2. ASSUME NEW i \in DOMAIN data, NEW b \in 0 .. Radix - 1, data' = [data EXCEPT ![i] = b]
        PROVE  data' \in Seq(Byte)
    <3>1. b \in Byte /\ i \in 1 .. Len(data)
      BY <1>1 DEF Byte
    <3> QED BY <1>1, <2>2, <3>1, ExceptSeq
  <2>3. ASSUME NEW b \in 0 .. Radix - 1, data' = data \o <<b, 0, 0, 0>> PROVE data' \in Seq(Byte)
    <3>1. b \in Byte /\ 0 \in Byte
      BY Bases DEF Byte
    <3>2. <<b, 0, 0, 0>> \in Seq(Byte)
      BY <3>1
    <3> QED BY <1>1, <2>3, <3>2, ConcatBytes
  <2> QED BY <2>1, <2>2, <2>3 DEF Damage
<1>3. Len(<<>>) = 0 /\ 0 % 4 = 0 /\ 0 * 4 = 0 /\ Len(data') \in Nat /\ <<>> \in Seq(Nat)
  BY <1>2
<1>4. Typed'
  BY <1>1, <1>2, <1>3 DEF Typed, Phases
<1>5. Staged'
  BY <1>1 DEF Staged
<1>6. Aligned'
  BY <1>1, <1>3 DEF Aligned
<1>7. Within'
  BY <1>1 DEF Within
<1> QED BY <1>4, <1>5, <1>6, <1>7 DEF Sound

\* The fixed part is decoded only if it is there.
LEMMA SoundUnmarshalStart ==
  ASSUME Sound, UnmarshalStart
  PROVE  Sound'
<1>1. /\ phase = "encoded" /\ out = <<>> /\ out' = <<>> /\ off = 0 /\ reach = 0 /\ data' = data
      /\ damaged' = damaged /\ pkt' = pkt /\ starts' = starts /\ pkt \in Packets /\ starts \in Seq(Nat)
      /\ data \in Seq(Byte) /\ damaged \in BOOLEAN
  BY DEF Sound, Typed, Staged, UnmarshalStart
<1>2. PICK n \in Nat, size \in {0, 4, 8} : n = Len(data) /\ size = HeadSize(pkt.kind)
  BY <1>1 DEF HeadSize
<1>3. /\ \/ phase' = "rejected" /\ off' = 0
         \/ phase' = "decoding" /\ off' = size /\ n >= size
      /\ \/ reach' = 0
         \/ reach' = size /\ n >= size
  BY <1>1, <1>2 DEF UnmarshalStart, HeadAccepted, HasHead
<1>4. off' \in Nat /\ reach' \in Nat /\ reach' <= n /\ off' <= n /\ off' % 4 = 0 /\ phase' \in {"decoding", "rejected"}
  BY <1>2, <1>3
<1>5. Len(<<>>) = 0 /\ 0 * 4 = 0 /\ <<>> \in Seq(Nat)
  OBVIOUS
<1>6. Typed'
  BY <1>1, <1>4, <1>5 DEF Typed, Phases
<1>7. Staged'
  BY <1>4 DEF Staged
<1>8. Aligned'
  <2>1. damaged = FALSE => n % 4 = 0
    BY <1>2 DEF Sound, Aligned
  <2>2. Len(out') * 4 <= off' /\ Len(data') = n
    BY <1>1, <1>2, <1>4, <1>5
  <2> QED BY <1>1, <1>4, <2>1, <2>2 DEF Aligned
<1>9. Within'
  <2>1. 0 <= FixedItems(pkt.kind)
    BY DEF FixedItems
  <2> QED BY <1>1, <1>2, <1>4, <1>5, <2>1 DEF Within
<1> QED BY <1>6, <1>7, <1>8, <1>9 DEF Sound

\* An item is decoded from what is there, by ItemDecodes.
LEMMA SoundUnmarshalNext ==
  ASSUME Sound, UnmarshalNext
  PROVE  Sound'
<1>1. /\ phase = "decoding" /\ data' = data /\ damaged' = damaged /\ pkt' = pkt /\ starts' = starts
      /\ pkt \in Packets /\ starts \in Seq(Nat) /\ data \in Seq(Byte) /\ damaged \in BOOLEAN
      /\ off \in Nat /\ reach \in Nat
  BY DEF Sound, Typed, UnmarshalNext
<1>2. PICK S : out \in Seq(S)
  BY DEF Sound, Typed
<1>3. PICK n \in Nat, m \in Nat : n = Len(data) /\ m = Len(out)
  BY <1>1, <1>2
<1>4. /\ reach <= n /\ off % 4 = 0 /\ m * 4 <= off /\ (n % 4 = 0 => off <= n)
      /\ (damaged = FALSE => n % 4 = 0)
  BY <1>3 DEF Sound, Aligned
<1>5. PICK r : /\ r = UnmarshalItem(Shape(pkt.kind, Len(out) + 1), data, off, order)
               /\ Fits(r, data, off, 4)
  BY <1>1, ItemDecodes
<1>6. CASE r.ok = FALSE
  <2>1. phase' = "rejected" /\ out' = out /\ off' = off /\ reach' = off + r.reach
    BY <1>5, <1>6 DEF UnmarshalNext
  <2>2. off <= n
    BY <1>1, <1>3 DEF Sound, Within, UnmarshalNext
  <2>3. reach' \in Nat /\ reach' <= n
    <3>1. PICK reached \in Nat : reached = r.reach /\ off + reached <= n
      BY <1>3, <1>5, <1>6, <2>2 DEF Fits
    <3> QED BY <1>1, <2>1, <3>1
  <2>4. Typed'
    BY <1>1, <1>2, <2>1, <2>3 DEF Typed, Phases
  <2>5. Staged'
    BY <2>1 DEF Staged
  <2>6. Aligned'
    BY <1>1, <1>3, <1>4, <2>1, <2>3 DEF Aligned
  <2>7. Within'
    BY <2>1 DEF Within
  <2> QED BY <2>4, <2>5, <2>6, <2>7 DEF Sound
<1>7. CASE r.ok = TRUE
  <2>1. PICK v : v = r.value /\ out' = Append(out, v) /\ off' = off + r.size /\ reach' = off + r.reach /\ phase' = phase
    BY <1>5, <1>7 DEF UnmarshalNext
  <2>2. PICK size \in Nat, reached \in Nat :
          /\ size = r.size /\ reached = r.reach /\ size % 4 = 0 /\ size >= 4 /\ off + reached <= n
          /\ n % 4 = 0 /\ off % 4 = 0 => off + size <= n
    BY <1>3, <1>5, <1>7 DEF Fits
  <2>3. PICK T : out \in Seq(T) /\ v \in T
    <3>1. out \in Seq(S \cup {v})
      BY <1>2, SeqMonotonic
    <3> QED BY <3>1
  <2>4. out' \in Seq(T) /\ Len(out') = m + 1
    BY <1>3, <2>1, <2>3, AppendProperties
  <2>5. off' \in Nat /\ reach' \in Nat /\ reach' <= n /\ (m + 1) * 4 <= off' /\ (n % 4 = 0 => off' <= n)
    <3>1. off' = off + size /\ reach' = off + reached
      BY <2>1, <2>2
    <3>2. (m + 1) * 4 = m * 4 + 4
      OBVIOUS
    <3>3. m * 4 + 4 <= off + size
      BY <1>1, <1>4, <2>2
    <3>4. n % 4 = 0 => off + size <= n
      BY <1>4, <2>2
    <3>5. off' \in Nat /\ reach' \in Nat /\ reach' <= n
      <4>1. off \in Nat /\ off + reached <= n
        BY <1>1, <2>2
      <4>2. off + size \in Nat /\ off + reached \in Nat
        BY <4>1
      <4> QED BY <3>1, <4>1, <4>2
    <3>6. (m + 1) * 4 <= off' /\ (n % 4 = 0 => off' <= n)
      BY <3>1, <3>2, <3>3, <3>4
    <3> QED BY <3>5, <3>6
  <2>6. off' % 4 = 0
    BY <1>1, <1>4, <2>1, <2>2, WordsAdd
  <2>7. Typed'
    BY <1>1, <2>1, <2>4, <2>5 DEF Typed, Phases
  <2>8. Staged'
    BY <1>1, <2>1 DEF Staged
  <2>9. Aligned'
    BY <1>1, <1>3, <1>4, <2>1, <2>4, <2>5, <2>6 DEF Aligned
  <2>10. Within'
    <3>1. ASSUME pkt.kind \notin Lists
          PROVE  /\ m + 1 <= FixedItems(pkt.kind)
                 /\ m + 1 # FixedItems(pkt.kind) => pkt.kind = "open" /\ m = 0
      <4>1. m # FixedItems(pkt.kind) /\ m <= FixedItems(pkt.kind)
        BY <1>1, <1>3, <3>1 DEF Sound, Within, Complete, UnmarshalNext
      <4> QED BY <4>1 DEF FixedItems
    <3>2. SUFFICES ASSUME ~Complete' PROVE off' <= Len(data)'
      BY <1>1, <2>4, <3>1 DEF Within
    <3>3. CASE pkt.kind \in Lists
      <4>1. off' \in Nat /\ ~(off' >= n)
        BY <1>1, <1>3, <2>5, <3>3, <3>2 DEF Complete
      <4> QED BY <1>1, <1>3, <4>1
    <3>4. CASE pkt.kind \notin Lists
      <4>1. m + 1 # FixedItems(pkt.kind)
        BY <1>1, <2>4, <3>4, <3>2 DEF Complete
      <4>2. pkt.kind = "open" /\ m = 0
        BY <3>1, <3>4, <4>1
      <4>3. r = UnmarshalOID(data, off, order)
        BY <1>3, <1>5, <4>2 DEF Shape, VariableLists, RangeLists, UnmarshalItem
      <4>4. off + r.size <= Len(data)
        BY <1>1, <1>7, <4>3, OIDDecodes
      <4> QED BY <1>1, <2>1, <4>4
    <3> QED BY <3>3, <3>4
  <2> QED BY <2>7, <2>8, <2>9, <2>10 DEF Sound
<1> QED BY <1>5, <1>6, <1>7 DEF Fits

\* A list ends at the end of the payload.
LEMMA SoundUnmarshalEnd ==
  ASSUME Sound, UnmarshalEnd
  PROVE  Sound'
<1>1. Typed'
  BY DEF Sound, Typed, Phases, UnmarshalEnd
<1>2. Staged'
  BY DEF Sound, Staged, UnmarshalEnd
<1>3. Aligned'
  BY DEF Sound, Aligned, UnmarshalEnd, Complete
<1>4. Within'
  BY DEF Within, UnmarshalEnd
<1> QED BY <1>1, <1>2, <1>3, <1>4 DEF Sound

\* Every step keeps the payload aligned and in bounds.
LEMMA SoundStep == Sound /\ [Next]_vars => Sound'
<1> SUFFICES ASSUME Sound, [Next]_vars PROVE Sound'
  OBVIOUS
<1>1. CASE UNCHANGED vars
  BY <1>1 DEF vars, Sound, Typed, Staged, Aligned, Within, Complete
<1> QED BY <1>1, SoundMarshalStart, SoundMarshalNext, SoundMarshalEnd, SoundDamage, SoundUnmarshalStart,
           SoundUnmarshalNext, SoundUnmarshalEnd DEF Next, Unmarshal

\* No decoder looks past the end of its payload, whatever the counts and lengths in
\* it say, for every packet, byte order and damage (InBounds).
THEOREM DecodersStayInBounds == Spec => []InBounds
<1>1. Sound => InBounds
  BY DEF Sound, Aligned, InBounds
<1> QED BY <1>1, SoundInit, SoundStep, PTL DEF Spec

\* Encoders write whole words, and a payload of whole words is used up to its last
\* byte, item after item on word boundaries (StaysAligned).
THEOREM PayloadsStayAligned == Spec => []StaysAligned
<1>1. Sound => StaysAligned
  BY DEF Sound, Typed, Aligned, StaysAligned
<1> QED BY <1>1, SoundInit, SoundStep, PTL DEF Spec

-----------------------------------------------------------------------------
(* The way there and back *)

\* Where the items begin, after one more is written.
LEMMA BeginMore ==
  ASSUME NEW s \in Seq(Nat), NEW d \in Seq(Byte), NEW e \in Seq(Byte)
  PROVE  LET t == Append(s, Len(d)) IN
         /\ Len(t) = Len(s) + 1 /\ Len(s) \in Nat
         /\ \A k \in 1 .. Len(s) + 1 : Begin(t, e, k) = Begin(s, d, k)
         /\ Begin(t, e, Len(s) + 2) = Len(e)
<1>1. PICK m \in Nat, n \in Nat : m = Len(s) /\ n = Len(d)
  OBVIOUS
<1>2. PICK t : /\ t = Append(s, n) /\ Len(t) = m + 1 /\ t[m + 1] = n
               /\ \A k \in 1 .. m : t[k] = s[k]
  <2>1. PICK t : t = Append(s, n)
    OBVIOUS
  <2>2. Len(t) = Len(s) + 1 /\ t[Len(s) + 1] = n /\ \A k \in 1 .. Len(s) : t[k] = s[k]
    BY <2>1, AppendProperties
  <2> QED BY <1>1, <2>1, <2>2
<1>3. ASSUME NEW k \in 1 .. m + 1 PROVE Begin(t, e, k) = Begin(s, d, k)
  <2>1. CASE k <= m
    <3>1. k \in 1 .. m /\ k <= m + 1
      BY <2>1
    <3> QED BY <1>1, <1>2, <2>1, <3>1 DEF Begin
  <2>2. CASE k = m + 1
    <3>1. ~(m + 1 <= m)
      OBVIOUS
    <3> QED BY <1>1, <1>2, <2>2, <3>1 DEF Begin
  <2> QED BY <2>1, <2>2
<1>4. Begin(t, e, m + 2) = Len(e)
  <2>1. ~(m + 2 <= m + 1)
    OBVIOUS
  <2> QED BY <1>2, <2>1 DEF Begin
<1> QED BY <1>1, <1>2, <1>3, <1>4

\* The fixed part is laid out at the beginning.
LEMMA LaidOutStart ==
  ASSUME NEW p \in Packets, NEW o, NEW bytes, bytes = MarshalHead(p, o), bytes # NoBytes
  PROVE  LaidOut(p, o, <<>>, bytes)
<1>1. bytes \in WholeWords /\ Len(bytes) = HeadSize(p.kind)
  BY PacketFacts, HeadCodec
<1>2. bytes \in Seq(Byte) /\ Len(bytes) \in Nat /\ Len(<<>>) = 0 /\ ~(1 <= 0)
  BY <1>1 DEF WholeWords
<1>3. Carries(bytes, 0, bytes)
  <2>1. \A i \in 1 .. Len(bytes) : 0 + i = i /\ i \in DOMAIN bytes
    BY <1>2
  <2> QED BY <2>1 DEF Carries
<1>4. Begin(<<>>, bytes, 1) = HeadSize(p.kind)
  BY <1>1, <1>2 DEF Begin
<1>5. Len(<<>>) <= Len(WireItems(p))
  BY <1>2, PacketFacts
<1>6. 1 .. Len(<<>>) = {}
  BY <1>2
<1> QED BY <1>3, <1>4, <1>5, <1>6 DEF LaidOut

\* An item more is laid out behind the others.
LEMMA LaidOutMore ==
  ASSUME NEW p \in Packets, NEW o, NEW s \in Seq(Nat), NEW d \in Seq(Byte), LaidOut(p, o, s, d),
         Len(s) < Len(WireItems(p)), NEW bytes, bytes = ItemBytes(p, o, Len(s) + 1),
         bytes # NoBytes, bytes \in Seq(Byte)
  PROVE  LaidOut(p, o, Append(s, Len(d)), d \o bytes)
<1>1. PICK m \in Nat, n \in Nat, w \in Nat : m = Len(s) /\ n = Len(d) /\ w = Len(WireItems(p)) /\ m < w
  BY PacketFacts
<1>2. PICK e \in Seq(Byte) :
        /\ e = d \o bytes /\ Len(e) = Len(d) + Len(bytes)
        /\ \A at, b : Carries(d, at, b) => Carries(e, at, b)
        /\ Carries(e, Len(d), bytes)
  BY ConcatBytes, CarriesMore
<1>3. PICK t : /\ t = Append(s, Len(d)) /\ Len(t) = m + 1
               /\ \A k \in 1 .. m + 1 : Begin(t, e, k) = Begin(s, d, k)
               /\ Begin(t, e, m + 2) = Len(e)
  <2>1. PICK t : t = Append(s, Len(d))
    OBVIOUS
  <2>2. /\ Len(t) = Len(s) + 1 /\ \A k \in 1 .. Len(s) + 1 : Begin(t, e, k) = Begin(s, d, k)
        /\ Begin(t, e, Len(s) + 2) = Len(e)
    BY <2>1, BeginMore
  <2> QED BY <1>1, <2>1, <2>2
<1>4. MarshalHead(p, o) # NoBytes /\ Carries(e, 0, MarshalHead(p, o))
  BY <1>2 DEF LaidOut
<1>5. Begin(t, e, 1) = HeadSize(p.kind)
  BY <1>1, <1>3 DEF LaidOut
<1>6. Len(t) <= Len(WireItems(p))
  BY <1>1, <1>3
<1>7. ASSUME NEW k \in 1 .. m + 1
      PROVE  /\ ItemBytes(p, o, k) # NoBytes /\ Carries(e, Begin(t, e, k), ItemBytes(p, o, k))
             /\ Begin(t, e, k + 1) = Begin(t, e, k) + Len(ItemBytes(p, o, k))
  <2>1. CASE k \in 1 .. m
    <3>1. k \in 1 .. m + 1 /\ k + 1 \in 1 .. m + 1
      BY <2>1
    <3>2. Begin(t, e, k) = Begin(s, d, k) /\ Begin(t, e, k + 1) = Begin(s, d, k + 1)
      BY <1>3, <3>1
    <3>3. /\ ItemBytes(p, o, k) # NoBytes /\ Carries(d, Begin(s, d, k), ItemBytes(p, o, k))
          /\ Begin(s, d, k + 1) = Begin(s, d, k) + Len(ItemBytes(p, o, k))
      BY <1>1, <2>1 DEF LaidOut
    <3> QED BY <1>2, <3>2, <3>3
  <2>2. CASE k = m + 1
    <3>1. (m + 1) + 1 = m + 2 /\ ~(m + 1 <= m) /\ m + 1 \in 1 .. m + 1
      OBVIOUS
    <3>2. Begin(s, d, m + 1) = Len(d)
      BY <1>1, <3>1 DEF Begin
    <3>3. Begin(t, e, m + 1) = Len(d) /\ Begin(t, e, (m + 1) + 1) = Len(e)
      BY <1>3, <3>1, <3>2
    <3> QED BY <1>1, <1>2, <2>2, <3>3
  <2> QED BY <2>1, <2>2
<1>8. LaidOut(p, o, t, e)
  BY <1>3, <1>4, <1>5, <1>6, <1>7 DEF LaidOut
<1> QED BY <1>2, <1>3, <1>8

\* An item that is laid out is there, and is decoded to what was meant.
LEMMA LaidOutItem ==
  ASSUME NEW p \in Packets, NEW o, NEW s \in Seq(Nat), NEW d \in Seq(Byte), LaidOut(p, o, s, d),
         NEW k \in 1 .. Len(s)
  PROVE  /\ Begin(s, d, k) \in Nat /\ Begin(s, d, k) < Len(d)
         /\ \E reached, w :
              /\ UnmarshalItem(Shape(p.kind, k), d, Begin(s, d, k), o)
                   = Decoded(Begin(s, d, k + 1) - Begin(s, d, k), reached, w)
              /\ SameItem(p, k, w)
         /\ Begin(s, d, k + 1) \in Nat
<1>1. PICK bytes : /\ bytes = ItemBytes(p, o, k) /\ bytes # NoBytes /\ Carries(d, Begin(s, d, k), bytes)
                   /\ Begin(s, d, k + 1) = Begin(s, d, k) + Len(bytes)
  BY DEF LaidOut
<1>2. k \in 1 .. Len(WireItems(p)) /\ k <= Len(s)
  BY PacketFacts DEF LaidOut
<1>3. PICK at \in Nat : at = Begin(s, d, k)
  BY <1>2 DEF Begin
<1>4. IsItem(Shape(p.kind, k), WireItems(p)[k])
  BY <1>2, PacketFacts
<1>5. bytes \in WholeWords \cup {NoBytes} /\ Len(bytes) >= 4 /\ Recovers(Shape(p.kind, k), WireItems(p)[k], bytes, o)
  BY <1>1, <1>4, ItemCodec DEF ItemBytes
<1>6. PICK size \in Nat : size = Len(bytes) /\ size >= 4 /\ bytes \in Seq(Byte) /\ Len(bytes) > 0
  <2>1. bytes \in Seq(Byte)
    BY <1>1, <1>5 DEF WholeWords
  <2>2. Len(bytes) \in Nat /\ Len(bytes) > 0
    BY <1>5, <2>1
  <2> QED BY <1>5, <2>1, <2>2
<1>7. at + Len(bytes) <= Len(d)
  BY <1>1, <1>3, <1>6, CarriedFits
<1>8. at < Len(d)
  <2>1. Len(d) \in Nat
    OBVIOUS
  <2> QED BY <1>6, <1>7, <2>1
<1>9. PICK reached, w :
        /\ UnmarshalItem(Shape(p.kind, k), d, at, o) = Decoded(size, reached, w)
        /\ SameItem(p, k, w)
  BY <1>1, <1>3, <1>5, <1>6 DEF Recovers, SameItem
<1>10. Begin(s, d, k + 1) - Begin(s, d, k) = size /\ Begin(s, d, k + 1) \in Nat
  BY <1>1, <1>3, <1>6
<1> QED BY <1>3, <1>8, <1>9, <1>10

\* The encoding begins with the fixed part.
LEMMA LayoutMarshalStart ==
  ASSUME Sound, NEW p \in Packets, NEW o, MarshalStart(p, o)
  PROVE  Layout'
<1>1. phase = "idle" /\ data = <<>> /\ starts = <<>> /\ starts' = <<>> /\ pkt' = p /\ order' = o
  BY DEF Sound, Staged, MarshalStart
<1>2. CASE phase' = "unencodable"
  BY <1>2 DEF Layout
<1>3. CASE phase' # "unencodable"
  <2>1. PICK bytes : bytes = (IF Valid(p) THEN MarshalHead(p, o) ELSE NoBytes) /\ Write(bytes, "encoding")
    BY DEF MarshalStart
  <2>2. bytes # NoBytes /\ phase' = "encoding" /\ data' = data \o bytes
    BY <1>3, <2>1 DEF Write
  <2>3. bytes = MarshalHead(p, o)
    BY <2>1, <2>2
  <2>4. bytes \in Seq(Byte)
    BY <2>2, <2>3, PacketFacts, HeadCodec DEF WholeWords
  <2>5. data' = bytes
    BY <1>1, <2>2, <2>4, ConcatEmptySeq
  <2>6. LaidOut(p, o, <<>>, bytes)
    BY <2>2, <2>3, LaidOutStart
  <2>7. LaidOut(pkt', order', starts', data')
    BY <1>1, <2>5, <2>6
  <2> QED BY <2>2, <2>7 DEF Layout
<1> QED BY <1>2, <1>3

\* The next item goes where the last one ended.
LEMMA LayoutMarshalNext ==
  ASSUME Sound, Layout, MarshalNext
  PROVE  Layout'
<1>1. /\ phase = "encoding" /\ damaged = FALSE /\ pkt \in Packets /\ starts \in Seq(Nat) /\ data \in Seq(Byte)
      /\ pkt' = pkt /\ order' = order /\ starts' = Append(starts, Len(data)) /\ Len(starts) < Len(WireItems(pkt))
  BY DEF Sound, Typed, Staged, MarshalNext
<1>2. CASE phase' = "unencodable"
  BY <1>2 DEF Layout
<1>3. CASE phase' # "unencodable"
  <2>1. PICK bytes : bytes = ItemBytes(pkt, order, Len(starts) + 1) /\ Write(bytes, "encoding")
    BY DEF MarshalNext, ItemBytes
  <2>2. bytes # NoBytes /\ phase' = "encoding" /\ data' = data \o bytes
    BY <1>3, <2>1 DEF Write
  <2>3. Len(starts) + 1 \in 1 .. Len(WireItems(pkt))
    <3>1. Len(starts) \in Nat /\ Len(WireItems(pkt)) \in Nat
      BY <1>1, PacketFacts
    <3> QED BY <1>1, <3>1
  <2>4. PICK i : i = Len(starts) + 1 /\ IsItem(Shape(pkt.kind, i), WireItems(pkt)[i])
    BY <1>1, <2>3, PacketFacts
  <2>5. bytes \in WholeWords \cup {NoBytes}
    BY <2>1, <2>4, ItemCodec DEF ItemBytes
  <2>6. bytes \in Seq(Byte)
    BY <2>2, <2>5 DEF WholeWords
  <2>7. LaidOut(pkt, order, starts, data)
    BY <1>1 DEF Layout
  <2>8. LaidOut(pkt, order, Append(starts, Len(data)), data \o bytes)
    BY <1>1, <2>1, <2>2, <2>6, <2>7, LaidOutMore
  <2>9. LaidOut(pkt', order', starts', data')
    BY <1>1, <2>2, <2>8
  <2> QED BY <2>2, <2>9 DEF Layout
<1> QED BY <1>2, <1>3

\* All the items are there.
LEMMA LayoutMarshalEnd ==
  ASSUME Sound, Layout, MarshalEnd
  PROVE  Layout'
<1>1. /\ phase = "encoding" /\ damaged = FALSE /\ phase' = "encoded" /\ Len(starts) = Len(WireItems(pkt))
      /\ UNCHANGED <<pkt, order, starts, data, damaged>>
  BY DEF Sound, Staged, MarshalEnd
<1>2. LaidOut(pkt, order, starts, data)
  BY <1>1 DEF Layout
<1> QED BY <1>1, <1>2 DEF Layout

\* An undamaged fixed part is accepted.
LEMMA LayoutUnmarshalStart ==
  ASSUME Sound, Layout, UnmarshalStart
  PROVE  Layout'
<1>1. /\ phase = "encoded" /\ out = <<>> /\ pkt \in Packets /\ data \in Seq(Byte) /\ starts \in Seq(Nat)
      /\ UNCHANGED <<pkt, order, starts, damaged, data, out>> /\ phase' # "idle" /\ phase' # "encoding"
  BY DEF Sound, Typed, Staged, UnmarshalStart
<1>2. CASE damaged # FALSE
  BY <1>1, <1>2 DEF Layout
<1>3. CASE damaged = FALSE
  <2>1. LaidOut(pkt, order, starts, data) /\ Len(starts) = Len(WireItems(pkt))
    BY <1>1, <1>3 DEF Layout
  <2>2. PICK bytes : bytes = MarshalHead(pkt, order) /\ bytes # NoBytes /\ Carries(data, 0, bytes)
    BY <2>1 DEF LaidOut
  <2>3. RecoversHead(pkt, bytes, order)
    BY <1>1, <2>2, PacketFacts, HeadCodec
  <2>4. /\ Len(data) >= HeadSize(pkt.kind) /\ (pkt.kind = "register" => data[3] = 0)
        /\ HeadMeaning(pkt.kind, UnmarshalHead(pkt.kind, data, order)) = HeadMeaning(pkt.kind, pkt.head)
    BY <1>1, <2>2, <2>3 DEF RecoversHead
  <2>5. phase' = "decoding" /\ head' = UnmarshalHead(pkt.kind, data, order) /\ off' = HeadSize(pkt.kind)
    <3>1. pkt.kind = "register" => At(data, 3) = 0
      BY <2>4 DEF At
    <3> QED BY <2>4, <3>1 DEF UnmarshalStart, HeadAccepted, HasHead
  <2>6. Len(<<>>) = 0 /\ 0 + 1 = 1 /\ Len(starts) \in Nat /\ 1 .. Len(<<>>) = {}
    BY <1>1
  <2>7. off' = Begin(starts, data, 1)
    BY <2>1, <2>5 DEF LaidOut
  <2>8. /\ Len(out') <= Len(starts') /\ off' = Begin(starts', data', Len(out') + 1)
        /\ HeadMeaning(pkt'.kind, head') = HeadMeaning(pkt'.kind, pkt'.head)
        /\ \A k \in 1 .. Len(out') : SameItem(pkt', k, out'[k])
    BY <1>1, <2>4, <2>5, <2>6, <2>7
  <2>9. ReadBack'
    BY <2>5, <2>8 DEF ReadBack
  <2>10. LaidOut(pkt', order', starts', data') /\ Len(starts') = Len(WireItems(pkt'))
    BY <1>1, <2>1
  <2> QED BY <2>9, <2>10 DEF Layout
<1> QED BY <1>2, <1>3

\* The decoder is where the next item begins, and recovers it.
LEMMA LayoutUnmarshalNext ==
  ASSUME Sound, Layout, UnmarshalNext
  PROVE  Layout'
<1>1. /\ phase = "decoding" /\ pkt \in Packets /\ data \in Seq(Byte) /\ starts \in Seq(Nat) /\ ~Complete
      /\ UNCHANGED <<pkt, order, starts, damaged, data, head>>
  BY DEF Sound, Typed, UnmarshalNext
<1>2. phase' \in {"decoding", "rejected"}
  BY <1>1 DEF UnmarshalNext
<1>3. CASE damaged # FALSE
  BY <1>1, <1>3 DEF Layout
<1>4. CASE damaged = FALSE
  <2>1. LaidOut(pkt, order, starts, data) /\ Len(starts) = Len(WireItems(pkt)) /\ ReadBack
    BY <1>1, <1>4 DEF Layout
  <2>2. PICK S : out \in Seq(S)
    BY DEF Sound, Typed
  <2>3. PICK m \in Nat, n \in Nat : m = Len(out) /\ n = Len(starts) /\ m <= n /\ off = Begin(starts, data, m + 1)
    BY <1>1, <2>1, <2>2 DEF ReadBack
  <2>4. m # n
    <3> SUFFICES ASSUME m = n PROVE FALSE
      OBVIOUS
    <3>1. CASE pkt.kind \in Lists
      <4>1. ~(n + 1 <= n) /\ Len(data) \in Nat
        BY <1>1
      <4>2. off = Len(data)
        BY <2>3, <4>1 DEF Begin
      <4> QED BY <1>1, <3>1, <4>1, <4>2 DEF Complete
    <3>2. CASE pkt.kind \notin Lists
      <4>1. n = FixedItems(pkt.kind)
        BY <1>1, <2>1, <2>3, <3>2, PacketFacts
      <4> QED BY <1>1, <2>3, <3>2, <4>1 DEF Complete
    <3> QED BY <3>1, <3>2
  <2>5. PICK k \in 1 .. Len(starts) : k = m + 1 /\ k = Len(out) + 1
    BY <2>3, <2>4
  <2>6. PICK at \in Nat, next \in Nat : at = off /\ at = Begin(starts, data, k) /\ next = Begin(starts, data, k + 1)
    BY <1>1, <2>1, <2>3, <2>5, LaidOutItem
  <2>7. PICK reached, w :
          /\ UnmarshalItem(Shape(pkt.kind, k), data, at, order) = Decoded(next - at, reached, w)
          /\ SameItem(pkt, k, w)
    BY <1>1, <2>1, <2>6, LaidOutItem
  <2>8. PICK r : /\ r = UnmarshalItem(Shape(pkt.kind, Len(out) + 1), data, off, order)
                 /\ r.ok = TRUE /\ r.size = next - at /\ r.value = w
    BY <2>5, <2>6, <2>7 DEF Decoded
  <2>9. phase' = "decoding" /\ out' = Append(out, w) /\ off' = off + (next - at)
    BY <1>1, <2>8 DEF UnmarshalNext
  <2>10. off' = next
    <3>1. off' = at + (next - at)
      BY <2>6, <2>9
    <3>2. at + (next - at) = next
      OBVIOUS
    <3> QED BY <3>1, <3>2
  <2>11. PICK T : out \in Seq(T) /\ w \in T
    <3>1. out \in Seq(S \cup {w})
      BY <2>2, SeqMonotonic
    <3> QED BY <3>1
  <2>12. Len(out') = m + 1 /\ out'[m + 1] = w /\ \A i \in 1 .. m : out'[i] = out[i]
    <3>1. /\ Len(Append(out, w)) = Len(out) + 1 /\ Append(out, w)[Len(out) + 1] = w
          /\ \A i \in 1 .. Len(out) : Append(out, w)[i] = out[i]
      BY <2>11, AppendProperties
    <3> QED BY <2>3, <2>9, <3>1
  <2>13. ASSUME NEW i \in 1 .. m + 1 PROVE SameItem(pkt, i, out'[i])
    <3>1. CASE i = m + 1
      BY <2>5, <2>7, <2>12, <3>1
    <3>2. CASE i # m + 1
      <4>1. i \in 1 .. m
        BY <3>2
      <4>2. SameItem(pkt, i, out[i])
        BY <2>1, <2>3, <4>1 DEF ReadBack
      <4> QED BY <2>12, <4>1, <4>2
    <3> QED BY <3>1, <3>2
  <2>14. m + 1 <= n /\ (m + 1) + 1 = k + 1
    BY <2>3, <2>4, <2>5
  <2>15. HeadMeaning(pkt.kind, head) = HeadMeaning(pkt.kind, pkt.head)
    BY <1>1, <2>1 DEF ReadBack
  <2>16. /\ Len(out') <= Len(starts') /\ off' = Begin(starts', data', Len(out') + 1)
         /\ HeadMeaning(pkt'.kind, head') = HeadMeaning(pkt'.kind, pkt'.head)
         /\ \A i \in 1 .. Len(out') : SameItem(pkt', i, out'[i])
    BY <1>1, <2>3, <2>6, <2>10, <2>12, <2>13, <2>14, <2>15
  <2>17. ReadBack'
    BY <2>9, <2>16 DEF ReadBack
  <2>18. LaidOut(pkt', order', starts', data') /\ Len(starts') = Len(WireItems(pkt'))
    BY <1>1, <2>1
  <2> QED BY <2>17, <2>18 DEF Layout
<1> QED BY <1>3, <1>4

\* The decoder ends when all the items are decoded, and not before.
LEMMA LayoutUnmarshalEnd ==
  ASSUME Sound, Layout, UnmarshalEnd
  PROVE  Layout'
<1>1. /\ phase = "decoding" /\ phase' = "accepted" /\ pkt \in Packets /\ data \in Seq(Byte) /\ starts \in Seq(Nat)
      /\ Complete /\ UNCHANGED <<pkt, order, starts, damaged, data, off, out>>
      /\ (pkt.kind # "notify" => head' = head)
  BY DEF Sound, Typed, UnmarshalEnd
<1>2. CASE damaged # FALSE
  BY <1>1, <1>2 DEF Layout
<1>3. CASE damaged = FALSE
  <2>1. LaidOut(pkt, order, starts, data) /\ Len(starts) = Len(WireItems(pkt)) /\ ReadBack
    BY <1>1, <1>3 DEF Layout
  <2>2. PICK S : out \in Seq(S)
    BY DEF Sound, Typed
  <2>3. PICK m \in Nat, n \in Nat : m = Len(out) /\ n = Len(starts) /\ m <= n /\ off = Begin(starts, data, m + 1)
    BY <1>1, <2>1, <2>2 DEF ReadBack
  <2>4. m = n
    <3> SUFFICES ASSUME m # n PROVE FALSE
      OBVIOUS
    <3>1. m + 1 \in 1 .. Len(starts)
      BY <2>3
    <3>2. off \in Nat /\ off < Len(data) /\ Len(data) \in Nat
      <4>1. PICK k \in 1 .. Len(starts) : k = m + 1
        BY <3>1
      <4>2. Begin(starts, data, k) \in Nat /\ Begin(starts, data, k) < Len(data)
        BY <1>1, <2>1, LaidOutItem
      <4> QED BY <1>1, <2>3, <4>1, <4>2
    <3>3. CASE pkt.kind \in Lists
      BY <1>1, <3>2, <3>3 DEF Complete
    <3>4. CASE pkt.kind \notin Lists
      <4>1. n = FixedItems(pkt.kind)
        BY <1>1, <2>1, <2>3, <3>4, PacketFacts
      <4> QED BY <1>1, <2>3, <3>4, <4>1 DEF Complete
    <3> QED BY <3>3, <3>4
  <2>5. ReadBack'
    BY <1>1, <2>1, <2>3, <2>4 DEF ReadBack
  <2>6. LaidOut(pkt', order', starts', data') /\ Len(starts') = Len(WireItems(pkt'))
    BY <1>1, <2>1
  <2> QED BY <1>1, <2>5, <2>6 DEF Layout
<1> QED BY <1>2, <1>3

\* Every step keeps the layout and what has been decoded of it.
LEMMA LayoutStep == Sound /\ Layout /\ [Next]_vars => Layout'
<1> SUFFICES ASSUME Sound, Layout, [Next]_vars PROVE Layout'
  OBVIOUS
<1>1. CASE UNCHANGED vars
  BY <1>1 DEF vars, Layout, ReadBack
<1>2. CASE Damage
  BY <1>2 DEF Damage, Layout
<1> QED BY <1>1, <1>2, LayoutMarshalStart, LayoutMarshalNext, LayoutMarshalEnd, LayoutUnmarshalStart,
           LayoutUnmarshalNext, LayoutUnmarshalEnd DEF Next, Unmarshal

\* Nothing is laid out at first.
LEMMA LayoutInit == Init => Layout
BY DEF Init, Layout

\* What is encoded and arrives unharmed is accepted and means what was meant, for
\* every packet, in both byte orders (RoundTrip).
THEOREM PacketsSurviveTheWire == Spec => []RoundTrip
<1>1. ASSUME Sound, Layout PROVE RoundTrip
  <2> SUFFICES ASSUME ~damaged PROVE RoundTrip
    BY DEF RoundTrip
  <2>1. damaged = FALSE
    BY <1>1 DEF Sound, Typed
  <2>2. phase # "rejected"
    BY <1>1, <2>1 DEF Layout, ReadBack
  <2>3. ASSUME phase = "accepted"
        PROVE  /\ ItemsMeaning(pkt.kind, out) = ItemsMeaning(pkt.kind, WireItems(pkt))
               /\ pkt.kind # "notify" => HeadMeaning(pkt.kind, head) = HeadMeaning(pkt.kind, pkt.head)
    <3>1. /\ Len(out) = Len(starts) /\ Len(starts) = Len(WireItems(pkt))
          /\ \A k \in 1 .. Len(out) : SameItem(pkt, k, out[k])
          /\ pkt.kind # "notify" => HeadMeaning(pkt.kind, head) = HeadMeaning(pkt.kind, pkt.head)
      BY <1>1, <2>1, <2>3 DEF Layout, ReadBack
    <3>2. pkt \in Packets
      BY <1>1, <2>3 DEF Sound, Typed
    <3>3. PICK S : out \in Seq(S)
      BY <1>1 DEF Sound, Typed
    <3>4. DOMAIN out = 1 .. Len(out) /\ DOMAIN WireItems(pkt) = 1 .. Len(out)
      BY <3>1, <3>2, <3>3, PacketFacts
    <3>5. \A k \in 1 .. Len(out) : ItemMeaning(Shape(pkt.kind, k), out[k])
                                     = ItemMeaning(Shape(pkt.kind, k), WireItems(pkt)[k])
      BY <3>1 DEF SameItem
    <3>6. ItemsMeaning(pkt.kind, out) = ItemsMeaning(pkt.kind, WireItems(pkt))
      BY <3>4, <3>5 DEF ItemsMeaning
    <3> QED BY <3>1, <3>6
  <2> QED BY <2>2, <2>3 DEF RoundTrip
<1> QED BY <1>1, SoundInit, SoundStep, LayoutInit, LayoutStep, PTL DEF Spec

-----------------------------------------------------------------------------
(* Notifications *)

\* A packet is refused for a reason only, and a timestamp has one source.
LEMMA ReasonsStep == Sound /\ Reasons /\ [Next]_vars => Reasons'
<1> SUFFICES ASSUME Sound, Reasons, [Next]_vars PROVE Reasons'
  OBVIOUS
<1>1. ASSUME NEW p \in Packets, NEW o, MarshalStart(p, o) PROVE Reasons'
  <2>1. pkt' = p /\ order' = o /\ Write(IF Valid(p) THEN MarshalHead(p, o) ELSE NoBytes, "encoding")
    BY <1>1 DEF MarshalStart
  <2>2. CASE (IF Valid(p) THEN MarshalHead(p, o) ELSE NoBytes) = NoBytes
    BY <2>1, <2>2 DEF Write, Reasons
  <2>3. CASE (IF Valid(p) THEN MarshalHead(p, o) ELSE NoBytes) # NoBytes
    BY <2>1, <2>3 DEF Write, Reasons
  <2> QED BY <2>2, <2>3
<1>2. CASE MarshalNext
  <2>1. phase = "encoding" /\ Valid(pkt) /\ pkt' = pkt /\ order' = order /\ pkt \in Packets /\ starts \in Seq(Nat)
    BY <1>2 DEF MarshalNext, Reasons, Sound, Typed
  <2>2. PICK k : k = Len(starts) + 1 /\ Write(ItemBytes(pkt, order, k), "encoding")
    BY <1>2 DEF MarshalNext, ItemBytes
  <2>3. k \in 1 .. Len(WireItems(pkt))
    <3>1. Len(starts) \in Nat /\ Len(WireItems(pkt)) \in Nat /\ Len(starts) < Len(WireItems(pkt))
      BY <1>2, <2>1, PacketFacts DEF MarshalNext
    <3> QED BY <2>2, <3>1
  <2>4. CASE ItemBytes(pkt, order, k) = NoBytes
    BY <2>1, <2>2, <2>3, <2>4 DEF Write, Reasons
  <2>5. CASE ItemBytes(pkt, order, k) # NoBytes
    BY <2>1, <2>2, <2>5 DEF Write, Reasons
  <2> QED BY <2>4, <2>5
<1>3. CASE MarshalEnd
  BY <1>3 DEF MarshalEnd, Reasons
<1>4. CASE Damage
  BY <1>4 DEF Damage, Reasons
<1>5. CASE UnmarshalStart
  BY <1>5 DEF UnmarshalStart, Reasons
<1>6. CASE UnmarshalNext
  BY <1>6 DEF UnmarshalNext, Reasons
<1>7. CASE UnmarshalEnd
  BY <1>7 DEF UnmarshalEnd, Reasons
<1>8. CASE UNCHANGED vars
  BY <1>8 DEF vars, Reasons
<1> QED BY <1>1, <1>2, <1>3, <1>4, <1>5, <1>6, <1>7, <1>8 DEF Next, Unmarshal

\* What a notification puts on the wire: its list, behind a timestamp of its own if
\* it has one and the list does not begin with one.
LEMMA NotifyFacts ==
  ASSUME NEW p \in Packets, p.kind = "notify"
  PROVE  LET given == p.items
             wire  == WireItems(p)
             own   == given # <<>> /\ GetIdentifier(given[1].name) = OIDSysUpTime
             trap  == IF own THEN 2 ELSE 1
             named == Len(given) >= trap /\ GetIdentifier(given[trap].name) = OIDSnmpTrapOID
         IN  /\ own \/ p.head.timestamp = 0 => wire = given
             /\ ~own /\ p.head.timestamp # 0 =>
                  /\ wire = <<UpTime(p)>> \o given /\ Len(wire) = Len(given) + 1 /\ wire[1] = UpTime(p)
                  /\ \A k \in 1 .. Len(given) : wire[k + 1] = given[k]
             /\ Valid(p) <=> named
             /\ Len(given) \in Nat /\ (given = <<>> <=> Len(given) = 0)
             /\ \A k : Shape(p.kind, k) = "variable"
<1> DEFINE given == p.items
           wire  == WireItems(p)
           own   == given # <<>> /\ GetIdentifier(given[1].name) = OIDSysUpTime
           trap  == IF own THEN 2 ELSE 1
           named == Len(given) >= trap /\ GetIdentifier(given[trap].name) = OIDSnmpTrapOID
<1>1. PICK n \in Nat : n = Len(given) /\ given = [i \in 1 .. n |-> given[i]] /\ (given = <<>> <=> n = 0)
  <2>1. PICK n \in Nat : n = Len(given) /\ given = [i \in 1 .. n |-> given[i]]
    BY PacketsAssumption
  <2>2. n = 0 => given = <<>>
    BY <2>1
  <2>3. Len(<<>>) = 0
    OBVIOUS
  <2> QED BY <2>1, <2>2, <2>3
<1>2. \A k : Shape(p.kind, k) = "variable"
  BY DEF Shape, VariableLists, RangeLists
<1>3. wire = varBindList(p) /\ (Valid(p) <=> validateNotifyVariables(wire)) /\ (hasSysUpTime(given) <=> own)
  BY DEF WireItems, Valid, hasSysUpTime
<1>4. CASE own \/ p.head.timestamp = 0
  <2>1. wire = given
    BY <1>3, <1>4 DEF varBindList
  <2>2. Valid(p) <=> named
    BY <1>3, <2>1 DEF validateNotifyVariables
  <2> QED BY <1>1, <1>2, <1>4, <2>1, <2>2
<1>5. CASE ~(own \/ p.head.timestamp = 0)
  <2>1. wire = <<UpTime(p)>> \o given
    BY <1>3, <1>5 DEF varBindList, UpTime
  <2>2. Len(wire) = n + 1 /\ wire[1] = UpTime(p) /\ \A k \in 1 .. n : wire[k + 1] = given[k]
    BY <1>1, <2>1, Prepended
  <2>3. Len(<<>>) = 0 /\ n + 1 > 0
    OBVIOUS
  <2>4. wire # <<>>
    BY <2>2, <2>3
  <2>5. hasSysUpTime(wire)
    BY <2>2, <2>4, UpTimeFacts DEF hasSysUpTime
  <2>6. Valid(p) <=> n + 1 >= 2 /\ GetIdentifier(wire[2].name) = OIDSnmpTrapOID
    BY <1>3, <2>2, <2>5 DEF validateNotifyVariables
  <2>7. n >= 1 => wire[2] = given[1]
    <3>1. n >= 1 => 1 \in 1 .. n /\ 1 + 1 = 2
      OBVIOUS
    <3> QED BY <2>2, <3>1
  <2>8. named <=> n >= 1 /\ GetIdentifier(given[1].name) = OIDSnmpTrapOID
    BY <1>1, <1>5
  <2>9. n + 1 >= 2 <=> n >= 1
    OBVIOUS
  <2>10. Valid(p) <=> named
    BY <2>6, <2>7, <2>8, <2>9
  <2> QED BY <1>1, <1>2, <1>5, <2>1, <2>2, <2>10
<1> QED BY <1>4, <1>5

\* A notification that names its trap is sent unless one of its variables cannot be,
\* and in the order the master agent insists on; one that names none is refused
\* (NotifiesInOrder).
THEOREM NotificationsAreInOrder == Spec => []NotifiesInOrder
<1>1. ASSUME Sound, Layout, Reasons PROVE NotifiesInOrder
  <2> SUFFICES ASSUME pkt.kind = "notify" PROVE NotifiesInOrder
    BY DEF NotifiesInOrder
  <2> DEFINE given == pkt.items
             wire  == WireItems(pkt)
             own   == given # <<>> /\ GetIdentifier(given[1].name) = OIDSysUpTime
             trap  == IF own THEN 2 ELSE 1
             named == Len(given) >= trap /\ GetIdentifier(given[trap].name) = OIDSnmpTrapOID
             dated == ~own /\ pkt.head.timestamp # 0
  <2>1. pkt \in Packets /\ damaged \in BOOLEAN
    <3>1. NoPacket.kind # "notify"
      BY DEF NoPacket
    <3> QED BY <1>1, <3>1 DEF Sound, Typed, Staged
  <2>2. /\ ~dated => wire = given
        /\ dated => /\ wire = <<UpTime(pkt)>> \o given /\ Len(wire) = Len(given) + 1 /\ wire[1] = UpTime(pkt)
                    /\ \A k \in 1 .. Len(given) : wire[k + 1] = given[k]
        /\ Valid(pkt) <=> named
        /\ Len(given) \in Nat /\ (given = <<>> <=> Len(given) = 0)
        /\ \A k : Shape(pkt.kind, k) = "variable"
    BY <2>1, NotifyFacts
  <2>3. /\ IsVariable(UpTime(pkt)) /\ pkt.head.timestamp \in Int
        /\ GetIdentifier(UpTime(pkt).name) = OIDSysUpTime
        /\ pkt.head.timestamp >= 0 => MarshalVariable(UpTime(pkt), order) # NoBytes
    BY <2>1, UpTimeFacts
  <2>4. DOMAIN given = 1 .. Len(given)
    BY <2>1, PacketsAssumption
  <2>5. ASSUME phase = "unencodable"
        PROVE  \/ ~named \/ (~own /\ pkt.head.timestamp < 0)
               \/ \E i \in DOMAIN given : MarshalVariable(given[i], order) = NoBytes
    <3>1. MarshalHead(pkt, order) = <<>>
      BY DEF MarshalHead
    <3>2. <<>> # NoBytes
      <4>1. <<>> \in Seq(Byte)
        OBVIOUS
      <4> QED BY <4>1, NoBytesIsNone
    <3>3. CASE ~Valid(pkt)
      BY <2>2, <3>3
    <3>4. ASSUME NEW k \in 1 .. Len(wire), ItemBytes(pkt, order, k) = NoBytes
          PROVE  \/ ~own /\ pkt.head.timestamp < 0
                 \/ \E i \in DOMAIN given : MarshalVariable(given[i], order) = NoBytes
      <4>1. MarshalVariable(wire[k], order) = NoBytes
        BY <2>2, <3>4 DEF ItemBytes, MarshalItem
      <4>2. CASE ~dated
        BY <2>2, <2>4, <4>1, <4>2
      <4>3. CASE dated /\ k = 1
        BY <2>2, <2>3, <4>1, <4>3
      <4>4. CASE dated /\ k # 1
        <5>1. PICK j \in 1 .. Len(given) : k = j + 1
          <6>1. k - 1 \in 1 .. Len(given) /\ k = (k - 1) + 1
            BY <2>2, <4>4
          <6> QED BY <6>1
        <5> QED BY <2>2, <2>4, <4>1, <4>4, <5>1
      <4> QED BY <4>2, <4>3, <4>4
    <3> QED BY <1>1, <2>5, <3>1, <3>2, <3>3, <3>4 DEF Reasons
  <2>6. ASSUME phase = "accepted", ~damaged
        PROVE  /\ named
               /\ (GetIdentifier(out[1].name) = OIDSysUpTime) <=> (own \/ pkt.head.timestamp # 0)
               /\ Len(out) = Len(given) + (IF ~own /\ pkt.head.timestamp # 0 THEN 1 ELSE 0)
               /\ ~own => head.timestamp \div Tick = Ticks(pkt.head.timestamp)
    <3>1. damaged = FALSE
      BY <2>1, <2>6
    <3>2. named
      BY <1>1, <2>2, <2>6 DEF Reasons
    <3>3. Len(out) = Len(wire) /\ \A k \in 1 .. Len(out) : SameItem(pkt, k, out[k])
      BY <1>1, <2>6, <3>1 DEF Layout, ReadBack
    <3>4. Len(given) >= 1
      BY <2>2, <3>2
    <3>5. (dated => Len(out) = Len(given) + 1) /\ (~dated => Len(out) = Len(given))
      BY <2>2, <3>3
    <3>6. Len(out) >= 1 /\ Len(out) \in Nat /\ 1 \in 1 .. Len(out)
      <4>1. PICK n \in Nat : n = Len(given) /\ n >= 1
        BY <2>2, <3>4
      <4>2. Len(out) = n + 1 \/ Len(out) = n
        BY <3>5, <4>1
      <4> QED BY <4>1, <4>2
    <3>7. /\ Meaning(out[1]) = Meaning(wire[1])
          /\ wire[1].type = "TimeTicks" =>
               out[1].go = "duration" /\ out[1].val \div Tick = ValueMeaning(wire[1])
      BY <2>2, <3>3, <3>6 DEF SameItem, ItemMeaning
    <3>8. GetIdentifier(out[1].name) = GetIdentifier(wire[1].name)
      <4>1. Meaning(out[1]).name = GetIdentifier(out[1].name) /\ Meaning(wire[1]).name = GetIdentifier(wire[1].name)
        BY DEF Meaning
      <4> QED BY <3>7, <4>1
    <3>9. (GetIdentifier(out[1].name) = OIDSysUpTime) <=> (own \/ pkt.head.timestamp # 0)
      <4>1. CASE dated
        BY <2>2, <2>3, <3>8, <4>1
      <4>2. CASE ~dated
        <5>1. given # <<>>
          BY <2>2, <3>4
        <5> QED BY <2>2, <3>8, <4>2, <5>1
      <4> QED BY <4>1, <4>2
    <3>10. ASSUME ~own PROVE head.timestamp \div Tick = Ticks(pkt.head.timestamp)
      <4>1. head.timestamp = Timestamp(out)
        BY <1>1, <2>6 DEF Reasons
      <4>2. out # <<>>
        <5>1. Len(<<>>) = 0
          OBVIOUS
        <5> QED BY <3>6, <5>1
      <4>3. CASE pkt.head.timestamp # 0
        <5>1. hasSysUpTime(out)
          BY <3>9, <4>2, <4>3 DEF hasSysUpTime
        <5>2. wire[1] = UpTime(pkt) /\ wire[1].type = "TimeTicks"
          BY <2>2, <3>10, <4>3 DEF UpTime
        <5>3. ValueMeaning(wire[1]) = Ticks(pkt.head.timestamp)
          BY <5>2 DEF UpTime, ValueMeaning, NoData
        <5>4. head.timestamp = out[1].val
          BY <3>7, <4>1, <5>1, <5>2 DEF Timestamp
        <5> QED BY <3>7, <5>2, <5>3, <5>4
      <4>4. CASE pkt.head.timestamp = 0
        <5>1. ~hasSysUpTime(out)
          BY <3>9, <3>10, <4>4 DEF hasSysUpTime
        <5>2. head.timestamp = 0
          BY <4>1, <5>1 DEF Timestamp
        <5>3. PICK t \in Nat \ {0} : t = Tick
          BY CodecAssumption
        <5>4. 0 \div t = 0
          OBVIOUS
        <5>5. 0 % Word = 0
          <6>1. 0 \in 0 .. Word - 1
            BY Bases
          <6> QED BY <6>1, InWord
        <5>6. Ticks(0) = 0
          BY <5>3, <5>4, <5>5 DEF Ticks
        <5> QED BY <4>4, <5>2, <5>3, <5>4, <5>6
      <4> QED BY <4>3, <4>4
    <3>11. Len(out) = Len(given) + (IF dated THEN 1 ELSE 0)
      <4>1. Len(given) + 0 = Len(given)
        BY <2>2
      <4>2. CASE dated
        BY <3>5, <4>2
      <4>3. CASE ~dated
        BY <3>5, <4>1, <4>3
      <4> QED BY <4>2, <4>3
    <3> QED BY <3>2, <3>9, <3>10, <3>11
  <2> HIDE DEF wire
  <2> QED BY <2>5, <2>6 DEF NotifiesInOrder
<1>2. Init => Reasons
  BY DEF Init, Reasons
<1> QED BY <1>1, <1>2, SoundInit, SoundStep, LayoutInit, LayoutStep, ReasonsStep, PTL DEF Spec

=============================================================================
