------------------------------- MODULE Codec -------------------------------
(***************************************************************************)
(* The payload codecs of package pdu: object identifiers, octet strings,   *)
(* varbinds, search ranges, and the packets made of them.  A payload is a  *)
(* sequence of bytes; the decoders work through it with an offset, one     *)
(* item of a list per step, exactly as the loops in the code do, and say   *)
(* of every item how many bytes it used and how far it looked.             *)
(*                                                                         *)
(* A packet is encoded by the library (least significant byte first) or by *)
(* a master agent (in either order), may be damaged, and is decoded.       *)
(***************************************************************************)
EXTENDS Integers, Sequences

CONSTANTS
  Radix,             \* values of a byte: 256 in the code
  MaxSubidentifiers, \* sub-identifiers of an oid: 128 in the code
  Tick,              \* a time tick in units of a Duration: 10 ms in the code
  Second,            \* a second in units of a Duration
  TypeCodes,         \* the number of each VariableType
  OIDTexts,          \* the strings that are the text of an oid -> that oid
  OIDSysUpTime, OIDSnmpTrapOID,
  Packets            \* the packets that are encoded: [kind, head, items]

HalfWord == Radix * Radix
Word     == HalfWord * HalfWord

Byte   == 0 .. Radix - 1
Uint32 == 0 .. Word - 1
OIDs   == Seq(Uint32)
Texts  == {text \in Seq(Byte) : Len(text) < Word}

ObjectIdentifiers == [prefix : Byte, include : Byte, subs : OIDs]

\* The values of each Go type that a variable can hold
GoValues(go) ==
  CASE go = "int32"                     -> (Word \div 2) - Word .. (Word \div 2) - 1
    [] go = "uint32"                    -> Uint32
    [] go = "uint64"                    -> 0 .. Word * Word - 1
    [] go = "duration"                  -> Int
    [] go \in {"string", "bytes", "ip"} -> Texts
    [] go \in {"oid", "uint32s"}        -> OIDs
    [] OTHER                            -> {0}

IsVariable(v) ==
  /\ v = [type |-> v.type, name |-> v.name, go |-> v.go, val |-> v.val]
  /\ v.type \in DOMAIN TypeCodes /\ v.name \in ObjectIdentifiers /\ v.val \in GoValues(v.go)

ASSUME CodecAssumption ==
  /\ Radix \in Nat /\ Radix > 1 /\ MaxSubidentifiers \in Byte
  /\ Tick \in Nat \ {0} /\ Second \in Nat \ {0}
  /\ \A t \in DOMAIN TypeCodes : TypeCodes[t] \in 0 .. HalfWord - 1
  /\ \A t, u \in DOMAIN TypeCodes : TypeCodes[t] = TypeCodes[u] => t = u
  /\ "TimeTicks" \in DOMAIN TypeCodes
  /\ DOMAIN OIDTexts \subseteq Texts /\ \A text \in DOMAIN OIDTexts : OIDTexts[text] \in OIDs
  /\ {OIDSysUpTime, OIDSnmpTrapOID} \subseteq OIDs /\ OIDSysUpTime # OIDSnmpTrapOID
  /\ Len(OIDSysUpTime) <= MaxSubidentifiers

NoBytes == <<-1>>    \* what an encoder returns with an error

\* One encoding after the other; an encoder returns the first error of its parts.
Cat(first, second) == IF NoBytes \in {first, second} THEN NoBytes ELSE first \o second

\* A decoder's error with the bytes it had looked at, and its success with the
\* bytes consumed, the bytes looked at, and the value
Rejected(reach) == [ok |-> FALSE, size |-> 0, reach |-> reach, value |-> <<>>]
Decoded(size, reach, value) == [ok |-> TRUE, size |-> size, reach |-> reach, value |-> value]

-----------------------------------------------------------------------------
(* encoding/binary: unsigned numbers in one of the byte orders, put together
   from two halves *)

Halves(n, base, order) ==
  LET high == (n \div base) % base
      low  == n % base
  IN  IF order = "big" THEN <<high, low>> ELSE <<low, high>>

PutUint16(n, order) == Halves(n, Radix, order)

PutUint32(n, order) ==
  LET half == Halves(n, HalfWord, order)
  IN  PutUint16(half[1], order) \o PutUint16(half[2], order)

PutUint64(n, order) ==
  LET half == Halves(n, Word, order)
  IN  PutUint32(half[1], order) \o PutUint32(half[2], order)

\* Mutant of Whole: the byte order of the header is not passed on.
WholeLittle(first, second, base, order) == second * base + first

Whole(first, second, base, order) ==
  IF order = "big" THEN first * base + second ELSE second * base + first

\* Past the end there is nothing to see; a decoder that looks there has a reach
\* that says so.
At(data, i) == IF i \in DOMAIN data THEN data[i] ELSE 0

GetUint16(data, at, order) == Whole(At(data, at + 1), At(data, at + 2), Radix, order)

GetUint32(data, at, order) ==
  Whole(GetUint16(data, at, order), GetUint16(data, at + 2, order), HalfWord, order)

GetUint64(data, at, order) ==
  Whole(GetUint32(data, at, order), GetUint32(data, at + 4, order), Word, order)

\* Mutant of HasWord: the first word is taken for granted.
HasWordUnchecked(data, at) == TRUE

\* What an oid, a text and a variable make sure of before they look at anything
HasWord(data, at) == Len(data) - at >= 4

-----------------------------------------------------------------------------
(* pdu/object_identifier.go *)

SetIdentifier(oid) == [prefix |-> 0, include |-> 0, subs |-> oid]

\* A prefix stands for five sub-identifiers.
GetIdentifier(o) == (IF o.prefix # 0 THEN <<1, 3, 6, 1, o.prefix>> ELSE <<>>) \o o.subs

OIDSize(count) == 4 + count * 4

\* The loops over the sub-identifiers, four bytes each
PutSubidentifiers(subs, order) ==
  [i \in 1 .. 4 * Len(subs) |-> PutUint32(subs[(i + 3) \div 4], order)[((i - 1) % 4) + 1]]

GetSubidentifiers(data, at, count, order) ==
  [i \in 1 .. count |-> GetUint32(data, at + 4 * (i - 1), order)]

MarshalOID(o, order) ==
  IF Len(o.subs) > MaxSubidentifiers THEN NoBytes
  ELSE <<Len(o.subs), o.prefix, o.include, 0>> \o PutSubidentifiers(o.subs, order)

\* Mutant of OIDFits: the count is trusted.
OIDFitsUnchecked(count, avail) == count <= MaxSubidentifiers

OIDFits(count, avail) == count <= MaxSubidentifiers /\ avail >= OIDSize(count)

UnmarshalOID(data, at, order) ==
  LET count == At(data, at + 1)
      avail == Len(data) - at IN
  IF ~HasWord(data, at) THEN Rejected(0)
  ELSE IF ~OIDFits(count, avail) THEN Rejected(1)
  ELSE Decoded(OIDSize(count), OIDSize(count),
               [prefix |-> At(data, at + 2), include |-> At(data, at + 3),
                subs |-> GetSubidentifiers(data, at + 4, count, order)])

-----------------------------------------------------------------------------
(* pdu/octet_string.go *)

padding(length) == (4 - (length % 4)) % 4

octetStringSize(length) == 4 + length + padding(length)

TextPad(length) == [i \in 1 .. padding(length) |-> 0]

MarshalText(text, order) == PutUint32(Len(text), order) \o text \o TextPad(Len(text))

\* The padding need not be there; the loops look at the offset before they go on.
UnmarshalText(data, at, order) ==
  LET length == GetUint32(data, at, order)
      avail  == Len(data) - at IN
  IF ~HasWord(data, at) THEN Rejected(0)
  ELSE IF length > avail - 4 THEN Rejected(4)
  ELSE Decoded(octetStringSize(length), 4 + length, SubSeq(data, at + 5, at + 4 + length))

-----------------------------------------------------------------------------
(* pdu/variable.go.  A Go value is its dynamic type and what it holds. *)

NoData == {"Null", "NoSuchObject", "NoSuchInstance", "EndOfMIBView"}

\* net.IP.To4
To4(ip) ==
  CASE Len(ip) = 4 -> ip
    [] Len(ip) = 16 /\ SubSeq(ip, 1, 12) = [i \in 1 .. 12 |-> IF i > 10 THEN Radix - 1 ELSE 0]
         -> SubSeq(ip, 13, 16)
    [] OTHER -> NoBytes

\* oidValue, for the three types it takes
oidValue(v) == IF v.go = "string" THEN OIDTexts[v.val] ELSE v.val

\* The type assertions of marshalValue, and the values it refuses
Encodable(v) ==
  CASE v.type \in NoData                     -> TRUE
    [] v.type = "Integer"                    -> v.go = "int32"
    [] v.type \in {"Counter32", "Gauge32"}   -> v.go = "uint32"
    [] v.type = "Counter64"                  -> v.go = "uint64"
    [] v.type = "TimeTicks"                  -> v.go = "uint32" \/ (v.go = "duration" /\ v.val >= 0)
    [] v.type \in {"OctetString", "Opaque"}  -> v.go \in {"string", "bytes"}
    [] v.type = "IPAddress"                  -> v.go \in {"ip", "bytes", "string"} /\ To4(v.val) # NoBytes
    [] v.type = "ObjectIdentifier"           ->
         v.go \in {"oid", "uint32s"} \/ (v.go = "string" /\ v.val \in DOMAIN OIDTexts)
    [] OTHER                                 -> FALSE

\* Whole ticks, in 32 bits; division is towards zero.
Ticks(duration) ==
  (IF duration < 0 THEN -((-duration) \div Tick) ELSE duration \div Tick) % Word

marshalValue(v, order) ==
  IF ~Encodable(v) THEN NoBytes
  ELSE CASE v.type \in NoData                              -> <<>>
         [] v.type \in {"Integer", "Counter32", "Gauge32"} -> PutUint32(v.val % Word, order)
         [] v.type = "Counter64"                           -> PutUint64(v.val, order)
         [] v.type = "TimeTicks"                           ->
              PutUint32(IF v.go = "duration" THEN Ticks(v.val) ELSE v.val, order)
         [] v.type = "IPAddress"                           -> MarshalText(To4(v.val), order)
         [] v.type = "ObjectIdentifier"                    -> MarshalOID(SetIdentifier(oidValue(v)), order)
         [] OTHER                                          -> MarshalText(v.val, order)

MarshalVariable(v, order) ==
  Cat(PutUint16(TypeCodes[v.type], order) \o <<0, 0>>,
      Cat(MarshalOID(v.name, order), marshalValue(v, order)))

\* int32(order.Uint32(data))
Signed(n) == IF n >= Word \div 2 THEN n - Word ELSE n

\* A number of a fixed width, which has to be there
Fixed(data, at, width, go, val) ==
  IF Len(data) - at < width THEN Rejected(0) ELSE Decoded(width, width, [go |-> go, val |-> val])

Retyped(r, go, val) == IF r.ok THEN [r EXCEPT !.value = [go |-> go, val |-> val]] ELSE r

unmarshalValue(type, data, at, order) ==
  LET word == GetUint32(data, at, order)
      text == UnmarshalText(data, at, order)
      oid  == UnmarshalOID(data, at, order) IN
  CASE type \in NoData                   -> Decoded(0, 0, [go |-> "nil", val |-> 0])
    [] type = "Integer"                  -> Fixed(data, at, 4, "int32", Signed(word))
    [] type \in {"Counter32", "Gauge32"} -> Fixed(data, at, 4, "uint32", word)
    [] type = "TimeTicks"                -> Fixed(data, at, 4, "duration", word * Tick)
    [] type = "Counter64"                -> Fixed(data, at, 8, "uint64", GetUint64(data, at, order))
    [] type = "OctetString"              -> Retyped(text, "string", text.value)
    [] type = "Opaque"                   -> Retyped(text, "bytes", text.value)
    [] type = "IPAddress"                -> Retyped(text, "ip", text.value)
    [] type = "ObjectIdentifier"         ->
         Retyped(oid, "oid", IF oid.ok THEN GetIdentifier(oid.value) ELSE <<>>)
    [] OTHER                             -> Rejected(0)

VariableType(code) ==
  IF \E t \in DOMAIN TypeCodes : TypeCodes[t] = code
  THEN CHOOSE t \in DOMAIN TypeCodes : TypeCodes[t] = code ELSE "unknown"

\* Mutant of VariableSize: only the value is counted.
VariableSizeOfValue(name, value) == value.size

VariableSize(name, value) == 4 + name.size + value.size

\* Header, name, value; each begins where the one before it ended.
UnmarshalVariable(data, at, order) ==
  LET type  == VariableType(GetUint16(data, at, order))
      name  == UnmarshalOID(data, at + 4, order)
      value == unmarshalValue(type, data, at + 4 + name.size, order) IN
  IF ~HasWord(data, at) THEN Rejected(0)
  ELSE IF ~name.ok THEN Rejected(4 + name.reach)
  ELSE IF ~value.ok THEN Rejected(4 + name.size + value.reach)
  ELSE Decoded(VariableSize(name, value), 4 + name.size + value.reach,
               [type |-> type, name |-> name.value, go |-> value.value.go, val |-> value.value.val])

-----------------------------------------------------------------------------
(* pdu/range.go: the ending oid never includes. *)

MarshalRange(r, order) ==
  Cat(MarshalOID(r.from, order), MarshalOID([r.to EXCEPT !.include = 0], order))

UnmarshalRange(data, at, order) ==
  LET from == UnmarshalOID(data, at, order)
      to   == UnmarshalOID(data, at + from.size, order) IN
  IF ~from.ok THEN from
  ELSE IF ~to.ok THEN Rejected(from.size + to.reach)
  ELSE Decoded(from.size + to.size, from.size + to.reach, [from |-> from.value, to |-> to.value])

-----------------------------------------------------------------------------
(* pdu/notify.go *)

hasSysUpTime(vars) == vars # <<>> /\ GetIdentifier(vars[1].name) = OIDSysUpTime

\* Mutant of varBindList: the timestamp is left out.
varBindListBare(p) == p.items

varBindList(p) ==
  IF p.head.timestamp = 0 \/ hasSysUpTime(p.items) THEN p.items
  ELSE << [type |-> "TimeTicks", name |-> SetIdentifier(OIDSysUpTime),
           go |-> "duration", val |-> p.head.timestamp] >> \o p.items

validateNotifyVariables(vars) ==
  LET trapOIDIndex == IF hasSysUpTime(vars) THEN 2 ELSE 1
  IN  Len(vars) >= trapOIDIndex /\ GetIdentifier(vars[trapOIDIndex].name) = OIDSnmpTrapOID

\* Set from a leading sysUpTime.0 that is a Duration
Timestamp(vars) == IF hasSysUpTime(vars) /\ vars[1].go = "duration" THEN vars[1].val ELSE 0

-----------------------------------------------------------------------------
(* The packets.  A list packet is a head and items up to the end of the payload;
   the others have a head and a fixed number of items. *)

VariableLists == {"response", "notify", "testSet"}
RangeLists    == {"get", "getNext"}
Empty         == {"commitSet", "undoSet", "cleanupSet"}
Lists         == VariableLists \cup RangeLists \cup Empty

\* orderedUnmarshaler; the others are decoded in the library's own order.
Ordered(kind) == kind \in VariableLists \cup RangeLists

Shape(kind, i) ==
  CASE kind \in VariableLists -> "variable"
    [] kind \in RangeLists    -> "range"
    [] kind \in {"register", "unregister"} \/ (kind = "open" /\ i = 1) -> "oid"
    [] kind = "open" /\ i = 2 -> "text"
    [] OTHER                  -> "none"

FixedItems(kind) == CASE kind = "open" -> 2 [] kind \in {"register", "unregister"} -> 1 [] OTHER -> 0

HeadSize(kind) ==
  CASE kind = "response"                                  -> 8
    [] kind \in {"open", "register", "unregister", "close"} -> 4
    [] OTHER                                              -> 0

\* Timeout: whole seconds in one byte, or an error
Seconds(duration) == duration \div Second
InByte(duration)  == duration \in 0 .. (Radix - 1) * Second

\* The fixed part of each packet.  Open has no priority, Unregister no timeout.
MarshalResponse(h, order) ==
  PutUint32(Ticks(h.upTime), order) \o PutUint16(h.error, order) \o PutUint16(h.index, order)
MarshalTimeout(h) ==
  IF InByte(h.duration) THEN <<Seconds(h.duration), h.priority, 0, 0>> ELSE NoBytes
MarshalOpen(h)       == IF InByte(h.duration) THEN <<Seconds(h.duration), 0, 0, 0>> ELSE NoBytes
MarshalRegister(h)   == MarshalTimeout(h)
MarshalUnregister(h) == <<0, h.priority, 0, 0>>
MarshalClose(h)      == <<h.reason, 0, 0, 0>>

MarshalHead(p, order) ==
  CASE p.kind = "response"   -> MarshalResponse(p.head, order)
    [] p.kind = "open"       -> MarshalOpen(p.head)
    [] p.kind = "register"   -> MarshalRegister(p.head)
    [] p.kind = "unregister" -> MarshalUnregister(p.head)
    [] p.kind = "close"      -> MarshalClose(p.head)
    [] OTHER                 -> <<>>

UnmarshalResponse(data, order) ==
  [upTime |-> GetUint32(data, 0, order) * Tick,
   error |-> GetUint16(data, 4, order), index |-> GetUint16(data, 6, order)]
UnmarshalTimeout(data)    == [duration |-> At(data, 1) * Second, priority |-> At(data, 2)]
UnmarshalOpen(data)       == [duration |-> At(data, 1) * Second, priority |-> 0]
UnmarshalUnregister(data) == [duration |-> 0, priority |-> At(data, 2)]
UnmarshalClose(data)      == [reason |-> At(data, 1)]

UnmarshalHead(kind, data, order) ==
  CASE kind = "response"   -> UnmarshalResponse(data, order)
    [] kind = "open"       -> UnmarshalOpen(data)
    [] kind = "register"   -> UnmarshalTimeout(data)
    [] kind = "unregister" -> UnmarshalUnregister(data)
    [] kind = "close"      -> UnmarshalClose(data)
    [] OTHER               -> <<>>

MarshalItem(shape, item, order) ==
  CASE shape = "variable" -> MarshalVariable(item, order)
    [] shape = "range"    -> MarshalRange(item, order)
    [] shape = "oid"      -> MarshalOID(item, order)
    [] shape = "text"     -> MarshalText(item, order)

\* An empty packet has no first item.
UnmarshalItem(shape, data, at, order) ==
  CASE shape = "variable" -> UnmarshalVariable(data, at, order)
    [] shape = "range"    -> UnmarshalRange(data, at, order)
    [] shape = "oid"      -> UnmarshalOID(data, at, order)
    [] shape = "text"     -> UnmarshalText(data, at, order)
    [] OTHER              -> Rejected(0)

\* What goes on the wire for the items of p
WireItems(p) == IF p.kind = "notify" THEN varBindList(p) ELSE p.items

\* What is checked before anything is encoded
Valid(p) == p.kind = "notify" => validateNotifyVariables(varBindList(p))

-----------------------------------------------------------------------------
(* The packets a program or a master agent can make *)

IsHead(kind, h) ==
  CASE kind = "response" ->
         h \in [upTime : Int, error : 0 .. HalfWord - 1, index : 0 .. HalfWord - 1]
    [] kind \in {"open", "register", "unregister"} -> h \in [duration : Int, priority : Byte]
    [] kind = "close"  -> h \in [reason : Byte]
    [] kind = "notify" -> h \in [timestamp : Int]
    [] OTHER           -> h = <<>>

IsItem(shape, item) ==
  CASE shape = "variable" -> IsVariable(item)
    [] shape = "range"    -> item \in [from : ObjectIdentifiers, to : ObjectIdentifiers]
    [] shape = "oid"      -> item \in ObjectIdentifiers
    [] shape = "text"     -> item \in Texts
    [] OTHER              -> FALSE

ASSUME PacketsAssumption ==
  \A p \in Packets :
    /\ p = [kind |-> p.kind, head |-> p.head, items |-> p.items]
    /\ IsHead(p.kind, p.head)
    /\ Len(p.items) \in Nat /\ p.items = [i \in 1 .. Len(p.items) |-> p.items[i]]
    /\ p.kind \in Lists \/ Len(p.items) = FixedItems(p.kind)
    /\ \A i \in DOMAIN p.items : IsItem(Shape(p.kind, i), p.items[i])
=============================================================================
