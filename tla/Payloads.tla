------------------------------ MODULE Payloads ------------------------------
(***************************************************************************)
(* A payload's way through the codecs: a packet is encoded, by the library *)
(* or by a master agent in a byte order of its own; what arrives may have  *)
(* been cut, changed or lengthened; unmarshalPacket takes it apart, an     *)
(* item per step.                                                          *)
(***************************************************************************)
EXTENDS Codec

VARIABLES
  phase,            \* "idle", "encoding", "unencodable", "encoded", "decoding", "accepted",
                    \* "rejected"
  pkt,              \* the packet: [kind, head, items]
  order,            \* the byte order it is encoded in
  starts,           \* where the items begin that have been encoded
  damaged,          \* whether the payload is no longer what was encoded
  data,             \* the payload
  off,              \* how far the decoder has come
  reach,            \* the last byte it has looked at
  head, out         \* what it has decoded

vars == <<phase, pkt, order, starts, damaged, data, off, reach, head, out>>

NoPacket == [kind |-> "none", head |-> <<>>, items |-> <<>>]

Init ==
  /\ phase = "idle" /\ pkt = NoPacket /\ order = "little" /\ starts = <<>> /\ damaged = FALSE
  /\ data = <<>> /\ off = 0 /\ reach = 0 /\ head = <<>> /\ out = <<>>

\* What is encoded goes to the end of the payload; an error leaves nothing to send.
Write(bytes, going) ==
  /\ data' = IF bytes = NoBytes THEN <<>> ELSE data \o bytes
  /\ phase' = IF bytes = NoBytes THEN "unencodable" ELSE going

\* HeaderPacket.MarshalBinary begins the packet's, which writes its fixed part.
MarshalStart(p, o) ==
  /\ phase = "idle"
  /\ o = "big" => Ordered(p.kind)
  /\ pkt' = p /\ order' = o
  /\ Write(IF Valid(p) THEN MarshalHead(p, o) ELSE NoBytes, "encoding")
  /\ UNCHANGED <<starts, damaged, off, reach, head, out>>

\* The loops of Variables and Ranges; the items of Open, Register and Unregister
MarshalNext ==
  /\ phase = "encoding" /\ Len(starts) < Len(WireItems(pkt))
  /\ LET i == Len(starts) + 1
     IN  Write(MarshalItem(Shape(pkt.kind, i), WireItems(pkt)[i], order), "encoding")
  /\ starts' = Append(starts, Len(data))
  /\ UNCHANGED <<pkt, order, damaged, off, reach, head, out>>

MarshalEnd ==
  /\ phase = "encoding" /\ Len(starts) = Len(WireItems(pkt))
  /\ phase' = "encoded"
  /\ UNCHANGED <<pkt, order, starts, damaged, data, off, reach, head, out>>

\* Payloads nobody encoded: cut off, with one byte changed, or with a word more
Damage ==
  /\ phase = "encoded" /\ ~damaged
  /\ damaged' = TRUE
  /\ \/ \E n \in 0 .. Len(data) - 1 : data' = SubSeq(data, 1, n)
     \/ \E i \in DOMAIN data, b \in 0 .. Radix - 1 : b # data[i] /\ data' = [data EXCEPT ![i] = b]
     \/ \E b \in 0 .. Radix - 1 : data' = data \o <<b, 0, 0, 0>>
  /\ UNCHANGED <<phase, pkt, order, starts, off, reach, head, out>>

HasHead(kind) == Len(data) >= HeadSize(kind)

\* Register refuses a range.
HeadAccepted(kind) == HasHead(kind) /\ (kind = "register" => At(data, 3) = 0)

UnmarshalStart ==
  /\ phase = "encoded"
  /\ reach' = IF HasHead(pkt.kind) THEN HeadSize(pkt.kind) ELSE 0
  /\ IF HeadAccepted(pkt.kind)
       THEN /\ phase' = "decoding"
            /\ head' = UnmarshalHead(pkt.kind, data, order)
            /\ off' = HeadSize(pkt.kind)
       ELSE phase' = "rejected" /\ UNCHANGED <<head, off>>
  /\ UNCHANGED <<pkt, order, starts, damaged, data, out>>

\* The condition of the loops, and the number of items of the other packets
Complete ==
  IF pkt.kind \in Lists THEN off >= Len(data) ELSE Len(out) = FixedItems(pkt.kind)

\* The loops of Variables and Ranges; the items of Open, Register and Unregister
UnmarshalNext ==
  /\ phase = "decoding" /\ ~Complete
  /\ LET r == UnmarshalItem(Shape(pkt.kind, Len(out) + 1), data, off, order) IN
       /\ reach' = off + r.reach
       /\ IF r.ok
            THEN out' = Append(out, r.value) /\ off' = off + r.size /\ UNCHANGED phase
            ELSE phase' = "rejected" /\ UNCHANGED <<out, off>>
  /\ UNCHANGED <<pkt, order, starts, damaged, data, head>>

\* Notify looks for its timestamp in the list.
UnmarshalEnd ==
  /\ phase = "decoding" /\ Complete
  /\ phase' = "accepted"
  /\ head' = IF pkt.kind = "notify" THEN [timestamp |-> Timestamp(out)] ELSE head
  /\ UNCHANGED <<pkt, order, starts, damaged, data, off, reach, out>>

Unmarshal == UnmarshalStart \/ UnmarshalNext \/ UnmarshalEnd

Next ==
  \/ \E p \in Packets, o \in {"big", "little"} : MarshalStart(p, o)
  \/ MarshalNext \/ MarshalEnd
  \/ Damage
  \/ Unmarshal

Spec == Init /\ [][Next]_vars

-----------------------------------------------------------------------------
(* What packets mean, whatever Go types and encodings they were given *)

ValueMeaning(v) ==
  CASE v.type \in NoData                         -> 0
    [] v.type = "TimeTicks" /\ v.go = "duration" -> Ticks(v.val)
    [] v.type = "IPAddress"                      -> To4(v.val)
    [] v.type = "ObjectIdentifier"               -> oidValue(v)
    [] OTHER                                     -> v.val

Meaning(v) == [type |-> v.type, name |-> GetIdentifier(v.name), val |-> ValueMeaning(v)]

OIDMeaning(o) == [oid |-> GetIdentifier(o), include |-> o.include # 0]

ItemMeaning(shape, item) ==
  CASE shape = "variable" -> Meaning(item)
    [] shape = "range"    -> <<OIDMeaning(item.from), GetIdentifier(item.to)>>
    [] shape = "oid"      -> OIDMeaning(item)
    [] OTHER              -> item

ItemsMeaning(kind, items) == [i \in DOMAIN items |-> ItemMeaning(Shape(kind, i), items[i])]

\* To the precision of the wire; an Unregister carries no timeout, an Open no
\* priority.
HeadMeaning(kind, h) ==
  CASE kind = "response"   -> <<Ticks(h.upTime), h.error, h.index>>
    [] kind = "open"       -> <<Seconds(h.duration)>>
    [] kind = "register"   -> <<Seconds(h.duration), h.priority>>
    [] kind = "unregister" -> <<h.priority>>
    [] kind = "close"      -> <<h.reason>>
    [] OTHER               -> <<>>

-----------------------------------------------------------------------------
(* Properties *)

\* What is encoded and arrives unharmed is decoded to what was meant: in both
\* byte orders, with oids compressed by a prefix, every type and Go value,
\* texts of any alignment, several items in a row, ticks that wrap, seconds that
\* are cut (codec_test.go; RFC 2741 5).
RoundTrip ==
  /\ ~damaged => phase # "rejected"
  /\ ~damaged /\ phase = "accepted" =>
       /\ ItemsMeaning(pkt.kind, out) = ItemsMeaning(pkt.kind, WireItems(pkt))
       /\ pkt.kind # "notify" => HeadMeaning(pkt.kind, head) = HeadMeaning(pkt.kind, pkt.head)

\* No decoder looks past the end of its payload, which would panic, whatever the
\* counts and lengths in the payload say, neither on the way to a value nor before
\* it gives up (robustness_test.go:15).
InBounds == reach <= Len(data)

\* What the library encodes is whole words, so that the header that announces it
\* passes the peer's Validate (header.go:95-108).  And a payload of whole words,
\* damaged or not, is used up to its last byte and not beyond, item after item on
\* word boundaries, each taking some of it: no length in one item can move the
\* next, and the loops end (variable.go:202-205, robustness_test.go:15).
StaysAligned ==
  /\ phase = "encoded" /\ ~damaged => Len(data) % 4 = 0
  /\ Len(out) * 4 <= off
  /\ Len(data) % 4 = 0 =>
       /\ off % 4 = 0 /\ off <= Len(data)
       /\ phase = "accepted" /\ pkt.kind \in Lists => off = Len(data)

\* A notification that names its trap is sent, timestamp or not, its own or the
\* list's, and always in the order the master agent insists on: sysUpTime.0, if
\* any, then snmpTrapOID.0; one that names none is refused
\* (notify.go:18-23, 70-73).
NotifiesInOrder ==
  pkt.kind = "notify" =>
    LET given == pkt.items
        own   == given # <<>> /\ GetIdentifier(given[1].name) = OIDSysUpTime
        trap  == IF own THEN 2 ELSE 1
        named == Len(given) >= trap /\ GetIdentifier(given[trap].name) = OIDSnmpTrapOID
    IN  /\ phase = "unencodable" =>
             \/ ~named \/ (~own /\ pkt.head.timestamp < 0)
             \/ \E i \in DOMAIN given : MarshalVariable(given[i], order) = NoBytes
        /\ phase = "accepted" /\ ~damaged =>
             /\ named
             /\ (GetIdentifier(out[1].name) = OIDSysUpTime) <=> (own \/ pkt.head.timestamp # 0)
             /\ Len(out) = Len(given) + (IF ~own /\ pkt.head.timestamp # 0 THEN 1 ELSE 0)
             /\ ~own => head.timestamp \div Tick = Ticks(pkt.head.timestamp)
=============================================================================
