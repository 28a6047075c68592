------------------------------ MODULE Framing ------------------------------
(***************************************************************************)
(* How the receiver finds the PDUs in the byte stream of a connection:     *)
(* readHeaderPacket, the header codec and the part of runReceiver that     *)
(* decides between carrying on, reconnecting and giving up.                *)
(*                                                                         *)
(* The stream arrives in pieces of any size and may end anywhere, also in  *)
(* the middle of a header or of a payload.  Of a header the payload length *)
(* is kept, as the digits on the wire in the order the sender chose; of a  *)
(* payload only its size and whether its decoder accepts it.               *)
(***************************************************************************)
EXTENDS Integers, Sequences

CONSTANTS
  HeaderSize,       \* bytes of a header: 20 in the code
  Align,            \* payload lengths are multiples of this: 4 in the code
  MaxPayloadLength, \* the longest payload accepted: 2^20 in the code
  Radix,            \* values of a digit; a length has two, four bytes in the code
  Lengths,          \* payload lengths a master agent announces
  MaxPDUs,          \* bound: PDUs sent on one connection
  MaxDrops          \* bound: connection losses

ASSUME FramingAssumption ==
  /\ HeaderSize \in Nat \ {0} /\ Align \in Nat \ {0} /\ MaxPayloadLength \in Nat
  /\ Radix \in Nat \ {0} /\ Lengths \subseteq 0 .. Radix * Radix - 1
  /\ MaxPDUs \in Nat /\ MaxDrops \in Nat

-----------------------------------------------------------------------------
(* pdu/header.go *)

\* Header.MarshalBinary: most significant digit first in network byte order
MarshalLength(n, order) ==
  IF order = "big" THEN <<n \div Radix, n % Radix>> ELSE <<n % Radix, n \div Radix>>

\* Mutant of UnmarshalLength: the flag is ignored.
UnmarshalLengthLittle(digits, order) == digits[2] * Radix + digits[1]

\* Header.UnmarshalBinary reads the flag first, then the fields in its order.
UnmarshalLength(digits, order) ==
  IF order = "big" THEN digits[1] * Radix + digits[2] ELSE digits[2] * Radix + digits[1]

Plausible(n) == n % Align = 0 /\ n <= MaxPayloadLength

\* Mutant of Validate: the announced length is not bounded.
ValidateUnbounded(h) == h.version /\ h.length % Align = 0

\* Header.Validate; version is whether it is the one spoken here
Validate(h) == h.version /\ Plausible(h.length)

\* PDUs as the master agent sends them
PDUs == [version : BOOLEAN, order : {"big", "little"}, type : {"known", "unknown"},
         length : Lengths, good : BOOLEAN]

\* What follows an implausible header has no meaning: it is left out.
Size(p) == HeaderSize + IF Plausible(p.length) THEN p.length ELSE 0

-----------------------------------------------------------------------------

VARIABLES
  sent,             \* PDUs sent on the current connection
  starts,           \* where each of them begins, and where the next one will
  avail,            \* bytes of it that have arrived
  end,              \* "open", "eof" or "reset": how the stream goes on after avail
  pos,              \* bytes the receiver has consumed
  phase,            \* where readHeaderPacket is, or the receiver after it
  length,           \* header.PayloadLength of the PDU being read
  outcomes,         \* of the PDUs read on this connection: "packet" or "parseError"
  gen               \* number of the connection

vars == <<sent, starts, avail, end, pos, phase, length, outcomes, gen>>

Init ==
  /\ sent = <<>> /\ starts = <<0>> /\ avail = 0 /\ end = "open"
  /\ pos = 0 /\ phase = "header" /\ length = 0 /\ outcomes = <<>>
  /\ gen = 1

\* Start(n): where the n-th PDU begins
Start(n) == starts[n]

Total == Start(Len(sent) + 1)

-----------------------------------------------------------------------------
(* readHeaderPacket.  A read completes when enough bytes have arrived. *)

\* io.ReadFull; a mutant wants to see the byte after the last one
HaveMore(n) == avail - pos > n
Have(n) == avail - pos >= n

Starting == {n \in DOMAIN sent : Start(n) = pos}

\* A rejected header whose length is plausible is skipped with its payload;
\* with an implausible one the next boundary cannot be found.
ReadHeader ==
  /\ phase = "header"
  /\ Have(HeaderSize)
  /\ \E n \in Starting :
       LET p == sent[n]
           h == [version |-> p.version,
                 length |-> UnmarshalLength(MarshalLength(p.length, p.order), p.order)]
       IN  /\ length' = h.length
           /\ phase' = CASE Validate(h)                       -> "payload"
                         [] ~Validate(h) /\ Plausible(h.length) -> "discard"
                         [] OTHER                             -> "exited"
  /\ pos' = pos + HeaderSize
  /\ UNCHANGED <<sent, starts, avail, end, outcomes, gen>>

\* The PDU whose header has just been consumed
Current == Len(outcomes) + 1

\* Mutant of Decodes: the decoder's error is overlooked.
DecodesAnything(p) == TRUE

\* packetForType and unmarshalPacket: Unsupported accepts every payload
Decodes(p) == p.type = "unknown" \/ p.good

ReadPayload ==
  /\ phase = "payload"
  /\ Have(length)
  /\ pos' = pos + length
  /\ outcomes' = Append(outcomes, IF Decodes(sent[Current]) THEN "packet" ELSE "parseError")
  /\ phase' = "header"
  /\ UNCHANGED <<sent, starts, avail, end, length, gen>>

\* The bytes to skip; a mutant leaves the payload of a rejected PDU unread
SkippedNothing == 0
Skipped == length

\* io.CopyN(io.Discard, ...), then the parseError
DiscardPayload ==
  /\ phase = "discard"
  /\ Have(Skipped)
  /\ pos' = pos + Skipped
  /\ outcomes' = Append(outcomes, "parseError")
  /\ phase' = "header"
  /\ UNCHANGED <<sent, starts, avail, end, length, gen>>

Needed == IF phase = "header" THEN HeaderSize ELSE length

\* The stream ended inside a read: EOF or ErrUnexpectedEOF leads to reconnect,
\* any other error out of the receiver.
ReadFails ==
  /\ phase \in {"header", "payload", "discard"}
  /\ ~Have(Needed)
  /\ end # "open"
  /\ phase' = IF end = "eof" THEN "reconnect" ELSE "exited"
  /\ UNCHANGED <<sent, starts, avail, end, pos, length, outcomes, gen>>

\* A new connection and a new bufio.Reader: nothing of the old stream is left.
Reconnect ==
  /\ phase = "reconnect"
  /\ sent' = <<>> /\ starts' = <<0>> /\ avail' = 0 /\ end' = "open"
  /\ pos' = 0 /\ phase' = "header" /\ length' = 0 /\ outcomes' = <<>>
  /\ gen' = gen + 1

-----------------------------------------------------------------------------
(* The master agent and the network: external *)

MasterSend ==
  /\ end = "open" /\ phase # "exited"
  /\ Len(sent) < MaxPDUs
  /\ \A n \in DOMAIN sent : Plausible(sent[n].length)
  /\ \E p \in PDUs : /\ sent' = Append(sent, p)
                    /\ starts' = Append(starts, Total + Size(p))
  /\ UNCHANGED <<avail, end, pos, phase, length, outcomes, gen>>

\* In pieces of any size
Arrive ==
  /\ end = "open"
  /\ avail < Total
  /\ avail' \in avail + 1 .. Total
  /\ UNCHANGED <<sent, starts, end, pos, phase, length, outcomes, gen>>

\* A reset may take with it what had arrived and was not read.
StreamEnds ==
  /\ end = "open"
  /\ gen <= MaxDrops
  /\ \/ end' = "eof" /\ UNCHANGED avail
     \/ end' = "reset" /\ avail' \in pos .. avail
  /\ UNCHANGED <<sent, starts, pos, phase, length, outcomes, gen>>

Read == ReadHeader \/ ReadPayload \/ DiscardPayload \/ ReadFails

Next == Read \/ Reconnect \/ MasterSend \/ Arrive \/ StreamEnds

Spec == Init /\ [][Next]_vars

\* The receiver's goroutine runs; nothing is assumed of master and network.
FairSpec == Spec /\ WF_vars(Read)

-----------------------------------------------------------------------------
(* Properties *)

\* Type invariant; in particular a payload buffer is never allocated beyond
\* MaxPayloadLength (header.go:20-24).
TypeOK ==
  /\ sent \in Seq(PDUs) /\ Len(sent) <= MaxPDUs
  /\ avail \in 0 .. Total /\ pos \in 0 .. avail
  /\ end \in {"open", "eof", "reset"}
  /\ phase \in {"header", "payload", "discard", "reconnect", "exited"}
  /\ phase = "payload" => length <= MaxPayloadLength
  /\ outcomes \in Seq({"packet", "parseError"})
  /\ gen \in 1 .. MaxDrops + 1

\* The receiver begins to read a header only at the boundary of a PDU, and has
\* one outcome for every PDU before it: through rejected headers, undecodable
\* payloads, unknown types, both byte orders, fragmentation and reconnects
\* (client.go:424-428, client_internal_test.go:131).
StaysFramed == phase = "header" => pos = Start(Current)

\* The outcome a PDU deserves, from its contents alone.
Deserved(p) == IF p.version /\ (p.type = "known" => p.good) THEN "packet" ELSE "parseError"

\* PDUs come out in the order they were sent, none skipped, none twice, each
\* with its own outcome, and none that was cut off.
OutcomesMatch ==
  \A i \in DOMAIN outcomes :
    /\ i <= Len(sent) /\ outcomes[i] = Deserved(sent[i])
    /\ end # "reset" => Start(i + 1) <= avail

\* The receiver gives a connection up only when the stream broke or announced a
\* length that leaves no way to find the next PDU; whatever else a master agent
\* sends, in either byte order, it carries on (client.go:301-304).
GivesUpOnlyWhenLost ==
  phase = "exited" => end = "reset" \/ ~Plausible(sent[Current].length)

Arrived(n) == n <= Len(sent) /\ Plausible(sent[n].length) /\ avail >= Start(n + 1)

\* A PDU that has arrived to its last byte is read without waiting for more to
\* arrive, unless the stream breaks first.
ArrivedIsRead ==
  \A n \in 1 .. MaxPDUs :
    Arrived(n) ~> (Len(outcomes) >= n \/ ~Arrived(n) \/ phase = "exited")
=============================================================================
