--------------------------- MODULE FramingProofs ---------------------------
(***************************************************************************)
(* Proofs about Framing, for any size of a header, any alignment, any      *)
(* bound on payload lengths, any number of PDUs and of connections, and    *)
(* however the stream is cut into pieces.                                  *)
(***************************************************************************)
EXTENDS Framing, SequenceTheorems, TLAPS

-----------------------------------------------------------------------------
(* The header codec *)

\* A length written in either byte order is read back as it was.
LEMMA LengthRoundTrip ==
  ASSUME NEW n \in Lengths, NEW order \in {"big", "little"}
  PROVE  UnmarshalLength(MarshalLength(n, order), order) = n
<1>1. n \in Nat /\ Radix \in Nat \ {0}
  BY FramingAssumption
<1>2. (n \div Radix) * Radix + (n % Radix) = n
  BY <1>1
<1> QED BY <1>2 DEF UnmarshalLength, MarshalLength

\* A PDU takes at least its header.
LEMMA SizeFacts ==
  ASSUME NEW p \in PDUs
  PROVE  /\ Size(p) \in Nat /\ Size(p) >= HeaderSize /\ Size(p) > 0 /\ p.length \in Nat
         /\ Plausible(p.length) => Size(p) = HeaderSize + p.length
<1>1. p.length \in Nat
  <2>1. p.length \in Lengths
    BY DEF PDUs
  <2>2. \A n \in Lengths : n \in Nat
    BY FramingAssumption
  <2> QED BY <2>1, <2>2
<1> QED BY <1>1, FramingAssumption DEF Size

-----------------------------------------------------------------------------
(* The inductive invariant *)

\* Where the PDUs begin: each after the end of the one before.
Boundaries ==
  /\ sent \in Seq(PDUs) /\ starts \in Seq(Nat) /\ Len(starts) = Len(sent) + 1
  /\ starts[1] = 0
  /\ \A i \in DOMAIN sent : starts[i + 1] = starts[i] + Size(sent[i])
  /\ \A i, j \in DOMAIN starts : i < j => starts[i] < starts[j]

Typed ==
  /\ TypeOK
  /\ length \in Nat
  /\ end # "open" => gen <= MaxDrops
  /\ phase = "reconnect" => end = "eof"

\* Where the receiver is.
Placed ==
  /\ Len(outcomes) <= Len(sent)
  /\ phase = "header" => pos = starts[Current]
  /\ phase \in {"payload", "discard"} =>
       /\ Len(outcomes) < Len(sent)
       /\ pos = starts[Current] + HeaderSize
       /\ length = sent[Current].length /\ Plausible(length)
       /\ sent[Current].version = (phase = "payload")
  /\ phase = "exited" =>
       end = "reset" \/ (Len(outcomes) < Len(sent) /\ ~Plausible(sent[Current].length))

FramingInv == Boundaries /\ Typed /\ Placed /\ OutcomesMatch

\* What the invariant says of the positions, for any PDU that was sent.
LEMMA PositionFacts ==
  ASSUME Boundaries, NEW i \in 1 .. Len(sent)
  PROVE  /\ Len(sent) \in Nat /\ i \in Nat /\ i \in DOMAIN sent /\ sent[i] \in PDUs
         /\ starts[i] \in Nat /\ starts[i + 1] \in Nat
         /\ starts[i + 1] = starts[i] + Size(sent[i])
         /\ starts[i + 1] <= Total
<1>1. /\ Len(sent) \in Nat /\ i \in Nat /\ i \in DOMAIN sent /\ sent[i] \in PDUs
      /\ i \in DOMAIN starts /\ i + 1 \in DOMAIN starts /\ Len(sent) + 1 \in DOMAIN starts
  BY DEF Boundaries
<1>2. starts[i] \in Nat /\ starts[i + 1] \in Nat /\ starts[Len(sent) + 1] \in Nat
  BY <1>1 DEF Boundaries
<1>3. starts[i + 1] = starts[i] + Size(sent[i])
  BY <1>1 DEF Boundaries
<1>4. i = Len(sent) \/ i + 1 < Len(sent) + 1
  BY <1>1
<1>5. starts[i + 1] <= starts[Len(sent) + 1]
  BY <1>1, <1>2, <1>4, SMTT(20) DEF Boundaries
<1> QED BY <1>1, <1>2, <1>3, <1>5 DEF Total, Start

\* Every PDU begins at a place of its own, so the header at pos is that of the
\* current one.
LEMMA StartingIsCurrent ==
  ASSUME FramingInv, phase = "header", NEW n \in Starting
  PROVE  n = Current /\ Len(outcomes) < Len(sent) /\ n \in 1 .. Len(sent)
<1>1. /\ n \in DOMAIN sent /\ starts[n] = starts[Current] /\ sent \in Seq(PDUs)
      /\ starts \in Seq(Nat) /\ Len(starts) = Len(sent) + 1
      /\ outcomes \in Seq({"packet", "parseError"}) /\ Len(outcomes) <= Len(sent)
  BY DEF FramingInv, Boundaries, Typed, TypeOK, Placed, Starting, Start
<1>2. /\ n \in Nat /\ n \in 1 .. Len(sent) /\ n \in DOMAIN starts /\ Len(outcomes) \in Nat
      /\ Current \in Nat /\ Current \in DOMAIN starts /\ starts[n] \in Nat /\ Len(sent) \in Nat
  BY <1>1 DEF Current
<1>3. \A i, j \in DOMAIN starts : i < j => starts[i] # starts[j]
  <2>1. \A i, j \in DOMAIN starts : i < j => starts[i] < starts[j]
    BY DEF FramingInv, Boundaries
  <2>2. \A i \in DOMAIN starts : starts[i] \in Nat
    BY <1>1
  <2> QED BY <2>1, <2>2
<1>4. n = Current
  <2>1. ~(n < Current) /\ ~(Current < n)
    BY <1>1, <1>2, <1>3
  <2> QED BY <1>2, <2>1
<1> QED BY <1>1, <1>2, <1>4 DEF Current

\* The outcome of a PDU is what it deserves.
LEMMA OutcomeFacts ==
  ASSUME NEW p \in PDUs
  PROVE  /\ p.version = TRUE => Deserved(p) = IF Decodes(p) THEN "packet" ELSE "parseError"
         /\ p.version = FALSE => Deserved(p) = "parseError"
<1>1. p.version \in BOOLEAN /\ p.type \in {"known", "unknown"} /\ p.good \in BOOLEAN
  BY DEF PDUs
<1> QED BY <1>1 DEF Deserved, Decodes

\* The header of the next PDU.
LEMMA HeaderStep ==
  ASSUME FramingInv, ReadHeader
  PROVE  FramingInv'
<1>1. PICK n \in Starting :
        LET p == sent[n]
            h == [version |-> p.version,
                  length |-> UnmarshalLength(MarshalLength(p.length, p.order), p.order)]
        IN  /\ length' = h.length
            /\ phase' = CASE Validate(h)                       -> "payload"
                          [] ~Validate(h) /\ Plausible(h.length) -> "discard"
                          [] OTHER                             -> "exited"
  BY DEF ReadHeader
<1>2. /\ phase = "header" /\ avail - pos >= HeaderSize /\ pos' = pos + HeaderSize
      /\ UNCHANGED <<sent, starts, avail, end, outcomes, gen>>
  BY DEF ReadHeader, Have
<1>3. n = Current /\ Len(outcomes) < Len(sent) /\ n \in 1 .. Len(sent)
  BY <1>2, StartingIsCurrent
<1>4. PICK p \in PDUs : p = sent[n]
  BY <1>3, PositionFacts DEF FramingInv
<1>5. /\ p.length \in Lengths /\ p.length \in Nat
      /\ p.order \in {"big", "little"} /\ p.version \in BOOLEAN
  BY SizeFacts DEF PDUs
<1>6. /\ length' = p.length
      /\ \/ phase' = "payload" /\ p.version = TRUE /\ Plausible(p.length)
         \/ phase' = "discard" /\ p.version = FALSE /\ Plausible(p.length)
         \/ phase' = "exited" /\ ~Plausible(p.length)
  <2>1. UnmarshalLength(MarshalLength(p.length, p.order), p.order) = p.length
    BY <1>5, LengthRoundTrip
  <2> QED BY <1>1, <1>4, <1>5, <2>1 DEF Validate
<1>7. pos \in Nat /\ avail \in Nat /\ pos = starts[Current] /\ HeaderSize \in Nat
  BY <1>2, FramingAssumption DEF FramingInv, Typed, TypeOK, Placed
<1>8. Boundaries' /\ OutcomesMatch'
  BY <1>2 DEF FramingInv, Boundaries, OutcomesMatch, Start
<1>9. Typed'
  <2>1. pos' \in 0 .. avail'
    BY <1>2, <1>7
  <2>2. phase' = "payload" => length' <= MaxPayloadLength
    BY <1>6 DEF Plausible
  <2> QED BY <1>2, <1>5, <1>6, <2>1, <2>2 DEF FramingInv, Typed, TypeOK, Total, Start
<1>10. Placed'
  BY <1>2, <1>3, <1>4, <1>6, <1>7 DEF FramingInv, Placed, Current
<1> QED BY <1>8, <1>9, <1>10 DEF FramingInv

\* The payload of a PDU, decoded or discarded.
LEMMA PayloadStep ==
  ASSUME FramingInv, ReadPayload \/ DiscardPayload
  PROVE  FramingInv'
<1>1. /\ phase \in {"payload", "discard"} /\ avail - pos >= length /\ pos' = pos + length
      /\ phase' = "header" /\ UNCHANGED <<sent, starts, avail, end, length, gen>>
  BY DEF ReadPayload, DiscardPayload, Have, Skipped
<1>2. PICK c \in 1 .. Len(sent) : c = Current /\ c = Len(outcomes) + 1
  BY <1>1 DEF FramingInv, Typed, TypeOK, Boundaries, Placed, Current
<1>3. PICK p \in PDUs : p = sent[c]
  BY PositionFacts DEF FramingInv
<1>4. /\ pos = starts[c] + HeaderSize /\ length = p.length /\ Plausible(p.length)
      /\ p.version = (phase = "payload")
  BY <1>1, <1>2, <1>3 DEF FramingInv, Placed
<1>5. outcomes' = Append(outcomes, Deserved(p))
  <2>1. CASE ReadPayload
    <3>1. phase = "payload" /\ p.version = TRUE
      BY <1>4, <2>1 DEF ReadPayload
    <3>2. outcomes' = Append(outcomes, IF Decodes(p) THEN "packet" ELSE "parseError")
      BY <1>2, <1>3, <2>1 DEF ReadPayload
    <3> QED BY <3>1, <3>2, OutcomeFacts
  <2>2. CASE DiscardPayload
    <3>1. phase = "discard" /\ p.version = FALSE
      BY <1>4, <2>2 DEF DiscardPayload
    <3>2. outcomes' = Append(outcomes, "parseError")
      BY <2>2 DEF DiscardPayload
    <3> QED BY <3>1, <3>2, OutcomeFacts
  <2> QED BY <2>1, <2>2
<1>6. /\ pos \in Nat /\ avail \in Nat /\ length \in Nat /\ starts[c] \in Nat /\ HeaderSize \in Nat
      /\ Len(sent) \in Nat /\ c \in Nat
  BY PositionFacts, FramingAssumption DEF FramingInv, Typed, TypeOK
<1>7. pos' = starts[c + 1] /\ pos' \in 0 .. avail
  <2>1. starts[c + 1] = starts[c] + (HeaderSize + p.length)
    BY <1>3, <1>4, PositionFacts, SizeFacts DEF FramingInv
  <2>2. pos' = starts[c] + HeaderSize + p.length /\ p.length \in Nat
    BY <1>1, <1>4, <1>6
  <2>3. pos' = starts[c + 1]
    BY <1>6, <2>1, <2>2
  <2>4. pos' \in 0 .. avail
    BY <1>1, <1>6
  <2> QED BY <2>3, <2>4
<1>8. Deserved(p) \in {"packet", "parseError"}
  BY DEF Deserved
<1>9. /\ outcomes' \in Seq({"packet", "parseError"}) /\ Len(outcomes') = c
      /\ \A i \in DOMAIN outcomes' : \/ i = c /\ outcomes'[i] = Deserved(p)
                                     \/ i \in DOMAIN outcomes /\ outcomes'[i] = outcomes[i]
  <2>1. outcomes \in Seq({"packet", "parseError"})
    BY DEF FramingInv, Typed, TypeOK
  <2>2. /\ outcomes' \in Seq({"packet", "parseError"}) /\ Len(outcomes') = Len(outcomes) + 1
        /\ outcomes'[Len(outcomes) + 1] = Deserved(p)
        /\ \A i \in DOMAIN outcomes' :
             i = Len(outcomes) + 1 \/ (i \in DOMAIN outcomes /\ outcomes'[i] = outcomes[i])
    BY <1>5, <1>8, <2>1, AppendProperties
  <2> QED BY <1>2, <2>2
<1>10. Boundaries'
  BY <1>1 DEF FramingInv, Boundaries
<1>11. Typed'
  BY <1>1, <1>6, <1>7, <1>9 DEF FramingInv, Typed, TypeOK, Total, Start
<1>12. Placed'
  <2>1. Current' = c + 1 /\ Len(outcomes') <= Len(sent)
    BY <1>6, <1>9 DEF Current
  <2> QED BY <1>1, <1>7, <2>1 DEF Placed
<1>13. OutcomesMatch'
  <2> SUFFICES ASSUME NEW i \in DOMAIN outcomes'
               PROVE  /\ i <= Len(sent) /\ outcomes'[i] = Deserved(sent[i])
                      /\ end # "reset" => starts[i + 1] <= avail
    BY <1>1 DEF OutcomesMatch, Start, Deserved
  <2>1. CASE i = c /\ outcomes'[i] = Deserved(p)
    BY <1>3, <1>6, <1>7, <2>1
  <2>2. CASE i \in DOMAIN outcomes /\ outcomes'[i] = outcomes[i]
    BY <2>2 DEF FramingInv, OutcomesMatch, Start
  <2> QED BY <1>9, <2>1, <2>2
<1> QED BY <1>10, <1>11, <1>12, <1>13 DEF FramingInv

\* Another PDU is sent.
LEMMA SendStep ==
  ASSUME FramingInv, MasterSend
  PROVE  FramingInv'
<1>1. PICK p \in PDUs : sent' = Append(sent, p) /\ starts' = Append(starts, Total + Size(p))
  BY DEF MasterSend
<1>2. /\ end = "open" /\ phase # "exited" /\ Len(sent) < MaxPDUs
      /\ UNCHANGED <<avail, end, pos, phase, length, outcomes, gen>>
  BY DEF MasterSend
<1>3. /\ sent \in Seq(PDUs) /\ starts \in Seq(Nat) /\ Len(starts) = Len(sent) + 1
      /\ Len(sent) \in Nat /\ Total \in Nat /\ Total = starts[Len(starts)]
      /\ Size(p) \in Nat /\ Size(p) > 0
  BY SizeFacts DEF FramingInv, Boundaries, Total, Start
<1>4. PICK e \in Nat : e = Total + Size(p) /\ e > Total
  BY <1>3
<1>5. /\ sent' \in Seq(PDUs) /\ Len(sent') = Len(sent) + 1 /\ sent'[Len(sent) + 1] = p
      /\ \A i \in DOMAIN sent : i \in DOMAIN sent' /\ sent'[i] = sent[i]
      /\ \A i \in DOMAIN sent' : i = Len(sent) + 1 \/ i \in DOMAIN sent
  BY <1>1, <1>3, AppendProperties
<1>6. /\ starts' \in Seq(Nat) /\ Len(starts') = Len(starts) + 1 /\ starts'[Len(starts) + 1] = e
      /\ \A i \in DOMAIN starts : i \in DOMAIN starts' /\ starts'[i] = starts[i]
      /\ \A i \in DOMAIN starts' : i = Len(starts) + 1 \/ i \in DOMAIN starts
  BY <1>1, <1>3, <1>4, AppendProperties
<1>7. \A i \in DOMAIN starts : /\ i \in Nat /\ i < Len(starts) + 1 /\ starts[i] \in Nat
                               /\ i = Len(starts) \/ i < Len(starts)
  BY <1>3
<1>8. \A i \in DOMAIN starts : starts[i] <= Total
  BY <1>3, <1>7, SMTT(20) DEF FramingInv, Boundaries
<1>9. Boundaries'
  <2>1. starts'[1] = 0
    <3>1. 1 \in DOMAIN starts /\ starts[1] = 0
      BY <1>3 DEF FramingInv, Boundaries
    <3> QED BY <1>6, <3>1
  <2>2. \A i \in DOMAIN sent' : starts'[i + 1] = starts'[i] + Size(sent'[i])
    <3>1. \A i \in DOMAIN sent : i \in DOMAIN starts /\ i + 1 \in DOMAIN starts
      BY <1>3
    <3>2. \A i \in DOMAIN sent : starts'[i + 1] = starts'[i] + Size(sent'[i])
      BY <1>5, <1>6, <3>1 DEF FramingInv, Boundaries
    <3>3. starts'[Len(sent) + 1] = Total
      <4>1. Len(sent) + 1 \in DOMAIN starts /\ starts[Len(sent) + 1] = Total
        BY <1>3
      <4> QED BY <1>6, <4>1
    <3> QED BY <1>3, <1>4, <1>5, <1>6, <3>2, <3>3
  <2>3. \A i, j \in DOMAIN starts' : i < j => starts'[i] < starts'[j]
    <3> SUFFICES ASSUME NEW i \in DOMAIN starts', NEW j \in DOMAIN starts', i < j
                 PROVE  starts'[i] < starts'[j]
      OBVIOUS
    <3>1. CASE j = Len(starts) + 1
      <4>1. i \in DOMAIN starts
        BY <1>3, <1>6, <3>1
      <4>2. starts'[i] = starts[i] /\ starts[i] \in Nat /\ starts[i] <= Total
        BY <1>6, <1>7, <1>8, <4>1
      <4>3. starts'[j] = e
        BY <1>6, <3>1
      <4> QED BY <1>3, <1>4, <4>2, <4>3
    <3>2. CASE j \in DOMAIN starts
      <4>1. i \in DOMAIN starts
        BY <1>3, <1>6, <1>7, <3>2
      <4> QED BY <1>6, <3>2, <4>1 DEF FramingInv, Boundaries
    <3> QED BY <1>6, <3>1, <3>2
  <2> QED BY <1>3, <1>5, <1>6, <2>1, <2>2, <2>3 DEF Boundaries
<1>10. Typed'
  <2>1. Total' = e
    BY <1>3, <1>5, <1>6 DEF Total, Start
  <2>2. avail' \in 0 .. Total'
    BY <1>2, <1>3, <1>4, <2>1 DEF FramingInv, Typed, TypeOK
  <2>3. Len(sent') <= MaxPDUs
    BY <1>2, <1>3, <1>5, FramingAssumption
  <2> QED BY <1>2, <1>5, <2>2, <2>3 DEF FramingInv, Typed, TypeOK
<1>11. /\ outcomes \in Seq({"packet", "parseError"}) /\ Len(outcomes) \in Nat
       /\ Len(outcomes) <= Len(sent)
  BY DEF FramingInv, Typed, TypeOK, Placed
<1>12. Placed'
  <2>1. Current' = Current /\ starts'[Current] = starts[Current]
    <3>1. Current \in DOMAIN starts
      BY <1>3, <1>11 DEF Current
    <3>2. Current' = Current
      BY <1>2 DEF Current
    <3> QED BY <1>6, <3>1, <3>2
  <2>2. Len(outcomes) < Len(sent) => sent'[Current] = sent[Current]
    BY <1>3, <1>5, <1>11 DEF Current
  <2>3. Len(outcomes') <= Len(sent') /\ (Len(outcomes) < Len(sent) => Len(outcomes') < Len(sent'))
    BY <1>2, <1>3, <1>5, <1>11
  <2> QED BY <1>2, <2>1, <2>2, <2>3 DEF FramingInv, Placed
<1>13. OutcomesMatch'
  <2>1. \A i \in DOMAIN outcomes : /\ i \in DOMAIN sent /\ i + 1 \in DOMAIN starts /\ i \in Nat
                                  /\ i <= Len(sent)
    BY <1>3, <1>11
  <2>2. \A i \in DOMAIN outcomes : i <= Len(sent')
    BY <1>3, <1>5, <2>1
  <2>3. \A i \in DOMAIN outcomes : sent'[i] = sent[i] /\ starts'[i + 1] = starts[i + 1]
    BY <1>5, <1>6, <2>1
  <2> QED BY <1>2, <2>2, <2>3 DEF FramingInv, OutcomesMatch, Start
<1> QED BY <1>9, <1>10, <1>12, <1>13 DEF FramingInv

\* The rest: a failed read, a new connection, bytes that arrive, the end of the
\* stream.
LEMMA StreamStep ==
  ASSUME FramingInv, ReadFails \/ Reconnect \/ Arrive \/ StreamEnds \/ UNCHANGED vars
  PROVE  FramingInv'
<1>0. /\ pos \in Nat /\ avail \in Nat /\ pos <= avail /\ gen \in Nat /\ gen >= 1
      /\ MaxDrops \in Nat /\ gen <= MaxDrops + 1
  BY FramingAssumption DEF FramingInv, Typed, TypeOK
<1>1. CASE ReadFails
  <2>1. /\ end # "open" /\ phase' = IF end = "eof" THEN "reconnect" ELSE "exited"
        /\ UNCHANGED <<sent, starts, avail, end, pos, length, outcomes, gen>>
    BY <1>1 DEF ReadFails
  <2>2. end \in {"eof", "reset"}
    BY <2>1 DEF FramingInv, Typed, TypeOK
  <2>3. Boundaries' /\ OutcomesMatch'
    BY <2>1 DEF FramingInv, Boundaries, OutcomesMatch, Start
  <2>4. Typed'
    BY <2>1, <2>2 DEF FramingInv, Typed, TypeOK, Total, Start
  <2>5. Placed'
    BY <2>1, <2>2 DEF FramingInv, Placed
  <2> QED BY <2>3, <2>4, <2>5 DEF FramingInv
<1>2. CASE Reconnect
  <2>1. /\ sent' = <<>> /\ starts' = <<0>> /\ avail' = 0 /\ end' = "open" /\ pos' = 0
        /\ phase' = "header" /\ length' = 0 /\ outcomes' = <<>> /\ gen' = gen + 1
        /\ gen <= MaxDrops
    BY <1>2 DEF Reconnect, FramingInv, Typed
  <2>2. /\ sent' \in Seq(PDUs) /\ starts' \in Seq(Nat) /\ Len(sent') = 0 /\ DOMAIN sent' = {}
        /\ Len(starts') = 1 /\ starts'[1] = 0 /\ DOMAIN starts' = {1} /\ DOMAIN outcomes' = {}
        /\ outcomes' \in Seq({"packet", "parseError"}) /\ Len(outcomes') = 0
    BY <2>1
  <2>3. Boundaries' /\ OutcomesMatch'
    BY <2>2 DEF Boundaries, OutcomesMatch
  <2>4. Typed'
    BY <1>0, <2>1, <2>2, FramingAssumption DEF Typed, TypeOK, Total, Start
  <2>5. Placed'
    BY <2>1, <2>2 DEF Placed, Current
  <2> QED BY <2>3, <2>4, <2>5 DEF FramingInv
<1>3. CASE Arrive
  <2>1. /\ avail < Total /\ avail' \in avail + 1 .. Total
        /\ UNCHANGED <<sent, starts, end, pos, phase, length, outcomes, gen>>
    BY <1>3 DEF Arrive
  <2>2. Total \in Nat
    BY DEF FramingInv, Boundaries, Total, Start
  <2>3. avail' \in Nat /\ avail <= avail' /\ avail' \in 0 .. Total /\ pos \in 0 .. avail'
    BY <1>0, <2>1, <2>2
  <2>4. Boundaries' /\ Placed'
    BY <2>1 DEF FramingInv, Boundaries, Placed, Current
  <2>5. Typed'
    BY <2>1, <2>3 DEF FramingInv, Typed, TypeOK, Total, Start
  <2>6. OutcomesMatch'
    <3>1. \A i \in DOMAIN outcomes : starts[i + 1] <= avail => starts[i + 1] <= avail'
      <4>1. \A i \in DOMAIN outcomes : starts[i + 1] \in Nat
        BY DEF FramingInv, Typed, TypeOK, Placed, Boundaries
      <4> QED BY <1>0, <2>3, <4>1
    <3> QED BY <2>1, <3>1 DEF FramingInv, OutcomesMatch, Start
  <2> QED BY <2>4, <2>5, <2>6 DEF FramingInv
<1>4. CASE StreamEnds
  <2>1. /\ end = "open" /\ gen <= MaxDrops
        /\ \/ end' = "eof" /\ avail' = avail
           \/ end' = "reset" /\ avail' \in pos .. avail
        /\ UNCHANGED <<sent, starts, pos, phase, length, outcomes, gen>>
    BY <1>4 DEF StreamEnds
  <2>2. Total \in Nat /\ avail <= Total
    BY DEF FramingInv, Boundaries, Typed, TypeOK, Total, Start
  <2>3. avail' \in 0 .. Total /\ pos \in 0 .. avail'
    BY <1>0, <2>1, <2>2
  <2>4. Boundaries'
    BY <2>1 DEF FramingInv, Boundaries
  <2>5. Typed'
    BY <2>1, <2>3 DEF FramingInv, Typed, TypeOK, Total, Start
  <2>6. Placed'
    BY <2>1 DEF FramingInv, Placed, Current
  <2>7. OutcomesMatch'
    BY <2>1 DEF FramingInv, OutcomesMatch, Start
  <2> QED BY <2>4, <2>5, <2>6, <2>7 DEF FramingInv
<1>5. CASE UNCHANGED vars
  BY <1>5 DEF vars, FramingInv, Boundaries, Typed, TypeOK, Placed, OutcomesMatch,
     Current, Start, Total
<1> QED BY <1>1, <1>2, <1>3, <1>4, <1>5

LEMMA FramingStep == FramingInv /\ [Next]_vars => FramingInv'
  BY HeaderStep, PayloadStep, SendStep, StreamStep DEF Next, Read

LEMMA FramingInit == Init => FramingInv
<1> SUFFICES ASSUME Init PROVE FramingInv
  OBVIOUS
<1>1. /\ sent \in Seq(PDUs) /\ starts \in Seq(Nat) /\ Len(sent) = 0 /\ DOMAIN sent = {}
      /\ Len(starts) = 1 /\ starts[1] = 0 /\ DOMAIN starts = {1} /\ DOMAIN outcomes = {}
      /\ outcomes \in Seq({"packet", "parseError"}) /\ Len(outcomes) = 0
  BY DEF Init
<1>2. Boundaries /\ OutcomesMatch
  BY <1>1 DEF Boundaries, OutcomesMatch
<1>3. Typed
  BY <1>1, FramingAssumption DEF Init, Typed, TypeOK, Total, Start
<1>4. Placed
  BY <1>1 DEF Init, Placed, Current
<1> QED BY <1>2, <1>3, <1>4 DEF FramingInv

-----------------------------------------------------------------------------
(* The theorems *)

\* The receiver never reads beyond what has arrived, and never allocates a
\* payload buffer beyond MaxPayloadLength.
THEOREM FramingTypesCorrect == Spec => []TypeOK
<1>1. FramingInv => TypeOK
  BY DEF FramingInv, Typed
<1> QED BY <1>1, FramingInit, FramingStep, PTL DEF Spec

\* A header is read only where a PDU begins, after one outcome for each PDU
\* before it.
THEOREM ReceiverStaysFramed == Spec => []StaysFramed
<1>1. FramingInv => StaysFramed
  BY DEF FramingInv, Placed, StaysFramed, Start
<1> QED BY <1>1, FramingInit, FramingStep, PTL DEF Spec

\* Every PDU gets the outcome it deserves, in the order they were sent.
THEOREM OutcomesAreDeserved == Spec => []OutcomesMatch
<1>1. FramingInv => OutcomesMatch
  BY DEF FramingInv
<1> QED BY <1>1, FramingInit, FramingStep, PTL DEF Spec

\* The receiver gives up only when the stream broke or the next boundary cannot
\* be found.
THEOREM GivesUpForAReason == Spec => []GivesUpOnlyWhenLost
<1>1. FramingInv => GivesUpOnlyWhenLost
  BY DEF FramingInv, Placed, GivesUpOnlyWhenLost
<1> QED BY <1>1, FramingInit, FramingStep, PTL DEF Spec
=============================================================================
