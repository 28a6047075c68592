--------------------------- MODULE DispatchProofs ---------------------------
(***************************************************************************)
(* Proofs about Dispatch, for any number of sessions, any kinds of PDU,    *)
(* any lengths of the queues and of the sockets' buffers, and whoever      *)
(* closes what and when.                                                   *)
(***************************************************************************)
EXTENDS Dispatch, SequenceTheorems, TLAPS

-----------------------------------------------------------------------------
(* Types, and what the program counters say of the PDUs held *)

PDUs    == [sid : Sess \cup {Unknown}, kind : Kinds, re : Nat]
Answers == [n : Nat, err : {"none", "own", "handled", "parseError", "notOpen"}]
RunPcs  == {"select", "handle", "ask", "wait", "asked", "send", "exited"}

Sent == 1 .. Len(sent)

Typed ==
  /\ sent \in Seq(PDUs) /\ toClient \in Seq(Nat) /\ toMaster \in Seq(Answers)
  /\ answers \in Seq(Answers) /\ tx \in Answers
  /\ rx \in Nat /\ disp \in Nat
  /\ incoming \in [Sess -> Seq(Nat)] /\ running \in [Sess -> Nat]
  /\ runPc \in [Sess -> RunPcs]

\* Every number in a queue or a variable is that of a PDU that was sent.
Numbered ==
  /\ \A i \in DOMAIN toClient : toClient[i] \in Sent
  /\ \A s \in Sess : \A i \in DOMAIN incoming[s] : incoming[s][i] \in Sent

PcInv ==
  /\ rxPc = "hand" => rx # 0 /\ ~Garbled(rx)
  /\ rxPc = "parseError" => rx # 0 /\ Garbled(rx)
  /\ dispPc \in {"route", "notOpen", "enqueue"} => disp # 0 /\ ~Garbled(disp)
  /\ dispPc = "enqueue" => sent[disp].sid \in Sess /\ sent[disp].kind # "response"
  /\ dispPc = "notOpen" => sent[disp].kind = "request" /\ sent[disp].sid \notin routed
  /\ \A s \in Sess :
       /\ runPc[s] \in {"handle", "ask", "wait", "asked", "send"} => running[s] # 0
       /\ runPc[s] = "send" => ExpectsResponse(running[s])

TypeInv == TypeOK /\ Typed /\ Numbered /\ PcInv

\* A PDU that was sent, and what its kind may be.
LEMMA SentFacts ==
  ASSUME Typed, NEW n \in Sent
  PROVE  /\ n \in Nat \ {0} /\ n <= Len(sent) /\ sent[n] \in PDUs
         /\ sent[n].sid \in Sess \cup {Unknown}
         /\ sent[n].kind \in {"request", "cleanup", "response", "garbled", "garbledCleanup"}
<1>1. n \in Nat \ {0} /\ n <= Len(sent) /\ sent[n] \in PDUs
  BY DEF Typed, Sent
<1> QED BY <1>1, DispatchAssumption DEF PDUs

\* What handing something to the transmitter changes.
LEMMA SendFacts ==
  ASSUME Typed, TypeOK, NEW n \in Nat,
         NEW err \in {"own", "handled", "parseError", "notOpen"}, SendBytes(n, err)
  PROVE  /\ tx' \in Answers /\ txPc' \in {"select", "write", "exited"}
         /\ \/ txPc = "select" /\ txPc' = "write" /\ tx' = [n |-> n, err |-> err]
            \/ UNCHANGED txVars
  BY DEF SendBytes, Answers, txVars, Typed, TypeOK

\* The receiver's steps keep the types.
LEMMA ReceiverTypes ==
  ASSUME TypeInv, Receiver
  PROVE  TypeInv'
<1> USE DEF TypeInv
<1>0. /\ toClient \in Seq(Nat) /\ sent \in Seq(PDUs) /\ Len(sent) \in Nat
      /\ rx \in 0 .. Len(sent) /\ disp \in 0 .. Len(sent)
  BY DEF Typed, TypeOK
<1>1. CASE ReceiverRead
  <2>1. /\ toClient # <<>> /\ rx' = toClient[1] /\ 1 \in DOMAIN toClient
        /\ toClient' = Tail(toClient) /\ toClient' \in Seq(Nat)
        /\ Len(toClient') = Len(toClient) - 1 /\ rxPc = "read"
        /\ rxPc' = IF Garbled(rx') THEN IF done THEN "exited" ELSE "parseError" ELSE "hand"
        /\ \A i \in DOMAIN toClient' : i + 1 \in DOMAIN toClient /\ toClient'[i] = toClient[i + 1]
        /\ UNCHANGED <<dispVars, routed, sdone, runVars, txVars, sent, toMaster, answers, done>>
    BY <1>0, <1>1, HeadTailProperties DEF ReceiverRead
  <2>2. rx' \in Sent /\ rx' # 0 /\ \A i \in DOMAIN toClient' : toClient'[i] \in Sent
    BY <1>0, <2>1 DEF Numbered, Sent
  <2>3. TypeOK'
    BY <1>0, <2>1, <2>2, DispatchAssumption DEF TypeOK, Sent, dispVars, runVars, txVars
  <2>4. Typed' /\ Numbered'
    BY <1>0, <2>1, <2>2 DEF Typed, Numbered, Sent, dispVars, runVars, txVars
  <2>5. PcInv'
    BY <2>1, <2>2 DEF PcInv, Garbled, ExpectsResponse, dispVars, runVars
  <2> QED BY <2>3, <2>4, <2>5
<1>2. CASE ReceiverParseError
  <2>1. /\ tx' \in Answers /\ txPc' \in {"select", "write", "exited"}
        /\ rxPc' = "read" /\ rx' = 0
        /\ UNCHANGED <<dispVars, routed, sdone, runVars, wireVars, done>>
    BY <1>2, SendFacts DEF ReceiverParseError, Typed, TypeOK, txVars
  <2> QED BY <1>0, <2>1 DEF TypeOK, Typed, Numbered, Sent, PcInv, Garbled, ExpectsResponse,
            dispVars, runVars, wireVars
<1>3. CASE ReceiverHand
  BY <1>0, <1>3 DEF ReceiverHand, TypeOK, Typed, Numbered, Sent, PcInv, Garbled,
     ExpectsResponse, runVars, txVars, wireVars
<1>4. CASE ReceiverExit
  BY <1>0, <1>4 DEF ReceiverExit, TypeOK, Typed, Numbered, Sent, PcInv, Garbled,
     ExpectsResponse, dispVars, runVars, txVars, wireVars
<1> QED BY <1>1, <1>2, <1>3, <1>4 DEF Receiver

\* The dispatcher's steps keep the types.
LEMMA DispatcherTypes ==
  ASSUME TypeInv, Dispatcher
  PROVE  TypeInv'
<1> USE DEF TypeInv
<1>0. /\ sent \in Seq(PDUs) /\ Len(sent) \in Nat /\ disp \in 0 .. Len(sent)
      /\ disp # 0 => disp \in Sent
  BY DEF Typed, TypeOK, Sent
<1>1. CASE DispatcherRoute
  <2>1. /\ disp # 0 /\ ~Garbled(disp) /\ disp \in Sent /\ disp' \in {0, disp}
        /\ UNCHANGED <<rxVars, routed, sdone, incoming, running, txVars, wireVars, done>>
    BY <1>0, <1>1 DEF DispatcherRoute, PcInv
  <2>2. sent[disp].kind \in {"request", "cleanup", "response"}
    BY <2>1, SentFacts DEF Garbled
  <2>3. \/ dispPc' = "select"
        \/ /\ dispPc' = "enqueue" /\ sent[disp].kind # "response" /\ sent[disp].sid \in routed
           /\ disp' = disp
        \/ /\ dispPc' = "notOpen" /\ sent[disp].kind = "request" /\ sent[disp].sid \notin routed
           /\ disp' = disp
    BY <1>1, <2>2 DEF DispatcherRoute, ExpectsResponse
  <2>4. \A s \in Sess : runPc'[s] = runPc[s] \/ (runPc[s] = "wait" /\ runPc'[s] = "asked")
    BY <1>1 DEF DispatcherRoute, Waiting
  <2>5. runPc' \in [Sess -> RunPcs]
    BY <1>1 DEF DispatcherRoute, Typed, RunPcs
  <2>6. TypeOK'
    BY <1>0, <2>1, <2>3, <2>5 DEF TypeOK, RunPcs, rxVars, txVars, wireVars
  <2>7. Typed' /\ Numbered'
    BY <1>0, <2>1, <2>5 DEF Typed, Numbered, Sent, rxVars, txVars, wireVars
  <2>8. PcInv'
    BY <2>1, <2>3, <2>4 DEF PcInv, Garbled, ExpectsResponse, TypeOK, rxVars, wireVars
  <2> QED BY <2>6, <2>7, <2>8
<1>2. CASE DispatcherNotOpen
  <2>1. /\ tx' \in Answers /\ txPc' \in {"select", "write", "exited"}
        /\ dispPc' = "select" /\ disp' = 0
        /\ UNCHANGED <<rxVars, routed, sdone, runVars, wireVars, done>>
    BY <1>2, SendFacts DEF DispatcherNotOpen, Typed, TypeOK
  <2> QED BY <1>0, <2>1 DEF TypeOK, Typed, Numbered, Sent, PcInv, Garbled, ExpectsResponse,
            rxVars, runVars, wireVars
<1>3. CASE DispatcherEnqueue
  <2>1. /\ disp \in Sent /\ sent[disp].sid \in Sess /\ dispPc' = "select" /\ disp' = 0
        /\ UNCHANGED <<rxVars, routed, sdone, runPc, running, txVars, wireVars, done>>
    BY <1>0, <1>3 DEF DispatcherEnqueue, PcInv
  <2>2. PICK s \in Sess : s = sent[disp].sid
    BY <2>1
  <2>3. PICK q \in Seq(Nat) : q = incoming[s]
    BY DEF Typed
  <2>4. PICK w : w = Append(q, disp)
    OBVIOUS
  <2>5. \/ Len(q) < QueueCap /\ incoming' = [incoming EXCEPT ![s] = w]
        \/ UNCHANGED incoming
    BY <1>3, <2>2, <2>3, <2>4 DEF DispatcherEnqueue, HasRoom, Enqueued
  <2>6. /\ w \in Seq(Nat) /\ Len(w) = Len(q) + 1 /\ Len(q) \in Nat
        /\ \A i \in DOMAIN w : w[i] = disp \/ (i \in DOMAIN q /\ w[i] = q[i])
    <3>1. disp \in Nat
      BY DEF Typed
    <3>2. /\ Append(q, disp) \in Seq(Nat) /\ Len(Append(q, disp)) = Len(q) + 1 /\ Len(q) \in Nat
          /\ Append(q, disp)[Len(q) + 1] = disp
          /\ \A i \in DOMAIN Append(q, disp) :
               i = Len(q) + 1 \/ (i \in DOMAIN q /\ Append(q, disp)[i] = q[i])
      BY <3>1, AppendProperties
    <3> QED BY <2>4, <3>2
  <2>7. /\ incoming' \in [Sess -> Seq(Nat)]
        /\ \A r \in Sess : Len(incoming'[r]) <= QueueCap
        /\ \A r \in Sess : \A i \in DOMAIN incoming'[r] : incoming'[r][i] \in Sent
    <3>1. /\ incoming \in [Sess -> Seq(Nat)] /\ QueueCap \in Nat
          /\ \A r \in Sess : Len(incoming[r]) <= QueueCap
          /\ \A r \in Sess : \A i \in DOMAIN incoming[r] : incoming[r][i] \in Sent
      BY DispatchAssumption DEF Typed, TypeOK, Numbered
    <3>2. CASE UNCHANGED incoming
      BY <3>1, <3>2
    <3>3. CASE Len(q) < QueueCap /\ incoming' = [incoming EXCEPT ![s] = w]
      <4>1. incoming'[s] = w /\ \A r \in Sess \ {s} : incoming'[r] = incoming[r]
        BY <3>1, <3>3
      <4>2. Len(w) <= QueueCap /\ \A i \in DOMAIN w : w[i] \in Sent
        <5>1. Len(w) <= QueueCap
          BY <2>6, <3>1, <3>3
        <5>2. \A i \in DOMAIN q : q[i] \in Sent
          BY <2>3, <3>1
        <5> QED BY <2>1, <2>6, <5>1, <5>2
      <4>3. incoming' \in [Sess -> Seq(Nat)]
        BY <2>6, <3>1, <3>3
      <4> QED BY <3>1, <4>1, <4>2, <4>3
    <3> QED BY <2>5, <3>2, <3>3
  <2>8. TypeOK'
    BY <2>1, <2>7 DEF TypeOK, rxVars, txVars, wireVars
  <2>9. Typed' /\ Numbered'
    BY <2>1, <2>7 DEF Typed, Numbered, Sent, rxVars, txVars, wireVars
  <2>10. PcInv'
    BY <2>1 DEF PcInv, Garbled, ExpectsResponse, rxVars, wireVars
  <2> QED BY <2>8, <2>9, <2>10
<1>4. CASE DispatcherExit
  BY <1>0, <1>4 DEF DispatcherExit, TypeOK, Typed, Numbered, Sent, PcInv, Garbled,
     ExpectsResponse, rxVars, runVars, txVars, wireVars
<1> QED BY <1>1, <1>2, <1>3, <1>4 DEF Dispatcher

\* The steps of a session's goroutine and its handler keep the types.
LEMMA RunTypes ==
  ASSUME TypeInv, NEW s \in Sess, Run(s)
  PROVE  TypeInv'
<1> USE DEF TypeInv
<1>0. /\ sent \in Seq(PDUs) /\ Len(sent) \in Nat /\ running \in [Sess -> Nat]
      /\ \A r \in Sess : running[r] \in 0 .. Len(sent)
      /\ runPc \in [Sess -> RunPcs] /\ incoming \in [Sess -> Seq(Nat)]
  BY DEF Typed, TypeOK
<1>1. ASSUME /\ UNCHANGED <<rxVars, dispVars, routed, sdone, wireVars>>
             /\ tx' \in Answers /\ txPc' \in {"select", "write", "exited"}
             /\ incoming' \in [Sess -> Seq(Nat)]
             /\ \A r \in Sess : /\ Len(incoming'[r]) <= QueueCap
                                /\ \A i \in DOMAIN incoming'[r] : incoming'[r][i] \in Sent,
             NEW pc \in RunPcs, runPc' = [runPc EXCEPT ![s] = pc],
             NEW n \in {0} \cup Sent, running' = [running EXCEPT ![s] = n],
             pc \in {"handle", "ask", "wait", "asked", "send"} => n # 0,
             pc = "send" => ExpectsResponse(n)
      PROVE  TypeInv'
  <2>1. /\ runPc' \in [Sess -> RunPcs] /\ running' \in [Sess -> Nat]
        /\ \A r \in Sess : running'[r] \in 0 .. Len(sent)
    BY <1>0, <1>1 DEF Sent
  <2>2. TypeOK'
    BY <1>0, <1>1, <2>1 DEF TypeOK, RunPcs, rxVars, dispVars, wireVars
  <2>3. Typed' /\ Numbered'
    BY <1>0, <1>1, <2>1 DEF Typed, Numbered, Sent, rxVars, dispVars, wireVars
  <2>4. \A r \in Sess \ {s} : runPc'[r] = runPc[r] /\ running'[r] = running[r]
    BY <1>0, <1>1
  <2>5. runPc'[s] = pc /\ running'[s] = n
    BY <1>0, <1>1
  <2>6. PcInv'
    BY <1>1, <2>4, <2>5 DEF PcInv, Garbled, ExpectsResponse, rxVars, dispVars, wireVars
  <2> QED BY <2>2, <2>3, <2>6
<1>2. /\ running[s] \in {0} \cup Sent /\ running = [running EXCEPT ![s] = running[s]]
      /\ \A r \in Sess : /\ Len(incoming[r]) <= QueueCap
                         /\ \A i \in DOMAIN incoming[r] : incoming[r][i] \in Sent
      /\ tx \in Answers /\ txPc \in {"select", "write", "exited"}
  BY <1>0 DEF Sent, TypeOK, Typed, Numbered
<1>3. CASE RunReceive(s)
  <2>1. PICK q \in Seq(Nat) : q = incoming[s] /\ q # <<>>
    BY <1>0, <1>3 DEF RunReceive
  <2>2. PICK t, n : t = Tail(q) /\ n = Head(q)
    OBVIOUS
  <2>3. /\ t \in Seq(Nat) /\ Len(t) = Len(q) - 1 /\ n = q[1] /\ 1 \in DOMAIN q /\ Len(q) \in Nat
        /\ \A i \in DOMAIN t : i + 1 \in DOMAIN q /\ t[i] = q[i + 1]
    BY <2>1, <2>2, HeadTailProperties
  <2>4. n \in Sent /\ n # 0
    BY <1>0, <1>2, <2>1, <2>3 DEF Sent
  <2>5. incoming' = [incoming EXCEPT ![s] = t] /\ running' = [running EXCEPT ![s] = n]
        /\ runPc' = [runPc EXCEPT ![s] = "handle"]
        /\ UNCHANGED <<rxVars, dispVars, routed, sdone, txVars, wireVars, done>>
    BY <1>3, <2>1, <2>2 DEF RunReceive
  <2>6. /\ incoming' \in [Sess -> Seq(Nat)]
        /\ \A r \in Sess : /\ Len(incoming'[r]) <= QueueCap
                           /\ \A i \in DOMAIN incoming'[r] : incoming'[r][i] \in Sent
    BY <1>0, <1>2, <2>1, <2>3, <2>5, DispatchAssumption
  <2>7. "handle" \in RunPcs /\ UNCHANGED <<tx, txPc>>
    BY <2>5 DEF RunPcs, txVars
  <2> QED BY <1>1, <1>2, <2>4, <2>5, <2>6, <2>7
<1>4. CASE HandlerAsks(s) \/ AskEnds(s) \/ RunExit(s)
  <2>1. /\ UNCHANGED <<rxVars, dispVars, routed, sdone, incoming, running, txVars, wireVars, done>>
        /\ \/ runPc' = [runPc EXCEPT ![s] = "exited"]
           \/ /\ runPc[s] \in {"handle", "wait"}
              /\ \E pc \in {"ask", "asked"} : runPc' = [runPc EXCEPT ![s] = pc]
    BY <1>4 DEF HandlerAsks, AskEnds, RunExit
  <2>2. {"exited", "ask", "asked"} \subseteq RunPcs /\ UNCHANGED <<tx, txPc>>
    BY <2>1 DEF RunPcs, txVars
  <2>3. runPc[s] \in {"handle", "wait"} => running[s] # 0
    BY DEF PcInv
  <2> QED BY <1>0, <1>1, <1>2, <2>1, <2>2, <2>3
<1>5. CASE AskSend(s)
  <2>1. running[s] \in Nat /\ running[s] # 0
    BY <1>0, <1>5 DEF AskSend, PcInv
  <2>2. /\ tx' \in Answers /\ txPc' \in {"select", "write", "exited"}
        /\ UNCHANGED <<rxVars, dispVars, routed, sdone, incoming, running, wireVars, done>>
        /\ \E pc \in {"asked", "wait"} : runPc' = [runPc EXCEPT ![s] = pc]
    BY <1>5, <2>1, SendFacts DEF AskSend
  <2>3. {"asked", "wait"} \subseteq RunPcs
    BY DEF RunPcs
  <2> QED BY <1>0, <1>1, <1>2, <2>1, <2>2, <2>3
<1>6. CASE HandlerReturns(s)
  <2>1. running[s] # 0
    BY <1>6 DEF HandlerReturns, PcInv
  <2>2. UNCHANGED <<rxVars, dispVars, routed, sdone, incoming, txVars, wireVars, done>>
    BY <1>6 DEF HandlerReturns
  <2>3. {"send", "select"} \subseteq RunPcs /\ UNCHANGED <<tx, txPc>>
    BY <2>2 DEF RunPcs, txVars
  <2>4. CASE ExpectsResponse(running[s])
    BY <1>0, <1>1, <1>2, <1>6, <2>1, <2>2, <2>3, <2>4 DEF HandlerReturns
  <2>5. CASE ~ExpectsResponse(running[s])
    BY <1>0, <1>1, <1>2, <1>6, <2>1, <2>2, <2>3, <2>5 DEF HandlerReturns
  <2> QED BY <2>4, <2>5
<1>7. CASE RunSend(s)
  <2>1. running[s] \in Nat
    BY <1>0
  <2>2. /\ tx' \in Answers /\ txPc' \in {"select", "write", "exited"}
        /\ UNCHANGED <<rxVars, dispVars, routed, sdone, incoming, wireVars, done>>
        /\ runPc' = [runPc EXCEPT ![s] = "select"] /\ running' = [running EXCEPT ![s] = 0]
    BY <1>7, <2>1, SendFacts DEF RunSend
  <2>3. "select" \in RunPcs
    BY DEF RunPcs
  <2> QED BY <1>0, <1>1, <1>2, <2>2, <2>3
<1> QED BY <1>3, <1>4, <1>5, <1>6, <1>7 DEF Run

\* All other steps keep the types.
LEMMA OtherTypes ==
  ASSUME TypeInv, Transmitter \/ Closing \/ MasterRead \/ UNCHANGED vars
  PROVE  TypeInv'
<1> USE DEF TypeInv
<1>0. /\ sent \in Seq(PDUs) /\ toMaster \in Seq(Answers) /\ answers \in Seq(Answers)
      /\ tx \in Answers
  BY DEF Typed
<1>1. CASE UNCHANGED <<rxVars, dispVars, runVars, sent, toClient, routed, sdone>> /\
           tx' \in Answers /\ txPc' \in {"select", "write", "exited"} /\
           toMaster' \in Seq(Answers) /\ Len(toMaster') <= WireCap /\ answers' \in Seq(Answers)
  BY <1>1 DEF TypeOK, Typed, Numbered, Sent, PcInv, Garbled, ExpectsResponse, rxVars, dispVars,
     runVars
<1>2. CASE Transmitter
  <2>1. NoAnswer \in Answers
    BY DEF NoAnswer, Answers
  <2>2. Append(toMaster, tx) \in Seq(Answers) /\ Len(Append(toMaster, tx)) = Len(toMaster) + 1
        /\ Len(toMaster) \in Nat
    BY <1>0, AppendProperties
  <2>3. tx' \in Answers /\ txPc' \in {"select", "exited"}
        /\ UNCHANGED <<rxVars, dispVars, runVars, sent, toClient, routed, sdone, answers>>
    BY <1>0, <1>2, <2>1 DEF Transmitter, TransmitterWrite, TransmitterExit, wireVars, txVars
  <2>4. toMaster' = toMaster \/ (toMaster' = Append(toMaster, tx) /\ Len(toMaster) < WireCap)
    BY <1>2 DEF Transmitter, TransmitterWrite, TransmitterExit, wireVars
  <2>5. toMaster' \in Seq(Answers) /\ Len(toMaster') <= WireCap
    <3>1. Len(toMaster) <= WireCap /\ WireCap \in Nat
      BY DispatchAssumption DEF TypeOK
    <3>2. PICK w : w = Append(toMaster, tx)
      OBVIOUS
    <3>3. w \in Seq(Answers) /\ Len(w) = Len(toMaster) + 1 /\ Len(toMaster) \in Nat
      BY <2>2, <3>2
    <3>4. CASE toMaster' = toMaster
      BY <1>0, <3>1, <3>4
    <3>5. CASE toMaster' = w /\ Len(toMaster) < WireCap
      BY <3>1, <3>3, <3>5
    <3> QED BY <2>4, <3>2, <3>4, <3>5
  <2> QED BY <1>0, <1>1, <2>3, <2>5
<1>3. CASE MasterRead
  <2>1. /\ Head(toMaster) \in Answers /\ Tail(toMaster) \in Seq(Answers)
        /\ Len(Tail(toMaster)) = Len(toMaster) - 1 /\ Len(toMaster) \in Nat
    BY <1>0, <1>3, HeadTailProperties DEF MasterRead
  <2>2. Append(answers, Head(toMaster)) \in Seq(Answers)
    BY <1>0, <2>1, AppendProperties
  <2>3. Len(Tail(toMaster)) <= WireCap
    BY <2>1, DispatchAssumption DEF TypeOK
  <2> QED BY <1>0, <1>1, <1>3, <2>1, <2>2, <2>3 DEF MasterRead, txVars, TypeOK
<1>4. CASE Closing
  <2>1. UNCHANGED <<rxVars, dispVars, runVars, txVars, wireVars>>
    BY <1>4 DEF Closing, ClientClose, SessionUnregister, SessionDone
  <2>2. routed' \subseteq routed /\ routed' \subseteq Sess /\ sdone' \subseteq Sess \ routed'
    BY <1>4 DEF Closing, ClientClose, SessionUnregister, SessionDone, TypeOK
  <2> QED BY <2>1, <2>2 DEF TypeOK, Typed, Numbered, Sent, PcInv, Garbled, ExpectsResponse,
            rxVars, dispVars, runVars, txVars, wireVars
<1>5. CASE UNCHANGED vars
  BY <1>0, <1>1, <1>5 DEF vars, wireVars, txVars, TypeOK
<1> QED BY <1>2, <1>3, <1>4, <1>5

\* A PDU from the master agent keeps the types.
LEMMA MasterSendTypes ==
  ASSUME TypeInv, MasterSend
  PROVE  TypeInv'
<1> USE DEF TypeInv
<1>0. /\ sent \in Seq(PDUs) /\ Len(sent) \in Nat /\ toClient \in Seq(Nat)
      /\ Len(toClient) \in Nat
  BY DEF Typed
<1>1. PICK pdu \in PDUs : sent' = Append(sent, pdu)
  <2>1. PICK sid \in Targets, kind \in Kinds, re \in {0} \cup OwnRequests :
          sent' = Append(sent, [sid |-> sid, kind |-> kind, re |-> re])
    BY DEF MasterSend
  <2>2. OwnRequests \subseteq Nat
    <3>1. \A i \in DOMAIN answers : answers[i] \in Answers
      BY DEF Typed
    <3> QED BY <3>1 DEF OwnRequests, Answers
  <2>3. [sid |-> sid, kind |-> kind, re |-> re] \in PDUs
    BY <2>1, <2>2, DispatchAssumption DEF PDUs
  <2> QED BY <2>1, <2>3
<1>2. /\ sent' \in Seq(PDUs) /\ Len(sent') = Len(sent) + 1
      /\ \A n \in Sent : sent'[n] = sent[n]
  BY <1>0, <1>1, AppendProperties DEF Sent
<1>3. /\ Len(sent) < MaxPDUs /\ Len(toClient) < WireCap /\ toClient' = Append(toClient, Len(sent'))
      /\ UNCHANGED <<rxVars, dispVars, routed, sdone, runVars, txVars, toMaster, answers, done>>
  BY DEF MasterSend
<1>4. /\ toClient' \in Seq(Nat) /\ Len(toClient') = Len(toClient) + 1
      /\ \A i \in DOMAIN toClient' :
           \/ toClient'[i] = Len(sent')
           \/ i \in DOMAIN toClient /\ toClient'[i] = toClient[i]
  BY <1>0, <1>2, <1>3, AppendProperties
<1>5. Sent' = Sent \cup {Len(sent')}
  BY <1>0, <1>2 DEF Sent
<1>6. TypeOK'
  BY <1>0, <1>2, <1>3, <1>4, DispatchAssumption DEF TypeOK, rxVars, dispVars, runVars, txVars
<1>7. Typed' /\ Numbered'
  BY <1>0, <1>2, <1>3, <1>4, <1>5 DEF Typed, Numbered, rxVars, dispVars, runVars, txVars
<1>8. /\ rx # 0 => sent'[rx] = sent[rx]
      /\ disp # 0 => sent'[disp] = sent[disp]
      /\ \A s \in Sess : running[s] # 0 => sent'[running[s]] = sent[running[s]]
  BY <1>0, <1>2 DEF TypeOK, Sent
<1>9. PcInv'
  BY <1>3, <1>8 DEF PcInv, Garbled, ExpectsResponse, rxVars, dispVars, runVars
<1> QED BY <1>6, <1>7, <1>9

\* The initial state.
LEMMA TypeInit == Init => TypeInv
<1> SUFFICES ASSUME Init PROVE TypeInv
  OBVIOUS
<1>1. NoAnswer \in Answers
  BY DEF NoAnswer, Answers
<1>2. Len(sent) = 0 /\ Len(toClient) = 0 /\ Len(toMaster) = 0 /\ DOMAIN toClient = {}
  BY DEF Init
<1>3. \A s \in Sess : incoming[s] = <<>> /\ Len(incoming[s]) = 0 /\ DOMAIN incoming[s] = {}
  BY DEF Init
<1>4. TypeOK
  BY <1>2, <1>3, DispatchAssumption DEF Init, TypeOK
<1>5. Typed
  BY <1>1, <1>3 DEF Init, Typed, RunPcs
<1>6. Numbered /\ PcInv
  BY <1>2, <1>3 DEF Init, Numbered, PcInv
<1> QED BY <1>4, <1>5, <1>6 DEF TypeInv

LEMMA TypeStep == TypeInv /\ [Next]_vars => TypeInv'
  BY ReceiverTypes, DispatcherTypes, RunTypes, OtherTypes, MasterSendTypes DEF Next

\* Every goroutine is at one of its steps, every queue and socket keeps to its
\* capacity, and a closed session is no longer in c.sessions.
THEOREM DispatchTypesCorrect == Spec => []TypeOK
<1>1. TypeInv => TypeOK
  BY DEF TypeInv
<1> QED BY <1>1, TypeInit, TypeStep, PTL DEF Spec

-----------------------------------------------------------------------------
(* Where the PDUs are *)

\* Not yet read by the receiver, or in its hands
Ahead(n) == n # 0 /\ (n = rx \/ \E i \in DOMAIN toClient : toClient[i] = n)

\* Queued for session s, or being handled
Held(s, n) == n # 0 /\ (n = running[s] \/ \E i \in DOMAIN incoming[s] : incoming[s][i] = n)

\* The dispatcher is through with n.
Passed(n) == (\A m \in Sent : Ahead(m) => n < m) /\ (disp # 0 => n < disp)

\* Everything that was given to the transmitter and not lost, in that order
Out == answers \o toMaster \o (IF txPc = "write" THEN <<tx>> ELSE <<>>)

IsOut(a) == \E i \in DOMAIN Out : Out[i] = a

\* The PDUs arrive in the order of their numbers and reach the dispatcher so.
WireOrder ==
  /\ \A i, j \in DOMAIN toClient : i < j => toClient[i] < toClient[j]
  /\ rx # 0 => \A i \in DOMAIN toClient : rx < toClient[i]
  /\ disp # 0 => \A m \in Sent : Ahead(m) => disp < m

\* ... and so does each session get its own.
QueueOrder ==
  \A s \in Sess :
    /\ \A i, j \in DOMAIN incoming[s] : i < j => incoming[s][i] < incoming[s][j]
    /\ running[s] # 0 => \A i \in DOMAIN incoming[s] : running[s] < incoming[s][i]

\* A session gets what is addressed to it and parses and is not a response.
HeldInv ==
  \A s \in Sess, n \in Sent : Held(s, n) =>
    /\ sent[n].sid = s /\ sent[n].kind \in {"request", "cleanup"}
    /\ Passed(n)

\* An answer is right, and its PDU is not in anybody's hands any more.
AnswerOK(a) ==
  /\ a.n \in Sent /\ a.err # "none"
  /\ a.err = "handled" =>
       /\ sent[a.n].kind = "request" /\ sent[a.n].sid \in Sess /\ Passed(a.n)
       /\ \A s \in Sess, m \in Sent : s = sent[a.n].sid /\ Held(s, m) => a.n < m
  /\ a.err = "notOpen" =>
       /\ sent[a.n].kind = "request" /\ sent[a.n].sid \notin routed /\ Passed(a.n)
       /\ \A s \in Sess : ~Held(s, a.n)
  /\ a.err = "parseError" =>
       /\ sent[a.n].kind = "garbled"
       /\ \A m \in Sent : Ahead(m) => a.n < m

OutInv == \A a \in Answers : IsOut(a) => AnswerOK(a)

\* Nothing is answered twice, and one session's answers are in order.
OutOrder ==
  \A i, j \in DOMAIN Out : i < j /\ Out[i].err # "own" /\ Out[j].err # "own" =>
    /\ Out[i].n # Out[j].n
    /\ Out[i].err = "handled" /\ Out[j].err = "handled"
         /\ sent[Out[i].n].sid = sent[Out[j].n].sid => Out[i].n < Out[j].n

FlowInv == WireOrder /\ QueueOrder /\ HeldInv /\ OutInv /\ OutOrder

-----------------------------------------------------------------------------
(* What a step does to the way of the PDUs *)

\* The few steps that change each part of the state.
LEMMA Frames ==
  ASSUME [Next]_vars
  PROVE  /\ sent' = sent \/ MasterSend
         /\ \/ UNCHANGED <<rx, toClient>> \/ (rx' = 0 /\ UNCHANGED toClient)
            \/ ReceiverRead \/ MasterSend
         /\ disp' = disp \/ disp' = 0 \/ (disp' = rx /\ rx' = 0 /\ UNCHANGED <<sent, toClient>>)
         /\ \/ UNCHANGED <<incoming, running>> \/ DispatcherEnqueue
            \/ \E s \in Sess : RunReceive(s)
            \/ UNCHANGED incoming /\ \E s \in Sess : running' = [running EXCEPT ![s] = 0]
         /\ routed' \subseteq routed
<1>1. CASE Receiver
  BY <1>1 DEF Receiver, ReceiverParseError, ReceiverHand, ReceiverExit, ReceiverRead, dispVars,
     runVars, wireVars
<1>2. CASE Dispatcher
  BY <1>2 DEF Dispatcher, DispatcherRoute, DispatcherNotOpen, DispatcherEnqueue, DispatcherExit,
     rxVars, runVars, wireVars
<1>3. CASE Transmitter \/ Closing \/ MasterRead
  BY <1>3 DEF Transmitter, TransmitterWrite, TransmitterExit, Closing, ClientClose,
     SessionUnregister, SessionDone, MasterRead, rxVars, dispVars, runVars, wireVars
<1>4. ASSUME NEW s \in Sess, Run(s)
      PROVE  /\ UNCHANGED <<rxVars, dispVars, routed, wireVars>>
             /\ \/ UNCHANGED <<incoming, running>> \/ RunReceive(s)
                \/ UNCHANGED incoming /\ running' = [running EXCEPT ![s] = 0]
  BY <1>4 DEF Run, RunReceive, RunSend, RunExit, HandlerAsks, AskSend, AskEnds, HandlerReturns
<1>5. CASE \E s \in Sess : Run(s)
  BY <1>4, <1>5 DEF rxVars, dispVars, wireVars
<1>6. CASE MasterSend
  BY <1>6 DEF MasterSend, rxVars, dispVars, runVars
<1>7. CASE UNCHANGED vars
  BY <1>7 DEF vars, rxVars, dispVars, runVars, wireVars
<1> QED BY <1>1, <1>2, <1>3, <1>5, <1>6, <1>7 DEF Next

\* PDUs only move on: from the wire to the receiver, to the dispatcher, to the
\* session they are addressed to, and away.
LEMMA FlowFacts ==
  ASSUME TypeInv, [Next]_vars
  PROVE  /\ Sent \subseteq Sent' /\ \A n \in Sent : sent'[n] = sent[n]
         /\ \A m \in Sent' : m \in Sent \/ m > Len(sent)
         /\ \A m \in Sent : Ahead(m)' => Ahead(m)
         /\ disp' # 0 => disp' = disp \/ (disp' \in Sent /\ Ahead(disp'))
         /\ \A s \in Sess, m \in Nat \ {0} : Held(s, m)' =>
              \/ Held(s, m)
              \/ m = disp /\ dispPc = "enqueue" /\ s = sent[disp].sid /\ disp' = 0
         /\ routed' \subseteq routed
<1> USE DEF TypeInv
<1>0. /\ sent \in Seq(PDUs) /\ Len(sent) \in Nat /\ toClient \in Seq(Nat)
      /\ incoming \in [Sess -> Seq(Nat)] /\ running \in [Sess -> Nat]
      /\ rx \in 0 .. Len(sent)
      /\ rx # 0 => rx \in Sent
  BY DEF Typed, TypeOK, Sent
<1>1. ASSUME MasterSend
      PROVE  /\ Sent \subseteq Sent' /\ \A n \in Sent : sent'[n] = sent[n]
             /\ \A m \in Sent' : m \in Sent \/ m > Len(sent)
             /\ rx' = rx /\ \A i \in DOMAIN toClient' :
                  \/ i \in DOMAIN toClient /\ toClient'[i] = toClient[i]
                  \/ toClient'[i] = Len(sent) + 1
  <2>1. PICK pdu : sent' = Append(sent, pdu) /\ toClient' = Append(toClient, Len(sent')) /\ rx' = rx
    BY <1>1 DEF MasterSend, rxVars
  <2>2. sent' \in Seq(PDUs)
    BY <1>1, MasterSendTypes DEF Typed
  <2>3. Len(sent') = Len(sent) + 1 /\ \A n \in Sent : sent'[n] = sent[n]
    BY <1>0, <2>1, <2>2 DEF Sent
  <2>4. \A i \in DOMAIN toClient' :
          \/ i \in DOMAIN toClient /\ toClient'[i] = toClient[i]
          \/ toClient'[i] = Len(sent) + 1
    BY <1>0, <2>1, <2>3, AppendProperties
  <2> QED BY <1>0, <2>1, <2>3, <2>4 DEF Sent
<1>2. /\ Sent \subseteq Sent' /\ \A n \in Sent : sent'[n] = sent[n]
      /\ \A m \in Sent' : m \in Sent \/ m > Len(sent)
  BY <1>1, Frames DEF Sent
<1>3. ASSUME NEW m \in Sent, Ahead(m)' PROVE Ahead(m)
  <2>0. m # Len(sent) + 1 /\ m # 0
    BY <1>0 DEF Sent
  <2>1. CASE UNCHANGED <<rx, toClient>> \/ (rx' = 0 /\ UNCHANGED toClient)
    BY <1>3, <2>1 DEF Ahead
  <2>2. CASE MasterSend
    BY <1>1, <1>3, <2>0, <2>2 DEF Ahead
  <2>3. CASE ReceiverRead
    <3>1. /\ rx' = toClient[1] /\ 1 \in DOMAIN toClient
          /\ \A i \in DOMAIN toClient' : i + 1 \in DOMAIN toClient /\ toClient'[i] = toClient[i + 1]
      BY <1>0, <2>3, HeadTailProperties DEF ReceiverRead
    <3> QED BY <1>3, <3>1 DEF Ahead
  <2> QED BY <2>1, <2>2, <2>3, Frames
<1>4. disp' # 0 => disp' = disp \/ (disp' \in Sent /\ Ahead(disp'))
  <2>1. rx # 0 => rx \in Sent /\ Ahead(rx)
    BY <1>0 DEF Ahead
  <2>2. disp' = disp \/ disp' = 0 \/ disp' = rx
    BY Frames
  <2> QED BY <2>1, <2>2
<1>5. ASSUME NEW s \in Sess, NEW m \in Nat \ {0}, Held(s, m)'
      PROVE  Held(s, m) \/ (m = disp /\ dispPc = "enqueue" /\ s = sent[disp].sid /\ disp' = 0)
  <2>1. CASE UNCHANGED <<incoming, running>>
    BY <1>5, <2>1 DEF Held
  <2>2. CASE UNCHANGED incoming /\ \E r \in Sess : running' = [running EXCEPT ![r] = 0]
    <3>1. running'[s] = running[s] \/ running'[s] = 0
      BY <1>0, <2>2
    <3> QED BY <1>5, <2>2, <3>1 DEF Held
  <2>3. ASSUME NEW r \in Sess, RunReceive(r) PROVE Held(s, m)
    <3>1. /\ incoming[r] \in Seq(Nat) /\ incoming[r] # <<>>
          /\ running' = [running EXCEPT ![r] = Head(incoming[r])]
          /\ incoming' = [incoming EXCEPT ![r] = Tail(incoming[r])]
      BY <1>0, <2>3 DEF RunReceive
    <3>2. CASE s # r
      BY <1>0, <1>5, <3>1, <3>2 DEF Held
    <3>3. CASE s = r
      <4>1. PICK q \in Seq(Nat) : q = incoming[s] /\ q # <<>>
        BY <3>1, <3>3
      <4>2. running'[s] = Head(q) /\ incoming'[s] = Tail(q)
        BY <1>0, <3>1, <3>3, <4>1
      <4>3. Head(q) = q[1] /\ 1 \in DOMAIN q
            /\ \A i \in DOMAIN Tail(q) : i + 1 \in DOMAIN q /\ Tail(q)[i] = q[i + 1]
        BY <4>1, HeadTailProperties
      <4> QED BY <1>5, <4>1, <4>2, <4>3 DEF Held
    <3> QED BY <3>2, <3>3
  <2>4. CASE DispatcherEnqueue
    <3>1. /\ dispPc = "enqueue" /\ disp' = 0 /\ running' = running /\ sent[disp].sid \in Sess
          /\ \/ UNCHANGED incoming
             \/ incoming' = [incoming EXCEPT ![sent[disp].sid] = Append(@, disp)]
      BY <2>4 DEF DispatcherEnqueue, Enqueued, PcInv
    <3>2. CASE s # sent[disp].sid \/ UNCHANGED incoming
      BY <1>0, <1>5, <3>1, <3>2 DEF Held
    <3>3. CASE s = sent[disp].sid /\ incoming' = [incoming EXCEPT ![s] = Append(@, disp)]
      <4>1. PICK q \in Seq(Nat) : q = incoming[s]
        BY <1>0
      <4>2. incoming'[s] = Append(q, disp)
        BY <1>0, <3>3, <4>1
      <4>3. \A i \in DOMAIN Append(q, disp) :
              Append(q, disp)[i] = disp \/ (i \in DOMAIN q /\ Append(q, disp)[i] = q[i])
        BY <4>1, AppendProperties DEF Typed
      <4> QED BY <1>5, <3>1, <3>3, <4>1, <4>2, <4>3 DEF Held
    <3> QED BY <3>1, <3>2, <3>3
  <2> QED BY <2>1, <2>2, <2>3, <2>4, Frames
<1> QED BY <1>2, <1>3, <1>4, <1>5, Frames

\* What a session holds was sent.
LEMMA HeldSent ==
  ASSUME TypeInv, NEW s \in Sess, NEW n, Held(s, n)
  PROVE  n \in Sent
<1>1. CASE n = running[s]
  <2>1. running[s] \in 0 .. Len(sent) /\ n # 0
    BY DEF TypeInv, TypeOK, Held
  <2> QED BY <1>1, <2>1 DEF Sent
<1>2. CASE n # running[s]
  BY <1>2 DEF TypeInv, Numbered, Held
<1> QED BY <1>1, <1>2

\* Once the dispatcher is through with a PDU, it stays so.
LEMMA PassedStays ==
  ASSUME TypeInv, [Next]_vars, NEW n \in Sent, Passed(n)
  PROVE  Passed(n)'
<1>1. n \in Nat /\ n <= Len(sent) /\ Len(sent) \in Nat
  BY DEF Sent, TypeInv, Typed
<1>2. ASSUME NEW m \in Sent', Ahead(m)' PROVE n < m
  <2>1. CASE m \in Sent
    BY <1>2, <2>1, FlowFacts DEF Passed
  <2>2. CASE m > Len(sent)
    BY <1>1, <2>2 DEF Sent
  <2> QED BY <2>1, <2>2, FlowFacts
<1>3. disp' # 0 => n < disp'
  BY FlowFacts DEF Passed
<1> QED BY <1>2, <1>3 DEF Passed

\* A right answer stays right.
LEMMA AnswerStays ==
  ASSUME TypeInv, [Next]_vars, NEW a \in Answers, AnswerOK(a)
  PROVE  AnswerOK(a)'
<1>0. /\ a.n \in Sent /\ a.n \in Sent' /\ sent'[a.n] = sent[a.n] /\ a.err # "none"
      /\ a.n \in Nat /\ a.n <= Len(sent) /\ Len(sent) \in Nat
  BY FlowFacts DEF AnswerOK, Sent, TypeInv, Typed
<1>1. ASSUME a.err = "handled"
      PROVE  /\ sent'[a.n].kind = "request" /\ sent'[a.n].sid \in Sess /\ Passed(a.n)'
             /\ \A s \in Sess, m \in Sent' : s = sent'[a.n].sid /\ Held(s, m)' => a.n < m
  <2>1. Passed(a.n) /\ sent[a.n].kind = "request" /\ sent[a.n].sid \in Sess
    BY <1>1 DEF AnswerOK
  <2>2. Passed(a.n)'
    BY <1>0, <2>1, PassedStays
  <2>3. ASSUME NEW s \in Sess, NEW m \in Sent', s = sent[a.n].sid, Held(s, m)'
        PROVE  a.n < m
    <3>0. m \in Nat \ {0}
      BY DEF Sent
    <3>1. CASE Held(s, m)
      BY <1>1, <2>3, <3>1, HeldSent DEF AnswerOK
    <3>2. CASE m = disp
      BY <2>1, <3>0, <3>2 DEF Passed
    <3> QED BY <2>3, <3>0, <3>1, <3>2, FlowFacts
  <2> QED BY <1>0, <2>1, <2>2, <2>3
<1>2. ASSUME a.err = "notOpen"
      PROVE  /\ sent'[a.n].kind = "request" /\ sent'[a.n].sid \notin routed' /\ Passed(a.n)'
             /\ \A s \in Sess : ~Held(s, a.n)'
  <2>1. Passed(a.n) /\ sent[a.n].kind = "request" /\ sent[a.n].sid \notin routed
    BY <1>2 DEF AnswerOK
  <2>2. Passed(a.n)'
    BY <1>0, <2>1, PassedStays
  <2>3. ASSUME NEW s \in Sess, Held(s, a.n)' PROVE FALSE
    <3>1. a.n # 0 /\ ~Held(s, a.n)
      BY <1>0, <1>2 DEF AnswerOK, Sent
    <3>2. a.n # disp
      BY <1>0, <2>1, <3>1 DEF Passed
    <3> QED BY <1>0, <2>3, <3>1, <3>2, FlowFacts
  <2> QED BY <1>0, <2>1, <2>2, <2>3, FlowFacts
<1>3. ASSUME a.err = "parseError"
      PROVE  /\ sent'[a.n].kind = "garbled"
             /\ \A m \in Sent' : Ahead(m)' => a.n < m
  <2>1. sent[a.n].kind = "garbled" /\ \A m \in Sent : Ahead(m) => a.n < m
    BY <1>3 DEF AnswerOK
  <2>2. ASSUME NEW m \in Sent', Ahead(m)' PROVE a.n < m
    <3>1. CASE m \in Sent
      BY <2>1, <2>2, <3>1, FlowFacts
    <3>2. CASE m > Len(sent)
      BY <1>0, <3>2 DEF Sent
    <3> QED BY <3>1, <3>2, FlowFacts
  <2> QED BY <1>0, <2>1, <2>2
<1> QED BY <1>0, <1>1, <1>2, <1>3 DEF AnswerOK

\* The order on the way to the dispatcher is kept.
LEMMA WireStep ==
  ASSUME TypeInv, WireOrder, [Next]_vars
  PROVE  WireOrder'
<1>0. /\ sent \in Seq(PDUs) /\ Len(sent) \in Nat /\ toClient \in Seq(Nat)
      /\ rx \in 0 .. Len(sent) /\ disp \in 0 .. Len(sent)
      /\ \A i \in DOMAIN toClient : toClient[i] \in Sent
  BY DEF TypeInv, Typed, TypeOK, Numbered
<1>1. /\ \A i, j \in DOMAIN toClient' : i < j => toClient'[i] < toClient'[j]
      /\ rx' # 0 => \A i \in DOMAIN toClient' : rx' < toClient'[i]
  <2>1. CASE UNCHANGED <<rx, toClient>> \/ (rx' = 0 /\ UNCHANGED toClient)
    BY <2>1 DEF WireOrder
  <2>2. CASE ReceiverRead
    <3>1. /\ rx' = toClient[1] /\ 1 \in DOMAIN toClient
          /\ \A i \in DOMAIN toClient' : /\ i \in Nat \ {0} /\ i + 1 \in DOMAIN toClient
                                         /\ toClient'[i] = toClient[i + 1]
      BY <1>0, <2>2, HeadTailProperties DEF ReceiverRead
    <3>2. \A i, j \in DOMAIN toClient' : i < j => i + 1 < j + 1
      BY <3>1
    <3>3. \A i \in DOMAIN toClient' : 1 < i + 1
      BY <3>1
    <3> QED BY <3>1, <3>2, <3>3 DEF WireOrder
  <2>3. CASE MasterSend
    <3>1. PICK pdu : /\ sent' = Append(sent, pdu)
                     /\ toClient' = Append(toClient, Len(sent')) /\ rx' = rx
      BY <2>3 DEF MasterSend, rxVars
    <3>2. sent' \in Seq(PDUs)
      BY <2>3, MasterSendTypes DEF TypeInv, Typed
    <3>3. Len(sent') = Len(sent) + 1
      BY <1>0, <3>1, <3>2
    <3>4. \A i \in DOMAIN toClient' :
            \/ i = Len(toClient) + 1 /\ toClient'[i] = Len(sent) + 1
            \/ i \in DOMAIN toClient /\ toClient'[i] = toClient[i] /\ i < Len(toClient) + 1
      BY <1>0, <3>1, <3>3, AppendProperties
    <3>5. \A i \in DOMAIN toClient : toClient[i] < Len(sent) + 1 /\ i \in Nat
      BY <1>0 DEF Sent
    <3>6. \A i, j \in DOMAIN toClient' : i < j => toClient'[i] < toClient'[j]
      BY <1>0, <3>4, <3>5 DEF WireOrder
    <3>7. rx' # 0 => \A i \in DOMAIN toClient' : rx' < toClient'[i]
      BY <1>0, <3>1, <3>4 DEF WireOrder
    <3> QED BY <3>6, <3>7
  <2> QED BY <2>1, <2>2, <2>3, Frames
<1>2. ASSUME disp' # 0, NEW m \in Sent', Ahead(m)' PROVE disp' < m
  <2>1. CASE disp' = disp
    <3>1. CASE m \in Sent
      BY <1>2, <2>1, <3>1, FlowFacts DEF WireOrder
    <3>2. CASE m > Len(sent)
      BY <1>0, <2>1, <3>2 DEF Sent
    <3> QED BY <3>1, <3>2, FlowFacts
  <2>2. CASE disp' = rx /\ rx' = 0 /\ UNCHANGED <<sent, toClient>>
    BY <1>2, <2>2 DEF WireOrder, Ahead
  <2> QED BY <1>2, <2>1, <2>2, Frames
<1> QED BY <1>1, <1>2 DEF WireOrder

\* A session holds only what is addressed to it and behind the dispatcher.
LEMMA HeldStep ==
  ASSUME TypeInv, WireOrder, HeldInv, [Next]_vars
  PROVE  HeldInv'
<1>0. /\ Len(sent) \in Nat /\ disp \in 0 .. Len(sent)
      /\ \A m \in Sent' : m \in Sent \/ m > Len(sent)
  BY FlowFacts DEF TypeInv, Typed, TypeOK
<1> SUFFICES ASSUME NEW s \in Sess, NEW n \in Sent', Held(s, n)'
             PROVE  /\ sent'[n].sid = s /\ sent'[n].kind \in {"request", "cleanup"}
                    /\ Passed(n)'
  BY DEF HeldInv
<1>1. n \in Nat \ {0}
  BY DEF Sent
<1>2. CASE Held(s, n)
  <2>1. n \in Sent
    BY <1>2, HeldSent
  <2>2. sent[n].sid = s /\ sent[n].kind \in {"request", "cleanup"} /\ Passed(n)
    BY <1>2, <2>1 DEF HeldInv
  <2> QED BY <2>1, <2>2, PassedStays, FlowFacts
<1>3. CASE n = disp /\ dispPc = "enqueue" /\ s = sent[disp].sid /\ disp' = 0
  <2>1. n \in Sent /\ ~Garbled(n) /\ sent[n].kind # "response"
    BY <1>0, <1>1, <1>3 DEF TypeInv, PcInv, Sent
  <2>2. sent[n].kind \in {"request", "cleanup"}
    BY <2>1, SentFacts DEF Garbled, TypeInv
  <2>3. ASSUME NEW m \in Sent', Ahead(m)' PROVE n < m
    <3>1. CASE m \in Sent
      BY <1>1, <1>3, <2>3, <3>1, FlowFacts DEF WireOrder
    <3>2. CASE m > Len(sent)
      BY <1>0, <1>3, <3>2 DEF Sent
    <3> QED BY <1>0, <3>1, <3>2
  <2>4. Passed(n)'
    BY <1>3, <2>3 DEF Passed
  <2> QED BY <1>3, <2>1, <2>2, <2>4, FlowFacts
<1> QED BY <1>1, <1>2, <1>3, FlowFacts

\* The order of each session's queue is kept.
LEMMA QueueStep ==
  ASSUME TypeInv, HeldInv, QueueOrder, [Next]_vars
  PROVE  QueueOrder'
<1>0. incoming \in [Sess -> Seq(Nat)] /\ running \in [Sess -> Nat]
  BY DEF TypeInv, Typed
<1> SUFFICES ASSUME NEW s \in Sess
             PROVE  /\ \A i, j \in DOMAIN incoming'[s] :
                         i < j => incoming'[s][i] < incoming'[s][j]
                    /\ running'[s] # 0 =>
                         \A i \in DOMAIN incoming'[s] : running'[s] < incoming'[s][i]
  BY DEF QueueOrder
<1>1. PICK q \in Seq(Nat) : q = incoming[s]
  BY <1>0
<1>2. /\ \A i, j \in DOMAIN q : i < j => q[i] < q[j]
      /\ running[s] # 0 => \A i \in DOMAIN q : running[s] < q[i]
  BY <1>1 DEF QueueOrder
<1>3. CASE incoming'[s] = q /\ running'[s] \in {0, running[s]}
  BY <1>2, <1>3
<1>4. ASSUME NEW r \in Sess, RunReceive(r)
      PROVE  \/ incoming'[s] = q /\ running'[s] = running[s]
             \/ q # <<>> /\ running'[s] = Head(q) /\ incoming'[s] = Tail(q)
  <2>1. /\ incoming[r] # <<>>
        /\ running' = [running EXCEPT ![r] = Head(incoming[r])]
        /\ incoming' = [incoming EXCEPT ![r] = Tail(incoming[r])]
    BY <1>0, <1>4 DEF RunReceive
  <2>2. CASE r = s
    BY <1>0, <1>1, <2>1, <2>2
  <2>3. CASE r # s
    BY <1>0, <1>1, <2>1, <2>3
  <2> QED BY <2>2, <2>3
<1>5. CASE q # <<>> /\ running'[s] = Head(q) /\ incoming'[s] = Tail(q)
  <2>1. /\ Head(q) = q[1] /\ 1 \in DOMAIN q
        /\ \A i \in DOMAIN Tail(q) : i \in Nat \ {0} /\ i + 1 \in DOMAIN q /\ Tail(q)[i] = q[i + 1]
    BY <1>5, HeadTailProperties
  <2>2. PICK t : t = Tail(q)
    OBVIOUS
  <2>3. /\ \A i, j \in DOMAIN t : i < j => i + 1 < j + 1
        /\ \A i \in DOMAIN t : 1 < i + 1
    BY <2>1, <2>2
  <2> QED BY <1>2, <1>5, <2>1, <2>2, <2>3
<1>6. ASSUME DispatcherEnqueue
      PROVE  /\ running'[s] = running[s]
             /\ incoming'[s] = q \/ (sent[disp].sid = s /\ incoming'[s] = Append(q, disp))
  <2>1. /\ running' = running /\ sent[disp].sid \in Sess
        /\ \/ UNCHANGED incoming
           \/ incoming' = [incoming EXCEPT ![sent[disp].sid] = Append(@, disp)]
    BY <1>6 DEF DispatcherEnqueue, Enqueued, TypeInv, PcInv
  <2> QED BY <1>0, <1>1, <2>1
<1>7. CASE DispatcherEnqueue /\ running'[s] = running[s] /\ incoming'[s] = Append(q, disp)
  <2>1. disp # 0 /\ disp \in Nat
    BY <1>7 DEF DispatcherEnqueue, TypeInv, Typed, PcInv
  <2>2. ASSUME NEW n, Held(s, n) PROVE n < disp
    BY <2>1, <2>2, HeldSent DEF HeldInv, Passed
  <2>3. \A i \in DOMAIN q : q[i] < disp
    <3>1. \A i \in DOMAIN q : q[i] \in Sent /\ q[i] # 0
      BY <1>1 DEF TypeInv, Numbered, Sent
    <3> QED BY <1>1, <2>2, <3>1 DEF Held
  <2>4. running[s] # 0 => running[s] < disp
    BY <2>2 DEF Held
  <2>5. PICK w : w = Append(q, disp)
    OBVIOUS
  <2>6. Len(q) \in Nat
    OBVIOUS
  <2>7. \A i \in DOMAIN w :
          \/ i = Len(q) + 1 /\ w[i] = disp
          \/ i \in DOMAIN q /\ w[i] = q[i] /\ i \in Nat /\ i < Len(q) + 1
    <3>1. \A i \in DOMAIN w : i = Len(q) + 1 \/ (i \in DOMAIN q /\ w[i] = q[i])
      BY <2>1, <2>5, AppendProperties
    <3>2. w[Len(q) + 1] = disp /\ \A i \in DOMAIN q : i \in Nat /\ i < Len(q) + 1
      BY <2>1, <2>5, AppendProperties
    <3> QED BY <2>6, <3>1, <3>2
  <2>8. \A i, j \in DOMAIN w : i < j => w[i] < w[j]
    BY <1>2, <2>3, <2>6, <2>7
  <2>9. running[s] # 0 => \A i \in DOMAIN w : running[s] < w[i]
    BY <1>2, <2>4, <2>7
  <2> QED BY <1>7, <2>5, <2>8, <2>9
<1>8. CASE UNCHANGED incoming /\ \E r \in Sess : running' = [running EXCEPT ![r] = 0]
  BY <1>0, <1>1, <1>3, <1>8
<1> QED BY <1>1, <1>3, <1>4, <1>5, <1>6, <1>7, <1>8, Frames

-----------------------------------------------------------------------------
(* The answers *)

\* What the transmitter has, in general.
LEMMA OutTypes ==
  ASSUME TypeInv
  PROVE  /\ Out \in Seq(Answers)
         /\ \A i \in DOMAIN answers : i \in DOMAIN Out /\ Out[i] = answers[i]
<1>0. answers \in Seq(Answers) /\ toMaster \in Seq(Answers) /\ tx \in Answers
  BY DEF TypeInv, Typed
<1>1. PICK t \in Seq(Answers) : t = IF txPc = "write" THEN <<tx>> ELSE <<>>
  <2>1. <<tx>> \in Seq(Answers) /\ <<>> \in Seq(Answers)
    BY <1>0
  <2> QED BY <2>1
<1>2. PICK u \in Seq(Answers) : u = answers \o toMaster
  <2>1. answers \o toMaster \in Seq(Answers)
    BY <1>0, ConcatProperties
  <2> QED BY <2>1
<1>3. Out = u \o t
  BY <1>1, <1>2 DEF Out
<1>4. Out \in Seq(Answers)
  BY <1>3
<1>5. \A i \in DOMAIN answers : i \in DOMAIN u /\ u[i] = answers[i]
  BY <1>2 DEF TypeInv, Typed
<1>6. \A i \in DOMAIN u : i \in DOMAIN (u \o t) /\ (u \o t)[i] = u[i]
  OBVIOUS
<1> QED BY <1>3, <1>4, <1>5, <1>6

\* How the steps that hand something to the transmitter, it and the master
\* agent change what is out.
LEMMA OutFacts ==
  ASSUME TypeInv, [Next]_vars
  PROVE  \/ Out' = Out
         \/ Out' \in Seq(Answers) /\ Out = Append(Out', tx)
         \/ Out' = Append(Out, tx') /\ tx' \in Answers /\
            \/ ReceiverParseError /\ ExpectsResponse(rx) /\ tx' = [n |-> rx, err |-> "parseError"]
            \/ DispatcherNotOpen /\ tx' = [n |-> disp, err |-> "notOpen"]
            \/ \E s \in Sess : AskSend(s) /\ tx' = [n |-> running[s], err |-> "own"]
            \/ \E s \in Sess : RunSend(s) /\ tx' = [n |-> running[s], err |-> "handled"]
<1>0. /\ answers \in Seq(Answers) /\ toMaster \in Seq(Answers) /\ tx \in Answers
      /\ rx \in Nat /\ disp \in Nat /\ \A s \in Sess : running[s] \in Nat
      /\ Typed /\ TypeOK
  BY DEF TypeInv, Typed
<1>1. PICK u \in Seq(Answers) : u = answers \o toMaster
  <2>1. answers \o toMaster \in Seq(Answers)
    BY <1>0, ConcatProperties
  <2> QED BY <2>1
<1>2. Out = IF txPc = "write" THEN Append(u, tx) ELSE u
  BY <1>0, <1>1, AppendIsConcat, ConcatEmptySeq DEF Out
<1>3. ASSUME UNCHANGED <<answers, toMaster>>
      PROVE  Out' = IF txPc' = "write" THEN u \o <<tx'>> ELSE u
  BY <1>1, <1>3, ConcatEmptySeq DEF Out
<1>4. ASSUME UNCHANGED <<answers, toMaster, txVars>> PROVE Out' = Out
  BY <1>4 DEF Out, txVars
<1>5. ASSUME NEW n \in Nat, NEW err \in {"own", "handled", "parseError", "notOpen"},
             SendBytes(n, err), UNCHANGED wireVars
      PROVE  \/ Out' = Out
             \/ Out' = Append(Out, tx') /\ tx' \in Answers /\ tx' = [n |-> n, err |-> err]
  <2>1. CASE UNCHANGED txVars
    BY <1>4, <1>5, <2>1 DEF wireVars
  <2>2. CASE txPc = "select" /\ txPc' = "write" /\ tx' = [n |-> n, err |-> err]
    <3>1. tx' \in Answers /\ UNCHANGED <<answers, toMaster>>
      BY <1>0, <1>5, SendFacts DEF wireVars
    <3>2. Out = u /\ Out' = u \o <<tx'>>
      BY <1>2, <1>3, <2>2, <3>1
    <3>3. Append(u, tx') = u \o <<tx'>>
      BY <3>1, AppendIsConcat
    <3> QED BY <2>2, <3>1, <3>2, <3>3
  <2> QED BY <1>0, <1>5, <2>1, <2>2, SendFacts
<1>6. CASE Receiver
  <2>1. CASE ReceiverParseError
    BY <1>0, <1>4, <1>5, <2>1 DEF ReceiverParseError, wireVars
  <2>2. CASE ~ReceiverParseError
    BY <1>4, <1>6, <2>2 DEF Receiver, ReceiverRead, ReceiverHand, ReceiverExit, wireVars
  <2> QED BY <2>1, <2>2
<1>7. CASE Dispatcher
  <2>1. CASE DispatcherNotOpen
    BY <1>0, <1>5, <2>1 DEF DispatcherNotOpen
  <2>2. CASE ~DispatcherNotOpen
    BY <1>4, <1>7, <2>2 DEF Dispatcher, DispatcherRoute, DispatcherEnqueue, DispatcherExit, wireVars
  <2> QED BY <2>1, <2>2
<1>8. ASSUME NEW s \in Sess, Run(s)
      PROVE  \/ Out' = Out
             \/ Out' = Append(Out, tx') /\ tx' \in Answers /\
                \/ AskSend(s) /\ tx' = [n |-> running[s], err |-> "own"]
                \/ RunSend(s) /\ tx' = [n |-> running[s], err |-> "handled"]
  <2>1. CASE AskSend(s)
    BY <1>0, <1>5, <2>1 DEF AskSend
  <2>2. CASE RunSend(s)
    BY <1>0, <1>5, <2>2 DEF RunSend
  <2>3. CASE ~AskSend(s) /\ ~RunSend(s)
    BY <1>4, <1>8, <2>3 DEF Run, RunReceive, RunExit, HandlerAsks, AskEnds, HandlerReturns, wireVars
  <2> QED BY <2>1, <2>2, <2>3
<1>9. CASE TransmitterWrite
  <2>1. Out = Append(u, tx) /\ Append(u, tx) = u \o <<tx>>
    BY <1>0, <1>2, <1>9, AppendIsConcat DEF TransmitterWrite
  <2>2. CASE done
    <3>1. Out' = u
      BY <1>3, <1>9, <2>2 DEF TransmitterWrite
    <3> QED BY <2>1, <3>1
  <2>3. CASE ~done
    <3>1. Out' = answers \o Append(toMaster, tx) \o <<>>
      BY <1>9, <2>3 DEF TransmitterWrite, Out
    <3>2. Append(toMaster, tx) = toMaster \o <<tx>> /\ Append(toMaster, tx) \in Seq(Answers)
          /\ <<tx>> \in Seq(Answers)
      BY <1>0, AppendIsConcat, AppendProperties
    <3>3. answers \o (toMaster \o <<tx>>) = (answers \o toMaster) \o <<tx>>
      BY <1>0, <3>2, ConcatAssociative
    <3>4. Out' = answers \o Append(toMaster, tx)
      BY <1>0, <3>1, <3>2, ConcatEmptySeq, ConcatProperties
    <3> QED BY <1>1, <2>1, <3>2, <3>3, <3>4
  <2> QED BY <2>2, <2>3
<1>10. CASE MasterRead
  <2>1. /\ toMaster # <<>> /\ answers' = Append(answers, Head(toMaster))
        /\ toMaster' = Tail(toMaster) /\ UNCHANGED txVars
    BY <1>10 DEF MasterRead
  <2>2. PICK h \in Answers, t \in Seq(Answers) : h = Head(toMaster) /\ t = Tail(toMaster)
    BY <1>0, <2>1, HeadTailProperties
  <2>3. toMaster = <<h>> \o t
    BY <1>0, <2>1, <2>2
  <2>4. Append(answers, h) = answers \o <<h>> /\ <<h>> \in Seq(Answers)
    BY <1>0, AppendIsConcat
  <2>5. (answers \o <<h>>) \o t = answers \o (<<h>> \o t)
    BY <1>0, <2>4, ConcatAssociative
  <2>6. answers' \o toMaster' = answers \o toMaster
    BY <2>1, <2>2, <2>3, <2>4, <2>5
  <2> QED BY <2>1, <2>6 DEF Out, txVars
<1>11. CASE TransmitterExit
  <2>1. txPc' # "write" /\ txPc # "write" /\ UNCHANGED <<answers, toMaster>>
    BY <1>11 DEF TransmitterExit, wireVars
  <2> QED BY <1>2, <1>3, <2>1
<1>12. CASE Closing \/ MasterSend \/ UNCHANGED vars
  BY <1>4, <1>12 DEF Closing, ClientClose, SessionUnregister, SessionDone, MasterSend, vars,
     wireVars
<1> QED BY <1>6, <1>7, <1>8, <1>9, <1>10, <1>11, <1>12 DEF Next, Transmitter

\* What a new answer has to be: right, the first one to its PDU, and later than
\* what its session has answered before.
Fits(x) ==
  /\ x.n \in Sent /\ AnswerOK(x)'
  /\ \A a \in Answers : AnswerOK(a) /\ a.err # "own" /\ x.err # "own" =>
       /\ a.n # x.n
       /\ a.err = "handled" /\ x.err = "handled" /\ sent[a.n].sid = sent[x.n].sid => a.n < x.n

\* The receiver's answer to a PDU that does not parse.
LEMMA ParseErrorFits ==
  ASSUME TypeInv, FlowInv, ReceiverParseError, ExpectsResponse(rx),
         NEW x \in Answers, x = [n |-> rx, err |-> "parseError"]
  PROVE  Fits(x)
<1>1. /\ rx # 0 /\ Garbled(rx) /\ rx' = 0 /\ UNCHANGED <<sent, toClient>>
      /\ x.n = rx /\ x.err = "parseError" /\ rx \in 0 .. Len(sent) /\ Len(sent) \in Nat
  BY DEF TypeInv, TypeOK, Typed, PcInv, ReceiverParseError, wireVars
<1>2. rx \in Sent /\ sent[rx].kind = "garbled" /\ Ahead(rx)
  BY <1>1 DEF Sent, Garbled, ExpectsResponse, Ahead
<1>3. \A m \in Sent' : Ahead(m)' => rx < m
  BY <1>1 DEF FlowInv, WireOrder, Ahead
<1>4. AnswerOK(x)'
  BY <1>1, <1>2, <1>3 DEF AnswerOK, Sent
<1>5. ASSUME NEW a \in Answers, AnswerOK(a), a.err # "own" PROVE a.n # rx
  <2>1. a.err \in {"handled", "parseError", "notOpen"}
    BY <1>5 DEF Answers, AnswerOK
  <2>2. CASE a.err = "parseError"
    BY <1>2, <1>5, <2>2 DEF AnswerOK, Sent
  <2>3. CASE a.err # "parseError"
    BY <1>2, <1>5, <2>1, <2>3 DEF AnswerOK
  <2> QED BY <2>2, <2>3
<1> QED BY <1>1, <1>2, <1>4, <1>5 DEF Fits

\* The dispatcher's answer for an id without a session.
LEMMA NotOpenFits ==
  ASSUME TypeInv, FlowInv, DispatcherNotOpen, [Next]_vars,
         NEW x \in Answers, x = [n |-> disp, err |-> "notOpen"]
  PROVE  Fits(x)
<1>1. /\ disp # 0 /\ disp' = 0 /\ UNCHANGED <<sent, rx, toClient, incoming, running, routed>>
      /\ x.n = disp /\ x.err = "notOpen" /\ disp \in 0 .. Len(sent) /\ Len(sent) \in Nat
      /\ sent[disp].kind = "request" /\ sent[disp].sid \notin routed
  BY DEF TypeInv, TypeOK, Typed, PcInv, DispatcherNotOpen, wireVars, rxVars, runVars
<1>2. disp \in Sent
  BY <1>1 DEF Sent
<1>3. ASSUME NEW s \in Sess, Held(s, disp) PROVE FALSE
  <2>1. Passed(disp)
    BY <1>2, <1>3 DEF FlowInv, HeldInv
  <2> QED BY <1>1, <2>1 DEF Passed
<1>4. ASSUME NEW n \in Sent, n = disp PROVE Passed(n)' /\ \A s \in Sess : ~Held(s, n)'
  <2>1. Passed(n)'
    BY <1>1, <1>4 DEF FlowInv, WireOrder, Ahead, Passed, Sent
  <2>2. \A s \in Sess : ~Held(s, n)'
    BY <1>1, <1>3, <1>4 DEF Held
  <2> QED BY <2>1, <2>2
<1>5. AnswerOK(x)'
  <2>1. x.n \in Sent /\ Passed(x.n)' /\ \A s \in Sess : ~Held(s, x.n)'
    BY <1>1, <1>2, <1>4
  <2> QED BY <1>1, <2>1 DEF AnswerOK, Sent
<1>6. ASSUME NEW a \in Answers, AnswerOK(a), a.err # "own" PROVE a.n # disp
  <2>1. a.err \in {"handled", "parseError", "notOpen"} /\ a.n \in Sent
    BY <1>6 DEF Answers, AnswerOK
  <2>2. CASE a.err = "parseError"
    BY <1>1, <1>6, <2>2 DEF AnswerOK
  <2>3. CASE a.err # "parseError"
    <3>1. Passed(a.n)
      BY <1>6, <2>1, <2>3 DEF AnswerOK
    <3> QED BY <1>1, <2>1, <3>1 DEF Passed, Sent
  <2> QED BY <2>2, <2>3
<1> QED BY <1>1, <1>2, <1>5, <1>6 DEF Fits

\* A session's answer.
LEMMA HandledFits ==
  ASSUME TypeInv, FlowInv, [Next]_vars, NEW s \in Sess, RunSend(s),
         NEW x \in Answers, x = [n |-> running[s], err |-> "handled"]
  PROVE  Fits(x)
<1>1. /\ runPc[s] = "send" /\ running' = [running EXCEPT ![s] = 0] /\ running \in [Sess -> Nat]
      /\ UNCHANGED <<sent, incoming>> /\ Len(sent) \in Nat
      /\ x.n = running[s] /\ x.err = "handled" /\ running[s] \in 0 .. Len(sent)
      /\ running[s] # 0 /\ ExpectsResponse(running[s])
  BY DEF TypeInv, TypeOK, Typed, PcInv, RunSend, wireVars
<1>2. PICK n \in Sent : n = running[s]
  BY <1>1 DEF Sent
<1>3. Held(s, n)
  BY <1>1, <1>2 DEF Held
<1>4. sent[n].sid = s /\ sent[n].kind = "request" /\ Passed(n)
  BY <1>1, <1>2, <1>3 DEF FlowInv, HeldInv, ExpectsResponse
<1>5. Passed(n)'
  BY <1>4, PassedStays
<1>6. ASSUME NEW m \in Sent, Held(s, m)' PROVE n < m
  <2>1. running'[s] = 0 /\ incoming'[s] = incoming[s]
    BY <1>1
  <2> QED BY <1>1, <1>2, <1>6, <2>1 DEF Held, FlowInv, QueueOrder
<1>7. AnswerOK(x)'
  <2>1. x.n = n
    BY <1>1, <1>2
  <2>2. Passed(x.n)'
    BY <1>5, <2>1
  <2>3. Sent' = Sent
    BY <1>1 DEF Sent
  <2>4. \A r \in Sess, m \in Sent' : r = sent'[n].sid /\ Held(r, m)' => n < m
    BY <1>1, <1>4, <1>6, <2>3
  <2> QED BY <1>1, <1>4, <2>1, <2>2, <2>3, <2>4 DEF AnswerOK
<1>8. ASSUME NEW a \in Answers, AnswerOK(a), a.err # "own"
      PROVE  a.n # n /\ (a.err = "handled" /\ sent[a.n].sid = s => a.n < n)
  <2>1. a.err \in {"handled", "parseError", "notOpen"} /\ a.n \in Sent
    BY <1>8 DEF Answers, AnswerOK
  <2>2. CASE a.err = "parseError"
    BY <1>4, <1>8, <2>2 DEF AnswerOK
  <2>3. CASE a.err = "notOpen"
    BY <1>3, <1>8, <2>3 DEF AnswerOK
  <2>4. CASE a.err = "handled"
    <3>1. sent[a.n].sid = s => a.n < n
      BY <1>3, <1>8, <2>4 DEF AnswerOK
    <3>2. a.n # n
      BY <1>4, <2>1, <3>1 DEF Sent
    <3> QED BY <3>1, <3>2
  <2> QED BY <2>1, <2>2, <2>3, <2>4
<1> QED BY <1>1, <1>2, <1>4, <1>7, <1>8 DEF Fits

\* A handler's own request is not an answer.
LEMMA OwnFits ==
  ASSUME TypeInv, NEW s \in Sess, AskSend(s),
         NEW x \in Answers, x = [n |-> running[s], err |-> "own"]
  PROVE  Fits(x)
<1>1. /\ UNCHANGED sent /\ Len(sent) \in Nat /\ x.n = running[s] /\ x.err = "own"
      /\ running[s] \in 0 .. Len(sent) /\ running[s] # 0
  BY DEF TypeInv, TypeOK, Typed, PcInv, AskSend, wireVars
<1>2. x.n \in Sent /\ AnswerOK(x)'
  BY <1>1 DEF AnswerOK, Sent
<1> QED BY <1>1, <1>2 DEF Fits

\* Every step keeps what is out right and in order.
LEMMA OutStep ==
  ASSUME TypeInv, FlowInv, [Next]_vars
  PROVE  OutInv' /\ OutOrder'
<1>0. Out \in Seq(Answers) /\ TypeInv' /\ Len(Out) \in Nat
  BY OutTypes, TypeStep
<1>1. \A i \in DOMAIN Out : Out[i] \in Answers /\ AnswerOK(Out[i])
  BY <1>0 DEF FlowInv, OutInv, IsOut
<1>2. \A i \in DOMAIN Out : sent'[Out[i].n] = sent[Out[i].n]
  <2>1. \A a \in Answers : AnswerOK(a) => a.n \in Sent
    BY DEF AnswerOK
  <2> QED BY <1>1, <2>1, FlowFacts
<1>3. CASE Out' = Out
  <2>1. OutInv'
    BY <1>3, AnswerStays DEF FlowInv, OutInv, IsOut
  <2>2. OutOrder'
    BY <1>2, <1>3 DEF FlowInv, OutOrder
  <2> QED BY <2>1, <2>2
<1>4. CASE Out' \in Seq(Answers) /\ Out = Append(Out', tx)
  <2>1. \A i \in DOMAIN Out' : i \in DOMAIN Out /\ Out'[i] = Out[i]
    BY <1>4, AppendProperties DEF TypeInv, Typed
  <2>2. OutInv'
    <3>1. \A a \in Answers : IsOut(a)' => IsOut(a)
      BY <2>1 DEF IsOut
    <3> QED BY <3>1, AnswerStays DEF FlowInv, OutInv
  <2>3. OutOrder'
    BY <1>2, <2>1 DEF FlowInv, OutOrder
  <2> QED BY <2>2, <2>3
<1>5. ASSUME NEW x \in Answers, Out' = Append(Out, x), Fits(x) PROVE OutInv' /\ OutOrder'
  <2>1. \A i \in DOMAIN Out' :
          \/ i = Len(Out) + 1 /\ Out'[i] = x
          \/ i \in DOMAIN Out /\ Out'[i] = Out[i] /\ i \in Nat /\ i < Len(Out) + 1
    <3>1. \A i \in DOMAIN Out' : i = Len(Out) + 1 \/ (i \in DOMAIN Out /\ Out'[i] = Out[i])
      BY <1>0, <1>5, AppendProperties
    <3>2. Out'[Len(Out) + 1] = x /\ \A i \in DOMAIN Out : i \in Nat /\ i < Len(Out) + 1
      BY <1>0, <1>5, AppendProperties
    <3> QED BY <1>0, <3>1, <3>2
  <2>2. OutInv'
    <3>1. \A a \in Answers : IsOut(a)' => IsOut(a) \/ a = x
      BY <2>1 DEF IsOut
    <3>2. \A a \in Answers : IsOut(a) => AnswerOK(a)'
      BY AnswerStays DEF FlowInv, OutInv
    <3>3. AnswerOK(x)'
      BY <1>5 DEF Fits
    <3> QED BY <3>1, <3>2, <3>3 DEF OutInv
  <2>3. sent'[x.n] = sent[x.n]
    BY <1>5, FlowFacts DEF Fits
  <2>4. OutOrder'
    <3> SUFFICES ASSUME NEW i \in DOMAIN Out', NEW j \in DOMAIN Out', i < j,
                        Out'[i].err # "own", Out'[j].err # "own"
                 PROVE  /\ Out'[i].n # Out'[j].n
                        /\ Out'[i].err = "handled" /\ Out'[j].err = "handled"
                             /\ sent'[Out'[i].n].sid = sent'[Out'[j].n].sid => Out'[i].n < Out'[j].n
      BY DEF OutOrder
    <3>1. CASE j \in DOMAIN Out /\ Out'[j] = Out[j] /\ j \in Nat /\ j < Len(Out) + 1
      <4>1. i \in DOMAIN Out /\ Out'[i] = Out[i]
        BY <1>0, <2>1, <3>1
      <4> QED BY <1>2, <3>1, <4>1 DEF FlowInv, OutOrder
    <3>2. CASE j = Len(Out) + 1 /\ Out'[j] = x
      <4>1. i \in DOMAIN Out /\ Out'[i] = Out[i]
        BY <1>0, <2>1, <3>2
      <4> QED BY <1>1, <1>2, <1>5, <2>3, <3>2, <4>1 DEF Fits
    <3> QED BY <2>1, <3>1, <3>2
  <2> QED BY <2>2, <2>4
<1> QED BY <1>3, <1>4, <1>5, OutFacts, ParseErrorFits, NotOpenFits, HandledFits, OwnFits

-----------------------------------------------------------------------------
(* The theorems *)

LEMMA FlowInit == Init => FlowInv
<1> SUFFICES ASSUME Init PROVE FlowInv
  OBVIOUS
<1>1. /\ DOMAIN toClient = {} /\ Len(sent) = 0 /\ Sent = {}
      /\ \A s \in Sess : DOMAIN incoming[s] = {} /\ running[s] = 0
  BY DEF Init, Sent
<1>2. Out = <<>>
  BY DEF Init, Out
<1>3. DOMAIN Out = {}
  BY <1>2
<1> QED BY <1>1, <1>3 DEF Init, FlowInv, WireOrder, QueueOrder, HeldInv, OutInv, IsOut, OutOrder

LEMMA FlowStep == TypeInv /\ FlowInv /\ [Next]_vars => TypeInv' /\ FlowInv'
  BY TypeStep, WireStep, QueueStep, HeldStep, OutStep DEF FlowInv

\* Whatever answers, answers rightly: no PDU is answered twice, none that
\* expects no response, garbled ones with parseError and only those, notOpen is
\* said only of ids without a session, and the others are answered by theirs.
THEOREM DispatchAnswersRight == Spec => []AnswersAreRight
<1>1. ASSUME TypeInv, FlowInv PROVE AnswersAreRight
  <2>1. \A i \in DOMAIN answers : i \in DOMAIN Out /\ Out[i] = answers[i] /\ answers[i] \in Answers
    BY <1>1, OutTypes DEF TypeInv, Typed
  <2>2. \A i \in DOMAIN answers : AnswerOK(answers[i])
    BY <1>1, <2>1 DEF FlowInv, OutInv, IsOut
  <2>3. ASSUME NEW i \in Replies, NEW j \in Replies, answers[i].n = answers[j].n PROVE i = j
    <3>1. i \in Int /\ j \in Int
      BY <1>1 DEF Replies, TypeInv, Typed
    <3>2. ~(i < j) /\ ~(j < i)
      BY <1>1, <2>1, <2>3 DEF FlowInv, OutOrder, Replies
    <3> QED BY <3>1, <3>2
  <2>4. ASSUME NEW i \in Replies
        PROVE  /\ sent[answers[i].n].kind \in {"request", "garbled"}
               /\ (answers[i].err = "parseError") <=> Garbled(answers[i].n)
               /\ answers[i].err = "notOpen" => sent[answers[i].n].sid \notin routed
               /\ answers[i].err = "handled" => sent[answers[i].n].sid \in Sess
    <3>1. PICK a \in Answers : a = answers[i] /\ AnswerOK(a) /\ a.err # "own"
      BY <2>1, <2>2 DEF Replies
    <3>2. a.err \in {"handled", "parseError", "notOpen"}
      BY <3>1 DEF Answers, AnswerOK
    <3> QED BY <3>1, <3>2 DEF AnswerOK, Garbled
  <2> QED BY <2>3, <2>4 DEF AnswersAreRight
<1> QED BY <1>1, TypeInit, FlowInit, FlowStep, PTL DEF Spec

\* The requests of one session are answered in the order they were sent, with
\* whatever the receiver, the dispatcher and the other sessions answer between.
THEOREM DispatchAnswersInOrder == Spec => []AnsweredInOrder
<1>1. ASSUME TypeInv, FlowInv PROVE AnsweredInOrder
  <2>1. \A i \in DOMAIN answers : i \in DOMAIN Out /\ Out[i] = answers[i]
    BY <1>1, OutTypes
  <2> QED BY <1>1, <2>1 DEF AnsweredInOrder, FlowInv, OutOrder
<1> QED BY <1>1, TypeInit, FlowInit, FlowStep, PTL DEF Spec
=============================================================================
