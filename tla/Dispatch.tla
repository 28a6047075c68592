------------------------------ MODULE Dispatch ------------------------------
(***************************************************************************)
(* What happens to a PDU the master agent sends: receiver, dispatcher, the *)
(* bounded queue and the goroutine of each session, and the answer's way   *)
(* back through the one transmitter.  Every goroutine that answers         *)
(* (receiver, dispatcher, sessions) does so over the same unbuffered       *)
(* channel c.tx, and any of them may have to wait for the master agent to  *)
(* read.  A handler may itself make a request (SendTrap) and wait for the  *)
(* response, which has to come through the same receiver and dispatcher.   *)
(*                                                                         *)
(* PDUs are numbered in the order the master agent sends them.             *)
(***************************************************************************)
EXTENDS Integers, Sequences, FiniteSets

CONSTANTS
  Sess,             \* the sessions established at the start
  Unknown,          \* a session id no session has
  Kinds,            \* which kinds of PDU occur
  MaxPDUs,          \* bound: PDUs the master agent sends
  QueueCap,         \* incomingQueueSize: 16 in the code
  WireCap,          \* bound: PDUs a socket buffer holds before Write blocks
  Prompt,           \* the sessions whose handlers always return
  Asking,           \* the sessions whose handlers make requests themselves
  Targets,          \* the session ids the master agent addresses
  MayClose          \* which of "session", "client" users close

ASSUME DispatchAssumption ==
  /\ Unknown \notin Sess /\ Prompt \subseteq Sess /\ Asking \subseteq Sess
  /\ Targets \subseteq Sess \cup {Unknown}
  /\ MayClose \subseteq {"session", "client"}
  /\ Kinds \subseteq {"request", "cleanup", "response", "garbled", "garbledCleanup"}
  /\ MaxPDUs \in Nat /\ QueueCap \in Nat \ {0} /\ WireCap \in Nat \ {0}

VARIABLES
  sent,             \* sent[n]: the n-th PDU, [sid, kind, re]
  toClient,         \* numbers of the PDUs on their way to the client
  rxPc, rx,         \* receiver, the PDU it holds
  dispPc, disp,     \* dispatcher, the PDU it holds
  routed,           \* sessions in c.sessions
  sdone,            \* sessions whose s.done is closed
  incoming,         \* incoming[s]
  runPc, running,   \* Session.run of each session, the PDU it handles
  txPc, tx,         \* transmitter, the answer or own request it holds
  toMaster,         \* what is on its way to the master agent
  answers,          \* what the master agent has read
  done              \* Client.Close: c.done is closed and the connection, too

rxVars   == <<rxPc, rx>>
dispVars == <<dispPc, disp>>
runVars  == <<incoming, runPc, running>>
txVars   == <<txPc, tx>>
wireVars == <<sent, toClient, toMaster, answers>>
vars == <<rxVars, dispVars, routed, sdone, runVars, txVars, wireVars, done>>

NoAnswer == [n |-> 0, err |-> "none"]

Init ==
  /\ sent = <<>> /\ toClient = <<>>
  /\ rxPc = "read" /\ rx = 0
  /\ dispPc = "select" /\ disp = 0
  /\ routed = Sess /\ sdone = {}
  /\ incoming = [s \in Sess |-> <<>>]
  /\ runPc = [s \in Sess |-> "select"] /\ running = [s \in Sess |-> 0]
  /\ txPc = "select" /\ tx = NoAnswer
  /\ toMaster = <<>> /\ answers = <<>>
  /\ done = FALSE

\* The header was read, and it or the payload does not parse.
Garbled(n) == sent[n].kind \in {"garbled", "garbledCleanup"}

\* Mutant of ExpectsResponse: cleanupSet is answered like the others.
ExpectsResponseCleanup(n) == sent[n].kind # "response"

\* expectsResponse, by the type in the header
ExpectsResponse(n) == sent[n].kind \in {"request", "garbled"}

-----------------------------------------------------------------------------
(* send / sendBytes: hand an answer to the transmitter, or give up on c.done.
   A handler's own request is known by the PDU that is being handled. *)

SendBytes(n, err) ==
  \/ /\ txPc = "select"
     /\ tx' = [n |-> n, err |-> err]
     /\ txPc' = "write"
  \/ done /\ UNCHANGED txVars

-----------------------------------------------------------------------------
(* runReceiver *)

\* A PDU that does not parse is the receiver's own business, unless the client
\* is closed by then.
ReceiverRead ==
  /\ rxPc = "read"
  /\ toClient # <<>>
  /\ rx' = Head(toClient)
  /\ toClient' = Tail(toClient)
  /\ rxPc' = IF Garbled(rx') THEN IF done THEN "exited" ELSE "parseError" ELSE "hand"
  /\ UNCHANGED <<dispVars, routed, sdone, runVars, txVars, sent, toMaster, answers, done>>

\* parseErrorResponse is nil for a PDU that expects no response.
ReceiverParseError ==
  /\ rxPc = "parseError"
  /\ IF ExpectsResponse(rx) THEN SendBytes(rx, "parseError") ELSE UNCHANGED txVars
  /\ rxPc' = "read" /\ rx' = 0
  /\ UNCHANGED <<dispVars, routed, sdone, runVars, wireVars, done>>

\* rx <- headerPacket, unbuffered
ReceiverHand ==
  /\ rxPc = "hand"
  /\ dispPc = "select"
  /\ disp' = rx
  /\ dispPc' = "route"
  /\ rxPc' = "read" /\ rx' = 0
  /\ UNCHANGED <<routed, sdone, runVars, txVars, wireVars, done>>

ReceiverExit ==
  /\ done
  /\ rxPc \in {"read", "hand"}
  /\ rxPc' = "exited" /\ rx' = 0
  /\ UNCHANGED <<dispVars, routed, sdone, runVars, txVars, wireVars, done>>

-----------------------------------------------------------------------------
(* runDispatcher and Session.enqueue *)

\* takePending: the handler that waits for this response
Waiting(s, n) == sent[n].kind = "response" /\ sent[n].re # 0 /\ running[s] = sent[n].re /\ runPc[s] = "wait"

\* A response goes to its waiter, or nowhere; it never becomes handler input.  The
\* session is looked up once.
DispatcherRoute ==
  /\ dispPc = "route"
  /\ runPc' = [s \in Sess |-> IF Waiting(s, disp) THEN "asked" ELSE runPc[s]]
  /\ dispPc' = CASE sent[disp].kind = "response" -> "select"
                 [] sent[disp].kind # "response" /\ sent[disp].sid \in routed -> "enqueue"
                 [] OTHER -> IF ExpectsResponse(disp) THEN "notOpen" ELSE "select"
  /\ disp' = IF dispPc' = "select" THEN 0 ELSE disp
  /\ UNCHANGED <<rxVars, routed, sdone, incoming, running, txVars, wireVars, done>>

DispatcherNotOpen ==
  /\ dispPc = "notOpen"
  /\ SendBytes(disp, "notOpen")
  /\ dispPc' = "select" /\ disp' = 0
  /\ UNCHANGED <<rxVars, routed, sdone, runVars, wireVars, done>>

\* Mutant of HasRoom: the queue has no bound.
HasRoomAlways(s) == TRUE

\* Mutant of HasRoom: no queue, the dispatcher waits for the handler.
HasRoomInline(s) == runPc[s] = "select" /\ incoming[s] = <<>>

HasRoom(s) == Len(incoming[s]) < QueueCap

\* Mutant of Enqueued: the newest request is handled first.
EnqueuedInFront(queue, n) == <<n>> \o queue

Enqueued(queue, n) == Append(queue, n)

\* Mutant of Abandoned: a plain send, without the cases for Close.
AbandonedNever(s) == FALSE

Abandoned(s) == s \in sdone \/ done

\* Blocks while the queue is full; the PDU is dropped when the session or the
\* client is closed.
DispatcherEnqueue ==
  /\ dispPc = "enqueue"
  /\ LET s == sent[disp].sid IN
     \/ HasRoom(s) /\ incoming' = [incoming EXCEPT ![s] = Enqueued(@, disp)]
     \/ Abandoned(s) /\ UNCHANGED incoming
  /\ dispPc' = "select" /\ disp' = 0
  /\ UNCHANGED <<rxVars, routed, sdone, runPc, running, txVars, wireVars, done>>

DispatcherExit ==
  /\ done
  /\ dispPc = "select"
  /\ dispPc' = "exited"
  /\ UNCHANGED <<rxVars, disp, routed, sdone, runVars, txVars, wireVars, done>>

-----------------------------------------------------------------------------
(* Session.run *)

RunReceive(s) ==
  /\ runPc[s] = "select"
  /\ incoming[s] # <<>>
  /\ running' = [running EXCEPT ![s] = Head(incoming[s])]
  /\ incoming' = [incoming EXCEPT ![s] = Tail(@)]
  /\ runPc' = [runPc EXCEPT ![s] = "handle"]
  /\ UNCHANGED <<rxVars, dispVars, routed, sdone, txVars, wireVars, done>>

\* The handler calls SendTrap, once per request handled: Client.request hands
\* the PDU to the transmitter, or gives up on c.done, ...
HandlerAsks(s) ==
  /\ s \in Asking
  /\ runPc[s] = "handle"
  /\ runPc' = [runPc EXCEPT ![s] = "ask"]
  /\ UNCHANGED <<rxVars, dispVars, routed, sdone, incoming, running, txVars, wireVars, done>>

AskSend(s) ==
  /\ runPc[s] = "ask"
  /\ SendBytes(running[s], "own")
  /\ runPc' = [runPc EXCEPT ![s] = IF tx' = tx THEN "asked" ELSE "wait"]
  /\ UNCHANGED <<rxVars, dispVars, routed, sdone, incoming, running, wireVars, done>>

\* ... and waits for the response, c.done or the timer, which may fire any time.
AskEnds(s) ==
  /\ runPc[s] = "wait"
  /\ runPc' = [runPc EXCEPT ![s] = "asked"]
  /\ UNCHANGED <<rxVars, dispVars, routed, sdone, incoming, running, txVars, wireVars, done>>

\* Session.handle returned: a response, or nil for cleanupSet
HandlerReturns(s) ==
  /\ runPc[s] \in {"handle", "asked"}
  /\ IF ExpectsResponse(running[s])
       THEN /\ runPc' = [runPc EXCEPT ![s] = "send"]
            /\ UNCHANGED running
       ELSE /\ runPc' = [runPc EXCEPT ![s] = "select"]
            /\ running' = [running EXCEPT ![s] = 0]
  /\ UNCHANGED <<rxVars, dispVars, routed, sdone, incoming, txVars, wireVars, done>>

RunSend(s) ==
  /\ runPc[s] = "send"
  /\ SendBytes(running[s], "handled")
  /\ runPc' = [runPc EXCEPT ![s] = "select"]
  /\ running' = [running EXCEPT ![s] = 0]
  /\ UNCHANGED <<rxVars, dispVars, routed, sdone, incoming, wireVars, done>>

RunExit(s) ==
  /\ runPc[s] = "select"
  /\ s \in sdone \/ done
  /\ runPc' = [runPc EXCEPT ![s] = "exited"]
  /\ UNCHANGED <<rxVars, dispVars, routed, sdone, incoming, running, txVars, wireVars, done>>

-----------------------------------------------------------------------------
(* runTransmitter *)

TransmitterWrite ==
  /\ txPc = "write"
  /\ done \/ Len(toMaster) < WireCap
  /\ toMaster' = IF done THEN toMaster ELSE Append(toMaster, tx)
  /\ txPc' = "select" /\ tx' = NoAnswer
  /\ UNCHANGED <<rxVars, dispVars, routed, sdone, runVars, sent, toClient, answers, done>>

TransmitterExit ==
  /\ done
  /\ txPc = "select"
  /\ txPc' = "exited"
  /\ UNCHANGED <<rxVars, dispVars, routed, sdone, runVars, tx, wireVars, done>>

-----------------------------------------------------------------------------
(* The end of Session.Close, and Client.Close *)

SessionUnregister(s) ==
  /\ "session" \in MayClose
  /\ s \in routed
  /\ routed' = routed \ {s}
  /\ UNCHANGED <<rxVars, dispVars, sdone, runVars, txVars, wireVars, done>>

SessionDone(s) ==
  /\ s \notin routed /\ s \notin sdone
  /\ sdone' = sdone \cup {s}
  /\ UNCHANGED <<rxVars, dispVars, routed, runVars, txVars, wireVars, done>>

ClientClose ==
  /\ "client" \in MayClose
  /\ ~done
  /\ done' = TRUE
  /\ UNCHANGED <<rxVars, dispVars, routed, sdone, runVars, txVars, wireVars>>

-----------------------------------------------------------------------------
(* The master agent: external.  It reads and writes independently. *)

\* The requests of handlers that it has read, and may respond to
OwnRequests == {answers[i].n : i \in {j \in DOMAIN answers : answers[j].err = "own"}}

MasterSend ==
  /\ ~done
  /\ Len(sent) < MaxPDUs
  /\ Len(toClient) < WireCap
  /\ \E sid \in Targets, kind \in Kinds, re \in {0} \cup OwnRequests :
       /\ re # 0 => kind = "response" /\ sid = sent[re].sid
       /\ sent' = Append(sent, [sid |-> sid, kind |-> kind, re |-> re])
  /\ toClient' = Append(toClient, Len(sent'))
  /\ UNCHANGED <<rxVars, dispVars, routed, sdone, runVars, txVars, toMaster, answers, done>>

MasterRead ==
  /\ toMaster # <<>>
  /\ answers' = Append(answers, Head(toMaster))
  /\ toMaster' = Tail(toMaster)
  /\ UNCHANGED <<rxVars, dispVars, routed, sdone, runVars, txVars, sent, toClient, done>>

-----------------------------------------------------------------------------

Receiver == ReceiverRead \/ ReceiverParseError \/ ReceiverHand \/ ReceiverExit
Dispatcher == DispatcherRoute \/ DispatcherNotOpen \/ DispatcherEnqueue \/ DispatcherExit
Run(s) ==
  \/ RunReceive(s) \/ RunSend(s) \/ RunExit(s)
  \/ HandlerAsks(s) \/ AskSend(s) \/ AskEnds(s) \/ HandlerReturns(s)
Transmitter == TransmitterWrite \/ TransmitterExit
Closing == ClientClose \/ \E s \in Sess : SessionUnregister(s) \/ SessionDone(s)

Next ==
  \/ Receiver \/ Dispatcher \/ Transmitter \/ Closing
  \/ \E s \in Sess : Run(s)
  \/ MasterSend \/ MasterRead

Spec == Init /\ [][Next]_vars

\* Goroutines run, and a goroutine waiting to send on c.tx has its turn in the
\* end (Go queues blocked senders); the master agent keeps reading; a handler
\* returns if its session is in Prompt.
FairSpec ==
  /\ Spec
  /\ WF_vars(Receiver) /\ WF_vars(Dispatcher) /\ WF_vars(Transmitter)
  /\ SF_vars(ReceiverParseError) /\ SF_vars(DispatcherNotOpen)
  /\ \A s \in Sess : /\ WF_vars(RunReceive(s) \/ RunSend(s) \/ RunExit(s) \/ AskSend(s) \/ AskEnds(s))
                     /\ SF_vars(RunSend(s) \/ AskSend(s))
  /\ \A s \in Prompt : WF_vars(HandlerReturns(s))
  /\ WF_vars(MasterRead)

-----------------------------------------------------------------------------
(* Properties *)

\* Type invariant of the goroutines and of the queues between them.
TypeOK ==
  /\ Len(sent) <= MaxPDUs
  /\ rx \in 0 .. Len(sent) /\ disp \in 0 .. Len(sent)
  /\ rxPc \in {"read", "parseError", "hand", "exited"}
  /\ dispPc \in {"select", "route", "notOpen", "enqueue", "exited"}
  /\ \A s \in Sess : /\ runPc[s] \in {"select", "handle", "ask", "wait", "asked", "send", "exited"}
                     /\ Len(incoming[s]) <= QueueCap
                     /\ running[s] \in 0 .. Len(sent)
  /\ txPc \in {"select", "write", "exited"}
  /\ Len(toMaster) <= WireCap /\ Len(toClient) <= WireCap
  /\ routed \subseteq Sess /\ sdone \subseteq Sess \ routed

Replies == {i \in DOMAIN answers : answers[i].err # "own"}

\* Whatever answers, answers rightly: a PDU that expects no response (cleanupSet,
\* a response) gets none, garbled ones a parseError, notOpen is said only of ids
\* without a session, and nothing is answered twice (RFC 2741 7.2.2, 7.2.4.4;
\* client.go:511-516, session.go:377-381).
AnswersAreRight ==
  /\ \A i, j \in Replies : answers[i].n = answers[j].n => i = j
  /\ \A i \in Replies :
       LET a == answers[i]
           pdu == sent[a.n] IN
       /\ pdu.kind \in {"request", "garbled"}
       /\ (a.err = "parseError") <=> Garbled(a.n)
       /\ a.err = "notOpen" => pdu.sid \notin routed
       /\ a.err = "handled" => pdu.sid \in Sess

\* The requests of one session are answered in the order they were sent: its
\* goroutine serialises them and the transmitter keeps their order
\* (session.go:77-81).
AnsweredInOrder ==
  \A i, j \in DOMAIN answers :
    (/\ i < j
     /\ answers[i].err = "handled" /\ answers[j].err = "handled"
     /\ sent[answers[i].n].sid = sent[answers[j].n].sid)
    => answers[i].n < answers[j].n

Answered(n) == \E i \in Replies : answers[i].n = n

\* The n-th PDU was sent, and it is for a session whose handler returns.
Due(n) == n <= Len(sent) /\ sent[n].kind \in {"request", "garbled"} /\ sent[n].sid \in Prompt \cup {Unknown}

\* Nobody owes an answer on a closed session or a closed client.
Excused(n) == n <= Len(sent) /\ (done \/ sent[n].sid \in Sess \ routed)

\* The dispatcher waits at the full queue of a handler that never returns.
Flooded ==
  /\ dispPc = "enqueue" /\ sent[disp].sid \in Sess \ Prompt
  /\ Len(incoming[sent[disp].sid]) = QueueCap

\* A request for a session whose handler returns, a PDU that does not parse and one for
\* no session are answered, whatever the other sessions' handlers do, until one that
\* never returns has been sent more than its queue holds (session_internal_test.go:535);
\* and although handlers wait for responses that are stuck behind the dispatcher, which
\* waits for their queue or for the transmitter.
RequestsAnswered ==
  \A n \in 1 .. MaxPDUs : Due(n) ~> (Answered(n) \/ Excused(n) \/ Flooded)

AllExited ==
  /\ rxPc = "exited" /\ dispPc = "exited" /\ txPc = "exited"
  /\ \A s \in Prompt : runPc[s] = "exited"

\* Close ends every goroutine, whatever it is blocked on: a full queue, the
\* transmitter, a full socket or each other; a handler that never returns holds
\* up its own session's goroutine alone.
CloseEndsEverything == done ~> AllExited
=============================================================================
