-------------------------- MODULE RequestResponse --------------------------
(***************************************************************************)
(* The request path of agentx.Client: the goroutines that execute          *)
(* Client.request, the transmitter, the receiver, the dispatcher,          *)
(* Client.Close, and the master agent at the other end of the connection.  *)
(*                                                                         *)
(* Every element of Calls is one execution of Client.request.  Frames      *)
(* carry, besides the packet id, the call they were made for: the ghost    *)
(* that lets the properties say whose answer a caller was handed.          *)
(***************************************************************************)
EXTENDS Integers, Sequences, FiniteSets

CONSTANTS
  Calls,            \* the executions of Client.request
  NoCall,           \* "no entry" in the pending map
  NoFrame,          \* "nothing held"
  PacketIDSpace,    \* size of the packet id type: 2^32 in the code
  MaxRequests,      \* bound: requests that draw a packet id
  WireCap,          \* bound: frames a socket buffer holds before Write blocks
  MaxDrops          \* bound: connection losses

ASSUME PacketIDSpaceAssumption == PacketIDSpace \in Nat \ {0}
ASSUME BoundsAssumption == MaxRequests \in Nat /\ WireCap \in Nat \ {0} /\ MaxDrops \in Nat
ASSUME NoCallAssumption == NoCall \notin Calls

PacketIDs == 0 .. PacketIDSpace - 1
Frames    == [packetID : PacketIDs, call : Calls]

ASSUME NoFrameAssumption == NoFrame \notin Frames

VARIABLES
  \* the callers
  pc,               \* pc[k]: where call k is inside Client.request
  pid,              \* pid[k]: its local packetID
  respChan,         \* respChan[k]: its responseChan, buffered, capacity 1
  outcome,          \* outcome[k]: how the select in request ended
  answer,           \* answer[k]: the response it returned
  \* shared state of the Client
  nextPacketID,     \* requests counted so far; the code keeps it modulo 2^32
  pending,          \* pending[p]: the call whose channel waits for packet id p
  closePc,          \* where Client.Close is
  conn,             \* state of c.conn
  \* the library's goroutines
  txPc, txFrame,    \* transmitter, and the frame it took off tx
  rxPc, rxFrame,    \* receiver, and the frame it decoded
  dispPc, dispFrame, dispTo,  \* dispatcher, its frame, the channel it took
  \* the connection and the master agent
  toMaster,         \* frames written and not yet read by the master
  inbox,            \* requests the master has read on this connection
  toClient,         \* responses written by the master and not yet read
  answered,         \* the calls the master has ever answered
  drops             \* connection losses so far

callVars   == <<pc, pid, respChan, outcome, answer>>
clientVars == <<nextPacketID, pending>>
txVars     == <<txPc, txFrame>>
rxVars     == <<rxPc, rxFrame>>
dispVars   == <<dispPc, dispFrame, dispTo>>
wireVars   == <<toMaster, inbox, toClient>>
vars == <<callVars, clientVars, closePc, conn, txVars, rxVars, dispVars,
          wireVars, answered, drops>>

\* c.done is closed
done == closePc # "open"

Init ==
  /\ pc       = [k \in Calls |-> "idle"]
  /\ pid      = [k \in Calls |-> 0]
  /\ respChan = [k \in Calls |-> NoFrame]
  /\ outcome  = [k \in Calls |-> "none"]
  /\ answer   = [k \in Calls |-> NoFrame]
  /\ nextPacketID = 0
  /\ pending  = [p \in PacketIDs |-> NoCall]
  /\ closePc = "open"
  /\ conn = "up"
  /\ txPc = "select"   /\ txFrame = NoFrame
  /\ rxPc = "read"     /\ rxFrame = NoFrame
  /\ dispPc = "select" /\ dispFrame = NoFrame /\ dispTo = NoCall
  /\ toMaster = <<>> /\ inbox = {} /\ toClient = <<>>
  /\ answered = {}
  /\ drops = 0

-----------------------------------------------------------------------------
(* Client.request, on the caller's goroutine *)

\* The id of a request, with mutants: the counter unwrapped, an id never set
UnwrappedPacketID == nextPacketID + 1
UnsetPacketID == 0
NewPacketID == nextPacketID % PacketIDSpace

\* packetID := c.nextPacketID.Add(1) - 1
DrawPacketID(k) ==
  /\ pc[k] = "idle"
  /\ nextPacketID < MaxRequests
  /\ pid' = [pid EXCEPT ![k] = NewPacketID]
  /\ nextPacketID' = nextPacketID + 1
  /\ pc' = [pc EXCEPT ![k] = "encode"]
  /\ UNCHANGED <<respChan, outcome, answer, pending, closePc, conn, txVars, rxVars,
                 dispVars, wireVars, answered, drops>>

\* hp.MarshalBinary failed: the id is spent, nothing was added to pending.
EncodeError(k) ==
  /\ pc[k] = "encode"
  /\ outcome' = [outcome EXCEPT ![k] = "encodeError"]
  /\ pc' = [pc EXCEPT ![k] = "returned"]
  /\ UNCHANGED <<pid, respChan, answer, clientVars, closePc, conn, txVars, rxVars,
                 dispVars, wireVars, answered, drops>>

AddPending(k) ==
  /\ pc[k] = "encode"
  /\ pending' = [pending EXCEPT ![pid[k]] = k]
  /\ pc' = [pc EXCEPT ![k] = "send"]
  /\ UNCHANGED <<pid, respChan, outcome, answer, nextPacketID, closePc, conn, txVars,
                 rxVars, dispVars, wireVars, answered, drops>>

\* c.tx is unbuffered: the send completes when the transmitter receives.
SendBytes(k) ==
  /\ pc[k] = "send"
  /\ txPc = "select"
  /\ txFrame' = [packetID |-> pid[k], call |-> k]
  /\ txPc' = "write"
  /\ pc' = [pc EXCEPT ![k] = "wait"]
  /\ UNCHANGED <<pid, respChan, outcome, answer, clientVars, closePc, conn, rxVars,
                 dispVars, wireVars, answered, drops>>

\* The select leaves with an outcome; the deferred takePending is still to run.
Leave(k, o, f) ==
  /\ outcome' = [outcome EXCEPT ![k] = o]
  /\ answer'  = [answer EXCEPT ![k] = f]
  /\ pc' = [pc EXCEPT ![k] = "unwind"]
  /\ UNCHANGED <<pid, clientVars, closePc, conn, txVars, rxVars, dispVars, wireVars,
                 answered, drops>>

\* <-c.done, in sendBytes and in the final select
ClientClosed(k) ==
  /\ pc[k] \in {"send", "wait"}
  /\ done
  /\ Leave(k, "closed", NoFrame)
  /\ UNCHANGED respChan

ReceiveResponse(k) ==
  /\ pc[k] = "wait"
  /\ respChan[k] # NoFrame
  /\ Leave(k, "response", respChan[k])
  /\ respChan' = [respChan EXCEPT ![k] = NoFrame]

\* The timer runs from the end of sendBytes on; in a mutant only Close ends the wait
TimerStopped(k) == pc[k] = "wait" /\ done
TimerRuns(k) == pc[k] = "wait"

\* It may fire at any moment.
RequestTimeout(k) ==
  /\ TimerRuns(k)
  /\ Leave(k, "timeout", NoFrame)
  /\ UNCHANGED respChan

\* The map takePending leaves, with mutants: the entry kept, the whole map reset
takePendingKeeps(p) == pending
takePendingAll(p) == [q \in PacketIDs |-> NoCall]
takePending(p) == [pending EXCEPT ![p] = NoCall]

\* defer c.takePending(packetID): deletes whatever entry the id has by now.
DeferredTakePending(k) ==
  /\ pc[k] = "unwind"
  /\ pending' = takePending(pid[k])
  /\ pc' = [pc EXCEPT ![k] = "returned"]
  /\ UNCHANGED <<pid, respChan, outcome, answer, nextPacketID, closePc, conn, txVars,
                 rxVars, dispVars, wireVars, answered, drops>>

-----------------------------------------------------------------------------
(* runTransmitter *)

\* Write blocks while the socket buffer is full.
TransmitterWrite ==
  /\ txPc = "write"
  /\ conn = "up"
  /\ Len(toMaster) < WireCap
  /\ toMaster' = Append(toMaster, txFrame)
  /\ txFrame' = NoFrame
  /\ txPc' = "select"
  /\ UNCHANGED <<callVars, clientVars, closePc, conn, rxVars, dispVars, inbox,
                 toClient, answered, drops>>

\* The connection is gone, or currentConn() was read just before setConn
\* replaced it: the error is reported and the frame is lost.
TransmitterWriteError ==
  /\ txPc = "write"
  /\ conn # "up" \/ drops > 0
  /\ txFrame' = NoFrame
  /\ txPc' = "select"
  /\ UNCHANGED <<callVars, clientVars, closePc, conn, rxVars, dispVars, wireVars,
                 answered, drops>>

TransmitterExit ==
  /\ txPc = "select"
  /\ done
  /\ txPc' = "exited"
  /\ UNCHANGED <<callVars, clientVars, closePc, conn, txFrame, rxVars, dispVars,
                 wireVars, answered, drops>>

-----------------------------------------------------------------------------
(* runReceiver and reconnect *)

\* readHeaderPacket returned a response
ReceiverRead ==
  /\ rxPc = "read"
  /\ toClient # <<>>
  /\ rxFrame' = Head(toClient)
  /\ toClient' = Tail(toClient)
  /\ rxPc' = "hand"
  /\ UNCHANGED <<callVars, clientVars, closePc, conn, txVars, dispVars, toMaster,
                 inbox, answered, drops>>

\* rx <- headerPacket, unbuffered: received by the dispatcher's select
ReceiverHand ==
  /\ rxPc = "hand"
  /\ dispPc = "select"
  /\ dispFrame' = rxFrame
  /\ dispPc' = "match"
  /\ rxFrame' = NoFrame
  /\ rxPc' = "read"
  /\ UNCHANGED <<callVars, clientVars, closePc, conn, txVars, dispTo, wireVars,
                 answered, drops>>

\* EOF on a client that is not closed
ReceiverLostConnection ==
  /\ rxPc = "read"
  /\ conn = "lost"
  /\ toClient = <<>>
  /\ ~done
  /\ rxPc' = "backoff"
  /\ UNCHANGED <<callVars, clientVars, closePc, conn, txVars, rxFrame, dispVars,
                 wireVars, answered, drops>>

\* net.Dial succeeded; c.setConn has not run yet.  A dial that fails leaves the
\* loop where it is.
ReconnectDial ==
  /\ rxPc = "backoff"
  /\ rxPc' = "dialed"
  /\ UNCHANGED <<callVars, clientVars, closePc, conn, txVars, rxFrame, dispVars,
                 wireVars, answered, drops>>

\* c.setConn(conn), without another look at c.done
ReconnectSetConn ==
  /\ rxPc = "dialed"
  /\ conn' = "up"
  /\ toMaster' = <<>> /\ inbox' = {} /\ toClient' = <<>>
  /\ rxPc' = "read"
  /\ UNCHANGED <<callVars, clientVars, closePc, txVars, rxFrame, dispVars, answered,
                 drops>>

\* Every way out of the receiver: a read error on a closed client or a closed
\* connection, a read error that is not EOF, c.done while handing over or
\* while waiting to redial.
ReceiverExit ==
  /\ \/ rxPc = "read" /\ conn \in {"closed", "reset"}
     \/ rxPc = "read" /\ conn = "lost" /\ toClient = <<>> /\ done
     \/ rxPc \in {"hand", "backoff"} /\ done
  /\ rxPc' = "exited"
  /\ rxFrame' = NoFrame
  /\ UNCHANGED <<callVars, clientVars, closePc, conn, txVars, dispVars, wireVars,
                 answered, drops>>

-----------------------------------------------------------------------------
(* runDispatcher, the branch for responses *)

\* c.takePending(packetID) under pendingMu
DispatcherTakePending ==
  /\ dispPc = "match"
  /\ dispTo' = pending[dispFrame.packetID]
  /\ pending' = takePending(dispFrame.packetID)
  /\ dispPc' = IF dispTo' = NoCall THEN "select" ELSE "deliver"
  /\ dispFrame' = IF dispTo' = NoCall THEN NoFrame ELSE dispFrame
  /\ UNCHANGED <<callVars, nextPacketID, closePc, conn, txVars, rxVars, wireVars,
                 answered, drops>>

\* responseChan <- headerPacket; blocks while the buffer is occupied
DispatcherDeliver ==
  /\ dispPc = "deliver"
  /\ respChan[dispTo] = NoFrame
  /\ respChan' = [respChan EXCEPT ![dispTo] = dispFrame]
  /\ dispPc' = "select" /\ dispFrame' = NoFrame /\ dispTo' = NoCall
  /\ UNCHANGED <<pc, pid, outcome, answer, clientVars, closePc, conn, txVars, rxVars,
                 wireVars, answered, drops>>

DispatcherExit ==
  /\ dispPc = "select"
  /\ done
  /\ dispPc' = "exited"
  /\ UNCHANGED <<callVars, clientVars, closePc, conn, txVars, rxVars, dispFrame,
                 dispTo, wireVars, answered, drops>>

-----------------------------------------------------------------------------
(* Client.Close: closeOnce makes it happen once *)

CloseDone ==
  /\ closePc = "open"
  /\ closePc' = "done"
  /\ UNCHANGED <<callVars, clientVars, conn, txVars, rxVars, dispVars, wireVars,
                 answered, drops>>

\* conn.Close, and a mutant that leaves the connection open
LeaveConn == UNCHANGED <<conn, toMaster, inbox>>
ShutConn == conn' = "closed" /\ toMaster' = <<>> /\ inbox' = {}

\* c.currentConn().Close(): what the receiver has buffered is still there.
CloseConn ==
  /\ closePc = "done"
  /\ closePc' = "closed"
  /\ ShutConn
  /\ UNCHANGED <<callVars, clientVars, txVars, rxVars, dispVars, toClient, answered, drops>>

-----------------------------------------------------------------------------
(* The master agent and the network: external *)

MasterRead ==
  /\ conn = "up"
  /\ toMaster # <<>>
  /\ inbox' = inbox \cup {Head(toMaster)}
  /\ toMaster' = Tail(toMaster)
  /\ UNCHANGED <<callVars, clientVars, closePc, conn, txVars, rxVars, dispVars,
                 toClient, answered, drops>>

\* In any order, late, more than once, or never; the packet id is echoed.
MasterAnswer(f) ==
  /\ conn = "up"
  /\ f \in inbox
  /\ Len(toClient) < WireCap
  /\ toClient' = Append(toClient, f)
  /\ answered' = answered \cup {f.call}
  /\ UNCHANGED <<callVars, clientVars, closePc, conn, txVars, rxVars, dispVars,
                 toMaster, inbox, drops>>

\* The master goes away: an orderly close reads as EOF, a reset as another
\* error.  Some of what it wrote before is still delivered.
ConnectionLost ==
  /\ conn = "up"
  /\ drops < MaxDrops
  /\ \E c \in {"lost", "reset"} : conn' = c
  /\ \E n \in 0 .. Len(toClient) : toClient' = SubSeq(toClient, 1, n)
  /\ toMaster' = <<>> /\ inbox' = {}
  /\ drops' = drops + 1
  /\ UNCHANGED <<callVars, clientVars, closePc, txVars, rxVars, dispVars, answered>>

-----------------------------------------------------------------------------

Caller(k) ==
  \/ DrawPacketID(k) \/ EncodeError(k) \/ AddPending(k) \/ SendBytes(k)
  \/ ClientClosed(k) \/ ReceiveResponse(k) \/ RequestTimeout(k)
  \/ DeferredTakePending(k)
Transmitter == TransmitterWrite \/ TransmitterWriteError \/ TransmitterExit
Receiver ==
  \/ ReceiverRead \/ ReceiverHand \/ ReceiverLostConnection
  \/ ReconnectDial \/ ReconnectSetConn \/ ReceiverExit
Dispatcher == DispatcherTakePending \/ DispatcherDeliver \/ DispatcherExit
Close == CloseDone \/ CloseConn
Environment == MasterRead \/ ConnectionLost \/ \E f \in inbox : MasterAnswer(f)

Next ==
  \/ \E k \in Calls : Caller(k)
  \/ Transmitter \/ Receiver \/ Dispatcher \/ Close \/ Environment

Spec == Init /\ [][Next]_vars

-----------------------------------------------------------------------------
(* Fairness.  A goroutine that can run eventually runs; a call that was begun
   goes on; a timer fires; a select that finds c.done ready again and again
   takes that branch at last, for Go chooses among the ready ones at random
   (the SF conjuncts).  A caller need not begin a call, nobody need call Close,
   and net.Dial need not ever succeed. *)

ContinueCall(k) ==
  \/ EncodeError(k) \/ AddPending(k) \/ SendBytes(k) \/ ClientClosed(k)
  \/ ReceiveResponse(k) \/ RequestTimeout(k) \/ DeferredTakePending(k)

ClientFairness ==
  /\ \A k \in Calls : WF_vars(ContinueCall(k))
  /\ WF_vars(Transmitter)
  /\ WF_vars(ReceiverRead \/ ReceiverHand \/ ReceiverLostConnection
             \/ ReconnectSetConn \/ ReceiverExit)
  /\ WF_vars(Dispatcher)
  /\ SF_vars(TransmitterExit) /\ SF_vars(DispatcherExit)
  /\ WF_vars(CloseConn)

\* Nothing is assumed of the master agent.
ClientFairSpec == Spec /\ ClientFairness

\* The master agent keeps reading its socket; it need not answer.
FairSpec == ClientFairSpec /\ WF_vars(MasterRead)

-----------------------------------------------------------------------------
(* Properties *)

CallPcs == {"idle", "encode", "send", "wait", "unwind", "returned"}
Outcomes == {"none", "encodeError", "closed", "timeout", "response"}

\* Type invariant of the Client's fields, the callers' locals and the queues
\* between the goroutines.
TypeOK ==
  /\ pc \in [Calls -> CallPcs]
  /\ pid \in [Calls -> PacketIDs]
  /\ respChan \in [Calls -> Frames \cup {NoFrame}]
  /\ outcome \in [Calls -> Outcomes]
  /\ answer \in [Calls -> Frames \cup {NoFrame}]
  /\ nextPacketID \in Nat
  /\ pending \in [PacketIDs -> Calls \cup {NoCall}]
  /\ closePc \in {"open", "done", "closed"}
  /\ conn \in {"up", "lost", "reset", "closed"}
  /\ txPc \in {"select", "write", "exited"}
  /\ txFrame \in Frames \cup {NoFrame}
  /\ rxPc \in {"read", "hand", "backoff", "dialed", "exited"}
  /\ rxFrame \in Frames \cup {NoFrame}
  /\ dispPc \in {"select", "match", "deliver", "exited"}
  /\ dispFrame \in Frames \cup {NoFrame}
  /\ dispTo \in Calls \cup {NoCall}
  /\ toMaster \in Seq(Frames)
  /\ inbox \in SUBSET Frames
  /\ toClient \in Seq(Frames)
  /\ answered \in SUBSET Calls
  /\ drops \in Nat

\* Packet ids are not reused: fewer requests than the id type has values.
NoWrap == MaxRequests <= PacketIDSpace

\* A response handed to a caller answers that caller's own request: a response
\* that arrives after its caller gave up is dropped, never given to the next
\* one, across timeouts, duplicates, reordering and reconnects
\* (client_internal_test.go:261, takePending in request and runDispatcher).
Correlation ==
  \A k \in Calls : outcome[k] = "response" => answer[k] \in Frames /\ answer[k].call = k

\* A caller that waits can still be woken: its channel is in the pending map,
\* or in the dispatcher's hands, or already holds the response.  This is what
\* addPending before sendBytes is for: no answer is too quick to be matched.
WaitingIsReachable ==
  \A k \in Calls :
    pc[k] \in {"send", "wait"} =>
      \/ pending[pid[k]] = k
      \/ dispPc = "deliver" /\ dispTo = k
      \/ respChan[k] # NoFrame

\* The pending map holds only calls still inside request, whichever of
\* response, timeout and Close ended them, and even when packet ids wrap
\* (defer c.takePending).
NoPendingLeak ==
  \A p \in PacketIDs :
    pending[p] # NoCall => pc[pending[p]] \in {"send", "wait", "unwind"}

\* The dispatcher never blocks delivering a response, whatever the caller has
\* done meanwhile: a channel is taken from the map at most once, and it is
\* buffered (client.go:531-533).  Holds when packet ids wrap, too.
DispatcherNeverBlocks ==
  dispPc = "deliver" => dispTo \in Calls /\ respChan[dispTo] = NoFrame

\* A request that was begun returns: response, timeout, closed client or
\* encoding error (client_internal_test.go:237).
EveryCallReturns == \A k \in Calls : (pc[k] = "encode") ~> (pc[k] = "returned")

\* Close ends transmitter and dispatcher for good, and the receiver as well, in a
\* read, at the dispatcher or between two dials, unless a reconnect installs its
\* connection after Close has closed the old one (client.go:118-135, reconnect).
CloseStopsTheClient ==
  (closePc = "closed") ~> [](/\ txPc = "exited" /\ dispPc = "exited"
                             /\ rxPc = "exited" \/ (conn = "up" /\ drops > 0))

\* "Close tears down the client" (client.go:117): its receiver ends, whatever it was
\* doing, also between net.Dial and setConn (client.go:349-356).
CloseEndsReceiver == (closePc = "closed") ~> [](rxPc = "exited")

\* "If the connection to the snmp-daemon is lost, the client tries to reconnect"
\* (README.md:112), whichever error the receiver reads (client.go:313-323).
TriesToReconnect ==
  (conn \in {"lost", "reset"}) ~> (rxPc \in {"backoff", "dialed"} \/ done)

-----------------------------------------------------------------------------
(* Refinement: the request path implements CallSpec *)

AbstractState ==
  [k \in Calls |->
     IF pc[k] = "idle" THEN "idle"
     ELSE IF outcome[k] = "none" THEN "open" ELSE "done"]

\* Somebody else's answer is no outcome of CallSpec.
AbstractOutcome ==
  [k \in Calls |->
     IF outcome[k] = "response" /\ answer[k].call # k THEN "foreign" ELSE outcome[k]]

Abstract == INSTANCE CallSpec WITH
  state <- AbstractState, outcome <- AbstractOutcome, closed <- done

\* Every behaviour of the goroutines is one of the abstract calls: one outcome
\* per call, never changed, "closed" only after Close began, and a response
\* only if the master agent answered this call.
ImplementsCallSpec == Abstract!Spec
=============================================================================
