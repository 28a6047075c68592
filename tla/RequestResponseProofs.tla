----------------------- MODULE RequestResponseProofs -----------------------
(***************************************************************************)
(* Proofs about RequestResponse, for any set of calls, any size of the     *)
(* packet id type, any wire capacity and any number of connection losses.  *)
(***************************************************************************)
EXTENDS RequestResponse, TLAPS

-----------------------------------------------------------------------------
(* The part of the argument that holds whether or not packet ids wrap. *)

\* A goroutine that is about to pass a frame on holds one.
Handover ==
  /\ txPc = "write" => txFrame # NoFrame
  /\ rxPc = "hand" => rxFrame # NoFrame
  /\ dispPc \in {"match", "deliver"} => dispFrame # NoFrame
  /\ dispPc = "deliver" => dispTo # NoCall

\* A pending entry sits under its call's own id, and the call is inside the
\* scope of the deferred takePending.
PendingOwned ==
  \A p \in PacketIDs :
    pending[p] # NoCall =>
      /\ pid[pending[p]] = p
      /\ pc[pending[p]] \in {"send", "wait", "unwind"}

\* A channel has not been used while it is in the map, nor while it is in the
\* dispatcher's hands, nor before it was added.
ChannelFresh ==
  /\ \A p \in PacketIDs :
       pending[p] # NoCall =>
         /\ respChan[pending[p]] = NoFrame
         /\ dispPc = "deliver" => dispTo # pending[p]
  /\ dispPc = "deliver" => respChan[dispTo] = NoFrame
  /\ dispPc = "deliver" => pc[dispTo] \notin {"idle", "encode"}
  /\ \A k \in Calls : pc[k] \in {"idle", "encode"} => respChan[k] = NoFrame

ChannelInv == TypeOK /\ Handover /\ PendingOwned /\ ChannelFresh

\* The initial state satisfies the invariant.
LEMMA ChannelInvInit == Init => ChannelInv
  BY PacketIDSpaceAssumption
  DEF Init, ChannelInv, TypeOK, Handover, PendingOwned, ChannelFresh, PacketIDs, CallPcs,
      Outcomes

\* A frame made by a caller is well typed.
LEMMA NewFrame ==
  ASSUME TypeOK, NEW k \in Calls
  PROVE  [packetID |-> pid[k], call |-> k] \in Frames
  BY DEF TypeOK, Frames

\* A packet id drawn from the counter is one.
LEMMA DrawnID ==
  ASSUME NEW n \in Nat
  PROVE  n % PacketIDSpace \in PacketIDs
  BY PacketIDSpaceAssumption DEF PacketIDs

\* Every step of a caller keeps the invariant.
LEMMA CallerKeepsChannelInv ==
  ASSUME ChannelInv, NEW k \in Calls, Caller(k)
  PROVE  ChannelInv'
<1> USE NoCallAssumption, NoFrameAssumption
<1> USE DEF ChannelInv, callVars, clientVars, txVars, rxVars, dispVars, wireVars
<1>1. CASE DrawPacketID(k)
  <2>1. pid'[k] \in PacketIDs
    BY <1>1, DrawnID DEF DrawPacketID, NewPacketID, TypeOK
  <2>2. TypeOK'
    BY <1>1, <2>1 DEF DrawPacketID, NewPacketID, TypeOK, CallPcs
  <2>3. Handover'
    BY <1>1 DEF DrawPacketID, NewPacketID, Handover
  <2>4. PendingOwned'
    BY <1>1 DEF DrawPacketID, NewPacketID, PendingOwned, TypeOK
  <2>5. ChannelFresh'
    BY <1>1 DEF DrawPacketID, NewPacketID, ChannelFresh, TypeOK, Handover
  <2> QED BY <2>2, <2>3, <2>4, <2>5
<1>2. CASE EncodeError(k)
  <2>1. TypeOK'
    BY <1>2 DEF EncodeError, TypeOK, CallPcs, Outcomes
  <2>2. Handover' /\ PendingOwned' /\ ChannelFresh'
    BY <1>2 DEF EncodeError, TypeOK, Handover, PendingOwned, ChannelFresh
  <2> QED BY <2>1, <2>2
<1>3. CASE AddPending(k)
  <2>1. TypeOK'
    BY <1>3 DEF AddPending, TypeOK, CallPcs
  <2>2. Handover'
    BY <1>3 DEF AddPending, Handover
  <2>3. PendingOwned'
    BY <1>3 DEF AddPending, PendingOwned, TypeOK
  <2>4. ChannelFresh'
    BY <1>3 DEF AddPending, ChannelFresh, TypeOK, Handover, PendingOwned
  <2> QED BY <2>1, <2>2, <2>3, <2>4
<1>4. CASE SendBytes(k)
  <2>1. TypeOK'
    BY <1>4, NewFrame DEF SendBytes, TypeOK, CallPcs
  <2>2. Handover'
    BY <1>4, NewFrame DEF SendBytes, Handover
  <2>3. PendingOwned' /\ ChannelFresh'
    BY <1>4 DEF SendBytes, PendingOwned, ChannelFresh, TypeOK, Handover
  <2> QED BY <2>1, <2>2, <2>3
<1>5. CASE ClientClosed(k) \/ RequestTimeout(k)
  <2>1. TypeOK'
    BY <1>5 DEF ClientClosed, RequestTimeout, TimerRuns, Leave, TypeOK, CallPcs, Outcomes
  <2>2. Handover'
    BY <1>5 DEF ClientClosed, RequestTimeout, TimerRuns, Leave, Handover
  <2>3. PendingOwned' /\ ChannelFresh'
    BY <1>5 DEF ClientClosed, RequestTimeout, TimerRuns, Leave, PendingOwned, ChannelFresh, TypeOK, Handover
  <2> QED BY <2>1, <2>2, <2>3
<1>6. CASE ReceiveResponse(k)
  <2>1. TypeOK'
    BY <1>6 DEF ReceiveResponse, Leave, TypeOK, CallPcs, Outcomes
  <2>2. Handover'
    BY <1>6 DEF ReceiveResponse, Leave, Handover
  <2>3. PendingOwned' /\ ChannelFresh'
    BY <1>6 DEF ReceiveResponse, Leave, PendingOwned, ChannelFresh, TypeOK, Handover
  <2> QED BY <2>1, <2>2, <2>3
<1>7. CASE DeferredTakePending(k)
  <2>1. TypeOK'
    BY <1>7 DEF DeferredTakePending, takePending, TypeOK, CallPcs
  <2>2. Handover'
    BY <1>7 DEF DeferredTakePending, takePending, Handover
  <2>3. PendingOwned' /\ ChannelFresh'
    BY <1>7 DEF DeferredTakePending, takePending, PendingOwned, ChannelFresh, TypeOK, Handover
  <2> QED BY <2>1, <2>2, <2>3
<1> QED BY <1>1, <1>2, <1>3, <1>4, <1>5, <1>6, <1>7 DEF Caller

\* So does every step of the transmitter, receiver, dispatcher and of Close.
LEMMA GoroutinesKeepChannelInv ==
  ASSUME ChannelInv, Transmitter \/ Receiver \/ Dispatcher \/ Close
  PROVE  ChannelInv'
<1> USE NoCallAssumption, NoFrameAssumption
<1> USE DEF ChannelInv, callVars, clientVars, txVars, rxVars, dispVars, wireVars
<1>1. CASE Transmitter
  <2>1. TypeOK' /\ Handover'
    <3>1. CASE TransmitterWrite
      <4>1. txFrame \in Frames
        BY <3>1 DEF TransmitterWrite, TypeOK, Handover
      <4>2. toMaster' \in Seq(Frames)
        BY <3>1, <4>1 DEF TransmitterWrite, TypeOK
      <4> QED BY <3>1, <4>2 DEF TransmitterWrite, TypeOK, Handover
    <3>2. CASE TransmitterWriteError
      BY <3>2 DEF TransmitterWriteError, TypeOK, Handover
    <3>3. CASE TransmitterExit
      BY <3>3 DEF TransmitterExit, TypeOK, Handover
    <3> QED BY <1>1, <3>1, <3>2, <3>3 DEF Transmitter
  <2>2. PendingOwned' /\ ChannelFresh'
    BY <1>1 DEF Transmitter, TransmitterWrite, TransmitterWriteError, TransmitterExit,
                PendingOwned, ChannelFresh
  <2> QED BY <2>1, <2>2
<1>2. CASE Receiver
  <2>1. TypeOK' /\ Handover'
    <3>1. CASE ReceiverRead
      <4>1. Head(toClient) \in Frames /\ Tail(toClient) \in Seq(Frames)
        BY <3>1 DEF ReceiverRead, TypeOK
      <4> QED BY <3>1, <4>1 DEF ReceiverRead, TypeOK, Handover
    <3>2. CASE ReceiverHand
      BY <3>2 DEF ReceiverHand, TypeOK, Handover
    <3>3. CASE ReceiverLostConnection \/ ReconnectDial
      BY <3>3 DEF ReceiverLostConnection, ReconnectDial, TypeOK, Handover
    <3>4. CASE ReconnectSetConn
      BY <3>4 DEF ReconnectSetConn, TypeOK, Handover
    <3>5. CASE ReceiverExit
      BY <3>5 DEF ReceiverExit, TypeOK, Handover
    <3> QED BY <1>2, <3>1, <3>2, <3>3, <3>4, <3>5 DEF Receiver
  <2>2. PendingOwned' /\ ChannelFresh'
    BY <1>2 DEF Receiver, ReceiverRead, ReceiverHand, ReceiverLostConnection,
                ReconnectDial, ReconnectSetConn, ReceiverExit, PendingOwned, ChannelFresh
  <2> QED BY <2>1, <2>2
<1>3. CASE DispatcherTakePending
  <2>1. dispFrame \in Frames /\ dispFrame.packetID \in PacketIDs
    BY <1>3 DEF DispatcherTakePending, takePending, TypeOK, Handover, Frames
  <2>2. TypeOK' /\ Handover'
    BY <1>3, <2>1 DEF DispatcherTakePending, takePending, TypeOK, Handover
  <2>3. PendingOwned'
    BY <1>3, <2>1 DEF DispatcherTakePending, takePending, TypeOK, PendingOwned
  <2>4. ChannelFresh'
    BY <1>3, <2>1, SMTT(20)
    DEF DispatcherTakePending, takePending, TypeOK, PendingOwned, ChannelFresh
  <2> QED BY <2>2, <2>3, <2>4
<1>4. CASE DispatcherDeliver
  <2>1. dispTo \in Calls /\ dispFrame \in Frames
    BY <1>4 DEF DispatcherDeliver, TypeOK, Handover
  <2>2. TypeOK' /\ Handover'
    BY <1>4, <2>1 DEF DispatcherDeliver, TypeOK, Handover
  <2>3. PendingOwned' /\ ChannelFresh'
    BY <1>4, <2>1 DEF DispatcherDeliver, TypeOK, PendingOwned, ChannelFresh
  <2> QED BY <2>2, <2>3
<1>5. CASE DispatcherExit
  <2>1. TypeOK' /\ Handover'
    BY <1>5 DEF DispatcherExit, TypeOK, Handover, done
  <2>2. PendingOwned' /\ ChannelFresh'
    BY <1>5 DEF DispatcherExit, PendingOwned, ChannelFresh
  <2> QED BY <2>1, <2>2
<1>6. CASE Close
  <2>1. TypeOK' /\ Handover'
    <3>1. CASE CloseDone
      BY <3>1 DEF CloseDone, TypeOK, Handover
    <3>2. CASE CloseConn
      BY <3>2 DEF CloseConn, ShutConn, TypeOK, Handover
    <3> QED BY <1>6, <3>1, <3>2 DEF Close
  <2>2. PendingOwned' /\ ChannelFresh'
    BY <1>6 DEF Close, CloseDone, CloseConn, PendingOwned, ChannelFresh
  <2> QED BY <2>1, <2>2
<1> QED BY <1>1, <1>2, <1>3, <1>4, <1>5, <1>6 DEF Dispatcher

\* And every step of the master agent and of the network.
LEMMA EnvironmentKeepsChannelInv ==
  ASSUME ChannelInv, Environment
  PROVE  ChannelInv'
<1> USE DEF ChannelInv, callVars, clientVars, txVars, rxVars, dispVars, wireVars
<1>1. TypeOK'
  <2>1. CASE MasterRead
    BY <2>1 DEF MasterRead, TypeOK
  <2>2. CASE ConnectionLost
    <3>1. PICK n \in 0 .. Len(toClient) : toClient' = SubSeq(toClient, 1, n)
      BY <2>2 DEF ConnectionLost
    <3>2. toClient' \in Seq(Frames)
      BY <3>1 DEF TypeOK
    <3> QED BY <2>2, <3>2 DEF ConnectionLost, TypeOK
  <2>3. ASSUME NEW f \in inbox, MasterAnswer(f)
        PROVE  TypeOK'
    <3>1. f \in Frames /\ f.call \in Calls
      BY DEF TypeOK, Frames
    <3> QED BY <2>3, <3>1 DEF MasterAnswer, TypeOK
  <2> QED BY <2>1, <2>2, <2>3 DEF Environment
<1>2. Handover' /\ PendingOwned' /\ ChannelFresh'
  BY DEF Environment, MasterRead, ConnectionLost, MasterAnswer, Handover, PendingOwned,
         ChannelFresh
<1> QED BY <1>1, <1>2

\* The invariant is inductive.
LEMMA ChannelInvStep == ChannelInv /\ [Next]_vars => ChannelInv'
<1> SUFFICES ASSUME ChannelInv, [Next]_vars PROVE ChannelInv'
  OBVIOUS
<1>1. CASE Next
  BY <1>1, CallerKeepsChannelInv, GoroutinesKeepChannelInv, EnvironmentKeepsChannelInv
  DEF Next
<1>2. CASE UNCHANGED vars
  BY <1>2 DEF vars, callVars, clientVars, txVars, rxVars, dispVars, wireVars, ChannelInv,
              TypeOK, Handover, PendingOwned, ChannelFresh
<1> QED BY <1>1, <1>2

\* Type correctness, the bounded pending map and the dispatcher that never
\* blocks, for every size of the packet id type: wrapping ids cannot break them.
THEOREM ChannelInvariance == Spec => []ChannelInv
  BY ChannelInvInit, ChannelInvStep, PTL DEF Spec

\* Every variable keeps its type (the Client struct and the locals of request).
THEOREM TypeCorrect == Spec => []TypeOK
<1>1. ChannelInv => TypeOK
  BY DEF ChannelInv
<1> QED BY <1>1, ChannelInvariance, PTL

\* request never leaves an entry behind in c.pending (defer c.takePending).
THEOREM PendingBounded == Spec => []NoPendingLeak
<1>1. ChannelInv => NoPendingLeak
  BY DEF ChannelInv, PendingOwned, NoPendingLeak
<1> QED BY <1>1, ChannelInvariance, PTL

\* The send on responseChan in runDispatcher never blocks.
THEOREM DeliveryNeverBlocks == Spec => []DispatcherNeverBlocks
<1>1. ChannelInv => DispatcherNeverBlocks
  BY DEF ChannelInv, TypeOK, Handover, ChannelFresh, DispatcherNeverBlocks
<1> QED BY <1>1, ChannelInvariance, PTL

-----------------------------------------------------------------------------
(* The part that needs packet ids not to be reused. *)

Begun == {k \in Calls : pc[k] # "idle"}

\* Ids are drawn in order, so no two calls share one.
IdsUnique ==
  /\ nextPacketID <= MaxRequests
  /\ \A k \in Begun : pid[k] < nextPacketID
  /\ \A j, k \in Begun : pid[j] = pid[k] => j = k

\* A frame carries the packet id of the call it was made for.
Issued(f) == f.call \in Begun /\ f.packetID = pid[f.call]

\* Every frame anywhere between caller, master agent and dispatcher is such a frame.
FramesIssued ==
  /\ txFrame # NoFrame => Issued(txFrame)
  /\ rxFrame # NoFrame => Issued(rxFrame)
  /\ dispFrame # NoFrame => Issued(dispFrame)
  /\ \A f \in inbox : Issued(f)
  /\ \A i \in 1 .. Len(toMaster) : Issued(toMaster[i])
  /\ \A i \in 1 .. Len(toClient) : Issued(toClient[i])

\* What is in, or on its way into, a call's channel answers that call.
ChannelsOwn ==
  /\ dispPc = "deliver" => dispFrame.call = dispTo
  /\ \A k \in Calls : respChan[k] # NoFrame => respChan[k].call = k

CorrelationInv ==
  /\ ChannelInv
  /\ IdsUnique
  /\ FramesIssued
  /\ ChannelsOwn
  /\ Correlation
  /\ WaitingIsReachable

\* The initial state satisfies the invariant.
LEMMA CorrelationInvInit == Init => CorrelationInv
<1> SUFFICES ASSUME Init PROVE CorrelationInv
  OBVIOUS
<1>1. ChannelInv
  BY ChannelInvInit
<1>2. IdsUnique /\ ChannelsOwn /\ Correlation /\ WaitingIsReachable
  BY BoundsAssumption
  DEF Init, IdsUnique, Begun, ChannelsOwn, Correlation, WaitingIsReachable
<1>3. FramesIssued
  BY DEF Init, FramesIssued
<1> QED BY <1>1, <1>2, <1>3 DEF CorrelationInv

\* Below the modulus the remainder changes nothing.
LEMMA SmallRemainder ==
  ASSUME NEW n \in Nat, NEW m \in Nat \ {0}, n < m
  PROVE  n % m = n
<1>1. n = m * (n \div m) + (n % m) /\ n % m \in 0 .. m - 1 /\ n \div m \in Int
  BY Z3
<1>2. n \div m = 0
  BY <1>1, Z3
<1> QED BY <1>1, <1>2

\* Drawing the next id: below 2^32 requests the remainder is the counter
\* itself, which is larger than every id drawn before.
LEMMA DrawKeepsCorrelationInv ==
  ASSUME NoWrap, CorrelationInv, ChannelInv', NEW k \in Calls, DrawPacketID(k)
  PROVE  CorrelationInv'
<1> USE DEF CorrelationInv, callVars, clientVars, txVars, rxVars, dispVars, wireVars
<1>1. nextPacketID % PacketIDSpace = nextPacketID
  <2>1. nextPacketID \in Nat /\ nextPacketID < PacketIDSpace
    BY PacketIDSpaceAssumption, BoundsAssumption
    DEF DrawPacketID, NewPacketID, ChannelInv, TypeOK, NoWrap
  <2> QED BY <2>1, PacketIDSpaceAssumption, SmallRemainder
<1>2. IdsUnique'
  <2>1. nextPacketID' <= MaxRequests
    BY BoundsAssumption DEF DrawPacketID, NewPacketID, ChannelInv, TypeOK
  <2>2. pid'[k] = nextPacketID /\ nextPacketID \in Nat /\ nextPacketID' = nextPacketID + 1
    BY <1>1 DEF DrawPacketID, NewPacketID, ChannelInv, TypeOK
  <2>3. \A j \in Begun' : j = k \/ (j \in Begun /\ pid'[j] = pid[j] /\ pid[j] \in Int)
    BY PacketIDSpaceAssumption DEF DrawPacketID, NewPacketID, Begun, ChannelInv, TypeOK, PacketIDs
  <2>4. \A j \in Begun' : pid'[j] < nextPacketID'
    BY <2>2, <2>3 DEF IdsUnique
  <2>5. \A i, j \in Begun' : pid'[i] = pid'[j] => i = j
    BY <2>2, <2>3 DEF IdsUnique
  <2> QED BY <2>1, <2>4, <2>5 DEF IdsUnique
<1>3. \A f : Issued(f) => Issued(f)'
  <2>1. \A j \in Begun : j # k /\ j \in Begun' /\ pid'[j] = pid[j]
    BY DEF DrawPacketID, NewPacketID, Begun, ChannelInv, TypeOK
  <2> QED BY <2>1 DEF Issued
<1>4. FramesIssued'
  BY <1>3 DEF DrawPacketID, NewPacketID, FramesIssued
<1>5. ChannelsOwn' /\ Correlation'
  BY DEF DrawPacketID, NewPacketID, ChannelsOwn, Correlation
<1>6. WaitingIsReachable'
  BY DEF DrawPacketID, NewPacketID, WaitingIsReachable, ChannelInv, TypeOK
<1> QED BY <1>2, <1>4, <1>5, <1>6

\* A step that begins no call and draws no id leaves the ids alone.
LEMMA IdsStable ==
  ASSUME IdsUnique, UNCHANGED <<pid, nextPacketID>>, Begun' = Begun
  PROVE  IdsUnique' /\ \A f : Issued(f) => Issued(f)'
  BY DEF IdsUnique, Issued

\* The other steps of a caller.
LEMMA CallerKeepsCorrelationInv ==
  ASSUME CorrelationInv, ChannelInv', NEW k \in Calls, ContinueCall(k)
  PROVE  CorrelationInv'
<1> USE DEF callVars, clientVars, txVars, rxVars, dispVars, wireVars
<1> USE DEF CorrelationInv
<1>1. Begun' = Begun /\ UNCHANGED <<pid, nextPacketID>> /\ k \in Begun
  BY DEF ContinueCall, EncodeError, AddPending, SendBytes, ClientClosed, ReceiveResponse,
         RequestTimeout, TimerRuns, DeferredTakePending, Leave, Begun, ChannelInv, TypeOK
<1>2. IdsUnique' /\ \A f : Issued(f) => Issued(f)'
  BY <1>1, IdsStable
<1>3. CASE EncodeError(k)
  <2>1. FramesIssued'
    BY <1>2, <1>3 DEF EncodeError, FramesIssued
  <2>2. ChannelsOwn' /\ Correlation'
    BY <1>3 DEF EncodeError, ChannelsOwn, Correlation, ChannelInv, TypeOK
  <2>3. WaitingIsReachable'
    BY <1>3 DEF EncodeError, WaitingIsReachable, ChannelInv, TypeOK
  <2> QED BY <1>2, <2>1, <2>2, <2>3
<1>4. CASE AddPending(k)
  <2>1. FramesIssued'
    BY <1>2, <1>4 DEF AddPending, FramesIssued
  <2>2. ChannelsOwn' /\ Correlation'
    BY <1>4 DEF AddPending, ChannelsOwn, Correlation
  <2>3. WaitingIsReachable'
    BY <1>4, <1>1 DEF AddPending, WaitingIsReachable, ChannelInv, TypeOK, IdsUnique, Begun
  <2> QED BY <1>2, <2>1, <2>2, <2>3
<1>5. CASE SendBytes(k)
  <2>1. Issued([packetID |-> pid[k], call |-> k])
    BY <1>1 DEF Issued
  <2>2. FramesIssued'
    BY <1>2, <1>5, <2>1 DEF SendBytes, FramesIssued
  <2>3. ChannelsOwn' /\ Correlation'
    BY <1>5 DEF SendBytes, ChannelsOwn, Correlation
  <2>4. WaitingIsReachable'
    BY <1>5 DEF SendBytes, WaitingIsReachable, ChannelInv, TypeOK
  <2> QED BY <1>2, <2>2, <2>3, <2>4
<1>6. CASE ClientClosed(k) \/ RequestTimeout(k)
  <2>1. FramesIssued'
    BY <1>2, <1>6 DEF ClientClosed, RequestTimeout, TimerRuns, Leave, FramesIssued
  <2>2. ChannelsOwn' /\ Correlation'
    BY <1>6 DEF ClientClosed, RequestTimeout, TimerRuns, Leave, ChannelsOwn, Correlation, ChannelInv,
                TypeOK
  <2>3. WaitingIsReachable'
    BY <1>6 DEF ClientClosed, RequestTimeout, TimerRuns, Leave, WaitingIsReachable, ChannelInv, TypeOK
  <2> QED BY <1>2, <2>1, <2>2, <2>3
<1>7. CASE ReceiveResponse(k)
  <2>1. FramesIssued'
    BY <1>2, <1>7 DEF ReceiveResponse, Leave, FramesIssued
  <2>2. respChan[k] \in Frames /\ respChan[k].call = k
    BY <1>7 DEF ReceiveResponse, ChannelsOwn, ChannelInv, TypeOK
  <2>3. ChannelsOwn' /\ Correlation'
    BY <1>7, <2>2 DEF ReceiveResponse, Leave, ChannelsOwn, Correlation, ChannelInv, TypeOK
  <2>4. WaitingIsReachable'
    BY <1>7 DEF ReceiveResponse, Leave, WaitingIsReachable, ChannelInv, TypeOK
  <2> QED BY <1>2, <2>1, <2>3, <2>4
<1>8. CASE DeferredTakePending(k)
  <2>1. FramesIssued'
    BY <1>2, <1>8 DEF DeferredTakePending, takePending, FramesIssued
  <2>2. ChannelsOwn' /\ Correlation'
    BY <1>8 DEF DeferredTakePending, takePending, ChannelsOwn, Correlation
  <2>3. WaitingIsReachable'
    BY <1>8, <1>1 DEF DeferredTakePending, takePending, WaitingIsReachable, ChannelInv, TypeOK, IdsUnique,
                      Begun
  <2> QED BY <1>2, <2>1, <2>2, <2>3
<1> QED BY <1>3, <1>4, <1>5, <1>6, <1>7, <1>8 DEF ContinueCall

\* The steps of the library's goroutines: matching by packet id finds the call
\* the frame was made for, because no other call has that id.
LEMMA GoroutinesKeepCorrelationInv ==
  ASSUME CorrelationInv, ChannelInv', Transmitter \/ Receiver \/ Dispatcher \/ Close
  PROVE  CorrelationInv'
<1> USE DEF callVars, clientVars, txVars, rxVars, dispVars, wireVars
<1> USE DEF CorrelationInv
<1>1. Begun' = Begun /\ UNCHANGED <<pc, pid, nextPacketID, outcome, answer>>
  BY DEF Transmitter, TransmitterWrite, TransmitterWriteError, TransmitterExit, Receiver,
         ReceiverRead, ReceiverHand, ReceiverLostConnection, ReconnectDial,
         ReconnectSetConn, ReceiverExit, Dispatcher, DispatcherTakePending,
         DispatcherDeliver, DispatcherExit, Close, CloseDone, CloseConn, Begun
<1>2. IdsUnique' /\ \A f : Issued(f) => Issued(f)'
  BY <1>1, IdsStable
<1>3. Correlation'
  BY <1>1 DEF Correlation
<1>4. CASE Transmitter
  <2>1. FramesIssued'
    <3>1. CASE TransmitterWrite
      <4>1. txFrame \in Frames /\ toMaster \in Seq(Frames)
        BY <3>1 DEF TransmitterWrite, ChannelInv, TypeOK, Handover
      <4>2. \A i \in 1 .. Len(toMaster') : Issued(toMaster'[i])
        BY <3>1, <4>1 DEF TransmitterWrite, FramesIssued, ChannelInv, Handover
      <4> QED BY <3>1, <1>2, <4>2 DEF TransmitterWrite, FramesIssued
    <3>2. CASE TransmitterWriteError \/ TransmitterExit
      BY <3>2, <1>2 DEF TransmitterWriteError, TransmitterExit, FramesIssued
    <3> QED BY <1>4, <3>1, <3>2 DEF Transmitter
  <2>2. ChannelsOwn' /\ WaitingIsReachable'
    BY <1>4 DEF Transmitter, TransmitterWrite, TransmitterWriteError, TransmitterExit,
                ChannelsOwn, WaitingIsReachable
  <2> QED BY <1>2, <1>3, <2>1, <2>2
<1>5. CASE Receiver
  <2>1. FramesIssued'
    <3>1. CASE ReceiverRead
      <4>1. toClient \in Seq(Frames) /\ toClient # <<>>
        BY <3>1 DEF ReceiverRead, ChannelInv, TypeOK
      <4>2. Issued(Head(toClient))
        BY <4>1 DEF FramesIssued
      <4>3. \A i \in 1 .. Len(Tail(toClient)) : Issued(Tail(toClient)[i])
        BY <4>1 DEF FramesIssued
      <4> QED BY <3>1, <1>2, <4>2, <4>3 DEF ReceiverRead, FramesIssued
    <3>2. CASE ReceiverHand
      BY <3>2, <1>2 DEF ReceiverHand, FramesIssued
    <3>3. CASE ReceiverLostConnection \/ ReconnectDial
      BY <3>3, <1>2 DEF ReceiverLostConnection, ReconnectDial, FramesIssued
    <3>4. CASE ReconnectSetConn
      BY <3>4, <1>2 DEF ReconnectSetConn, FramesIssued
    <3>5. CASE ReceiverExit
      BY <3>5, <1>2 DEF ReceiverExit, FramesIssued
    <3> QED BY <1>5, <3>1, <3>2, <3>3, <3>4, <3>5 DEF Receiver
  <2>2. ChannelsOwn' /\ WaitingIsReachable'
    BY <1>5 DEF Receiver, ReceiverRead, ReceiverHand, ReceiverLostConnection, ReconnectDial,
                ReconnectSetConn, ReceiverExit, ChannelsOwn, WaitingIsReachable
  <2> QED BY <1>2, <1>3, <2>1, <2>2
<1>6. CASE DispatcherTakePending
  <2>1. dispFrame \in Frames /\ dispFrame.packetID \in PacketIDs /\ Issued(dispFrame)
    BY <1>6 DEF DispatcherTakePending, takePending, ChannelInv, TypeOK, Handover, Frames, FramesIssued
  <2>2. dispTo' # NoCall => dispTo' \in Begun /\ pid[dispTo'] = dispFrame.packetID
    BY <1>6, <2>1 DEF DispatcherTakePending, takePending, ChannelInv, TypeOK, PendingOwned, Begun
  <2>3. dispTo' # NoCall => dispTo' = dispFrame.call
    BY <2>1, <2>2 DEF Issued, IdsUnique
  <2>4. FramesIssued'
    BY <1>6, <1>2 DEF DispatcherTakePending, takePending, FramesIssued
  <2>5. ChannelsOwn'
    BY <1>6, <2>3 DEF DispatcherTakePending, takePending, ChannelsOwn
  <2>6. WaitingIsReachable'
    BY <1>6, <2>1, NoCallAssumption
    DEF DispatcherTakePending, takePending, WaitingIsReachable, ChannelInv, TypeOK
  <2> QED BY <1>2, <1>3, <2>4, <2>5, <2>6
<1>7. CASE DispatcherDeliver
  <2>1. dispTo \in Calls /\ dispFrame # NoFrame
    BY <1>7 DEF DispatcherDeliver, ChannelInv, TypeOK, Handover
  <2>2. FramesIssued'
    BY <1>7, <1>2 DEF DispatcherDeliver, FramesIssued
  <2>3. ChannelsOwn' /\ WaitingIsReachable'
    BY <1>7, <2>1 DEF DispatcherDeliver, ChannelsOwn, WaitingIsReachable, ChannelInv, TypeOK
  <2> QED BY <1>2, <1>3, <2>2, <2>3
<1>8. CASE DispatcherExit \/ Close
  <2>1. FramesIssued'
    BY <1>8, <1>2 DEF DispatcherExit, Close, CloseDone, CloseConn, ShutConn, FramesIssued
  <2>2. ChannelsOwn' /\ WaitingIsReachable'
    BY <1>8 DEF DispatcherExit, Close, CloseDone, CloseConn, ShutConn, ChannelsOwn, WaitingIsReachable
  <2> QED BY <1>2, <1>3, <2>1, <2>2
<1> QED BY <1>4, <1>5, <1>6, <1>7, <1>8 DEF Dispatcher

\* The steps of the master agent and the network: a response echoes the id.
LEMMA EnvironmentKeepsCorrelationInv ==
  ASSUME CorrelationInv, ChannelInv', Environment
  PROVE  CorrelationInv'
<1> USE DEF callVars, clientVars, txVars, rxVars, dispVars, wireVars
<1> USE DEF CorrelationInv
<1>1. Begun' = Begun /\ UNCHANGED <<callVars, clientVars, txVars, rxVars, dispVars>>
  BY DEF Environment, MasterRead, MasterAnswer, ConnectionLost, Begun
<1>2. IdsUnique' /\ \A f : Issued(f) => Issued(f)'
  BY <1>1, IdsStable
<1>3. ChannelsOwn' /\ Correlation' /\ WaitingIsReachable'
  BY <1>1 DEF ChannelsOwn, Correlation, WaitingIsReachable
<1>4. FramesIssued'
  <2>0. toMaster \in Seq(Frames) /\ toClient \in Seq(Frames)
    BY DEF ChannelInv, TypeOK
  <2>1. CASE MasterRead
    <3>1. toMaster # <<>>
      BY <2>1 DEF MasterRead
    <3>2. Issued(Head(toMaster))
      BY <2>0, <3>1 DEF FramesIssued
    <3>3. \A i \in 1 .. Len(Tail(toMaster)) : Issued(Tail(toMaster)[i])
      BY <2>0, <3>1 DEF FramesIssued
    <3> QED BY <2>1, <1>2, <3>2, <3>3 DEF MasterRead, FramesIssued
  <2>2. CASE ConnectionLost
    <3>1. PICK n \in 0 .. Len(toClient) : toClient' = SubSeq(toClient, 1, n)
      BY <2>2 DEF ConnectionLost
    <3>2. \A i \in 1 .. Len(toClient') : Issued(toClient'[i])
      BY <2>0, <3>1 DEF FramesIssued
    <3> QED BY <2>2, <1>2, <3>2 DEF ConnectionLost, FramesIssued
  <2>3. ASSUME NEW f \in inbox, MasterAnswer(f)
        PROVE  FramesIssued'
    <3>1. f \in Frames /\ Issued(f)
      BY DEF ChannelInv, TypeOK, FramesIssued
    <3>2. \A i \in 1 .. Len(toClient') : Issued(toClient'[i])
      BY <2>0, <2>3, <3>1 DEF MasterAnswer, FramesIssued
    <3> QED BY <2>3, <1>2, <3>2 DEF MasterAnswer, FramesIssued
  <2> QED BY <2>1, <2>2, <2>3 DEF Environment
<1> QED BY <1>2, <1>3, <1>4

\* The invariant is inductive as long as packet ids do not wrap.
LEMMA CorrelationInvStep ==
  ASSUME NoWrap
  PROVE  CorrelationInv /\ [Next]_vars => CorrelationInv'
<1> SUFFICES ASSUME CorrelationInv, [Next]_vars PROVE CorrelationInv'
  OBVIOUS
<1>1. ChannelInv'
  BY ChannelInvStep DEF CorrelationInv
<1>2. ASSUME NEW k \in Calls, Caller(k) PROVE CorrelationInv'
  BY <1>1, <1>2, DrawKeepsCorrelationInv, CallerKeepsCorrelationInv DEF Caller, ContinueCall
<1>3. CASE Next
  BY <1>1, <1>2, <1>3, GoroutinesKeepCorrelationInv, EnvironmentKeepsCorrelationInv DEF Next
<1>4. CASE UNCHANGED vars
  BY <1>1, <1>4 DEF vars, callVars, clientVars, txVars, rxVars, dispVars, wireVars,
     CorrelationInv, IdsUnique, Begun, Issued, FramesIssued, ChannelsOwn, Correlation,
     WaitingIsReachable
<1> QED BY <1>3, <1>4

\* A caller is only ever handed the response to its own request, across
\* timeouts, duplicated, late and reordered responses, reconnects and Close, as
\* long as fewer requests are made than there are packet ids.
THEOREM ResponsesCorrelate ==
  ASSUME NoWrap
  PROVE  Spec => []Correlation
<1>1. CorrelationInv => Correlation
  BY DEF CorrelationInv
<1> QED BY <1>1, CorrelationInvInit, CorrelationInvStep, PTL DEF Spec

\* Under the same assumption no response can miss a caller that is waiting:
\* addPending precedes sendBytes, and nobody else removes the entry.
THEOREM WaitersReachable ==
  ASSUME NoWrap
  PROVE  Spec => []WaitingIsReachable
<1>1. CorrelationInv => WaitingIsReachable
  BY DEF CorrelationInv
<1> QED BY <1>1, CorrelationInvInit, CorrelationInvStep, PTL DEF Spec
-----------------------------------------------------------------------------
(* The goroutines implement CallSpec. *)

\* A call has an outcome exactly when its select, or its encoder, has decided.
OutcomeStage ==
  \A k \in Calls : (outcome[k] = "none") <=> (pc[k] \in {"idle", "encode", "send", "wait"})

\* A frame on its way back was sent by the master agent.
FramesAnswered ==
  /\ rxFrame # NoFrame => rxFrame.call \in answered
  /\ dispFrame # NoFrame => dispFrame.call \in answered
  /\ \A k \in Calls : respChan[k] # NoFrame => respChan[k].call \in answered
  /\ \A i \in 1 .. Len(toClient) : toClient[i].call \in answered

RefinementInv == CorrelationInv /\ OutcomeStage /\ FramesAnswered

\* The initial state satisfies the invariant.
LEMMA RefinementInvInit == Init => RefinementInv
<1> SUFFICES ASSUME Init PROVE RefinementInv
  OBVIOUS
<1>1. CorrelationInv
  BY CorrelationInvInit
<1>2. OutcomeStage
  BY DEF Init, OutcomeStage
<1>3. FramesAnswered
  BY DEF Init, FramesAnswered
<1> QED BY <1>1, <1>2, <1>3 DEF RefinementInv

\* A call decides once.
LEMMA StepKeepsOutcomeStage ==
  ASSUME TypeOK, OutcomeStage, [Next]_vars
  PROVE  OutcomeStage'
<1> USE DEF callVars, OutcomeStage
<1>1. ASSUME NEW k \in Calls, Caller(k) PROVE OutcomeStage'
  <2>1. CASE DrawPacketID(k) \/ AddPending(k) \/ SendBytes(k) \/ DeferredTakePending(k)
    BY <2>1 DEF DrawPacketID, AddPending, SendBytes, DeferredTakePending, TypeOK
  <2>2. CASE EncodeError(k) \/ ClientClosed(k) \/ ReceiveResponse(k) \/ RequestTimeout(k)
    BY <2>2 DEF EncodeError, ClientClosed, ReceiveResponse, RequestTimeout, TimerRuns, Leave,
                TypeOK
  <2> QED BY <1>1, <2>1, <2>2 DEF Caller
<1>2. CASE Transmitter \/ Receiver \/ Dispatcher \/ Close \/ Environment
  BY <1>2
  DEF Transmitter, TransmitterWrite, TransmitterWriteError, TransmitterExit, Receiver,
      ReceiverRead, ReceiverHand, ReceiverLostConnection, ReconnectDial, ReconnectSetConn,
      ReceiverExit, Dispatcher, DispatcherTakePending, DispatcherDeliver, DispatcherExit,
      Close, CloseDone, CloseConn, Environment, MasterRead, MasterAnswer, ConnectionLost
<1>3. CASE UNCHANGED vars
  BY <1>3 DEF vars
<1> QED BY <1>1, <1>2, <1>3 DEF Next

\* Only the master agent makes frames that travel back.
LEMMA StepKeepsFramesAnswered ==
  ASSUME ChannelInv, FramesAnswered, [Next]_vars
  PROVE  FramesAnswered'
<1> USE DEF callVars, clientVars, txVars, rxVars, dispVars, wireVars
<1>0. /\ toClient \in Seq(Frames) /\ respChan \in [Calls -> Frames \cup {NoFrame}]
      /\ TypeOK /\ Handover
  BY DEF ChannelInv, TypeOK
<1>1. ASSUME NEW k \in Calls, Caller(k) PROVE FramesAnswered'
  <2>1. UNCHANGED <<rxFrame, dispFrame, toClient, answered>>
    BY <1>1 DEF Caller, DrawPacketID, EncodeError, AddPending, SendBytes, ClientClosed,
                ReceiveResponse, RequestTimeout, Leave, DeferredTakePending
  <2>2. \A j \in Calls : respChan'[j] = respChan[j] \/ respChan'[j] = NoFrame
    BY <1>0, <1>1 DEF Caller, DrawPacketID, EncodeError, AddPending, SendBytes, ClientClosed,
                ReceiveResponse, RequestTimeout, Leave, DeferredTakePending
  <2> QED BY <2>1, <2>2 DEF FramesAnswered
<1>2. CASE Transmitter \/ Close
  BY <1>2 DEF Transmitter, TransmitterWrite, TransmitterWriteError, TransmitterExit, Close,
              CloseDone, CloseConn, FramesAnswered
<1>3. CASE Receiver
  <2>1. CASE ReceiverRead
    <3>1. Head(toClient).call \in answered
      BY <1>0, <2>1 DEF ReceiverRead, FramesAnswered
    <3>2. \A i \in 1 .. Len(Tail(toClient)) : Tail(toClient)[i].call \in answered
      BY <1>0, <2>1 DEF ReceiverRead, FramesAnswered
    <3> QED BY <2>1, <3>1, <3>2 DEF ReceiverRead, FramesAnswered
  <2>2. CASE ReceiverHand
    BY <1>0, <2>2 DEF ReceiverHand, FramesAnswered, Handover
  <2>3. CASE ReceiverLostConnection \/ ReconnectDial \/ ReceiverExit
    BY <2>3 DEF ReceiverLostConnection, ReconnectDial, ReceiverExit, FramesAnswered
  <2>4. CASE ReconnectSetConn
    BY <2>4 DEF ReconnectSetConn, FramesAnswered
  <2> QED BY <1>3, <2>1, <2>2, <2>3, <2>4 DEF Receiver
<1>4. CASE Dispatcher
  <2>1. CASE DispatcherTakePending \/ DispatcherExit
    BY <2>1 DEF DispatcherTakePending, DispatcherExit, FramesAnswered
  <2>2. CASE DispatcherDeliver
    BY <1>0, <2>2 DEF DispatcherDeliver, FramesAnswered, Handover
  <2> QED BY <1>4, <2>1, <2>2 DEF Dispatcher
<1>5. CASE Environment
  <2>0. UNCHANGED <<callVars, rxVars, dispVars>> /\ answered \subseteq answered'
    BY <1>5 DEF Environment, MasterRead, MasterAnswer, ConnectionLost
  <2>1. \A i \in 1 .. Len(toClient') : toClient'[i].call \in answered'
    <3>1. CASE MasterRead
      BY <3>1 DEF MasterRead, FramesAnswered
    <3>2. CASE ConnectionLost
      <4>1. PICK n \in 0 .. Len(toClient) : toClient' = SubSeq(toClient, 1, n)
        BY <3>2 DEF ConnectionLost
      <4> QED BY <1>0, <2>0, <4>1 DEF FramesAnswered
    <3>3. ASSUME NEW f \in inbox, MasterAnswer(f)
          PROVE  \A i \in 1 .. Len(toClient') : toClient'[i].call \in answered'
      <4>1. f \in Frames
        BY <1>0 DEF TypeOK
      <4> QED BY <1>0, <3>3, <4>1 DEF MasterAnswer, FramesAnswered
    <3> QED BY <1>5, <3>1, <3>2, <3>3 DEF Environment
  <2> QED BY <2>0, <2>1 DEF FramesAnswered
<1>6. CASE UNCHANGED vars
  BY <1>6 DEF vars, FramesAnswered
<1> QED BY <1>1, <1>2, <1>3, <1>4, <1>5, <1>6 DEF Next

\* A deciding step of a caller is a Return of CallSpec.
LEMMA DecisionIsReturn ==
  ASSUME TypeOK, OutcomeStage, OutcomeStage', NEW k \in Calls, NEW o \in Outcomes \ {"none"},
         pc[k] \in {"encode", "send", "wait"}, pc'[k] # "idle",
         \A j \in Calls \ {k} : /\ pc'[j] = pc[j] /\ answer'[j] = answer[j]
                                /\ outcome'[j] = outcome[j],
         outcome' = [outcome EXCEPT ![k] = o],
         o # "response" \/ (k \in answered /\ answer'[k].call = k),
         o # "closed" \/ done, UNCHANGED <<answered, closePc>>
  PROVE  Abstract!Return(k)
<1>1. outcome[k] = "none" /\ outcome'[k] = o /\ o # "none"
  BY DEF OutcomeStage, TypeOK
<1>2. AbstractState[k] = "open" /\ AbstractState'[k] = "done"
  BY <1>1 DEF AbstractState
<1>3. AbstractState' = [AbstractState EXCEPT ![k] = "done"]
  BY <1>2 DEF AbstractState
<1>4. AbstractOutcome'[k] = o
  BY <1>1 DEF AbstractOutcome
<1>5. AbstractOutcome' = [AbstractOutcome EXCEPT ![k] = o]
  <2>1. \A j \in Calls \ {k} : AbstractOutcome'[j] = AbstractOutcome[j]
    BY DEF AbstractOutcome
  <2>2. AbstractOutcome = [j \in Calls |-> AbstractOutcome[j]]
    BY DEF AbstractOutcome
  <2>3. AbstractOutcome' = [j \in Calls |-> AbstractOutcome'[j]]
    BY DEF AbstractOutcome
  <2> HIDE DEF AbstractOutcome
  <2> QED BY <1>4, <2>1, <2>2, <2>3
<1>6. o \in {"encodeError", "timeout", "closed", "response"}
  BY DEF Outcomes
<1>7. UNCHANGED <<answered, done>>
  BY DEF done
<1> QED BY <1>2, <1>3, <1>5, <1>6, <1>7 DEF Abstract!Return

\* A step that neither begins nor decides a call changes nothing CallSpec sees of it.
LEMMA CallsUnseen ==
  ASSUME UNCHANGED <<outcome, answer>>,
         \A k \in Calls : (pc'[k] = "idle") <=> (pc[k] = "idle")
  PROVE  UNCHANGED <<AbstractState, AbstractOutcome>>
  BY DEF AbstractState, AbstractOutcome

\* Every step is a step of CallSpec or changes nothing it sees.
LEMMA StepRefines ==
  ASSUME RefinementInv, OutcomeStage', [Next]_vars
  PROVE  [Abstract!Next]_(Abstract!vars)
<1> USE DEF callVars, clientVars, txVars, rxVars, dispVars, wireVars
<1>0. TypeOK /\ OutcomeStage /\ ChannelsOwn
  BY DEF RefinementInv, CorrelationInv, ChannelInv
<1>1. ASSUME NEW k \in Calls, Caller(k)
      PROVE  Abstract!Open(k) \/ Abstract!Return(k) \/ UNCHANGED Abstract!vars
  <2>1. CASE DrawPacketID(k)
    <3>1. outcome[k] = "none" /\ pc[k] = "idle" /\ pc'[k] = "encode"
      BY <1>0, <2>1 DEF DrawPacketID, OutcomeStage, TypeOK
    <3>2. AbstractState[k] = "idle" /\ AbstractState' = [AbstractState EXCEPT ![k] = "open"]
      BY <1>0, <2>1, <3>1 DEF DrawPacketID, AbstractState, TypeOK
    <3>3. UNCHANGED <<AbstractOutcome, answered, done>>
      BY <2>1 DEF DrawPacketID, AbstractOutcome, done
    <3> QED BY <3>2, <3>3 DEF Abstract!Open
  <2>2. CASE EncodeError(k)
    <3>1. pc[k] \in {"encode", "send", "wait"} /\ pc'[k] # "idle" /\ UNCHANGED <<answered, closePc>>
      BY <1>0, <2>2 DEF EncodeError, TypeOK
    <3>2. \A j \in Calls \ {k} : /\ pc'[j] = pc[j] /\ answer'[j] = answer[j]
                                 /\ outcome'[j] = outcome[j]
      BY <1>0, <2>2 DEF EncodeError, TypeOK
    <3>3. outcome' = [outcome EXCEPT ![k] = "encodeError"]
      BY <2>2 DEF EncodeError
    <3>4. "encodeError" \in Outcomes \ {"none"} /\ "encodeError" # "response" /\ "encodeError" # "closed"
      BY DEF Outcomes
    <3> QED BY <1>0, <3>1, <3>2, <3>3, <3>4, DecisionIsReturn
  <2>3. CASE ClientClosed(k)
    <3>1. pc[k] \in {"encode", "send", "wait"} /\ pc'[k] # "idle" /\ UNCHANGED <<answered, closePc>>
      BY <1>0, <2>3 DEF ClientClosed, Leave, TypeOK
    <3>2. \A j \in Calls \ {k} : /\ pc'[j] = pc[j] /\ answer'[j] = answer[j]
                                 /\ outcome'[j] = outcome[j]
      BY <1>0, <2>3 DEF ClientClosed, Leave, TypeOK
    <3>3. outcome' = [outcome EXCEPT ![k] = "closed"]
      BY <2>3 DEF ClientClosed, Leave
    <3>4. done
      BY <2>3 DEF ClientClosed
    <3> QED BY <1>0, <3>1, <3>2, <3>3, <3>4, DecisionIsReturn DEF Outcomes
  <2>4. CASE RequestTimeout(k)
    <3>1. pc[k] \in {"encode", "send", "wait"} /\ pc'[k] # "idle" /\ UNCHANGED <<answered, closePc>>
      BY <1>0, <2>4 DEF RequestTimeout, TimerRuns, Leave, TypeOK
    <3>2. \A j \in Calls \ {k} : /\ pc'[j] = pc[j] /\ answer'[j] = answer[j]
                                 /\ outcome'[j] = outcome[j]
      BY <1>0, <2>4 DEF RequestTimeout, TimerRuns, Leave, TypeOK
    <3>3. outcome' = [outcome EXCEPT ![k] = "timeout"]
      BY <2>4 DEF RequestTimeout, TimerRuns, Leave
    <3>4. "timeout" \in Outcomes \ {"none"} /\ "timeout" # "response" /\ "timeout" # "closed"
      BY DEF Outcomes
    <3> QED BY <1>0, <3>1, <3>2, <3>3, <3>4, DecisionIsReturn
  <2>5. CASE ReceiveResponse(k)
    <3>1. respChan[k].call = k /\ k \in answered
      BY <1>0, <2>5 DEF ReceiveResponse, ChannelsOwn, RefinementInv, FramesAnswered
    <3>2. pc[k] \in {"encode", "send", "wait"} /\ pc'[k] # "idle" /\ UNCHANGED <<answered, closePc>>
      BY <1>0, <2>5 DEF ReceiveResponse, Leave, TypeOK
    <3>3. \A j \in Calls \ {k} : /\ pc'[j] = pc[j] /\ answer'[j] = answer[j]
                                 /\ outcome'[j] = outcome[j]
      BY <1>0, <2>5 DEF ReceiveResponse, Leave, TypeOK
    <3>4. outcome' = [outcome EXCEPT ![k] = "response"] /\ answer'[k].call = k
      BY <1>0, <2>5, <3>1 DEF ReceiveResponse, Leave, TypeOK
    <3>5. "response" \in Outcomes \ {"none"} /\ "response" # "closed"
      BY DEF Outcomes
    <3> QED BY <1>0, <3>1, <3>2, <3>3, <3>4, <3>5, DecisionIsReturn
  <2>6. CASE AddPending(k) \/ SendBytes(k) \/ DeferredTakePending(k)
    <3>1. UNCHANGED <<outcome, answer, answered, closePc>>
      BY <2>6 DEF AddPending, SendBytes, DeferredTakePending
    <3>2. \A j \in Calls : (pc'[j] = "idle") <=> (pc[j] = "idle")
      BY <1>0, <2>6 DEF AddPending, SendBytes, DeferredTakePending, TypeOK
    <3> QED BY <3>1, <3>2, CallsUnseen DEF Abstract!vars, done
  <2> QED BY <1>1, <2>1, <2>2, <2>3, <2>4, <2>5, <2>6 DEF Caller
<1>2. CASE Transmitter \/ Receiver \/ Dispatcher \/ CloseConn \/ MasterRead \/ ConnectionLost
  <2>1. UNCHANGED <<pc, outcome, answer, answered, done>>
    BY <1>2
    DEF Transmitter, TransmitterWrite, TransmitterWriteError, TransmitterExit, Receiver,
        ReceiverRead, ReceiverHand, ReceiverLostConnection, ReconnectDial, ReconnectSetConn,
        ReceiverExit, Dispatcher, DispatcherTakePending, DispatcherDeliver, DispatcherExit,
        CloseConn, MasterRead, ConnectionLost, done
  <2> QED BY <2>1, CallsUnseen DEF Abstract!vars
<1>3. CASE CloseDone
  <2>1. UNCHANGED <<pc, outcome, answer, answered>> /\ done' = TRUE
    BY <1>3 DEF CloseDone, done
  <2> QED BY <2>1, CallsUnseen DEF Abstract!Next, Abstract!Close
<1>4. ASSUME NEW f \in inbox, MasterAnswer(f)
      PROVE  \E k \in Calls : Abstract!Answer(k)
  <2>1. f.call \in Calls /\ pc[f.call] # "idle"
    BY DEF RefinementInv, CorrelationInv, FramesIssued, Issued, Begun
  <2>2. UNCHANGED <<pc, outcome, answer, done>> /\ answered' = answered \cup {f.call}
    BY <1>4 DEF MasterAnswer, done
  <2>3. AbstractState[f.call] # "idle" /\ UNCHANGED <<AbstractState, AbstractOutcome>>
    BY <2>1, <2>2, CallsUnseen DEF AbstractState
  <2> QED BY <2>1, <2>2, <2>3 DEF Abstract!Answer
<1>5. CASE UNCHANGED vars
  BY <1>5, CallsUnseen DEF vars, Abstract!vars, done
<1> QED BY <1>1, <1>2, <1>3, <1>4, <1>5 DEF Next, Close, Environment, Abstract!Next

\* The request path, with its goroutines, channels, packet ids and reconnects,
\* is an implementation of CallSpec: one outcome per call, never changed, "closed"
\* only after Close began, a response only if the master agent answered this call.
THEOREM RequestPathImplementsCallSpec ==
  ASSUME NoWrap
  PROVE  Spec => ImplementsCallSpec
<1>1. Init => Abstract!Init
  BY DEF Init, Abstract!Init, AbstractState, AbstractOutcome, done
<1>2. RefinementInv /\ [Next]_vars => RefinementInv'
  <2>1. RefinementInv => TypeOK /\ ChannelInv
    BY DEF RefinementInv, CorrelationInv, ChannelInv
  <2> QED BY <2>1, CorrelationInvStep, StepKeepsOutcomeStage, StepKeepsFramesAnswered
          DEF RefinementInv
<1>3. RefinementInv /\ RefinementInv' /\ [Next]_vars => [Abstract!Next]_(Abstract!vars)
  BY StepRefines DEF RefinementInv
<1> QED BY <1>1, <1>2, <1>3, RefinementInvInit, PTL DEF Spec, ImplementsCallSpec, Abstract!Spec
=============================================================================
