------------------------- MODULE ErrorChannelProofs -------------------------
(***************************************************************************)
(* Proofs about ErrorChannel, for any set of reporters, any number of      *)
(* errors and any capacity of the channel.                                 *)
(***************************************************************************)
EXTENDS ErrorChannel, TLAPS

-----------------------------------------------------------------------------
(* The sequences of the model as sets *)

Elements(s) == {s[i] : i \in DOMAIN s}

Injective(s) == \A i, j \in DOMAIN s : s[i] = s[j] => i = j

\* What a queue holds after a send.
LEMMA AppendElements ==
  ASSUME NEW S, NEW s \in Seq(S), NEW e \in S
  PROVE  /\ Append(s, e) \in Seq(S) /\ Len(Append(s, e)) = Len(s) + 1
         /\ Elements(Append(s, e)) = Elements(s) \cup {e}
         /\ Injective(s) /\ e \notin Elements(s) => Injective(Append(s, e))
<1> DEFINE t == Append(s, e)
<1>1. /\ t \in Seq(S) /\ Len(t) = Len(s) + 1 /\ t[Len(s) + 1] = e /\ Len(s) \in Nat
      /\ DOMAIN t = 1 .. Len(s) + 1 /\ DOMAIN s = 1 .. Len(s)
      /\ \A i \in 1 .. Len(s) : t[i] = s[i]
  OBVIOUS
<1> HIDE DEF t
<1>2. Elements(t) = Elements(s) \cup {e}
  BY <1>1 DEF Elements
<1>3. Injective(s) /\ e \notin Elements(s) => Injective(t)
  BY <1>1 DEF Elements, Injective
<1> QED BY <1>1, <1>2, <1>3 DEF t

\* What a queue holds after a receive.
LEMMA TailElements ==
  ASSUME NEW S, NEW s \in Seq(S), s # <<>>
  PROVE  /\ Tail(s) \in Seq(S) /\ Len(Tail(s)) = Len(s) - 1 /\ Head(s) \in S
         /\ Elements(s) = Elements(Tail(s)) \cup {Head(s)}
         /\ Injective(s) => Injective(Tail(s)) /\ Head(s) \notin Elements(Tail(s))
<1> DEFINE t == Tail(s)
<1>1. /\ t \in Seq(S) /\ Len(t) = Len(s) - 1 /\ Head(s) = s[1] /\ Len(s) \in Nat \ {0}
      /\ DOMAIN t = 1 .. Len(s) - 1 /\ DOMAIN s = 1 .. Len(s)
      /\ \A i \in 1 .. Len(s) - 1 : t[i] = s[i + 1]
  OBVIOUS
<1>2. Head(s) \in S
  BY <1>1
<1> HIDE DEF t
<1>3. \A i \in DOMAIN s : i = 1 \/ (i - 1 \in DOMAIN t /\ t[i - 1] = s[i])
  BY <1>1
<1>4. \A i \in DOMAIN t : i + 1 \in DOMAIN s /\ s[i + 1] = t[i] /\ i + 1 # 1
  BY <1>1
<1>5. 1 \in DOMAIN s /\ \A i \in DOMAIN t : i \in Int
  BY <1>1
<1>6. Elements(s) = Elements(t) \cup {Head(s)}
  BY <1>1, <1>3, <1>4, <1>5 DEF Elements
<1>7. ASSUME Injective(s) PROVE Injective(t) /\ Head(s) \notin Elements(t)
  BY <1>1, <1>4, <1>5, <1>7 DEF Elements, Injective
<1> QED BY <1>1, <1>2, <1>6, <1>7 DEF t

-----------------------------------------------------------------------------
(* The lock *)

\* errorMu excludes Close while a report is inside, and the other way round, and
\* a report that is past its check began before Close had the lock.
LockInv ==
  /\ writer = "locked" => NoReaders
  /\ errorClosed <=> (writer = "released")
  /\ chanClosed <=> errorClosed
  /\ \A r \in Reporters : reporterPc[r] = "send" => writer \in {"none", "waiting"}

\* The initial state.
LEMMA LockInvInit == Init => TypeOK /\ LockInv
<1> SUFFICES ASSUME Init PROVE TypeOK /\ LockInv
  OBVIOUS
<1>1. errorChan \in Seq(Errors) /\ handled \in Seq(Errors) /\ Len(errorChan) = 0
  BY DEF Init
<1>2. TypeOK
  <2>1. 0 \in 0 .. MaxReports /\ 0 <= Cap
    BY ErrorChannelAssumption
  <2>2. holding \in [Reporters -> 0 .. MaxReports] /\ reports \in 0 .. MaxReports
    BY <2>1 DEF Init
  <2>3. reporterPc \in [Reporters -> {"idle", "check", "send", "unlock"}]
    BY DEF Init
  <2> QED BY <1>1, <2>1, <2>2, <2>3 DEF Init, TypeOK
<1>3. LockInv
  BY DEF Init, LockInv, NoReaders
<1> QED BY <1>2, <1>3

\* A reporter holds the number of an error from its lock to its unlock.
HoldsOne == \A r \in Reporters : reporterPc[r] # "idle" => holding[r] \in 1 .. reports

\* Every step keeps the types.
LEMMA TypeStep ==
  ASSUME TypeOK, HoldsOne, [Next]_vars
  PROVE  TypeOK' /\ HoldsOne'
<1> USE ErrorChannelAssumption
<1>1. ASSUME NEW r \in Reporters, Report(r) PROVE TypeOK' /\ HoldsOne'
  <2>1. CASE ReportLock(r)
    BY <2>1 DEF ReportLock, TypeOK, HoldsOne
  <2>2. CASE ReportCheckClosed(r)
    <3>1. holding[r] \in Errors
      BY <2>2 DEF ReportCheckClosed, TypeOK, HoldsOne, Errors
    <3>2. dropped' \in SUBSET Errors
      BY <2>2, <3>1 DEF ReportCheckClosed, TypeOK
    <3> QED BY <2>2, <3>2 DEF ReportCheckClosed, TypeOK, HoldsOne
  <2>3. CASE ReportSend(r)
    <3>1. holding[r] \in Errors
      BY <2>3 DEF ReportSend, TypeOK, HoldsOne, Errors
    <3>2. HoldsOne' /\ UNCHANGED <<holding, reports, writer, errorClosed, chanClosed, handled, handlerPc>>
      BY <2>3 DEF ReportSend, TypeOK, HoldsOne
    <3>3. reporterPc' \in [Reporters -> {"idle", "check", "send", "unlock"}]
      BY <2>3 DEF ReportSend, TypeOK
    <3>4. errorChan' \in Seq(Errors) /\ Len(errorChan') <= Cap /\ dropped' \in SUBSET Errors
      <4>1. CASE HasRoom
        <5>1. errorChan' = Append(errorChan, holding[r]) /\ dropped' = dropped
          BY <2>3, <4>1 DEF ReportSend, Sent
        <5>2. errorChan \in Seq(Errors) /\ Len(errorChan) < Cap /\ dropped \in SUBSET Errors
          BY <4>1 DEF HasRoom, TypeOK
        <5>3. Len(errorChan') = Len(errorChan) + 1 /\ errorChan' \in Seq(Errors)
          BY <3>1, <5>1, <5>2, AppendElements
        <5> QED BY <5>1, <5>2, <5>3
      <4>2. CASE ~HasRoom
        BY <2>3, <3>1, <4>2 DEF ReportSend, TypeOK
      <4> QED BY <4>1, <4>2
    <3> QED BY <3>2, <3>3, <3>4 DEF TypeOK
  <2>4. CASE ReportUnlock(r)
    BY <2>4 DEF ReportUnlock, TypeOK, HoldsOne
  <2> QED BY <1>1, <2>1, <2>2, <2>3, <2>4 DEF Report
<1>2. CASE CloseError
  BY <1>2 DEF CloseError, CloseWaitsForLock, CloseLock, CloseErrorChan, TypeOK, HoldsOne
<1>3. CASE HandlerReceive
  <2>1. Tail(errorChan) \in Seq(Errors) /\ Len(Tail(errorChan)) = Len(errorChan) - 1
        /\ Head(errorChan) \in Errors
    BY <1>3, TailElements DEF HandlerReceive, TypeOK
  <2>2. errorChan' \in Seq(Errors) /\ Len(errorChan') <= Cap /\ handled' \in Seq(Errors)
    BY <1>3, <2>1, AppendElements DEF HandlerReceive, TypeOK
  <2> QED BY <1>3, <2>2 DEF HandlerReceive, TypeOK, HoldsOne
<1>4. CASE HandlerExit
  BY <1>4 DEF HandlerExit, TypeOK, HoldsOne
<1>5. CASE UNCHANGED vars
  BY <1>5 DEF vars, TypeOK, HoldsOne
<1> QED BY <1>1, <1>2, <1>3, <1>4, <1>5 DEF Next, Handler

\* Every step keeps the lock's discipline.
LEMMA LockStep ==
  ASSUME TypeOK, LockInv, [Next]_vars
  PROVE  LockInv'
<1> USE DEF NoReaders
<1>1. ASSUME NEW r \in Reporters, Report(r) PROVE LockInv'
  BY <1>1 DEF Report, ReportLock, ReportCheckClosed, ReportSend, ReportUnlock, TypeOK, LockInv
<1>2. CASE CloseError
  BY <1>2 DEF CloseError, CloseWaitsForLock, CloseLock, CloseErrorChan, TypeOK, LockInv
<1>3. CASE Handler
  BY <1>3 DEF Handler, HandlerReceive, HandlerExit, LockInv
<1>4. CASE UNCHANGED vars
  BY <1>4 DEF vars, LockInv
<1> QED BY <1>1, <1>2, <1>3, <1>4 DEF Next

\* Every variable keeps its type; in particular the channel is never fuller than
\* its capacity.
THEOREM ErrorTypesCorrect == Spec => []TypeOK
<1>1. Init => TypeOK /\ HoldsOne
  BY LockInvInit DEF Init, HoldsOne
<1>2. TypeOK /\ HoldsOne /\ [Next]_vars => TypeOK' /\ HoldsOne'
  BY TypeStep
<1> QED BY <1>1, <1>2, PTL DEF Spec

\* No reporter is about to send on the closed channel: closing waits for sends
\* in flight, and errorClosed keeps later ones out.
THEOREM NeverSendsOnClosed == Spec => []NoSendOnClosed
<1>1. TypeOK /\ LockInv => NoSendOnClosed
  BY DEF LockInv, NoSendOnClosed
<1>2. TypeOK /\ LockInv /\ [Next]_vars => LockInv'
  BY LockStep
<1> QED BY <1>1, <1>2, LockInvInit, ErrorTypesCorrect, PTL DEF Spec

-----------------------------------------------------------------------------
(* Every error is somewhere, once *)

Active == {r \in Reporters : reporterPc[r] \in {"check", "send"}}

\* No two reporters hold the same error.
HeldOnce == \A q, r \in Active : holding[q] = holding[r] => q = r

AccountInv == TypeOK /\ HoldsOne /\ HeldOnce /\ ErrorsAccounted

\* A report puts its error into one place more or moves it to another.
LEMMA ReportKeepsAccount ==
  ASSUME AccountInv, TypeOK', HoldsOne', NEW r \in Reporters, Report(r)
  PROVE  AccountInv'
<1> USE DEF AccountInv
<1>0. /\ reports \in Nat /\ Active \subseteq Reporters /\ InFlight = {holding[q] : q \in Active}
      /\ reporterPc \in [Reporters -> {"idle", "check", "send", "unlock"}]
      /\ holding \in [Reporters -> 0 .. MaxReports]
  BY ErrorChannelAssumption DEF TypeOK, Active, InFlight
<1>1. CASE ReportLock(r)
  <2>1. r \notin Active /\ Active' = Active \cup {r}
    BY <1>0, <1>1 DEF ReportLock, Active
  <2>2. holding'[r] = reports + 1 /\ \A q \in Active : holding'[q] = holding[q]
    BY <1>0, <1>1, <2>1 DEF ReportLock
  <2>3. InFlight' = InFlight \cup {reports + 1}
    <3>1. InFlight' = {holding'[q] : q \in Active'}
      BY DEF InFlight, Active
    <3> QED BY <1>0, <2>1, <2>2, <3>1
  <2>4. reports + 1 \notin 1 .. reports /\ 1 .. reports' = (1 .. reports) \cup {reports + 1}
    BY <1>0, <1>1 DEF ReportLock
  <2>5. HeldOnce'
    <3>1. \A q \in Active : holding[q] # reports + 1
      BY <1>0, <2>4 DEF HoldsOne, Active
    <3> QED BY <2>1, <2>2, <3>1 DEF HeldOnce
  <2>6. UNCHANGED <<errorChan, handled, dropped, InChannel, Handled>>
    BY <1>1 DEF ReportLock, InChannel, Handled
  <2>7. ErrorsAccounted'
    <3>1. reports + 1 \notin InFlight \cup InChannel \cup Handled \cup dropped
      BY <2>4 DEF ErrorsAccounted
    <3> QED BY <2>3, <2>4, <2>6, <3>1 DEF ErrorsAccounted
  <2> QED BY <2>5, <2>7
<1>2. ASSUME ReportCheckClosed(r) \/ ReportSend(r) \/ ReportUnlock(r),
             NEW e, r \in Active => e = holding[r],
             UNCHANGED <<reports, handled>>,
             \/ Active' = Active /\ UNCHANGED <<dropped, errorChan>>
             \/ /\ r \in Active /\ Active' = Active \ {r}
                /\ \/ dropped' = dropped \cup {e} /\ UNCHANGED errorChan
                   \/ dropped' = dropped /\ errorChan' = Append(errorChan, e),
             \A q \in Active : holding'[q] = holding[q]
      PROVE  AccountInv'
  <2>1. InFlight' = {holding'[q] : q \in Active'} /\ Handled' = Handled
    BY <1>2 DEF InFlight, Active, Handled
  <2>2. HeldOnce'
    BY <1>2 DEF HeldOnce
  <2>3. CASE Active' = Active /\ UNCHANGED <<dropped, errorChan>>
    <3>1. InFlight' = InFlight /\ InChannel' = InChannel
      BY <1>0, <1>2, <2>1, <2>3 DEF InChannel
    <3> QED BY <1>2, <2>1, <2>2, <2>3, <3>1 DEF ErrorsAccounted
  <2>4. CASE r \in Active /\ Active' = Active \ {r}
    <3>1. InFlight = InFlight' \cup {e} /\ e \notin InFlight'
      BY <1>0, <1>2, <2>1, <2>4 DEF HeldOnce
    <3>2. e \notin InChannel \cup Handled \cup dropped
      BY <3>1 DEF ErrorsAccounted
    <3>3. CASE dropped' = dropped \cup {e} /\ UNCHANGED errorChan
      <4>1. InChannel' = InChannel
        BY <3>3 DEF InChannel
      <4> QED BY <1>2, <2>1, <2>2, <3>1, <3>2, <3>3, <4>1 DEF ErrorsAccounted
    <3>4. CASE dropped' = dropped /\ errorChan' = Append(errorChan, e)
      <4>1. errorChan \in Seq(Errors) /\ e \in Errors
        BY <1>0, <1>2, <2>4, ErrorChannelAssumption DEF TypeOK, HoldsOne, Active, Errors
      <4>2. Injective(errorChan) /\ Elements(errorChan) = InChannel /\ Elements(errorChan') = InChannel'
        BY DEF Injective, Elements, InChannel, ErrorsAccounted
      <4>3. InChannel' = InChannel \cup {e} /\ Injective(errorChan')
        BY <3>2, <3>4, <4>1, <4>2, AppendElements
      <4> QED BY <1>2, <2>1, <2>2, <3>1, <3>2, <3>4, <4>3 DEF ErrorsAccounted, Injective
    <3> QED BY <1>2, <2>4, <3>3, <3>4
  <2> QED BY <1>2, <2>3, <2>4
<1>3. CASE ReportCheckClosed(r)
  <2>1. r \in Active /\ UNCHANGED <<reports, handled, holding, errorChan>>
    BY <1>3 DEF ReportCheckClosed, Active
  <2>2. CASE errorClosed
    <3>1. Active' = Active \ {r} /\ dropped' = dropped \cup {holding[r]}
      BY <1>0, <1>3, <2>2 DEF ReportCheckClosed, Active
    <3> QED BY <1>2, <1>3, <2>1, <3>1
  <2>3. CASE ~errorClosed
    <3>1. Active' = Active /\ dropped' = dropped
      BY <1>0, <1>3, <2>3 DEF ReportCheckClosed, Active
    <3> QED BY <1>2, <1>3, <2>1, <3>1
  <2> QED BY <2>2, <2>3
<1>4. CASE ReportSend(r)
  <2>1. r \in Active /\ UNCHANGED <<reports, handled, holding>> /\ Active' = Active \ {r}
    BY <1>0, <1>4 DEF ReportSend, Active
  <2>2. \/ dropped' = dropped \cup {holding[r]} /\ UNCHANGED errorChan
        \/ dropped' = dropped /\ errorChan' = Append(errorChan, holding[r])
    BY <1>4 DEF ReportSend, Sent
  <2> QED BY <1>2, <1>4, <2>1, <2>2
<1>5. CASE ReportUnlock(r)
  <2>1. r \notin Active /\ Active' = Active /\ UNCHANGED <<reports, handled, errorChan, dropped>>
    BY <1>0, <1>5 DEF ReportUnlock, Active
  <2>2. \A q \in Active : holding'[q] = holding[q]
    BY <1>0, <1>5, <2>1 DEF ReportUnlock
  <2> QED BY <1>2, <1>5, <2>1, <2>2
<1> QED BY <1>1, <1>3, <1>4, <1>5 DEF Report

\* The handler moves errors from the channel, Close moves none.
LEMMA OthersKeepAccount ==
  ASSUME AccountInv, TypeOK', HoldsOne', CloseError \/ Handler \/ UNCHANGED vars
  PROVE  AccountInv'
<1> USE DEF AccountInv
<1>1. UNCHANGED <<reporterPc, holding, reports, dropped>>
  BY DEF CloseError, CloseWaitsForLock, CloseLock, CloseErrorChan, Handler, HandlerReceive,
         HandlerExit, vars
<1>2. HeldOnce' /\ InFlight' = InFlight
  BY <1>1 DEF HeldOnce, Active, InFlight
<1>3. CASE UNCHANGED <<errorChan, handled>>
  BY <1>1, <1>2, <1>3 DEF ErrorsAccounted, InChannel, Handled
<1>4. CASE HandlerReceive
  <2> DEFINE e == Head(errorChan)
  <2>1. /\ errorChan \in Seq(Errors) /\ handled \in Seq(Errors) /\ errorChan # <<>>
        /\ errorChan' = Tail(errorChan) /\ handled' = Append(handled, e)
    BY <1>4 DEF HandlerReceive, TypeOK
  <2>2. /\ Injective(errorChan) /\ Elements(errorChan) = InChannel /\ Elements(errorChan') = InChannel'
        /\ Injective(handled) /\ Elements(handled) = Handled /\ Elements(handled') = Handled'
    BY DEF Injective, Elements, InChannel, Handled, ErrorsAccounted
  <2>3. /\ e \in Errors /\ InChannel = InChannel' \cup {e} /\ e \notin InChannel'
        /\ Injective(errorChan')
    BY <2>1, <2>2, TailElements
  <2> HIDE DEF e
  <2>4. e \notin Handled
    BY <2>3 DEF ErrorsAccounted
  <2>5. Handled' = Handled \cup {e} /\ Injective(handled')
    BY <2>1, <2>2, <2>3, <2>4, AppendElements
  <2> QED BY <1>1, <1>2, <2>3, <2>4, <2>5 DEF ErrorsAccounted, Injective
<1> QED BY <1>3, <1>4 DEF CloseError, CloseWaitsForLock, CloseLock, CloseErrorChan, Handler,
           HandlerExit, vars

\* Every error that was reported is with its reporter, in the channel, at the
\* handler or dropped, and only in one of these places and once: none is handled
\* twice, and none vanishes, also while Close closes the channel.
THEOREM NoErrorVanishes == Spec => []ErrorsAccounted
<1>1. Init => AccountInv
  <2> SUFFICES ASSUME Init PROVE AccountInv
    OBVIOUS
  <2>1. TypeOK /\ HoldsOne /\ HeldOnce
    BY LockInvInit DEF Init, HoldsOne, HeldOnce, Active
  <2>2. InFlight = {} /\ InChannel = {} /\ Handled = {} /\ dropped = {} /\ 1 .. reports = {}
    BY DEF Init, InFlight, InChannel, Handled
  <2> QED BY <2>1, <2>2 DEF AccountInv, ErrorsAccounted, Init
<1>2. AccountInv /\ [Next]_vars => AccountInv'
  <2> SUFFICES ASSUME AccountInv, [Next]_vars PROVE AccountInv'
    OBVIOUS
  <2>1. TypeOK' /\ HoldsOne'
    BY TypeStep DEF AccountInv
  <2> QED BY <2>1, ReportKeepsAccount, OthersKeepAccount DEF Next
<1>3. AccountInv => ErrorsAccounted
  BY DEF AccountInv
<1> QED BY <1>1, <1>2, <1>3, PTL DEF Spec
=============================================================================
