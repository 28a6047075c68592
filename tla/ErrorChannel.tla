---------------------------- MODULE ErrorChannel ----------------------------
(***************************************************************************)
(* The channel of background errors: Client.reportError called by any of   *)
(* the client's goroutines, Client.Close, and the consumer that            *)
(* runErrorHandler starts.  errorMu is a Go RWMutex: readers share it, a   *)
(* writer waits for the readers inside and keeps new ones out.             *)
(*                                                                         *)
(* Errors are numbered in the order reportError is called.                 *)
(***************************************************************************)
EXTENDS Integers, Sequences, FiniteSets

CONSTANTS
  Reporters,        \* goroutines that call reportError
  MaxReports,       \* bound: calls of reportError
  Cap               \* capacity of errorChan: 10 in the code

ASSUME ErrorChannelAssumption == MaxReports \in Nat /\ Cap \in Nat \ {0}

VARIABLES
  reporterPc,       \* reporterPc[r]: where r is in reportError
  holding,          \* holding[r]: the error r reports
  reports,          \* calls of reportError so far
  writer,           \* Close's hold of errorMu: "none", "waiting", "locked", "released"
  errorClosed,      \* c.errorClosed
  chanClosed,       \* close(c.errorChan) has happened
  errorChan,        \* what the channel buffers
  handled,          \* errors the handler was called with
  dropped,          \* errors not sent: channel full, or client closed
  handlerPc         \* the goroutine of runErrorHandler

vars == <<reporterPc, holding, reports, writer, errorClosed, chanClosed,
          errorChan, handled, dropped, handlerPc>>

Init ==
  /\ reporterPc = [r \in Reporters |-> "idle"]
  /\ holding = [r \in Reporters |-> 0]
  /\ reports = 0
  /\ writer = "none"
  /\ errorClosed = FALSE /\ chanClosed = FALSE
  /\ errorChan = <<>>
  /\ handled = <<>> /\ dropped = {}
  /\ handlerPc = "receive"

-----------------------------------------------------------------------------
(* reportError *)

\* errorMu.RLock()
ReportLock(r) ==
  /\ reporterPc[r] = "idle"
  /\ reports < MaxReports
  /\ writer \notin {"waiting", "locked"}
  /\ reports' = reports + 1
  /\ holding' = [holding EXCEPT ![r] = reports + 1]
  /\ reporterPc' = [reporterPc EXCEPT ![r] = "check"]
  /\ UNCHANGED <<writer, errorClosed, chanClosed, errorChan, handled, dropped, handlerPc>>

ReportCheckClosed(r) ==
  /\ reporterPc[r] = "check"
  /\ reporterPc' = [reporterPc EXCEPT ![r] = IF errorClosed THEN "unlock" ELSE "send"]
  /\ dropped' = IF errorClosed THEN dropped \cup {holding[r]} ELSE dropped
  /\ UNCHANGED <<holding, reports, writer, errorClosed, chanClosed, errorChan, handled, handlerPc>>

\* The channel's buffer is bounded; in a mutant it is not
HasRoomAlways == TRUE
HasRoom == Len(errorChan) < Cap

\* A send keeps what is queued; a mutant keeps the last error only
LastOnly(e) == <<e>>
Sent(e) == Append(errorChan, e)

\* The select has a default case; a mutant sends plainly, under the read lock
MaySendIntoRoom == HasRoom
MaySend == TRUE

\* select with a default: never waits for the consumer
ReportSend(r) ==
  /\ reporterPc[r] = "send"
  /\ MaySend
  /\ IF HasRoom
       THEN errorChan' = Sent(holding[r]) /\ UNCHANGED dropped
       ELSE dropped' = dropped \cup {holding[r]} /\ UNCHANGED errorChan
  /\ reporterPc' = [reporterPc EXCEPT ![r] = "unlock"]
  /\ UNCHANGED <<holding, reports, writer, errorClosed, chanClosed, handled, handlerPc>>

\* errorMu.RUnlock()
ReportUnlock(r) ==
  /\ reporterPc[r] = "unlock"
  /\ reporterPc' = [reporterPc EXCEPT ![r] = "idle"]
  /\ holding' = [holding EXCEPT ![r] = 0]
  /\ UNCHANGED <<reports, writer, errorClosed, chanClosed, errorChan, handled, dropped, handlerPc>>

-----------------------------------------------------------------------------
(* Client.Close, the part under errorMu; closeOnce makes it happen once *)

CloseWaitsForLock ==
  /\ writer = "none"
  /\ writer' = "waiting"
  /\ UNCHANGED <<reporterPc, holding, reports, errorClosed, chanClosed, errorChan, handled,
                 dropped, handlerPc>>

\* No reader inside; a mutant does not wait for them
Regardless == TRUE
NoReaders == \A r \in Reporters : reporterPc[r] = "idle"

CloseLock ==
  /\ writer = "waiting"
  /\ NoReaders
  /\ writer' = "locked"
  /\ UNCHANGED <<reporterPc, holding, reports, errorClosed, chanClosed, errorChan, handled,
                 dropped, handlerPc>>

\* errorClosed = true; close(errorChan); Unlock
CloseErrorChan ==
  /\ writer = "locked"
  /\ errorClosed' = TRUE
  /\ chanClosed' = TRUE
  /\ writer' = "released"
  /\ UNCHANGED <<reporterPc, holding, reports, errorChan, handled, dropped, handlerPc>>

-----------------------------------------------------------------------------
(* runErrorHandler: for err := range c.errorChan *)

HandlerReceive ==
  /\ handlerPc = "receive"
  /\ errorChan # <<>>
  /\ handled' = Append(handled, Head(errorChan))
  /\ errorChan' = Tail(errorChan)
  /\ UNCHANGED <<reporterPc, holding, reports, writer, errorClosed, chanClosed, dropped, handlerPc>>

\* A range over a closed channel ends when it is empty; a mutant ends at once
AtOnce == TRUE
Drained == errorChan = <<>>

HandlerExit ==
  /\ handlerPc = "receive"
  /\ Drained /\ chanClosed
  /\ handlerPc' = "exited"
  /\ UNCHANGED <<reporterPc, holding, reports, writer, errorClosed, chanClosed, errorChan,
                 handled, dropped>>

-----------------------------------------------------------------------------

Report(r) == ReportLock(r) \/ ReportCheckClosed(r) \/ ReportSend(r) \/ ReportUnlock(r)
CloseError == CloseWaitsForLock \/ CloseLock \/ CloseErrorChan
Handler == HandlerReceive \/ HandlerExit

Next == CloseError \/ Handler \/ \E r \in Reporters : Report(r)

Spec == Init /\ [][Next]_vars

\* Goroutines run on; nobody need report an error or call Close, and the user's
\* error handler need not return, so nothing is assumed of Handler.
FairSpec ==
  /\ Spec
  /\ \A r \in Reporters : WF_vars(ReportCheckClosed(r) \/ ReportSend(r) \/ ReportUnlock(r))
  /\ WF_vars(CloseLock \/ CloseErrorChan)

-----------------------------------------------------------------------------
(* Properties *)

Errors == 1 .. MaxReports

\* Type invariant.
TypeOK ==
  /\ reporterPc \in [Reporters -> {"idle", "check", "send", "unlock"}]
  /\ holding \in [Reporters -> 0 .. MaxReports]
  /\ reports \in 0 .. MaxReports
  /\ writer \in {"none", "waiting", "locked", "released"}
  /\ errorClosed \in BOOLEAN /\ chanClosed \in BOOLEAN
  /\ errorChan \in Seq(Errors) /\ Len(errorChan) <= Cap
  /\ handled \in Seq(Errors)
  /\ dropped \in SUBSET Errors
  /\ handlerPc \in {"receive", "exited"}

\* Nobody is about to send on the closed channel, which would panic: the close
\* waits for sends in flight and no send starts after it (client.go:164-167).
NoSendOnClosed == \A r \in Reporters : reporterPc[r] = "send" => ~chanClosed

InChannel == {errorChan[i] : i \in DOMAIN errorChan}
Handled   == {handled[i] : i \in DOMAIN handled}
InFlight  == {holding[r] : r \in {q \in Reporters : reporterPc[q] \in {"check", "send"}}}

\* Every reported error is in one place: with its reporter, in the channel, at
\* the handler, or dropped.  None is handled twice, none vanishes at Close.
ErrorsAccounted ==
  /\ 1 .. reports = InFlight \cup InChannel \cup Handled \cup dropped
  /\ InChannel \cap Handled = {} /\ dropped \cap (InChannel \cup Handled) = {}
  /\ InFlight \cap (InChannel \cup Handled \cup dropped) = {}
  /\ \A i, j \in DOMAIN handled : handled[i] = handled[j] => i = j
  /\ \A i, j \in DOMAIN errorChan : errorChan[i] = errorChan[j] => i = j

\* Close gets the lock and closes the channel even if nobody ever drains it.
CloseIsNotBlocked == (writer = "waiting") ~> chanClosed

\* After Close the handler is given what was queued, and its goroutine ends, if
\* the user's error handler returns each time (client.go:189-193).
HandlerDrainsAndEnds ==
  WF_vars(Handler) => (chanClosed ~> (handlerPc = "exited" /\ errorChan = <<>>))
=============================================================================
