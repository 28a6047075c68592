--------------------------- MODULE SetTransaction ---------------------------
(***************************************************************************)
(* Set transactions of one session: Session.handle for TestSet, CommitSet, *)
(* UndoSet and CleanupSet on the session's own goroutine, its pending map  *)
(* keyed by transaction id, and a master agent that follows RFC 2741       *)
(* 7.2.4: test, then commit, undo or neither, then always cleanup, unless  *)
(* the connection is lost first.  A request that has reached the session's *)
(* queue stays there when the connection is lost, and its answer goes out  *)
(* on the connection that is current then.                                 *)
(***************************************************************************)
EXTENDS Integers, Sequences

CONSTANTS
  Tx,               \* transaction ids
  Bindings,         \* variable bindings
  MaxVars,          \* bound: bindings of one TestSet
  HandlerKinds,     \* "none", "single" (Handler only) or "twoPhase" (SetHandler)
  QueueCap,         \* incomingQueueSize: 16 in the code
  MaxDrops,         \* bound: connection losses
  PacketIDsRestart  \* does a new master agent count packet ids from 0 again?

ASSUME TransactionAssumption ==
  /\ MaxVars \in Nat /\ QueueCap \in Nat \ {0} /\ MaxDrops \in Nat
  /\ HandlerKinds \subseteq {"none", "single", "twoPhase"}
  /\ PacketIDsRestart \in BOOLEAN

VarLists == UNION {[1 .. n -> Bindings] : n \in 0 .. MaxVars}

VARIABLES
  handlerKind,      \* what the session's handler implements
  incoming,         \* s.incoming
  pending,          \* s.pending: tx -> the bindings that passed testSet
  replies,          \* responses on the way to the master agent
  call,             \* ghost: the handler call just made
  gen,              \* number of the connection
  master,           \* master[tx]: the transaction as the master agent sees it
  nextPacket        \* the master agent's packet ids

vars == <<handlerKind, incoming, pending, replies, call, gen, master, nextPacket>>

NoTransaction == [phase |-> "idle", vars |-> <<>>, packet |-> 0]
NoCallMade    == [op |-> "none", reqs |-> <<>>, tested |-> <<>>]

Init ==
  /\ handlerKind \in HandlerKinds
  /\ incoming = <<>>
  /\ pending = <<>>
  /\ replies = <<>>
  /\ call = NoCallMade
  /\ gen = 1
  /\ master = [t \in Tx |-> NoTransaction]
  /\ nextPacket = 0

-----------------------------------------------------------------------------
(* Session.takePending *)

\* reqs := s.pending[transactionID], nil when there is no entry
Bound(t) == IF t \in DOMAIN pending THEN pending[t] ELSE <<>>

\* Mutant of Put: appended to what the id has, in place of assigned.
PutAppends(t, reqs) ==
  [u \in DOMAIN pending \cup {t} |-> IF u = t THEN Bound(t) \o reqs ELSE pending[u]]

\* s.pending[transactionID] = reqs
Put(t, reqs) == [u \in DOMAIN pending \cup {t} |-> IF u = t THEN reqs ELSE pending[u]]

\* delete(s.pending, transactionID)
Remove(t) == [u \in DOMAIN pending \ {t} |-> pending[u]]

\* What takePending leaves, with a mutant that never removes the entry
takePendingNever(t, remove) == pending
takePending(t, remove) == IF remove THEN Remove(t) ELSE pending

-----------------------------------------------------------------------------
(* Session.run and Session.handle: one request, start to end *)

Request == Head(incoming)

Respond(err, index) ==
  replies' = Append(replies, [tx |-> Request.tx, packet |-> Request.packet,
                              type |-> Request.type, err |-> err, index |-> index])

\* ghost: tested is what the request's own transaction put to the test
Called(op, reqs) == call' = [op |-> op, reqs |-> reqs, tested |-> Request.vars]

\* The key of the pending map; a mutant files under the packet id
PacketKey(r) == r.packet
TransactionKey(r) == r.tx

\* The handler accepts the first n bindings, and all of them or not the next.
HandleTestSet ==
  /\ Request.type = "testSet"
  /\ IF handlerKind = "none"
       THEN /\ Respond("notWritable", 0)
            /\ call' = NoCallMade
            /\ UNCHANGED pending
       ELSE \E n \in 0 .. Len(Request.vars) :
              LET accepted == SubSeq(Request.vars, 1, n)
                  passed   == n = Len(Request.vars)
              IN  /\ IF passed THEN Respond("noError", 0) ELSE Respond("genErr", n + 1)
                  /\ IF handlerKind = "twoPhase"
                       THEN /\ Called("test", accepted)
                            /\ pending' = IF passed THEN Put(TransactionKey(Request), accepted) ELSE pending
                       ELSE /\ Called("set", accepted)
                            /\ UNCHANGED pending

\* commitSet and undoSet hand over the same bindings, and only read them.
HandleCommitOrUndo(op, failure) ==
  /\ Request.type = op
  /\ IF handlerKind = "twoPhase" /\ Bound(Request.tx) # <<>>
       THEN /\ Called(op, Bound(Request.tx))
            /\ \E err \in {"noError", failure} : Respond(err, 0)
       ELSE /\ Respond("noError", 0)
            /\ call' = [NoCallMade EXCEPT !.op = "skipped", !.tested = Request.vars]
  /\ pending' = takePending(Request.tx, FALSE)

\* No response is sent.
HandleCleanupSet ==
  /\ Request.type = "cleanupSet"
  /\ pending' = takePending(Request.tx, TRUE)
  /\ call' = NoCallMade
  /\ UNCHANGED replies

Handle ==
  /\ incoming # <<>>
  /\ \/ HandleTestSet
     \/ HandleCommitOrUndo("commitSet", "commitFailed")
     \/ HandleCommitOrUndo("undoSet", "undoFailed")
     \/ HandleCleanupSet
  /\ incoming' = Tail(incoming)
  /\ UNCHANGED <<handlerKind, gen, master, nextPacket>>

-----------------------------------------------------------------------------
(* The master agent: external *)

Send(t, type, vs, phase) ==
  /\ Len(incoming) < QueueCap
  /\ incoming' = Append(incoming, [type |-> type, tx |-> t, packet |-> nextPacket, vars |-> vs])
  /\ master' = [master EXCEPT ![t] = [phase |-> phase, vars |-> vs, packet |-> nextPacket]]
  /\ nextPacket' = nextPacket + 1
  /\ UNCHANGED <<handlerKind, pending, replies, call, gen>>

MasterTest(t) ==
  /\ master[t].phase = "idle"
  /\ \E vs \in VarLists : Send(t, "testSet", vs, "testing")

MasterCommit(t) ==
  /\ master[t].phase = "tested"
  /\ Send(t, "commitSet", master[t].vars, "committing")

\* Another subagent's commit failed, or this one's did.
MasterUndo(t) ==
  /\ master[t].phase = "committed"
  /\ Send(t, "undoSet", master[t].vars, "undoing")

\* From "tested": another subagent refused, or this one did.
MasterCleanup(t) ==
  /\ master[t].phase \in {"tested", "refused", "committed", "undone"}
  /\ Send(t, "cleanupSet", master[t].vars, "ended")

Awaiting == [testing |-> "tested", committing |-> "committed", undoing |-> "undone"]

\* A response is matched by its packet id; one that matches nothing is dropped.
MasterReceives ==
  /\ replies # <<>>
  /\ replies' = Tail(replies)
  /\ LET r == Head(replies)
         match == {t \in Tx : master[t].phase \in DOMAIN Awaiting /\ master[t].packet = r.packet}
     IN  master' = [t \in Tx |->
           IF t \notin match THEN master[t]
           ELSE [master[t] EXCEPT !.phase =
                   IF @ = "testing" /\ r.err # "noError" THEN "refused" ELSE Awaiting[@]]]
  /\ UNCHANGED <<handlerKind, incoming, pending, call, gen, nextPacket>>

\* The connection is lost and re-established with a master agent that knows no
\* transaction and may use the same transaction ids again.
ConnectionReplaced ==
  /\ gen <= MaxDrops
  /\ gen' = gen + 1
  /\ master' = [t \in Tx |-> NoTransaction]
  /\ replies' = <<>>
  /\ nextPacket' = IF PacketIDsRestart THEN 0 ELSE nextPacket
  /\ UNCHANGED <<handlerKind, incoming, pending, call>>

Next ==
  \/ Handle \/ MasterReceives \/ ConnectionReplaced
  \/ \E t \in Tx : MasterTest(t) \/ MasterCommit(t) \/ MasterUndo(t) \/ MasterCleanup(t)

Spec == Init /\ [][Next]_vars

-----------------------------------------------------------------------------
(* Properties *)

\* Type invariant; only a two-phase handler ever has pending bindings.
TypeOK ==
  /\ \A i \in DOMAIN incoming :
       incoming[i].type \in {"testSet", "commitSet", "undoSet", "cleanupSet"}
  /\ Len(incoming) <= QueueCap
  /\ DOMAIN pending \subseteq Tx
  /\ handlerKind \in HandlerKinds
  /\ handlerKind # "twoPhase" => DOMAIN pending = {}
  /\ gen \in 1 .. MaxDrops + 1 /\ nextPacket \in Nat

\* CommitSet and UndoSet get exactly the bindings that this very transaction
\* put to the test, all of them accepted: never a part of them, never those of
\* an earlier transaction with the same id.  And a two-phase handler is never
\* skipped: a commitSet or undoSet answered without calling it is one of a
\* transaction without bindings (handler.go:29-39).
HandlerGetsTestedBindings ==
  /\ call.op \in {"commitSet", "undoSet"} => call.reqs = call.tested
  /\ handlerKind = "twoPhase" /\ call.op = "skipped" => call.tested = <<>>

\* Every entry of the pending map belongs to a transaction in progress: one the
\* master agent has not ended, or whose cleanupSet is still queued; or it was
\* left by a connection that was lost and waits for its id to come again
\* (session.go:41-44).
NothingLeftBehind ==
  \A t \in DOMAIN pending :
    \/ master[t].phase \notin {"idle", "ended"}
    \/ \E i \in DOMAIN incoming : incoming[i].tx = t
    \/ master[t].phase = "idle" /\ gen > 1

\* "The master agent always terminates a transaction with cleanupSet (RFC 2741
\* 7.2.4.3), which is what removes the entry" (session.go:42-44): with nothing excused,
\* also not the transactions of a connection that was lost.
EntriesAreRemoved ==
  \A t \in DOMAIN pending :
    \/ master[t].phase \notin {"idle", "ended"}
    \/ \E i \in DOMAIN incoming : incoming[i].tx = t
=============================================================================
