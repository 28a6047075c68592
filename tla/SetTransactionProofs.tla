------------------------ MODULE SetTransactionProofs ------------------------
(***************************************************************************)
(* Proofs about SetTransaction, for any transaction ids, bindings, kinds   *)
(* of handler, length of the queue and number of replaced connections.     *)
(***************************************************************************)
EXTENDS SetTransaction, SequenceTheorems, TLAPS

-----------------------------------------------------------------------------
(* Types *)

Types  == {"testSet", "commitSet", "undoSet", "cleanupSet"}
Errs   == {"noError", "genErr", "notWritable", "commitFailed", "undoFailed"}
Phases == {"idle", "testing", "tested", "refused", "committing", "committed", "undoing",
           "undone", "ended"}

Requests     == [type : Types, tx : Tx, packet : Nat, vars : Seq(Bindings)]
Replies      == [tx : Tx, packet : Nat, type : Types, err : Errs, index : Nat]
Transactions == [phase : Phases, vars : Seq(Bindings), packet : Nat]

Typed ==
  /\ TypeOK
  /\ incoming \in Seq(Requests)
  /\ replies \in Seq(Replies)
  /\ master \in [Tx -> Transactions]

\* The type of a queued request.
LEMMA QueueTypes ==
  ASSUME NEW s \in Seq(Requests)
  PROVE  \A i \in DOMAIN s : s[i].type \in Types
<1>1. \A i \in DOMAIN s : s[i] \in Requests
  OBVIOUS
<1> QED BY <1>1 DEF Requests

\* All that a step of the session's goroutine does.
LEMMA HandleFacts ==
  ASSUME Typed, Handle
  PROVE  /\ incoming # <<>> /\ Request \in Requests /\ incoming' = Tail(incoming)
         /\ UNCHANGED <<handlerKind, gen, master, nextPacket>>
         /\ \/ pending' = pending
            \/ /\ Request.type = "testSet" /\ handlerKind = "twoPhase"
               /\ pending' = Put(Request.tx, Request.vars)
            \/ Request.type = "cleanupSet" /\ pending' = Remove(Request.tx)
         /\ Request.type = "cleanupSet" => pending' = Remove(Request.tx)
         /\ \/ UNCHANGED replies
            \/ \E r \in Replies : /\ replies' = Append(replies, r) /\ r.packet = Request.packet
                                  /\ Request.type # "cleanupSet"
                                  /\ (r.err = "noError" /\ handlerKind = "twoPhase"
                                        /\ Request.type = "testSet")
                                       => pending' = Put(Request.tx, Request.vars)
<1>1. incoming # <<>> /\ incoming \in Seq(Requests) /\ incoming' = Tail(incoming)
  BY DEF Handle, Typed
<1>2. Request \in Requests
  BY <1>1, HeadTailProperties DEF Request
<1>3. /\ Request.type \in Types /\ Request.tx \in Tx /\ Request.packet \in Nat
      /\ Request.vars \in Seq(Bindings)
  BY <1>2 DEF Requests
<1>4. UNCHANGED <<handlerKind, gen, master, nextPacket>>
  BY DEF Handle
<1>5. ASSUME NEW err \in Errs, NEW n \in Nat, Respond(err, n)
      PROVE  \E r \in Replies : replies' = Append(replies, r) /\ r.packet = Request.packet
                                /\ r.err = err
  <2> DEFINE r == [tx |-> Request.tx, packet |-> Request.packet, type |-> Request.type,
                   err |-> err, index |-> n]
  <2>1. r \in Replies /\ r.packet = Request.packet /\ r.err = err
    BY <1>3 DEF Replies
  <2>2. replies' = Append(replies, r)
    BY <1>5 DEF Respond
  <2> QED BY <2>1, <2>2
<1>6. CASE HandleTestSet
  <2>1. Request.type = "testSet"
    BY <1>6 DEF HandleTestSet
  <2>2. CASE handlerKind = "none"
    <3>1. Respond("notWritable", 0) /\ pending' = pending
      BY <1>6, <2>2 DEF HandleTestSet
    <3>2. "notWritable" \in Errs /\ 0 \in Nat /\ handlerKind # "twoPhase"
      BY <2>2 DEF Errs
    <3> QED BY <1>1, <1>2, <1>4, <1>5, <2>1, <2>2, <3>1, <3>2
  <2>3. CASE handlerKind # "none"
    <3>1. PICK n \in 0 .. Len(Request.vars) :
            LET accepted == SubSeq(Request.vars, 1, n)
                passed   == n = Len(Request.vars)
            IN  /\ IF passed THEN Respond("noError", 0) ELSE Respond("genErr", n + 1)
                /\ IF handlerKind = "twoPhase"
                     THEN pending' = IF passed THEN Put(Request.tx, accepted) ELSE pending
                     ELSE UNCHANGED pending
      BY <1>6, <2>3 DEF HandleTestSet, TransactionKey
    <3>2. CASE n = Len(Request.vars)
      <4>1. SubSeq(Request.vars, 1, n) = Request.vars
        BY <1>3, <3>2
      <4>2. Respond("noError", 0)
        BY <3>1, <3>2
      <4>3. IF handlerKind = "twoPhase" THEN pending' = Put(Request.tx, Request.vars)
                                        ELSE pending' = pending
        BY <3>1, <3>2, <4>1
      <4>4. "noError" \in Errs /\ 0 \in Nat
        BY DEF Errs
      <4> QED BY <1>1, <1>2, <1>4, <1>5, <2>1, <4>2, <4>3, <4>4
    <3>3. CASE n # Len(Request.vars)
      <4>1. Respond("genErr", n + 1) /\ pending' = pending
        BY <3>1, <3>3
      <4>2. "genErr" \in Errs /\ n + 1 \in Nat /\ "genErr" # "noError"
        BY <1>3 DEF Errs
      <4> QED BY <1>1, <1>2, <1>4, <1>5, <2>1, <4>1, <4>2
    <3> QED BY <3>2, <3>3
  <2> QED BY <2>2, <2>3
<1>7. ASSUME NEW op \in {"commitSet", "undoSet"}, NEW failure \in Errs,
             HandleCommitOrUndo(op, failure)
      PROVE  /\ Request.type = op /\ pending' = pending
             /\ \E r \in Replies : replies' = Append(replies, r) /\ r.packet = Request.packet
  <2>1. PICK err \in Errs : Respond(err, 0)
    <3>1. "noError" \in Errs
      BY DEF Errs
    <3> QED BY <1>7, <3>1 DEF HandleCommitOrUndo
  <2> QED BY <1>5, <1>7, <2>1 DEF HandleCommitOrUndo, takePending
<1>8. CASE HandleCommitOrUndo("commitSet", "commitFailed") \/ HandleCommitOrUndo("undoSet", "undoFailed")
  <2>1. /\ "commitFailed" \in Errs /\ "undoFailed" \in Errs /\ "commitSet" # "testSet"
        /\ "undoSet" # "testSet" /\ "commitSet" # "cleanupSet" /\ "undoSet" # "cleanupSet"
    BY DEF Errs
  <2> QED BY <1>1, <1>2, <1>4, <1>7, <1>8, <2>1
<1>9. CASE HandleCleanupSet
  BY <1>1, <1>2, <1>4, <1>9 DEF HandleCleanupSet, takePending
<1> QED BY <1>6, <1>8, <1>9 DEF Handle

\* All that a step of the master agent that sends a request does.
LEMMA SendFacts ==
  ASSUME Typed, NEW t \in Tx, NEW type \in Types, NEW vs \in Seq(Bindings), NEW phase \in Phases,
         Send(t, type, vs, phase)
  PROVE  /\ Len(incoming) < QueueCap
         /\ UNCHANGED <<handlerKind, pending, replies, call, gen>> /\ nextPacket' = nextPacket + 1
         /\ \E r \in Requests :
              /\ incoming' = Append(incoming, r)
              /\ r.type = type /\ r.tx = t /\ r.packet = nextPacket /\ r.vars = vs
         /\ master' \in [Tx -> Transactions] /\ master'[t].phase = phase /\ master'[t].vars = vs
         /\ master'[t].packet = nextPacket /\ \A u \in Tx \ {t} : master'[u] = master[u]
<1>1. nextPacket \in Nat
  BY DEF Typed, TypeOK
<1>2. [type |-> type, tx |-> t, packet |-> nextPacket, vars |-> vs] \in Requests
  BY <1>1 DEF Requests
<1>3. [phase |-> phase, vars |-> vs, packet |-> nextPacket] \in Transactions
  BY <1>1 DEF Transactions
<1> QED BY <1>2, <1>3 DEF Send, Typed

\* The four requests of the master agent are such sends.
LEMMA MasterSends ==
  ASSUME Typed, NEW t \in Tx, MasterTest(t) \/ MasterCommit(t) \/ MasterUndo(t) \/ MasterCleanup(t)
  PROVE  \E type \in Types, vs \in Seq(Bindings), phase \in Phases :
           /\ Send(t, type, vs, phase)
           /\ \/ type = "testSet" /\ phase = "testing" /\ master[t].phase = "idle"
              \/ type = "commitSet" /\ phase = "committing" /\ master[t].phase = "tested"
                 /\ vs = master[t].vars
              \/ type = "undoSet" /\ phase = "undoing" /\ master[t].phase = "committed"
                 /\ vs = master[t].vars
              \/ type = "cleanupSet" /\ phase = "ended"
                 /\ master[t].phase \in {"tested", "refused", "committed", "undone"}
<1>1. master[t].vars \in Seq(Bindings)
  BY DEF Typed, Transactions
<1>2. /\ "testSet" \in Types /\ "commitSet" \in Types /\ "undoSet" \in Types /\ "cleanupSet" \in Types
      /\ "testing" \in Phases /\ "committing" \in Phases /\ "undoing" \in Phases /\ "ended" \in Phases
  BY DEF Types, Phases
<1>3. CASE MasterTest(t)
  <2>1. PICK vs \in VarLists : Send(t, "testSet", vs, "testing")
    BY <1>3 DEF MasterTest
  <2>2. vs \in Seq(Bindings)
    BY TransactionAssumption DEF VarLists
  <2> QED BY <1>2, <1>3, <2>1, <2>2 DEF MasterTest
<1>4. CASE MasterCommit(t)
  BY <1>1, <1>2, <1>4 DEF MasterCommit
<1>5. CASE MasterUndo(t)
  BY <1>1, <1>2, <1>5 DEF MasterUndo
<1>6. CASE MasterCleanup(t)
  BY <1>1, <1>2, <1>6 DEF MasterCleanup
<1> QED BY <1>3, <1>4, <1>5, <1>6

\* All that the receipt of a response does.
LEMMA ReceiveFacts ==
  ASSUME Typed, MasterReceives
  PROVE  /\ replies # <<>> /\ replies' = Tail(replies) /\ Head(replies) \in Replies
         /\ UNCHANGED <<handlerKind, incoming, pending, call, gen, nextPacket>>
         /\ master' \in [Tx -> Transactions]
         /\ \A t \in Tx :
              \/ master'[t] = master[t]
              \/ /\ master[t].phase \in {"testing", "committing", "undoing"}
                 /\ master[t].packet = Head(replies).packet
                 /\ master'[t].vars = master[t].vars
                 /\ \/ master'[t].phase = "refused"
                    \/ master'[t].phase \in {"tested", "committed", "undone"}
                       /\ (master[t].phase = "testing" => Head(replies).err = "noError")
<1> DEFINE r == Head(replies)
           match == {t \in Tx : master[t].phase \in DOMAIN Awaiting /\ master[t].packet = r.packet}
           after(t) == IF master[t].phase = "testing" /\ r.err # "noError" THEN "refused"
                       ELSE Awaiting[master[t].phase]
<1>1. replies # <<>> /\ replies' = Tail(replies) /\ r \in Replies
      /\ UNCHANGED <<handlerKind, incoming, pending, call, gen, nextPacket>>
  BY HeadTailProperties DEF MasterReceives, Typed
<1>2. DOMAIN Awaiting = {"testing", "committing", "undoing"}
      /\ Awaiting["testing"] = "tested" /\ Awaiting["committing"] = "committed"
      /\ Awaiting["undoing"] = "undone"
  BY DEF Awaiting
<1>3. master' = [t \in Tx |-> IF t \notin match THEN master[t]
                              ELSE [master[t] EXCEPT !.phase = after(t)]]
  BY DEF MasterReceives
<1>4. ASSUME NEW t \in match
      PROVE  /\ master[t].phase \in {"testing", "committing", "undoing"}
             /\ master[t].packet = r.packet
             /\ \/ after(t) = "refused"
                \/ after(t) \in {"tested", "committed", "undone"}
                   /\ (master[t].phase = "testing" => r.err = "noError")
  BY <1>2
<1>5. ASSUME NEW t \in match
      PROVE  LET m == [master[t] EXCEPT !.phase = after(t)] IN
             m \in Transactions /\ m.vars = master[t].vars /\ m.phase = after(t)
  <2>1. after(t) \in Phases /\ master[t] \in Transactions
    BY <1>4 DEF Phases, Typed
  <2> HIDE DEF after
  <2> QED BY <2>1 DEF Transactions
<1> HIDE DEF after, match
<1>6. \A t \in Tx : t \in match \/ master'[t] = master[t]
  BY <1>3
<1>7. \A t \in Tx : t \in match => master'[t] = [master[t] EXCEPT !.phase = after(t)]
  BY <1>3
<1>8. master' \in [Tx -> Transactions]
  BY <1>3, <1>5 DEF Typed
<1> QED BY <1>1, <1>4, <1>5, <1>6, <1>7, <1>8

\* Every step keeps the types.
LEMMA TypedStep ==
  ASSUME Typed, [Next]_vars
  PROVE  Typed'
<1> USE TransactionAssumption
<1>1. CASE Handle
  <2>0. /\ incoming \in Seq(Requests) /\ Len(incoming) <= QueueCap /\ replies \in Seq(Replies)
        /\ incoming # <<>> /\ incoming' = Tail(incoming)
        /\ replies' = replies \/ \E r \in Replies : replies' = Append(replies, r)
    BY <1>1, HandleFacts DEF Typed, TypeOK
  <2>1. incoming' \in Seq(Requests) /\ Len(incoming') <= QueueCap
    BY <2>0
  <2>2. replies' \in Seq(Replies)
    BY <2>0
  <2>3. DOMAIN pending' \subseteq Tx /\ (handlerKind # "twoPhase" => DOMAIN pending' = {})
    BY <1>1, HandleFacts DEF Typed, TypeOK, Put, Remove, Requests
  <2>4. \A i \in DOMAIN incoming' : incoming'[i].type \in Types
    BY <2>1, QueueTypes
  <2> QED BY <1>1, <2>1, <2>2, <2>3, <2>4, HandleFacts DEF Typed, TypeOK, Types
<1>2. CASE MasterReceives
  <2>1. replies' \in Seq(Replies)
    <3>1. replies \in Seq(Replies) /\ replies # <<>> /\ replies' = Tail(replies)
      BY <1>2, ReceiveFacts DEF Typed
    <3> QED BY <3>1
  <2> QED BY <1>2, <2>1, ReceiveFacts DEF Typed, TypeOK
<1>3. CASE ConnectionReplaced
  <2>1. NoTransaction \in Transactions
    BY DEF NoTransaction, Transactions, Phases
  <2>2. replies' \in Seq(Replies) /\ master' \in [Tx -> Transactions]
    BY <1>3, <2>1 DEF ConnectionReplaced
  <2> QED BY <1>3, <2>2 DEF ConnectionReplaced, Typed, TypeOK
<1>4. ASSUME NEW t \in Tx, MasterTest(t) \/ MasterCommit(t) \/ MasterUndo(t) \/ MasterCleanup(t)
      PROVE  Typed'
  <2>1. PICK type \in Types, vs \in Seq(Bindings), phase \in Phases : Send(t, type, vs, phase)
    BY <1>4, MasterSends
  <2>2. PICK r \in Requests : incoming' = Append(incoming, r)
    BY <2>1, SendFacts
  <2>3. incoming' \in Seq(Requests) /\ Len(incoming') <= QueueCap
    BY <2>1, <2>2, SendFacts, AppendProperties DEF Typed
  <2>4. \A i \in DOMAIN incoming' : incoming'[i].type \in Types
    BY <2>3, QueueTypes
  <2> QED BY <2>1, <2>3, <2>4, SendFacts DEF Typed, TypeOK, Types
<1>5. CASE UNCHANGED vars
  BY <1>5 DEF vars, Typed, TypeOK
<1> QED BY <1>1, <1>2, <1>3, <1>4, <1>5 DEF Next

\* The initial state.
LEMMA TypedInit == Init => Typed
<1> SUFFICES ASSUME Init PROVE Typed
  OBVIOUS
<1>1. NoTransaction \in Transactions
  BY DEF NoTransaction, Transactions, Phases
<1>2. /\ incoming \in Seq(Requests) /\ Len(incoming) = 0 /\ DOMAIN incoming = {}
      /\ replies \in Seq(Replies) /\ master \in [Tx -> Transactions] /\ DOMAIN pending = {}
  BY <1>1 DEF Init
<1> QED BY <1>2, TransactionAssumption DEF Init, Typed, TypeOK

\* Every variable keeps its type; only a two-phase handler ever has bindings in
\* the pending map, and only under transaction ids.
THEOREM SetTypesCorrect == Spec => []TypeOK
<1>1. Typed => TypeOK
  BY DEF Typed
<1> QED BY <1>1, TypedInit, TypedStep, PTL DEF Spec

-----------------------------------------------------------------------------
(* Nothing is left in the pending map *)

Queued(t) == \E i \in DOMAIN incoming : incoming[i].tx = t

\* The last request for t in the queue is its cleanupSet.
CleanupLast(t) ==
  \A i \in DOMAIN incoming : incoming[i].tx = t =>
    \E j \in DOMAIN incoming : /\ j >= i /\ incoming[j].tx = t
                               /\ incoming[j].type = "cleanupSet"

\* A transaction that has ended is cleaned up, or will be by the last of its
\* requests; on the first connection one that has not begun has left no trace.
LeftInv ==
  \A t \in Tx :
    /\ master[t].phase = "ended" => CleanupLast(t) /\ (Queued(t) \/ t \notin DOMAIN pending)
    /\ master[t].phase = "idle" /\ gen = 1 => ~Queued(t) /\ t \notin DOMAIN pending

\* Every step keeps it: the queue is first in, first out, and nothing follows a
\* cleanupSet on the same connection.
LEMMA LeftStep ==
  ASSUME Typed, LeftInv, [Next]_vars
  PROVE  LeftInv'
<1>0. incoming \in Seq(Requests) /\ DOMAIN pending \subseteq Tx
  BY DEF Typed, TypeOK
<1>1. CASE Handle
  <2>1. /\ incoming # <<>> /\ Request \in Requests /\ incoming' = Tail(incoming)
        /\ Request = incoming[1] /\ UNCHANGED <<gen, master>>
    BY <1>0, <1>1, HandleFacts, HeadTailProperties DEF Request
  <2>2. /\ DOMAIN pending' \subseteq DOMAIN pending \cup {Request.tx}
        /\ Request.type = "cleanupSet" => Request.tx \notin DOMAIN pending'
    BY <1>1, HandleFacts DEF Put, Remove
  <2>3. ASSUME NEW t \in Tx, Queued(t)' PROVE Queued(t)
    BY <1>0, <2>1, <2>3, HeadTailProperties DEF Queued
  <2>4. ASSUME NEW t \in Tx, CleanupLast(t) PROVE CleanupLast(t)'
    <3> SUFFICES ASSUME NEW i \in DOMAIN incoming', incoming'[i].tx = t
                 PROVE  \E j \in DOMAIN incoming' : /\ j >= i /\ incoming'[j].tx = t
                                                    /\ incoming'[j].type = "cleanupSet"
      BY DEF CleanupLast
    <3>1. i \in Nat \ {0} /\ i + 1 \in DOMAIN incoming /\ incoming[i + 1].tx = t
      BY <1>0, <2>1, HeadTailProperties
    <3>2. PICK j \in DOMAIN incoming : j >= i + 1 /\ incoming[j].tx = t /\ incoming[j].type = "cleanupSet"
      BY <2>4, <3>1 DEF CleanupLast
    <3>3. j \in Nat /\ j # 1
      BY <1>0, <3>1, <3>2
    <3>4. j - 1 \in DOMAIN incoming' /\ incoming'[j - 1] = incoming[j] /\ j - 1 >= i
      BY <1>0, <2>1, <3>1, <3>2, <3>3, HeadTailProperties
    <3> QED BY <3>2, <3>4
  <2>5. ASSUME NEW t \in Tx, CleanupLast(t), Queued(t), ~Queued(t)' PROVE t \notin DOMAIN pending'
    <3>1. PICK i \in DOMAIN incoming : incoming[i].tx = t
      BY <2>5 DEF Queued
    <3>2. \A j \in DOMAIN incoming : incoming[j].tx = t => j = 1
      <4>1. \A j \in DOMAIN incoming :
              j = 1 \/ (j - 1 \in DOMAIN incoming' /\ incoming'[j - 1] = incoming[j])
        BY <1>0, <2>1, HeadTailProperties
      <4> QED BY <2>5, <4>1 DEF Queued
    <3>3. Request.tx = t /\ Request.type = "cleanupSet"
      BY <2>1, <2>5, <3>1, <3>2 DEF CleanupLast
    <3> QED BY <2>2, <3>3
  <2>6. ASSUME NEW t \in Tx, ~Queued(t) PROVE Request.tx # t
    BY <1>0, <2>1, <2>6, HeadTailProperties DEF Queued
  <2> SUFFICES ASSUME NEW t \in Tx
               PROVE  /\ master[t].phase = "ended" =>
                           CleanupLast(t)' /\ (Queued(t)' \/ t \notin DOMAIN pending')
                      /\ master[t].phase = "idle" /\ gen = 1 =>
                           ~Queued(t)' /\ t \notin DOMAIN pending'
    BY <2>1 DEF LeftInv
  <2>7. CASE Queued(t)
    BY <2>3, <2>4, <2>5, <2>7 DEF LeftInv
  <2>8. CASE ~Queued(t)
    BY <2>2, <2>3, <2>4, <2>6, <2>8 DEF LeftInv
  <2> QED BY <2>7, <2>8
<1>2. CASE MasterReceives
  <2>1. UNCHANGED <<incoming, pending, gen>>
    BY <1>2, ReceiveFacts
  <2>2. \A t \in Tx : master'[t].phase \in {"ended", "idle"} => master'[t] = master[t]
    BY <1>2, ReceiveFacts
  <2> QED BY <2>1, <2>2 DEF LeftInv, CleanupLast, Queued
<1>3. CASE ConnectionReplaced
  <2>1. gen' # 1 /\ \A t \in Tx : master'[t].phase = "idle"
    BY <1>3, TransactionAssumption DEF ConnectionReplaced, NoTransaction, Typed, TypeOK
  <2> QED BY <2>1 DEF LeftInv
<1>4. ASSUME NEW u \in Tx, MasterTest(u) \/ MasterCommit(u) \/ MasterUndo(u) \/ MasterCleanup(u)
      PROVE  LeftInv'
  <2>1. PICK type \in Types, vs \in Seq(Bindings), phase \in Phases :
          /\ Send(u, type, vs, phase) /\ phase # "idle"
          /\ phase = "ended" => type = "cleanupSet"
    BY <1>4, MasterSends
  <2>2. /\ UNCHANGED <<pending, gen>> /\ master'[u].phase = phase
        /\ \A t \in Tx \ {u} : master'[t] = master[t]
    BY <2>1, SendFacts
  <2>3. PICK r \in Requests : incoming' = Append(incoming, r) /\ r.tx = u /\ r.type = type
    BY <2>1, SendFacts
  <2>4. ASSUME NEW t \in Tx \ {u} PROVE Queued(t)' <=> Queued(t)
    BY <1>0, <2>3, AppendProperties DEF Queued
  <2>5. ASSUME NEW t \in Tx \ {u}, CleanupLast(t) PROVE CleanupLast(t)'
    <3>1. /\ Len(incoming) \in Nat /\ DOMAIN incoming = 1 .. Len(incoming)
          /\ DOMAIN incoming' = 1 .. Len(incoming) + 1 /\ incoming'[Len(incoming) + 1] = r
          /\ \A i \in DOMAIN incoming : incoming'[i] = incoming[i]
      BY <1>0, <2>3, AppendProperties
    <3>2. r.tx # t
      BY <2>3
    <3>3. ASSUME NEW i \in DOMAIN incoming', incoming'[i].tx = t
          PROVE  \E j \in DOMAIN incoming' : /\ j >= i /\ incoming'[j].tx = t
                                             /\ incoming'[j].type = "cleanupSet"
      <4>1. i \in DOMAIN incoming /\ incoming[i].tx = t
        BY <3>1, <3>2, <3>3
      <4>2. PICK j \in DOMAIN incoming : /\ j >= i /\ incoming[j].tx = t
                                         /\ incoming[j].type = "cleanupSet"
        BY <2>5, <4>1 DEF CleanupLast
      <4> QED BY <3>1, <4>2
    <3> QED BY <3>3 DEF CleanupLast
  <2>6. Queued(u)'
    BY <1>0, <2>3, AppendProperties DEF Queued
  <2>7. ASSUME phase = "ended" PROVE CleanupLast(u)'
    <3>1. Len(incoming) + 1 \in DOMAIN incoming' /\ incoming'[Len(incoming) + 1] = r
      BY <1>0, <2>3, AppendProperties
    <3>2. \A i \in DOMAIN incoming' : Len(incoming) + 1 >= i
      BY <1>0, <2>3
    <3> QED BY <2>1, <2>3, <2>7, <3>1, <3>2 DEF CleanupLast
  <2> QED BY <2>1, <2>2, <2>4, <2>5, <2>6, <2>7 DEF LeftInv
<1>5. CASE UNCHANGED vars
  BY <1>5 DEF vars, LeftInv, Queued, CleanupLast
<1> QED BY <1>1, <1>2, <1>3, <1>4, <1>5 DEF Next

\* Every entry of s.pending belongs to a transaction in progress, has a request
\* of its transaction still queued, or was left by a lost connection: whatever
\* master agent and handler do, and whatever packet ids a new one uses.
THEOREM PendingIsCleaned == Spec => []NothingLeftBehind
<1>1. Init => LeftInv
  <2> SUFFICES ASSUME Init PROVE LeftInv
    OBVIOUS
  <2>1. DOMAIN incoming = {} /\ DOMAIN pending = {} /\ \A t \in Tx : master[t].phase = "idle"
    BY DEF Init, NoTransaction
  <2> QED BY <2>1 DEF LeftInv, Queued
<1>2. Typed /\ LeftInv => NothingLeftBehind
  <2> SUFFICES ASSUME Typed, LeftInv, NEW t \in DOMAIN pending, ~Queued(t),
                      master[t].phase \in {"idle", "ended"}
               PROVE  master[t].phase = "idle" /\ gen > 1
    BY DEF NothingLeftBehind, Queued
  <2>1. t \in Tx /\ gen \in Nat /\ gen >= 1
    BY TransactionAssumption DEF Typed, TypeOK
  <2> QED BY <2>1 DEF LeftInv
<1>3. Typed /\ LeftInv /\ [Next]_vars => Typed' /\ LeftInv'
  BY TypedStep, LeftStep
<1> QED BY <1>1, <1>2, <1>3, TypedInit, PTL DEF Spec

-----------------------------------------------------------------------------
(* The handler gets what was tested *)

Asking == [testing |-> "testSet", committing |-> "commitSet", undoing |-> "undoSet"]
AskingPhases == {"testing", "committing", "undoing"}

\* A two-phase handler's bindings of t in the map are vs.
Holds(kind, map, t, vs) ==
  kind = "twoPhase" => (IF t \in DOMAIN map THEN map[t] ELSE <<>>) = vs

\* Packet ids count upwards.
PacketsOld ==
  /\ \A i \in DOMAIN incoming : incoming[i].packet < nextPacket
  /\ \A i \in DOMAIN replies : replies[i].packet < nextPacket
  /\ \A t \in Tx : master[t].phase \in AskingPhases => master[t].packet < nextPacket

\* A queued request with the packet id that a transaction waits for is its
\* request, and the last one queued for it.
RequestIsLast ==
  \A i \in DOMAIN incoming, t \in Tx :
    master[t].phase \in AskingPhases /\ master[t].packet = incoming[i].packet =>
      /\ incoming[i].tx = t /\ incoming[i].vars = master[t].vars
      /\ incoming[i].type = Asking[master[t].phase]
      /\ \A j \in DOMAIN incoming : j > i => incoming[j].tx # t

\* When the response a transaction waits for is on its way, none of its
\* requests is queued, and if the response is a success, its bindings are kept.
ResponseIsTrue ==
  \A i \in DOMAIN replies, t \in Tx :
    master[t].phase \in AskingPhases /\ master[t].packet = replies[i].packet =>
      /\ ~Queued(t)
      /\ \/ master[t].phase = "testing" /\ replies[i].err # "noError"
         \/ Holds(handlerKind, pending, t, master[t].vars)

\* The master agent knows what the session keeps.
MasterIsRight ==
  \A t \in Tx :
    /\ master[t].phase \in {"tested", "refused", "committed", "undone"} => ~Queued(t)
    /\ master[t].phase \in {"tested", "committed", "undone"} =>
         Holds(handlerKind, pending, t, master[t].vars)

\* A queued commitSet or undoSet, of this connection or an earlier one, is the
\* next request for its transaction, and its bindings are kept.
CommitIsNext ==
  \A i \in DOMAIN incoming : incoming[i].type \in {"commitSet", "undoSet"} =>
    /\ Holds(handlerKind, pending, incoming[i].tx, incoming[i].vars)
    /\ \A j \in DOMAIN incoming : j < i => incoming[j].tx # incoming[i].tx

TestedInv ==
  PacketsOld /\ RequestIsLast /\ ResponseIsTrue /\ MasterIsRight /\ CommitIsNext

\* The requests that transactions wait for.
LEMMA AskingFacts ==
  /\ Asking["testing"] = "testSet" /\ Asking["committing"] = "commitSet"
  /\ Asking["undoing"] = "undoSet"
  BY DEF Asking

\* A request for another transaction leaves the bindings of t alone.
LEMMA OthersKeepBound ==
  ASSUME Typed, Handle, NEW t \in Tx, Request.tx # t, NEW vs, Holds(handlerKind, pending, t, vs)
  PROVE  Holds(handlerKind', pending', t, vs)
<1>1. handlerKind' = handlerKind /\ Request.tx \in Tx
  BY HandleFacts DEF Requests
<1>2. (IF t \in DOMAIN pending' THEN pending'[t] ELSE <<>>) =
        (IF t \in DOMAIN pending THEN pending[t] ELSE <<>>)
  BY HandleFacts DEF Put, Remove
<1> QED BY <1>1, <1>2 DEF Holds

\* The session's goroutine keeps the invariant.
LEMMA HandleKeepsTested ==
  ASSUME Typed, TestedInv, Handle
  PROVE  TestedInv'
<1> USE DEF TestedInv
<1>0. /\ incoming \in Seq(Requests) /\ replies \in Seq(Replies) /\ incoming # <<>>
      /\ incoming' = Tail(incoming) /\ Request \in Requests /\ Request = incoming[1]
      /\ 1 \in DOMAIN incoming /\ UNCHANGED <<handlerKind, gen, master, nextPacket>>
      /\ Request.tx \in Tx
  <2>1. incoming \in Seq(Requests) /\ replies \in Seq(Replies)
    BY DEF Typed
  <2>2. incoming # <<>> /\ incoming' = Tail(incoming) /\ Request \in Requests
        /\ UNCHANGED <<handlerKind, gen, master, nextPacket>>
    BY HandleFacts
  <2>3. Request = incoming[1] /\ 1 \in DOMAIN incoming
    BY <2>1, <2>2, HeadTailProperties DEF Request
  <2>4. Request.tx \in Tx
    BY <2>2 DEF Requests
  <2> QED BY <2>1, <2>2, <2>3, <2>4
<1>1. /\ \A i \in DOMAIN incoming' :
           i \in Nat \ {0} /\ i + 1 \in DOMAIN incoming /\ incoming'[i] = incoming[i + 1]
      /\ \A i \in DOMAIN incoming : i \in Nat \ {0}
  BY <1>0, HeadTailProperties
<1>2. ASSUME NEW t \in Tx, ~Queued(t) PROVE ~Queued(t)' /\ Request.tx # t
  BY <1>0, <1>1, <1>2 DEF Queued
<1>3. CommitIsNext'
  <2> SUFFICES ASSUME NEW i \in DOMAIN incoming', incoming'[i].type \in {"commitSet", "undoSet"}
               PROVE  /\ Holds(handlerKind', pending', incoming'[i].tx, incoming'[i].vars)
                      /\ \A j \in DOMAIN incoming' : j < i => incoming'[j].tx # incoming'[i].tx
    BY DEF CommitIsNext
  <2>1. i + 1 \in DOMAIN incoming /\ incoming'[i] = incoming[i + 1] /\ 1 < i + 1
        /\ incoming[i + 1] \in Requests
    BY <1>0, <1>1
  <2>2. /\ Holds(handlerKind, pending, incoming[i + 1].tx, incoming[i + 1].vars)
        /\ \A j \in DOMAIN incoming : j < i + 1 => incoming[j].tx # incoming[i + 1].tx
    BY <2>1 DEF CommitIsNext
  <2>3. incoming[i + 1].tx \in Tx /\ Request.tx # incoming[i + 1].tx
    BY <1>0, <2>1, <2>2 DEF Requests
  <2>4. Holds(handlerKind', pending', incoming[i + 1].tx, incoming[i + 1].vars)
    BY <2>2, <2>3, OthersKeepBound
  <2> QED BY <1>1, <2>1, <2>2, <2>4
<1>4. MasterIsRight'
  BY <1>0, <1>2, OthersKeepBound DEF MasterIsRight
<1>5. RequestIsLast'
  <2> SUFFICES ASSUME NEW i \in DOMAIN incoming', NEW t \in Tx, master[t].phase \in AskingPhases,
                      master[t].packet = incoming'[i].packet
               PROVE  /\ incoming'[i].tx = t /\ incoming'[i].vars = master[t].vars
                      /\ incoming'[i].type = Asking[master[t].phase]
                      /\ \A j \in DOMAIN incoming' : j > i => incoming'[j].tx # t
    BY <1>0 DEF RequestIsLast
  <2>1. i + 1 \in DOMAIN incoming /\ incoming'[i] = incoming[i + 1]
    BY <1>1
  <2>2. \A j \in DOMAIN incoming' : j > i => j + 1 > i + 1
    BY <1>1
  <2> QED BY <1>1, <2>1, <2>2 DEF RequestIsLast
<1>6. PacketsOld' /\ ResponseIsTrue'
  <2>1. Request.packet < nextPacket
    BY <1>0 DEF PacketsOld
  <2>2. ASSUME NEW t \in Tx, NEW r \in DOMAIN replies, master[t].phase \in AskingPhases,
               master[t].packet = replies[r].packet
        PROVE  ~Queued(t)' /\ \/ master[t].phase = "testing" /\ replies[r].err # "noError"
                              \/ Holds(handlerKind', pending', t, master[t].vars)
    BY <1>2, <2>2, OthersKeepBound DEF ResponseIsTrue
  <2>3. CASE replies' = replies
    BY <1>0, <1>1, <2>2, <2>3 DEF PacketsOld, ResponseIsTrue
  <2>4. ASSUME NEW r \in Replies, replies' = Append(replies, r), r.packet = Request.packet,
               Request.type # "cleanupSet",
               (r.err = "noError" /\ handlerKind = "twoPhase" /\ Request.type = "testSet")
                 => pending' = Put(Request.tx, Request.vars)
        PROVE  PacketsOld' /\ ResponseIsTrue'
    <3>1. \A i \in DOMAIN replies' : \/ replies'[i] = r
                                     \/ i \in DOMAIN replies /\ replies'[i] = replies[i]
      BY <1>0, <2>4, AppendProperties
    <3>2. PacketsOld'
      BY <1>0, <1>1, <2>1, <2>4, <3>1 DEF PacketsOld
    <3>3. ASSUME NEW t \in Tx, master[t].phase \in AskingPhases, master[t].packet = r.packet
          PROVE  ~Queued(t)' /\ \/ master[t].phase = "testing" /\ r.err # "noError"
                                \/ Holds(handlerKind', pending', t, master[t].vars)
      <4>1. /\ Request.tx = t /\ Request.vars = master[t].vars
            /\ Request.type = Asking[master[t].phase]
            /\ \A j \in DOMAIN incoming : j > 1 => incoming[j].tx # t
        BY <1>0, <2>4, <3>3 DEF RequestIsLast
      <4>2. ~Queued(t)'
        BY <1>1, <4>1 DEF Queued
      <4>3. CASE master[t].phase = "testing"
        <5>1. Request.type = "testSet"
          BY <4>1, <4>3, AskingFacts
        <5>2. r.err = "noError" /\ handlerKind = "twoPhase" =>
                Holds(handlerKind', pending', t, master[t].vars)
          BY <2>4, <4>1, <5>1 DEF Holds, Put
        <5> QED BY <1>0, <4>2, <4>3, <5>2 DEF Holds
      <4>4. CASE master[t].phase \in {"committing", "undoing"}
        <5>1. Request.type \in {"commitSet", "undoSet"}
          BY <4>1, <4>4, AskingFacts
        <5>2. Holds(handlerKind, pending, t, master[t].vars)
          BY <1>0, <4>1, <5>1 DEF CommitIsNext
        <5>3. pending' = pending
          BY <5>1, HandleFacts
        <5> QED BY <1>0, <4>2, <5>2, <5>3 DEF Holds
      <4> QED BY <3>3, <4>3, <4>4 DEF AskingPhases
    <3>4. ResponseIsTrue'
      BY <1>0, <2>2, <3>1, <3>3 DEF ResponseIsTrue
    <3> QED BY <3>2, <3>4
  <2> QED BY <2>3, <2>4, HandleFacts
<1> QED BY <1>3, <1>4, <1>5, <1>6

\* A request of the master agent keeps it.
LEMMA SendKeepsTested ==
  ASSUME Typed, TestedInv, NEW u \in Tx,
         MasterTest(u) \/ MasterCommit(u) \/ MasterUndo(u) \/ MasterCleanup(u)
  PROVE  TestedInv'
<1> USE DEF TestedInv
<1>0. incoming \in Seq(Requests) /\ nextPacket \in Nat /\ replies \in Seq(Replies)
      /\ master \in [Tx -> Transactions]
  BY DEF Typed, TypeOK
<1>1. PICK type \in Types, vs \in Seq(Bindings), phase \in Phases :
        /\ Send(u, type, vs, phase)
        /\ \/ type = "testSet" /\ phase = "testing" /\ master[u].phase = "idle"
           \/ type = "commitSet" /\ phase = "committing" /\ master[u].phase = "tested"
              /\ vs = master[u].vars
           \/ type = "undoSet" /\ phase = "undoing" /\ master[u].phase = "committed"
              /\ vs = master[u].vars
           \/ type = "cleanupSet" /\ phase = "ended"
              /\ master[u].phase \in {"tested", "refused", "committed", "undone"}
  BY MasterSends
<1>2. /\ UNCHANGED <<handlerKind, pending, replies, gen>> /\ nextPacket' = nextPacket + 1
      /\ master'[u].phase = phase /\ master'[u].vars = vs /\ master'[u].packet = nextPacket
      /\ \A t \in Tx \ {u} : master'[t] = master[t]
  BY <1>1, SendFacts
<1>3. PICK r \in Requests : /\ incoming' = Append(incoming, r) /\ r.type = type /\ r.tx = u
                            /\ r.packet = nextPacket /\ r.vars = vs
  BY <1>1, SendFacts
<1> DEFINE n == Len(incoming) + 1
<1>4. /\ n \in DOMAIN incoming' /\ incoming'[n] = r /\ n \in Nat
      /\ \A i \in DOMAIN incoming : i \in DOMAIN incoming' /\ incoming'[i] = incoming[i]
      /\ \A i \in DOMAIN incoming' : i = n \/ (i \in DOMAIN incoming /\ incoming'[i] = incoming[i])
      /\ \A i \in DOMAIN incoming : i \in Nat \ {0} /\ i < n
  BY <1>0, <1>3, AppendProperties
<1> HIDE DEF n
<1>5. \A t \in Tx \ {u} : ~Queued(t) => ~Queued(t)'
  BY <1>3, <1>4 DEF Queued
<1>6. PacketsOld'
  <2>1. \A i \in DOMAIN incoming : incoming[i].packet \in Nat
    <3>1. \A i \in DOMAIN incoming : incoming[i] \in Requests
      BY <1>0
    <3> QED BY <3>1 DEF Requests
  <2>2. \A i \in DOMAIN replies : replies[i].packet \in Nat
    <3>1. \A i \in DOMAIN replies : replies[i] \in Replies
      BY <1>0
    <3> QED BY <3>1 DEF Replies
  <2>3. \A t \in Tx : master[t].packet \in Nat
    BY <1>0 DEF Transactions
  <2>4. \A i \in DOMAIN incoming' : incoming'[i].packet < nextPacket'
    BY <1>0, <1>2, <1>3, <1>4, <2>1 DEF PacketsOld
  <2>5. \A i \in DOMAIN replies' : replies'[i].packet < nextPacket'
    BY <1>0, <1>2, <2>2 DEF PacketsOld
  <2>6. \A t \in Tx : master'[t].phase \in AskingPhases => master'[t].packet < nextPacket'
    BY <1>0, <1>2, <2>3 DEF PacketsOld
  <2> QED BY <2>4, <2>5, <2>6 DEF PacketsOld
<1>7. ASSUME NEW t \in Tx, NEW vs1
      PROVE  Holds(handlerKind', pending', t, vs1) <=> Holds(handlerKind, pending, t, vs1)
  BY <1>2 DEF Holds
<1>8. RequestIsLast'
  <2> SUFFICES ASSUME NEW i \in DOMAIN incoming', NEW t \in Tx, master'[t].phase \in AskingPhases,
                      master'[t].packet = incoming'[i].packet
               PROVE  /\ incoming'[i].tx = t /\ incoming'[i].vars = master'[t].vars
                      /\ incoming'[i].type = Asking[master'[t].phase]
                      /\ \A j \in DOMAIN incoming' : j > i => incoming'[j].tx # t
    BY DEF RequestIsLast
  <2>1. CASE i = n
    <3>1. t = u
      BY <1>0, <1>2, <1>3, <1>4, <2>1 DEF PacketsOld
    <3>2. incoming'[i].type = Asking[master'[t].phase]
      BY <1>1, <1>2, <1>3, <1>4, <2>1, <3>1, AskingFacts DEF AskingPhases
    <3>3. \A j \in DOMAIN incoming' : ~(j > n)
      BY <1>4
    <3> QED BY <1>2, <1>3, <1>4, <2>1, <3>1, <3>2, <3>3
  <2>2. CASE i # n
    <3>1. i \in DOMAIN incoming /\ incoming'[i] = incoming[i] /\ incoming[i].packet < nextPacket
      BY <1>4, <2>2 DEF PacketsOld
    <3>2. t # u
      <4>1. incoming[i] \in Requests
        BY <1>0, <3>1
      <4>2. incoming[i].packet \in Nat
        BY <4>1 DEF Requests
      <4> QED BY <1>0, <1>2, <3>1, <4>2
    <3>3. master'[t] = master[t]
      BY <1>2, <3>2
    <3> QED BY <1>3, <1>4, <3>1, <3>2, <3>3 DEF RequestIsLast
  <2> QED BY <2>1, <2>2
<1>9. ResponseIsTrue'
  <2> SUFFICES ASSUME NEW i \in DOMAIN replies, NEW t \in Tx, master'[t].phase \in AskingPhases,
                      master'[t].packet = replies[i].packet
               PROVE  /\ ~Queued(t)'
                      /\ \/ master'[t].phase = "testing" /\ replies[i].err # "noError"
                         \/ Holds(handlerKind', pending', t, master'[t].vars)
    BY <1>2 DEF ResponseIsTrue
  <2>1. t # u
    <3>1. replies[i] \in Replies /\ replies[i].packet < nextPacket
      BY <1>0 DEF PacketsOld
    <3>2. replies[i].packet \in Nat
      BY <3>1 DEF Replies
    <3> QED BY <1>0, <1>2, <3>1, <3>2
  <2>2. master'[t] = master[t]
    BY <1>2, <2>1
  <2> QED BY <1>5, <1>7, <2>1, <2>2 DEF ResponseIsTrue
<1>10. MasterIsRight'
  <2>1. ASSUME NEW t \in Tx \ {u}
        PROVE  /\ master'[t].phase \in {"tested", "refused", "committed", "undone"} => ~Queued(t)'
               /\ master'[t].phase \in {"tested", "committed", "undone"} =>
                    Holds(handlerKind', pending', t, master'[t].vars)
    BY <1>2, <1>5, <1>7 DEF MasterIsRight
  <2>2. master'[u].phase \in {"testing", "committing", "undoing", "ended"}
    BY <1>1, <1>2
  <2> QED BY <2>1, <2>2 DEF MasterIsRight
<1>11. CommitIsNext'
  <2> SUFFICES ASSUME NEW i \in DOMAIN incoming', incoming'[i].type \in {"commitSet", "undoSet"}
               PROVE  /\ Holds(handlerKind', pending', incoming'[i].tx, incoming'[i].vars)
                      /\ \A j \in DOMAIN incoming' : j < i => incoming'[j].tx # incoming'[i].tx
    BY DEF CommitIsNext
  <2>1. CASE i = n
    <3>1. ~Queued(u) /\ Holds(handlerKind, pending, u, vs)
      BY <1>1, <1>3, <1>4, <2>1 DEF MasterIsRight
    <3>2. \A j \in DOMAIN incoming' : j < n => incoming'[j].tx # u
      BY <1>4, <3>1 DEF Queued
    <3> QED BY <1>2, <1>3, <1>4, <2>1, <3>1, <3>2 DEF Holds
  <2>2. CASE i # n
    <3>1. i \in DOMAIN incoming /\ incoming'[i] = incoming[i] /\ i < n /\ i \in Nat
      BY <1>4, <2>2
    <3>2. \A j \in DOMAIN incoming' : j < i => j \in DOMAIN incoming /\ incoming'[j] = incoming[j]
      BY <1>4, <3>1
    <3> QED BY <1>2, <3>1, <3>2 DEF CommitIsNext
  <2> QED BY <2>1, <2>2
<1> QED BY <1>6, <1>8, <1>9, <1>10, <1>11

\* A response and a new connection keep it.
LEMMA ReceiveKeepsTested ==
  ASSUME Typed, TestedInv, MasterReceives
  PROVE  TestedInv'
<1> USE DEF TestedInv
<1>0. /\ replies \in Seq(Replies) /\ replies # <<>> /\ replies' = Tail(replies)
      /\ UNCHANGED <<handlerKind, incoming, pending, gen, nextPacket>>
  BY ReceiveFacts DEF Typed
<1>1. /\ 1 \in DOMAIN replies /\ Head(replies) = replies[1]
      /\ \A i \in DOMAIN replies' : i + 1 \in DOMAIN replies /\ replies'[i] = replies[i + 1]
  BY <1>0, HeadTailProperties
<1>2. ASSUME NEW t \in Tx
      PROVE  \/ master'[t] = master[t]
             \/ /\ master[t].phase \in AskingPhases /\ master'[t].phase \notin AskingPhases
                /\ master[t].packet = replies[1].packet /\ master'[t].vars = master[t].vars
                /\ \/ master'[t].phase = "refused"
                   \/ master[t].phase = "testing" => replies[1].err = "noError"
  BY <1>1, ReceiveFacts DEF AskingPhases
<1>3. \A vs : \A t \in Tx :
        /\ Queued(t)' <=> Queued(t)
        /\ (Holds(handlerKind', pending', t, vs) <=> Holds(handlerKind, pending, t, vs))
  BY <1>0 DEF Queued
<1>4. PacketsOld'
  BY <1>0, <1>1, <1>2 DEF PacketsOld
<1>5. RequestIsLast'
  BY <1>0, <1>2 DEF RequestIsLast
<1>6. ResponseIsTrue'
  BY <1>1, <1>2, <1>3 DEF ResponseIsTrue
<1>7. MasterIsRight'
  BY <1>1, <1>2, <1>3 DEF MasterIsRight, ResponseIsTrue
<1>8. CommitIsNext'
  BY <1>0 DEF CommitIsNext
<1> QED BY <1>4, <1>5, <1>6, <1>7, <1>8

\* Every step keeps the invariant, if a new master agent goes on counting.
LEMMA TestedStep ==
  ASSUME ~PacketIDsRestart, Typed, TestedInv, [Next]_vars
  PROVE  TestedInv'
<1>1. CASE ConnectionReplaced
  <2>1. /\ UNCHANGED <<handlerKind, incoming, pending, nextPacket>> /\ replies' = <<>>
        /\ \A t \in Tx : master'[t].phase = "idle"
    BY <1>1 DEF ConnectionReplaced, NoTransaction
  <2>2. "idle" \notin AskingPhases /\ DOMAIN replies' = {}
    BY <2>1 DEF AskingPhases
  <2> QED BY <2>1, <2>2 DEF TestedInv, PacketsOld, RequestIsLast, ResponseIsTrue, MasterIsRight,
          CommitIsNext
<1>2. CASE UNCHANGED vars
  BY <1>2 DEF vars, TestedInv, PacketsOld, RequestIsLast, ResponseIsTrue, MasterIsRight,
          CommitIsNext, Queued
<1> QED BY <1>1, <1>2, HandleKeepsTested, SendKeepsTested, ReceiveKeepsTested DEF Next

\* What a step of the session's goroutine calls the handler with.
LEMMA CallsRight ==
  ASSUME Typed, TestedInv, HandlerGetsTestedBindings, [Next]_vars
  PROVE  HandlerGetsTestedBindings'
<1>0. CASE UNCHANGED <<call, handlerKind>>
  BY <1>0 DEF HandlerGetsTestedBindings
<1>1. CASE Handle
  <2>1. Request.type \in {"commitSet", "undoSet"} =>
          Holds(handlerKind, pending, Request.tx, Request.vars)
    <3>1. incoming \in Seq(Requests) /\ incoming # <<>>
      BY <1>1, HandleFacts DEF Typed
    <3>2. 1 \in DOMAIN incoming /\ Request = incoming[1]
      BY <3>1, HeadTailProperties DEF Request
    <3> QED BY <3>2 DEF TestedInv, CommitIsNext
  <2>2. handlerKind' = handlerKind
    BY <1>1, HandleFacts
  <2>3. CASE HandleTestSet
    <3>1. call'.op \in {"none", "test", "set"}
      BY <2>3 DEF HandleTestSet, Called, NoCallMade
    <3> QED BY <3>1 DEF HandlerGetsTestedBindings
  <2>4. ASSUME NEW op \in {"commitSet", "undoSet"}, NEW failure, HandleCommitOrUndo(op, failure)
        PROVE  HandlerGetsTestedBindings'
    <3>1. Holds(handlerKind, pending, Request.tx, Request.vars)
      BY <2>1, <2>4 DEF HandleCommitOrUndo
    <3>2. CASE handlerKind = "twoPhase" /\ Bound(Request.tx) # <<>>
      <4>1. call' = [op |-> op, reqs |-> Bound(Request.tx), tested |-> Request.vars]
        BY <2>4, <3>2 DEF HandleCommitOrUndo, Called
      <4> QED BY <3>1, <3>2, <4>1 DEF Holds, Bound, HandlerGetsTestedBindings
    <3>3. CASE ~(handlerKind = "twoPhase" /\ Bound(Request.tx) # <<>>)
      <4>1. call' = [op |-> "skipped", reqs |-> <<>>, tested |-> Request.vars]
        BY <2>4, <3>3 DEF HandleCommitOrUndo, NoCallMade
      <4> QED BY <2>2, <3>1, <3>3, <4>1 DEF Holds, Bound, HandlerGetsTestedBindings
    <3> QED BY <3>2, <3>3
  <2>5. CASE HandleCleanupSet
    BY <2>5 DEF HandleCleanupSet, NoCallMade, HandlerGetsTestedBindings
  <2> QED BY <1>1, <2>3, <2>4, <2>5 DEF Handle
<1> QED BY <1>0, <1>1, ReceiveFacts DEF Next, vars, MasterReceives, ConnectionReplaced, MasterTest,
           MasterCommit, MasterUndo, MasterCleanup, Send

\* CommitSet and UndoSet are called with exactly the bindings that their own
\* transaction tested, and are not skipped when there are any, for any
\* interleaving of transactions and for requests left over from earlier
\* connections, as long as a new master agent does not use old packet ids again.
THEOREM TestedBindingsReachHandler ==
  ASSUME ~PacketIDsRestart
  PROVE  Spec => []HandlerGetsTestedBindings
<1>1. Init => TestedInv /\ HandlerGetsTestedBindings
  <2> SUFFICES ASSUME Init PROVE TestedInv /\ HandlerGetsTestedBindings
    OBVIOUS
  <2>1. /\ DOMAIN incoming = {} /\ DOMAIN replies = {} /\ call.op = "none"
        /\ \A t \in Tx : master[t].phase = "idle"
    BY DEF Init, NoTransaction, NoCallMade
  <2> QED BY <2>1 DEF TestedInv, PacketsOld, RequestIsLast, ResponseIsTrue, MasterIsRight,
          CommitIsNext, AskingPhases, HandlerGetsTestedBindings
<1>2. Typed /\ TestedInv /\ HandlerGetsTestedBindings /\ [Next]_vars =>
        Typed' /\ TestedInv' /\ HandlerGetsTestedBindings'
  BY TypedStep, TestedStep, CallsRight
<1> QED BY <1>1, <1>2, TypedInit, PTL DEF Spec
=============================================================================
