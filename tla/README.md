# A TLA+ verification of go-agentx

go-agentx is a subagent library for the AgentX protocol (RFC 2741).  A program
opens a `Client` on a connection to the master agent (an SNMP daemon), opens
`Session`s on it, registers subtrees, answers the master agent's requests
through a `Handler`, and sends traps.  The library is concurrent throughout: it
keeps four goroutines per client, one per session and one per reconnect, and
the program's own goroutines call into it at any time.

The modules here model that concurrency, the reconnects, the routing of
requests and responses, set transactions, get and getNext, framing, the payload
codecs and the list handler.  They are checked by TLC on small instances; the
safety properties are also proved with TLAPS for all instances, and so is that
the request path implements its specification.

## 1. Inventory

| Part (source) | State | Operations | Talks to |
|---|---|---|---|
| request path (`client.go`) | `nextPacketID`, `pending`, `tx`, `conn`, `done`, a response channel per call | `request`, `sendBytes`, `addPending`, `takePending`, `runTransmitter`, `runReceiver`, `reconnect`, `Close` | callers over `tx` and response channels, the dispatcher over `rx`, the master agent over the connection |
| session lifecycle (`client.go`, `session.go`) | `sessions`, `sessionID`, `registerRequestPacket`, `Session.done` | `Client.Session`, `Register`, `Unregister`, `Close`, `reopen`, `reopenSessions` | the request path; the routing table is shared with the dispatcher |
| request dispatch (`client.go`, `session.go`) | `Session.incoming` (16 entries), `rx` | `runDispatcher`, `enqueue`, `Session.run`, `send`, parse errors | receiver to dispatcher to session goroutines to handler, and all of them to the transmitter |
| set transactions (`session.go`, `handler.go`) | `Session.pending` by transaction id | `handle` for testSet, commitSet, undoSet, cleanupSet | the handler |
| background errors (`client.go`) | `errorChan` (10 entries), `errorClosed`, `errorMu` | `reportError`, `Close`, `runErrorHandler` | every goroutine of the client |
| framing (`client.go`, `pdu/header.go`) | position in the stream, header being read | `readHeaderPacket`, `Header.UnmarshalBinary`, `Validate`, `packetForType` | the receiver |
| list handler (`list_handler.go`, `value/oid.go`) | `oids`, `items` | `Add`, `Set`, `Get`, `GetNext`, `CompareOIDs`, `SortOIDs` | the session's goroutine and the program |
| get and getNext (`session.go`, `client.go`) | the response being built | `handle`, `getError`, `send` with its genErr fallback | the handler, range by range |
| payload codecs (`pdu/`) | none; a decoder's offset | `MarshalBinary`, `UnmarshalBinary` of oids, octet strings, variables, ranges and every packet | receiver and transmitter |
| index allocation (`pdu/`) | none | | used by nothing in the client; not modelled |
| options, logging, names | none | | not modelled |

What is hard about it: the pending map is shared by callers and dispatcher and
a timeout races a late answer; the connection is replaced under everybody's
feet and sessions are replayed while their users go on calling; all answers go
through one unbuffered channel, so that everybody may wait for everybody;
`Close` must release all of them; queued requests outlive the connection they
came from; handlers make requests of their own while their session's queue
fills; the byte stream breaks anywhere, and what is in a payload may contradict
itself.  `PROJECT.json` lists these hazards
at their lines with the properties that watch over them.

What makes each part correct:

- request path: an answer reaches only its own request; a waiting request can
  be woken; nothing is left behind in `pending`; the dispatcher never blocks on
  a caller; every request returns; `Close` ends the goroutines;
- sessions: a session is in one pair of hands; after a reconnect what was open
  is open again; one failure does not cost the others their turn; a closed
  session is routed no more;
- dispatch: every request is answered, once, rightly and in order, whatever
  other sessions do; `Close` ends everything;
- set transactions: commit and undo get exactly what this transaction tested;
- errors: no send on the closed channel, no blocked `Close`, nothing lost
  unnoticed;
- framing: the receiver stays at PDU boundaries and gives up only when it must;
- list handler: `GetNext` is the least successor, a walk is complete;
- get and getNext: every request gets an answer, each binding belongs to its
  range, a failure carries no bindings;
- codecs: what is encoded is decoded to the same meaning; no payload makes a
  decoder look past its end, lose its alignment or stop advancing.

## 2. Modules

| Module | Models | Proofs |
|---|---|---|
| `CallSpec` | abstract: what `Client.request` promises | |
| `RequestResponse` | the request path, down to each channel operation | `RequestResponseProofs` |
| `Sessions` | sessions, routing table, reopeners, master agent | `SessionsProofs` |
| `Dispatch` | a PDU's way to its handler and the answer's way back | `DispatchProofs` |
| `SetTransaction` | the set protocol of one session | `SetTransactionProofs` |
| `ErrorChannel` | `reportError`, `Close`, the error handler | `ErrorChannelProofs` |
| `Framing` | the byte stream and `readHeaderPacket` | `FramingProofs` |
| `ListHandler` | the list and its four methods, over oids; used by `Answers` | `AnswersProofs` |
| `Answers` | get and getNext through `Session.handle` and `Client.send`, and a master agent's walk over several columns | `AnswersProofs` |
| `Codec` | the encoders and decoders of `pdu`, as operators over bytes | `PayloadsProofs` |
| `Payloads` | a payload encoded item by item, possibly damaged, and decoded item by item with `Codec` | `PayloadsProofs` |

`MC*` modules add only symmetry sets and constant values for TLC.  `map` in
`PROJECT.json` gives for each definition the lines it stands for.  Operators
commented "Mutant of X" are plausible mistakes in X; each shows that some
property would notice.  They are used by no specification.

**RequestResponse.**  Each element of `Calls` is one execution of
`Client.request`, with its program counter, packet id and response channel (of
capacity one).  Sends on the unbuffered channels `tx` and `rx` are joint steps
of sender and receiver.  Between any two of these steps everything else may
happen.  The socket is a bounded buffer in each direction, so that `Write` can
block.  Frames carry the call they were made for, as a ghost.
The master agent answers in any order, late, twice, or never.  A connection is
lost in an orderly way (`"lost"`, read as EOF) or not (`"reset"`), and
`net.Dial` and `setConn` are two steps.  `nextPacketID` counts requests; the id
is the count modulo `PacketIDSpace`, as the code's `uint32` wraps.

**CallSpec** has calls and outcomes only.  The mapping takes a call as open
from the drawing of its id to the moment its `select` decides, and an answer
made for another call as an outcome `CallSpec` does not have.

**Sessions.**  A request is known by its stages: queued with the id read at
that moment, written to the connection that is current later, answered, lost,
timed out.  Each session has a user goroutine, each reconnect a reopener;
several may be at work.  A user may close a session a second time (`"reclose"`),
which again deletes whatever the table has under its id.  The master agent keeps, for the current connection,
who opened which id and which ids have a registration; a new one may assign
ids anew.  `reported` are the sessions whose failure to re-open went to
`reportError`.  A master agent may handle a request after its caller gave up.
It handles the PDUs of a connection in the order they were sent, so whatever the
client sends later finds that request done, and a late grant is the same to the
client as one just before the timeout, which the model has.  `Client.Close` and a
second user of one session are not in this module.

**Dispatch.**  PDUs are numbered; kinds are requests, cleanupSet, responses and
garbled ones of either sort.  Receiver, dispatcher and session goroutines share
the transmitter.  `Prompt` names the sessions whose handlers return, `Asking`
those whose handlers may call `SendTrap`, `Register` or the like: the session's
goroutine then waits for the transmitter, and after that for a response that
comes through the receiver and dispatcher that serve its own queue, or for its
timer.  `Targets` are the sessions PDUs are addressed to.

**SetTransaction.**  The session's goroutine handles one request per step,
since nothing else touches `pending`.  The handler may refuse any binding.  The
master agent follows RFC 2741 7.2.4.  A lost connection leaves queue and
`pending` as they are, as the code does.

**ErrorChannel.**  The `RWMutex` is modelled as Go has it: a waiting writer keeps new
readers out.

**Framing.**  Bytes arrive in pieces of any size.  The length in a header is
two digits in the order of its flag, and decoded as the code does, from the flag.
`starts` is a ghost: where each PDU begins in the stream.

**ListHandler.**  Oids are sequences of numbers; a text is an oid and whether
it is written with leading zeros, the one thing parsing loses.  Each method
holds the mutex throughout and is one step.  Sorting is some rearrangement that
`CompareOIDs` calls sorted, as `sort.Slice` gives no more.  `Precedes`, the
lexicographic order stated without the algorithm, is what to compare with.

**Answers.**  `Session.handle` takes one step per search range; in between the
program adds and sets items.  A handler is a list, absent, or fails at any range
with any kind of error.  A value is encodable or not; `Send` puts genErr in the
place of a response that does not encode.  The master agent walks several
columns with one getNext, each request going on from the last answers, with the
remaining columns in any order.

**Codec, Payloads.**  Bytes have `Radix` values and words four bytes, so that all
arithmetic of offsets, lengths and byte order is the code's; only the radix and
the greatest oid are smaller in the run.  A number is put together from two
halves, each from two halves, down to bytes, in the order the header declares.
Encoding takes a step for the fixed part of a packet and one per item, as the
loops of the code do; an error on the way leaves nothing to send.  `starts`, a
ghost, notes where each item began.  A decoder's result says how many bytes it
used and how far it looked, also when it rejects what it saw: a length that is
read before it is known to be there shows in `InBounds`.  A packet that is encoded may be cut at any byte,
changed in any one byte to any value, or lengthened.  Values carry their Go
type, since encoders accept some and refuse others.  `CodecAssumption` and
`PacketsAssumption` say what the Go types say: the widths of numbers, bytes and
lengths, different codes for different types, and of a packet that it has the
fields of its kind.  The texts of oids (`OIDTexts`) are a table, parsed in
`ListHandler`.  Of the two oids of a notification it is used only that they
differ and that sysUpTime.0 is not too long to encode.

## 3. Runs

| Run (`.cfg`) | Shows | Bounds, and why they are enough |
|---|---|---|
| `request_response` (`RequestResponse`) | `Correlation`, `WaitingIsReachable`, `ImplementsCallSpec` | two calls, a loss, two frames per direction: a late or doubled answer meets a second request, before and after a reconnect |
| `requests_return` (`RequestResponseLive`) | `NoPendingLeak`, `DispatcherNeverBlocks`, `EveryCallReturns`, `CloseStopsTheClient` | two calls on a single packet id, so that it is reused while its first owner is anywhere in `request`; a socket of one frame, so that `Write` blocks |
| `session_ownership` (`Sessions`) | `OneOwner` | two sessions, two losses with overlapping reopeners, users opening, closing and closing again at any time, refusals, early timeouts, id reuse |
| `reestablish` (`SessionsReopen`) | `Reestablished`, `ClosedIsNotRouted`, `EverySessionGetsATurn` | two sessions, all calls, one loss; calls and the loss keep apart (`Quiet`); the master agent may refuse, so that one session fails and the other goes on |
| `set_transactions` (`SetTransaction`) | `HandlerGetsTestedBindings`, `NothingLeftBehind` | two transactions of up to two bindings, all kinds of handler, one replaced connection; packet ids are not restarted |
| `dispatch` (`Dispatch`) | `AnswersAreRight`, `AnsweredInOrder` | three PDUs of any kind, two sessions and an unknown one, sessions closing, handlers that ask; a queue of two, so that there is an order to get wrong |
| `slow_handler` (`DispatchLive`) | `RequestsAnswered`, `CloseEndsEverything` | three requests with queue and socket of one, a handler that never returns and one that asks: the dispatcher waits at a full queue, also that of the session that is asking, sessions at the transmitter, the transmitter at the socket |
| `framing` (`Framing`) | `StaysFramed`, `OutcomesMatch`, `GivesUpOnlyWhenLost`, `ArrivedIsRead` | two PDUs of every kind and length class, one reconnect |
| `error_channel` (`ErrorChannel`) | `NoSendOnClosed`, `ErrorsAccounted`, `CloseIsNotBlocked`, `HandlerDrainsAndEnds` | two reporters, more errors than the channel holds |
| `answers` (`Answers`) | `GetNextIsLeast`, `AnswersFit`, `WalkIsComplete`, `EveryRequestAnswered` | oids with a parent, siblings and numbers whose text sorts differently; requests of one and two ranges; four requests, so that a walk of two columns whose ends differ comes to its end; every range in `GetNextIsLeast` |
| `codec` (`Payloads`) | `RoundTrip`, `InBounds`, `StaysAligned`, `NotifiesInOrder` | every packet kind, type, Go type and encoder's error; texts of 0, 1, 3, 4 and 5 bytes; oids empty, compressed and too long; lists of two, so that there is a next item to be moved; both byte orders; every cut and every change of one byte |
| `close_during_reopen` (`SessionsClose`) | `ClosedIsNotRouted` fails | one session, one loss |

Deadlock is not checked: all these systems may come to rest (no more requests
within the bounds, or a closed client).  What must not rest is stated as
liveness.

The last run shows a disagreement between the code and its own comment
(`findings` in `PROJECT.json`).  `Session.Close` sends its request; the
connection is lost; the reopener takes the session out of the table and begins
to re-open it; `Close` times out, finds nothing to delete and closes
`Session.done`; the reopener, which does not look at `done`, puts the closed
session back.

These are the runs listed in `PROJECT.json`.  More configurations are kept beside
them, for questions that need another instance.  Three pass:

| `.cfg` (module) | Shows | Why |
|---|---|---|
| `RequestResponseClose` (`MCRequestResponse`) | `EveryCallReturns`, `CloseStopsTheClient` | one call, one loss of either sort, a reconnect and `Close` at any of their steps; two calls with a loss are too many states for liveness |
| `SessionsTurns` (`MCSessions`) | `EverySessionGetsATurn` | two losses, so that a reopener is overtaken by the next, refusals, early timeouts and id reuse: a re-opening fails in each way it can |
| `DispatchPaths` (`MCDispatch`) | `RequestsAnswered`, `CloseEndsEverything` | one session whose handler asks, and an unknown one; PDUs that are requests, do not parse or are responses: with one answer in the socket and one in the transmitter, the third blocks the receiver (parseError), the dispatcher (notOpen) or the session, and the response a handler waits for is behind them |

The others fail.  Each shows what the code does where a comment, a test or the
README says more:

| `.cfg` (module) | Fails | How |
|---|---|---|
| `SessionsSecondLoss` (`MCSessions`) | `Reestablished` | a connection lost just after it answered a re-open lets the next reopener take its snapshot before the first one has put the session back, which is then routed under an id of the dead connection, unreported; client.go:337-338: "re-opens every session that was established before the connection dropped" |
| `SessionsOpen` (`MCSessions`) | `Reestablished` | the same for a new session, lost between `openSession` and `registerSession` |
| `SessionsRegister` (`MCSessions`) | `RegistrationReplayed` | a `Register` that was granted just before the loss is recorded after `reopen` looked for it: it returned no error, and the registration is gone; client.go:366-367: "replays the open and registration of every session" |
| `SessionsForgotten` (`MCSessions`) | `NoneForgotten` | a session opened before the snapshot is given, and overwrites, the id of an old one, which is then in no snapshot |
| `RequestResponseTeardown` (`MCRequestResponse`) | `CloseEndsReceiver` | `Close` between `net.Dial` and `setConn` does not see the new connection, and the receiver reads on; client.go:117: "Close tears down the client" |
| `RequestResponseReset` (`MCRequestResponse`) | `TriesToReconnect` | a read error other than EOF ends the receiver, and nobody redials; the repository's README.md:112: "If the connection to the snmp-daemon is lost, the client tries to reconnect" |
| `RequestResponseDeaf` (`MCRequestResponse`) | `EveryCallReturns` | nothing is assumed of the master agent (`ClientFairSpec`): `Write` blocks, and the next request waits in `sendBytes`, where no timer runs; client_internal_test.go:237: "must not park the caller forever" |
| `SetTransactionLoss` (`MCSetTransaction`) | `EntriesAreRemoved` | a connection lost between testSet and cleanupSet leaves its bindings in the pending map; session.go:42-44: "always terminates a transaction with cleanupSet" |
| `AnswersPadded` (`MCAnswers`) | `StrictlySorted` | `Add` tells items apart by their text, and the list holds what it parses to; list_handler_internal_test.go:136-137: no "duplicate in the sorted list" |

The passing configurations hold under conditions that the constants name.  Where
the code gives no more than that:

- `EveryCallReturns` needs a master agent that goes on reading (`FairSpec`).
- `CloseStopsTheClient` leaves out the receiver whose reconnect installs a
  connection after `Close` has closed the old one, and no other.
- `Reestablished` and `ClosedIsNotRouted` are about calls and losses that keep
  apart (`Quiet`): no call between a loss and the end of the re-opening, and no
  loss while a call is in progress.  Without that they fail, as the runs above
  show.
- `Reestablished` is checked for one loss, and for users who close once: a second
  `Close` deletes the entry of another session that was given the id meanwhile.
- `NothingLeftBehind` allows for the bindings of a transaction that a lost
  connection interrupted; nothing else leaves any.
- `HandlerGetsTestedBindings` needs a master agent whose packet ids go on
  (`PacketIDsRestart = FALSE`): one that starts over can take an answer to the
  old connection's request for its own and commit.
- `RequestsAnswered` holds until a slow session's queue is full: one more
  request for it blocks the dispatcher, and with it all sessions.  A queue that
  is full because its handler is asking is no excuse: its timer frees it.
- `ErrorsAccounted` counts the errors that meet a full channel as dropped:
  `reportError` does not wait.
- A request that waits for the transmitter across a reconnect carries the old
  session id to the new master agent, which may have given it to another session.
  The client's tables bear that (`OneOwner`); what it does at the master agent is
  not stated.
- A response whose type and value were torn by an unsynchronised write to a
  `ListItem` is one with a value that does not fit, answered by genErr; one that
  fits by chance, and the race itself, are not in the model.
- `GetNextIsLeast` and `WalkIsComplete` need oids written without leading zeros
  (`Paddings = {FALSE}`).

## 4. Fairness

- A goroutine that can take a step takes one in the end (weak fairness): Go's
  scheduler is preemptive.
- A `select` that finds `<-c.done` ready again and again takes it some time
  (strong fairness of `TransmitterExit`, `DispatcherExit`): Go chooses among
  ready cases at random.
- A goroutine blocked sending on `c.tx` has its turn (strong fairness of the
  sends in `Dispatch`): a Go channel queues its senders in order.
- Timers fire.  `net.Dial` need not succeed in `RequestResponse`; in `Sessions`
  some redial does.
- The master agent: `ClientFairSpec` assumes nothing of it, `FairSpec` that it
  goes on reading its socket.  It need not answer.
- In `Answers` the session's goroutine runs and handlers return; the program
  and the master agent need not do anything.
- Handlers return only where `Prompt` says so; the error handler only where
  `HandlerDrainsAndEnds` says so; nobody need call `Close`.

## 5. Proofs

Each module of proofs has an inductive invariant, a lemma per action or group of
actions, and theorems that combine them.  They hold for all values of the
constants that the modules' `ASSUME`s allow, which TLC evaluates in every run:
bounds are naturals, "none" values are no members, `UserCalls` are calls, a
session is not the name of a reopener.  What a theorem assumes beyond that is
named below with the reason; each such assumption holds in the run that checks
the same property.

**RequestResponseProofs.**

- *Channels.*  `ChannelInv` strengthens `NoPendingLeak` and
  `DispatcherNeverBlocks`, which are not inductive: one must know that a call
  is in `pending` at most under its own id, that its channel is still empty
  while it is there, and that a channel the dispatcher has taken is in the map
  no longer.  From it follow `TypeCorrect`, `PendingBounded` and
  `DeliveryNeverBlocks`, with wrapping ids.
- *Correlation.*  `CorrelationInv` adds that ids of different calls differ and
  that every frame, wherever it is, carries the id of the call it was made for.
  This needs the assumption `NoWrap`: no more requests than ids.  Without it
  the property is false, since an answer 2^32 requests late is taken for a new
  one's.  `ResponsesCorrelate` and `WaitersReachable` follow.
- *Refinement.*  `RequestPathImplementsCallSpec`, also under `NoWrap`: every
  step is a step of `CallSpec` or none.  `RefinementInv` adds at which stage a
  call may have which outcome, and that a frame on its way back was answered,
  which `CallSpec` asks of a response before it is returned.

**SessionsProofs.**  `OwnerInv` strengthens `OneOwner` by what reopeners hold at
each stage (`ReopenerHands`: nothing before the snapshot; a current session
exactly while working on one), by the sessions nobody can hold yet
(`NotYetShared`), and by the numbering of connections (`LossCounted`).  The
argument: the snapshot empties the table in the same critical section, so a
session moves from the table to one reopener; it returns to the table in the
step in which the reopener lets go of it; and its id changes only in its
reopener's hands.  `SessionsTypeCorrect` and `SingleOwner` follow.

`ClosedStaysUnrouted` assumes `Quiet`, without which it is false.  `ClosedInv`
adds to `ClosedIsNotRouted` that no closed session is in a reopener's hands and
that users are idle while one is at work.  `OwnerInv` is needed with it: a
`Close` removes its session because the table has it under its own id or
nobody else has it.

`SessionsReestablished` is the longest argument.  `StandInv` says for every
session where it stands (`AllStand`): in the table and known to the master
agent; in the hands of the reopener of the current connection, with the part
that is already replayed; reported; or not yet open.  It needs the requests in
flight to be understood (`UserRequests`, `ReopenRequests`), one reopener at a
time (`OneAtATime`), users who are idle meanwhile (`Undisturbed`), and different
ids for different sessions (`IdsApart`).  `Orderly` are the conditions on the
environment: calls and losses keep apart (`Quiet`), requests do not
time out before their answer (`~Impatient`), and where the master agent gives
ids out again there is one loss and nobody closes twice.  `LossesApart` says
that no connection is lost while its reopener is at work.  Each is needed, with
a counterexample by TLC when it is left out: without `LossesApart` a reopener
puts a session back under an id of the connection that was just lost; with ids
given out again and two losses, a session that failed to re-open keeps an id that
now is another's, and closing it closes the other.  `ReestablishedOnce` is the same with
at most one loss, at any moment, instead of `LossesApart`; it covers the
run `reestablish`.

**ErrorChannelProofs.**  `LockInv` says who holds the lock at which stage and
that a closed channel excludes readers past their check: `NeverSendsOnClosed`.
`AccountInv` adds that errors in different hands differ and that all are among
those reported so far: `NoErrorVanishes`.

**SetTransactionProofs.**  `PendingIsCleaned` rests on the master agent's phases
and the queue: a transaction that has ended has its cleanupSet in the queue or
handled.  `TestedInv` follows the bindings of a transaction from testSet to
commit or undo through queue, `pending` and the answers on the way, and across
a replaced connection.  `TestedBindingsReachHandler` assumes
`~PacketIDsRestart`, without which it is false.

**DispatchProofs.**  `TypeInv` bounds the queues.  `FlowInv` says that every PDU
is in one place only, that the places of one session are in the order the PDUs
were sent, from the socket through dispatcher, queue and goroutine to the
transmitter, and that what is answered is behind them.  `DispatchAnswersRight`
and `DispatchAnswersInOrder` follow, with handlers that never return or ask,
sessions that close, and full queues.

**FramingProofs.**  `FramingInv` ties position, phase and header read to the PDU
being read: `pos` is at its beginning, or a known number of bytes into it.  The
ghost `starts` makes that a fact about one PDU, not a sum over all.
`ReceiverStaysFramed`, `OutcomesAreDeserved` and `GivesUpForAReason` follow.

**AnswersProofs.**  First the algorithms, for all oids: `CompareOIDs` decides
the lexicographic order, which is total and transitive; inserting and sorting
keeps a list strictly sorted (`SortInserts`, `AddKeepsList`); `oidWithin` decides
the search range; `GetNext` finds its least member.  Then requests: `RequestInv`
says that list and items are in step, that each binding of a response fits the
range it answers, and that an answer is the response or genErr.
`AnswersTypesCorrect` and `AnswersFitTheirRanges` follow for all texts.  Then
walks: `WalkInv` says of a column that goes on that it asks for what is
beyond the last oid seen, that what was there when it began is seen or in that
range, and that the answer does not pass over it.  `GetNextAnswersLeast` and
`WalksAreComplete` assume `Plain`, texts without leading zeros; with them the
same oid may be listed twice, and an item may not be found.

**PayloadsProofs.**  From numbers up to packets, in five stages.

- *Numbers.*  The base is not fixed, so that the arithmetic is not linear:
  `DivUnique` gives quotient and remainder, from which two halves make the whole
  again (`Uint16Codec`, `Uint32Codec`, `Uint64Codec`), in either order.
- *Round trips.*  `Carries(payload, at, bytes)` says that an encoding lies at
  an offset in some payload, with anything around it.  For every encodable
  oid, text, value, variable, range, item and head, the decoder at that offset
  answers with as many bytes as were encoded and the same meaning (`OIDCodec` to
  `ItemCodec`, `HeadCodec`).  No induction is needed: sub-identifiers are read
  each at its own place.
- *Any bytes.*  `Fits` is what a decoder that accepts anything at all keeps to:
  it looked no further than the end, used some whole words, and in a payload of
  whole words ended at its end or before (`OIDDecodes` to `ItemDecodes`).
  One that rejects has looked no further either (`RejectedFits`).
- *Steps.*  `Sound` (types, what is empty at which stage, alignment) is
  inductive with the third stage alone, damage included, and gives
  `DecodersStayInBounds` and `PayloadsStayAligned`.
- *Layout.*  For what is not damaged, `LaidOut` says that the bytes of item `k`
  are at `starts[k]` and end where the next item starts, or the payload does;
  `ReadBack` that the decoder has come to such a place and that what it has
  decoded means what was encoded.  With the second stage that gives
  `PacketsSurviveTheWire`.  It replaces an induction over the list: each step
  adds one item at either end.  `Reasons` adds why a packet may be unencodable,
  for `NotificationsAreInOrder`.

Only model-checked: the liveness properties (`EveryCallReturns`,
`CloseStopsTheClient`, `EverySessionGetsATurn`, `RequestsAnswered`,
`CloseEndsEverything`, `ArrivedIsRead`, `CloseIsNotBlocked`,
`HandlerDrainsAndEnds`, `EveryRequestAnswered`), which rest on fairness and are
out of the prover's reach.

## 6. Not modelled

Names and texts, logging, dial options: tables and configuration without
control.  Index allocation: nothing in the library uses it.  `OID.First` and
`OID.CommonPrefix`, which nothing calls, and `marshaler/multi.go`, which is
deprecated and unused.  Two users of one session at the same
moment.  The data race on the fields of a `ListItem`, beyond what is said above.

## 7. Plan

Done, in this order, because each rests on the one before: the request path,
sessions across reconnects, dispatch, set transactions, errors, framing, the
list handler; then closing twice and during a re-opening, handlers that ask,
get and getNext with several ranges, and the payload codecs; then the proofs of
section 5, the codecs last, for which their encoders were put into steps of one
item.  Next: a second user of one session at the same moment, in `Sessions`,
which the proofs there do not cover yet.
