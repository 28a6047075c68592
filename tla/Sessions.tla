------------------------------ MODULE Sessions ------------------------------
(***************************************************************************)
(* The life of agentx sessions across connection losses: the calls a user  *)
(* makes on a session (Client.Session, Register, Unregister, Close), the   *)
(* reopenSessions goroutine that each reconnect starts, the client's       *)
(* routing table c.sessions, and what the master agent keeps for the       *)
(* current connection.                                                     *)
(*                                                                         *)
(* A request/response exchange (module RequestResponse) appears here by    *)
(* its stages: queued with the session id read at that moment, written to  *)
(* whatever connection is current then, answered, and picked up; or lost,  *)
(* and then timed out.                                                     *)
(***************************************************************************)
EXTENDS Integers, FiniteSets

CONSTANTS
  Sess,             \* the Session objects
  NoSession,        \* "no entry" in a map
  MaxID,            \* bound: session ids 1 .. MaxID; 0 is "none assigned"
  MaxDrops,         \* bound: connection losses
  UserCalls,        \* which calls users make; "reclose" is a Close of a closed session
  Refusals,         \* may the master agent refuse a request it could grant?
  Impatient,        \* may a request time out although its answer is coming?
  ReuseIDs,         \* may a new connection assign ids of an older one?
  Quiet             \* do calls and losses keep apart: no call between a loss and the end
                    \* of the re-opening, and no loss while a call is in progress?

ASSUME NoSessionAssumption == NoSession \notin Sess
ASSUME SessionBoundsAssumption == MaxID \in Nat \ {0} /\ MaxDrops \in Nat
ASSUME UserCallsAssumption == UserCalls \subseteq {"register", "unregister", "close", "reclose"}
ASSUME EnvironmentAssumption == {Refusals, Impatient, ReuseIDs, Quiet} \subseteq BOOLEAN

IDs == 1 .. MaxID
Gens == 2 .. MaxDrops + 1     \* the connections after the first, and their reopeners
Threads == Sess \cup Gens     \* a user goroutine per session, a reopener per reconnect

ASSUME ThreadsAssumption == Sess \cap Gens = {}

VARIABLES
  \* the Client
  up,               \* the connection is established
  gen,              \* how many connections there have been
  routes,           \* c.sessions: routes[i] is the session under id i
  \* the Session objects
  id,               \* sessionID
  registered,       \* registerRequestPacket # nil
  sdone,            \* s.done is closed
  userPc,           \* userPc[s]: the call its user is in
  \* the reopenSessions goroutines
  reopenPc,         \* reopenPc[g]
  todo,             \* todo[g]: the snapshot not yet gone through
  cur,              \* cur[g]: the session being re-opened
  reported,         \* reported[s]: a failure to re-open s was given to reportError
  \* requests in flight, one per goroutine
  req,
  \* the master agent, for the current connection
  owner,            \* owner[i]: the session that opened i, NoSession if not open
  regions,          \* ids with a registration
  used              \* ids assigned so far, by this master agent or by all of them

clientVars  == <<up, gen, routes>>
sessionVars == <<id, registered, sdone, userPc>>
reopenVars  == <<reopenPc, todo, cur, reported>>
masterVars  == <<owner, regions, used>>
vars == <<clientVars, sessionVars, reopenVars, req, masterVars>>

\* Users that stay quiet wait until no reopener is at work on this connection.
MayCall == Quiet => up /\ \A g \in Gens : reopenPc[g] \in {"none", "done"}

NoReq == [kind |-> "none", sid |-> 0, status |-> "none", newID |-> 0]

Init ==
  /\ up = TRUE /\ gen = 1
  /\ routes = [i \in IDs |-> NoSession]
  /\ id = [s \in Sess |-> 0]
  /\ registered = [s \in Sess |-> FALSE]
  /\ sdone = [s \in Sess |-> FALSE]
  /\ userPc = [s \in Sess |-> "new"]
  /\ reopenPc = [g \in Gens |-> "none"]
  /\ todo = [g \in Gens |-> {}]
  /\ cur = [g \in Gens |-> NoSession]
  /\ reported = [s \in Sess |-> FALSE]
  /\ req = [t \in Threads |-> NoReq]
  /\ owner = [i \in IDs |-> NoSession]
  /\ regions = {} /\ used = {}

-----------------------------------------------------------------------------
(* Session.request: sid is s.ID() at the moment of the call *)

Request(t, kind, sid) ==
  req' = [req EXCEPT ![t] = [kind |-> kind, sid |-> sid, status |-> "queued", newID |-> 0]]

\* checkError(response, err): nil, or a refusal or timeout
Succeeded(t) == req[t].status = "granted"
Failed(t)    == req[t].status \in {"refused", "timeout"}
Finished(t)  == Succeeded(t) \/ Failed(t)
Consume(t)   == req' = [req EXCEPT ![t] = NoReq]

-----------------------------------------------------------------------------
(* Client.Session and openSession *)

OpenSession(s) ==
  /\ userPc[s] = "new" /\ MayCall
  /\ userPc' = [userPc EXCEPT ![s] = "opening"]
  /\ Request(s, "open", 0)
  /\ UNCHANGED <<clientVars, id, registered, sdone, reopenVars, masterVars>>

\* setID and openRequestPacket; the routing table comes next
OpenSessionReturns(s) ==
  /\ userPc[s] = "opening" /\ Finished(s)
  /\ IF Succeeded(s)
       THEN /\ id' = [id EXCEPT ![s] = req[s].newID]
            /\ userPc' = [userPc EXCEPT ![s] = "opened"]
       ELSE /\ userPc' = [userPc EXCEPT ![s] = "failed"]
            /\ UNCHANGED id
  /\ Consume(s)
  /\ UNCHANGED <<clientVars, registered, sdone, reopenVars, masterVars>>

\* c.sessions[s.ID()] = s
RegisterSession(s) ==
  /\ userPc[s] = "opened"
  /\ routes' = [routes EXCEPT ![id[s]] = s]
  /\ userPc' = [userPc EXCEPT ![s] = "ready"]
  /\ UNCHANGED <<up, gen, id, registered, sdone, reopenVars, req, masterVars>>

-----------------------------------------------------------------------------
(* Session.Register, Unregister, Close *)

\* Refused locally when registerRequestPacket says so already.
StartCall(s, kind) ==
  /\ userPc[s] = "ready" /\ MayCall
  /\ kind = "register" => ~registered[s]
  /\ kind = "unregister" => registered[s]
  /\ userPc' = [userPc EXCEPT ![s] = kind]
  /\ Request(s, kind, id[s])
  /\ UNCHANGED <<clientVars, id, registered, sdone, reopenVars, masterVars>>

\* registerRequestPacket is assigned after the response, with no lock held.
RegisterReturns(s) ==
  /\ userPc[s] \in {"register", "unregister"} /\ Finished(s)
  /\ registered' = [registered EXCEPT
                      ![s] = IF Succeeded(s) THEN userPc[s] = "register" ELSE @]
  /\ userPc' = [userPc EXCEPT ![s] = "ready"]
  /\ Consume(s)
  /\ UNCHANGED <<clientVars, id, sdone, reopenVars, masterVars>>

\* A session may be closed again, as closeOnce expects: it asks once more, by
\* the id it was left with.
CloseAgain(s) ==
  /\ userPc[s] = "closed" /\ MayCall
  /\ userPc' = [userPc EXCEPT ![s] = "close"]
  /\ Request(s, "close", id[s])
  /\ UNCHANGED <<clientVars, id, registered, sdone, reopenVars, masterVars>>

\* Mutant of unregisterSession: only if the master agent agreed.
unregisterSessionIfGranted(s) ==
  [i \in IDs |-> IF i = id[s] /\ Succeeded(s) THEN NoSession ELSE routes[i]]

\* delete(c.sessions, s.ID()), whoever is routed under that id
unregisterSession(s) == [i \in IDs |-> IF i = id[s] THEN NoSession ELSE routes[i]]

\* Whatever the answer: unregisterSession, then close(s.done).
CloseReturns(s) ==
  /\ userPc[s] = "close" /\ Finished(s)
  /\ routes' = unregisterSession(s)
  /\ sdone' = [sdone EXCEPT ![s] = TRUE]
  /\ userPc' = [userPc EXCEPT ![s] = "closed"]
  /\ Consume(s)
  /\ UNCHANGED <<up, gen, id, registered, reopenVars, masterVars>>

-----------------------------------------------------------------------------
(* reopenSessions and Session.reopen, on the goroutine of reconnect g *)

\* c.sessions = make(map[uint32]*Session), and a mutant that forgets it
NotEmptied == routes
Emptied == [i \in IDs |-> NoSession]

\* Under sessionsMu: copy the table, then empty it.
Snapshot(g) ==
  /\ reopenPc[g] = "start"
  /\ todo' = [todo EXCEPT ![g] = {routes[i] : i \in IDs} \ {NoSession}]
  /\ routes' = Emptied
  /\ reopenPc' = [reopenPc EXCEPT ![g] = "next"]
  /\ UNCHANGED <<up, gen, sessionVars, cur, reported, req, masterVars>>

\* setID(0), then an open that carries no session id
ReopenNext(g) ==
  /\ reopenPc[g] = "next"
  /\ \E s \in todo[g] :
       /\ todo' = [todo EXCEPT ![g] = @ \ {s}]
       /\ cur' = [cur EXCEPT ![g] = s]
       /\ id' = [id EXCEPT ![s] = 0]
  /\ Request(g, "open", 0)
  /\ reopenPc' = [reopenPc EXCEPT ![g] = "open"]
  /\ UNCHANGED <<clientVars, registered, sdone, userPc, reported, masterVars>>

\* registerRequestPacket # nil, and a mutant that forgets the registration
ReplaysNothing(s) == FALSE
Replays(s) == registered[s]

\* The new id is set; the registration is replayed if there is one now.
ReopenOpened(g) ==
  /\ reopenPc[g] = "open" /\ Succeeded(g)
  /\ id' = [id EXCEPT ![cur[g]] = req[g].newID]
  /\ IF Replays(cur[g])
       THEN /\ Request(g, "register", req[g].newID)
            /\ reopenPc' = [reopenPc EXCEPT ![g] = "register"]
       ELSE /\ Consume(g)
            /\ reopenPc' = [reopenPc EXCEPT ![g] = "add"]
  /\ UNCHANGED <<clientVars, registered, sdone, userPc, todo, cur, reported, masterVars>>

ReopenRegistered(g) ==
  /\ reopenPc[g] = "register" /\ Succeeded(g)
  /\ Consume(g)
  /\ reopenPc' = [reopenPc EXCEPT ![g] = "add"]
  /\ UNCHANGED <<clientVars, sessionVars, todo, cur, reported, masterVars>>

\* continue, and a mutant that breaks out of the loop
BreakAfterFailure == "done"
AfterFailure == "next"

\* The error is reported and the next session has its turn; nothing retries.
ReopenFailed(g) ==
  /\ reopenPc[g] \in {"open", "register"} /\ Failed(g)
  /\ Consume(g)
  /\ reported' = [reported EXCEPT ![cur[g]] = TRUE]
  /\ cur' = [cur EXCEPT ![g] = NoSession]
  /\ reopenPc' = [reopenPc EXCEPT ![g] = AfterFailure]
  /\ UNCHANGED <<clientVars, sessionVars, todo, masterVars>>

\* c.registerSession(session)
ReopenAdd(g) ==
  /\ reopenPc[g] = "add"
  /\ routes' = [i \in IDs |-> IF i = id[cur[g]] THEN cur[g] ELSE routes[i]]
  /\ cur' = [cur EXCEPT ![g] = NoSession]
  /\ reopenPc' = [reopenPc EXCEPT ![g] = "next"]
  /\ UNCHANGED <<up, gen, sessionVars, todo, reported, req, masterVars>>

ReopenDone(g) ==
  /\ reopenPc[g] = "next" /\ todo[g] = {}
  /\ reopenPc' = [reopenPc EXCEPT ![g] = "done"]
  /\ UNCHANGED <<clientVars, sessionVars, todo, cur, reported, req, masterVars>>

-----------------------------------------------------------------------------
(* Requests in flight, the connection and the master agent *)

SetStatus(t, st) == req' = [req EXCEPT ![t].status = st]

\* The transmitter writes to the connection that is current by now.
Transmit(t) ==
  /\ req[t].status = "queued"
  /\ SetStatus(t, IF up THEN "sent" ELSE "lost")
  /\ UNCHANGED <<clientVars, sessionVars, reopenVars, masterVars>>

Requester(t) == IF t \in Sess THEN t ELSE cur[t]

FreshIDs == IDs \ used

\* An id that is not open on this connection is answered with notOpen.
MasterGrants(t) ==
  /\ up /\ req[t].status = "sent"
  /\ LET sid == req[t].sid IN
     \/ /\ req[t].kind = "open"
        /\ \E i \in FreshIDs :
             /\ owner' = [owner EXCEPT ![i] = Requester(t)]
             /\ used' = used \cup {i}
             /\ req' = [req EXCEPT ![t].status = "granted", ![t].newID = i]
        /\ UNCHANGED regions
     \/ /\ req[t].kind = "register"
        /\ sid \in IDs /\ owner[sid] # NoSession
        /\ regions' = regions \cup {sid}
        /\ SetStatus(t, "granted")
        /\ UNCHANGED <<owner, used>>
     \/ /\ req[t].kind = "unregister"
        /\ sid \in regions
        /\ regions' = regions \ {sid}
        /\ SetStatus(t, "granted")
        /\ UNCHANGED <<owner, used>>
     \/ /\ req[t].kind = "close"
        /\ sid \in IDs /\ owner[sid] # NoSession
        /\ owner' = [owner EXCEPT ![sid] = NoSession]
        /\ regions' = regions \ {sid}
        /\ SetStatus(t, "granted")
        /\ UNCHANGED used
  /\ UNCHANGED <<clientVars, sessionVars, reopenVars>>

Grantable(t) ==
  LET sid == req[t].sid IN
  \/ req[t].kind = "open" /\ FreshIDs # {}
  \/ req[t].kind \in {"register", "close"} /\ sid \in IDs /\ owner[sid] # NoSession
  \/ req[t].kind = "unregister" /\ sid \in regions

MasterRefuses(t) ==
  /\ up /\ req[t].status = "sent"
  /\ Refusals \/ ~Grantable(t)
  /\ SetStatus(t, "refused")
  /\ UNCHANGED <<clientVars, sessionVars, reopenVars, masterVars>>

\* The master agent may handle the request after the caller gave up.  It handles the
\* PDUs of a connection in the order they were sent, so what the caller sends next
\* finds the late request done: the client cannot tell it from one that was granted
\* just before its timeout, which is how it appears here.
RequestTimeout(t) ==
  /\ \/ req[t].status = "lost"
     \/ Impatient /\ req[t].status \in {"sent", "granted", "refused"}
  /\ SetStatus(t, "timeout")
  /\ UNCHANGED <<clientVars, sessionVars, reopenVars, masterVars>>

UserIdle(s) == userPc[s] \in {"new", "ready", "failed", "closed"}

\* What was sent is lost; of what was answered, whatever had not been read.
ConnectionLost ==
  /\ up /\ gen <= MaxDrops
  /\ Quiet => \A s \in Sess : UserIdle(s)
  /\ up' = FALSE
  /\ \E L \in SUBSET {t \in Threads : Finished(t)} :
       req' = [t \in Threads |->
                 IF req[t].status = "sent" \/ (t \in L /\ req[t].status # "timeout")
                   THEN [req[t] EXCEPT !.status = "lost"] ELSE req[t]]
  /\ owner' = [i \in IDs |-> NoSession]
  /\ regions' = {}
  /\ used' = IF ReuseIDs THEN {} ELSE used
  /\ UNCHANGED <<gen, routes, sessionVars, reopenVars>>

\* reconnect runs once per loss, and a mutant that dials on when it has dialled
DialAlways == TRUE
LostConnection == ~up

\* net.Dial, c.setConn, go c.reopenSessions()
Reconnect ==
  /\ LostConnection
  /\ up' = TRUE
  /\ gen' = gen + 1
  /\ reopenPc' = [reopenPc EXCEPT ![gen + 1] = "start"]
  /\ UNCHANGED <<routes, sessionVars, todo, cur, reported, req, masterVars>>

-----------------------------------------------------------------------------

User(s) ==
  \/ OpenSession(s) \/ OpenSessionReturns(s) \/ RegisterSession(s)
  \/ \E kind \in UserCalls \ {"reclose"} : StartCall(s, kind)
  \/ "reclose" \in UserCalls /\ CloseAgain(s)
  \/ RegisterReturns(s) \/ CloseReturns(s)

Reopener(g) ==
  \/ Snapshot(g) \/ ReopenNext(g) \/ ReopenOpened(g) \/ ReopenRegistered(g)
  \/ ReopenFailed(g) \/ ReopenAdd(g) \/ ReopenDone(g)

Exchange(t) == Transmit(t) \/ MasterGrants(t) \/ MasterRefuses(t) \/ RequestTimeout(t)

Next ==
  \/ \E s \in Sess : User(s)
  \/ \E g \in Gens : Reopener(g)
  \/ \E t \in Threads : Exchange(t)
  \/ ConnectionLost \/ Reconnect

Spec == Init /\ [][Next]_vars

\* Goroutines run, lost requests time out, the master agent answers what it
\* read, and the redial loop finds it again some time.
FairSpec ==
  /\ Spec
  /\ \A g \in Gens : WF_vars(Reopener(g))
  /\ \A t \in Threads : WF_vars(Exchange(t))
  /\ WF_vars(Reconnect)

-----------------------------------------------------------------------------
(* Properties *)

Statuses == {"none", "queued", "sent", "granted", "refused", "lost", "timeout"}
Kinds == {"none", "open", "register", "unregister", "close"}

\* Type invariant of the tables and of the goroutines' locals.
TypeOK ==
  /\ up \in BOOLEAN /\ gen \in 1 .. MaxDrops + 1
  /\ routes \in [IDs -> Sess \cup {NoSession}]
  /\ id \in [Sess -> 0 .. MaxID]
  /\ registered \in [Sess -> BOOLEAN] /\ sdone \in [Sess -> BOOLEAN]
  /\ userPc \in [Sess -> {"new", "opening", "opened", "ready", "register",
                          "unregister", "close", "closed", "failed"}]
  /\ reopenPc \in [Gens -> {"none", "start", "next", "open", "register", "add", "done"}]
  /\ todo \in [Gens -> SUBSET Sess]
  /\ cur \in [Gens -> Sess \cup {NoSession}]
  /\ reported \in [Sess -> BOOLEAN]
  /\ req \in [Threads -> [kind : Kinds, sid : 0 .. MaxID, status : Statuses, newID : 0 .. MaxID]]
  /\ owner \in [IDs -> Sess \cup {NoSession}]
  /\ regions \subseteq IDs /\ used \subseteq IDs

Keys(s)      == {i \in IDs : routes[i] = s}
Reopeners(s) == {g \in Gens : s \in todo[g] \/ cur[g] = s}

\* A session is in one pair of hands: in the routing table under its current
\* id, or with one reopener, never both and never two.  Otherwise two
\* goroutines would replay the same session and its id would change under the
\* table's key (reopenSessions removes the sessions first, client.go:371-374).
OneOwner ==
  \A s \in Sess :
    /\ Keys(s) \subseteq {id[s]}
    /\ \A g \in Reopeners(s) :
         /\ Keys(s) = {}
         /\ Reopeners(s) = {g}
         /\ ~(s \in todo[g] /\ cur[g] = s)

\* One session failing to re-open does not abandon the others: each session of
\* the snapshot gets its turn, through refusals, timeouts and further losses
\* (client.go:386-388).
EverySessionGetsATurn ==
  \A g \in Gens, s \in Sess : (s \in todo[g]) ~> (s \notin todo[g])

\* Nothing is in progress on a connection that is up.
Settled ==
  /\ up
  /\ \A t \in Threads : req[t] = NoReq
  /\ \A g \in Gens : reopenPc[g] \in {"none", "done"}
  /\ \A s \in Sess : UserIdle(s)

\* A closed session is out of the routing table whatever the master agent answered
\* to its close, and no reopener brings it back: it must not "keep routing its
\* traffic to a handler the caller believes is finished" (Close, session.go:164-166).
ClosedIsNotRouted == \A s \in Sess : sdone[s] => Keys(s) = {}

Established(s) == Keys(s) = {id[s]} /\ owner[id[s]] = s

\* Once a reconnect has settled, every session that is not closed is routed
\* under an id the master agent has open for it, registration included, or the
\* error handler was told that it is not (README.md:114, "re-establish both on a
\* successful re-connect"; reopenSessions, client.go:384-396).
Reestablished ==
  Settled =>
    \A s \in Sess :
      userPc[s] = "ready" /\ ~reported[s]
        => Established(s) /\ (registered[s] => id[s] \in regions)

\* A session that is open again has its registration again: reopenSessions "replays
\* the open and registration of every session on the new connection"
\* (client.go:366-367).  A Register that the master agent grants just before the loss
\* records it only after the snapshot was replayed (session.go:131-135).
RegistrationReplayed ==
  Settled =>
    \A s \in Sess :
      userPc[s] = "ready" /\ ~reported[s] /\ Established(s) /\ registered[s]
        => id[s] \in regions

\* No open session is forgotten: it is in the routing table or in the hands of a
\* reopener, or its failure was reported; reconnect "re-opens every session that was
\* established before the connection dropped" (client.go:337-338), which it finds in
\* the table.
NoneForgotten ==
  \A s \in Sess :
    userPc[s] = "ready" /\ ~reported[s] => Keys(s) # {} \/ Reopeners(s) # {}
=============================================================================
