--------------------------- MODULE SessionsProofs ---------------------------
(***************************************************************************)
(* Proofs about Sessions, for any number of sessions, ids, reconnects and  *)
(* concurrent reopeners, with every user call, refusal, timeout and reuse  *)
(* of ids allowed.                                                         *)
(***************************************************************************)
EXTENDS Sessions, TLAPS

-----------------------------------------------------------------------------
(* Types *)

\* The sets that type req, named to keep the obligations small.
Requests == [kind : Kinds, sid : 0 .. MaxID, status : Statuses, newID : 0 .. MaxID]

\* A thread's record stays typed when its status is overwritten.
LEMMA StatusTyped ==
  ASSUME NEW r \in Requests, NEW st \in Statuses
  PROVE  [r EXCEPT !.status = st] \in Requests
  BY DEF Requests

\* The initial state is well typed.
LEMMA TypeInit == Init => TypeOK
  BY SessionBoundsAssumption
  DEF Init, TypeOK, NoReq, IDs, Gens, Kinds, Statuses

\* A request that is issued or consumed is well typed.
LEMMA RequestTyped ==
  ASSUME TypeOK, NEW t \in Threads, NEW kind \in Kinds, NEW sid \in 0 .. MaxID,
         Request(t, kind, sid) \/ Consume(t)
  PROVE  req' \in [Threads -> Requests]
<1>1. CASE Request(t, kind, sid)
  BY <1>1, SessionBoundsAssumption DEF TypeOK, Request, Requests, Statuses
<1>2. CASE Consume(t)
  BY <1>2, SessionBoundsAssumption DEF TypeOK, Consume, NoReq, Requests, Kinds, Statuses
<1> QED BY <1>1, <1>2

\* User calls keep the types.
LEMMA UserTyped ==
  ASSUME TypeOK, NEW s \in Sess, User(s)
  PROVE  TypeOK'
<1> USE DEF clientVars, sessionVars, reopenVars, masterVars
<1>0. s \in Threads
  BY DEF Threads
<1>1. CASE OpenSession(s)
  <2>1. req' \in [Threads -> Requests]
    BY <1>0, <1>1, SessionBoundsAssumption, RequestTyped DEF OpenSession, Kinds
  <2> QED BY <1>1, <2>1 DEF OpenSession, TypeOK, Requests
<1>2. CASE OpenSessionReturns(s)
  <2>1. req' \in [Threads -> Requests]
    BY <1>0, <1>2, SessionBoundsAssumption, RequestTyped DEF OpenSessionReturns, Kinds
  <2>2. req[s].newID \in 0 .. MaxID
    BY <1>0 DEF TypeOK
  <2> QED BY <1>2, <2>1, <2>2 DEF OpenSessionReturns, TypeOK, Requests
<1>3. CASE RegisterSession(s)
  BY <1>3 DEF RegisterSession, TypeOK
<1>4. ASSUME NEW kind \in UserCalls \ {"reclose"}, StartCall(s, kind)
      PROVE  TypeOK'
  <2>1. kind \in Kinds /\ id[s] \in 0 .. MaxID
    BY UserCallsAssumption DEF Kinds, TypeOK
  <2>2. req' \in [Threads -> Requests]
    BY <1>0, <1>4, <2>1, RequestTyped DEF StartCall
  <2>3. kind \in {"register", "unregister", "close"}
    BY UserCallsAssumption
  <2> QED BY <1>4, <2>2, <2>3 DEF StartCall, TypeOK, Requests
<1>5. CASE RegisterReturns(s)
  <2>1. req' \in [Threads -> Requests]
    BY <1>0, <1>5, SessionBoundsAssumption, RequestTyped DEF RegisterReturns, Kinds
  <2>2. registered' \in [Sess -> BOOLEAN]
    BY <1>5 DEF RegisterReturns, TypeOK
  <2> QED BY <1>5, <2>1, <2>2 DEF RegisterReturns, TypeOK, Requests
<1>6. CASE CloseReturns(s)
  <2>1. req' \in [Threads -> Requests]
    BY <1>0, <1>6, SessionBoundsAssumption, RequestTyped DEF CloseReturns, unregisterSession, Kinds
  <2> QED BY <1>6, <2>1 DEF CloseReturns, unregisterSession, TypeOK, Requests
<1>7. CASE CloseAgain(s)
  <2>1. id[s] \in 0 .. MaxID
    BY DEF TypeOK
  <2>2. req' \in [Threads -> Requests]
    BY <1>0, <1>7, <2>1, RequestTyped DEF CloseAgain, Kinds
  <2> QED BY <1>7, <2>2 DEF CloseAgain, TypeOK, Requests
<1> QED BY <1>1, <1>2, <1>3, <1>4, <1>5, <1>6, <1>7 DEF User

\* The reopeners keep the types.
LEMMA ReopenerTyped ==
  ASSUME TypeOK, NEW g \in Gens, Reopener(g)
  PROVE  TypeOK'
<1> USE DEF clientVars, sessionVars, reopenVars, masterVars
<1>0. g \in Threads
  BY DEF Threads
<1>1. CASE Snapshot(g)
  BY <1>1 DEF Snapshot, Emptied, TypeOK
<1>2. CASE ReopenNext(g)
  <2>1. req' \in [Threads -> Requests]
    BY <1>0, <1>2, SessionBoundsAssumption, RequestTyped DEF ReopenNext, Kinds
  <2>2. todo' \in [Gens -> SUBSET Sess] /\ cur' \in [Gens -> Sess \cup {NoSession}]
    BY <1>2 DEF ReopenNext, TypeOK
  <2>3. id' \in [Sess -> 0 .. MaxID]
    BY <1>2, SessionBoundsAssumption DEF ReopenNext, TypeOK
  <2> QED BY <1>2, <2>1, <2>2, <2>3 DEF ReopenNext, TypeOK, Requests
<1>3. CASE ReopenOpened(g)
  <2>1. req[g].newID \in 0 .. MaxID
    BY <1>0 DEF TypeOK
  <2>2. req' \in [Threads -> Requests]
    BY <1>0, <1>3, <2>1, RequestTyped DEF ReopenOpened, Replays, Kinds
  <2>3. id' \in [Sess -> 0 .. MaxID]
    BY <1>3, <2>1 DEF ReopenOpened, Replays, TypeOK
  <2> QED BY <1>3, <2>2, <2>3 DEF ReopenOpened, Replays, TypeOK, Requests
<1>4. CASE ReopenRegistered(g)
  <2>1. req' \in [Threads -> Requests]
    BY <1>0, <1>4, SessionBoundsAssumption, RequestTyped DEF ReopenRegistered, Kinds
  <2> QED BY <1>4, <2>1 DEF ReopenRegistered, TypeOK, Requests
<1>5. CASE ReopenFailed(g)
  <2>1. req' \in [Threads -> Requests]
    BY <1>0, <1>5, SessionBoundsAssumption, RequestTyped DEF ReopenFailed, AfterFailure, Kinds
  <2> QED BY <1>5, <2>1 DEF ReopenFailed, AfterFailure, TypeOK, Requests
<1>6. CASE ReopenAdd(g)
  BY <1>6 DEF ReopenAdd, TypeOK
<1>7. CASE ReopenDone(g)
  BY <1>7 DEF ReopenDone, TypeOK
<1> QED BY <1>1, <1>2, <1>3, <1>4, <1>5, <1>6, <1>7 DEF Reopener

\* The exchange of a request keeps the types.
LEMMA ExchangeTyped ==
  ASSUME TypeOK, NEW t \in Threads, Exchange(t)
  PROVE  TypeOK'
<1> USE DEF clientVars, sessionVars, reopenVars, masterVars
<1>0. /\ req \in [Threads -> Requests]
      /\ Requester(t) \in Sess \cup {NoSession}
  BY DEF TypeOK, Requests, Requester, Threads
<1>1. ASSUME NEW st \in Statuses, SetStatus(t, st)
      PROVE  req' \in [Threads -> Requests]
  BY <1>0, <1>1, StatusTyped DEF SetStatus
<1>2. CASE Transmit(t)
  <2>1. req' \in [Threads -> Requests]
    BY <1>1, <1>2 DEF Transmit, Statuses
  <2> QED BY <1>2, <2>1 DEF Transmit, TypeOK, Requests
<1>3. CASE MasterGrants(t)
  <2>1. req' \in [Threads -> Requests]
    <3>1. CASE SetStatus(t, "granted")
      BY <1>1, <3>1 DEF Statuses
    <3>2. ASSUME NEW i \in FreshIDs,
                 req' = [req EXCEPT ![t].status = "granted", ![t].newID = i]
          PROVE  req' \in [Threads -> Requests]
      <4>1. i \in 0 .. MaxID
        BY SessionBoundsAssumption DEF FreshIDs, IDs
      <4> QED BY <1>0, <3>2, <4>1 DEF Requests, Statuses
    <3> QED BY <1>3, <3>1, <3>2 DEF MasterGrants
  <2>2. /\ owner' \in [IDs -> Sess \cup {NoSession}] /\ used' \subseteq IDs /\ regions' \subseteq IDs
        /\ UNCHANGED <<clientVars, sessionVars, reopenVars>>
    <3>1. CASE /\ req[t].kind = "open" /\ regions' = regions
               /\ \E i \in FreshIDs : /\ owner' = [owner EXCEPT ![i] = Requester(t)]
                                      /\ used' = used \cup {i}
      BY <1>0, <1>3, <3>1 DEF MasterGrants, TypeOK, FreshIDs
    <3>2. CASE /\ owner' = owner /\ used' = used
               /\ req[t].sid \in IDs /\ regions' = regions \cup {req[t].sid}
      BY <1>3, <3>2 DEF MasterGrants, TypeOK
    <3>3. CASE owner' = owner /\ used' = used /\ regions' = regions \ {req[t].sid}
      BY <1>3, <3>3 DEF MasterGrants, TypeOK
    <3>4. CASE /\ owner' = [owner EXCEPT ![req[t].sid] = NoSession]
               /\ used' = used /\ regions' = regions \ {req[t].sid}
      BY <1>3, <3>4 DEF MasterGrants, TypeOK
    <3> QED BY <1>3, <3>1, <3>2, <3>3, <3>4 DEF MasterGrants
  <2> QED BY <2>1, <2>2 DEF TypeOK, Requests
<1>4. CASE MasterRefuses(t)
  <2>1. req' \in [Threads -> Requests]
    BY <1>1, <1>4 DEF MasterRefuses, Statuses
  <2> QED BY <1>4, <2>1 DEF MasterRefuses, TypeOK, Requests
<1>5. CASE RequestTimeout(t)
  <2>1. req' \in [Threads -> Requests]
    BY <1>1, <1>5 DEF RequestTimeout, Statuses
  <2> QED BY <1>5, <2>1 DEF RequestTimeout, TypeOK, Requests
<1> QED BY <1>2, <1>3, <1>4, <1>5 DEF Exchange

\* Losing and regaining the connection keeps the types.
LEMMA ConnectionTyped ==
  ASSUME TypeOK, ConnectionLost \/ (Reconnect /\ gen <= MaxDrops)
  PROVE  TypeOK'
<1> USE DEF clientVars, sessionVars, reopenVars, masterVars
<1>1. CASE ConnectionLost
  <2>1. PICK L \in SUBSET {t \in Threads : Finished(t)} :
          req' = [t \in Threads |->
                    IF req[t].status = "sent" \/ (t \in L /\ req[t].status # "timeout")
                      THEN [req[t] EXCEPT !.status = "lost"] ELSE req[t]]
    BY <1>1 DEF ConnectionLost
  <2>2. \A t \in Threads : req[t] \in Requests /\ [req[t] EXCEPT !.status = "lost"] \in Requests
    <3>1. "lost" \in Statuses /\ \A t \in Threads : req[t] \in Requests
      BY DEF TypeOK, Requests, Statuses
    <3> QED BY <3>1, StatusTyped
  <2>3. req' \in [Threads -> Requests]
    BY <2>1, <2>2
  <2> QED BY <1>1, <2>3 DEF ConnectionLost, TypeOK, Requests
<1>2. CASE Reconnect /\ gen <= MaxDrops
  <2>1. up' \in BOOLEAN
    BY <1>2 DEF Reconnect, LostConnection
  <2>2. gen' \in 1 .. MaxDrops + 1
    BY <1>2, SessionBoundsAssumption DEF Reconnect, LostConnection, TypeOK
  <2>3. reopenPc' \in [Gens -> {"none", "start", "next", "open", "register", "add", "done"}]
    BY <1>2 DEF Reconnect, LostConnection, TypeOK
  <2> QED BY <1>2, <2>1, <2>2, <2>3 DEF Reconnect, LostConnection, TypeOK
<1> QED BY <1>1, <1>2

-----------------------------------------------------------------------------
(* Ownership *)

\* The connection is down only after a loss that had a number left, and the
\* reopeners of later connections have not been started.
LossCounted ==
  /\ ~up => gen <= MaxDrops
  /\ \A g \in Gens : g > gen => reopenPc[g] = "none"

\* A reopener holds a current session exactly while it works on one, and has
\* nothing to do before its snapshot and after its end.
ReopenerHands ==
  \A g \in Gens :
    /\ cur[g] # NoSession <=> reopenPc[g] \in {"open", "register", "add"}
    /\ reopenPc[g] \in {"none", "start"} => todo[g] = {}

\* A session Client.Session has not handed to the table is in nobody's hands.
NotYetShared ==
  \A s \in Sess :
    userPc[s] \in {"new", "opening", "opened", "failed"} => Keys(s) = {} /\ Reopeners(s) = {}

OwnerInv == TypeOK /\ LossCounted /\ ReopenerHands /\ NotYetShared /\ OneOwner

\* The initial state satisfies the invariant.
LEMMA OwnerInit == Init => OwnerInv
<1> SUFFICES ASSUME Init PROVE OwnerInv
  OBVIOUS
<1>1. TypeOK
  BY TypeInit
<1>2. LossCounted /\ ReopenerHands
  BY SessionBoundsAssumption DEF Init, LossCounted, ReopenerHands
<1>3. \A s \in Sess : Keys(s) = {} /\ Reopeners(s) = {}
  BY NoSessionAssumption DEF Init, Keys, Reopeners
<1> QED BY <1>1, <1>2, <1>3 DEF OwnerInv, NotYetShared, OneOwner

\* A step that leaves table, ids and reopeners alone, and takes no call back to
\* before its registration, keeps the ownership.
LEMMA OwnershipStable ==
  ASSUME OwnerInv, UNCHANGED <<routes, id, todo, cur>>,
         \A s \in Sess : userPc'[s] \in {"new", "opening", "opened", "failed"} =>
                           userPc[s] \in {"new", "opening", "opened", "failed"}
  PROVE  NotYetShared' /\ OneOwner'
  BY DEF OwnerInv, NotYetShared, OneOwner, Keys, Reopeners

\* User calls keep the ownership.
LEMMA UserKeepsOwner ==
  ASSUME OwnerInv, TypeOK', NEW s \in Sess, User(s)
  PROVE  OwnerInv'
<1> USE DEF clientVars, sessionVars, reopenVars, masterVars
<1>0. LossCounted' /\ ReopenerHands'
  BY DEF OwnerInv, User, OpenSession, OpenSessionReturns, RegisterSession, StartCall,
         CloseAgain, RegisterReturns, CloseReturns, LossCounted, ReopenerHands
<1>1. CASE OpenSession(s)
  BY <1>0, <1>1, OwnershipStable DEF OwnerInv, OpenSession, TypeOK
<1>2. CASE OpenSessionReturns(s)
  <2>1. Keys(s) = {} /\ Reopeners(s) = {}
    BY <1>2 DEF OpenSessionReturns, OwnerInv, NotYetShared
  <2>2. NotYetShared'
    BY <1>2, <2>1 DEF OpenSessionReturns, OwnerInv, NotYetShared, TypeOK, Keys, Reopeners
  <2>3. OneOwner'
    BY <1>2, <2>1 DEF OpenSessionReturns, OwnerInv, OneOwner, TypeOK, Keys, Reopeners
  <2> QED BY <1>0, <2>2, <2>3 DEF OwnerInv
<1>3. CASE RegisterSession(s)
  <2>1. Keys(s) = {} /\ Reopeners(s) = {}
    BY <1>3 DEF RegisterSession, OwnerInv, NotYetShared
  <2>2. Keys(s)' \subseteq {id[s]} /\ \A r \in Sess \ {s} : Keys(r)' \subseteq Keys(r)
    BY <1>3, <2>1 DEF RegisterSession, OwnerInv, TypeOK, Keys
  <2>3. \A r \in Sess : Reopeners(r)' = Reopeners(r)
    BY <1>3 DEF RegisterSession, Reopeners
  <2>4. NotYetShared'
    BY <1>3, <2>2, <2>3 DEF RegisterSession, OwnerInv, NotYetShared, TypeOK
  <2>5. OneOwner'
    BY <1>3, <2>1, <2>2, <2>3 DEF RegisterSession, OwnerInv, OneOwner
  <2> QED BY <1>0, <2>4, <2>5 DEF OwnerInv
<1>4. ASSUME NEW kind \in UserCalls \ {"reclose"}, StartCall(s, kind)
      PROVE  OwnerInv'
  <2>1. kind \in {"register", "unregister", "close"}
    BY UserCallsAssumption
  <2> QED BY <1>0, <1>4, <2>1, OwnershipStable DEF OwnerInv, StartCall, TypeOK
<1>5. CASE RegisterReturns(s)
  BY <1>0, <1>5, OwnershipStable DEF OwnerInv, RegisterReturns, TypeOK
<1>6. CASE CloseReturns(s)
  <2>1. \A r \in Sess : Keys(r)' \subseteq Keys(r)
    BY <1>6, NoSessionAssumption DEF CloseReturns, unregisterSession, Keys
  <2>2. \A r \in Sess : Reopeners(r)' = Reopeners(r)
    BY <1>6 DEF CloseReturns, unregisterSession, Reopeners
  <2>3. NotYetShared'
    BY <1>6, <2>1, <2>2 DEF CloseReturns, unregisterSession, OwnerInv, NotYetShared, TypeOK
  <2>4. OneOwner'
    BY <1>6, <2>1, <2>2 DEF CloseReturns, unregisterSession, OwnerInv, OneOwner
  <2> QED BY <1>0, <2>3, <2>4 DEF OwnerInv
<1>7. CASE CloseAgain(s)
  BY <1>0, <1>7, OwnershipStable DEF OwnerInv, CloseAgain, TypeOK
<1> QED BY <1>1, <1>2, <1>3, <1>4, <1>5, <1>6, <1>7 DEF User

\* The reopeners keep what is known of them.
LEMMA ReopenerKeepsHands ==
  ASSUME OwnerInv, NEW g \in Gens, Reopener(g)
  PROVE  LossCounted' /\ ReopenerHands'
<1> USE DEF clientVars, sessionVars, reopenVars, masterVars
<1>0. g \in Int /\ gen \in Int /\ reopenPc[g] # "none" => ~(g > gen)
  BY SessionBoundsAssumption DEF OwnerInv, LossCounted, Gens, TypeOK
<1>1. LossCounted'
  BY <1>0, SessionBoundsAssumption
  DEF OwnerInv, TypeOK, LossCounted, Reopener, Snapshot, ReopenNext, ReopenOpened,
      ReopenRegistered, ReopenFailed, AfterFailure, ReopenAdd, ReopenDone
<1>2. CASE Snapshot(g)
  BY <1>1, <1>2 DEF Snapshot, Emptied, OwnerInv, ReopenerHands, TypeOK
<1>3. CASE ReopenNext(g)
  BY <1>1, <1>3, NoSessionAssumption DEF ReopenNext, OwnerInv, ReopenerHands, TypeOK
<1>4. CASE ReopenOpened(g)
  BY <1>1, <1>4 DEF ReopenOpened, Replays, OwnerInv, ReopenerHands, TypeOK
<1>5. CASE ReopenRegistered(g)
  BY <1>1, <1>5 DEF ReopenRegistered, OwnerInv, ReopenerHands, TypeOK
<1>6. CASE ReopenFailed(g)
  BY <1>1, <1>6 DEF ReopenFailed, AfterFailure, OwnerInv, ReopenerHands, TypeOK
<1>7. CASE ReopenAdd(g)
  BY <1>1, <1>7 DEF ReopenAdd, OwnerInv, ReopenerHands, TypeOK
<1>8. CASE ReopenDone(g)
  BY <1>1, <1>8 DEF ReopenDone, OwnerInv, ReopenerHands, TypeOK
<1> QED BY <1>2, <1>3, <1>4, <1>5, <1>6, <1>7, <1>8 DEF Reopener

\* The reopeners keep the ownership.
LEMMA ReopenerKeepsOwner ==
  ASSUME OwnerInv, TypeOK', NEW g \in Gens, Reopener(g)
  PROVE  OwnerInv'
<1> USE DEF clientVars, sessionVars, reopenVars, masterVars
<1>0. LossCounted' /\ ReopenerHands'
  BY ReopenerKeepsHands
<1>1. CASE Snapshot(g)
  <2>1. todo[g] = {} /\ cur[g] = NoSession
    BY <1>1 DEF Snapshot, Emptied, OwnerInv, ReopenerHands
  <2>2. \A s \in Sess : Keys(s)' = {}
    BY <1>1, NoSessionAssumption DEF Snapshot, Emptied, Keys
  <2>3. ASSUME NEW s \in Sess, Keys(s) = {}
        PROVE  Reopeners(s)' = Reopeners(s) /\ \A h \in Gens : s \in todo'[h] <=> s \in todo[h]
    BY <1>1, <2>1, <2>3 DEF Snapshot, Emptied, Keys, Reopeners, OwnerInv, TypeOK
  <2>4. ASSUME NEW s \in Sess, Keys(s) # {}
        PROVE  Reopeners(s)' = {g}
    <3>1. Reopeners(s) = {}
      BY <2>4 DEF OwnerInv, OneOwner
    <3>2. s \in todo'[g] /\ \A h \in Gens \ {g} : todo'[h] = todo[h]
      BY <1>1, <2>4, NoSessionAssumption DEF Snapshot, Emptied, Keys, OwnerInv, TypeOK
    <3>3. cur' = cur
      BY <1>1 DEF Snapshot, Emptied
    <3> QED BY <3>1, <3>2, <3>3 DEF Reopeners
  <2>5. NotYetShared'
    BY <1>1, <2>2, <2>3 DEF Snapshot, Emptied, OwnerInv, NotYetShared
  <2>6. OneOwner'
    <3> SUFFICES ASSUME NEW s \in Sess, NEW h \in Reopeners(s)'
                 PROVE  Reopeners(s)' = {h} /\ ~(s \in todo'[h] /\ cur'[h] = s)
      BY <2>2 DEF OneOwner
    <3>1. CASE Keys(s) = {}
      BY <1>1, <2>3, <3>1 DEF Snapshot, Emptied, OwnerInv, OneOwner
    <3>2. CASE Keys(s) # {}
      BY <1>1, <2>1, <2>4, <3>2, NoSessionAssumption DEF Snapshot, Emptied
    <3> QED BY <3>1, <3>2
  <2> QED BY <1>0, <2>5, <2>6 DEF OwnerInv
<1>2. CASE ReopenNext(g)
  <2>1. PICK s \in todo[g] : /\ todo' = [todo EXCEPT ![g] = @ \ {s}]
                             /\ cur' = [cur EXCEPT ![g] = s]
                             /\ id' = [id EXCEPT ![s] = 0]
    BY <1>2 DEF ReopenNext
  <2>2. s \in Sess /\ g \in Reopeners(s) /\ cur[g] = NoSession
    BY <1>2 DEF ReopenNext, OwnerInv, ReopenerHands, Reopeners, TypeOK
  <2>3. Keys(s) = {} /\ Reopeners(s) = {g}
    BY <2>2 DEF OwnerInv, OneOwner
  <2>4. \A r \in Sess : Keys(r)' = Keys(r) /\ Reopeners(r)' = Reopeners(r)
    BY <1>2, <2>1, <2>2, <2>3, NoSessionAssumption DEF ReopenNext, Keys, Reopeners, OwnerInv, TypeOK
  <2>5. \A r \in Sess \ {s} : id'[r] = id[r]
    BY <2>1 DEF OwnerInv, TypeOK
  <2>6. \A r \in Sess, h \in Gens : r \in todo'[h] /\ cur'[h] = r => r \in todo[h] /\ cur[h] = r
    BY <2>1, <2>2 DEF OwnerInv, TypeOK
  <2>7. NotYetShared'
    BY <1>2, <2>4 DEF ReopenNext, OwnerInv, NotYetShared
  <2>8. OneOwner'
    BY <2>3, <2>4, <2>5, <2>6 DEF OwnerInv, OneOwner, Reopeners
  <2> QED BY <1>0, <2>7, <2>8 DEF OwnerInv
<1>3. CASE ReopenOpened(g)
  <2>1. cur[g] \in Sess /\ g \in Reopeners(cur[g])
    BY <1>3 DEF ReopenOpened, Replays, OwnerInv, ReopenerHands, TypeOK, Reopeners
  <2>2. Keys(cur[g]) = {}
    BY <2>1 DEF OwnerInv, OneOwner
  <2>3. \A r \in Sess : Keys(r)' = Keys(r) /\ Reopeners(r)' = Reopeners(r)
    BY <1>3 DEF ReopenOpened, Replays, Keys, Reopeners
  <2>4. \A r \in Sess \ {cur[g]} : id'[r] = id[r]
    BY <1>3 DEF ReopenOpened, Replays, OwnerInv, TypeOK
  <2>5. NotYetShared'
    BY <1>3, <2>3 DEF ReopenOpened, Replays, OwnerInv, NotYetShared
  <2>6. OneOwner'
    BY <1>3, <2>2, <2>3, <2>4 DEF ReopenOpened, Replays, OwnerInv, OneOwner
  <2> QED BY <1>0, <2>5, <2>6 DEF OwnerInv
<1>4. CASE ReopenRegistered(g)
  BY <1>0, <1>4, OwnershipStable DEF OwnerInv, ReopenRegistered
<1>5. CASE ReopenFailed(g)
  <2>1. \A h \in Gens : cur'[h] \in {cur[h], NoSession}
    BY <1>5 DEF ReopenFailed, AfterFailure, OwnerInv, TypeOK
  <2>2. \A r \in Sess : Keys(r)' = Keys(r) /\ Reopeners(r)' \subseteq Reopeners(r)
    BY <1>5, <2>1, NoSessionAssumption DEF ReopenFailed, AfterFailure, Keys, Reopeners
  <2>3. NotYetShared'
    BY <1>5, <2>2 DEF ReopenFailed, AfterFailure, OwnerInv, NotYetShared
  <2>4. OneOwner'
    BY <1>5, <2>1, <2>2, NoSessionAssumption DEF ReopenFailed, AfterFailure, OwnerInv, OneOwner, Reopeners
  <2> QED BY <1>0, <2>3, <2>4 DEF OwnerInv
<1>6. CASE ReopenAdd(g)
  <2>1. PICK s \in Sess : s = cur[g] /\ g \in Reopeners(s)
    BY <1>6 DEF ReopenAdd, OwnerInv, ReopenerHands, TypeOK, Reopeners
  <2>2. Keys(s) = {} /\ Reopeners(s) = {g} /\ s \notin todo[g]
    BY <2>1 DEF OwnerInv, OneOwner
  <2>3. \A h \in Gens : cur'[h] = IF h = g THEN NoSession ELSE cur[h]
    BY <1>6 DEF ReopenAdd, OwnerInv, TypeOK
  <2>4. Keys(s)' \subseteq {id[s]} /\ \A r \in Sess \ {s} : Keys(r)' \subseteq Keys(r)
    BY <1>6, <2>1, <2>2 DEF ReopenAdd, Keys
  <2>5. \A r \in Sess : Reopeners(r)' \subseteq Reopeners(r)
    BY <1>6, <2>3, NoSessionAssumption DEF ReopenAdd, Reopeners
  <2>6. Reopeners(s)' = {}
    BY <1>6, <2>1, <2>2, <2>3, <2>5, NoSessionAssumption DEF ReopenAdd, Reopeners
  <2>7. NotYetShared'
    BY <1>6, <2>1, <2>4, <2>5 DEF ReopenAdd, OwnerInv, NotYetShared
  <2>8. OneOwner'
    <3>1. id' = id /\ todo' = todo
      BY <1>6 DEF ReopenAdd
    <3> QED BY <2>3, <2>4, <2>5, <2>6, <3>1, NoSessionAssumption DEF OwnerInv, OneOwner, Reopeners
  <2> QED BY <1>0, <2>7, <2>8 DEF OwnerInv
<1>7. CASE ReopenDone(g)
  BY <1>0, <1>7, OwnershipStable DEF OwnerInv, ReopenDone
<1> QED BY <1>1, <1>2, <1>3, <1>4, <1>5, <1>6, <1>7 DEF Reopener

\* A request's exchange and the connection keep the ownership.
LEMMA OthersKeepOwner ==
  ASSUME OwnerInv, TypeOK',
         (\E t \in Threads : Exchange(t)) \/ ConnectionLost \/ Reconnect
  PROVE  OwnerInv'
<1> USE DEF clientVars, sessionVars, reopenVars, masterVars
<1>1. UNCHANGED <<routes, id, todo, cur, userPc>>
  BY DEF Exchange, Transmit, MasterGrants, MasterRefuses, RequestTimeout, ConnectionLost, Reconnect
<1>2. NotYetShared' /\ OneOwner'
  BY <1>1, OwnershipStable
<1>3. CASE (\E t \in Threads : Exchange(t)) \/ ConnectionLost
  <2>1. reopenPc' = reopenPc /\ gen' = gen /\ (up' = up \/ gen <= MaxDrops)
    BY <1>3 DEF Exchange, Transmit, MasterGrants, MasterRefuses, RequestTimeout, ConnectionLost
  <2>2. LossCounted' /\ ReopenerHands'
    BY <1>1, <2>1 DEF OwnerInv, LossCounted, ReopenerHands
  <2> QED BY <1>2, <2>2 DEF OwnerInv
<1>4. CASE Reconnect
  <2>1. gen \in 1 .. MaxDrops + 1 /\ gen <= MaxDrops /\ up' = TRUE /\ gen' = gen + 1
    BY <1>4 DEF Reconnect, LostConnection, OwnerInv, TypeOK, LossCounted
  <2>2. gen + 1 \in Gens /\ reopenPc[gen + 1] = "none"
    BY <2>1, SessionBoundsAssumption DEF Gens, OwnerInv, LossCounted
  <2>3. \A g \in Gens : reopenPc'[g] = IF g = gen + 1 THEN "start" ELSE reopenPc[g]
    BY <1>4 DEF Reconnect, LostConnection, OwnerInv, TypeOK
  <2>4. LossCounted'
    BY <2>1, <2>3, SessionBoundsAssumption DEF OwnerInv, LossCounted, Gens
  <2>5. ReopenerHands'
    BY <1>1, <2>2, <2>3 DEF OwnerInv, ReopenerHands
  <2> QED BY <1>2, <2>4, <2>5 DEF OwnerInv
<1> QED BY <1>3, <1>4

-----------------------------------------------------------------------------
(* Every step keeps the invariant *)

\* Every step of the specification, stuttering included, keeps the invariant.
LEMMA OwnerStep == OwnerInv /\ [Next]_vars => OwnerInv'
<1> SUFFICES ASSUME OwnerInv, [Next]_vars PROVE OwnerInv'
  OBVIOUS
<1>0. TypeOK
  BY DEF OwnerInv
<1>1. ASSUME NEW s \in Sess, User(s) PROVE OwnerInv'
  BY <1>0, <1>1, UserTyped, UserKeepsOwner
<1>2. ASSUME NEW g \in Gens, Reopener(g) PROVE OwnerInv'
  BY <1>0, <1>2, ReopenerTyped, ReopenerKeepsOwner
<1>3. CASE \E t \in Threads : Exchange(t)
  BY <1>0, <1>3, ExchangeTyped, OthersKeepOwner
<1>4. CASE ConnectionLost
  BY <1>0, <1>4, ConnectionTyped, OthersKeepOwner
<1>5. CASE Reconnect
  <2>1. gen <= MaxDrops
    BY <1>5 DEF Reconnect, LostConnection, OwnerInv, LossCounted
  <2> QED BY <1>0, <1>5, <2>1, ConnectionTyped, OthersKeepOwner
<1>6. CASE UNCHANGED vars
  BY <1>6 DEF vars, clientVars, sessionVars, reopenVars, masterVars, OwnerInv, TypeOK,
              LossCounted, ReopenerHands, NotYetShared, OneOwner, Keys, Reopeners
<1> QED BY <1>1, <1>2, <1>3, <1>4, <1>5, <1>6 DEF Next

\* The ownership invariant holds of every reachable state: through any order of
\* losses, reconnects, concurrent reopeners and user calls.
THEOREM OwnershipInvariance == Spec => []OwnerInv
<1>1. Init => OwnerInv
  BY OwnerInit
<1>2. OwnerInv /\ [Next]_vars => OwnerInv'
  BY OwnerStep
<1> QED BY <1>1, <1>2, PTL DEF Spec

\* Tables and goroutine locals stay well typed; in particular no loss or
\* reconnect is counted beyond the bound of its reopeners.
THEOREM SessionsTypeCorrect == Spec => []TypeOK
<1>1. OwnerInv => TypeOK
  BY DEF OwnerInv
<1> QED BY <1>1, OwnershipInvariance, PTL

\* A session is never in the routing table and with a reopener at once, never
\* with two reopeners, and never routed under an id that is not its own
\* (Client.reopenSessions), whatever the number of sessions and reconnects.
THEOREM SingleOwner == Spec => []OneOwner
<1>1. OwnerInv => OneOwner
  BY DEF OwnerInv
<1> QED BY <1>1, OwnershipInvariance, PTL

-----------------------------------------------------------------------------
(* Closed sessions, when no call of a user overlaps a re-opening *)

\* A user is in a call only while the connection is up and no reopener works;
\* a closed session is in nobody's hands.
ClosedInv ==
  /\ \A g \in Gens : reopenPc[g] = "done" => todo[g] = {}
  /\ \A s \in Sess : ~UserIdle(s) => up /\ \A g \in Gens : reopenPc[g] \in {"none", "done"}
  /\ \A s \in Sess : sdone[s] => /\ userPc[s] \in {"close", "closed"}
                                 /\ Keys(s) = {} /\ Reopeners(s) = {}

\* What a user does keeps closed sessions out of the table.
LEMMA UserKeepsClosed ==
  ASSUME Quiet, OwnerInv, ClosedInv, NEW s \in Sess, User(s)
  PROVE  ClosedInv'
<1> USE DEF clientVars, sessionVars, reopenVars, masterVars
<1>1. UNCHANGED <<up, reopenPc, todo, cur>>
  BY DEF User, OpenSession, OpenSessionReturns, RegisterSession, StartCall, CloseAgain,
         RegisterReturns, CloseReturns
<1>2. up /\ \A g \in Gens : reopenPc[g] \in {"none", "done"}
  BY DEF ClosedInv, UserIdle, MayCall, User, OpenSession, OpenSessionReturns, RegisterSession,
         StartCall, CloseAgain, RegisterReturns, CloseReturns
<1>3. \A r \in Sess : Reopeners(r)' = Reopeners(r)
  BY <1>1 DEF Reopeners
<1>4. ASSUME NEW r \in Sess, sdone'[r]
      PROVE  userPc'[r] \in {"close", "closed"} /\ Keys(r)' = {} /\ Reopeners(r)' = {}
  <2>1. CASE RegisterSession(s)
    BY <1>3, <1>4, <2>1 DEF RegisterSession, ClosedInv, OwnerInv, TypeOK, Keys
  <2>2. CASE CloseReturns(s)
    <3>1. Keys(r)' \subseteq Keys(r) /\ id[s] \notin Keys(r)'
      BY <2>2, NoSessionAssumption DEF CloseReturns, unregisterSession, Keys
    <3>2. CASE r = s
      <4>1. Reopeners(s) = {}
        BY <1>2, NoSessionAssumption DEF ClosedInv, OwnerInv, ReopenerHands, Reopeners
      <4>2. Keys(s) \subseteq {id[s]}
        BY DEF OwnerInv, OneOwner
      <4> QED BY <1>3, <2>2, <3>1, <3>2, <4>1, <4>2 DEF CloseReturns, OwnerInv, TypeOK
    <3>3. CASE r # s
      BY <1>3, <1>4, <2>2, <3>1, <3>3 DEF CloseReturns, ClosedInv, OwnerInv, TypeOK
    <3> QED BY <3>2, <3>3
  <2>3. CASE UNCHANGED <<routes, sdone>>
    <3>1. userPc'[r] \in {"close", "closed"}
      BY <1>4, <2>3 DEF ClosedInv, OwnerInv, TypeOK, User, OpenSession, OpenSessionReturns,
           RegisterSession, StartCall, CloseAgain, RegisterReturns, CloseReturns
    <3> QED BY <1>3, <1>4, <2>3, <3>1 DEF ClosedInv, Keys
  <2> QED BY <2>1, <2>2, <2>3 DEF User, OpenSession, OpenSessionReturns, StartCall,
                                  CloseAgain, RegisterReturns
<1> QED BY <1>1, <1>2, <1>4 DEF ClosedInv

\* A reopener routes only sessions it was given, none of them closed.
LEMMA ReopenerKeepsClosed ==
  ASSUME OwnerInv, ClosedInv, NEW g \in Gens, Reopener(g)
  PROVE  ClosedInv'
<1> USE DEF clientVars, sessionVars, reopenVars, masterVars
<1>1. UNCHANGED <<up, sdone, userPc>>
  BY DEF Reopener, Snapshot, ReopenNext, ReopenOpened, ReopenRegistered, ReopenFailed,
         ReopenAdd, ReopenDone
<1>2. reopenPc[g] \notin {"none", "done"}
  BY DEF Reopener, Snapshot, ReopenNext, ReopenOpened, ReopenRegistered, ReopenFailed,
         ReopenAdd, ReopenDone
<1>3. \A s \in Sess : UserIdle(s)
  BY <1>2 DEF ClosedInv
<1>4. \A s \in Sess : UserIdle(s)'
  BY <1>1, <1>3 DEF UserIdle
<1>5. \A h \in Gens : reopenPc'[h] = "done" => todo'[h] = {}
  BY DEF ClosedInv, OwnerInv, TypeOK, Reopener, Snapshot, ReopenNext, ReopenOpened,
         ReopenRegistered, ReopenFailed, AfterFailure, ReopenAdd, ReopenDone
<1>6. ASSUME NEW s \in Sess, sdone[s]
      PROVE  Keys(s)' = {} /\ Reopeners(s)' = {}
  <2>1. Keys(s) = {} /\ Reopeners(s) = {}
    BY <1>6 DEF ClosedInv
  <2>2. CASE Snapshot(g)
    BY <2>1, <2>2, NoSessionAssumption DEF Snapshot, Emptied, OwnerInv, TypeOK, Keys, Reopeners
  <2>3. CASE ReopenNext(g)
    BY <2>1, <2>3, NoSessionAssumption DEF ReopenNext, OwnerInv, TypeOK, Keys, Reopeners
  <2>4. CASE ReopenFailed(g)
    BY <2>1, <2>4, NoSessionAssumption DEF ReopenFailed, OwnerInv, TypeOK, Keys, Reopeners
  <2>5. CASE ReopenAdd(g)
    BY <2>1, <2>5, NoSessionAssumption DEF ReopenAdd, OwnerInv, TypeOK, Keys, Reopeners
  <2>6. CASE UNCHANGED <<routes, todo, cur>>
    BY <2>1, <2>6 DEF Keys, Reopeners
  <2> QED BY <2>2, <2>3, <2>4, <2>5, <2>6 DEF Reopener, ReopenOpened, ReopenRegistered, ReopenDone
<1> QED BY <1>1, <1>4, <1>5, <1>6 DEF ClosedInv

\* Every step keeps closed sessions out of the table.
LEMMA ClosedStep ==
  ASSUME Quiet, OwnerInv, ClosedInv, [Next]_vars
  PROVE  ClosedInv'
<1> USE DEF clientVars, sessionVars, reopenVars, masterVars
<1>1. ASSUME NEW s \in Sess, User(s) PROVE ClosedInv'
  BY <1>1, UserKeepsClosed
<1>2. ASSUME NEW g \in Gens, Reopener(g) PROVE ClosedInv'
  BY <1>2, ReopenerKeepsClosed
<1>3. CASE (\E t \in Threads : Exchange(t)) \/ UNCHANGED vars
  <2>1. UNCHANGED <<up, routes, sdone, userPc, reopenPc, todo, cur>>
    BY <1>3 DEF Exchange, Transmit, MasterGrants, MasterRefuses, RequestTimeout, vars
  <2> QED BY <2>1 DEF ClosedInv, UserIdle, Keys, Reopeners
<1>4. CASE ConnectionLost
  <2>1. UNCHANGED <<routes, sdone, userPc, reopenPc, todo, cur>> /\ \A s \in Sess : UserIdle(s)
    BY <1>4 DEF ConnectionLost
  <2> QED BY <2>1 DEF ClosedInv, UserIdle, Keys, Reopeners
<1>5. CASE Reconnect
  <2>1. UNCHANGED <<routes, sdone, userPc, todo, cur>>
    BY <1>5 DEF Reconnect
  <2>2. \A s \in Sess : UserIdle(s)
    BY <1>5 DEF Reconnect, LostConnection, ClosedInv
  <2>3. \A g \in Gens : reopenPc'[g] = "done" => reopenPc[g] = "done"
    BY <1>5 DEF Reconnect, OwnerInv, TypeOK
  <2> QED BY <2>1, <2>2, <2>3 DEF ClosedInv, UserIdle, Keys, Reopeners
<1> QED BY <1>1, <1>2, <1>3, <1>4, <1>5 DEF Next

\* No closed session is routed, for any number of sessions and losses and
\* whatever the master agent answers, as long as no user call overlaps a
\* re-opening (Session.Close, reopenSessions).
THEOREM ClosedStaysUnrouted ==
  ASSUME Quiet
  PROVE  Spec => []ClosedIsNotRouted
<1>1. Init => ClosedInv
  BY DEF Init, ClosedInv, UserIdle
<1>2. OwnerInv /\ ClosedInv /\ [Next]_vars => ClosedInv'
  BY ClosedStep
<1>3. ClosedInv => ClosedIsNotRouted
  BY DEF ClosedInv, ClosedIsNotRouted
<1> QED BY <1>1, <1>2, <1>3, OwnershipInvariance, PTL DEF Spec

-----------------------------------------------------------------------------
(* Re-opened sessions, when nothing else disturbs a re-opening *)

Busy(g) == reopenPc[g] \notin {"none", "done"}

\* Connections are not lost while a reopener is still at work on the last one.
LossesApart == [][ConnectionLost => \A g \in Gens : ~Busy(g)]_vars

\* The assumptions on the environment: users wait for the re-opening, answers
\* come in time, and an id that a session may still use is not assigned again.
Orderly ==
  /\ Quiet /\ ~Impatient
  /\ ReuseIDs => MaxDrops <= 1 /\ "reclose" \notin UserCalls

\* Where a user may still make a request by the session's id.
Callers == {"opened", "ready", "register", "unregister", "close"}
             \cup (IF "reclose" \in UserCalls THEN {"closed"} ELSE {})

\* A session that has been on an earlier connection and waits for its turn.
Pending(s) ==
  \/ Keys(s) # {} /\ (~up \/ \E g \in Gens : reopenPc[g] = "start")
  \/ \E g \in Gens : s \in todo[g]

\* Reopeners do not overlap, and none of the first connection failed.
OneAtATime ==
  /\ \A g, h \in Gens : Busy(g) /\ Busy(h) => g = h
  /\ ~up => \A g \in Gens : ~Busy(g)
  /\ gen = 1 => \A s \in Sess : ~reported[s]

\* No request is lost or given up, and there are none outside calls.
Undisturbed ==
  /\ \A t \in Threads : req[t].status \in {"none", "queued", "sent", "granted", "refused"}
  /\ \A s \in Sess : userPc[s] \in {"new", "opened", "ready", "failed", "closed"}
                       => req[s].status = "none"
  /\ \A g \in Gens : reopenPc[g] \notin {"open", "register"} => req[g].status = "none"

\* The id a user may send is open for that session or for none, and will not be
\* assigned to another.
IdsApart ==
  /\ \A i \in IDs : owner[i] # NoSession => i \in used
  /\ \A s \in Sess : userPc[s] \in Callers /\ ~Pending(s) =>
       id[s] = 0 \/ (id[s] \in used /\ owner[id[s]] \in {s, NoSession})

Opened(t, s) == req[t].status = "granted" => req[t].newID \in IDs /\ owner[req[t].newID] = s

\* What the users' requests ask for.
UserRequests ==
  \A s \in Sess :
    /\ userPc[s] \in {"new", "opening", "opened"} => ~registered[s]
    /\ userPc[s] = "opening" => req[s].kind = "open" /\ Opened(s, s)
    /\ userPc[s] = "opened" => id[s] \in IDs /\ owner[id[s]] = s
    /\ userPc[s] \in {"register", "unregister", "close"} =>
         req[s].kind = userPc[s] /\ req[s].sid = id[s]

\* How far a reopener has come with its session.
ReopenRequests ==
  \A g \in Gens :
    /\ reopenPc[g] = "open" => req[g].kind = "open" /\ Opened(g, cur[g])
    /\ reopenPc[g] \in {"register", "add"} => id[cur[g]] \in IDs /\ owner[id[cur[g]]] = cur[g]
    /\ reopenPc[g] = "register" => /\ req[g].kind = "register" /\ req[g].sid = id[cur[g]]
                                   /\ req[g].status = "granted" => id[cur[g]] \in regions
    /\ reopenPc[g] = "add" /\ registered[cur[g]] => id[cur[g]] \in regions

Granted(s) == req[s].status = "granted"

\* An established session, and its registration at each stage of a call.
Standing(s) ==
  /\ Keys(s) = {id[s]}
  /\ owner[id[s]] = s
  /\ userPc[s] = "ready" /\ registered[s] => id[s] \in regions
  /\ userPc[s] = "register" => ~registered[s] /\ (Granted(s) => id[s] \in regions)
  /\ userPc[s] = "unregister" => registered[s] /\ (~Granted(s) => id[s] \in regions)

\* A session nobody complained about waits for its turn, is being re-opened, or
\* is established.
AllStand ==
  \A s \in Sess : userPc[s] \in {"ready", "register", "unregister"} /\ ~reported[s] =>
    Pending(s) \/ (\E g \in Gens : cur[g] = s) \/ Standing(s)

StandInv ==
  /\ OneAtATime /\ Undisturbed /\ IdsApart
  /\ UserRequests /\ ReopenRequests /\ AllStand

\* The initial state satisfies it.
LEMMA StandInit == Init => StandInv
<1> SUFFICES ASSUME Init PROVE StandInv
  OBVIOUS
<1>1. \A t \in Threads : req[t] = NoReq
  BY DEF Init
<1>2. OneAtATime
  BY DEF Init, OneAtATime, Busy
<1>3. Undisturbed
  BY <1>1 DEF Init, Undisturbed, NoReq, Threads
<1>4. IdsApart
  BY DEF Init, IdsApart
<1>5. UserRequests /\ ReopenRequests /\ AllStand
  BY DEF Init, UserRequests, ReopenRequests, AllStand
<1> QED BY <1>2, <1>3, <1>4, <1>5 DEF StandInv

\* While no reopener works, no session is on its way.
LEMMA CalmFacts ==
  ASSUME OwnerInv, ClosedInv, up, \A g \in Gens : ~Busy(g)
  PROVE  \A s \in Sess : ~Pending(s) /\ \A g \in Gens : s \notin todo[g] /\ cur[g] # s
<1>1. \A g \in Gens : todo[g] = {} /\ cur[g] = NoSession
  BY DEF OwnerInv, ReopenerHands, ClosedInv, Busy
<1>2. \A g \in Gens : reopenPc[g] # "start"
  BY DEF Busy
<1> QED BY <1>1, <1>2, NoSessionAssumption DEF Pending

\* What users do concerns their own session only.
LEMMA UserKeepsStanding ==
  ASSUME Quiet, OwnerInv, OwnerInv', ClosedInv, StandInv, NEW s \in Sess, User(s)
  PROVE  StandInv'
<1> USE DEF clientVars, sessionVars, reopenVars, masterVars
<1>0. s \in Threads /\ TypeOK /\ TypeOK'
  BY DEF Threads, OwnerInv
<1>1. UNCHANGED <<up, gen, reopenPc, todo, cur, reported, owner, regions, used>>
  BY DEF User, OpenSession, OpenSessionReturns, RegisterSession, StartCall, CloseAgain,
         RegisterReturns, CloseReturns
<1>2. up /\ \A g \in Gens : ~Busy(g)
  BY DEF ClosedInv, UserIdle, Busy, MayCall, User, OpenSession, OpenSessionReturns,
         RegisterSession, StartCall, CloseAgain, RegisterReturns, CloseReturns
<1>3. \A r \in Sess : ~Pending(r) /\ \A g \in Gens : r \notin todo[g] /\ cur[g] # r
  BY <1>2, CalmFacts
<1>4. \A r \in Sess \ {s} : /\ id'[r] = id[r] /\ userPc'[r] = userPc[r]
                            /\ registered'[r] = registered[r] /\ req'[r] = req[r]
  BY <1>0 DEF TypeOK, Threads, User, OpenSession, OpenSessionReturns, RegisterSession, StartCall,
         CloseAgain, RegisterReturns, CloseReturns, Request, Consume
<1>5. \A t \in Threads \ {s} : req'[t] = req[t]
  BY <1>0 DEF TypeOK, User, OpenSession, OpenSessionReturns, RegisterSession, StartCall,
         CloseAgain, RegisterReturns, CloseReturns, Request, Consume
<1>6. OneAtATime'
  BY <1>1 DEF StandInv, OneAtATime, Busy
<1>7. ReopenRequests'
  BY <1>1, <1>2 DEF ReopenRequests, Busy
<1>8. \A r \in Sess : ~Pending(r)'
  BY <1>1, <1>2, <1>3 DEF Pending, Busy
<1>9. IdsApart /\ UserRequests /\ Undisturbed /\ AllStand
  BY DEF StandInv
<1>10. ASSUME NEW r \in Sess \ {s}, userPc[r] \in {"ready", "register", "unregister"},
              ~reported[r]
       PROVE  Standing(r) /\ (Keys(r)' = Keys(r) => Standing(r)')
  <2>1. Standing(r)
    BY <1>3, <1>9, <1>10 DEF AllStand
  <2> QED BY <1>1, <1>4, <2>1 DEF Standing, Granted
<1>11. ASSUME routes' = routes PROVE \A r \in Sess : Keys(r)' = Keys(r)
  BY <1>11 DEF Keys
<1>12. Undisturbed'
  <2>1. \A g \in Gens : req'[g].status = "none"
    <3>1. \A g \in Gens : reopenPc[g] \notin {"open", "register"} /\ g \in Threads \ {s}
      BY <1>2, ThreadsAssumption DEF Busy, Threads
    <3> QED BY <1>5, <1>9, <3>1 DEF Undisturbed
  <2>2. CASE req'[s] = NoReq
    BY <1>4, <1>5, <1>9, <2>1, <2>2 DEF Undisturbed, NoReq
  <2>3. CASE req'[s].status = "queued" /\ userPc'[s] \in {"opening", "register", "unregister", "close"}
    BY <1>4, <1>5, <1>9, <2>1, <2>3 DEF Undisturbed
  <2>4. CASE RegisterSession(s)
    BY <1>0, <1>9, <2>1, <2>4 DEF RegisterSession, Undisturbed, TypeOK
  <2>5. ASSUME NEW kind \in UserCalls \ {"reclose"}, StartCall(s, kind)
        PROVE  req'[s].status = "queued" /\ userPc'[s] \in {"register", "unregister", "close"}
    <3>1. kind \in {"register", "unregister", "close"}
      BY UserCallsAssumption
    <3> QED BY <1>0, <2>5, <3>1 DEF StartCall, Request, TypeOK
  <2>6. CASE OpenSession(s) \/ CloseAgain(s)
    BY <1>0, <2>3, <2>6 DEF OpenSession, CloseAgain, Request, TypeOK
  <2>7. CASE OpenSessionReturns(s) \/ RegisterReturns(s) \/ CloseReturns(s)
    BY <1>0, <2>2, <2>7 DEF OpenSessionReturns, RegisterReturns, CloseReturns, Consume, TypeOK
  <2> QED BY <2>3, <2>4, <2>5, <2>6, <2>7 DEF User
<1>13. CASE OpenSession(s)
  <2>1. /\ UNCHANGED <<routes, id, registered>> /\ userPc[s] = "new" /\ userPc'[s] = "opening"
        /\ req'[s].kind = "open" /\ req'[s].status = "queued"
    BY <1>0, <1>13 DEF OpenSession, Request, TypeOK
  <2>2. IdsApart'
    BY <1>1, <1>3, <1>4, <1>9, <2>1 DEF IdsApart, Callers
  <2>3. UserRequests'
    BY <1>1, <1>4, <1>9, <2>1 DEF UserRequests, Opened
  <2>4. AllStand'
    BY <1>1, <1>4, <1>10, <1>11, <2>1 DEF AllStand
  <2> QED BY <1>6, <1>7, <1>12, <2>2, <2>3, <2>4 DEF StandInv
<1>14. CASE OpenSessionReturns(s)
  <2>1. /\ UNCHANGED <<routes, registered>> /\ userPc[s] = "opening"
        /\ Succeeded(s) => userPc'[s] = "opened" /\ id'[s] = req[s].newID
        /\ ~Succeeded(s) => userPc'[s] = "failed" /\ id'[s] = id[s]
    BY <1>0, <1>14 DEF OpenSessionReturns, TypeOK
  <2>2. Succeeded(s) => /\ req[s].newID \in IDs /\ owner[req[s].newID] = s
                        /\ req[s].newID \in used
    BY <1>9, <2>1, NoSessionAssumption DEF UserRequests, Opened, Succeeded, IdsApart
  <2>3. IdsApart'
    BY <1>1, <1>3, <1>4, <1>9, <2>1, <2>2 DEF IdsApart, Callers
  <2>4. UserRequests'
    BY <1>1, <1>4, <1>9, <2>1, <2>2 DEF UserRequests, Opened
  <2>5. AllStand'
    BY <1>1, <1>4, <1>10, <1>11, <2>1 DEF AllStand
  <2> QED BY <1>6, <1>7, <1>12, <2>3, <2>4, <2>5 DEF StandInv
<1>15. CASE RegisterSession(s)
  <2>1. /\ UNCHANGED <<id, registered, req>> /\ userPc[s] = "opened" /\ userPc'[s] = "ready"
        /\ routes' = [routes EXCEPT ![id[s]] = s]
    BY <1>0, <1>15 DEF RegisterSession, TypeOK
  <2>2. id[s] \in IDs /\ owner[id[s]] = s /\ ~registered[s] /\ Keys(s) = {}
    BY <1>9, <2>1 DEF UserRequests, OwnerInv, NotYetShared
  <2>3. IdsApart'
    BY <1>1, <1>3, <1>4, <1>9, <2>1 DEF IdsApart, Callers
  <2>4. UserRequests'
    BY <1>1, <1>4, <1>9, <2>1 DEF UserRequests, Opened
  <2>5. Keys(s)' = {id[s]}
    BY <1>0, <2>1, <2>2 DEF Keys, TypeOK
  <2>6. ASSUME NEW r \in Sess \ {s}, id[s] \notin Keys(r) PROVE Keys(r)' = Keys(r)
    BY <1>0, <2>1, <2>2, <2>6 DEF Keys, TypeOK
  <2>7. \A r \in Sess \ {s} : Standing(r) => id[s] \notin Keys(r)
    BY <2>2 DEF Standing
  <2>8. Standing(s)'
    BY <1>1, <2>1, <2>2, <2>5 DEF Standing
  <2>9. AllStand'
    BY <1>1, <1>4, <1>10, <2>6, <2>7, <2>8 DEF AllStand
  <2> QED BY <1>6, <1>7, <1>12, <2>3, <2>4, <2>9 DEF StandInv
<1>16. ASSUME NEW kind \in UserCalls \ {"reclose"}, StartCall(s, kind)
       PROVE  StandInv'
  <2>0. kind \in {"register", "unregister", "close"}
    BY UserCallsAssumption
  <2>1. /\ UNCHANGED <<routes, id, registered>> /\ userPc[s] = "ready" /\ userPc'[s] = kind
        /\ kind = "register" => ~registered[s]
        /\ kind = "unregister" => registered[s]
        /\ req'[s].kind = kind /\ req'[s].sid = id[s] /\ req'[s].status = "queued"
    BY <1>0, <1>16 DEF StartCall, Request, TypeOK
  <2>2. IdsApart'
    BY <1>1, <1>3, <1>4, <1>9, <2>1 DEF IdsApart, Callers
  <2>3. UserRequests'
    BY <1>1, <1>4, <1>9, <2>0, <2>1 DEF UserRequests, Opened
  <2>4. ~reported[s] => Standing(s)
    BY <1>3, <1>9, <2>1 DEF AllStand
  <2>5. ~reported[s] => Standing(s)'
    BY <1>1, <1>11, <2>0, <2>1, <2>4 DEF Standing, Granted
  <2>6. AllStand'
    BY <1>1, <1>4, <1>10, <1>11, <2>1, <2>5 DEF AllStand
  <2> QED BY <1>6, <1>7, <1>12, <2>2, <2>3, <2>6 DEF StandInv
<1>17. CASE RegisterReturns(s)
  <2>1. /\ UNCHANGED <<routes, id>> /\ userPc[s] \in {"register", "unregister"}
        /\ userPc'[s] = "ready"
        /\ registered'[s] = IF Granted(s) THEN userPc[s] = "register" ELSE registered[s]
    BY <1>0, <1>17 DEF RegisterReturns, Succeeded, Granted, TypeOK
  <2>2. IdsApart'
    BY <1>1, <1>3, <1>4, <1>9, <2>1 DEF IdsApart, Callers
  <2>3. UserRequests'
    BY <1>1, <1>4, <1>9, <2>1 DEF UserRequests, Opened
  <2>4. ~reported[s] => Standing(s)
    BY <1>3, <1>9, <2>1 DEF AllStand
  <2>5. ~reported[s] => Standing(s)'
    BY <1>1, <1>11, <2>1, <2>4 DEF Standing
  <2>6. AllStand'
    BY <1>1, <1>4, <1>10, <1>11, <2>1, <2>5 DEF AllStand
  <2> QED BY <1>6, <1>7, <1>12, <2>2, <2>3, <2>6 DEF StandInv
<1>18. CASE CloseReturns(s)
  <2>1. /\ UNCHANGED <<id, registered>> /\ userPc[s] = "close" /\ userPc'[s] = "closed"
        /\ routes' = [i \in IDs |-> IF i = id[s] THEN NoSession ELSE routes[i]]
    BY <1>0, <1>18 DEF CloseReturns, unregisterSession, TypeOK
  <2>2. IdsApart'
    BY <1>1, <1>3, <1>4, <1>9, <2>1 DEF IdsApart, Callers
  <2>3. UserRequests'
    BY <1>1, <1>4, <1>9, <2>1 DEF UserRequests, Opened
  <2>4. ASSUME NEW r \in Sess \ {s}, id[s] \notin Keys(r) PROVE Keys(r)' = Keys(r)
    BY <2>1, <2>4, NoSessionAssumption DEF Keys
  <2>5. ASSUME NEW r \in Sess \ {s}, Standing(r) PROVE id[s] \notin Keys(r)
    <3>1. id[s] = 0 \/ owner[id[s]] \in {s, NoSession}
      BY <1>3, <1>9, <2>1 DEF IdsApart, Callers
    <3> QED BY <2>5, <3>1, NoSessionAssumption, SessionBoundsAssumption DEF Standing, Keys, IDs
  <2>6. AllStand'
    BY <1>1, <1>4, <1>10, <2>1, <2>4, <2>5 DEF AllStand
  <2> QED BY <1>6, <1>7, <1>12, <2>2, <2>3, <2>6 DEF StandInv
<1>19. CASE "reclose" \in UserCalls /\ CloseAgain(s)
  <2>1. /\ UNCHANGED <<routes, id, registered>> /\ userPc[s] = "closed" /\ userPc'[s] = "close"
        /\ req'[s].kind = "close" /\ req'[s].sid = id[s]
    BY <1>0, <1>19 DEF CloseAgain, Request, TypeOK
  <2>2. IdsApart'
    BY <1>1, <1>3, <1>4, <1>9, <1>19, <2>1 DEF IdsApart, Callers
  <2>3. UserRequests'
    BY <1>1, <1>4, <1>9, <2>1 DEF UserRequests, Opened
  <2>4. AllStand'
    BY <1>1, <1>4, <1>10, <1>11, <2>1 DEF AllStand
  <2> QED BY <1>6, <1>7, <1>12, <2>2, <2>3, <2>4 DEF StandInv
<1> QED BY <1>13, <1>14, <1>15, <1>16, <1>17, <1>18, <1>19 DEF User

\* A request belongs to a call or to a reopener, and the connection is up.
LEMMA RequestInCall ==
  ASSUME OwnerInv, ClosedInv, StandInv, NEW t \in Threads, req[t].status # "none"
  PROVE  /\ up
         /\ t \in Sess => /\ userPc[t] \in {"opening", "register", "unregister", "close"}
                          /\ \A g \in Gens : ~Busy(g)
                          /\ \A s \in Sess : ~Pending(s)
         /\ t \in Gens => reopenPc[t] \in {"open", "register"}
<1>1. CASE t \in Sess
  <2>1. userPc[t] \in {"opening", "register", "unregister", "close"}
    BY <1>1 DEF StandInv, Undisturbed, OwnerInv, TypeOK
  <2>2. up /\ \A g \in Gens : ~Busy(g)
    BY <1>1, <2>1 DEF ClosedInv, UserIdle, Busy
  <2> QED BY <1>1, <2>1, <2>2, CalmFacts, ThreadsAssumption
<1>2. CASE t \in Gens
  <2>1. reopenPc[t] \in {"open", "register"}
    BY <1>2 DEF StandInv, Undisturbed, OwnerInv, TypeOK
  <2>2. up
    BY <1>2, <2>1 DEF StandInv, OneAtATime, Busy
  <2> QED BY <1>2, <2>1, <2>2, ThreadsAssumption
<1> QED BY <1>1, <1>2 DEF Threads

\* Sending and refusing a request changes nothing else.
LEMMA StatusKeepsStanding ==
  ASSUME OwnerInv, ClosedInv, StandInv, NEW t \in Threads, req[t].status # "none",
         NEW st \in {"sent", "refused"}, req[t].status \in {"queued", "sent"},
         SetStatus(t, st), UNCHANGED <<clientVars, sessionVars, reopenVars, masterVars>>
  PROVE  StandInv'
<1> USE DEF clientVars, sessionVars, reopenVars, masterVars
<1>1. /\ \A u \in Threads : req'[u].kind = req[u].kind /\ req'[u].sid = req[u].sid
                            /\ req'[u].newID = req[u].newID
      /\ \A u \in Threads : req'[u].status = IF u = t THEN st ELSE req[u].status
  BY DEF SetStatus, OwnerInv, TypeOK
<1>2. \A s \in Sess : Pending(s)' = Pending(s) /\ Keys(s)' = Keys(s)
  BY DEF Pending, Keys
<1>3. OneAtATime' /\ IdsApart'
  BY <1>2 DEF StandInv, OneAtATime, Busy, IdsApart
<1>4. Undisturbed'
  BY <1>1, RequestInCall DEF StandInv, Undisturbed, Threads
<1>5. \A u \in Threads : req'[u].status = "granted" <=> req[u].status = "granted"
  BY <1>1
<1>6. \A u \in Threads, s \in Sess \cup {NoSession} : Opened(u, s) => Opened(u, s)'
  BY <1>1, <1>5 DEF Opened
<1>7. UserRequests'
  BY <1>1, <1>6 DEF StandInv, UserRequests, Threads
<1>8. ReopenRequests'
  BY <1>1, <1>5, <1>6 DEF StandInv, ReopenRequests, Threads, OwnerInv, TypeOK
<1>9. \A s \in Sess : Standing(s) => Standing(s)'
  BY <1>2, <1>5 DEF Standing, Granted, Threads
<1>10. AllStand'
  BY <1>2, <1>9 DEF StandInv, AllStand
<1> QED BY <1>3, <1>4, <1>7, <1>8, <1>10 DEF StandInv

\* What the master agent grants changes its own books for one id, which is new
\* or the requester's.
LEMMA GrantKeepsStanding ==
  ASSUME OwnerInv, OwnerInv', ClosedInv, StandInv, NEW t \in Threads, MasterGrants(t)
  PROVE  StandInv'
<1> USE DEF clientVars, sessionVars, reopenVars, masterVars
<1>0. /\ UNCHANGED <<clientVars, sessionVars, reopenVars>> /\ req[t].status = "sent"
      /\ TypeOK /\ TypeOK'
  BY DEF MasterGrants, OwnerInv
<1>1. /\ \A u \in Threads : req'[u].kind = req[u].kind /\ req'[u].sid = req[u].sid
      /\ \A u \in Threads \ {t} : req'[u] = req[u]
      /\ req'[t].status = "granted"
  BY <1>0 DEF MasterGrants, SetStatus, TypeOK
<1>2. \A s \in Sess : Pending(s)' = Pending(s) /\ Keys(s)' = Keys(s)
  BY <1>0 DEF Pending, Keys
<1>3. OneAtATime'
  BY <1>0 DEF StandInv, OneAtATime, Busy
<1>4. Undisturbed'
  <2>1. \A u \in Threads : req'[u].status \in {"none", "queued", "sent", "granted", "refused"}
    BY <1>1 DEF StandInv, Undisturbed
  <2>2. req[t].status # "none"
    BY <1>0
  <2> QED BY <1>0, <1>1, <2>1, <2>2 DEF StandInv, Undisturbed, Threads
<1>5. /\ t \in Sess => userPc[t] \in {"opening", "register", "unregister", "close"}
      /\ t \in Sess => (\A g \in Gens : ~Busy(g)) /\ (\A s \in Sess : ~Pending(s))
      /\ t \in Gens => reopenPc[t] \in {"open", "register"}
  BY <1>0, RequestInCall
<1>6. IdsApart /\ UserRequests /\ ReopenRequests /\ AllStand
  BY DEF StandInv
<1>7. /\ t \in Sess => req[t].kind = IF userPc[t] = "opening" THEN "open" ELSE userPc[t]
      /\ t \in Gens => req[t].kind = reopenPc[t]
  BY <1>5, <1>6 DEF UserRequests, ReopenRequests
<1>8. CASE req[t].kind = "open"
  <2>1. PICK i \in FreshIDs : /\ owner' = [owner EXCEPT ![i] = Requester(t)]
                              /\ used' = used \cup {i}
                              /\ req' = [req EXCEPT ![t].status = "granted", ![t].newID = i]
    BY <1>8 DEF MasterGrants
  <2>2. regions' = regions
    BY <1>8 DEF MasterGrants
  <2>3. /\ i \in IDs /\ i \notin used /\ req'[t].newID = i
        /\ owner'[i] = Requester(t) /\ \A j \in IDs \ {i} : owner'[j] = owner[j]
    BY <1>0, <2>1 DEF FreshIDs, TypeOK
  <2>4. \A j \in IDs : owner[j] # NoSession => j # i
    BY <1>6, <2>3 DEF IdsApart
  <2>5. \A j \in IDs, s \in Sess : owner[j] = s => owner'[j] = s
    BY <2>3, <2>4, NoSessionAssumption
  <2>6. IdsApart'
    <3>1. \A s \in Sess : id[s] \in used => id[s] \in IDs /\ owner'[id[s]] = owner[id[s]]
      BY <1>0, <2>3 DEF TypeOK
    <3>2. \A s \in Sess : userPc[s] \in Callers /\ ~Pending(s) =>
            id[s] = 0 \/ (id[s] \in used' /\ owner'[id[s]] \in {s, NoSession})
      BY <1>6, <2>1, <3>1 DEF IdsApart
    <3>3. \A j \in IDs : owner'[j] # NoSession => j \in used'
      BY <1>6, <2>1, <2>3 DEF IdsApart
    <3> QED BY <1>0, <1>2, <3>2, <3>3 DEF IdsApart
  <2>7. ASSUME NEW u \in Threads \ {t}, NEW s \in Sess, Opened(u, s) PROVE Opened(u, s)'
    BY <1>1, <2>5, <2>7 DEF Opened
  <2>8. UserRequests'
    <3>1. t \in Sess => Opened(t, t)'
      BY <2>3 DEF Opened, Requester
    <3>2. \A s \in Sess : Opened(s, s) => Opened(s, s)'
      BY <2>7, <3>1 DEF Threads
    <3>3. \A s \in Sess : s = t => Opened(s, s)'
      BY <3>1
    <3> QED BY <1>0, <1>1, <1>6, <2>5, <3>2 DEF UserRequests, Threads
  <2>9. ReopenRequests'
    <3>1. t \in Gens => Opened(t, cur[t])'
      BY <1>0, <2>3, ThreadsAssumption DEF Opened, Requester
    <3>2. \A g \in Gens : reopenPc[g] \in {"open", "register", "add"} => cur[g] \in Sess
      BY <1>0 DEF OwnerInv, ReopenerHands, TypeOK
    <3>3. \A g \in Gens : reopenPc[g] = "open" => Opened(g, cur[g])'
      BY <1>0, <1>6, <2>7, <3>1, <3>2 DEF ReopenRequests, Threads
    <3>4. \A g \in Gens : reopenPc[g] \in {"register", "add"} => owner'[id[cur[g]]] = cur[g]
      BY <1>6, <2>5, <3>2 DEF ReopenRequests
    <3>5. \A g \in Gens : reopenPc[g] = "register" => req'[g] = req[g]
      BY <1>1, <1>7, <1>8 DEF Threads
    <3> QED BY <1>0, <1>1, <1>6, <2>2, <3>3, <3>4, <3>5 DEF ReopenRequests, Threads
  <2>10. ASSUME NEW s \in Sess, Standing(s), userPc[s] \in {"ready", "register", "unregister"}
         PROVE  Standing(s)'
    <3>1. id[s] \in IDs
      BY <2>10 DEF Standing, Keys
    <3>2. userPc[s] # "ready" => req'[s] = req[s]
      BY <1>1, <1>7, <1>8, <2>10 DEF Threads
    <3> QED BY <1>0, <1>2, <2>2, <2>5, <2>10, <3>1, <3>2 DEF Standing, Granted
  <2>11. AllStand'
    BY <1>0, <1>2, <1>6, <2>10 DEF AllStand
  <2> QED BY <1>3, <1>4, <2>6, <2>8, <2>9, <2>11 DEF StandInv
<1>9. CASE req[t].kind = "register"
  <2>1. /\ owner' = owner /\ used' = used /\ req[t].sid \in IDs
        /\ regions' = regions \cup {req[t].sid}
        /\ req' = [req EXCEPT ![t].status = "granted"]
    BY <1>9 DEF MasterGrants, SetStatus
  <2>2. IdsApart'
    BY <1>0, <1>2, <1>6, <2>1 DEF IdsApart
  <2>3. ASSUME NEW u \in Threads, req[u].kind = "open", NEW s, Opened(u, s) PROVE Opened(u, s)'
    BY <1>1, <1>9, <2>1, <2>3 DEF Opened
  <2>4. UserRequests'
    BY <1>0, <1>1, <1>6, <2>1, <2>3 DEF UserRequests, Threads
  <2>5. \A g \in Gens : reopenPc[g] = "register" /\ req'[g].status = "granted" =>
                          id[cur[g]] \in regions'
    BY <1>1, <1>6, <2>1 DEF ReopenRequests, Threads
  <2>6. ReopenRequests'
    BY <1>0, <1>1, <1>6, <2>1, <2>3, <2>5 DEF ReopenRequests, Threads
  <2>7. ASSUME NEW s \in Sess, Standing(s), userPc[s] \in {"ready", "register", "unregister"}
        PROVE  Standing(s)'
    <3>1. userPc[s] = "register" /\ Granted(s)' => id[s] \in regions'
      BY <1>1, <1>6, <2>1, <2>7 DEF Standing, Granted, UserRequests, Threads
    <3> QED BY <1>0, <1>1, <1>2, <2>1, <2>7, <3>1 DEF Standing, Granted, Threads
  <2>8. AllStand'
    BY <1>0, <1>2, <1>6, <2>7 DEF AllStand
  <2> QED BY <1>3, <1>4, <2>2, <2>4, <2>6, <2>8 DEF StandInv
<1>10. CASE req[t].kind \in {"unregister", "close"}
  <2>1. /\ t \in Sess /\ userPc[t] = req[t].kind /\ req[t].sid = id[t]
        /\ (\A g \in Gens : ~Busy(g)) /\ (\A s \in Sess : ~Pending(s))
    BY <1>5, <1>6, <1>7, <1>10 DEF Threads, UserRequests
  <2>2. /\ used' = used /\ regions' = regions \ {id[t]} /\ id[t] \in IDs
        /\ \A j \in IDs : owner'[j] = IF req[t].kind = "close" /\ j = id[t] THEN NoSession
                                                                            ELSE owner[j]
    BY <1>0, <1>10, <2>1 DEF MasterGrants, TypeOK
  <2>3. owner[id[t]] \in {t, NoSession}
    BY <1>6, <1>10, <2>1, <2>2, SessionBoundsAssumption DEF IdsApart, Callers, IDs
  <2>4. \A j \in IDs, s \in Sess \ {t} : owner[j] = s => owner'[j] = s /\ j # id[t]
    BY <2>2, <2>3, NoSessionAssumption
  <2>5. IdsApart'
    <3>1. \A s \in Sess : id[s] \in used => id[s] \in IDs /\ owner'[id[s]] \in {owner[id[s]], NoSession}
      BY <1>0, <2>2 DEF TypeOK
    <3>2. \A s \in Sess : userPc[s] \in Callers =>
            id[s] = 0 \/ (id[s] \in used /\ owner'[id[s]] \in {s, NoSession})
      BY <1>6, <2>1, <3>1 DEF IdsApart
    <3>3. \A j \in IDs : owner'[j] # NoSession => j \in used
      BY <1>6, <2>2 DEF IdsApart
    <3> QED BY <1>0, <1>2, <2>2, <3>2, <3>3 DEF IdsApart
  <2>6. UserRequests'
    <3>1. \A s \in Sess : userPc[s] = "opening" => Opened(s, s)'
      BY <1>1, <1>6, <1>10, <2>1, <2>4 DEF UserRequests, Opened, Threads
    <3>2. \A s \in Sess : userPc[s] = "opened" => id[s] \in IDs /\ owner'[id[s]] = s
      BY <1>6, <1>10, <2>1, <2>4 DEF UserRequests
    <3> QED BY <1>0, <1>1, <1>6, <3>1, <3>2 DEF UserRequests, Threads
  <2>7. ReopenRequests'
    BY <1>0, <2>1 DEF ReopenRequests, Busy
  <2>8. ASSUME NEW s \in Sess, Standing(s), userPc[s] \in {"ready", "register", "unregister"}
        PROVE  Standing(s)'
    <3>1. id[s] \in IDs
      BY <2>8 DEF Standing, Keys
    <3>2. CASE s = t
      BY <1>0, <1>1, <1>2, <1>10, <2>1, <2>2, <2>8, <3>1, <3>2 DEF Standing, Granted
    <3>3. CASE s # t
      <4>1. owner'[id[s]] = s /\ id[s] # id[t] /\ req'[s] = req[s]
        BY <1>1, <2>4, <2>8, <3>1, <3>3 DEF Standing, Threads
      <4> QED BY <1>0, <1>2, <2>2, <2>8, <4>1 DEF Standing, Granted
    <3> QED BY <3>2, <3>3
  <2>9. AllStand'
    BY <1>0, <1>2, <1>6, <2>8 DEF AllStand
  <2> QED BY <1>3, <1>4, <2>5, <2>6, <2>7, <2>9 DEF StandInv
<1> QED BY <1>8, <1>9, <1>10 DEF MasterGrants

\* A request's way keeps the invariant; in an orderly environment none times out.
LEMMA ExchangeKeepsStanding ==
  ASSUME Orderly, OwnerInv, OwnerInv', ClosedInv, StandInv, NEW t \in Threads, Exchange(t)
  PROVE  StandInv'
<1>1. CASE Transmit(t)
  <2>1. req[t].status # "none" /\ req[t].status = "queued"
    BY <1>1 DEF Transmit
  <2>2. up
    BY <2>1, RequestInCall
  <2> QED BY <1>1, <2>1, <2>2, StatusKeepsStanding DEF Transmit
<1>2. CASE MasterGrants(t)
  BY <1>2, GrantKeepsStanding
<1>3. CASE MasterRefuses(t)
  BY <1>3, StatusKeepsStanding DEF MasterRefuses
<1>4. CASE RequestTimeout(t)
  BY <1>4 DEF RequestTimeout, Orderly, StandInv, Undisturbed
<1> QED BY <1>1, <1>2, <1>3, <1>4 DEF Exchange

\* The reopener at work is the only one, and every session keeps standing while
\* it goes through the others.
LEMMA ReopenerKeepsStanding ==
  ASSUME OwnerInv, OwnerInv', ClosedInv, StandInv, NEW g \in Gens, Reopener(g)
  PROVE  StandInv'
<1> USE DEF clientVars, sessionVars, reopenVars, masterVars
<1>0. g \in Threads /\ g \notin Sess /\ TypeOK /\ TypeOK'
  BY ThreadsAssumption DEF Threads, OwnerInv
<1>1. UNCHANGED <<up, gen, registered, sdone, userPc, owner, regions, used>>
  BY DEF Reopener, Snapshot, ReopenNext, ReopenOpened, ReopenRegistered, ReopenFailed,
         ReopenAdd, ReopenDone
<1>2. Busy(g)
  BY DEF Busy, Reopener, Snapshot, ReopenNext, ReopenOpened, ReopenRegistered, ReopenFailed,
         ReopenAdd, ReopenDone
<1>3. OneAtATime /\ Undisturbed /\ IdsApart /\ UserRequests /\ ReopenRequests /\ AllStand
  BY DEF StandInv
<1>4. up /\ \A h \in Gens \ {g} : reopenPc[h] \in {"none", "done"}
  BY <1>2, <1>3 DEF OneAtATime, Busy
<1>5. \A h \in Gens \ {g} : todo[h] = {} /\ cur[h] = NoSession
  BY <1>4 DEF OwnerInv, ReopenerHands, ClosedInv
<1>6. \A s \in Sess : userPc[s] \in {"new", "ready", "failed", "closed"}
  BY <1>2 DEF ClosedInv, UserIdle, Busy
<1>7. /\ \A h \in Gens \ {g} : reopenPc'[h] = reopenPc[h] /\ todo'[h] = todo[h]
      /\ \A h \in Gens \ {g} : cur'[h] = cur[h]
  BY <1>0 DEF TypeOK, Reopener, Snapshot, ReopenNext, ReopenOpened, ReopenRegistered,
         ReopenFailed, ReopenAdd, ReopenDone
<1>8. \A t \in Threads \ {g} : req'[t] = req[t]
  BY <1>0 DEF TypeOK, Reopener, Snapshot, ReopenNext, ReopenOpened, ReopenRegistered,
         ReopenFailed, ReopenAdd, ReopenDone, Request, Consume
<1>9. UserRequests'
  BY <1>1, <1>3, <1>6 DEF UserRequests
<1>10. Undisturbed'
  <2>1. \A s \in Sess : req'[s] = req[s]
    BY <1>0, <1>8 DEF Threads
  <2>2. \A h \in Gens \ {g} : req'[h] = req[h]
    BY <1>8 DEF Threads
  <2>3. /\ req'[g].status \in {"none", "queued", "sent", "granted", "refused"}
        /\ reopenPc'[g] \notin {"open", "register"} => req'[g].status = "none"
    BY <1>0, <1>3 DEF TypeOK, Undisturbed, Reopener, Snapshot, ReopenNext, ReopenOpened,
         ReopenRegistered, ReopenFailed, AfterFailure, ReopenAdd, ReopenDone, Request,
         Consume, NoReq
  <2> QED BY <1>1, <1>3, <1>7, <2>1, <2>2, <2>3 DEF Undisturbed, Threads
<1>11. OneAtATime'
  <2>1. gen # 1
    BY <1>2, SessionBoundsAssumption DEF OwnerInv, LossCounted, Busy, Gens
  <2> QED BY <1>1, <1>4, <1>7, <2>1 DEF OneAtATime, Busy
<1>12. \A h \in Gens \ {g} : reopenPc'[h] \notin {"start", "open", "register", "add"}
  BY <1>4, <1>7
<1>13. \A s \in Sess : Pending(s) <=> (Keys(s) # {} /\ reopenPc[g] = "start") \/ s \in todo[g]
  BY <1>4, <1>5 DEF Pending
<1>14. \A s \in Sess : Pending(s)' <=> (Keys(s)' # {} /\ reopenPc'[g] = "start") \/ s \in todo'[g]
  BY <1>1, <1>4, <1>5, <1>7 DEF Pending
<1>15. \A s \in Sess : (\E h \in Gens : cur[h] = s) <=> cur[g] = s
  BY <1>5, NoSessionAssumption
<1>16. ASSUME NEW s \in Sess, Standing(s), Keys(s)' = Keys(s), id'[s] = id[s]
       PROVE  Standing(s)'
  BY <1>1, <1>6, <1>16 DEF Standing
<1>17. ASSUME NEW c \in Sess,
              \A s \in Sess \ {c} : Pending(s) => Pending(s)',
              \A s \in Sess \ {c} : Pending(s)' => Pending(s),
              \A s \in Sess \ {c} : id'[s] = id[s],
              id'[c] = 0 \/ (id'[c] \in used /\ owner[id'[c]] \in {c, NoSession})
       PROVE  IdsApart'
  BY <1>1, <1>3, <1>17 DEF IdsApart
<1>18. CASE Snapshot(g)
  <2>1. /\ reopenPc[g] = "start" /\ reopenPc'[g] = "next" /\ UNCHANGED <<id, cur, reported>>
        /\ todo'[g] = {routes[i] : i \in IDs} \ {NoSession} /\ todo[g] = {}
    BY <1>0, <1>18 DEF Snapshot, TypeOK, OwnerInv, ReopenerHands
  <2>2. \A s \in Sess : Pending(s)' <=> Pending(s)
    BY <1>13, <1>14, <2>1, NoSessionAssumption DEF Keys
  <2>3. IdsApart'
    BY <1>1, <1>3, <2>1, <2>2 DEF IdsApart
  <2>4. ReopenRequests'
    BY <1>12, <2>1 DEF ReopenRequests
  <2>5. \A s \in Sess : Standing(s) => Pending(s)
    BY <1>13, <2>1 DEF Standing
  <2>6. AllStand'
    BY <1>1, <1>3, <2>1, <2>2, <2>5 DEF AllStand
  <2> QED BY <1>9, <1>10, <1>11, <2>3, <2>4, <2>6 DEF StandInv
<1>19. CASE ReopenNext(g)
  <2>1. PICK c \in todo[g] : /\ todo' = [todo EXCEPT ![g] = @ \ {c}]
                             /\ cur' = [cur EXCEPT ![g] = c]
                             /\ id' = [id EXCEPT ![c] = 0]
    BY <1>19 DEF ReopenNext
  <2>2. /\ reopenPc[g] = "next" /\ reopenPc'[g] = "open" /\ UNCHANGED <<routes, reported>>
        /\ c \in Sess /\ cur'[g] = c /\ id'[c] = 0 /\ todo'[g] = todo[g] \ {c}
        /\ \A s \in Sess \ {c} : id'[s] = id[s]
        /\ req'[g].kind = "open" /\ req'[g].status = "queued"
        /\ cur[g] = NoSession
    BY <1>0, <1>19, <2>1 DEF ReopenNext, Request, TypeOK, OwnerInv, ReopenerHands
  <2>3. \A s \in Sess \ {c} : Pending(s)' <=> Pending(s)
    BY <1>13, <1>14, <2>2
  <2>4. IdsApart'
    BY <1>17, <2>2, <2>3
  <2>5. ReopenRequests'
    BY <1>12, <2>2 DEF ReopenRequests, Opened
  <2>6. \A s \in Sess : Keys(s)' = Keys(s)
    BY <2>2 DEF Keys
  <2>7. AllStand'
    BY <1>1, <1>3, <1>15, <1>16, <2>2, <2>3, <2>6, NoSessionAssumption DEF AllStand
  <2> QED BY <1>9, <1>10, <1>11, <2>4, <2>5, <2>7 DEF StandInv
<1>20. CASE ReopenOpened(g)
  <2>1. PICK c \in Sess : c = cur[g]
    BY <1>0, <1>20 DEF ReopenOpened, OwnerInv, ReopenerHands, TypeOK
  <2>2. PICK n \in IDs : n = req[g].newID /\ owner[n] = c /\ n \in used
    BY <1>3, <1>20, <2>1, NoSessionAssumption DEF ReopenOpened, Succeeded, ReopenRequests, Opened, IdsApart
  <2>3. /\ reopenPc[g] = "open" /\ UNCHANGED <<routes, todo, cur, reported>>
        /\ id'[c] = n /\ \A s \in Sess \ {c} : id'[s] = id[s]
        /\ IF registered[c]
             THEN /\ reopenPc'[g] = "register" /\ req'[g].kind = "register"
                  /\ req'[g].sid = n /\ req'[g].status = "queued"
             ELSE reopenPc'[g] = "add"
    BY <1>0, <1>20, <2>1, <2>2 DEF ReopenOpened, Replays, Request, TypeOK
  <2>4. \A s \in Sess : Pending(s)' <=> Pending(s)
    BY <1>13, <1>14, <2>3
  <2>5. IdsApart'
    BY <1>17, <2>2, <2>3, <2>4
  <2>6. ReopenRequests'
    BY <1>1, <1>12, <2>1, <2>2, <2>3 DEF ReopenRequests
  <2>7. \A s \in Sess : Keys(s)' = Keys(s)
    BY <2>3 DEF Keys
  <2>8. AllStand'
    BY <1>1, <1>3, <1>15, <1>16, <2>1, <2>3, <2>4, <2>7 DEF AllStand
  <2> QED BY <1>9, <1>10, <1>11, <2>5, <2>6, <2>8 DEF StandInv
<1>21. CASE ReopenRegistered(g)
  <2>1. /\ reopenPc[g] = "register" /\ reopenPc'[g] = "add"
        /\ UNCHANGED <<routes, id, todo, cur, reported>>
        /\ id[cur[g]] \in IDs /\ owner[id[cur[g]]] = cur[g] /\ id[cur[g]] \in regions
    BY <1>0, <1>3, <1>21 DEF ReopenRegistered, Succeeded, ReopenRequests, TypeOK
  <2>2. \A s \in Sess : (Pending(s)' <=> Pending(s)) /\ Keys(s)' = Keys(s)
    BY <1>13, <1>14, <2>1 DEF Keys
  <2>3. IdsApart'
    BY <1>1, <1>3, <2>1, <2>2 DEF IdsApart
  <2>4. ReopenRequests'
    BY <1>1, <1>12, <2>1 DEF ReopenRequests
  <2>5. AllStand'
    BY <1>1, <1>3, <1>16, <2>1, <2>2 DEF AllStand
  <2> QED BY <1>9, <1>10, <1>11, <2>3, <2>4, <2>5 DEF StandInv
<1>22. CASE ReopenFailed(g)
  <2>1. PICK c \in Sess : c = cur[g]
    BY <1>0, <1>22 DEF ReopenFailed, OwnerInv, ReopenerHands, TypeOK
  <2>2. /\ reopenPc[g] # "start" /\ reopenPc'[g] = "next" /\ UNCHANGED <<routes, id, todo>>
        /\ reported'[c] = TRUE /\ \A s \in Sess \ {c} : reported'[s] = reported[s]
    BY <1>0, <1>22, <2>1 DEF ReopenFailed, AfterFailure, TypeOK
  <2>3. \A s \in Sess : (Pending(s)' <=> Pending(s)) /\ Keys(s)' = Keys(s)
    BY <1>13, <1>14, <2>2 DEF Keys
  <2>4. IdsApart'
    BY <1>1, <1>3, <2>2, <2>3 DEF IdsApart
  <2>5. ReopenRequests'
    BY <1>12, <2>2 DEF ReopenRequests
  <2>6. AllStand'
    BY <1>1, <1>3, <1>15, <1>16, <2>1, <2>2, <2>3 DEF AllStand
  <2> QED BY <1>9, <1>10, <1>11, <2>4, <2>5, <2>6 DEF StandInv
<1>23. CASE ReopenAdd(g)
  <2>1. PICK c \in Sess : c = cur[g]
    BY <1>0, <1>23 DEF ReopenAdd, OwnerInv, ReopenerHands, TypeOK
  <2>2. /\ reopenPc[g] = "add" /\ reopenPc'[g] = "next" /\ UNCHANGED <<id, todo, reported>>
        /\ \A i \in IDs : routes'[i] = IF i = id[c] THEN c ELSE routes[i]
    BY <1>0, <1>23, <2>1 DEF ReopenAdd, TypeOK
  <2>3. /\ id[c] \in IDs /\ owner[id[c]] = c /\ (registered[c] => id[c] \in regions)
        /\ Keys(c) = {}
    BY <1>3, <2>1, <2>2 DEF ReopenRequests, OwnerInv, OneOwner, Reopeners
  <2>4. Keys(c)' = {id[c]}
    BY <2>2, <2>3 DEF Keys
  <2>5. Standing(c)'
    BY <1>1, <1>6, <2>2, <2>3, <2>4 DEF Standing
  <2>6. ASSUME NEW s \in Sess \ {c}, Standing(s) PROVE Standing(s)'
    <3>1. id[c] \notin Keys(s)
      BY <2>3, <2>6 DEF Standing
    <3>2. Keys(s)' = Keys(s)
      BY <2>2, <3>1 DEF Keys
    <3> QED BY <1>16, <2>2, <2>6, <3>2
  <2>7. \A s \in Sess : Pending(s)' <=> Pending(s)
    BY <1>13, <1>14, <2>2
  <2>8. IdsApart'
    BY <1>1, <1>3, <2>2, <2>7 DEF IdsApart
  <2>9. ReopenRequests'
    BY <1>12, <2>2 DEF ReopenRequests
  <2>10. AllStand'
    BY <1>1, <1>3, <1>15, <2>1, <2>2, <2>5, <2>6, <2>7 DEF AllStand
  <2> QED BY <1>9, <1>10, <1>11, <2>8, <2>9, <2>10 DEF StandInv
<1>24. CASE ReopenDone(g)
  <2>1. /\ reopenPc[g] = "next" /\ reopenPc'[g] = "done"
        /\ UNCHANGED <<routes, id, todo, cur, reported>>
    BY <1>0, <1>24 DEF ReopenDone, TypeOK
  <2>2. \A s \in Sess : (Pending(s)' <=> Pending(s)) /\ Keys(s)' = Keys(s)
    BY <1>13, <1>14, <2>1 DEF Keys
  <2>3. IdsApart'
    BY <1>1, <1>3, <2>1, <2>2 DEF IdsApart
  <2>4. ReopenRequests'
    BY <1>12, <2>1 DEF ReopenRequests
  <2>5. AllStand'
    BY <1>1, <1>3, <1>16, <2>1, <2>2 DEF AllStand
  <2> QED BY <1>9, <1>10, <1>11, <2>3, <2>4, <2>5 DEF StandInv
<1> QED BY <1>18, <1>19, <1>20, <1>21, <1>22, <1>23, <1>24 DEF Reopener

\* A loss leaves every session that stood waiting for the next reopener, and no
\* request behind.
LEMMA LossKeepsStanding ==
  ASSUME Orderly, OwnerInv, OwnerInv', ClosedInv, StandInv, ConnectionLost,
         \A g \in Gens : ~Busy(g)
  PROVE  StandInv'
<1> USE DEF clientVars, sessionVars, reopenVars, masterVars
<1>0. TypeOK /\ TypeOK'
  BY DEF OwnerInv
<1>1. /\ UNCHANGED <<gen, routes, sessionVars, reopenVars>> /\ up /\ ~up' /\ gen <= MaxDrops
      /\ owner' = [i \in IDs |-> NoSession] /\ used' = IF ReuseIDs THEN {} ELSE used
  BY DEF ConnectionLost
<1>2. OneAtATime /\ Undisturbed /\ IdsApart /\ UserRequests /\ ReopenRequests /\ AllStand
  BY DEF StandInv
<1>3. \A s \in Sess : userPc[s] \in {"new", "ready", "failed", "closed"}
  BY DEF ConnectionLost, Orderly, UserIdle
<1>4. \A s \in Sess : ~Pending(s) /\ \A g \in Gens : s \notin todo[g] /\ cur[g] # s
  BY <1>1, CalmFacts
<1>5. \A t \in Threads : req[t].status = "none"
  BY <1>2, <1>3 DEF Undisturbed, Busy, Threads
<1>6. \A t \in Threads : req'[t] = req[t]
  BY <1>5 DEF ConnectionLost, Finished, Succeeded, Failed
<1>7. \A s \in Sess : Keys(s)' = Keys(s) /\ (Pending(s)' <=> Keys(s) # {})
  BY <1>1, <1>4 DEF Keys, Pending
<1>8. ASSUME NEW s \in Sess, userPc[s] = "ready", ~reported[s] PROVE Pending(s)'
  BY <1>2, <1>4, <1>7, <1>8 DEF AllStand, Standing
<1>9. OneAtATime' /\ Undisturbed'
  BY <1>1, <1>2, <1>6 DEF OneAtATime, Busy, Undisturbed, Threads
<1>10. UserRequests' /\ ReopenRequests'
  BY <1>1, <1>2, <1>3 DEF UserRequests, ReopenRequests, Busy
<1>11. AllStand'
  BY <1>1, <1>3, <1>8 DEF AllStand
<1>12. IdsApart'
  <2>1. CASE ReuseIDs
    <3>1. gen = 1 /\ "reclose" \notin UserCalls
      BY <1>0, <1>1, <2>1, SessionBoundsAssumption DEF Orderly, TypeOK
    <3>2. \A s \in Sess : userPc[s] \in Callers => Pending(s)'
      BY <1>2, <1>3, <1>8, <3>1 DEF Callers, OneAtATime
    <3> QED BY <1>1, <3>2 DEF IdsApart
  <2>2. CASE ~ReuseIDs
    <3>1. \A s \in Sess : id[s] \in used => owner'[id[s]] = NoSession
      BY <1>0, <1>1 DEF TypeOK
    <3> QED BY <1>1, <1>2, <1>4, <2>2, <3>1 DEF IdsApart
  <2> QED BY <2>1, <2>2
<1> QED BY <1>9, <1>10, <1>11, <1>12 DEF StandInv

\* A reconnect starts the one reopener for the sessions that wait.
LEMMA ReconnectKeepsStanding ==
  ASSUME OwnerInv, OwnerInv', ClosedInv, StandInv, Reconnect
  PROVE  StandInv'
<1> USE DEF clientVars, sessionVars, reopenVars, masterVars
<1>0. TypeOK /\ TypeOK'
  BY DEF OwnerInv
<1>1. /\ UNCHANGED <<routes, sessionVars, todo, cur, reported, req, masterVars>>
      /\ ~up /\ up' /\ gen' = gen + 1
  BY DEF Reconnect, LostConnection
<1>2. OneAtATime /\ Undisturbed /\ IdsApart /\ UserRequests /\ ReopenRequests /\ AllStand
  BY DEF StandInv
<1>3. \A g \in Gens : ~Busy(g)
  BY <1>1, <1>2 DEF OneAtATime
<1>4. gen + 1 \in Gens /\ gen' # 1
  BY <1>0, <1>1, SessionBoundsAssumption DEF OwnerInv, LossCounted, TypeOK, Gens
<1>5. \A g \in Gens : reopenPc'[g] = IF g = gen + 1 THEN "start" ELSE reopenPc[g]
  BY <1>0 DEF Reconnect, TypeOK
<1>6. \A s \in Sess : Keys(s)' = Keys(s) /\ (Pending(s)' <=> Pending(s))
  BY <1>1, <1>4, <1>5 DEF Keys, Pending
<1>7. OneAtATime'
  BY <1>1, <1>3, <1>4, <1>5 DEF OneAtATime, Busy
<1>8. Undisturbed'
  BY <1>1, <1>2, <1>3, <1>5 DEF Undisturbed, Busy
<1>9. IdsApart'
  BY <1>1, <1>2, <1>6 DEF IdsApart
<1>10. UserRequests' /\ ReopenRequests'
  BY <1>1, <1>2, <1>3, <1>5 DEF UserRequests, ReopenRequests, Opened, Busy
<1>11. AllStand'
  BY <1>1, <1>2, <1>6 DEF AllStand, Standing, Granted
<1> QED BY <1>7, <1>8, <1>9, <1>10, <1>11 DEF StandInv

\* Every step keeps the invariant, if losses are apart.
LEMMA StandStep ==
  ASSUME Orderly, OwnerInv, OwnerInv', ClosedInv, StandInv, [Next]_vars,
         [ConnectionLost => \A g \in Gens : ~Busy(g)]_vars
  PROVE  StandInv'
<1>1. CASE UNCHANGED vars
  <2>1. \A s \in Sess : Keys(s)' = Keys(s) /\ (Pending(s)' <=> Pending(s))
    BY <1>1 DEF vars, clientVars, sessionVars, reopenVars, masterVars, Keys, Pending
  <2> QED BY <1>1, <2>1
    DEF vars, clientVars, sessionVars, reopenVars, masterVars, StandInv, OneAtATime, Busy,
        Undisturbed, IdsApart, UserRequests, ReopenRequests, Opened, AllStand, Standing, Granted
<1>2. ASSUME NEW s \in Sess, User(s) PROVE StandInv'
  BY <1>2, UserKeepsStanding DEF Orderly
<1>3. ASSUME NEW g \in Gens, Reopener(g) PROVE StandInv'
  BY <1>3, ReopenerKeepsStanding
<1>4. ASSUME NEW t \in Threads, Exchange(t) PROVE StandInv'
  BY <1>4, ExchangeKeepsStanding
<1>5. CASE ConnectionLost
  <2>1. up # up'
    BY <1>5 DEF ConnectionLost
  <2>2. \A g \in Gens : ~Busy(g)
    BY <1>5, <2>1 DEF vars, clientVars
  <2> QED BY <1>5, <2>2, LossKeepsStanding
<1>6. CASE Reconnect
  BY <1>6, ReconnectKeepsStanding
<1> QED BY <1>1, <1>2, <1>3, <1>4, <1>5, <1>6 DEF Next

\* A settled client has every session it has not complained about established.
LEMMA StandingIsEstablished ==
  ASSUME OwnerInv, ClosedInv, StandInv
  PROVE  Reestablished
<1> SUFFICES ASSUME Settled, NEW s \in Sess, userPc[s] = "ready", ~reported[s]
             PROVE  Established(s) /\ (registered[s] => id[s] \in regions)
  BY DEF Reestablished
<1>1. up /\ \A g \in Gens : ~Busy(g)
  BY DEF Settled, Busy
<1>2. ~Pending(s) /\ \A g \in Gens : cur[g] # s
  BY <1>1, CalmFacts
<1>3. Standing(s)
  BY <1>2 DEF StandInv, AllStand
<1> QED BY <1>3 DEF Standing, Established

\* After every re-opening, for any number of sessions, ids and losses, each
\* session that is not closed and that the error handler was not told of is
\* routed under an id that is open for it, its registration replayed
\* (reopenSessions, Session.reopen): if users wait for the re-opening, answers
\* come in time, no connection is lost during a re-opening, and ids are not
\* assigned twice, or there is one loss and nobody closes a session twice.
THEOREM SessionsReestablished ==
  ASSUME Orderly
  PROVE  Spec /\ LossesApart => []Reestablished
<1>0. Quiet
  BY DEF Orderly
<1>1. Init => ClosedInv /\ StandInv
  <2>1. Init => ClosedInv
    BY DEF Init, ClosedInv, UserIdle
  <2> QED BY <2>1, StandInit
<1>2. /\ OwnerInv /\ OwnerInv' /\ ClosedInv /\ StandInv /\ [Next]_vars
      /\ [ConnectionLost => \A g \in Gens : ~Busy(g)]_vars
      => ClosedInv' /\ StandInv'
  BY <1>0, ClosedStep, StandStep
<1>3. OwnerInv /\ ClosedInv /\ StandInv => Reestablished
  BY StandingIsEstablished
<1> QED BY <1>1, <1>2, <1>3, OwnershipInvariance, PTL DEF Spec, LossesApart

\* With one loss no re-opening can be disturbed by another: the same holds
\* without an assumption on the losses, ids of the old connection being assigned
\* again included.
THEOREM ReestablishedOnce ==
  ASSUME Orderly, MaxDrops <= 1
  PROVE  Spec => []Reestablished
<1>1. OwnerInv /\ [Next]_vars => [ConnectionLost => \A g \in Gens : ~Busy(g)]_vars
  <2> SUFFICES ASSUME OwnerInv, ConnectionLost, NEW g \in Gens PROVE ~Busy(g)
    OBVIOUS
  <2>1. gen = 1 /\ g > gen
    BY SessionBoundsAssumption DEF ConnectionLost, OwnerInv, TypeOK, Gens
  <2> QED BY <2>1 DEF OwnerInv, LossCounted, Busy
<1> QED BY <1>1, OwnershipInvariance, SessionsReestablished, PTL DEF Spec, LossesApart
=============================================================================
