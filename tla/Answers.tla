------------------------------ MODULE Answers ------------------------------
(***************************************************************************)
(* How Session.handle answers get and getNext, and Client.send behind it:  *)
(* the handler is asked for one search range after the other, with nothing *)
(* locked in between, while the program goes on adding and setting items.  *)
(* A handler may be absent, may fail, and may return what cannot be        *)
(* encoded.                                                                *)
(*                                                                         *)
(* The master agent walks several columns of a table at once, each request *)
(* going on from the last answers, as managers do.                         *)
(***************************************************************************)
EXTENDS ListHandler

CONSTANTS
  Handlers,         \* which of "none", "list", "failing" a session may have
  Encodable,        \* the members of Values whose value fits its type
  Errors,           \* what a failing handler may return: see getError
  Columns,          \* what the master agent asks for: sequences of search ranges
  MaxRequests       \* bound: requests of the master agent

ASSUME AnswersAssumption ==
  /\ Handlers \subseteq {"none", "list", "failing"}
  /\ Encodable \subseteq Values /\ MaxRequests \in Nat
  /\ Errors \subseteq {"plain", "noError", "genErr", "notWritable"}
  /\ Columns \subseteq Seq([from : OIDs, include : BOOLEAN, to : OIDs])

VARIABLES
  handler,          \* s.handler
  phase,            \* "idle", or where Session.run is: "handling", "sending"
  kind, ranges,     \* the request
  response,         \* responsePacket: [error, index, variables]
  answer,           \* what the master agent has been sent for the last request
  asked,            \* how many requests there were
  walk              \* the master agent's walk, a record per column

reqVars == <<handler, phase, kind, ranges, response, answer, asked>>
vars == <<listVars, reqVars, walk>>

EmptyResponse == [error |-> "noError", index |-> 0, variables |-> <<>>]
NoAnswer == [error |-> "none", index |-> 0, variables |-> <<>>]

Init ==
  /\ ListInit
  /\ handler \in Handlers
  /\ phase = "idle" /\ kind = "get" /\ ranges = <<>>
  /\ response = EmptyResponse /\ answer = NoAnswer /\ asked = 0
  /\ walk = <<>>

-----------------------------------------------------------------------------
(* Session.handle *)

\* A pdu.Error found in the chain, unless it is noError
getError(err) == IF err \in {"plain", "noError"} THEN "genErr" ELSE err

\* VariableTypeNoSuchObject and EndOfMIBView, which carry no value
Exception == IF kind = "get" THEN "noSuchObject" ELSE "endOfMibView"

Binding(oid, v) == [name |-> oid, value |-> v]

\* fail: error and index, and no bindings
Failure(err, i) == [error |-> err, index |-> i, variables |-> <<>>]

\* handler.Get or handler.GetNext; without an item, the name is the one asked for.
Answer(range) ==
  LET found == IF handler = "none" THEN NotFound
               ELSE IF kind = "get" THEN get(range.from)
                    ELSE GetNext(range.from, range.include, range.to)
  IN  IF found.name = NoOID THEN Binding(range.from, Exception)
                            ELSE Binding(found.name, found.value)

Done == Len(response.variables) = Len(ranges)

HandleNext ==
  /\ phase = "handling" /\ ~Done
  /\ response' = [response EXCEPT
       !.variables = Append(@, Answer(ranges[Len(response.variables) + 1]))]
  /\ UNCHANGED <<listVars, handler, phase, kind, ranges, answer, asked, walk>>

\* The first failure ends the request.
HandleFails ==
  /\ phase = "handling" /\ ~Done
  /\ handler = "failing"
  /\ \E err \in Errors : response' = Failure(getError(err), Len(response.variables) + 1)
  /\ phase' = "sending"
  /\ UNCHANGED <<listVars, handler, kind, ranges, answer, asked, walk>>

HandleReturns ==
  /\ phase = "handling" /\ Done
  /\ phase' = "sending"
  /\ UNCHANGED <<listVars, handler, kind, ranges, response, answer, asked, walk>>

-----------------------------------------------------------------------------
(* Client.send *)

\* Mutant of Marshals: the encoder takes any value for any type.
MarshalsAnything(r) == TRUE

Marshals(r) == \A i \in DOMAIN r.variables : r.variables[i].value \in Encodable \cup Exceptions

\* Mutant of Fallback: an unencodable response is not answered.
FallbackNone == NoAnswer

\* errorResponse(hp.Header, ErrorGenErr)
Fallback == [error |-> "genErr", index |-> 0, variables |-> <<>>]

Send ==
  /\ phase = "sending"
  /\ answer' = IF Marshals(response) THEN response ELSE Fallback
  /\ phase' = "idle"
  /\ UNCHANGED <<listVars, handler, kind, ranges, response, asked, walk>>

Session == HandleNext \/ HandleFails \/ HandleReturns \/ Send

-----------------------------------------------------------------------------
(* The program: users call Add and Set, and a testSet of a manager calls Set. *)

Program ==
  /\ \/ \E text \in Texts : Add(text)
     \/ \E oid \in Names, v \in Values : Set(oid, v)
  /\ UNCHANGED <<reqVars, walk>>

-----------------------------------------------------------------------------
(* The master agent: external *)

Ask(k, r) ==
  /\ phase = "idle" /\ asked < MaxRequests
  /\ kind' = k /\ ranges' = r
  /\ response' = EmptyResponse /\ answer' = NoAnswer
  /\ phase' = "handling" /\ asked' = asked + 1
  /\ UNCHANGED <<listVars, handler>>

MasterGets == \E c \in Columns : walk = <<>> /\ Ask("get", c) /\ UNCHANGED walk

\* A column of the walk: its range, what has been answered, its place in the
\* request or 0 at its end, and what the list had in the range at the beginning
StartWalk ==
  /\ walk = <<>>
  /\ \E c \in Columns :
       /\ Ask("getNext", c)
       /\ walk' = [i \in DOMAIN c |->
            [range |-> c[i], seen |-> <<>>, at |-> i,
             due |-> {o \in Listed : InRange(o, c[i].from, c[i].include, c[i].to)}]]

\* A column takes in the binding at its place.
Taken(w) ==
  IF w.at = 0 THEN w
  ELSE IF answer.variables[w.at].value = "endOfMibView" THEN [w EXCEPT !.at = 0]
       ELSE [w EXCEPT !.seen = Append(@, answer.variables[w.at].name)]

Walked == [i \in DOMAIN walk |-> Taken(walk[i])]
Going  == {i \in DOMAIN walk : Walked[i].at # 0}

Onward(w) == [from |-> w.seen[Len(w.seen)], include |-> FALSE, to |-> w.range.to]

\* The answer is taken in, and the columns that go on are asked for more.
StepWalk ==
  /\ walk # <<>> /\ phase = "idle" /\ answer.error = "noError"
  /\ \/ /\ Going = {}
        /\ walk' = Walked /\ answer' = NoAnswer
        /\ UNCHANGED <<listVars, handler, phase, kind, ranges, response, asked>>
     \/ \E n \in 1 .. Len(walk) : \E column \in Bijection(1 .. n, Going) :
          /\ Ask("getNext", [k \in 1 .. n |-> Onward(Walked[column[k]])])
          /\ walk' = [i \in DOMAIN walk |->
               IF i \in Going THEN [Walked[i] EXCEPT !.at = CHOOSE k \in 1 .. n : column[k] = i]
                              ELSE Walked[i]]

Next == Session \/ Program \/ MasterGets \/ StartWalk \/ StepWalk

Spec == Init /\ [][Next]_vars

\* The session's goroutine runs, and handlers return.
FairSpec == Spec /\ WF_vars(Session)

-----------------------------------------------------------------------------
(* Properties *)

\* Type invariant.
TypeOK ==
  /\ ListTypeOK
  /\ phase \in {"idle", "handling", "sending"} /\ kind \in {"get", "getNext"}
  /\ response.index \in 0 .. Len(ranges) /\ Len(response.variables) <= Len(ranges)
  /\ asked \in 0 .. MaxRequests

\* The list stays sorted without repetitions, and GetNext answers with the least
\* listed oid of the range, by the reference order, for every range: also across a
\* prefix, at the excluded start, at the excluded end, and with no end.  The answer
\* depends on the list alone, and there is no list that is not reached before the
\* first request.
GetNextIsLeast == StrictlySorted /\ (asked = 0 => GetNextLeast)

\* An answer without error has one binding per range, in the order of the
\* ranges, each named as the range asks: the oid itself for get, an oid of the
\* range for getNext or its start at the end of the view, and each with a value
\* that fits its type (session.go:256-301; RFC 2741 7.2.3).  A failure has an
\* error that is not noError, the number of a range or none, and no bindings,
\* even when it comes after some ranges were answered, or when only the encoder
\* finds it (session.go:246-253).
AnswersFit ==
  phase = "idle" /\ answer # NoAnswer =>
    IF answer.error = "noError"
    THEN /\ answer.index = 0 /\ Len(answer.variables) = Len(ranges)
         /\ \A i \in DOMAIN ranges :
              LET b == answer.variables[i]
                  r == ranges[i] IN
              /\ b.value \in Encodable \cup Exceptions
              /\ kind = "get" \/ b.value = "endOfMibView" => b.name = r.from
              /\ kind = "getNext" /\ b.value # "endOfMibView" =>
                   InRange(b.name, r.from, r.include, r.to) /\ b.name \in Listed
    ELSE answer.index \in 0 .. Len(ranges) /\ answer.variables = <<>>

\* Every request is answered, also when what the handler returned cannot be
\* encoded (client.go:239-243).
EveryRequestAnswered == (phase # "idle") ~> (phase = "idle" /\ answer.error # "none")

\* A walk visits each oid of a column at most once, in increasing order and
\* within its range, and when it ends has visited everything that was there when
\* it began, whatever was added meanwhile.
WalkIsComplete ==
  \A i \in DOMAIN walk :
    LET w == walk[i] IN
    /\ Increasing(w.seen)
    /\ \A n \in DOMAIN w.seen : InRange(w.seen[n], w.range.from, w.range.include, w.range.to)
    /\ w.at = 0 /\ handler # "none" => w.due \subseteq Range(w.seen)
=============================================================================
