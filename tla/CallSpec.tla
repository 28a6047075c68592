------------------------------ MODULE CallSpec ------------------------------
(***************************************************************************)
(* What client.request promises its callers, with no goroutine, channel,   *)
(* packet id or connection in sight: a call is opened, stays open until it *)
(* gets exactly one outcome, and an outcome "response" is the master's     *)
(* answer to that very call.                                               *)
(***************************************************************************)
CONSTANT Calls            \* the executions of client.request

VARIABLES
  state,                  \* state[k] \in {"idle", "open", "done"}
  outcome,                \* outcome[k]: what the call returned
  answered,               \* the calls the master agent has answered
  closed                  \* Client.Close has begun

vars == <<state, outcome, answered, closed>>

Init ==
  /\ state    = [k \in Calls |-> "idle"]
  /\ outcome  = [k \in Calls |-> "none"]
  /\ answered = {}
  /\ closed   = FALSE

Open(k) ==
  /\ state[k] = "idle"
  /\ state' = [state EXCEPT ![k] = "open"]
  /\ UNCHANGED <<outcome, answered, closed>>

\* The master agent may answer a call that has already given up, and twice.
Answer(k) ==
  /\ state[k] # "idle"
  /\ answered' = answered \cup {k}
  /\ UNCHANGED <<state, outcome, closed>>

Return(k) ==
  /\ state[k] = "open"
  /\ \E o \in {"encodeError", "timeout", "closed", "response"} :
       /\ o = "response" => k \in answered
       /\ o = "closed"   => closed
       /\ outcome' = [outcome EXCEPT ![k] = o]
  /\ state' = [state EXCEPT ![k] = "done"]
  /\ UNCHANGED <<answered, closed>>

Close ==
  /\ closed' = TRUE
  /\ UNCHANGED <<state, outcome, answered>>

Next == Close \/ \E k \in Calls : Open(k) \/ Answer(k) \/ Return(k)

Spec == Init /\ [][Next]_vars
=============================================================================
