------------------------------ MODULE Executor ------------------------------
(***************************************************************************)
(* What a ThreadGroupT (TaskExecutor, EventLoopExecutor) promises a client *)
(* about the future that push returns: an accepted task runs once and its  *)
(* future becomes ready; when stop returns no future is left unready; and  *)
(* only the exit_immediately strategy abandons accepted tasks.             *)
(***************************************************************************)
EXTENDS FiniteSets

CONSTANTS
    Task,
    MayAbandon      \* whether tasks still queued at stop are abandoned

VARIABLES
    state,          \* what has become of each task
    phase           \* open, closing from the call of stop, closed at its end

vars == <<state, phase>>

Unfinished == {"accepted", "running"}

In(m, s) == state[m] = s
Becomes(m, s) == state' = [state EXCEPT ![m] = s]

Init ==
    /\ state = [m \in Task |-> "new"]
    /\ phase = "open"

Accept(m) == In(m, "new") /\ phase # "closed" /\ Becomes(m, "accepted") /\ UNCHANGED phase

Refuse(m) == In(m, "new") /\ phase # "open" /\ Becomes(m, "refused") /\ UNCHANGED phase

Run(m) == In(m, "accepted") /\ Becomes(m, "running") /\ UNCHANGED phase

(* The function returns, or throws into the future.                        *)
Finish(m) ==
    /\ In(m, "running")
    /\ Becomes(m, "value") \/ Becomes(m, "exception")
    /\ UNCHANGED phase

Abandon ==
    /\ MayAbandon
    /\ phase = "closing"
    /\ \E S \in SUBSET {m \in Task : In(m, "accepted")} :
          state' = [m \in Task |-> IF m \in S THEN "abandoned" ELSE state[m]]
    /\ UNCHANGED phase

Close == phase = "open" /\ phase' = "closing" /\ UNCHANGED state

Closed ==
    /\ phase = "closing"
    /\ \A m \in Task : state[m] \notin Unfinished
    /\ phase' = "closed"
    /\ UNCHANGED state

Next ==
    \/ \E m \in Task : Accept(m) \/ Refuse(m) \/ Run(m) \/ Finish(m)
    \/ Abandon \/ Close \/ Closed

Spec == Init /\ [][Next]_vars
=============================================================================
