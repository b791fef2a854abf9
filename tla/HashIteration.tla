--------------------------- MODULE HashIteration ---------------------------
(***************************************************************************)
(* What an iteration over the table promises (UniqueIterator, for_each,    *)
(* find_if) while other threads insert and erase: the steps of HashTable,  *)
(* with a history of each iteration in progress.                           *)
(***************************************************************************)
EXTENDS HashTable

VARIABLES
    seen,       \* the keys each iterator has visited
    stayed      \* the keys in the table ever since the iterator began

history == <<seen, stayed>>

Iterating(t) == call[t].type = "iterate"

(* The step leaves t's iterator on a node it was not on before.            *)
Arrives(t) ==
    /\ Iterating(t)' /\ pc'[t] = "held"
    /\ pc[t] # "held" \/ acc'[t].node # acc[t].node

HInit ==
    /\ Init
    /\ seen = [t \in Thread |-> {}]
    /\ stayed = [t \in Thread |-> {}]

Record ==
    /\ seen' = [t \in Thread |->
                   IF ~Iterating(t)' THEN {}
                   ELSE IF Arrives(t) THEN seen[t] \cup {acc'[t].node} ELSE seen[t]]
    /\ stayed' = [t \in Thread |->
                   IF ~Iterating(t)' THEN {}
                   ELSE IF pc[t] \in {"idle", "iter_table"} THEN Present'
                   ELSE stayed[t] \cap Present']

HNext == Next /\ Record

HSpec == HInit /\ [][HNext]_<<vars, history>>

(* No element is visited twice (next and erase_and_next).                  *)
VisitsOnce ==
    [][\A t \in Thread : Arrives(t) => acc'[t].node \notin seen[t]]_<<vars, history>>

(* An iteration that comes to its end has visited every element that was   *)
(* in the table all the while, whatever others inserted and erased.        *)
VisitsAll ==
    [][\A t \in Thread : IterEnd(t) => stayed[t] \subseteq seen[t]]_<<vars, history>>
=============================================================================
