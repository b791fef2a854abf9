----------------------------- MODULE Lifecycle -----------------------------
(***************************************************************************)
(* What an application promises its services: none starts before all that  *)
(* exist are initialised, none is joined before all have been told to      *)
(* stop, and none is destroyed while one runs or is stopping.              *)
(***************************************************************************)
CONSTANT Service

VARIABLE state

Init == state = [s \in Service |-> "absent"]

None(states) == \A s \in Service : state[s] \notin states

Become(s, from, to) == state[s] \in from /\ state' = [state EXCEPT ![s] = to]

Active == {"running", "stopping"}

Create(s) == None(Active) /\ Become(s, {"absent"}, "created")

(* Services are initialised again when a failed start-up is repeated.      *)
Initialize(s) ==
    /\ None(Active)
    /\ \/ Become(s, {"created", "ready"}, "ready")
       \/ Become(s, {"created", "ready"}, "created")

Start(s) == None({"created", "stopping"}) /\ Become(s, {"ready"}, "running")

Stop(s) == Become(s, {"running"}, "stopping")

Join(s) == None({"running"}) /\ Become(s, {"stopping"}, "ready")

Destroy == None(Active) /\ state' = [s \in Service |-> "gone"]

Next ==
    \/ \E s \in Service :
          Create(s) \/ Initialize(s) \/ Start(s) \/ Stop(s) \/ Join(s)
    \/ Destroy

Spec == Init /\ [][Next]_state
=============================================================================
