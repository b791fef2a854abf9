------------------------------- MODULE RWLock -------------------------------
(***************************************************************************)
(* What a lock that meets the standard's SharedMutex requirement promises  *)
(* its clients (Mutex.h:49): a thread holds it exclusively, shares it, or  *)
(* does not hold it, and an exclusive holder is alone.                     *)
(***************************************************************************)
CONSTANT Thread

VARIABLE mode       \* how each thread holds the lock

Modes == {"none", "shared", "exclusive"}

Init == mode = [t \in Thread |-> "none"]

AcquireShared(t) ==
    /\ mode[t] = "none"
    /\ \A u \in Thread : mode[u] # "exclusive"
    /\ mode' = [mode EXCEPT ![t] = "shared"]

AcquireExclusive(t) ==
    /\ \A u \in Thread : mode[u] = "none"
    /\ mode' = [mode EXCEPT ![t] = "exclusive"]

Release(t) ==
    /\ mode[t] # "none"
    /\ mode' = [mode EXCEPT ![t] = "none"]

Next == \E t \in Thread : AcquireShared(t) \/ AcquireExclusive(t) \/ Release(t)

Spec == Init /\ [][Next]_mode
=============================================================================
