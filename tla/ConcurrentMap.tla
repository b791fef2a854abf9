--------------------------- MODULE ConcurrentMap ---------------------------
(***************************************************************************)
(* What ConcurrentHashTableT promises its callers: a map whose elements    *)
(* are created, visited, changed and erased one at a time, each through an *)
(* accessor that at most one thread has on an element (UniqueAccessor,     *)
(* UniqueIterator).  Only clear, and a rehash that fails, drop elements    *)
(* without an accessor, and only while nobody has one.                     *)
(***************************************************************************)
EXTENDS Functions

CONSTANTS Thread, Key, Val, None

VARIABLES
    contents,   \* the elements: a function from the keys present to values
    holds       \* the element each thread has an accessor on, or None

vars == <<contents, holds>>

Present == DOMAIN contents

Free(k) == \A u \in Thread : holds[u] # k

Init ==
    /\ contents = [k \in {} |-> None]
    /\ holds = [t \in Thread |-> None]

Create(t) ==
    \E k \in Key \ Present, v \in Val :
        /\ holds[t] = None
        /\ contents' = [j \in Present \cup {k} |-> IF j = k THEN v ELSE contents[j]]
        /\ holds' = [holds EXCEPT ![t] = k]

(* An iterator that has an element gives it back as it takes the next.     *)
Acquire(t) ==
    \E k \in Present :
        /\ Free(k)
        /\ holds' = [holds EXCEPT ![t] = k]
        /\ UNCHANGED contents

Write(t) ==
    \E v \in Val :
        /\ holds[t] # None
        /\ contents' = [contents EXCEPT ![holds[t]] = v]
        /\ UNCHANGED holds

(* Erasing through an iterator leads to the next element of the bucket.    *)
Erase(t) ==
    /\ holds[t] # None
    /\ contents' = Restrict(contents, Present \ {holds[t]})
    /\ \E k \in {None} \cup (Present \ {holds[t]}) :
          /\ k # None => Free(k)
          /\ holds' = [holds EXCEPT ![t] = k]

Release(t) ==
    /\ holds[t] # None
    /\ holds' = [holds EXCEPT ![t] = None]
    /\ UNCHANGED contents

Drop ==
    \E k \in Present :
        /\ \A u \in Thread : holds[u] = None
        /\ contents' = Restrict(contents, Present \ {k})
        /\ UNCHANGED holds

Next ==
    \/ \E t \in Thread : Create(t) \/ Acquire(t) \/ Write(t) \/ Erase(t) \/ Release(t)
    \/ Drop

Spec == Init /\ [][Next]_vars
=============================================================================
