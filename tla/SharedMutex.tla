---------------------------- MODULE SharedMutex ----------------------------
(***************************************************************************)
(* LockFreeMutex and LockFreeSharedMutex, lib/concurrency/src/Mutex.cpp,   *)
(* in the build where atomic integers are lock free (the other branch of   *)
(* the #if names a type that does not exist).                              *)
(*                                                                         *)
(* One action per atomic access: test_and_set and clear of the flag of     *)
(* write_, each load, increment and decrement of count_.  The atomics are  *)
(* sequentially consistent.  A failing test_and_set leaves the flag set,   *)
(* so a spinning thread is one whose step is not enabled.                  *)
(***************************************************************************)
EXTENDS Integers, FiniteSets

CONSTANTS
    Thread,         \* the call frames that use the lock, each holding it once
    CountModulus    \* count_ is unsigned: 2^32 in the code

ASSUME ThreadAssumption == IsFiniteSet(Thread)

(* Each holder adds one to count_, which must not wrap to 0 under a reader. *)
ASSUME ModulusAssumption ==
    CountModulus \in Nat /\ Cardinality(Thread) < CountModulus

VARIABLES
    write,          \* the flag of write_, "the gate"
    count,          \* count_
    pc              \* where each thread is in a call, or what it holds

vars == <<write, count, pc>>

Calls == {"lock", "try_lock", "lock_shared", "try_lock_shared"}

(* The steps during which a thread has set the flag of write_.             *)
GateSteps ==
    {"drain", "exclusive", "try_check", "try_undo", "count_in", "open_gate"}

(* The steps during which a thread is one of those count_ counts.          *)
CountedSteps == {"open_gate", "shared"}

Steps == {"idle"} \cup Calls \cup GateSteps \cup CountedSteps

Init ==
    /\ write = FALSE
    /\ count = 0
    /\ pc = [t \in Thread |-> "idle"]

Goto(t, step) == pc' = [pc EXCEPT ![t] = step]

(* LockFreeMutex::lock, and try_lock when it succeeds.                     *)
TakeGate == ~write /\ write' = TRUE

(* LockFreeMutex::unlock.                                                  *)
OpenGateFlag == write' = FALSE

Call(t) ==
    /\ pc[t] = "idle"
    /\ \E call \in Calls : Goto(t, call)
    /\ UNCHANGED <<write, count>>

-----------------------------------------------------------------------------

(* Seeded faults: plausible slips in the operations below, which the       *)
(* properties must tell from the code.                                     *)
LockDrainedBug(t) ==   \* enters without waiting for the readers
    /\ pc[t] = "drain"
    /\ Goto(t, "exclusive")
    /\ UNCHANGED <<write, count>>

TryLockCheckBug(t) ==  \* does not look at count_
    /\ pc[t] = "try_check"
    /\ Goto(t, "exclusive")
    /\ UNCHANGED <<write, count>>

TryLockUndoBug(t) ==   \* returns false with the gate still closed
    /\ pc[t] = "try_undo"
    /\ Goto(t, "idle")
    /\ UNCHANGED <<write, count>>

UnlockBug(t) ==        \* one unlock for both modes
    /\ pc[t] = "exclusive"
    /\ OpenGateFlag
    /\ count' = count - 1
    /\ Goto(t, "idle")

UnlockSharedBug(t) ==  \* forgets to leave count_
    /\ pc[t] = "shared"
    /\ Goto(t, "idle")
    /\ UNCHANGED <<write, count>>

-----------------------------------------------------------------------------

(* lock(): take the gate, then wait until the readers have left.           *)
LockGate(t) ==
    /\ pc[t] = "lock"
    /\ TakeGate
    /\ Goto(t, "drain")
    /\ UNCHANGED count

LockDrained(t) ==
    /\ pc[t] = "drain"
    /\ count = 0
    /\ Goto(t, "exclusive")
    /\ UNCHANGED <<write, count>>

(* try_lock(): gives the gate back when there are readers.                 *)
TryLockGate(t) ==
    /\ pc[t] = "try_lock"
    /\ TakeGate
    /\ Goto(t, "try_check")
    /\ UNCHANGED count

TryLockCheck(t) ==
    /\ pc[t] = "try_check"
    /\ Goto(t, IF count = 0 THEN "exclusive" ELSE "try_undo")
    /\ UNCHANGED <<write, count>>

TryLockUndo(t) ==
    /\ pc[t] = "try_undo"
    /\ OpenGateFlag
    /\ Goto(t, "idle")
    /\ UNCHANGED count

(* lock_shared() and try_lock_shared(): count the reader behind the gate.  *)
SharedGate(t) ==
    /\ pc[t] \in {"lock_shared", "try_lock_shared"}
    /\ TakeGate
    /\ Goto(t, "count_in")
    /\ UNCHANGED count

CountIn(t) ==
    /\ pc[t] = "count_in"
    /\ count' = (count + 1) % CountModulus
    /\ Goto(t, "open_gate")
    /\ UNCHANGED write

OpenGate(t) ==
    /\ pc[t] = "open_gate"
    /\ OpenGateFlag
    /\ Goto(t, "shared")
    /\ UNCHANGED count

(* try_lock() and try_lock_shared() return false when the gate is closed.  *)
TryFails(t) ==
    /\ pc[t] \in {"try_lock", "try_lock_shared"}
    /\ write
    /\ Goto(t, "idle")
    /\ UNCHANGED <<write, count>>

Unlock(t) ==
    /\ pc[t] = "exclusive"
    /\ OpenGateFlag
    /\ Goto(t, "idle")
    /\ UNCHANGED count

UnlockShared(t) ==
    /\ pc[t] = "shared"
    /\ count' = (count + CountModulus - 1) % CountModulus
    /\ Goto(t, "idle")
    /\ UNCHANGED write

-----------------------------------------------------------------------------

(* The steps of a call already made, or the release of a lock held.        *)
Step(t) ==
    \/ LockGate(t)    \/ LockDrained(t)
    \/ TryLockGate(t) \/ TryLockCheck(t) \/ TryLockUndo(t)
    \/ SharedGate(t)  \/ CountIn(t)      \/ OpenGate(t)
    \/ TryFails(t)    \/ Unlock(t)       \/ UnlockShared(t)

Next == \E t \in Thread : Call(t) \/ Step(t)

Spec == Init /\ [][Next]_vars

(* A running thread keeps taking steps and a holder releases in the end;   *)
(* nobody has to call.  Only weak fairness: the gate is a bare spin lock.  *)
Fairness == \A t \in Thread : WF_vars(Step(t))

FairSpec == Spec /\ Fairness

-----------------------------------------------------------------------------

TypeOK ==
    /\ write \in BOOLEAN
    /\ count \in 0 .. CountModulus - 1
    /\ pc \in [Thread -> Steps]

(* The gate is closed exactly while one thread owns it.                    *)
GateOwned ==
    /\ write <=> \E t \in Thread : pc[t] \in GateSteps
    /\ \A t, u \in Thread :
          pc[t] \in GateSteps /\ pc[u] \in GateSteps => t = u

Counted == {t \in Thread : pc[t] \in CountedSteps}

(* count_ is the number of readers at every step, with no wrap.            *)
CountExact == count = Cardinality(Counted)

(* An exclusive holder is alone: no reader is counted in before it leaves, *)
(* also not one that had raced it to the gate (lock and lock_shared).      *)
MutualExclusion ==
    \A t, u \in Thread :
        t # u /\ pc[t] = "exclusive" => pc[u] \notin CountedSteps \cup {"exclusive"}

(* From the moment a writer has the gate until it unlocks, readers can     *)
(* only leave (lock takes write_ before it waits for count_).              *)
NoBarging ==
    [][(\E t \in Thread : pc[t] \in {"drain", "exclusive"}) => Counted' \subseteq Counted]_vars

(* How each thread holds the lock: a reader from its increment of count_   *)
(* on, a writer from the load that sees 0.                                 *)
Held == [t \in Thread |-> IF pc[t] = "exclusive" THEN "exclusive"
                          ELSE IF pc[t] \in CountedSteps THEN "shared" ELSE "none"]

RW == INSTANCE RWLock WITH mode <- Held

(* LockFreeSharedMutex is a reader-writer lock (Mutex.h:49).               *)
ImplementsRWLock == RW!Spec

(* A writer that has the gate gets the lock: readers cannot starve it.     *)
WriterEnters ==
    \A t \in Thread : pc[t] = "drain" ~> pc[t] = "exclusive"

(* Once nobody makes another call, every call returns and every holder     *)
(* gets to release: no interleaving of lock, lock_shared and the failing   *)
(* try_lock strands a spinning thread.                                     *)
CallsReturn ==
    <>[][\A t \in Thread : ~Call(t)]_vars
        => <>[](\A t \in Thread : pc[t] = "idle")
=============================================================================
