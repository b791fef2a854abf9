------------------------- MODULE SharedMutexProofs -------------------------
(***************************************************************************)
(* Proofs about LockFreeSharedMutex for every finite set of threads and    *)
(* every width of count_ that can count them.                              *)
(***************************************************************************)
EXTENDS SharedMutex, FiniteSetTheorems, TLAPS

(* The inductive invariant.  That the gate has one owner keeps two writers *)
(* apart and a reader from being counted in beside a writer; that count_   *)
(* is exact turns the load of 0 in lock() and try_lock() into the absence  *)
(* of readers.  Neither follows from MutualExclusion alone.                *)
IInv == TypeOK /\ GateOwned /\ CountExact /\ MutualExclusion

-----------------------------------------------------------------------------

(* The readers are finitely many, and too few to wrap count_.              *)
LEMMA CountedSmall ==
    ASSUME NEW S \in SUBSET Thread
    PROVE  IsFiniteSet(S) /\ Cardinality(S) \in Nat /\ Cardinality(S) < CountModulus
<1>1. IsFiniteSet(S) /\ Cardinality(S) <= Cardinality(Thread)
    BY FS_Subset, ThreadAssumption
<1>2. Cardinality(S) \in Nat /\ Cardinality(Thread) \in Nat
    BY <1>1, FS_CardinalityType, ThreadAssumption
<1> QED BY <1>1, <1>2, ModulusAssumption

(* Arithmetic modulo CountModulus is exact inside the range.               *)
LEMMA ModExact ==
    ASSUME NEW n \in Nat, n < CountModulus
    PROVE  n % CountModulus = n /\ (n + CountModulus) % CountModulus = n
BY ModulusAssumption

(* What a thread's move does to the set of counted readers.                *)
LEMMA CountedAfter ==
    ASSUME TypeOK, NEW t \in Thread, NEW step, Goto(t, step)
    PROVE  Counted' = IF step \in CountedSteps THEN Counted \cup {t}
                                               ELSE Counted \ {t}
BY DEF TypeOK, Goto, Counted

(* The initial state satisfies the invariant: nobody is in the lock.       *)
LEMMA InitIInv == Init => IInv
<1> SUFFICES ASSUME Init PROVE IInv OBVIOUS
<1>1. TypeOK
  <2>1. 0 \in 0 .. CountModulus - 1
    BY CountedSmall, ModulusAssumption
  <2> QED BY <2>1 DEF Init, TypeOK, Steps
<1>2. GateOwned /\ MutualExclusion
    BY DEF Init, GateOwned, MutualExclusion, GateSteps
<1>3. Counted = {}
    BY DEF Init, Counted, CountedSteps
<1>4. CountExact
    BY <1>3, FS_EmptySet DEF Init, CountExact
<1> QED BY <1>1, <1>2, <1>4 DEF IInv

(* Every step keeps the variables in their types.                          *)
LEMMA TypeStep == TypeOK /\ [Next]_vars => TypeOK'
<1> SUFFICES ASSUME TypeOK, [Next]_vars PROVE TypeOK' OBVIOUS
<1> USE DEF TypeOK, Goto, Steps, Calls, GateSteps, CountedSteps
<1>1. ASSUME NEW n \in Nat PROVE n % CountModulus \in 0 .. CountModulus - 1
    BY CountedSmall, ModulusAssumption
<1>2. CASE UNCHANGED vars
    BY <1>2 DEF vars
<1>3. ASSUME NEW t \in Thread, Call(t) PROVE TypeOK'
    BY <1>3 DEF Call
<1>4. ASSUME NEW t \in Thread, Step(t) PROVE TypeOK'
  <2>1. CASE LockGate(t) \/ TryLockGate(t) \/ SharedGate(t)
    BY <2>1 DEF LockGate, TryLockGate, SharedGate, TakeGate
  <2>2. CASE LockDrained(t) \/ TryLockCheck(t) \/ TryFails(t)
    BY <2>2 DEF LockDrained, TryLockCheck, TryFails
  <2>3. CASE TryLockUndo(t) \/ OpenGate(t) \/ Unlock(t)
    BY <2>3 DEF TryLockUndo, OpenGate, Unlock, OpenGateFlag
  <2>4. CASE CountIn(t)
    BY <2>4, <1>1 DEF CountIn
  <2>5. CASE UnlockShared(t)
    <3>1. count + CountModulus - 1 \in Nat
        BY CountedSmall, ModulusAssumption
    <3> QED BY <2>5, <3>1, <1>1 DEF UnlockShared
  <2> QED BY <1>4, <2>1, <2>2, <2>3, <2>4, <2>5 DEF Step
<1> QED BY <1>2, <1>3, <1>4 DEF Next

(* Only a thread that found the gate open gets past it, and only the owner *)
(* of the gate opens it.                                                   *)
LEMMA GateStep == TypeOK /\ GateOwned /\ [Next]_vars => GateOwned'
<1> SUFFICES ASSUME TypeOK, GateOwned, [Next]_vars PROVE GateOwned' OBVIOUS
<1> USE DEF TypeOK, GateOwned, Goto, GateSteps
<1>1. CASE UNCHANGED vars
    BY <1>1 DEF vars
<1>2. ASSUME NEW t \in Thread, Call(t) PROVE GateOwned'
    BY <1>2 DEF Call, Calls
<1>3. ASSUME NEW t \in Thread, Step(t) PROVE GateOwned'
  <2>1. CASE LockGate(t) \/ TryLockGate(t) \/ SharedGate(t)
    BY <2>1 DEF LockGate, TryLockGate, SharedGate, TakeGate
  <2>2. CASE LockDrained(t) \/ TryLockCheck(t) \/ CountIn(t)
    BY <2>2 DEF LockDrained, TryLockCheck, CountIn
  <2>3. CASE TryLockUndo(t) \/ OpenGate(t) \/ Unlock(t)
    BY <2>3 DEF TryLockUndo, OpenGate, Unlock, OpenGateFlag
  <2>4. CASE TryFails(t) \/ UnlockShared(t)
    BY <2>4 DEF TryFails, UnlockShared
  <2> QED BY <1>3, <2>1, <2>2, <2>3, <2>4 DEF Step
<1> QED BY <1>1, <1>2, <1>3 DEF Next

(* The increment and the decrement of count_ follow the readers one by one.*)
LEMMA CountStep == TypeOK /\ CountExact /\ [Next]_vars => CountExact'
<1> SUFFICES ASSUME TypeOK, CountExact, [Next]_vars PROVE CountExact' OBVIOUS
<1> USE DEF CountExact
<1>1. Counted \in SUBSET Thread
    BY DEF Counted
<1>2. ASSUME UNCHANGED count, Counted' = Counted PROVE CountExact'
    BY <1>2
<1>3. CASE UNCHANGED vars
    BY <1>2, <1>3 DEF vars, Counted
<1>4. ASSUME NEW t \in Thread, Call(t) PROVE CountExact'
  <2>1. PICK call \in Calls : Goto(t, call)
    BY <1>4 DEF Call
  <2>2. Counted' = Counted
    BY <1>4, <2>1, CountedAfter DEF Call, Calls, CountedSteps, Counted
  <2> QED BY <1>2, <1>4, <2>2 DEF Call
<1>5. ASSUME NEW t \in Thread, Step(t) PROVE CountExact'
  <2>1. CASE CountIn(t)
    <3>1. t \notin Counted /\ Counted' = Counted \cup {t}
        BY <2>1, CountedAfter DEF CountIn, Counted, CountedSteps
    <3>2. Cardinality(Counted') = count + 1
        BY <3>1, <1>1, CountedSmall, FS_AddElement
    <3>3. count + 1 \in Nat /\ count + 1 < CountModulus
        BY <3>1, <3>2, <1>1, CountedSmall
    <3> QED BY <2>1, <3>2, <3>3, ModExact DEF CountIn
  <2>2. CASE UnlockShared(t)
    <3>1. t \in Counted /\ Counted' = Counted \ {t}
        BY <2>2, CountedAfter DEF UnlockShared, Counted, CountedSteps
    <3>2. Cardinality(Counted') = count - 1
        BY <3>1, <1>1, CountedSmall, FS_RemoveElement
    <3>3. count - 1 \in Nat /\ count - 1 < CountModulus
        BY <3>1, <3>2, <1>1, CountedSmall
    <3>4. count + CountModulus - 1 = (count - 1) + CountModulus
        BY <1>1, CountedSmall, ModulusAssumption
    <3> QED BY <2>2, <3>2, <3>3, <3>4, ModExact DEF UnlockShared
  <2>3. CASE OpenGate(t)
    <3>1. Counted' = Counted
        BY <2>3, CountedAfter DEF OpenGate, Counted, CountedSteps
    <3> QED BY <1>2, <2>3, <3>1 DEF OpenGate
  <2>4. CASE \/ LockGate(t)    \/ LockDrained(t)  \/ TryLockGate(t)
             \/ TryLockCheck(t) \/ TryLockUndo(t) \/ SharedGate(t)
             \/ TryFails(t)     \/ Unlock(t)
    <3>1. UNCHANGED count
        BY <2>4 DEF LockGate, LockDrained, TryLockGate, TryLockCheck,
                    TryLockUndo, SharedGate, TryFails, Unlock
    <3>2. t \notin Counted
        BY <2>4 DEF LockGate, LockDrained, TryLockGate, TryLockCheck,
                    TryLockUndo, SharedGate, TryFails, Unlock,
                    Counted, CountedSteps
    <3>3. \E step \in Steps \ CountedSteps : Goto(t, step)
        BY <2>4 DEF LockGate, LockDrained, TryLockGate, TryLockCheck,
                    TryLockUndo, SharedGate, TryFails, Unlock,
                    Steps, GateSteps, CountedSteps
    <3>4. Counted' = Counted
        BY <3>2, <3>3, CountedAfter
    <3> QED BY <1>2, <3>1, <3>4
  <2> QED BY <1>5, <2>1, <2>2, <2>3, <2>4 DEF Step
<1> QED BY <1>3, <1>4, <1>5 DEF Next

(* A writer enters only when there are no readers, a reader only through a *)
(* gate that no writer owns.                                               *)
LEMMA ExclusionStep == IInv /\ [Next]_vars => MutualExclusion'
<1> SUFFICES ASSUME IInv, [Next]_vars PROVE MutualExclusion' OBVIOUS
<1> USE DEF IInv, TypeOK, GateOwned, MutualExclusion, Goto, GateSteps, CountedSteps
<1>1. ASSUME count = 0 PROVE \A u \in Thread : pc[u] \notin CountedSteps
  <2>1. Counted = {}
    BY <1>1, CountedSmall, FS_EmptySet DEF CountExact, Counted
  <2> QED BY <2>1 DEF Counted
<1>2. CASE UNCHANGED vars
    BY <1>2 DEF vars
<1>3. ASSUME NEW t \in Thread, Call(t) PROVE MutualExclusion'
    BY <1>3 DEF Call, Calls
<1>4. ASSUME NEW t \in Thread, Step(t) PROVE MutualExclusion'
  <2>1. CASE LockDrained(t)
    BY <2>1, <1>1 DEF LockDrained
  <2>2. CASE TryLockCheck(t)
    BY <2>2, <1>1 DEF TryLockCheck
  <2>3. CASE CountIn(t)
    BY <2>3 DEF CountIn
  <2>4. CASE LockGate(t) \/ TryLockGate(t) \/ SharedGate(t)
    BY <2>4 DEF LockGate, TryLockGate, SharedGate
  <2>5. CASE OpenGate(t)
    BY <2>5 DEF OpenGate
  <2>6. CASE TryLockUndo(t) \/ TryFails(t) \/ Unlock(t) \/ UnlockShared(t)
    BY <2>6 DEF TryLockUndo, TryFails, Unlock, UnlockShared
  <2> QED BY <1>4, <2>1, <2>2, <2>3, <2>4, <2>5, <2>6 DEF Step
<1> QED BY <1>2, <1>3, <1>4 DEF Next

(* The invariant of the lock, on which the theorems below rest.            *)
LEMMA Invariance == Spec => []IInv
<1>1. IInv /\ [Next]_vars => IInv'
    BY TypeStep, GateStep, CountStep, ExclusionStep DEF IInv
<1> QED BY InitIInv, <1>1, PTL DEF Spec

-----------------------------------------------------------------------------

(* The variables of the lock keep their types; in particular the unsigned  *)
(* count_ (Mutex.h:70) stays within its width.                             *)
THEOREM TypeCorrect == Spec => []TypeOK
BY Invariance, PTL DEF IInv

(* count_ is exact (Mutex.cpp:34, 77, 103): it never wraps nor drifts.     *)
THEOREM ReaderCountExact == Spec => []CountExact
BY Invariance, PTL DEF IInv

(* A thread that returned from lock or from a successful try_lock is alone *)
(* in the lock until it unlocks (Mutex.cpp:37-97).                         *)
THEOREM Exclusion == Spec => []MutualExclusion
BY Invariance, PTL DEF IInv

(* While a writer has the gate no reader is counted in (Mutex.cpp:85-89).  *)
THEOREM WriterKeepsGate == Spec => NoBarging
<1> DEFINE WriterHasGate == \E t \in Thread : pc[t] \in {"drain", "exclusive"}
           NoNewReader == WriterHasGate => Counted' \subseteq Counted
<1>1. IInv /\ [Next]_vars => [NoNewReader]_vars
  <2> SUFFICES ASSUME IInv, NEW w \in Thread, pc[w] \in {"drain", "exclusive"},
                      NEW t \in Thread, Call(t) \/ Step(t)
               PROVE  Counted' \subseteq Counted
    BY DEF Next
  <2> USE DEF IInv, TypeOK, Counted, CountedSteps, Goto
  <2>1. CASE CountIn(t)
    BY <2>1 DEF CountIn, GateOwned, GateSteps
  <2>2. CASE OpenGate(t)
    BY <2>2 DEF OpenGate
  <2>3. CASE Call(t)
    BY <2>3 DEF Call, Calls
  <2>4. CASE LockGate(t) \/ LockDrained(t) \/ TryLockGate(t) \/ TryLockCheck(t)
    BY <2>4 DEF LockGate, LockDrained, TryLockGate, TryLockCheck
  <2>5. CASE \/ TryLockUndo(t) \/ SharedGate(t) \/ TryFails(t)
             \/ Unlock(t)      \/ UnlockShared(t)
    BY <2>5 DEF TryLockUndo, SharedGate, TryFails, Unlock, UnlockShared
  <2> QED BY <2>1, <2>2, <2>3, <2>4, <2>5 DEF Step
<1> QED BY Invariance, <1>1, PTL DEF Spec, NoBarging

-----------------------------------------------------------------------------

(* How a thread's move changes what it holds.                              *)
LEMMA HeldAfter ==
    ASSUME TypeOK, NEW t \in Thread, NEW step, Goto(t, step)
    PROVE  Held' = [Held EXCEPT ![t] =
                        IF step = "exclusive" THEN "exclusive"
                        ELSE IF step \in CountedSteps THEN "shared" ELSE "none"]
BY DEF TypeOK, Goto, Held

(* A move that takes and releases nothing.                                 *)
LEMMA HeldKept ==
    ASSUME TypeOK, NEW t \in Thread, NEW step, Goto(t, step),
           pc[t] # "exclusive", step # "exclusive",
           pc[t] \in CountedSteps <=> step \in CountedSteps
    PROVE  Held' = Held
BY DEF TypeOK, Goto, Held

(* LockFreeSharedMutex implements the reader-writer lock the standard asks *)
(* for (Mutex.h:49): each atomic step takes, releases or leaves the lock.  *)
THEOREM Refinement == Spec => ImplementsRWLock
<1> USE DEF RW!Modes
<1>1. Init => RW!Init
    BY DEF Init, RW!Init, Held, CountedSteps
<1>2. IInv /\ [Next]_vars => [RW!Next]_Held
  <2> SUFFICES ASSUME IInv, [Next]_vars PROVE [RW!Next]_Held OBVIOUS
  <2> USE DEF IInv, TypeOK
  <2>1. CASE UNCHANGED vars
    BY <2>1 DEF vars, Held
  <2>2. ASSUME NEW t \in Thread, Call(t) PROVE Held' = Held
    BY <2>2, HeldKept DEF Call, Calls, CountedSteps
  <2>3. ASSUME NEW t \in Thread, Step(t) PROVE [RW!Next]_Held
    <3>1. CASE LockDrained(t) \/ TryLockCheck(t)
      <4>1. CASE count = 0
        <5>1. \A u \in Thread : pc[u] \notin CountedSteps
          <6>1. Counted = {}
            BY <4>1, CountedSmall, FS_EmptySet DEF CountExact, Counted
          <6> QED BY <6>1 DEF Counted
        <5>2. \A u \in Thread : pc[u] # "exclusive"
          BY <3>1 DEF LockDrained, TryLockCheck, GateOwned, GateSteps
        <5>3. \A u \in Thread : Held[u] = "none"
          BY <5>1, <5>2 DEF Held
        <5>4. Held' = [Held EXCEPT ![t] = "exclusive"]
          BY <3>1, <4>1, HeldAfter DEF LockDrained, TryLockCheck
        <5> QED BY <5>3, <5>4 DEF RW!Next, RW!AcquireExclusive
      <4>2. CASE count # 0
        BY <3>1, <4>2, HeldKept DEF LockDrained, TryLockCheck, CountedSteps
      <4> QED BY <4>1, <4>2
    <3>2. CASE CountIn(t)
      <4>1. \A u \in Thread : Held[u] # "exclusive"
        BY <3>2 DEF CountIn, GateOwned, GateSteps, Held, CountedSteps
      <4>2. Held[t] = "none" /\ Held' = [Held EXCEPT ![t] = "shared"]
        BY <3>2, HeldAfter DEF CountIn, Held, CountedSteps
      <4> QED BY <4>1, <4>2 DEF RW!Next, RW!AcquireShared
    <3>3. CASE Unlock(t) \/ UnlockShared(t)
      <4>1. Held[t] # "none" /\ Held' = [Held EXCEPT ![t] = "none"]
        BY <3>3, HeldAfter DEF Unlock, UnlockShared, Held, CountedSteps
      <4> QED BY <4>1 DEF RW!Next, RW!Release
    <3>4. CASE OpenGate(t)
      BY <3>4, HeldKept DEF OpenGate, CountedSteps
    <3>5. CASE LockGate(t) \/ TryLockGate(t) \/ SharedGate(t)
      BY <3>5, HeldKept DEF LockGate, TryLockGate, SharedGate, CountedSteps
    <3>6. CASE TryLockUndo(t) \/ TryFails(t)
      BY <3>6, HeldKept DEF TryLockUndo, TryFails, CountedSteps
    <3> QED BY <2>3, <3>1, <3>2, <3>3, <3>4, <3>5, <3>6 DEF Step
  <2> QED BY <2>1, <2>2, <2>3 DEF Next
<1> QED BY Invariance, <1>1, <1>2, PTL DEF Spec, ImplementsRWLock, RW!Spec

=============================================================================
