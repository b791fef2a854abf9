-------------------------- MODULE HashTableProofs --------------------------
(***************************************************************************)
(* Proofs about ConcurrentHashTableT, for every set of threads, keys and   *)
(* primes, every hash and every initial size.  First the locks and the     *)
(* lookups: the locks are where the steps say, no accessor dangles, every  *)
(* node is where a lookup searches, through every rehash, and a null       *)
(* accessor means what it says.  Then, on top of these, that the table is  *)
(* a map: no key has two nodes, size() counts the nodes, the load stays    *)
(* bounded, and every step is one of the abstract map of module            *)
(* ConcurrentMap or invisible in it; and that an iteration visits no       *)
(* element twice, and every element that stays in the table.               *)
(***************************************************************************)
EXTENDS HashIteration, SequenceProofs, FiniteSetTheorems, FunctionTheorems, TLAPS

(* Every non-empty set of numbers has a least one, so that the CHOOSE of   *)
(* Min finds it.                                                           *)
LEMMA MinNat ==
    ASSUME NEW S \in SUBSET Nat, S # {}
    PROVE  Min(S) \in S /\ \A n \in S : Min(S) <= n
<1> DEFINE Less == OpToRel(<, Nat)
<1>1. IsWellFoundedOn(Less, Nat)
    BY NatLessThanWellFounded
<1>2. PICK m \in S : \A n \in S : <<n, m>> \notin Less
  <2> HIDE DEF Less
  <2> QED BY <1>1, WFMin
<1>3. ASSUME NEW n \in S PROVE m <= n
  <2>1. m \in Nat /\ n \in Nat
    OBVIOUS
  <2>2. n < m => <<n, m>> \in Less
    BY <2>1 DEF OpToRel
  <2> HIDE DEF Less
  <2>3. ~(n < m)
    BY <1>2, <2>2
  <2> QED BY <2>1, <2>3
<1> QED BY <1>3 DEF Min

(* next_prime returns a member of the list, or the last one.               *)
LEMMA NextPrime ==
    ASSUME NEW n \in Int
    PROVE  next_prime(n) \in Primes
<1>1. LastPrime \in Primes
    BY PrimesAssumption DEF LastPrime, Max
<1>2. ASSUME \E p \in Primes : p >= n PROVE Min({p \in Primes : p >= n}) \in Primes
    BY <1>2, MinNat, PrimesAssumption
<1> QED BY <1>1, <1>2 DEF next_prime

(* An index is one of a bucket.                                            *)
LEMMA IndexInRange ==
    ASSUME NEW k \in Key, NEW n \in Nat \ {0}
    PROVE  get_bucket_index(k, n) \in 0 .. n - 1
BY HashAssumption DEF get_bucket_index

(* Where a vector has keys, FirstUsed finds a bucket with a chain.         *)
LEMMA FirstUsedBucket ==
    ASSUME NEW n \in Nat, NEW vector \in [0 .. n - 1 -> Seq(Key)], KeysIn(vector) # {}
    PROVE  FirstUsed(vector) \in 0 .. n - 1 /\ vector[FirstUsed(vector)] # <<>>
<1> DEFINE used == {i \in DOMAIN vector : vector[i] # <<>>}
<1>1. PICK i \in 0 .. n - 1 : ToSet(vector[i]) # {}
    BY DEF KeysIn
<1>2. vector[i] # <<>>
    BY <1>1 DEF ToSet
<1>3. used \in SUBSET Nat /\ used # {}
    BY <1>2, SMTT(30)
<1> HIDE DEF used
<1>4. Min(used) \in used
    BY <1>3, MinNat
<1> QED BY <1>4 DEF used, FirstUsed

-----------------------------------------------------------------------------

(* The accessors there are.                                                *)
AccType == [index : Nat, node : Key \cup {None}]

(* The inductive invariant.  Mutual exclusion in the table rests on the    *)
(* locks being held by the threads whose steps say so; that in turn on     *)
(* every index being one of a bucket, for which a rehash must be alone     *)
(* and must end with a size of the list.                                   *)
Shape ==
    /\ bucketsSize \in Primes
    /\ buckets \in [0 .. bucketsSize - 1 -> Seq(Key)]
    /\ numElements \in Int
    /\ writer \in Thread \cup {None}
    /\ readers \subseteq Thread
    /\ bmutex \in [0 .. bucketsSize - 1 -> Thread \cup {None}]
    /\ pc \in [Thread -> Steps]
    /\ call \in [Thread -> [type : Calls \cup {None}, key : Key \cup {None}, want : Int]]
    /\ acc \in [Thread -> AccType]

(* A call that looks a key up has one; a call that will rehash knows the   *)
(* new size, and a rehash in progress has a vector of that size.           *)
CallsReady ==
    \A t \in Thread :
        /\ pc[t] \in {"resize", "lock_table", "lock_bucket", "find", "add"}
              => call[t].key \in Key
        /\ pc[t] \in {"gate", "drain"} /\ call[t].type # "clear"
              => call[t].key \in Key /\ call[t].want \in Primes
        /\ pc[t] = "rehash"
              => /\ call[t].key \in Key /\ call[t].want \in Primes
                 /\ call[t].want > bucketsSize
                 /\ tmp \in [0 .. call[t].want - 1 -> Seq(Key)]

IndexInTable ==
    \A t \in Thread :
        pc[t] \in {"lock_bucket"} \cup BucketSteps => acc[t].index \in 0 .. bucketsSize - 1

IInv == Shape /\ CallsReady /\ IndexInTable /\ LocksMatchSteps /\ WriterAlone /\ AccessorsLive

(* Every member of the list is a positive number.                          *)
LEMMA PrimeIsNat == \A p \in Primes : p \in Nat /\ p \in Int /\ p > 0
BY PrimesAssumption

LEMMA InitIInv == Init => IInv
<1> SUFFICES ASSUME Init PROVE IInv OBVIOUS
<1> USE DEF Init
<1>1. bucketsSize \in Primes
    BY NextPrime, InitAssumption
<1>2. <<>> \in Seq(Key)
    OBVIOUS
<1>3. Shape
    BY <1>1, <1>2 DEF Shape, AccType, EmptyBuckets, FreshMutexes, NoCall, NoAccessor, Steps, OutsideSteps
<1>4. CallsReady /\ IndexInTable /\ WriterAlone /\ AccessorsLive
    BY DEF CallsReady, IndexInTable, WriterAlone, AccessorsLive, BucketSteps, AccessorSteps,
           ExclusiveSteps
<1>5. LocksMatchSteps
    BY NoneAssumption DEF LocksMatchSteps, FreshMutexes, BucketSteps, AccessorSteps, SharedSteps,
           ExclusiveSteps
<1> QED BY <1>3, <1>4, <1>5 DEF IInv

(* What an update of one thread's accessor does.                           *)
LEMMA NodeSet ==
    ASSUME acc \in [Thread -> AccType], NEW t \in Thread, NEW k \in Key \cup {None},
           acc' = [acc EXCEPT ![t].node = k]
    PROVE  /\ acc' \in [Thread -> AccType]
           /\ acc'[t].node = k /\ acc'[t].index = acc[t].index
           /\ \A u \in Thread \ {t} : acc'[u] = acc[u]
BY DEF AccType

LEMMA BucketLeft ==
    ASSUME acc \in [Thread -> AccType], NEW t \in Thread, NextBucket(t)
    PROVE  /\ acc' \in [Thread -> AccType]
           /\ \A u \in Thread \ {t} : acc'[u] = acc[u]
BY DEF AccType, NextBucket

(* The node of an accessor has a place in its chain; a node that follows   *)
(* it is the one the accessor moves on to.                                 *)
LEMMA AccessorChain ==
    ASSUME Shape, AccessorsLive, NEW t \in Thread, pc[t] \in AccessorSteps
    PROVE  /\ acc[t].index \in 0 .. bucketsSize - 1
           /\ Chain(t) \in Seq(Key)
           /\ Position(t) \in 1 .. Len(Chain(t)) /\ Chain(t)[Position(t)] = acc[t].node
           /\ Successor(t) \in Key \cup {None}
           /\ Successor(t) # None =>
                 /\ Successor(t) \in ToSet(Chain(t))
                 /\ Successor(t) \in ToSet(RemoveAt(Chain(t), Position(t)))
<1>1. acc[t].index \in 0 .. bucketsSize - 1 /\ acc[t].node \in ToSet(Chain(t))
    BY DEF AccessorsLive, Shape
<1>2. Chain(t) \in Seq(Key)
    BY <1>1 DEF Shape, Chain
<1>3. DOMAIN Chain(t) = 1 .. Len(Chain(t)) /\ Len(Chain(t)) \in Nat
    BY <1>2, LenProperties
<1>4. \E p \in DOMAIN Chain(t) : Chain(t)[p] = acc[t].node
    BY <1>1 DEF ToSet
<1>5. Position(t) \in 1 .. Len(Chain(t)) /\ Chain(t)[Position(t)] = acc[t].node
    BY <1>3, <1>4 DEF Position
<1>6. CASE Position(t) = Len(Chain(t))
    BY <1>1, <1>2, <1>5, <1>6 DEF Successor
<1>7. CASE Position(t) # Len(Chain(t))
  <2>1. Position(t) < Len(Chain(t)) /\ Position(t) + 1 \in DOMAIN Chain(t)
    BY <1>3, <1>5, <1>7
  <2>2. Successor(t) = Chain(t)[Position(t) + 1]
    BY <1>7 DEF Successor
  <2>3. Chain(t)[Position(t) + 1] \in Key
        /\ Chain(t)[Position(t) + 1] \in ToSet(RemoveAt(Chain(t), Position(t)))
    BY <1>2, <1>5, <2>1, RemovedChain
  <2>4. Chain(t)[Position(t) + 1] \in ToSet(Chain(t))
    BY <2>1 DEF ToSet
  <2> QED BY <1>1, <1>2, <1>5, <2>2, <2>3, <2>4
<1> QED BY <1>6, <1>7

(* The steps keep the variables in their types.                            *)
LEMMA ShapeStep ==
    ASSUME IInv, NEW t \in Thread, Call(t) \/ Progress(t) \/ Choice(t)
    PROVE  Shape'
<1> DEFINE CallType == [type : Calls \cup {None}, key : Key \cup {None}, want : Int]
<1> USE DEF Shape, Goto, table, locks, AccType
<1>1. Shape /\ CallsReady /\ IndexInTable /\ AccessorsLive
    BY DEF IInv
<1>2. ASSUME Return(t) PROVE pc' \in [Thread -> Steps] /\ call' \in [Thread -> CallType]
                             /\ acc' \in [Thread -> AccType]
  <2>1. NoCall \in CallType /\ NoAccessor \in AccType
    BY DEF NoCall, NoAccessor
  <2> QED BY <1>1, <1>2, <2>1 DEF Return, Steps, OutsideSteps
<1>3. \A s \in {"idle", "resize", "gate", "lock_table", "iter_table", "drain", "rehash", "unwind", "clear",
                "lock_bucket", "unlock_table", "iter_bucket", "find", "add", "unlock_bucket", "held",
                "erase"} : s \in Steps
    BY DEF Steps, OutsideSteps, ExclusiveSteps, SharedSteps, BucketSteps, AccessorSteps
<1>4. bucketsSize \in Nat /\ bucketsSize > 0
    BY <1>1, PrimeIsNat
<1>10. CASE CallElement(t)
    BY <1>1, <1>3, <1>10 DEF CallElement, Calls, InsertTypes, ElementsWanted
<1>11. CASE CallClear(t) \/ CallIterate(t)
  <2>1. "clear" \in Calls /\ "iterate" \in Calls
    BY DEF Calls
  <2>2. \E type \in Calls : call' = [call EXCEPT ![t].type = type]
    BY <1>11, <2>1 DEF CallClear, CallIterate
  <2>3. call' \in [Thread -> CallType]
    BY <1>1, <2>2, ZenonT(60)
  <2> QED BY <1>1, <1>3, <1>11, <2>3 DEF CallClear, CallIterate
<1>12. CASE ResizeCheck(t)
  <2>1. next_prime(call[t].want) \in Int
    <3> DEFINE want == call[t].want
    <3>1. want \in Int
      BY <1>1
    <3> HIDE DEF want
    <3>2. next_prime(want) \in Primes
      BY <3>1, NextPrime
    <3>3. next_prime(want) \in Int
      BY ONLY <3>2, PrimeIsNat
    <3> QED BY <3>3 DEF want
  <2> HIDE DEF Goto
  <2>2. call' \in [Thread -> CallType]
    BY <1>1, <1>12, <2>1 DEF ResizeCheck
  <2>3. pc' \in [Thread -> Steps]
    BY <1>1, <1>3, <1>12 DEF ResizeCheck, Goto
  <2> QED BY <1>1, <1>12, <2>2, <2>3 DEF ResizeCheck
<1>13. CASE TakeGate(t)
    BY <1>1, <1>3, <1>13 DEF TakeGate
<1>14. CASE ClearBegin(t) \/ RehashThrow(t)
    BY <1>1, <1>3, <1>14 DEF ClearBegin, RehashThrow
<1>15. CASE RehashBegin(t)
    BY <1>1, <1>3, <1>15 DEF RehashBegin
<1>16. CASE ClearEnd(t)
    BY <1>1, <1>2, <1>16 DEF ClearEnd
<1>17. CASE UnwindOne(t)
    BY <1>1, <1>17 DEF UnwindOne, UncountElement
<1>18. CASE UnwindEnd(t)
    BY <1>1, <1>2, <1>18 DEF UnwindEnd
<1>19. CASE RehashMove(t) \/ ClearOne(t)
  <2> DEFINE i == FirstUsed(buckets)
  <2>1. KeysIn(buckets) # {}
    BY <1>19 DEF RehashMove, ClearOne
  <2>2. i \in 0 .. bucketsSize - 1 /\ buckets[i] # <<>>
    BY <1>1, <1>4, <2>1, FirstUsedBucket
  <2>3. buckets' = PopFront(buckets, i) /\ UNCHANGED <<bucketsSize, locks, pc, call, acc>>
        /\ numElements' \in Int
    BY <1>1, <1>19 DEF RehashMove, ClearOne, UncountElement
  <2> HIDE DEF i
  <2>4. Tail(buckets[i]) \in Seq(Key)
    BY <1>1, <2>2, PoppedChain
  <2> QED BY <1>1, <2>2, <2>3, <2>4 DEF PopFront
<1>20. CASE RehashEnd(t)
    BY <1>1, <1>3, <1>20 DEF RehashEnd, SwapBuckets, FreshMutexes, CallsReady
<1>21. CASE LockTable(t)
  <2>1. get_bucket_index(call[t].key, bucketsSize) \in Nat
    BY <1>1, <1>4, <1>21, IndexInRange DEF LockTable, CallsReady
  <2> QED BY <1>1, <1>3, <1>21, <2>1 DEF LockTable, EnterShared
<1>22. CASE LockBucket(t)
    BY <1>1, <1>3, <1>22 DEF LockBucket, LockBucketMutex
<1>23. CASE UnlockBucket(t)
    BY <1>1, <1>3, <1>23 DEF UnlockBucket, UnlockBucketMutex
<1>24. CASE UnlockTable(t)
    BY <1>1, <1>2, <1>24 DEF UnlockTable, LeaveShared
<1>25. CASE Find(t)
    BY <1>1, <1>3, <1>25, ZenonT(60) DEF Find, CallsReady
<1>26. CASE AddNode(t)
  <2>1. call[t].key \in Key /\ acc[t].index \in 0 .. bucketsSize - 1
    BY <1>1, <1>26 DEF AddNode, CallsReady, IndexInTable, BucketSteps
  <2>2. <<call[t].key>> \o buckets[acc[t].index] \in Seq(Key)
    BY <1>1, <2>1, PushedChain
  <2> QED BY <1>1, <1>3, <1>26, <2>1, <2>2 DEF AddNode, PushFront
<1>27. CASE Write(t) \/ Release(t) \/ Erase(t) \/ EraseSearch(t)
    BY <1>1, <1>3, <1>27 DEF Write, Release, Erase, EraseSearch, vars
<1>28. CASE EraseNode(t)
  <2>1. pc[t] \in AccessorSteps
    BY <1>28 DEF EraseNode, AccessorSteps
  <2>2. Successor(t) \in Key \cup {None}
    BY <1>1, <2>1, AccessorChain
  <2>3. RemoveAt(Chain(t), Position(t)) \in Seq(Key) /\ acc[t].index \in 0 .. bucketsSize - 1
    BY <1>1, <2>1, AccessorChain, RemovedChain
  <2>4. buckets' \in [0 .. bucketsSize - 1 -> Seq(Key)] /\ UNCHANGED <<bucketsSize, writer, readers, call>>
        /\ numElements' \in Int
    BY <1>1, <1>28, <2>3 DEF EraseNode, UncountElement, Chain
  <2>5. pc' \in [Thread -> Steps]
    BY <1>1, <1>3, <1>28 DEF EraseNode
  <2>6. acc' \in [Thread -> AccType]
    <3> DEFINE s == Successor(t)
    <3>1. \/ acc' = [acc EXCEPT ![t].node = s] \/ acc' = [acc EXCEPT ![t].node = None]
          \/ NextBucket(t)
      BY <1>28 DEF EraseNode
    <3>2. s \in Key \cup {None} /\ None \in Key \cup {None}
      BY <2>2
    <3> HIDE DEF s, AccType
    <3> QED BY <1>1, <3>1, <3>2, NodeSet, BucketLeft
  <2>7. bmutex' \in [0 .. bucketsSize - 1 -> Thread \cup {None}]
    BY <1>1, <1>28 DEF EraseNode, UnlockBucketMutex
  <2> QED BY <1>1, <2>4, <2>5, <2>6, <2>7
<1>29. CASE IterTable(t)
    BY <1>1, <1>3, <1>29 DEF IterTable, EnterShared
<1>30. CASE IterBucket(t)
  <2> DEFINE i == acc[t].index
  <2>1. UNCHANGED <<table, writer, readers, call>> /\ i \in 0 .. bucketsSize - 1
    BY <1>1, <1>4, <1>30 DEF IterBucket
  <2>2. CASE buckets[i] # <<>>
    <3>1. Head(buckets[i]) \in Key
      BY <1>1, <2>1, <2>2, PoppedChain
    <3> DEFINE k == Head(buckets[i])
    <3>2. acc' = [acc EXCEPT ![t].node = k] /\ k \in Key \cup {None}
      BY <1>30, <2>2, <3>1 DEF IterBucket
    <3>3. acc' \in [Thread -> AccType]
      <4> HIDE DEF k, AccType
      <4> QED BY <1>1, <3>2, NodeSet
    <3>4. pc' \in [Thread -> Steps] /\ bmutex' \in [0 .. bucketsSize - 1 -> Thread \cup {None}]
      BY <1>1, <1>3, <1>30, <2>1, <2>2 DEF IterBucket, LockBucketMutex
    <3> QED BY <1>1, <2>1, <3>3, <3>4
  <2>3. CASE buckets[i] = <<>>
    <3>1. acc' = [acc EXCEPT ![t].index = i + 1] /\ UNCHANGED <<bmutex, pc>>
      BY <1>30, <2>3 DEF IterBucket
    <3>2. i + 1 \in Nat
      BY <2>1, <1>4
    <3> HIDE DEF i
    <3> QED BY <1>1, <2>1, <3>1, <3>2
  <2> QED BY <2>2, <2>3
<1>31. CASE IterEnd(t)
    BY <1>1, <1>2, <1>31 DEF IterEnd, LeaveShared
<1>32. CASE IterNext(t)
  <2>1. pc[t] \in AccessorSteps
    BY <1>32 DEF IterNext, AccessorSteps
  <2>2. Successor(t) \in Key \cup {None}
    BY <1>1, <2>1, AccessorChain
  <2>3. acc' \in [Thread -> AccType]
    <3> DEFINE s == Successor(t)
    <3>1. acc' = [acc EXCEPT ![t].node = s] \/ NextBucket(t)
      BY <1>32 DEF IterNext
    <3>2. s \in Key \cup {None}
      BY <2>2
    <3> HIDE DEF s, AccType
    <3> QED BY <1>1, <3>1, <3>2, NodeSet, BucketLeft
  <2>4. pc' \in [Thread -> Steps] /\ bmutex' \in [0 .. bucketsSize - 1 -> Thread \cup {None}]
        /\ UNCHANGED <<table, writer, readers, call>>
    BY <1>1, <1>3, <1>32 DEF IterNext, UnlockBucketMutex
  <2> QED BY <1>1, <2>3, <2>4
<1>33. CASE IterFound(t)
    BY <1>1, <1>3, <1>33 DEF IterFound, Calls, InsertTypes
<1> QED BY <1>10, <1>11, <1>12, <1>13, <1>14, <1>15, <1>16, <1>17, <1>18, <1>19, <1>20, <1>21, <1>22, <1>23,
           <1>24, <1>25, <1>26, <1>27, <1>28, <1>29, <1>30, <1>31, <1>32, <1>33 DEF Call, Progress, Choice

(* A step that moves one thread, among steps that hold the same locks.     *)
LEMMA SameLocks ==
    ASSUME Shape, LocksMatchSteps, NEW t \in Thread, NEW step \in Steps,
           UNCHANGED locks, pc' = [pc EXCEPT ![t] = step],
           \A u \in Thread : acc'[u].index = acc[u].index,
           pc[t] \in SharedSteps <=> step \in SharedSteps,
           pc[t] \in ExclusiveSteps \cup {"drain"} <=> step \in ExclusiveSteps \cup {"drain"},
           pc[t] \in BucketSteps <=> step \in BucketSteps
    PROVE  LocksMatchSteps'
<1>1. \A u \in Thread : pc'[u] = IF u = t THEN step ELSE pc[u]
    BY DEF Shape
<1>2. UNCHANGED <<readers, writer, bmutex>>
    BY DEF locks
<1>3. readers' = {u \in Thread : pc'[u] \in SharedSteps}
    BY <1>1, <1>2 DEF LocksMatchSteps
<1>4. \A u \in Thread : writer' = u <=> pc'[u] \in ExclusiveSteps \cup {"drain"}
    BY <1>1, <1>2 DEF LocksMatchSteps
<1>5. \A u \in Thread, i \in DOMAIN bmutex' :
          bmutex'[i] = u <=> pc'[u] \in BucketSteps /\ acc'[u].index = i
    BY <1>1, <1>2 DEF LocksMatchSteps
<1> QED BY <1>3, <1>4, <1>5 DEF LocksMatchSteps

(* A step by which a thread gives its bucket back.                         *)
LEMMA BucketGivenUp ==
    ASSUME Shape, IndexInTable, LocksMatchSteps, NEW t \in Thread, pc[t] \in BucketSteps,
           NEW step \in {"iter_bucket", "unlock_table"}, pc' = [pc EXCEPT ![t] = step],
           UnlockBucketMutex(acc[t].index), UNCHANGED <<readers, writer>>,
           \A u \in Thread \ {t} : acc'[u] = acc[u]
    PROVE  LocksMatchSteps'
<1> USE DEF SharedSteps, ExclusiveSteps, BucketSteps, AccessorSteps
<1>1. \A u \in Thread : pc'[u] = IF u = t THEN step ELSE pc[u]
    BY DEF Shape
<1>2. /\ acc[t].index \in DOMAIN bmutex /\ DOMAIN bmutex' = DOMAIN bmutex
      /\ \A i \in DOMAIN bmutex : bmutex'[i] = IF i = acc[t].index THEN None ELSE bmutex[i]
    BY DEF Shape, IndexInTable, UnlockBucketMutex
<1>3. readers' = {u \in Thread : pc'[u] \in SharedSteps}
    BY <1>1 DEF LocksMatchSteps
<1>4. \A u \in Thread : writer' = u <=> pc'[u] \in ExclusiveSteps \cup {"drain"}
    BY <1>1 DEF LocksMatchSteps
<1>5. ASSUME NEW u \in Thread, NEW i \in DOMAIN bmutex'
      PROVE  bmutex'[i] = u <=> pc'[u] \in BucketSteps /\ acc'[u].index = i
  <2>1. bmutex[i] = u <=> pc[u] \in BucketSteps /\ acc[u].index = i
    BY <1>2, <1>5 DEF LocksMatchSteps
  <2>2. bmutex[i] = t <=> acc[t].index = i
    BY <1>2, <1>5 DEF LocksMatchSteps
  <2> QED BY <1>1, <1>2, <2>1, <2>2, NoneAssumption
<1> QED BY <1>3, <1>4, <1>5 DEF LocksMatchSteps

(* Every step leaves the locks with the threads whose steps say so.        *)
LEMMA LocksStep ==
    ASSUME IInv, NEW t \in Thread, Call(t) \/ Progress(t) \/ Choice(t)
    PROVE  LocksMatchSteps'
<1> DEFINE Moves(step) == pc' = [pc EXCEPT ![t] = step]
           Others == \A u \in Thread \ {t} : pc'[u] = pc[u] /\ acc'[u] = acc[u]
<1> USE DEF Goto, table, locks
<1>1. Shape /\ CallsReady /\ IndexInTable /\ LocksMatchSteps /\ WriterAlone /\ AccessorsLive
    BY DEF IInv
<1>2. Shape'
    BY ShapeStep
<1>3. pc = [pc EXCEPT ![t] = pc[t]]
    BY <1>1 DEF Shape
<1> USE DEF SharedSteps, ExclusiveSteps, BucketSteps, AccessorSteps
<1>10. CASE CallElement(t) \/ CallClear(t) \/ CallIterate(t) \/ ResizeCheck(t)
  <2>1. PICK step \in {"resize", "lock_table", "gate", "iter_table"} : Moves(step)
    BY <1>10 DEF CallElement, CallClear, CallIterate, ResizeCheck
  <2>2. UNCHANGED locks /\ UNCHANGED acc /\ pc[t] \in {"idle", "resize"}
    BY <1>10 DEF CallElement, CallClear, CallIterate, ResizeCheck
  <2> QED BY <1>1, <2>1, <2>2, SameLocks DEF Steps, OutsideSteps
<1>11. CASE ClearBegin(t) \/ RehashThrow(t)
  <2>1. PICK step \in {"clear", "unwind"} : Moves(step)
    BY <1>11 DEF ClearBegin, RehashThrow
  <2>2. UNCHANGED locks /\ UNCHANGED acc /\ pc[t] \in {"drain", "rehash"}
    BY <1>11 DEF ClearBegin, RehashThrow
  <2> QED BY <1>1, <2>1, <2>2, SameLocks DEF Steps
<1>12. CASE RehashMove(t) \/ UnwindOne(t) \/ ClearOne(t) \/ Write(t) \/ EraseSearch(t) \/ IterFound(t)
  <2>1. Moves(pc[t]) /\ UNCHANGED locks /\ UNCHANGED acc
    BY <1>3, <1>12 DEF RehashMove, UnwindOne, ClearOne, Write, EraseSearch, IterFound, vars
  <2>2. pc[t] \in Steps
    BY <1>1 DEF Shape
  <2> QED BY <1>1, <2>1, <2>2, SameLocks
<1>13. CASE Release(t) \/ Erase(t)
  <2>1. PICK step \in {"unlock_bucket", "erase"} : Moves(step)
    BY <1>13 DEF Release, Erase
  <2>2. UNCHANGED locks /\ UNCHANGED acc /\ pc[t] = "held"
    BY <1>13 DEF Release, Erase
  <2> QED BY <1>1, <2>1, <2>2, SameLocks DEF Steps
<1>14. CASE Find(t) \/ AddNode(t)
  <2>1. PICK step \in {"add", "held", "unlock_bucket"} : Moves(step)
    BY <1>14 DEF Find, AddNode
  <2>2. UNCHANGED locks /\ pc[t] \in {"find", "add"}
    BY <1>14 DEF Find, AddNode
  <2>3. \A u \in Thread : acc'[u].index = acc[u].index
    BY <1>1, <1>14 DEF Find, AddNode, Shape, AccType, CallsReady
  <2> QED BY <1>1, <2>1, <2>2, <2>3, SameLocks DEF Steps
<1>20. CASE TakeGate(t)
    BY <1>1, <1>20, NoneAssumption DEF TakeGate, NoWriter, LocksMatchSteps, Shape
<1>21. CASE RehashBegin(t)
  <2>1. pc[t] = "drain" /\ UNCHANGED <<readers, bmutex, acc>>
    BY <1>21 DEF RehashBegin
  <2>2. CASE Moves("rehash") /\ UNCHANGED writer
    BY <1>1, <2>1, <2>2, SameLocks DEF Steps
  <2>3. CASE Moves("lock_table") /\ writer' = None
    BY <1>1, <2>1, <2>3, NoneAssumption DEF LocksMatchSteps, Shape
  <2> QED BY <1>21, <2>2, <2>3 DEF RehashBegin
<1>22. CASE ClearEnd(t) \/ UnwindEnd(t)
  <2>1. pc[t] \in {"clear", "unwind"} /\ UNCHANGED <<readers, bmutex>> /\ writer' = None
        /\ Moves("idle") /\ \A u \in Thread \ {t} : acc'[u] = acc[u]
    BY <1>1, <1>22 DEF ClearEnd, UnwindEnd, Return, Shape
  <2> QED BY <1>1, <2>1, NoneAssumption DEF LocksMatchSteps, Shape
<1>23. CASE RehashEnd(t)
    BY <1>1, <1>23, NoneAssumption DEF RehashEnd, SwapBuckets, FreshMutexes, LocksMatchSteps, WriterAlone, Shape
<1>24. CASE LockTable(t)
    BY <1>1, <1>24 DEF LockTable, EnterShared, LocksMatchSteps, Shape, AccType
<1>25. CASE LockBucket(t)
    BY <1>1, <1>25, NoneAssumption DEF LockBucket, LockBucketMutex, BucketFree, LocksMatchSteps, Shape, IndexInTable
<1>26. CASE UnlockBucket(t)
    BY <1>1, <1>26, BucketGivenUp DEF UnlockBucket
<1>27. CASE UnlockTable(t) \/ IterEnd(t)
  <2>1. pc[t] \in {"unlock_table", "iter_bucket"} /\ UNCHANGED <<writer, bmutex>> /\ readers' = readers \ {t}
        /\ Moves("idle") /\ \A u \in Thread \ {t} : acc'[u] = acc[u]
    BY <1>1, <1>27 DEF UnlockTable, IterEnd, LeaveShared, Return, Shape
  <2> QED BY <1>1, <2>1, SMTT(30) DEF LocksMatchSteps, Shape
<1>28. CASE IterTable(t)
    BY <1>1, <1>28 DEF IterTable, EnterShared, LocksMatchSteps, Shape
<1>29. CASE IterBucket(t)
  <2> DEFINE i == acc[t].index
  <2>1. pc[t] = "iter_bucket" /\ i \in DOMAIN bmutex /\ UNCHANGED <<writer, readers>>
        /\ bmutex[i] = None
    BY <1>1, <1>29, PrimeIsNat DEF IterBucket, Shape, AccType, BucketFree
  <2>2. CASE buckets[i] # <<>>
    <3> DEFINE k == Head(buckets[i])
    <3>1. acc' = [acc EXCEPT ![t].node = k] /\ Moves("held") /\ bmutex' = [bmutex EXCEPT ![i] = t]
      BY <1>29, <2>2 DEF IterBucket, LockBucketMutex
    <3> HIDE DEF k
    <3>2. acc'[t].index = i /\ \A u \in Thread \ {t} : acc'[u] = acc[u]
      BY <1>1, <3>1 DEF Shape, AccType
    <3> QED BY <1>1, <2>1, <3>1, <3>2, NoneAssumption DEF LocksMatchSteps, Shape
  <2>3. CASE buckets[i] = <<>>
    <3>1. acc' = [acc EXCEPT ![t].index = i + 1] /\ UNCHANGED <<bmutex, pc>>
      BY <1>29, <2>3 DEF IterBucket
    <3>2. \A u \in Thread \ {t} : acc'[u] = acc[u]
      BY <1>1, <3>1 DEF Shape
    <3> QED BY <1>1, <2>1, <3>1, <3>2 DEF LocksMatchSteps, Shape
  <2> QED BY <2>2, <2>3
<1>30. CASE IterNext(t)
  <2> DEFINE k == Successor(t)
  <2>1. pc[t] = "held" /\ UNCHANGED <<writer, readers>>
    BY <1>30 DEF IterNext
  <2>2. CASE k # None
    <3>1. acc' = [acc EXCEPT ![t].node = k] /\ UNCHANGED locks /\ Moves(pc[t])
      BY <1>3, <1>30, <2>2 DEF IterNext
    <3> HIDE DEF k
    <3>2. \A u \in Thread : acc'[u].index = acc[u].index
      BY <1>1, <3>1 DEF Shape, AccType
    <3> QED BY <1>1, <2>1, <3>1, <3>2, SameLocks DEF Steps
  <2>3. CASE k = None
    <3>1. NextBucket(t) /\ UnlockBucketMutex(acc[t].index) /\ Moves("iter_bucket")
      BY <1>30, <2>3 DEF IterNext
    <3>2. \A u \in Thread \ {t} : acc'[u] = acc[u]
      BY <1>1, <3>1, BucketLeft DEF Shape
    <3> QED BY <1>1, <2>1, <3>1, <3>2, BucketGivenUp
  <2> QED BY <2>2, <2>3
<1>31. CASE EraseNode(t)
  <2> DEFINE k == Successor(t)
  <2>1. pc[t] = "erase" /\ UNCHANGED <<writer, readers>>
    BY <1>31 DEF EraseNode
  <2>2. CASE k # None
    <3>1. acc' = [acc EXCEPT ![t].node = k] /\ UNCHANGED locks
          /\ (Moves("held") \/ Moves("unlock_bucket"))
      BY <1>31, <2>2 DEF EraseNode
    <3> HIDE DEF k
    <3>2. \A u \in Thread : acc'[u].index = acc[u].index
      BY <1>1, <3>1 DEF Shape, AccType
    <3> QED BY <1>1, <2>1, <3>1, <3>2, SameLocks DEF Steps
  <2>3. CASE k = None
    <3>1. UnlockBucketMutex(acc[t].index) /\ (Moves("iter_bucket") \/ Moves("unlock_table"))
          /\ (NextBucket(t) \/ acc' = [acc EXCEPT ![t].node = None])
      BY <1>31, <2>3 DEF EraseNode
    <3>2. \A u \in Thread \ {t} : acc'[u] = acc[u]
      BY <1>1, <3>1, BucketLeft DEF Shape
    <3> QED BY <1>1, <2>1, <3>1, <3>2, BucketGivenUp
  <2> QED BY <2>2, <2>3
<1> QED BY <1>10, <1>11, <1>12, <1>13, <1>14, <1>20, <1>21, <1>22, <1>23, <1>24, <1>25, <1>26, <1>27, <1>28,
           <1>29, <1>30, <1>31 DEF Call, Progress, Choice

(* A step of one thread leaves the steps, calls and accessors of the       *)
(* others alone.                                                           *)
LEMMA OneThreadMoves ==
    ASSUME Shape, NEW t \in Thread, Call(t) \/ Progress(t) \/ Choice(t), NEW u \in Thread, u # t
    PROVE  pc'[u] = pc[u] /\ call'[u] = call[u] /\ acc'[u] = acc[u]
<1> USE DEF Shape, Goto, Return, NextBucket
<1>1. CASE Call(t)
    BY <1>1 DEF Call, CallElement, CallClear, CallIterate
<1>2. CASE Choice(t)
    BY <1>2 DEF Choice, Write, Erase, IterFound, RehashThrow
<1>3. CASE ResizeCheck(t) \/ TakeGate(t) \/ ClearBegin(t) \/ ClearOne(t) \/ ClearEnd(t)
    BY <1>3 DEF ResizeCheck, TakeGate, ClearBegin, ClearOne, ClearEnd
<1>4. CASE RehashBegin(t) \/ RehashMove(t) \/ RehashEnd(t) \/ UnwindOne(t) \/ UnwindEnd(t)
    BY <1>4 DEF RehashBegin, RehashMove, RehashEnd, UnwindOne, UnwindEnd
<1>5. CASE LockTable(t) \/ LockBucket(t) \/ Find(t) \/ AddNode(t) \/ UnlockBucket(t) \/ UnlockTable(t)
    BY <1>5 DEF LockTable, LockBucket, Find, AddNode, UnlockBucket, UnlockTable
<1>6. CASE EraseNode(t) \/ IterNext(t)
    BY <1>6 DEF EraseNode, IterNext
<1>7. CASE EraseSearch(t) \/ IterTable(t) \/ IterBucket(t) \/ IterEnd(t) \/ Release(t)
    BY <1>7 DEF EraseSearch, IterTable, IterBucket, IterEnd, Release, vars
<1> QED BY <1>1, <1>2, <1>3, <1>4, <1>5, <1>6, <1>7 DEF Progress

(* A writer stays alone: nobody enters past its gate, and it starts only   *)
(* when the last reader has left.                                          *)
LEMMA AloneStep ==
    ASSUME IInv, NEW t \in Thread, Call(t) \/ Progress(t) \/ Choice(t)
    PROVE  WriterAlone'
<1>1. Shape /\ LocksMatchSteps /\ WriterAlone
    BY DEF IInv
<1>2. \A u \in Thread \ {t} : pc'[u] = pc[u]
    BY <1>1, OneThreadMoves
<1> USE DEF Goto, Return, vars, table, locks, CallElement, CallClear, CallIterate, ResizeCheck, TakeGate,
        ClearBegin, ClearOne, ClearEnd, RehashBegin, RehashMove, RehashEnd, RehashThrow, UnwindOne, UnwindEnd,
        LockTable, LockBucket, Find, AddNode, UnlockBucket, UnlockTable, EraseNode, EraseSearch,
        IterTable, IterBucket, IterEnd, IterNext, IterFound, Write, Release, Erase
<1>3. readers' \subseteq readers \/ writer = None
    BY DEF Call, Progress, Choice, EnterShared, LeaveShared, NoWriter
<1>4. pc'[t] \in ExclusiveSteps => pc[t] \in ExclusiveSteps \/ (pc[t] = "drain" /\ readers = {})
    BY <1>1 DEF Call, Progress, Choice, Shape, ExclusiveSteps, NoReaders
<1>5. ASSUME NEW u \in Thread, pc'[u] \in ExclusiveSteps PROVE readers' = {}
  <2>1. pc[u] \in ExclusiveSteps \cup {"drain"} /\ readers = {}
    BY <1>1, <1>2, <1>4, <1>5 DEF WriterAlone
  <2>2. writer # None
    BY <1>1, <2>1, NoneAssumption DEF LocksMatchSteps
  <2> QED BY <1>3, <2>1, <2>2
<1> QED BY <1>5 DEF WriterAlone

(* Only the thread that has the table mutex replaces vectors and their     *)
(* size, and it changes the size only when its rehash ends.                *)
LEMMA OnlyWriterRebuilds ==
    ASSUME NEW t \in Thread, Call(t) \/ Progress(t) \/ Choice(t)
    PROVE  /\ UNCHANGED <<tmp, bucketsSize>> \/ pc[t] \in ExclusiveSteps \cup {"drain"}
           /\ UNCHANGED bucketsSize \/ (pc[t] = "rehash" /\ RehashEnd(t))
BY DEF Call, Progress, Choice, vars, table, CallElement, CallClear, CallIterate, ResizeCheck, TakeGate,
       ClearBegin, ClearOne, ClearEnd, RehashBegin, RehashMove, RehashEnd, RehashThrow, UnwindOne, UnwindEnd,
       LockTable, LockBucket, Find, AddNode, UnlockBucket, UnlockTable, EraseNode, EraseSearch,
       IterTable, IterBucket, IterEnd, IterNext, IterFound, Write, Release, Erase, ExclusiveSteps

(* Two threads are never both between the gate and the end of a rehash.    *)
LEMMA OneWriter ==
    ASSUME LocksMatchSteps, NEW t \in Thread, NEW u \in Thread,
           pc[t] \in ExclusiveSteps \cup {"drain"}, pc[u] \in ExclusiveSteps \cup {"drain"}
    PROVE  t = u
BY DEF LocksMatchSteps

(* Calls keep what they need to go on.                                     *)
LEMMA ReadyStep ==
    ASSUME IInv, NEW t \in Thread, Call(t) \/ Progress(t) \/ Choice(t)
    PROVE  CallsReady'
<1> DEFINE Ready(u) ==
        /\ pc[u] \in {"resize", "lock_table", "lock_bucket", "find", "add"} => call[u].key \in Key
        /\ pc[u] \in {"gate", "drain"} /\ call[u].type # "clear"
              => call[u].key \in Key /\ call[u].want \in Primes
        /\ pc[u] = "rehash"
              => /\ call[u].key \in Key /\ call[u].want \in Primes
                 /\ call[u].want > bucketsSize
                 /\ tmp \in [0 .. call[u].want - 1 -> Seq(Key)]
<1>1. Shape /\ LocksMatchSteps /\ \A u \in Thread : Ready(u)
    BY DEF IInv, CallsReady
<1>2. ASSUME NEW u \in Thread, u # t PROVE Ready(u)'
  <2>1. pc'[u] = pc[u] /\ call'[u] = call[u]
    BY <1>1, <1>2, OneThreadMoves
  <2>2. pc[u] = "rehash" => UNCHANGED <<tmp, bucketsSize>>
    BY <1>1, <1>2, OnlyWriterRebuilds, OneWriter DEF ExclusiveSteps
  <2> QED BY <1>1, <2>1, <2>2
<1>3. Ready(t)'
  <2> USE DEF Shape, Goto
  <2>1. CASE CallElement(t)
    BY <1>1, <2>1 DEF CallElement
  <2>2. CASE CallClear(t) \/ CallIterate(t)
    BY <1>1, <2>2 DEF CallClear, CallIterate
  <2>3. CASE ResizeCheck(t)
    <3> DEFINE want == next_prime(call[t].want)
    <3>1. want \in Primes
      <4> DEFINE n == call[t].want
      <4>1. n \in Int
        BY <1>1
      <4> HIDE DEF n
      <4>2. next_prime(n) \in Primes
        BY <4>1, NextPrime
      <4> QED BY <4>2 DEF n
    <3>2. pc[t] = "resize"
          /\ \/ pc' = [pc EXCEPT ![t] = "gate"] /\ call' = [call EXCEPT ![t].want = want]
             \/ pc' = [pc EXCEPT ![t] = "lock_table"] /\ UNCHANGED call
      BY <2>3 DEF ResizeCheck
    <3> HIDE DEF want
    <3> QED BY <1>1, <3>1, <3>2
  <2>4. CASE TakeGate(t) \/ ClearBegin(t)
    BY <1>1, <2>4 DEF TakeGate, ClearBegin
  <2>5. CASE RehashBegin(t)
    <3>1. call[t].key \in Key /\ call[t].want \in Primes /\ UNCHANGED <<bucketsSize, call>>
      BY <1>1, <2>5 DEF RehashBegin
    <3>2. CASE StillTooSmall(t)
      <4>1. <<>> \in Seq(Key)
        OBVIOUS
      <4>2. tmp' \in [0 .. call[t].want - 1 -> Seq(Key)] /\ pc' = [pc EXCEPT ![t] = "rehash"]
        BY <2>5, <3>2, <4>1 DEF RehashBegin, EmptyBuckets
      <4> QED BY <1>1, <3>1, <3>2, <4>2 DEF StillTooSmall
    <3>3. CASE ~StillTooSmall(t)
      BY <1>1, <2>5, <3>1, <3>3 DEF RehashBegin
    <3> QED BY <3>2, <3>3
  <2>6. CASE RehashMove(t)
    <3> DEFINE k == Head(buckets[FirstUsed(buckets)])
               i == NewIndex(t, k)
    <3>1. pc[t] = "rehash" /\ UNCHANGED <<pc, call, bucketsSize>>
          /\ tmp' = PushFront(tmp, i, k) /\ KeysIn(buckets) # {}
      BY <2>6 DEF RehashMove, locks
    <3>2. k \in Key
      <4>1. bucketsSize \in Nat
        BY <1>1, PrimeIsNat
      <4>2. FirstUsed(buckets) \in 0 .. bucketsSize - 1 /\ buckets[FirstUsed(buckets)] # <<>>
        BY <1>1, <3>1, <4>1, FirstUsedBucket
      <4>3. buckets[FirstUsed(buckets)] \in Seq(Key)
        BY <1>1, <4>2
      <4> QED BY <4>2, <4>3, PoppedChain
    <3> HIDE DEF k, i
    <3>3. tmp \in [0 .. call[t].want - 1 -> Seq(Key)]
      BY <1>1, <3>1
    <3>4. i \in DOMAIN tmp => <<k>> \o tmp[i] \in Seq(Key)
      BY <3>2, <3>3, PushedChain
    <3>5. tmp' \in [0 .. call[t].want - 1 -> Seq(Key)]
      BY <3>1, <3>3, <3>4 DEF PushFront
    <3> QED BY <1>1, <3>1, <3>5
  <2>7. CASE RehashEnd(t)
    BY <1>1, <2>7 DEF RehashEnd
  <2>8. CASE RehashThrow(t) \/ UnwindOne(t) \/ ClearOne(t)
    BY <1>1, <2>8 DEF RehashThrow, UnwindOne, ClearOne, locks
  <2>9. CASE UnwindEnd(t) \/ ClearEnd(t) \/ UnlockTable(t) \/ IterEnd(t)
    BY <1>1, <2>9 DEF UnwindEnd, ClearEnd, UnlockTable, IterEnd, Return
  <2>10. CASE LockTable(t) \/ LockBucket(t)
    BY <1>1, <2>10 DEF LockTable, LockBucket
  <2>11. CASE Find(t) \/ AddNode(t)
    BY <1>1, <2>11 DEF Find, AddNode
  <2>12. CASE UnlockBucket(t) \/ Release(t) \/ Erase(t) \/ IterTable(t)
    BY <1>1, <2>12 DEF UnlockBucket, Release, Erase, IterTable
  <2>13. CASE Write(t) \/ EraseSearch(t) \/ IterFound(t)
    BY <1>1, <2>13 DEF Write, EraseSearch, IterFound, vars
  <2>14. CASE EraseNode(t)
    BY <1>1, <2>14 DEF EraseNode
  <2>15. CASE IterBucket(t) \/ IterNext(t)
    BY <1>1, <2>15 DEF IterBucket, IterNext
  <2> QED BY <2>1, <2>2, <2>3, <2>4, <2>5, <2>6, <2>7, <2>8, <2>9, <2>10, <2>11, <2>12, <2>13, <2>14, <2>15
          DEF Call, Progress, Choice
<1> QED BY <1>2, <1>3 DEF CallsReady

(* Indices stay inside the table: a size changes only while no thread      *)
(* shares it, and each index is made for the size that its reader sees.    *)
LEMMA IndexStep ==
    ASSUME IInv, NEW t \in Thread, Call(t) \/ Progress(t) \/ Choice(t)
    PROVE  IndexInTable'
<1> DEFINE InTable(u) == pc[u] \in {"lock_bucket"} \cup BucketSteps => acc[u].index \in 0 .. bucketsSize - 1
<1>1. Shape /\ CallsReady /\ LocksMatchSteps /\ WriterAlone /\ \A u \in Thread : InTable(u)
    BY DEF IInv, IndexInTable
<1>2. bucketsSize \in Nat /\ bucketsSize > 0
    BY <1>1, PrimeIsNat DEF Shape
<1>3. ASSUME NEW u \in Thread, u # t PROVE InTable(u)'
  <2>1. pc'[u] = pc[u] /\ acc'[u] = acc[u]
    BY <1>1, <1>3, OneThreadMoves
  <2>2. pc[u] \in {"lock_bucket"} \cup BucketSteps => UNCHANGED bucketsSize
    BY <1>1, OnlyWriterRebuilds DEF LocksMatchSteps, WriterAlone, SharedSteps, ExclusiveSteps
  <2> QED BY <1>1, <2>1, <2>2
<1>4. InTable(t)'
  <2> USE DEF Shape, AccType, Goto, BucketSteps, AccessorSteps
  <2>1. CASE Call(t)
    BY <1>1, <2>1 DEF Call, CallElement, CallClear, CallIterate
  <2>2. CASE ResizeCheck(t) \/ TakeGate(t) \/ ClearBegin(t) \/ RehashBegin(t) \/ RehashMove(t) \/ RehashEnd(t)
             \/ RehashThrow(t) \/ UnwindOne(t) \/ ClearOne(t)
    BY <1>1, <2>2 DEF ResizeCheck, TakeGate, ClearBegin, RehashBegin, RehashMove, RehashEnd, RehashThrow,
           UnwindOne, ClearOne, locks
  <2>3. CASE UnwindEnd(t) \/ ClearEnd(t) \/ UnlockTable(t) \/ IterEnd(t)
    BY <1>1, <2>3 DEF UnwindEnd, ClearEnd, UnlockTable, IterEnd, Return
  <2>4. CASE LockTable(t)
    <3> DEFINE i == get_bucket_index(call[t].key, bucketsSize)
    <3>1. call[t].key \in Key
      BY <1>1, <2>4 DEF LockTable, CallsReady
    <3>2. i \in 0 .. bucketsSize - 1
      BY <1>2, <3>1, IndexInRange
    <3>3. acc' = [acc EXCEPT ![t].index = i] /\ UNCHANGED bucketsSize
      BY <2>4 DEF LockTable, table
    <3> HIDE DEF i
    <3> QED BY <1>1, <3>2, <3>3
  <2>5. CASE LockBucket(t) \/ UnlockBucket(t) \/ Release(t) \/ Erase(t) \/ Write(t) \/ EraseSearch(t)
             \/ IterFound(t)
    BY <1>1, <2>5 DEF LockBucket, UnlockBucket, Release, Erase, Write, EraseSearch, IterFound, vars, table
  <2>6. CASE Find(t) \/ AddNode(t)
    BY <1>1, <2>6, SMTT(30) DEF Find, AddNode, table, CallsReady
  <2>7. CASE IterTable(t)
    BY <1>1, <2>7 DEF IterTable
  <2>8. CASE IterBucket(t)
    <3> DEFINE k == Head(buckets[acc[t].index])
    <3>1. acc[t].index \in 0 .. bucketsSize - 1 /\ UNCHANGED bucketsSize
      BY <1>1, <1>2, <2>8 DEF IterBucket, table
    <3>2. acc' = [acc EXCEPT ![t].node = k] \/ pc' = pc
      BY <2>8 DEF IterBucket
    <3>3. pc[t] = "iter_bucket"
      BY <2>8 DEF IterBucket
    <3>4. CASE pc' = pc
      BY <3>3, <3>4
    <3>5. CASE acc' = [acc EXCEPT ![t].node = k]
      <4>1. acc'[t].index = acc[t].index
        BY <1>1, <3>5
      <4> QED BY <3>1, <4>1
    <3> QED BY <3>2, <3>4, <3>5
  <2>9. CASE IterNext(t) \/ EraseNode(t)
    <3> DEFINE k == Successor(t)
    <3>1. /\ acc[t].index \in 0 .. bucketsSize - 1
          /\ UNCHANGED bucketsSize
      BY <1>1, <2>9 DEF IterNext, EraseNode, table
    <3>2. \/ acc' = [acc EXCEPT ![t].node = k]
          \/ pc' = [pc EXCEPT ![t] = "iter_bucket"]
          \/ pc' = [pc EXCEPT ![t] = "unlock_table"]
      BY <2>9 DEF IterNext, EraseNode
    <3> HIDE DEF k
    <3>3. CASE acc' = [acc EXCEPT ![t].node = k]
      <4>1. acc'[t].index = acc[t].index
        BY <1>1, <3>3
      <4> QED BY <3>1, <4>1
    <3>4. CASE pc' = [pc EXCEPT ![t] = "iter_bucket"] \/ pc' = [pc EXCEPT ![t] = "unlock_table"]
      BY <1>1, <3>4
    <3> QED BY <3>2, <3>3, <3>4
  <2> QED BY <2>1, <2>2, <2>3, <2>4, <2>5, <2>6, <2>7, <2>8, <2>9 DEF Progress, Choice
<1> QED BY <1>3, <1>4 DEF IndexInTable

(* A chain changes only in the hands of the thread that has its bucket, or *)
(* of one that has the whole table.                                        *)
LEMMA OnlyOwnerChanges ==
    ASSUME Shape, IndexInTable, NEW t \in Thread, Call(t) \/ Progress(t) \/ Choice(t)
    PROVE  \/ pc[t] \in ExclusiveSteps
           \/ UNCHANGED buckets
           \/ /\ pc[t] \in {"add", "erase"} /\ DOMAIN buckets' = DOMAIN buckets
              /\ \A i \in DOMAIN buckets : i # acc[t].index => buckets'[i] = buckets[i]
<1>1. CASE Call(t) \/ Choice(t)
    BY <1>1 DEF Call, Choice, CallElement, CallClear, CallIterate, Write, Erase, IterFound, RehashThrow, table
<1>2. CASE ResizeCheck(t) \/ TakeGate(t) \/ ClearBegin(t) \/ RehashBegin(t) \/ LockTable(t) \/ LockBucket(t)
           \/ Find(t) \/ UnlockBucket(t) \/ UnlockTable(t) \/ EraseSearch(t) \/ IterTable(t) \/ IterBucket(t)
           \/ IterEnd(t) \/ Release(t) \/ IterNext(t)
    BY <1>2 DEF ResizeCheck, TakeGate, ClearBegin, RehashBegin, LockTable, LockBucket, Find, UnlockBucket,
           UnlockTable, EraseSearch, IterTable, IterBucket, IterEnd, Release, IterNext, table, vars
<1>3. CASE ClearOne(t) \/ ClearEnd(t) \/ RehashMove(t) \/ RehashEnd(t) \/ UnwindOne(t) \/ UnwindEnd(t)
    BY <1>3 DEF ClearOne, ClearEnd, RehashMove, RehashEnd, UnwindOne, UnwindEnd, ExclusiveSteps
<1>4. CASE AddNode(t) \/ EraseNode(t)
    BY <1>4 DEF AddNode, EraseNode, PushFront, Shape
<1> QED BY <1>1, <1>2, <1>3, <1>4 DEF Progress

(* No accessor is left dangling.                                           *)
LEMMA LiveStep ==
    ASSUME IInv, NEW t \in Thread, Call(t) \/ Progress(t) \/ Choice(t)
    PROVE  AccessorsLive'
<1> DEFINE Live(u) == pc[u] \in AccessorSteps => acc[u].node \in ToSet(Chain(u))
<1>1. Shape /\ CallsReady /\ IndexInTable /\ LocksMatchSteps /\ WriterAlone /\ AccessorsLive
      /\ \A u \in Thread : Live(u)
    BY DEF IInv, AccessorsLive
<1>2. Shape' /\ IndexInTable' /\ LocksMatchSteps'
    BY ShapeStep, IndexStep, LocksStep
<1>3. ASSUME NEW u \in Thread, u # t PROVE Live(u)'
  <2> SUFFICES ASSUME pc'[u] \in AccessorSteps PROVE acc'[u].node \in ToSet(Chain(u)')
    OBVIOUS
  <2>1. pc[u] \in AccessorSteps /\ pc'[u] = pc[u] /\ acc'[u] = acc[u]
    BY <1>1, <1>3, OneThreadMoves
  <2>2. pc[t] \notin ExclusiveSteps
    BY <1>1, <2>1 DEF LocksMatchSteps, WriterAlone, SharedSteps, BucketSteps
  <2>3. acc[u].index \in DOMAIN buckets /\ bmutex[acc[u].index] = u
    BY <1>1, <2>1 DEF AccessorsLive
  <2>4. pc[t] \in {"add", "erase"} => acc[t].index # acc[u].index
    <3>1. pc[t] \in {"add", "erase"} => bmutex[acc[t].index] = t
      BY <1>1 DEF LocksMatchSteps, IndexInTable, BucketSteps, AccessorSteps, Shape
    <3> QED BY <1>3, <2>3, <3>1
  <2>5. buckets'[acc[u].index] = buckets[acc[u].index]
    BY <1>1, <2>2, <2>3, <2>4, OnlyOwnerChanges
  <2> QED BY <1>1, <2>1, <2>5 DEF Chain
<1>4. Live(t)'
  <2> SUFFICES ASSUME pc'[t] \in AccessorSteps PROVE acc'[t].node \in ToSet(Chain(t)')
    OBVIOUS
  <2> USE DEF Shape, AccType, Goto, AccessorSteps
  <2>1. CASE Call(t) \/ ResizeCheck(t) \/ TakeGate(t) \/ ClearBegin(t) \/ RehashBegin(t) \/ RehashMove(t)
             \/ RehashEnd(t) \/ RehashThrow(t) \/ UnwindOne(t) \/ ClearOne(t)
    BY <1>1, <2>1 DEF Call, CallElement, CallClear, CallIterate, ResizeCheck, TakeGate, ClearBegin,
           RehashBegin, RehashMove, RehashEnd, RehashThrow, UnwindOne, ClearOne, locks
  <2>2. CASE UnwindEnd(t) \/ ClearEnd(t) \/ UnlockTable(t) \/ IterEnd(t) \/ LockTable(t) \/ LockBucket(t)
             \/ UnlockBucket(t) \/ Release(t) \/ IterTable(t)
    BY <1>1, <2>2 DEF UnwindEnd, ClearEnd, UnlockTable, IterEnd, Return, LockTable, LockBucket,
           UnlockBucket, Release, IterTable
  <2>3. CASE Erase(t) \/ Write(t) \/ EraseSearch(t) \/ IterFound(t)
    BY <1>1, <2>3 DEF Erase, Write, EraseSearch, IterFound, vars, table, Chain
  <2>4. CASE Find(t)
    BY <1>1, <2>4, ZenonT(60) DEF Find, Chain, table, CallsReady
  <2>5. CASE AddNode(t)
    <3> DEFINE k == call[t].key
               i == acc[t].index
    <3>1. k \in Key /\ i \in 0 .. bucketsSize - 1 /\ buckets[i] \in Seq(Key)
      BY <1>1, <2>5 DEF AddNode, CallsReady, IndexInTable, BucketSteps
    <3>2. acc' = [acc EXCEPT ![t].node = k] /\ buckets' = [buckets EXCEPT ![i] = <<k>> \o buckets[i]]
      BY <2>5 DEF AddNode, PushFront
    <3>3. k \in ToSet(<<k>> \o buckets[i])
      BY <3>1, PushedChain
    <3> HIDE DEF k
    <3>4. acc'[t].node = k /\ acc'[t].index = i
      BY <1>1, <3>2
    <3> QED BY <1>1, <3>1, <3>2, <3>3, <3>4 DEF Chain
  <2>6. CASE IterBucket(t)
    <3> DEFINE i == acc[t].index
               k == Head(buckets[i])
    <3>1. i \in 0 .. bucketsSize - 1 /\ UNCHANGED buckets
      BY <1>1, <2>6, PrimeIsNat DEF IterBucket, table
    <3>2. acc' = [acc EXCEPT ![t].node = k] /\ buckets[i] # <<>>
      BY <1>1, <2>6 DEF IterBucket
    <3>3. k \in ToSet(buckets[i]) /\ k \in Key
      BY <1>1, <3>1, <3>2, PoppedChain
    <3> HIDE DEF k
    <3>4. acc'[t].node = k /\ acc'[t].index = i
      BY <1>1, <3>2
    <3> QED BY <3>1, <3>3, <3>4 DEF Chain
  <2>7. CASE IterNext(t)
    <3> DEFINE k == Successor(t)
    <3>1. acc' = [acc EXCEPT ![t].node = k] /\ k # None /\ UNCHANGED buckets
      BY <1>1, <2>7 DEF IterNext, table
    <3>2. k \in ToSet(Chain(t))
      BY <1>1, <2>7, <3>1, AccessorChain DEF IterNext
    <3> HIDE DEF k
    <3>3. acc'[t].node = k /\ acc'[t].index = acc[t].index
      BY <1>1, <3>1
    <3> QED BY <3>1, <3>2, <3>3 DEF Chain
  <2>8. CASE EraseNode(t)
    <3> DEFINE k == Successor(t)
               i == acc[t].index
               rest == RemoveAt(Chain(t), Position(t))
    <3>1. acc' = [acc EXCEPT ![t].node = k] /\ k # None
          /\ buckets' = [buckets EXCEPT ![i] = rest]
      BY <1>1, <2>8 DEF EraseNode, Chain
    <3>2. k \in ToSet(rest) /\ i \in 0 .. bucketsSize - 1
      BY <1>1, <2>8, <3>1, AccessorChain DEF EraseNode
    <3> HIDE DEF k, rest
    <3>3. acc'[t].node = k /\ acc'[t].index = i
      BY <1>1, <3>1
    <3> QED BY <1>1, <3>1, <3>2, <3>3 DEF Chain
  <2> QED BY <2>1, <2>2, <2>3, <2>4, <2>5, <2>6, <2>7, <2>8 DEF Progress, Choice
<1>5. \A u \in Thread : Live(u)'
    BY <1>3, <1>4
<1>6. ASSUME NEW u \in Thread, pc'[u] \in AccessorSteps
      PROVE  acc'[u].index \in DOMAIN buckets' /\ bmutex'[acc'[u].index] = u
    BY <1>2, <1>6 DEF Shape, IndexInTable, LocksMatchSteps, BucketSteps
<1> QED BY <1>5, <1>6 DEF AccessorsLive

-----------------------------------------------------------------------------

(* The inductive invariant holds of every behaviour.                       *)
LEMMA Invariance == Spec => []IInv
<1>1. IInv /\ [Next]_vars => IInv'
  <2>1. ASSUME IInv, NEW t \in Thread, Call(t) \/ Progress(t) \/ Choice(t) PROVE IInv'
    BY <2>1, ShapeStep, ReadyStep, IndexStep, LocksStep, AloneStep, LiveStep DEF IInv
  <2>2. ASSUME IInv, UNCHANGED vars PROVE IInv'
    BY <2>2 DEF IInv, vars, table, locks, Shape, CallsReady, IndexInTable, LocksMatchSteps, WriterAlone,
           AccessorsLive, Chain
  <2> QED BY <2>1, <2>2 DEF Next
<1> QED BY InitIInv, <1>1, PTL DEF Spec

(* Locks are never leaked and never given back twice: whatever a call does *)
(* or throws, each lock is held by the threads whose step says so.         *)
THEOREM LocksHeld == Spec => []LocksMatchSteps
BY Invariance, PTL DEF IInv

(* A rehash, its unwinding and clear() have the table to themselves.       *)
THEOREM ExclusiveAlone == Spec => []WriterAlone
BY Invariance, PTL DEF IInv

(* An accessor's node is never freed, moved or shared under its owner.     *)
THEOREM NoDanglingAccessor == Spec => []AccessorsLive
BY Invariance, PTL DEF IInv

(* The array of bucket mutexes is replaced only when all are free, and by  *)
(* a larger one: resize's second look at the size makes sure of it.        *)
THEOREM MutexArraySafe == Spec => MutexArrayReplacedFree
<1> DEFINE Replaced == DOMAIN bmutex' # DOMAIN bmutex =>
                           /\ \A i \in DOMAIN bmutex : bmutex[i] = None
                           /\ bucketsSize' > bucketsSize
<1>1. ASSUME IInv, NEW t \in Thread, Call(t) \/ Progress(t) \/ Choice(t) PROVE Replaced
  <2>1. Shape /\ Shape'
    BY <1>1, ShapeStep DEF IInv
  <2>2. CASE UNCHANGED bucketsSize
    BY <2>1, <2>2 DEF Shape
  <2>3. CASE pc[t] = "rehash" /\ RehashEnd(t)
    <3>1. bucketsSize' > bucketsSize
      BY <1>1, <2>3 DEF RehashEnd, SwapBuckets, IInv, CallsReady
    <3>2. readers = {}
      BY <1>1, <2>3 DEF IInv, WriterAlone, ExclusiveSteps
    <3>3. \A i \in DOMAIN bmutex : bmutex[i] = None
      BY <1>1, <2>1, <3>2 DEF IInv, LocksMatchSteps, Shape, SharedSteps
    <3> QED BY <3>1, <3>3
  <2> QED BY <1>1, <2>2, <2>3, OnlyWriterRebuilds
<1>2. IInv /\ [Next]_vars => [Replaced]_vars
    BY <1>1 DEF Next
<1> QED BY <1>2, Invariance, PTL DEF Spec, MutexArrayReplacedFree

-----------------------------------------------------------------------------

(* The second inductive invariant, on top of IInv.  HomeBuckets needs the  *)
(* index of an insertion to be the one of the present size; the vector of  *)
(* a rehash is the only other place of a node, and empty without one.      *)
HomeIndex ==
    \A t \in Thread :
        pc[t] \in {"lock_bucket", "find", "add"} =>
            acc[t].index = get_bucket_index(call[t].key, bucketsSize)

TmpVector == \E n \in Nat : tmp \in [0 .. n - 1 -> Seq(Key)]

TmpIdle == KeysIn(tmp) = {} \/ \E t \in Thread : pc[t] \in {"rehash", "unwind"}

HInv == HomeIndex /\ TmpVector /\ TmpIdle /\ HomeBuckets

InHome(vector) ==
    \A i \in DOMAIN vector : \A k \in ToSet(vector[i]) :
        get_bucket_index(k, Cardinality(DOMAIN vector)) = i

-----------------------------------------------------------------------------

(* The number of buckets of a vector.                                      *)
LEMMA VectorSize ==
    ASSUME NEW n \in Nat
    PROVE  Cardinality(0 .. n - 1) = n
<1>1. CASE n = 0
  <2>1. 0 .. n - 1 = {}
    BY <1>1
  <2> QED BY <1>1, <2>1, FS_EmptySet
<1>2. CASE n # 0
  <2>1. 0 \in Int /\ n - 1 \in Int /\ ~(0 > n - 1) /\ (n - 1) - 0 + 1 = n
    BY <1>2
  <2>2. Cardinality(0 .. n - 1) = IF 0 > n - 1 THEN 0 ELSE (n - 1) - 0 + 1
    BY <2>1, FS_Interval
  <2> QED BY <2>1, <2>2
<1> QED BY <1>1, <1>2

(* A vector of empty chains has no node in a wrong place.                  *)
LEMMA EmptyVector ==
    ASSUME NEW n \in Nat
    PROVE  /\ EmptyBuckets(n) \in [0 .. n - 1 -> Seq(Key)]
           /\ KeysIn(EmptyBuckets(n)) = {} /\ InHome(EmptyBuckets(n))
<1>1. <<>> \in Seq(Key) /\ ToSet(<<>>) = {}
    BY DEF ToSet
<1> QED BY <1>1 DEF EmptyBuckets, KeysIn, InHome

(* A change of one chain that adds nothing, or a node at home.             *)
LEMMA ChainChanged ==
    ASSUME NEW vector, NEW n \in Nat, vector \in [0 .. n - 1 -> Seq(Key)], InHome(vector),
           NEW i \in 0 .. n - 1, NEW s \in Seq(Key),
           \A k \in ToSet(s) : k \in ToSet(vector[i]) \/ get_bucket_index(k, n) = i
    PROVE  /\ [vector EXCEPT ![i] = s] \in [0 .. n - 1 -> Seq(Key)]
           /\ InHome([vector EXCEPT ![i] = s])
<1> DEFINE changed == [vector EXCEPT ![i] = s]
<1>1. changed \in [0 .. n - 1 -> Seq(Key)] /\ DOMAIN changed = DOMAIN vector
      /\ DOMAIN vector = 0 .. n - 1
      /\ \A j \in 0 .. n - 1 : changed[j] = IF j = i THEN s ELSE vector[j]
    OBVIOUS
<1> HIDE DEF changed
<1>2. Cardinality(DOMAIN vector) = n
    BY <1>1, VectorSize
<1>3. ASSUME NEW j \in DOMAIN changed, NEW k \in ToSet(changed[j])
      PROVE  get_bucket_index(k, Cardinality(DOMAIN changed)) = j
    BY <1>1, <1>2, <1>3 DEF InHome
<1>4. InHome(changed)
    BY <1>3 DEF InHome
<1> QED BY <1>1, <1>4 DEF changed

(* Taking a node from a chain leaves the others where they belong.         *)
LEMMA PopKeepsHome ==
    ASSUME NEW vector, NEW n \in Nat, vector \in [0 .. n - 1 -> Seq(Key)], InHome(vector),
           KeysIn(vector) # {}
    PROVE  /\ PopFront(vector, FirstUsed(vector)) \in [0 .. n - 1 -> Seq(Key)]
           /\ InHome(PopFront(vector, FirstUsed(vector)))
           /\ Head(vector[FirstUsed(vector)]) \in Key
<1> DEFINE i == FirstUsed(vector)
           s == Tail(vector[i])
<1>1. i \in 0 .. n - 1 /\ vector[i] # <<>>
    BY FirstUsedBucket
<1>2. s \in Seq(Key) /\ ToSet(s) \subseteq ToSet(vector[i]) /\ Head(vector[i]) \in Key
    BY <1>1, PoppedChain
<1>3. PopFront(vector, i) = [vector EXCEPT ![i] = s]
    BY DEF PopFront
<1> HIDE DEF i, s
<1>4. [vector EXCEPT ![i] = s] \in [0 .. n - 1 -> Seq(Key)] /\ InHome([vector EXCEPT ![i] = s])
    BY <1>1, <1>2, ChainChanged
<1> QED BY <1>2, <1>3, <1>4 DEF i

(* A node added to its home chain is where it belongs.                     *)
LEMMA PushKeepsHome ==
    ASSUME NEW vector, NEW n \in Nat, vector \in [0 .. n - 1 -> Seq(Key)], InHome(vector),
           NEW i \in 0 .. n - 1, NEW k \in Key, get_bucket_index(k, n) = i
    PROVE  /\ PushFront(vector, i, k) \in [0 .. n - 1 -> Seq(Key)]
           /\ InHome(PushFront(vector, i, k))
<1> DEFINE s == <<k>> \o vector[i]
<1>1. s \in Seq(Key) /\ ToSet(s) = ToSet(vector[i]) \cup {k}
    BY PushedChain
<1>2. PushFront(vector, i, k) = [vector EXCEPT ![i] = s]
    BY DEF PushFront
<1> HIDE DEF s
<1>3. [vector EXCEPT ![i] = s] \in [0 .. n - 1 -> Seq(Key)] /\ InHome([vector EXCEPT ![i] = s])
    BY <1>1, ChainChanged
<1> QED BY <1>2, <1>3

-----------------------------------------------------------------------------

(* The table begins without nodes.                                         *)
LEMMA InitHInv == Init => HInv
<1> SUFFICES ASSUME Init PROVE HInv OBVIOUS
<1>1. next_prime(InitBuckets) \in Nat
    BY NextPrime, PrimeIsNat, InitAssumption
<1>2. buckets = EmptyBuckets(next_prime(InitBuckets)) /\ tmp = EmptyBuckets(0)
    BY DEF Init
<1>3. InHome(buckets) /\ InHome(tmp) /\ tmp \in [0 .. 0 - 1 -> Seq(Key)] /\ KeysIn(tmp) = {}
    BY <1>1, <1>2, EmptyVector
<1>4. HomeBuckets
    BY <1>3 DEF HomeBuckets, InHome
<1>5. HomeIndex
    BY DEF Init, HomeIndex
<1> QED BY <1>3, <1>4, <1>5 DEF HInv, TmpVector, TmpIdle

(* An index stays the one of the present size while its thread shares the  *)
(* table.                                                                  *)
LEMMA HomeIndexStep ==
    ASSUME IInv, HInv, NEW t \in Thread, Call(t) \/ Progress(t) \/ Choice(t)
    PROVE  HomeIndex'
<1> DEFINE Home(u) == pc[u] \in {"lock_bucket", "find", "add"} =>
                          acc[u].index = get_bucket_index(call[u].key, bucketsSize)
<1>1. Shape /\ CallsReady /\ LocksMatchSteps /\ WriterAlone /\ \A u \in Thread : Home(u)
    BY DEF IInv, HInv, HomeIndex
<1>2. ASSUME NEW u \in Thread, u # t PROVE Home(u)'
  <2>1. pc'[u] = pc[u] /\ acc'[u] = acc[u] /\ call'[u] = call[u]
    BY <1>1, <1>2, OneThreadMoves
  <2>2. pc[u] \in {"lock_bucket", "find", "add"} => UNCHANGED bucketsSize
    BY <1>1, OnlyWriterRebuilds DEF LocksMatchSteps, WriterAlone, SharedSteps, BucketSteps, ExclusiveSteps
  <2> QED BY <1>1, <2>1, <2>2
<1>3. Home(t)'
  <2> USE DEF Shape, AccType, Goto
  <2>1. CASE LockTable(t)
    <3> DEFINE i == get_bucket_index(call[t].key, bucketsSize)
    <3>1. acc' = [acc EXCEPT ![t].index = i] /\ UNCHANGED <<bucketsSize, call>>
      BY <2>1 DEF LockTable, table
    <3>2. i = get_bucket_index(call[t].key, bucketsSize)'
      BY <3>1 DEF get_bucket_index
    <3> HIDE DEF i
    <3>3. acc'[t].index = i
      BY <1>1, <3>1
    <3> QED BY <3>2, <3>3
  <2>2. CASE LockBucket(t)
    BY <1>1, <2>2 DEF LockBucket, table
  <2>3. CASE Find(t)
    BY <1>1, <2>3 DEF Find, table
  <2>4. CASE ~(LockTable(t) \/ LockBucket(t) \/ Find(t))
    <3>1. pc'[t] \notin {"lock_bucket", "find", "add"}
      <4> USE DEF Return, vars, locks
      <4>1. CASE Call(t) \/ Choice(t)
        BY <1>1, <4>1 DEF Call, Choice, CallElement, CallClear, CallIterate, Write, Erase, IterFound,
               RehashThrow
      <4>2. CASE ResizeCheck(t) \/ TakeGate(t) \/ ClearBegin(t) \/ ClearOne(t) \/ ClearEnd(t)
        BY <1>1, <4>2 DEF ResizeCheck, TakeGate, ClearBegin, ClearOne, ClearEnd
      <4>3. CASE RehashBegin(t) \/ RehashMove(t) \/ RehashEnd(t) \/ UnwindOne(t) \/ UnwindEnd(t)
        BY <1>1, <4>3 DEF RehashBegin, RehashMove, RehashEnd, UnwindOne, UnwindEnd
      <4>4. CASE AddNode(t) \/ UnlockBucket(t) \/ UnlockTable(t) \/ EraseNode(t) \/ EraseSearch(t)
        BY <1>1, <4>4 DEF AddNode, UnlockBucket, UnlockTable, EraseNode, EraseSearch
      <4>5. CASE IterTable(t) \/ IterBucket(t) \/ IterEnd(t) \/ Release(t) \/ IterNext(t)
        BY <1>1, <4>5 DEF IterTable, IterBucket, IterEnd, Release, IterNext
      <4> QED BY <2>4, <4>1, <4>2, <4>3, <4>4, <4>5 DEF Progress
    <3> QED BY <3>1
  <2> QED BY <2>1, <2>2, <2>3, <2>4
<1> QED BY <1>2, <1>3 DEF HomeIndex

(* Which steps change the vectors at all.                                  *)
LEMMA VectorsKept ==
    ASSUME NEW t \in Thread, Call(t) \/ Progress(t) \/ Choice(t),
           ~(RehashBegin(t) \/ RehashMove(t) \/ RehashEnd(t) \/ UnwindOne(t) \/ UnwindEnd(t)
             \/ ClearOne(t) \/ AddNode(t) \/ EraseNode(t))
    PROVE  UNCHANGED <<buckets, tmp>>
BY DEF Call, Progress, Choice, vars, table, CallElement, CallClear, CallIterate, ResizeCheck, TakeGate,
       ClearBegin, ClearEnd, RehashThrow, LockTable, LockBucket, Find, UnlockBucket, UnlockTable,
       EraseSearch, IterTable, IterBucket, IterEnd, IterNext, IterFound, Write, Release, Erase

(* Every node stays at home, in the vector of a rehash too.                *)
LEMMA HomeStep ==
    ASSUME IInv, HInv, NEW t \in Thread, Call(t) \/ Progress(t) \/ Choice(t)
    PROVE  TmpVector' /\ InHome(buckets)' /\ InHome(tmp)'
<1>1. Shape /\ CallsReady /\ IndexInTable /\ AccessorsLive /\ TmpVector
      /\ InHome(buckets) /\ InHome(tmp) /\ HomeIndex
    BY DEF IInv, HInv, HomeBuckets, InHome
<1>2. bucketsSize \in Nat /\ bucketsSize > 0 /\ buckets \in [0 .. bucketsSize - 1 -> Seq(Key)]
    BY <1>1, PrimeIsNat DEF Shape
<1>3. PICK n \in Nat : tmp \in [0 .. n - 1 -> Seq(Key)]
    BY <1>1 DEF TmpVector
<1>4. UNCHANGED buckets => InHome(buckets)'
    BY <1>1 DEF InHome
<1>5. UNCHANGED tmp => TmpVector' /\ InHome(tmp)'
    BY <1>1 DEF InHome, TmpVector
<1>6. ASSUME NEW m \in Nat, tmp' = EmptyBuckets(m) PROVE TmpVector' /\ InHome(tmp)'
  <2>1. tmp' \in [0 .. m - 1 -> Seq(Key)] /\ InHome(tmp')
    BY <1>6, EmptyVector
  <2> QED BY <2>1 DEF TmpVector, InHome
<1>7. CASE RehashBegin(t)
  <2>1. call[t].want \in Nat
    BY <1>1, <1>7, PrimeIsNat DEF RehashBegin, CallsReady
  <2>2. UNCHANGED buckets /\ (UNCHANGED tmp \/ tmp' = EmptyBuckets(call[t].want))
    BY <1>7 DEF RehashBegin
  <2> QED BY <1>4, <1>5, <1>6, <2>1, <2>2
<1>8. CASE RehashMove(t)
  <2> DEFINE i == FirstUsed(buckets)
             k == Head(buckets[i])
             m == call[t].want
             j == NewIndex(t, k)
  <2>1. /\ KeysIn(buckets) # {} /\ buckets' = PopFront(buckets, i) /\ tmp' = PushFront(tmp, j, k)
        /\ pc[t] = "rehash"
    BY <1>8 DEF RehashMove
  <2>2. InHome(buckets') /\ k \in Key
    BY <1>1, <1>2, <2>1, PopKeepsHome
  <2>3. m \in Nat \ {0} /\ tmp \in [0 .. m - 1 -> Seq(Key)]
    BY <1>1, <2>1, PrimeIsNat DEF CallsReady
  <2>4. j = get_bucket_index(k, m)
    BY DEF NewIndex
  <2> HIDE DEF i, k, m, j
  <2>5. j \in 0 .. m - 1
    BY <2>2, <2>3, <2>4, IndexInRange
  <2>6. tmp' \in [0 .. m - 1 -> Seq(Key)] /\ InHome(tmp')
    BY <1>1, <2>1, <2>2, <2>3, <2>4, <2>5, PushKeepsHome
  <2> QED BY <2>2, <2>3, <2>6 DEF TmpVector, InHome
<1>9. CASE RehashEnd(t)
  <2>1. buckets' = tmp /\ tmp' = EmptyBuckets(0)
    BY <1>9 DEF RehashEnd, SwapBuckets
  <2> QED BY <1>1, <1>6, <2>1 DEF InHome
<1>10. CASE UnwindOne(t)
  <2> DEFINE i == FirstUsed(tmp)
  <2>1. UNCHANGED buckets /\ KeysIn(tmp) # {} /\ tmp' = PopFront(tmp, i)
    BY <1>10 DEF UnwindOne
  <2>2. tmp' \in [0 .. n - 1 -> Seq(Key)] /\ InHome(tmp')
    BY <1>1, <1>3, <2>1, PopKeepsHome
  <2> QED BY <1>4, <2>1, <2>2 DEF TmpVector, InHome
<1>11. CASE UnwindEnd(t)
  <2>1. UNCHANGED buckets /\ tmp' = EmptyBuckets(0)
    BY <1>11 DEF UnwindEnd
  <2> QED BY <1>4, <1>6, <2>1
<1>12. CASE ClearOne(t)
  <2>1. KeysIn(buckets) # {} /\ buckets' = PopFront(buckets, FirstUsed(buckets)) /\ UNCHANGED tmp
    BY <1>12 DEF ClearOne
  <2>2. InHome(buckets')
    BY <1>1, <1>2, <2>1, PopKeepsHome
  <2> QED BY <1>5, <2>1, <2>2 DEF InHome
<1>13. CASE AddNode(t)
  <2> DEFINE i == acc[t].index
             k == call[t].key
  <2>1. buckets' = PushFront(buckets, i, k) /\ UNCHANGED tmp
    BY <1>13 DEF AddNode
  <2>2. i \in 0 .. bucketsSize - 1 /\ k \in Key /\ get_bucket_index(k, bucketsSize) = i
    BY <1>1, <1>13 DEF AddNode, CallsReady, IndexInTable, HomeIndex, BucketSteps
  <2> HIDE DEF i, k
  <2>3. InHome(buckets')
    BY <1>1, <1>2, <2>1, <2>2, PushKeepsHome
  <2> QED BY <1>5, <2>1, <2>3 DEF InHome
<1>14. CASE EraseNode(t)
  <2> DEFINE i == acc[t].index
             s == RemoveAt(buckets[i], Position(t))
  <2>1. buckets' = [buckets EXCEPT ![i] = s] /\ UNCHANGED tmp
    BY <1>14 DEF EraseNode
  <2>2. i \in 0 .. bucketsSize - 1 /\ buckets[i] \in Seq(Key) /\ Position(t) \in 1 .. Len(buckets[i])
    BY <1>1, <1>14, AccessorChain DEF EraseNode, AccessorSteps, Chain
  <2>3. s \in Seq(Key) /\ ToSet(s) \subseteq ToSet(buckets[i])
    BY <2>2, RemovedChain
  <2> HIDE DEF i, s
  <2>4. InHome(buckets')
    BY <1>1, <1>2, <2>1, <2>2, <2>3, ChainChanged
  <2> QED BY <1>5, <2>1, <2>4 DEF InHome
<1> QED BY <1>4, <1>5, <1>7, <1>8, <1>9, <1>10, <1>11, <1>12, <1>13, <1>14, VectorsKept

(* No node is outside the table unless a rehash is under way.              *)
LEMMA TmpIdleStep ==
    ASSUME IInv, HInv, NEW t \in Thread, Call(t) \/ Progress(t) \/ Choice(t)
    PROVE  TmpIdle'
<1>1. Shape /\ LocksMatchSteps /\ TmpIdle /\ TmpVector
    BY DEF IInv, HInv
<1> USE DEF Goto, Return, Shape
<1>2. CASE RehashBegin(t)
  <2>1. CASE pc'[t] = "rehash"
    BY <2>1 DEF TmpIdle
  <2>2. CASE pc'[t] # "rehash"
    <3>1. UNCHANGED tmp /\ pc[t] = "drain"
      BY <1>1, <1>2, <2>2 DEF RehashBegin
    <3>2. \A u \in Thread : pc[u] \notin {"rehash", "unwind"}
      BY <1>1, <3>1, OneWriter DEF ExclusiveSteps
    <3>3. KeysIn(tmp) = {}
      BY <1>1, <3>2 DEF TmpIdle
    <3> QED BY <3>1, <3>3 DEF TmpIdle, KeysIn
  <2> QED BY <2>1, <2>2
<1>3. CASE RehashMove(t) \/ UnwindOne(t) \/ RehashThrow(t)
  <2>1. pc'[t] \in {"rehash", "unwind"}
    BY <1>1, <1>3 DEF RehashMove, UnwindOne, RehashThrow
  <2> QED BY <2>1 DEF TmpIdle
<1>4. CASE RehashEnd(t) \/ UnwindEnd(t)
  <2>1. tmp' = EmptyBuckets(0)
    BY <1>4 DEF RehashEnd, UnwindEnd
  <2>2. KeysIn(tmp') = {}
    BY <2>1, EmptyVector
  <2> QED BY <2>2 DEF TmpIdle, KeysIn
<1>5. CASE ~(RehashBegin(t) \/ RehashMove(t) \/ RehashEnd(t) \/ RehashThrow(t)
             \/ UnwindOne(t) \/ UnwindEnd(t))
  <2>1. UNCHANGED tmp
    BY <1>5, VectorsKept DEF ClearOne, AddNode, EraseNode
  <2>2. ASSUME NEW u \in Thread, pc[u] \in {"rehash", "unwind"} PROVE pc'[u] = pc[u]
    <3>1. pc[t] \in {"rehash", "unwind"} => FALSE
      BY <1>5 DEF Call, Progress, Choice, vars, CallElement, CallClear, CallIterate, ResizeCheck, TakeGate,
             ClearBegin, ClearOne, ClearEnd, LockTable, LockBucket, Find, AddNode, UnlockBucket,
             UnlockTable, EraseNode, EraseSearch, IterTable, IterBucket, IterEnd, IterNext, IterFound,
             Write, Release, Erase
    <3> QED BY <1>1, <2>2, <3>1, OneThreadMoves
  <2>3. CASE KeysIn(tmp) = {}
    BY <2>1, <2>3 DEF TmpIdle, KeysIn
  <2>4. CASE \E u \in Thread : pc[u] \in {"rehash", "unwind"}
    BY <2>2, <2>4 DEF TmpIdle
  <2> QED BY <1>1, <2>3, <2>4 DEF TmpIdle
<1> QED BY <1>2, <1>3, <1>4, <1>5

(* Nodes are at home in every state.                                       *)
LEMMA HInvariance == Spec => [](IInv /\ HInv)
<1>1. IInv /\ IInv' /\ HInv /\ [Next]_vars => HInv'
  <2>1. ASSUME IInv, HInv, NEW t \in Thread, Call(t) \/ Progress(t) \/ Choice(t) PROVE HInv'
    <3>1. HomeBuckets'
      BY <2>1, HomeStep DEF HomeBuckets, InHome
    <3> QED BY <2>1, <3>1, HomeIndexStep, HomeStep, TmpIdleStep DEF HInv
  <2>2. ASSUME HInv, UNCHANGED vars PROVE HInv'
    BY <2>2 DEF HInv, vars, table, HomeIndex, TmpVector, TmpIdle, HomeBuckets, KeysIn, get_bucket_index
  <2> QED BY <2>1, <2>2 DEF Next
<1> QED BY InitHInv, Invariance, <1>1, PTL DEF Spec

-----------------------------------------------------------------------------

(* Every node is in the bucket where a lookup searches for it, through     *)
(* rehash, failed rehash, erase and clear.                                 *)
THEOREM NodesAtHome == Spec => []HomeBuckets
BY HInvariance, PTL DEF HInv

(* A null accessor is the truth: get returns one only for a key that is    *)
(* nowhere in the table, and insert only for one that is somewhere.        *)
THEOREM NullIsTrue == Spec => NullMeansAbsent
<1> DEFINE Truthful == \A t \in Thread : pc[t] = "find" /\ pc'[t] = "unlock_bucket" =>
                           (call[t].type = "get" <=> call[t].key \notin Present)
<1>1. ASSUME IInv, HInv, NEW t \in Thread, Call(t) \/ Progress(t) \/ Choice(t) PROVE Truthful
  <2> SUFFICES ASSUME NEW u \in Thread, pc[u] = "find", pc'[u] = "unlock_bucket"
               PROVE  call[u].type = "get" <=> call[u].key \notin Present
    OBVIOUS
  <2> DEFINE k == call[u].key
             i == acc[u].index
             found == k \in ToSet(buckets[i])
  <2>1. u = t
    BY <1>1, OneThreadMoves DEF IInv
  <2>2. Find(t)
    BY <1>1, <2>1 DEF Call, Progress, Choice, vars, CallElement, CallClear, CallIterate, ResizeCheck, TakeGate,
           ClearBegin, ClearOne, ClearEnd, RehashBegin, RehashMove, RehashEnd, RehashThrow, UnwindOne, UnwindEnd,
           LockTable, LockBucket, AddNode, UnlockBucket, UnlockTable, EraseNode, EraseSearch, IterTable,
           IterBucket, IterEnd, IterNext, IterFound, Write, Release, Erase
  <2>3. IF found THEN call[u].type = "insert" ELSE call[u].type = "get"
    BY <1>1, <2>1, <2>2 DEF Find, Goto, IInv, Shape
  <2>4. KeysIn(tmp) = {}
    BY <1>1 DEF IInv, HInv, TmpIdle, LocksMatchSteps, WriterAlone, ExclusiveSteps, SharedSteps, BucketSteps
  <2>5. i \in DOMAIN buckets /\ i = get_bucket_index(k, bucketsSize)
        /\ Cardinality(DOMAIN buckets) = bucketsSize
    <3>1. bucketsSize \in Nat /\ DOMAIN buckets = 0 .. bucketsSize - 1
      BY <1>1, PrimeIsNat DEF IInv, Shape
    <3> QED BY <1>1, <3>1, VectorSize DEF IInv, HInv, IndexInTable, HomeIndex, BucketSteps
  <2>6. k \in KeysIn(buckets) <=> found
    BY <1>1, <2>5 DEF HInv, HomeBuckets, KeysIn
  <2> QED BY <2>3, <2>4, <2>6 DEF Present
<1>2. IInv /\ HInv /\ [Next]_vars => [Truthful]_vars
    BY <1>1 DEF Next
<1> QED BY <1>2, HInvariance, PTL DEF Spec, NullMeansAbsent

-----------------------------------------------------------------------------

(* The third inductive invariant, on top of IInv and HInv.  A key that is  *)
(* about to be added is absent: the lookup missed it in its home bucket,   *)
(* whose mutex the thread has owned since.                                 *)
Chains(vector) == \A i \in DOMAIN vector : IsInjective(vector[i])

Apart == KeysIn(buckets) \cap KeysIn(tmp) = {}

AddsAbsent == \A t \in Thread : pc[t] = "add" => call[t].key \notin Present

Counted == IsFiniteSet(Present) /\ numElements = Cardinality(Present)

ValueFits ==
    /\ value \in [Key -> Val \cup {None}]
    /\ \A k \in Present : value[k] \in Val

WantsCount == \A t \in Thread : call[t].want \in Nat

KInv == Chains(buckets) /\ Chains(tmp) /\ Apart /\ AddsAbsent /\ Counted /\ ValueFits /\ WantsCount

(* What a step can do to the elements.                                     *)
Adds(k) ==
    /\ k \in Key \ Present
    /\ Present' = Present \cup {k}
    /\ numElements' = numElements + 1
    /\ \E v \in Val : value' = [value EXCEPT ![k] = v]

Removes(k) ==
    /\ k \in Present
    /\ Present' = Present \ {k}
    /\ numElements' = numElements - 1
    /\ value' = [value EXCEPT ![k] = None]

Keeps == Present' = Present /\ UNCHANGED numElements

-----------------------------------------------------------------------------

(* A vector with one node less than another, and with one more.            *)
Takes(changed, vector, k) ==
    /\ k \in KeysIn(vector)
    /\ KeysIn(changed) = KeysIn(vector) \ {k}
    /\ Chains(changed)

Puts(changed, vector, k) ==
    /\ KeysIn(changed) = KeysIn(vector) \cup {k}
    /\ Chains(changed)

(* The keys in a vector after a change of one chain.                       *)
LEMMA KeyTaken ==
    ASSUME NEW vector, NEW n \in Nat, vector \in [0 .. n - 1 -> Seq(Key)], InHome(vector), Chains(vector),
           NEW i \in 0 .. n - 1, NEW k, k \in ToSet(vector[i]), NEW s \in Seq(Key), Loses(s, vector[i], k)
    PROVE  Takes([vector EXCEPT ![i] = s], vector, k)
<1> DEFINE changed == [vector EXCEPT ![i] = s]
<1>1. DOMAIN changed = 0 .. n - 1 /\ DOMAIN vector = 0 .. n - 1
      /\ \A j \in 0 .. n - 1 : changed[j] = IF j = i THEN s ELSE vector[j]
    OBVIOUS
<1>2. IsInjective(s) /\ ToSet(s) = ToSet(vector[i]) \ {k}
    BY DEF Loses
<1> HIDE DEF changed
<1>3. \A j \in 0 .. n - 1 : j # i => k \notin ToSet(vector[j])
    BY <1>1 DEF InHome
<1>4. \A x : x \in KeysIn(changed) <=> \E j \in 0 .. n - 1 : x \in ToSet(changed[j])
    BY <1>1 DEF KeysIn
<1>5. \A x : x \in KeysIn(vector) <=> \E j \in 0 .. n - 1 : x \in ToSet(vector[j])
    BY <1>1 DEF KeysIn
<1>6. KeysIn(changed) = KeysIn(vector) \ {k}
    BY <1>1, <1>2, <1>3, <1>4, <1>5
<1>7. Chains(changed)
    BY <1>1, <1>2 DEF Chains
<1> QED BY <1>5, <1>6, <1>7 DEF changed, Takes

LEMMA KeyPut ==
    ASSUME NEW vector, NEW n \in Nat, vector \in [0 .. n - 1 -> Seq(Key)], Chains(vector),
           NEW i \in 0 .. n - 1, NEW k \in Key \ KeysIn(vector)
    PROVE  Puts(PushFront(vector, i, k), vector, k)
<1> DEFINE s == <<k>> \o vector[i]
           changed == PushFront(vector, i, k)
<1>1. DOMAIN changed = 0 .. n - 1 /\ DOMAIN vector = 0 .. n - 1
      /\ \A j \in 0 .. n - 1 : changed[j] = IF j = i THEN s ELSE vector[j]
    BY DEF PushFront
<1>2. \A x : x \in KeysIn(vector) <=> \E j \in 0 .. n - 1 : x \in ToSet(vector[j])
    BY DEF KeysIn
<1>3. ToSet(s) = ToSet(vector[i]) \cup {k}
    BY PushedChain
<1>4. IsInjective(s)
    BY <1>2, PushedDistinct DEF Chains
<1> HIDE DEF s, changed
<1>5. \A x : x \in KeysIn(changed) <=> \E j \in 0 .. n - 1 : x \in ToSet(changed[j])
    BY <1>1 DEF KeysIn
<1>6. KeysIn(changed) = KeysIn(vector) \cup {k}
    BY <1>1, <1>2, <1>3, <1>5
<1>7. Chains(changed)
    BY <1>1, <1>4 DEF Chains
<1> QED BY <1>6, <1>7 DEF changed, Puts

LEMMA KeyPopped ==
    ASSUME NEW vector, NEW n \in Nat, vector \in [0 .. n - 1 -> Seq(Key)], InHome(vector), Chains(vector),
           KeysIn(vector) # {}, NEW k, k = Head(vector[FirstUsed(vector)])
    PROVE  Takes(PopFront(vector, FirstUsed(vector)), vector, k)
<1> DEFINE i == FirstUsed(vector)
           s == Tail(vector[i])
<1>1. i \in 0 .. n - 1 /\ vector[i] # <<>> /\ vector[i] \in Seq(Key)
    BY FirstUsedBucket
<1>2. s \in Seq(Key) /\ k \in ToSet(vector[i]) /\ Loses(s, vector[i], k)
    BY <1>1, PoppedChain, PoppedDistinct DEF Chains
<1>3. PopFront(vector, i) = [vector EXCEPT ![i] = s]
    BY DEF PopFront
<1> HIDE DEF i, s
<1>4. Takes([vector EXCEPT ![i] = s], vector, k)
    BY <1>1, <1>2, KeyTaken
<1> QED BY <1>3, <1>4 DEF i

(* A vector with distinct keys at home has as many nodes as keys.          *)
LEMMA NodesAreKeys ==
    ASSUME NEW vector, NEW n \in Nat, vector \in [0 .. n - 1 -> Seq(Key)], InHome(vector), Chains(vector),
           IsFiniteSet(KeysIn(vector))
    PROVE  Cardinality(Nodes(vector)) = Cardinality(KeysIn(vector))
<1> DEFINE N == Nodes(vector)
           K == KeysIn(vector)
           f == [x \in N |-> vector[x[1]][x[2]]]
<1>1. \A x : x \in N <=> \E i \in 0 .. n - 1 : \E p \in DOMAIN vector[i] : x = <<i, p>>
    BY DEF Nodes
<1>2. \A k : k \in K <=> \E i \in 0 .. n - 1 : k \in ToSet(vector[i])
    BY DEF KeysIn
<1>3. \A i \in 0 .. n - 1 : ToSet(vector[i]) = {vector[i][p] : p \in DOMAIN vector[i]}
    BY DEF ToSet
<1>4. \A i, j \in 0 .. n - 1 : \A k \in ToSet(vector[i]) : k \in ToSet(vector[j]) => i = j
    BY DEF InHome
<1> HIDE DEF N, K
<1>5. f \in [N -> K]
  <2>1. ASSUME NEW x \in N PROVE vector[x[1]][x[2]] \in K
    <3>1. PICK i \in 0 .. n - 1 : \E p \in DOMAIN vector[i] : x = <<i, p>>
      BY <1>1
    <3>2. vector[x[1]][x[2]] \in ToSet(vector[i])
      BY <1>3, <3>1
    <3> QED BY <1>2, <3>2
  <2> QED BY <2>1
<1>6. \A x, y \in N : f[x] = f[y] => x = y
  <2>1. ASSUME NEW x \in N, NEW y \in N, f[x] = f[y] PROVE x = y
    <3>1. PICK i \in 0 .. n - 1 : \E p \in DOMAIN vector[i] : x = <<i, p>>
      BY <1>1
    <3>2. PICK p \in DOMAIN vector[i] : x = <<i, p>>
      BY <3>1
    <3>3. PICK j \in 0 .. n - 1 : \E q \in DOMAIN vector[j] : y = <<j, q>>
      BY <1>1
    <3>4. PICK q \in DOMAIN vector[j] : y = <<j, q>>
      BY <3>3
    <3>5. vector[i][p] = vector[j][q]
      BY <2>1, <3>2, <3>4
    <3>6. i = j
      <4>1. vector[i][p] \in ToSet(vector[i]) /\ vector[j][q] \in ToSet(vector[j])
        BY <1>3
      <4> QED BY <1>4, <3>5, <4>1
    <3>7. p = q
      BY <3>5, <3>6 DEF Chains, IsInjective
    <3> QED BY <3>2, <3>4, <3>6, <3>7
  <2> QED BY <2>1
<1>7. ASSUME NEW k \in K PROVE \E x \in N : f[x] = k
  <2>1. PICK i \in 0 .. n - 1 : \E p \in DOMAIN vector[i] : vector[i][p] = k
    BY <1>2, <1>3
  <2>2. PICK p \in DOMAIN vector[i] : vector[i][p] = k
    BY <2>1
  <2>3. <<i, p>> \in N /\ f[<<i, p>>] = k
    BY <1>1, <2>2
  <2> QED BY <2>3
<1> HIDE DEF f
<1>8. f \in Bijection(N, K)
    BY <1>5, <1>6, <1>7, Fun_IsBij
<1>9. ExistsBijection(K, N)
    BY <1>8, Fun_ExistsBij, Fun_ExistsBijSymmetric
<1> QED BY <1>9, FS_Bijection DEF N, K

-----------------------------------------------------------------------------

(* The vectors are well formed; the invariant in terms of both.            *)
Vectors(b, m) == Chains(b) /\ Chains(m) /\ KeysIn(b) \cap KeysIn(m) = {}

LEMMA VectorsKnown ==
    ASSUME IInv, HInv, KInv
    PROVE  /\ bucketsSize \in Nat \ {0}
           /\ buckets \in [0 .. bucketsSize - 1 -> Seq(Key)] /\ InHome(buckets)
           /\ \E n \in Nat : tmp \in [0 .. n - 1 -> Seq(Key)]
           /\ InHome(tmp) /\ Vectors(buckets, tmp)
           /\ KeysIn(buckets) \subseteq Key /\ KeysIn(tmp) \subseteq Key
<1>1. bucketsSize \in Nat \ {0} /\ buckets \in [0 .. bucketsSize - 1 -> Seq(Key)]
    BY PrimeIsNat DEF IInv, Shape
<1>2. PICK n \in Nat : tmp \in [0 .. n - 1 -> Seq(Key)]
    BY DEF HInv, TmpVector
<1>3. ASSUME NEW m \in Nat, NEW vector \in [0 .. m - 1 -> Seq(Key)] PROVE KeysIn(vector) \subseteq Key
  <2>1. ASSUME NEW i \in 0 .. m - 1, NEW k \in ToSet(vector[i]) PROVE k \in Key
    <3>1. PICK p \in DOMAIN vector[i] : vector[i][p] = k
      BY <2>1 DEF ToSet
    <3>2. vector[i] \in Seq(Key) /\ p \in 1 .. Len(vector[i])
      BY <3>1, LenProperties
    <3> QED BY <3>1, <3>2, ElementOfSeq
  <2> QED BY <2>1 DEF KeysIn
<1> QED BY <1>1, <1>2, <1>3 DEF HInv, HomeBuckets, InHome, KInv, Apart, Vectors

LEMMA VectorsNext ==
    /\ Present' = KeysIn(buckets') \cup KeysIn(tmp')
    /\ (Chains(buckets) /\ Chains(tmp) /\ Apart)' <=> Vectors(buckets', tmp')
BY DEF Present, KeysIn, Chains, Apart, Vectors

(* The lookup has missed the key in its home bucket, and the vector of a   *)
(* rehash is empty while somebody shares the table.                        *)
LEMMA AddStep ==
    ASSUME IInv, HInv, KInv, NEW t \in Thread, AddNode(t)
    PROVE  Vectors(buckets', tmp') /\ Adds(call[t].key)
<1> DEFINE i == acc[t].index
           k == call[t].key
<1>1. i \in 0 .. bucketsSize - 1 /\ k \in Key /\ k \notin Present
    BY DEF AddNode, IInv, KInv, CallsReady, IndexInTable, BucketSteps, AddsAbsent
<1>2. buckets' = PushFront(buckets, i, k) /\ tmp' = tmp /\ numElements' = numElements + 1
      /\ \E v \in Val : value' = [value EXCEPT ![k] = v]
    BY DEF AddNode
<1> HIDE DEF i, k
<1>3. Puts(buckets', buckets, k)
    BY <1>1, <1>2, VectorsKnown, KeyPut DEF Present, Vectors
<1>4. Vectors(buckets', tmp')
    BY <1>1, <1>2, <1>3, VectorsKnown DEF Vectors, Puts, Present
<1>5. Present' = Present \cup {k}
    BY <1>2, <1>3, VectorsNext DEF Puts, Present
<1> QED BY <1>1, <1>2, <1>4, <1>5 DEF Adds, k

LEMMA EraseStep ==
    ASSUME IInv, HInv, KInv, NEW t \in Thread, EraseNode(t)
    PROVE  Vectors(buckets', tmp') /\ Removes(acc[t].node)
<1> DEFINE i == acc[t].index
           k == acc[t].node
           s == RemoveAt(buckets[i], Position(t))
<1>1. /\ i \in 0 .. bucketsSize - 1 /\ buckets[i] \in Seq(Key)
      /\ Position(t) \in 1 .. Len(buckets[i]) /\ buckets[i][Position(t)] = k
      /\ k \in ToSet(buckets[i])
  <2>1. pc[t] \in AccessorSteps
    BY DEF EraseNode, AccessorSteps
  <2> QED BY <2>1, AccessorChain DEF IInv, Chain, AccessorsLive
<1>2. buckets' = [buckets EXCEPT ![i] = s] /\ tmp' = tmp /\ numElements' = numElements - 1
      /\ value' = [value EXCEPT ![k] = None]
    BY DEF EraseNode, UncountElement
<1>3. IsInjective(buckets[i])
    BY <1>1, VectorsKnown DEF Vectors, Chains
<1>4. s \in Seq(Key) /\ Loses(s, buckets[i], k)
    BY <1>1, <1>3, RemovedChain, RemovedDistinct
<1> HIDE DEF i, k, s
<1>5. Takes(buckets', buckets, k)
  <2>1. InHome(buckets) /\ Chains(buckets) /\ bucketsSize \in Nat
        /\ buckets \in [0 .. bucketsSize - 1 -> Seq(Key)]
    BY VectorsKnown DEF Vectors
  <2> QED BY <1>1, <1>2, <1>4, <2>1, KeyTaken
<1>6. Vectors(buckets', tmp')
    BY <1>2, <1>5, VectorsKnown DEF Vectors, Takes
<1>7. k \in Present /\ Present' = Present \ {k}
    BY <1>2, <1>5, VectorsNext, VectorsKnown DEF Takes, Present, Vectors
<1> QED BY <1>2, <1>6, <1>7 DEF Removes, k

LEMMA DropStep ==
    ASSUME IInv, HInv, KInv, NEW t \in Thread, UnwindOne(t) \/ ClearOne(t)
    PROVE  Vectors(buckets', tmp') /\ \E k : Removes(k)
<1>1. CASE UnwindOne(t)
  <2> DEFINE i == FirstUsed(tmp)
             k == Head(tmp[i])
  <2>1. KeysIn(tmp) # {} /\ tmp' = PopFront(tmp, i) /\ value' = [value EXCEPT ![k] = None]
        /\ buckets' = buckets /\ numElements' = numElements - 1
    BY <1>1 DEF UnwindOne, UncountElement
  <2>2. Takes(PopFront(tmp, i), tmp, k)
    BY <2>1, VectorsKnown, KeyPopped DEF Vectors
  <2> HIDE DEF i, k
  <2>3. Vectors(buckets', tmp')
    BY <2>1, <2>2, VectorsKnown DEF Vectors, Takes
  <2>4. k \in Present /\ Present' = Present \ {k}
    BY <2>1, <2>2, VectorsNext, VectorsKnown DEF Takes, Present, Vectors
  <2> QED BY <2>1, <2>3, <2>4 DEF Removes
<1>2. CASE ClearOne(t)
  <2> DEFINE i == FirstUsed(buckets)
             k == Head(buckets[i])
  <2>1. KeysIn(buckets) # {} /\ buckets' = PopFront(buckets, i) /\ value' = [value EXCEPT ![k] = None]
        /\ tmp' = tmp /\ numElements' = numElements - 1
    BY <1>2 DEF ClearOne, UncountElement
  <2>2. Takes(PopFront(buckets, i), buckets, k)
    BY <2>1, VectorsKnown, KeyPopped DEF Vectors
  <2> HIDE DEF i, k
  <2>3. Vectors(buckets', tmp')
    BY <2>1, <2>2, VectorsKnown DEF Vectors, Takes
  <2>4. k \in Present /\ Present' = Present \ {k}
    BY <2>1, <2>2, VectorsNext, VectorsKnown DEF Takes, Present, Vectors
  <2> QED BY <2>1, <2>3, <2>4 DEF Removes
<1> QED BY <1>1, <1>2

(* A rehash moves elements and neither makes nor loses one.                *)
LEMMA RehashStep ==
    ASSUME IInv, HInv, KInv, NEW t \in Thread,
           RehashBegin(t) \/ RehashMove(t) \/ RehashEnd(t) \/ UnwindEnd(t)
    PROVE  Vectors(buckets', tmp') /\ Keeps
<1>1. ASSUME NEW n \in Nat, tmp' = EmptyBuckets(n) PROVE KeysIn(tmp') = {} /\ Chains(tmp')
  <2>1. IsInjective(<<>>)
    BY DEF IsInjective
  <2>2. Chains(EmptyBuckets(n))
    BY <2>1 DEF Chains, EmptyBuckets
  <2> QED BY <1>1, <2>2, EmptyVector
<1>2. CASE RehashBegin(t)
  <2>1. buckets' = buckets /\ numElements' = numElements /\ pc[t] = "drain"
    BY <1>2 DEF RehashBegin
  <2>2. KeysIn(tmp) = {}
    <3>1. \A u \in Thread : pc[u] \notin {"rehash", "unwind"}
      BY <2>1, OneWriter DEF IInv, ExclusiveSteps
    <3> QED BY <3>1 DEF HInv, TmpIdle
  <2>3. tmp' = tmp \/ (call[t].want \in Nat /\ tmp' = EmptyBuckets(call[t].want))
    BY <1>2 DEF RehashBegin, KInv, WantsCount
  <2>4. KeysIn(tmp') = {} /\ Chains(tmp')
    BY <1>1, <2>2, <2>3, VectorsKnown DEF Vectors
  <2> QED BY <2>1, <2>2, <2>4, VectorsKnown, VectorsNext DEF Vectors, Keeps, Present
<1>3. CASE RehashMove(t)
  <2> DEFINE i == FirstUsed(buckets)
             k == Head(buckets[i])
             m == call[t].want
             j == NewIndex(t, k)
  <2>1. /\ KeysIn(buckets) # {} /\ buckets' = PopFront(buckets, i) /\ tmp' = PushFront(tmp, j, k)
        /\ numElements' = numElements /\ pc[t] = "rehash"
    BY <1>3 DEF RehashMove
  <2>2. Takes(PopFront(buckets, i), buckets, k)
    BY <2>1, VectorsKnown, KeyPopped DEF Vectors
  <2>3. m \in Nat \ {0} /\ tmp \in [0 .. m - 1 -> Seq(Key)]
    BY <2>1, PrimeIsNat DEF IInv, CallsReady
  <2>4. j = get_bucket_index(k, m)
    BY DEF NewIndex
  <2> HIDE DEF i, k, m, j
  <2>5. k \in Key \ KeysIn(tmp)
    BY <2>2, VectorsKnown DEF Takes, Vectors
  <2>6. j \in 0 .. m - 1
    BY <2>3, <2>4, <2>5, IndexInRange
  <2>7. Puts(PushFront(tmp, j, k), tmp, k)
    BY <2>3, <2>5, <2>6, VectorsKnown, KeyPut DEF Vectors
  <2>8. Vectors(buckets', tmp')
    BY <2>1, <2>2, <2>7, VectorsKnown DEF Vectors, Takes, Puts
  <2>9. Present' = Present
    BY <2>1, <2>2, <2>7, VectorsNext DEF Takes, Puts, Present
  <2> QED BY <2>1, <2>8, <2>9 DEF Keeps
<1>4. CASE RehashEnd(t) \/ UnwindEnd(t)
  <2>1. /\ numElements' = numElements /\ tmp' = EmptyBuckets(0)
        /\ \/ buckets' = tmp /\ KeysIn(buckets) = {}
           \/ buckets' = buckets /\ KeysIn(tmp) = {}
    BY <1>4 DEF RehashEnd, UnwindEnd, SwapBuckets
  <2>2. KeysIn(tmp') = {} /\ Chains(tmp')
    BY <1>1, <2>1
  <2> QED BY <2>1, <2>2, VectorsKnown, VectorsNext DEF Vectors, Keeps, Present
<1> QED BY <1>2, <1>3, <1>4

(* What each step does to the elements.                                    *)
LEMMA ElementsStep ==
    ASSUME IInv, HInv, KInv, NEW t \in Thread, Call(t) \/ Progress(t) \/ Choice(t)
    PROVE  /\ Vectors(buckets', tmp')
           /\ \/ AddNode(t) /\ Adds(call[t].key)
              \/ EraseNode(t) /\ Removes(acc[t].node)
              \/ (UnwindOne(t) \/ ClearOne(t)) /\ \E k : Removes(k)
              \/ ~(AddNode(t) \/ EraseNode(t) \/ UnwindOne(t) \/ ClearOne(t)) /\ Keeps
<1>1. CASE ~(RehashBegin(t) \/ RehashMove(t) \/ RehashEnd(t) \/ UnwindOne(t) \/ UnwindEnd(t)
             \/ ClearOne(t) \/ AddNode(t) \/ EraseNode(t))
  <2>1. UNCHANGED <<buckets, tmp>>
    BY <1>1, VectorsKept
  <2>2. UNCHANGED numElements
    BY <1>1 DEF Call, Progress, Choice, vars, table, CallElement, CallClear, CallIterate, ResizeCheck, TakeGate,
           ClearBegin, ClearEnd, RehashThrow, LockTable, LockBucket, Find, UnlockBucket, UnlockTable,
           EraseSearch, IterTable, IterBucket, IterEnd, IterNext, IterFound, Write, Release, Erase
  <2> QED BY <1>1, <2>1, <2>2, VectorsKnown, VectorsNext DEF Keeps, Present
<1>2. CASE AddNode(t)
    BY <1>2, AddStep
<1>3. CASE EraseNode(t)
    BY <1>3, EraseStep
<1>4. CASE UnwindOne(t) \/ ClearOne(t)
    BY <1>4, DropStep
<1>5. CASE RehashBegin(t) \/ RehashMove(t) \/ RehashEnd(t) \/ UnwindEnd(t)
  <2>1. ~(AddNode(t) \/ EraseNode(t) \/ UnwindOne(t) \/ ClearOne(t))
    <3>1. CASE pc[t] \in {"drain", "rehash"}
      BY <3>1 DEF AddNode, EraseNode, UnwindOne, ClearOne
    <3>2. CASE UnwindEnd(t)
      BY <3>2 DEF AddNode, EraseNode, UnwindOne, ClearOne, UnwindEnd
    <3> QED BY <1>5, <3>1, <3>2 DEF RehashBegin, RehashMove, RehashEnd
  <2> QED BY <1>5, <2>1, RehashStep
<1> QED BY <1>1, <1>2, <1>3, <1>4, <1>5

-----------------------------------------------------------------------------

(* The table begins without elements.                                      *)
LEMMA InitKInv == Init => KInv
<1> SUFFICES ASSUME Init PROVE KInv OBVIOUS
<1>1. next_prime(InitBuckets) \in Nat
    BY NextPrime, PrimeIsNat, InitAssumption
<1>2. \A n : Chains(EmptyBuckets(n))
    BY DEF Chains, EmptyBuckets, IsInjective
<1>3. KeysIn(buckets) = {} /\ KeysIn(tmp) = {} /\ Chains(buckets) /\ Chains(tmp)
    BY <1>1, <1>2, EmptyVector DEF Init
<1>4. Present = {}
    BY <1>3 DEF Present
<1>5. Counted
    BY <1>4, FS_EmptySet DEF Counted, Init
<1>6. AddsAbsent /\ ValueFits /\ WantsCount
    BY <1>4 DEF AddsAbsent, ValueFits, WantsCount, Init, NoCall
<1> QED BY <1>3, <1>5, <1>6 DEF KInv, Apart

(* size() follows the elements.                                            *)
LEMMA CountedStep ==
    ASSUME IInv, HInv, KInv, NEW t \in Thread, Call(t) \/ Progress(t) \/ Choice(t)
    PROVE  Counted'
<1>1. IsFiniteSet(Present) /\ numElements = Cardinality(Present)
    BY DEF KInv, Counted
<1>2. ASSUME NEW k, Adds(k) PROVE Counted'
    BY <1>1, <1>2, FS_AddElement DEF Adds, Counted
<1>3. ASSUME NEW k, Removes(k) PROVE Counted'
    BY <1>1, <1>3, FS_RemoveElement DEF Removes, Counted
<1>4. ASSUME Keeps PROVE Counted'
    BY <1>1, <1>4 DEF Keeps, Counted
<1> QED BY <1>2, <1>3, <1>4, ElementsStep

(* Two threads are never about to add one key: both would own the mutex of *)
(* its home bucket.                                                        *)
LEMMA AbsentStep ==
    ASSUME IInv, HInv, KInv, NEW t \in Thread, Call(t) \/ Progress(t) \/ Choice(t)
    PROVE  AddsAbsent'
<1> SUFFICES ASSUME NEW u \in Thread, pc'[u] = "add" PROVE call'[u].key \notin Present'
    BY DEF AddsAbsent
<1>1. Shape /\ CallsReady /\ IndexInTable /\ LocksMatchSteps /\ WriterAlone /\ HomeIndex /\ AddsAbsent
    BY DEF IInv, HInv, KInv
<1>2. CASE u = t
  <2> DEFINE k == call[t].key
             i == acc[t].index
  <2>1. Find(t)
    <3> USE DEF Shape, Goto, Return, vars, locks
    <3>1. CASE Call(t) \/ Choice(t)
      BY <1>1, <1>2, <3>1 DEF Call, Choice, CallElement, CallClear, CallIterate, Write, Erase, IterFound,
             RehashThrow
    <3>2. CASE ResizeCheck(t) \/ TakeGate(t) \/ ClearBegin(t) \/ ClearOne(t) \/ ClearEnd(t)
      BY <1>1, <1>2, <3>2 DEF ResizeCheck, TakeGate, ClearBegin, ClearOne, ClearEnd
    <3>3. CASE RehashBegin(t) \/ RehashMove(t) \/ RehashEnd(t) \/ UnwindOne(t) \/ UnwindEnd(t)
      BY <1>1, <1>2, <3>3 DEF RehashBegin, RehashMove, RehashEnd, UnwindOne, UnwindEnd
    <3>4. CASE LockTable(t) \/ LockBucket(t) \/ AddNode(t) \/ UnlockBucket(t) \/ UnlockTable(t)
      BY <1>1, <1>2, <3>4 DEF LockTable, LockBucket, AddNode, UnlockBucket, UnlockTable
    <3>5. CASE EraseNode(t) \/ EraseSearch(t) \/ Release(t)
      BY <1>1, <1>2, <3>5 DEF EraseNode, EraseSearch, Release
    <3>6. CASE IterTable(t) \/ IterBucket(t) \/ IterEnd(t) \/ IterNext(t)
      BY <1>1, <1>2, <3>6 DEF IterTable, IterBucket, IterEnd, IterNext
    <3> QED BY <3>1, <3>2, <3>3, <3>4, <3>5, <3>6 DEF Progress
  <2>2. pc[t] = "find" /\ k \notin ToSet(buckets[i]) /\ call' = call /\ buckets' = buckets /\ tmp' = tmp
    BY <1>1, <1>2, <2>1 DEF Find, Goto, Shape, table
  <2>3. KeysIn(tmp) = {}
    BY <1>1, <2>2 DEF HInv, TmpIdle, LocksMatchSteps, WriterAlone, ExclusiveSteps, SharedSteps, BucketSteps
  <2>4. i \in 0 .. bucketsSize - 1 /\ i = get_bucket_index(k, bucketsSize)
    BY <1>1, <2>2 DEF IndexInTable, HomeIndex, BucketSteps
  <2>5. DOMAIN buckets = 0 .. bucketsSize - 1 /\ Cardinality(DOMAIN buckets) = bucketsSize
    BY VectorsKnown, VectorSize
  <2>6. k \notin KeysIn(buckets)
    BY <2>2, <2>4, <2>5, VectorsKnown DEF KeysIn, InHome
  <2>7. Present' = KeysIn(buckets) \cup KeysIn(tmp)
    BY <2>2, VectorsNext
  <2> QED BY <1>2, <2>2, <2>3, <2>6, <2>7
<1>3. CASE u # t
  <2>1. pc[u] = "add" /\ call'[u] = call[u]
    BY <1>1, <1>3, OneThreadMoves
  <2>2. call[u].key \notin Present
    BY <1>1, <2>1 DEF AddsAbsent
  <2>3. ASSUME AddNode(t) PROVE call[u].key # call[t].key
    <3>1. pc[t] = "add"
      BY <2>3 DEF AddNode
    <3>2. acc[u].index \in DOMAIN bmutex /\ bmutex[acc[u].index] = u /\ bmutex[acc[t].index] = t
      BY <1>1, <2>1, <3>1 DEF LocksMatchSteps, IndexInTable, BucketSteps, Shape
    <3> QED BY <1>1, <1>3, <2>1, <3>1, <3>2 DEF HomeIndex
  <2>4. \/ Present' \subseteq Present
        \/ AddNode(t) /\ Present' = Present \cup {call[t].key}
    BY ElementsStep DEF Adds, Removes, Keeps
  <2> QED BY <2>1, <2>2, <2>3, <2>4
<1> QED BY <1>2, <1>3

(* Every element has a value and every call a size it wants.               *)
LEMMA ValueStep ==
    ASSUME IInv, HInv, KInv, NEW t \in Thread, Call(t) \/ Progress(t) \/ Choice(t)
    PROVE  ValueFits'
<1>1. value \in [Key -> Val \cup {None}] /\ Present \subseteq Key /\ \A k \in Present : value[k] \in Val
    BY VectorsKnown DEF KInv, ValueFits, Present
<1>2. ASSUME NEW k, Adds(k) PROVE ValueFits'
    BY <1>1, <1>2 DEF Adds, ValueFits
<1>3. ASSUME NEW k, Removes(k) PROVE ValueFits'
    BY <1>1, <1>3 DEF Removes, ValueFits
<1>4. CASE Write(t)
  <2> DEFINE k == acc[t].node
  <2>1. /\ pc[t] \in AccessorSteps
        /\ \E v \in Val : value' = [value EXCEPT ![k] = v]
        /\ buckets' = buckets /\ tmp' = tmp
    BY <1>4 DEF Write, AccessorSteps
  <2>2. Present' = Present
    BY <2>1 DEF Present, KeysIn
  <2> HIDE DEF k
  <2> QED BY <1>1, <2>1, <2>2 DEF ValueFits
<1>5. CASE ~Write(t) /\ ~(AddNode(t) \/ EraseNode(t) \/ UnwindOne(t) \/ ClearOne(t)) /\ Keeps
  <2>1. value' = value
    BY <1>5 DEF Call, Progress, Choice, vars, table, CallElement, CallClear, CallIterate, ResizeCheck, TakeGate,
           ClearBegin, ClearEnd, RehashThrow, LockTable, LockBucket, Find, UnlockBucket, UnlockTable,
           EraseSearch, IterTable, IterBucket, IterEnd, IterNext, IterFound, Release, Erase,
           RehashBegin, RehashMove, RehashEnd, UnwindEnd
  <2> QED BY <1>1, <1>5, <2>1 DEF Keeps, ValueFits
<1> QED BY <1>2, <1>3, <1>4, <1>5, ElementsStep

LEMMA WantStep ==
    ASSUME IInv, HInv, KInv, NEW t \in Thread, Call(t) \/ Progress(t) \/ Choice(t)
    PROVE  WantsCount'
<1>1. Shape /\ WantsCount /\ numElements \in Nat
    BY FS_CardinalityType DEF IInv, KInv, Counted
<1>2. ASSUME NEW u \in Thread, u # t PROVE call'[u].want \in Nat
    BY <1>1, <1>2, OneThreadMoves DEF WantsCount
<1>3. call'[t].want \in Nat
  <2> USE DEF Shape, WantsCount
  <2>1. CASE CallElement(t)
    BY <1>1, <2>1 DEF CallElement, ElementsWanted
  <2>2. CASE ResizeCheck(t)
    <3> DEFINE want == call[t].want
    <3>1. want \in Nat
      BY <1>1
    <3> HIDE DEF want
    <3>2. next_prime(want) \in Nat
      BY <3>1, NextPrime, PrimeIsNat
    <3>3. call' = call \/ call' = [call EXCEPT ![t].want = next_prime(want)]
      BY <2>2 DEF ResizeCheck, want
    <3> QED BY <1>1, <3>2, <3>3
  <2>3. CASE CallClear(t) \/ CallIterate(t) \/ IterFound(t)
    BY <1>1, <2>3 DEF CallClear, CallIterate, IterFound
  <2>4. CASE UnwindEnd(t) \/ ClearEnd(t) \/ UnlockTable(t) \/ IterEnd(t)
    BY <1>1, <2>4 DEF UnwindEnd, ClearEnd, UnlockTable, IterEnd, Return, NoCall
  <2>5. CASE ~(CallElement(t) \/ ResizeCheck(t) \/ CallClear(t) \/ CallIterate(t) \/ IterFound(t)
               \/ UnwindEnd(t) \/ ClearEnd(t) \/ UnlockTable(t) \/ IterEnd(t))
    <3>1. call' = call
      BY <2>5 DEF Call, Progress, Choice, vars, locks, TakeGate, ClearBegin, ClearOne, RehashBegin, RehashMove,
             RehashEnd, RehashThrow, UnwindOne, LockTable, LockBucket, Find, AddNode, UnlockBucket, EraseNode,
             EraseSearch, IterTable, IterBucket, IterNext, Write, Release, Erase
    <3> QED BY <1>1, <3>1
  <2> QED BY <2>1, <2>2, <2>3, <2>4, <2>5
<1> QED BY <1>2, <1>3 DEF WantsCount

(* The elements are counted and distinct in every state.                   *)
LEMMA KInvariance == Spec => [](IInv /\ HInv /\ KInv)
<1>1. IInv /\ HInv /\ KInv /\ [Next]_vars => KInv'
  <2>1. ASSUME IInv, HInv, KInv, NEW t \in Thread, Call(t) \/ Progress(t) \/ Choice(t) PROVE KInv'
    <3>1. (Chains(buckets) /\ Chains(tmp) /\ Apart)'
      BY <2>1, ElementsStep, VectorsNext
    <3> QED BY <2>1, <3>1, AbsentStep, CountedStep, ValueStep, WantStep DEF KInv
  <2>2. ASSUME KInv, UNCHANGED vars PROVE KInv'
    BY <2>2 DEF KInv, vars, table, Chains, Apart, AddsAbsent, Counted, ValueFits, WantsCount, Present, KeysIn
  <2> QED BY <2>1, <2>2 DEF Next
<1> QED BY InitKInv, HInvariance, <1>1, PTL DEF Spec

(* Every variable stays in its type; size() never wraps below zero.        *)
THEOREM TypeCorrect == Spec => []TypeOK
<1>1. ASSUME IInv, HInv, KInv PROVE TypeOK
  <2>1. \A i \in DOMAIN buckets : buckets[i] \in Seq(Key)
    BY VectorsKnown, <1>1
  <2>2. \A i \in DOMAIN tmp : tmp[i] \in Seq(Key)
    BY VectorsKnown, <1>1
  <2>3. numElements \in Nat
    BY <1>1, FS_CardinalityType DEF KInv, Counted
  <2>4. call \in [Thread -> [type : Calls \cup {None}, key : Key \cup {None}, want : Nat]]
    BY <1>1 DEF IInv, Shape, KInv, WantsCount
  <2> QED BY <1>1, <2>1, <2>2, <2>3, <2>4 DEF TypeOK, IInv, Shape, AccType, KInv, ValueFits
<1> QED BY <1>1, KInvariance, PTL

LEMMA NodesCounted ==
    ASSUME IInv, HInv, KInv
    PROVE  Cardinality(Nodes(buckets)) + Cardinality(Nodes(tmp)) = Cardinality(Present)
<1> DEFINE B == KeysIn(buckets)
           T == KeysIn(tmp)
<1>1. IsFiniteSet(B \cup T)
    BY DEF KInv, Counted, Present
<1>2. B \cap T = {}
    BY DEF KInv, Apart
<1> HIDE DEF B, T
<1>3. IsFiniteSet(B) /\ IsFiniteSet(T)
    BY <1>1, FS_Subset
<1>4. Cardinality(B \cup T) = Cardinality(B) + Cardinality(T)
  <2>1. Cardinality(B \cap T) = 0
    BY <1>2, FS_EmptySet
  <2>2. Cardinality(B) \in Nat /\ Cardinality(T) \in Nat
    BY <1>3, FS_CardinalityType
  <2>3. Cardinality(B \cup T) = Cardinality(B) + Cardinality(T) - Cardinality(B \cap T)
    BY <1>3, FS_Union
  <2> QED BY <2>1, <2>2, <2>3
<1>5. Cardinality(Nodes(buckets)) = Cardinality(B)
  <2>1. bucketsSize \in Nat /\ buckets \in [0 .. bucketsSize - 1 -> Seq(Key)]
    BY VectorsKnown
  <2>2. InHome(buckets) /\ Chains(buckets)
    BY VectorsKnown DEF Vectors
  <2> QED BY <1>3, <2>1, <2>2, NodesAreKeys DEF B
<1>6. Cardinality(Nodes(tmp)) = Cardinality(T)
  <2>1. PICK n \in Nat : tmp \in [0 .. n - 1 -> Seq(Key)]
    BY VectorsKnown
  <2>2. InHome(tmp) /\ Chains(tmp)
    BY VectorsKnown DEF Vectors
  <2> QED BY <1>3, <2>1, <2>2, NodesAreKeys DEF T
<1> QED BY <1>4, <1>5, <1>6 DEF B, T, Present

(* No key has two nodes, whoever raced to insert it.                       *)
THEOREM NoDuplicates == Spec => []UniqueKeys
BY KInvariance, NodesCounted, PTL DEF UniqueKeys

(* size() is the number of nodes in every state, those of a rehash and of  *)
(* its unwinding included.                                                 *)
THEOREM SizeIsExact == Spec => []SizeExact
<1>1. IInv /\ HInv /\ KInv => SizeExact
    BY NodesCounted DEF SizeExact, KInv, Counted
<1> QED BY <1>1, KInvariance, PTL

-----------------------------------------------------------------------------

(* The load of the table.  A thread whose call can still add an element    *)
(* and that read a size of at most b keeps a place for it below b plus the *)
(* number of threads; the place is given back with the element.            *)
CreateTypes == {"get_or_create", "insert"}
FindSteps == {"lock_table", "lock_bucket", "find", "add"}
CreateSteps == {"resize", "gate", "drain", "rehash"} \cup FindSteps

Creates(t) == call[t].type \in CreateTypes /\ pc[t] \in CreateSteps
Creating(b) == {t \in Thread : Creates(t) /\ call[t].want <= b}

PlacesKept ==
    \A b \in Nat : bucketsSize <= b /\ b < LastPrime =>
        numElements + Cardinality(Creating(b)) < b + Cardinality(Thread)

(* A call that has left resize() wants no more than there is.              *)
WantsHad ==
    bucketsSize < LastPrime =>
        \A t \in Thread : call[t].type \in CreateTypes /\ pc[t] \in FindSteps =>
            call[t].want <= bucketsSize

(* Which calls are where: clear() and iterations never come to create.     *)
CallsTyped ==
    \A t \in Thread :
        /\ pc[t] \in {"resize", "rehash", "unwind", "add"} => call[t].type \in CreateTypes
        /\ pc[t] \in {"gate", "drain"} => call[t].type \in CreateTypes \cup {"clear"}
        /\ pc[t] \in FindSteps => call[t].type \in InsertTypes

LoadInv == PlacesKept /\ WantsHad /\ CallsTyped

LEMMA LastPrimeGreatest == LastPrime \in Primes /\ \A p \in Primes : p <= LastPrime
BY PrimesAssumption DEF LastPrime, Max

(* next_prime finds enough, or all there is.                               *)
LEMMA NextPrimeEnough ==
    ASSUME NEW n \in Nat
    PROVE  next_prime(n) \in Nat /\ (next_prime(n) >= n \/ next_prime(n) = LastPrime)
<1>1. CASE \E p \in Primes : p >= n
  <2>1. {p \in Primes : p >= n} \in SUBSET Nat /\ {p \in Primes : p >= n} # {}
    BY <1>1, PrimesAssumption
  <2>2. Min({p \in Primes : p >= n}) \in {p \in Primes : p >= n}
    BY <2>1, MinNat
  <2> QED BY <1>1, <2>2, PrimesAssumption DEF next_prime
<1>2. CASE ~\E p \in Primes : p >= n
    BY <1>2, LastPrimeGreatest, PrimeIsNat DEF next_prime
<1> QED BY <1>1, <1>2

(* The places that are kept are never more than the threads, and a thread  *)
(* gives its own back when it stops creating.                              *)
LEMMA PlacesFinite ==
    ASSUME NEW S \in SUBSET Thread
    PROVE  /\ IsFiniteSet(S) /\ Cardinality(S) \in Nat
           /\ Cardinality(Thread) \in Nat /\ Cardinality(S) <= Cardinality(Thread)
BY ThreadAssumption, FS_Subset, FS_CardinalityType

LEMMA PlacesFewer ==
    ASSUME NEW S \in SUBSET Thread, NEW R \in SUBSET S
    PROVE  Cardinality(R) <= Cardinality(S)
BY PlacesFinite, FS_Subset

LEMMA PlaceGiven ==
    ASSUME NEW S \in SUBSET Thread, NEW t \in S, NEW R \in SUBSET (S \ {t})
    PROVE  Cardinality(R) + 1 <= Cardinality(S)
<1>1. IsFiniteSet(S) /\ Cardinality(S) \in Nat
    BY PlacesFinite
<1>2. Cardinality(S \ {t}) = Cardinality(S) - 1 /\ IsFiniteSet(S \ {t})
    BY <1>1, FS_RemoveElement
<1>3. Cardinality(R) <= Cardinality(S \ {t}) /\ Cardinality(R) \in Nat
    BY <1>2, FS_Subset, FS_CardinalityType
<1> QED BY <1>1, <1>2, <1>3

LEMMA InitLoadInv == Init => LoadInv
<1> SUFFICES ASSUME Init PROVE LoadInv OBVIOUS
<1>1. numElements = 0 /\ bucketsSize \in Nat \ {0}
    BY NextPrime, PrimeIsNat, InitAssumption DEF Init
<1>2. \A b : Creating(b) = {}
    BY NoneAssumption DEF Creating, Creates, CreateSteps, FindSteps, Init
<1>3. Cardinality({}) = 0 /\ Cardinality(Thread) \in Nat
    BY FS_EmptySet, PlacesFinite
<1>4. PlacesKept
    BY <1>1, <1>2, <1>3 DEF PlacesKept
<1>5. WantsHad
    BY DEF WantsHad, FindSteps, Init
<1>6. CallsTyped
    BY DEF CallsTyped, FindSteps, Init
<1> QED BY <1>4, <1>5, <1>6 DEF LoadInv

LEMMA TypedStep ==
    ASSUME IInv, CallsTyped, NEW t \in Thread, Call(t) \/ Progress(t) \/ Choice(t)
    PROVE  CallsTyped'
<1> DEFINE Typed(u) ==
        /\ pc[u] \in {"resize", "rehash", "unwind", "add"} => call[u].type \in CreateTypes
        /\ pc[u] \in {"gate", "drain"} => call[u].type \in CreateTypes \cup {"clear"}
        /\ pc[u] \in FindSteps => call[u].type \in InsertTypes
<1>1. Shape /\ \A u \in Thread : Typed(u)
    BY DEF IInv, CallsTyped
<1>2. ASSUME NEW u \in Thread, u # t PROVE Typed(u)'
    BY <1>1, <1>2, OneThreadMoves
<1>3. Typed(t)'
  <2> USE DEF Shape, Goto, FindSteps, InsertTypes, CreateTypes
  <2>1. CASE Call(t)
    BY <1>1, <2>1 DEF Call, CallElement, CallClear, CallIterate
  <2>2. CASE ResizeCheck(t)
    <3> DEFINE want == next_prime(call[t].want)
    <3>1. /\ pc[t] = "resize"
          /\ \/ pc' = [pc EXCEPT ![t] = "gate"] /\ call' = [call EXCEPT ![t].want = want]
             \/ pc' = [pc EXCEPT ![t] = "lock_table"] /\ call' = call
      BY <2>2 DEF ResizeCheck
    <3> HIDE DEF want
    <3> QED BY <1>1, <3>1
  <2>3. CASE TakeGate(t) \/ ClearBegin(t) \/ ClearOne(t) \/ RehashBegin(t) \/ RehashMove(t) \/ RehashEnd(t)
             \/ RehashThrow(t) \/ UnwindOne(t)
    BY <1>1, <2>3 DEF TakeGate, ClearBegin, ClearOne, RehashBegin, RehashMove, RehashEnd, RehashThrow,
           UnwindOne, locks
  <2>4. CASE UnwindEnd(t) \/ ClearEnd(t) \/ UnlockTable(t) \/ IterEnd(t)
    BY <1>1, <2>4 DEF UnwindEnd, ClearEnd, UnlockTable, IterEnd, Return
  <2>5. CASE LockTable(t) \/ LockBucket(t) \/ Find(t)
    BY <1>1, <2>5 DEF LockTable, LockBucket, Find
  <2>6. CASE AddNode(t) \/ UnlockBucket(t) \/ Release(t) \/ Erase(t) \/ IterTable(t)
    BY <1>1, <2>6 DEF AddNode, UnlockBucket, Release, Erase, IterTable
  <2>7. CASE Write(t) \/ EraseSearch(t)
    BY <1>1, <2>7 DEF Write, EraseSearch, vars
  <2>8. CASE IterFound(t)
    BY <1>1, <2>8 DEF IterFound
  <2>9. CASE EraseNode(t)
    BY <1>1, <2>9 DEF EraseNode
  <2>10. CASE IterBucket(t) \/ IterNext(t)
    BY <1>1, <2>10 DEF IterBucket, IterNext
  <2> QED BY <2>1, <2>2, <2>3, <2>4, <2>5, <2>6, <2>7, <2>8, <2>9, <2>10 DEF Progress, Choice
<1> QED BY <1>2, <1>3 DEF CallsTyped

(* The table grows only, to a size that the rehash wants.                  *)
LEMMA SizeGrows ==
    ASSUME IInv, NEW t \in Thread, Call(t) \/ Progress(t) \/ Choice(t)
    PROVE  /\ bucketsSize \in Nat /\ bucketsSize' \in Nat /\ bucketsSize <= bucketsSize'
           /\ RehashEnd(t) => bucketsSize' = call[t].want
<1>1. bucketsSize \in Nat
    BY PrimeIsNat DEF IInv, Shape
<1>2. CASE UNCHANGED bucketsSize /\ ~RehashEnd(t)
    BY <1>1, <1>2
<1>3. CASE RehashEnd(t)
  <2>1. call[t].want \in Nat /\ call[t].want > bucketsSize
    BY <1>3, PrimeIsNat DEF RehashEnd, IInv, CallsReady
  <2> QED BY <1>1, <1>3, <2>1 DEF RehashEnd, SwapBuckets
<1> QED BY <1>2, <1>3, OnlyWriterRebuilds

(* Only the beginning of a call makes a thread a creator, and no step but  *)
(* the choice of the rehash's size changes what it wants.                  *)
LEMMA CreatorStep ==
    ASSUME IInv, HInv, KInv, LoadInv, NEW t \in Thread, Call(t) \/ Progress(t) \/ Choice(t),
           ~CallElement(t), Creates(t)'
    PROVE  /\ Creates(t)
           /\ \/ call'[t].want = call[t].want
              \/ call'[t].want >= call[t].want
              \/ call'[t].want = LastPrime
<1>1. Shape /\ call[t].want \in Nat
    BY DEF IInv, KInv, WantsCount
<1> USE DEF Shape, Goto, FindSteps, CreateSteps, CreateTypes, Creates
<1>2. CASE CallClear(t) \/ CallIterate(t)
    BY <1>1, <1>2 DEF CallClear, CallIterate
<1>3. CASE ResizeCheck(t)
  <2> DEFINE want == call[t].want
  <2>1. next_prime(want) \in Nat /\ (next_prime(want) >= want \/ next_prime(want) = LastPrime)
    BY <1>1, NextPrimeEnough
  <2>2. pc[t] = "resize" /\ (call' = call \/ call' = [call EXCEPT ![t].want = next_prime(want)])
    BY <1>3 DEF ResizeCheck
  <2> HIDE DEF want
  <2>3. call'[t].type = call[t].type
    BY <1>1, <2>2
  <2>4. call' = call \/ call'[t].want = next_prime(want)
    BY <1>1, <2>2
  <2>5. Creates(t)
    BY <2>2, <2>3
  <2> QED BY <1>1, <2>1, <2>4, <2>5 DEF want
<1>4. CASE TakeGate(t) \/ RehashBegin(t) \/ RehashMove(t) \/ RehashEnd(t)
    BY <1>1, <1>4 DEF TakeGate, RehashBegin, RehashMove, RehashEnd, locks
<1>5. CASE LockTable(t) \/ LockBucket(t) \/ Find(t)
    BY <1>1, <1>5 DEF LockTable, LockBucket, Find
<1>6. CASE UnwindEnd(t) \/ ClearEnd(t) \/ UnlockTable(t) \/ IterEnd(t)
    BY <1>1, <1>6 DEF UnwindEnd, ClearEnd, UnlockTable, IterEnd, Return
<1>7. CASE ClearBegin(t) \/ ClearOne(t) \/ RehashThrow(t) \/ UnwindOne(t)
    BY <1>1, <1>7 DEF ClearBegin, ClearOne, RehashThrow, UnwindOne, locks
<1>8. CASE AddNode(t) \/ UnlockBucket(t) \/ Release(t) \/ Erase(t) \/ IterTable(t)
    BY <1>1, <1>8 DEF AddNode, UnlockBucket, Release, Erase, IterTable
<1>9. CASE Write(t) \/ EraseSearch(t) \/ IterFound(t)
    BY <1>1, <1>9 DEF Write, EraseSearch, IterFound, vars
<1>10. CASE EraseNode(t)
    BY <1>1, <1>10 DEF EraseNode
<1>11. CASE IterBucket(t) \/ IterNext(t)
    BY <1>1, <1>11 DEF IterBucket, IterNext
<1> QED BY <1>2, <1>3, <1>4, <1>5, <1>6, <1>7, <1>8, <1>9, <1>10, <1>11 DEF Call, Progress, Choice

(* An element takes the place that its thread kept; a call keeps one only  *)
(* if the size it read leaves room for it.                                 *)
LEMMA PlacesStep ==
    ASSUME IInv, HInv, KInv, LoadInv, NEW t \in Thread, Call(t) \/ Progress(t) \/ Choice(t)
    PROVE  PlacesKept'
<1> SUFFICES ASSUME NEW b \in Nat, bucketsSize' <= b, b < LastPrime
             PROVE  numElements' + Cardinality(Creating(b)') < b + Cardinality(Thread)
    BY DEF PlacesKept, Creating, Creates
<1> DEFINE old == Creating(b)
           new == Creating(b)'
<1>1. bucketsSize \in Nat /\ bucketsSize' \in Nat /\ bucketsSize <= b /\ LastPrime \in Nat
    BY SizeGrows, LastPrimeGreatest, PrimeIsNat
<1>2. old \in SUBSET Thread /\ new \in SUBSET Thread
    BY DEF Creating
<1>3. numElements + Cardinality(old) < b + Cardinality(Thread)
    BY <1>1 DEF LoadInv, PlacesKept
<1>4. \A u \in Thread : u # t => (u \in new <=> u \in old)
  <2>1. ASSUME NEW u \in Thread, u # t PROVE pc'[u] = pc[u] /\ call'[u] = call[u]
    BY <2>1, OneThreadMoves DEF IInv
  <2> QED BY <2>1 DEF Creating, Creates
<1>5. t \in new <=> Creates(t)' /\ call'[t].want <= b
    BY DEF Creating, Creates
<1>6. t \in old <=> Creates(t) /\ call[t].want <= b
    BY DEF Creating
<1>7. numElements \in Nat /\ call[t].want \in Nat
    BY FS_CardinalityType DEF KInv, Counted, WantsCount
<1> HIDE DEF old, new
<1>8. /\ Cardinality(old) \in Nat /\ Cardinality(new) \in Nat /\ Cardinality(Thread) \in Nat
      /\ Cardinality(new) <= Cardinality(Thread)
    BY <1>2, PlacesFinite
<1>9. CASE AddNode(t)
  <2>1. numElements' = numElements + 1 /\ pc[t] = "add" /\ pc'[t] = "held"
    BY <1>9 DEF AddNode, Goto, IInv, Shape
  <2>2. t \in old
    <3>1. Creates(t)
      BY <2>1 DEF Creates, CreateSteps, FindSteps, LoadInv, CallsTyped
    <3>2. call[t].want <= bucketsSize
      BY <1>1, <2>1 DEF LoadInv, WantsHad, FindSteps, CallsTyped
    <3> QED BY <1>1, <1>6, <1>7, <3>1, <3>2
  <2>3. t \notin new
    BY <1>5, <2>1 DEF Creates, CreateSteps, FindSteps
  <2>4. Cardinality(new) + 1 <= Cardinality(old)
    BY <1>2, <1>4, <2>2, <2>3, PlaceGiven
  <2> QED BY <1>1, <1>3, <1>7, <1>8, <2>1, <2>4 DEF new
<1>10. CASE ~AddNode(t) /\ (t \in new => t \in old)
  <2>1. Cardinality(new) <= Cardinality(old)
    BY <1>2, <1>4, <1>10, PlacesFewer
  <2>2. numElements' <= numElements /\ numElements' \in Int
    BY <1>7, <1>10, ElementsStep DEF Removes, Keeps
  <2> QED BY <1>1, <1>3, <1>7, <1>8, <2>1, <2>2 DEF new
<1>11. CASE ~AddNode(t) /\ t \in new /\ t \notin old
  <2>1. CallElement(t)
    <3>1. ASSUME ~CallElement(t) PROVE FALSE
      <4>1. /\ Creates(t)
            /\ \/ call'[t].want = call[t].want
               \/ call'[t].want >= call[t].want
               \/ call'[t].want = LastPrime
        BY <1>5, <1>11, <3>1, CreatorStep
      <4>2. call'[t].want <= b
        BY <1>5, <1>11
      <4>3. ~(call[t].want <= b)
        BY <1>6, <1>11, <4>1
      <4>4. call'[t].want \in Nat
        BY WantStep DEF WantsCount
      <4> QED BY <1>1, <1>7, <4>1, <4>2, <4>3, <4>4
    <3> QED BY <3>1
  <2>2. numElements' = numElements /\ call'[t].want = numElements + 1
    <3>1. call'[t].type \in CreateTypes
      BY <1>5, <1>11 DEF Creates
    <3>2. call'[t].type # "get"
      BY <3>1 DEF CreateTypes
    <3> QED BY <2>1, <3>2 DEF CallElement, ElementsWanted, IInv, Shape, table
  <2>3. numElements + 1 <= b
    BY <1>5, <1>11, <2>2
  <2> QED BY <1>1, <1>7, <1>8, <2>2, <2>3 DEF new
<1> QED BY <1>9, <1>10, <1>11

(* A call leaves resize() with a table of the size it wants, or with the   *)
(* largest there can be.                                                   *)
LEMMA HadStep ==
    ASSUME IInv, HInv, KInv, LoadInv, NEW t \in Thread, Call(t) \/ Progress(t) \/ Choice(t)
    PROVE  WantsHad'
<1> SUFFICES ASSUME bucketsSize' < LastPrime, NEW u \in Thread,
                    call'[u].type \in CreateTypes, pc'[u] \in FindSteps
             PROVE  call'[u].want <= bucketsSize'
    BY DEF WantsHad
<1>1. bucketsSize \in Nat /\ bucketsSize' \in Nat /\ bucketsSize <= bucketsSize' /\ LastPrime \in Nat
      /\ bucketsSize < LastPrime /\ (RehashEnd(t) => bucketsSize' = call[t].want)
  <2>1. LastPrime \in Nat
    BY LastPrimeGreatest, PrimeIsNat
  <2>2. bucketsSize \in Nat /\ bucketsSize' \in Nat /\ bucketsSize <= bucketsSize'
        /\ (RehashEnd(t) => bucketsSize' = call[t].want)
    BY SizeGrows
  <2>3. bucketsSize < LastPrime
    BY <2>1, <2>2
  <2> QED BY <2>1, <2>2, <2>3
<1>2. call[u].want \in Nat /\ call[t].want \in Nat
    BY DEF KInv, WantsCount
<1>3. CASE u # t
  <2>1. pc'[u] = pc[u] /\ call'[u] = call[u]
    BY <1>3, OneThreadMoves DEF IInv
  <2>2. call[u].want <= bucketsSize
    BY <1>1, <2>1 DEF LoadInv, WantsHad
  <2> QED BY <1>1, <1>2, <2>1, <2>2
<1>4. CASE u = t
  <2> USE DEF IInv, Shape, Goto, FindSteps, CreateTypes
  <2>1. ASSUME pc[t] \in FindSteps, call' = call PROVE call'[t].want <= bucketsSize'
    <3>1. call[t].want <= bucketsSize
      BY <1>1, <1>4, <2>1 DEF LoadInv, WantsHad
    <3> QED BY <1>1, <1>2, <2>1, <3>1
  <2>2. CASE Call(t)
    BY <1>4, <2>2 DEF Call, CallElement, CallClear, CallIterate
  <2>3. CASE ResizeCheck(t)
    <3> DEFINE want == call[t].want
    <3>1. next_prime(want) \in Nat /\ (next_prime(want) >= want \/ next_prime(want) = LastPrime)
      BY <1>2, NextPrimeEnough
    <3>2. call' = call /\ ~(want > bucketsSize /\ next_prime(want) > bucketsSize)
      BY <1>4, <2>3 DEF ResizeCheck
    <3> HIDE DEF want
    <3>3. want <= bucketsSize
      BY <1>1, <1>2, <3>1, <3>2 DEF want
    <3> QED BY <1>1, <1>2, <1>4, <3>2, <3>3 DEF want
  <2>4. CASE RehashBegin(t)
    BY <1>1, <1>2, <1>4, <2>4 DEF RehashBegin, StillTooSmall
  <2>5. CASE RehashEnd(t)
    BY <1>1, <1>2, <1>4, <2>5 DEF RehashEnd
  <2>6. CASE LockTable(t) \/ LockBucket(t) \/ Find(t)
    BY <1>4, <2>1, <2>6 DEF LockTable, LockBucket, Find
  <2>7. CASE ~(Call(t) \/ ResizeCheck(t) \/ RehashBegin(t) \/ RehashEnd(t) \/ LockTable(t) \/ LockBucket(t)
               \/ Find(t))
    <3> USE DEF Return, vars, locks
    <3>1. CASE Choice(t)
      BY <1>4, <3>1 DEF Choice, Write, Erase, IterFound, RehashThrow
    <3>2. CASE TakeGate(t) \/ ClearBegin(t) \/ ClearOne(t) \/ ClearEnd(t)
      BY <1>4, <3>2 DEF TakeGate, ClearBegin, ClearOne, ClearEnd
    <3>3. CASE RehashMove(t) \/ UnwindOne(t) \/ UnwindEnd(t)
      BY <1>4, <3>3 DEF RehashMove, UnwindOne, UnwindEnd
    <3>4. CASE AddNode(t) \/ UnlockBucket(t) \/ UnlockTable(t) \/ EraseNode(t) \/ EraseSearch(t)
      BY <1>4, <3>4 DEF AddNode, UnlockBucket, UnlockTable, EraseNode, EraseSearch
    <3>5. CASE IterTable(t) \/ IterBucket(t) \/ IterEnd(t) \/ Release(t) \/ IterNext(t)
      BY <1>4, <3>5 DEF IterTable, IterBucket, IterEnd, Release, IterNext
    <3> QED BY <2>7, <3>1, <3>2, <3>3, <3>4, <3>5 DEF Progress
  <2> QED BY <1>4, <2>2, <2>3, <2>4, <2>5, <2>6, <2>7
<1> QED BY <1>3, <1>4

LEMMA LoadInvariance == Spec => [](IInv /\ HInv /\ KInv /\ LoadInv)
<1>1. IInv /\ HInv /\ KInv /\ LoadInv /\ [Next]_vars => LoadInv'
  <2>1. ASSUME IInv, HInv, KInv, LoadInv, NEW t \in Thread, Call(t) \/ Progress(t) \/ Choice(t)
        PROVE  LoadInv'
    BY <2>1, PlacesStep, HadStep, TypedStep DEF LoadInv
  <2>2. ASSUME LoadInv, UNCHANGED vars PROVE LoadInv'
    BY <2>2 DEF LoadInv, vars, table, PlacesKept, WantsHad, CallsTyped, Creating, Creates
  <2> QED BY <2>1, <2>2 DEF Next
<1> QED BY KInvariance, InitLoadInv, <1>1, PTL DEF Spec

(* However many threads read the size before others insert, each overfills *)
(* the table by one element at most.                                       *)
THEOREM LoadIsBounded == Spec => []LoadBounded
<1>1. ASSUME IInv, KInv, LoadInv PROVE LoadBounded
  <2> SUFFICES ASSUME bucketsSize < LastPrime PROVE numElements < bucketsSize + Cardinality(Thread)
    BY DEF LoadBounded
  <2>1. bucketsSize \in Nat /\ numElements \in Nat
    BY <1>1, PrimeIsNat, FS_CardinalityType DEF IInv, Shape, KInv, Counted
  <2>2. numElements + Cardinality(Creating(bucketsSize)) < bucketsSize + Cardinality(Thread)
    BY <1>1, <2>1 DEF LoadInv, PlacesKept
  <2>3. Creating(bucketsSize) \in SUBSET Thread
    BY DEF Creating
  <2>4. Cardinality(Creating(bucketsSize)) \in Nat /\ Cardinality(Thread) \in Nat
    BY <2>3, PlacesFinite
  <2> QED BY <2>1, <2>2, <2>4
<1> QED BY LoadInvariance, <1>1, PTL

-----------------------------------------------------------------------------

(* The refinement of ConcurrentMap: what the map's variables are here.     *)
Contents == [k \in Present |-> value[k]]
Holds == [t \in Thread |-> IF pc[t] \in AccessorSteps THEN acc[t].node ELSE None]

Nobody(k) == \A u \in Thread : Holds[u] # k

LEMMA MapCreates ==
    ASSUME NEW t \in Thread, NEW k \in Key \ Present, NEW v \in Val, Holds[t] = None,
           Contents' = [j \in Present \cup {k} |-> IF j = k THEN v ELSE Contents[j]],
           Holds' = [Holds EXCEPT ![t] = k]
    PROVE  Map!Next
<1>1. Map!Create(t)
    BY DEF Map!Create, Map!Present, Contents, Holds
<1> QED BY <1>1 DEF Map!Next

LEMMA MapAcquires ==
    ASSUME NEW t \in Thread, NEW k \in Present, Nobody(k),
           Holds' = [Holds EXCEPT ![t] = k], Contents' = Contents
    PROVE  Map!Next
<1>1. Map!Acquire(t)
    BY DEF Map!Acquire, Map!Present, Map!Free, Nobody, Contents, Holds
<1> QED BY <1>1 DEF Map!Next

LEMMA MapWrites ==
    ASSUME NEW t \in Thread, NEW v \in Val, Holds[t] # None,
           Contents' = [Contents EXCEPT ![Holds[t]] = v], Holds' = Holds
    PROVE  Map!Next
<1>1. Map!Write(t)
    BY DEF Map!Write, Contents, Holds
<1> QED BY <1>1 DEF Map!Next

LEMMA MapErases ==
    ASSUME NEW t \in Thread, Holds[t] # None, NEW k \in {None} \cup (Present \ {Holds[t]}),
           k # None => Nobody(k),
           Contents' = [j \in Present \ {Holds[t]} |-> Contents[j]],
           Holds' = [Holds EXCEPT ![t] = k]
    PROVE  Map!Next
<1>1. Map!Erase(t)
    BY DEF Map!Erase, Map!Restrict, Map!Present, Map!Free, Nobody, Contents, Holds
<1> QED BY <1>1 DEF Map!Next

LEMMA MapReleases ==
    ASSUME NEW t \in Thread, Holds[t] # None, Holds' = [Holds EXCEPT ![t] = None], Contents' = Contents
    PROVE  Map!Next
<1>1. Map!Release(t)
    BY DEF Map!Release, Contents, Holds
<1> QED BY <1>1 DEF Map!Next

LEMMA MapDrops ==
    ASSUME NEW k \in Present, \A u \in Thread : Holds[u] = None,
           Contents' = [j \in Present \ {k} |-> Contents[j]], Holds' = Holds
    PROVE  Map!Next
<1>1. Map!Drop
    BY DEF Map!Drop, Map!Restrict, Map!Present, Contents, Holds
<1> QED BY <1>1 DEF Map!Next

(* What a step leaves of the map: only its own thread's accessor changes,  *)
(* and the elements as the lemmas above say.                               *)
LEMMA HoldsNext ==
    ASSUME IInv, NEW t \in Thread, Call(t) \/ Progress(t) \/ Choice(t), NEW k,
           k = IF pc'[t] \in AccessorSteps THEN acc'[t].node ELSE None
    PROVE  Holds' = [Holds EXCEPT ![t] = k]
<1>1. ASSUME NEW u \in Thread, u # t PROVE pc'[u] = pc[u] /\ acc'[u] = acc[u]
    BY <1>1, OneThreadMoves DEF IInv
<1> QED BY <1>1 DEF Holds

LEMMA ContentsKept ==
    ASSUME Present' = Present, value' = value
    PROVE  Contents' = Contents
BY DEF Contents

(* An element of a bucket that no other thread owns is free.               *)
LEMMA OthersElsewhere ==
    ASSUME IInv, HInv, KInv, NEW t \in Thread, NEW i \in DOMAIN buckets, NEW k \in ToSet(buckets[i]),
           bmutex[i] \in {t, None}, NEW u \in Thread, u # t
    PROVE  Holds[u] # k
<1>1. k \in Key /\ k # None /\ u # None
  <2>1. k \in KeysIn(buckets)
    BY DEF KeysIn
  <2> QED BY <2>1, VectorsKnown, NoneAssumption
<1>2. CASE pc[u] \in AccessorSteps
  <2>1. acc[u].index \in DOMAIN buckets /\ acc[u].node \in ToSet(buckets[acc[u].index])
        /\ bmutex[acc[u].index] = u
    BY <1>2 DEF IInv, AccessorsLive, Chain
  <2>2. acc[u].index # i
    BY <1>1, <2>1
  <2>3. acc[u].node # k
    BY <2>1, <2>2, VectorsKnown DEF InHome
  <2> QED BY <1>2, <2>3 DEF Holds
<1>3. CASE pc[u] \notin AccessorSteps
    BY <1>1, <1>3 DEF Holds
<1> QED BY <1>2, <1>3

LEMMA PresentKeys ==
    ASSUME IInv, HInv, KInv
    PROVE  /\ Present \subseteq Key /\ None \notin Present
           /\ \A i \in DOMAIN buckets : ToSet(buckets[i]) \subseteq Present
<1>1. Present \subseteq Key
    BY VectorsKnown DEF Present
<1> QED BY <1>1, NoneAssumption DEF Present, KeysIn

(* An accessor holds an element.                                           *)
LEMMA HeldPresent ==
    ASSUME IInv, HInv, KInv, NEW t \in Thread, pc[t] \in AccessorSteps
    PROVE  Holds[t] = acc[t].node /\ acc[t].node \in Present /\ acc[t].node # None
BY PresentKeys DEF Holds, IInv, AccessorsLive, Chain

LEMMA AddIsCreate ==
    ASSUME IInv, HInv, KInv, NEW t \in Thread, AddNode(t)
    PROVE  Map!Next
<1> DEFINE k == call[t].key
<1>1. Adds(k)
    BY AddStep
<1>2. pc[t] = "add" /\ pc'[t] = "held" /\ acc'[t].node = k
    BY DEF AddNode, Goto, IInv, Shape, AccType
<1> HIDE DEF k
<1>3. PICK v \in Val : value' = [value EXCEPT ![k] = v]
    BY <1>1 DEF Adds
<1>4. Holds' = [Holds EXCEPT ![t] = k]
    BY <1>2, HoldsNext DEF AccessorSteps, Progress
<1>5. Contents' = [j \in Present \cup {k} |-> IF j = k THEN v ELSE Contents[j]]
  <2>1. Present' = Present \cup {k} /\ k \in Key /\ value \in [Key -> Val \cup {None}]
    BY <1>1 DEF Adds, KInv, ValueFits
  <2>2. ASSUME NEW j \in Present \cup {k} PROVE value'[j] = IF j = k THEN v ELSE Contents[j]
    BY <1>3, <2>1, <2>2, PresentKeys DEF Contents
  <2> QED BY <2>1, <2>2 DEF Contents
<1>6. Holds[t] = None
    BY <1>2 DEF Holds, AccessorSteps
<1>7. k \in Key \ Present
    BY <1>1 DEF Adds
<1> QED BY <1>4, <1>5, <1>6, <1>7, MapCreates

LEMMA EraseIsErase ==
    ASSUME IInv, HInv, KInv, NEW t \in Thread, EraseNode(t)
    PROVE  Map!Next
<1> DEFINE k == acc[t].node
           new == IF pc'[t] \in AccessorSteps THEN acc'[t].node ELSE None
<1>1. Removes(k)
    BY EraseStep
<1>2. pc[t] \in AccessorSteps /\ pc[t] = "erase"
    BY DEF EraseNode, AccessorSteps
<1>3. Holds[t] = k /\ k # None
    BY <1>2, HeldPresent
<1>4. new # None => new = Successor(t) /\ Successor(t) # None
    BY <1>2 DEF EraseNode, NextBucket, Goto, IInv, Shape, AccType, AccessorSteps
<1>5. ASSUME Successor(t) # None
      PROVE  Successor(t) \in Present \ {k} /\ Nobody(Successor(t))
  <2> DEFINE s == Successor(t)
             i == acc[t].index
  <2>1. /\ i \in DOMAIN buckets /\ Chain(t) = buckets[i] /\ Chain(t) \in Seq(Key)
        /\ bmutex[i] = t /\ s \in ToSet(Chain(t)) /\ s \in ToSet(RemoveAt(Chain(t), Position(t)))
        /\ Position(t) \in 1 .. Len(Chain(t)) /\ Chain(t)[Position(t)] = k
    BY <1>2, <1>5, AccessorChain DEF IInv, AccessorsLive, Chain
  <2>2. IsInjective(Chain(t))
    BY <2>1 DEF KInv, Chains
  <2>3. Loses(RemoveAt(Chain(t), Position(t)), Chain(t), k)
    BY <2>1, <2>2, RemovedDistinct
  <2>4. s # k
    BY <2>1, <2>3 DEF Loses
  <2>5. s \in Present
    BY <2>1, PresentKeys
  <2>6. \A u \in Thread \ {t} : Holds[u] # s
    BY <2>1, OthersElsewhere
  <2> QED BY <1>3, <2>4, <2>5, <2>6 DEF Nobody
<1>6. Holds' = [Holds EXCEPT ![t] = new]
    BY HoldsNext DEF Progress
<1> HIDE DEF k, new
<1>7. Contents' = [j \in Present \ {k} |-> Contents[j]]
  <2>1. Present' = Present \ {k} /\ value' = [value EXCEPT ![k] = None] /\ value \in [Key -> Val \cup {None}]
    BY <1>1 DEF Removes, KInv, ValueFits
  <2>2. ASSUME NEW j \in Present \ {k} PROVE value'[j] = Contents[j]
    BY <2>1, <2>2, PresentKeys DEF Contents
  <2> QED BY <2>1, <2>2 DEF Contents
<1>8. new \in {None} \cup (Present \ {k}) /\ (new # None => Nobody(new))
    BY <1>4, <1>5
<1>9. Contents' = [j \in Present \ {Holds[t]} |-> Contents[j]] /\ Holds[t] # None
    BY <1>3, <1>7
<1> QED BY <1>3, <1>6, <1>8, <1>9, MapErases

LEMMA DropIsDrop ==
    ASSUME IInv, HInv, KInv, NEW t \in Thread, UnwindOne(t) \/ ClearOne(t)
    PROVE  Map!Next
<1>1. PICK k : Removes(k)
    BY DropStep
<1>2. pc[t] \in ExclusiveSteps /\ pc' = pc /\ acc' = acc
    BY DEF UnwindOne, ClearOne, ExclusiveSteps
<1>3. \A u \in Thread : pc[u] \notin AccessorSteps
    BY <1>2 DEF IInv, WriterAlone, LocksMatchSteps, SharedSteps, BucketSteps
<1>4. Holds' = Holds /\ \A u \in Thread : Holds[u] = None
    BY <1>2, <1>3 DEF Holds
<1>5. Contents' = [j \in Present \ {k} |-> Contents[j]]
  <2>1. Present' = Present \ {k} /\ value' = [value EXCEPT ![k] = None] /\ value \in [Key -> Val \cup {None}]
    BY <1>1 DEF Removes, KInv, ValueFits
  <2>2. ASSUME NEW j \in Present \ {k} PROVE value'[j] = Contents[j]
    BY <2>1, <2>2, PresentKeys DEF Contents
  <2> QED BY <2>1, <2>2 DEF Contents
<1>6. k \in Present
    BY <1>1 DEF Removes
<1> QED BY <1>4, <1>5, <1>6, MapDrops

(* A step that takes, moves or gives back an accessor.                     *)
LEMMA ElementTaken ==
    ASSUME IInv, HInv, KInv, NEW t \in Thread, Call(t) \/ Progress(t) \/ Choice(t),
           Present' = Present, value' = value, pc'[t] \in AccessorSteps,
           NEW i \in DOMAIN buckets, acc'[t].node \in ToSet(buckets[i]), bmutex[i] \in {t, None},
           Holds[t] # acc'[t].node
    PROVE  Map!Next
<1> DEFINE k == acc'[t].node
<1>1. \A u \in Thread : Holds[u] # k
    BY OthersElsewhere
<1>2. Holds' = [Holds EXCEPT ![t] = k]
    BY HoldsNext
<1>3. k \in Present
    BY PresentKeys
<1>4. Contents' = Contents
    BY ContentsKept
<1> HIDE DEF k
<1> QED BY <1>1, <1>2, <1>3, <1>4, MapAcquires DEF Nobody

LEMMA ElementReleased ==
    ASSUME IInv, HInv, KInv, NEW t \in Thread, Call(t) \/ Progress(t) \/ Choice(t),
           Present' = Present, value' = value, pc[t] \in AccessorSteps, pc'[t] \notin AccessorSteps
    PROVE  Map!Next
<1>1. Holds[t] # None
    BY HeldPresent
<1>2. Holds' = [Holds EXCEPT ![t] = None]
    BY HoldsNext
<1>3. Contents' = Contents
    BY ContentsKept
<1> QED BY <1>1, <1>2, <1>3, MapReleases

LEMMA NothingSeen ==
    ASSUME IInv, NEW t \in Thread, Call(t) \/ Progress(t) \/ Choice(t), Present' = Present, value' = value,
           \/ pc[t] \notin AccessorSteps /\ pc'[t] \notin AccessorSteps
           \/ pc[t] \in AccessorSteps /\ pc'[t] \in AccessorSteps /\ acc'[t] = acc[t]
    PROVE  Contents' = Contents /\ Holds' = Holds
<1>1. Contents' = Contents
    BY ContentsKept
<1>2. \A u \in Thread : u # t => pc'[u] = pc[u] /\ acc'[u] = acc[u]
    BY OneThreadMoves DEF IInv
<1> QED BY <1>1, <1>2 DEF Holds

LEMMA AccessorSteppedOn ==
    ASSUME IInv, HInv, KInv, NEW t \in Thread,
           Find(t) \/ IterBucket(t) \/ IterNext(t), Present' = Present, value' = value
    PROVE  Map!Next \/ (Contents' = Contents /\ Holds' = Holds)
<1>1. Shape /\ IndexInTable /\ LocksMatchSteps /\ AccessorsLive
    BY DEF IInv
<1>2. Progress(t)
    BY DEF Progress
<1> USE DEF Shape, AccType, Goto, AccessorSteps
<1>3. CASE Find(t)
  <2> DEFINE k == call[t].key
             i == acc[t].index
  <2>1. i \in DOMAIN buckets /\ bmutex[i] = t /\ pc[t] = "find"
    BY <1>1, <1>3 DEF Find, IndexInTable, LocksMatchSteps, BucketSteps
  <2>2. CASE pc'[t] = "held"
    <3>1. k \in ToSet(buckets[i]) /\ acc'[t].node = k
      BY <1>1, <1>3, <2>2 DEF Find
    <3>2. Holds[t] # k
      BY <2>1, <3>1, PresentKeys DEF Holds
    <3> QED BY <1>2, <2>1, <2>2, <3>1, <3>2, ElementTaken
  <2>3. CASE pc'[t] # "held"
    <3>1. pc'[t] \notin AccessorSteps
      BY <1>1, <1>3, <2>3 DEF Find
    <3> QED BY <1>2, <2>1, <3>1, NothingSeen
  <2> QED BY <2>2, <2>3
<1>4. CASE IterBucket(t)
  <2> DEFINE i == acc[t].index
             k == Head(buckets[i])
  <2>1. i \in DOMAIN buckets /\ bmutex[i] = None /\ pc[t] = "iter_bucket"
    BY <1>1, <1>4, PrimeIsNat DEF IterBucket, BucketFree
  <2>2. CASE buckets[i] # <<>>
    <3>1. k \in ToSet(buckets[i])
      BY <1>1, <2>1, <2>2, PoppedChain
    <3>2. acc' = [acc EXCEPT ![t].node = k] /\ pc'[t] = "held"
      BY <1>1, <1>4, <2>2 DEF IterBucket
    <3>3. acc'[t].node = k
      BY <1>1, <3>2
    <3>4. Holds[t] # k
      BY <2>1, <3>1, PresentKeys DEF Holds
    <3> HIDE DEF k
    <3> QED BY <1>2, <2>1, <3>1, <3>2, <3>3, <3>4, ElementTaken
  <2>3. CASE buckets[i] = <<>>
    <3>1. pc'[t] \notin AccessorSteps
      BY <1>1, <1>4, <2>1, <2>3 DEF IterBucket
    <3> QED BY <1>2, <2>1, <3>1, NothingSeen
  <2> QED BY <2>2, <2>3
<1>5. CASE IterNext(t)
  <2> DEFINE i == acc[t].index
             s == Successor(t)
  <2>1. pc[t] = "held"
    BY <1>5 DEF IterNext
  <2>2. CASE s # None
    <3>1. acc' = [acc EXCEPT ![t].node = s] /\ pc' = pc
      BY <1>5, <2>2 DEF IterNext
    <3>2. /\ i \in DOMAIN buckets /\ Chain(t) = buckets[i] /\ Chain(t) \in Seq(Key) /\ bmutex[i] = t
          /\ s \in ToSet(Chain(t)) /\ s \in ToSet(RemoveAt(Chain(t), Position(t)))
          /\ Position(t) \in 1 .. Len(Chain(t)) /\ Chain(t)[Position(t)] = acc[t].node
      BY <1>1, <2>1, <2>2, AccessorChain DEF AccessorsLive, Chain
    <3>3. IsInjective(Chain(t))
      BY <3>2 DEF KInv, Chains
    <3>4. Loses(RemoveAt(Chain(t), Position(t)), Chain(t), acc[t].node)
      BY <3>2, <3>3, RemovedDistinct
    <3>5. Holds[t] # s
      BY <2>1, <3>2, <3>4, HeldPresent DEF Loses
    <3> HIDE DEF s
    <3>6. acc'[t].node = s
      BY <1>1, <3>1
    <3> QED BY <1>2, <2>1, <3>1, <3>2, <3>5, <3>6, ElementTaken
  <2>3. CASE s = None
    <3>1. pc'[t] \notin AccessorSteps
      BY <1>1, <1>5, <2>3 DEF IterNext
    <3> QED BY <1>2, <2>1, <3>1, ElementReleased
  <2> QED BY <2>2, <2>3
<1> QED BY <1>3, <1>4, <1>5

LEMMA MapStep ==
    ASSUME IInv, HInv, KInv, NEW t \in Thread, Call(t) \/ Progress(t) \/ Choice(t)
    PROVE  Map!Next \/ (Contents' = Contents /\ Holds' = Holds)
<1>1. Shape
    BY DEF IInv
<1>2. CASE AddNode(t)
    BY <1>2, AddIsCreate
<1>3. CASE EraseNode(t)
    BY <1>3, EraseIsErase
<1>4. CASE UnwindOne(t) \/ ClearOne(t)
    BY <1>4, DropIsDrop
<1>5. CASE Write(t)
  <2>1. Present' = Present
    BY <1>5 DEF Write, Present, KeysIn
  <2>2. pc[t] \in AccessorSteps /\ Holds' = Holds
    BY <1>5 DEF Write, AccessorSteps, Holds
  <2>3. Holds[t] = acc[t].node /\ acc[t].node \in Present /\ acc[t].node # None
    BY <2>2, HeldPresent
  <2>4. PICK v \in Val : value' = [value EXCEPT ![acc[t].node] = v]
    BY <1>5 DEF Write
  <2> DEFINE k == acc[t].node
  <2>5. Contents' = [Contents EXCEPT ![k] = v]
    <3>1. value \in [Key -> Val \cup {None}] /\ k \in Present /\ Present \subseteq Key
      BY <2>3, PresentKeys DEF KInv, ValueFits
    <3>2. value' = [value EXCEPT ![k] = v]
      BY <2>4
    <3> HIDE DEF k
    <3> QED BY <2>1, <3>1, <3>2 DEF Contents
  <2> QED BY <2>2, <2>3, <2>5, MapWrites
<1>6. CASE ~(AddNode(t) \/ EraseNode(t) \/ UnwindOne(t) \/ ClearOne(t) \/ Write(t))
  <2>1. Present' = Present
    BY <1>6, ElementsStep DEF Keeps
  <2>2. value' = value
    BY <1>6 DEF Call, Progress, Choice, vars, table, CallElement, CallClear, CallIterate, ResizeCheck, TakeGate,
           ClearBegin, ClearEnd, RehashThrow, LockTable, LockBucket, Find, UnlockBucket, UnlockTable,
           EraseSearch, IterTable, IterBucket, IterEnd, IterNext, IterFound, Release, Erase,
           RehashBegin, RehashMove, RehashEnd, UnwindEnd
  <2>3. CASE Find(t) \/ IterBucket(t) \/ IterNext(t)
    BY <2>1, <2>2, <2>3, AccessorSteppedOn
  <2>4. CASE Release(t)
    <3>1. pc[t] \in AccessorSteps /\ pc'[t] \notin AccessorSteps
      BY <1>1, <2>4 DEF Release, Goto, Shape, AccessorSteps
    <3> QED BY <2>1, <2>2, <3>1, ElementReleased
  <2>5. CASE Erase(t) \/ EraseSearch(t) \/ IterFound(t)
    <3>1. pc[t] \in AccessorSteps /\ pc'[t] \in AccessorSteps /\ acc'[t] = acc[t]
      BY <1>1, <2>5 DEF Erase, EraseSearch, IterFound, Goto, Shape, AccessorSteps, vars
    <3> QED BY <2>1, <2>2, <3>1, NothingSeen
  <2>6. CASE ~(Find(t) \/ IterBucket(t) \/ IterNext(t) \/ Release(t) \/ Erase(t) \/ EraseSearch(t)
               \/ IterFound(t))
    <3> USE DEF Shape, Goto, Return, AccessorSteps, vars, locks
    <3>1. CASE Call(t) \/ Choice(t)
      <4>1. pc[t] \notin AccessorSteps /\ pc'[t] \notin AccessorSteps
        BY <1>1, <1>6, <2>6, <3>1 DEF Call, Choice, CallElement, CallClear, CallIterate, RehashThrow
      <4> QED BY <2>1, <2>2, <4>1, NothingSeen
    <3>2. CASE ResizeCheck(t) \/ TakeGate(t) \/ ClearBegin(t) \/ ClearEnd(t)
      <4>1. pc[t] \notin AccessorSteps /\ pc'[t] \notin AccessorSteps
        BY <1>1, <3>2 DEF ResizeCheck, TakeGate, ClearBegin, ClearEnd
      <4> QED BY <2>1, <2>2, <4>1, NothingSeen
    <3>3. CASE RehashBegin(t) \/ RehashMove(t) \/ RehashEnd(t) \/ UnwindEnd(t)
      <4>1. pc[t] \notin AccessorSteps /\ pc'[t] \notin AccessorSteps
        BY <1>1, <3>3 DEF RehashBegin, RehashMove, RehashEnd, UnwindEnd
      <4> QED BY <2>1, <2>2, <4>1, NothingSeen
    <3>4. CASE LockTable(t) \/ LockBucket(t) \/ UnlockBucket(t) \/ UnlockTable(t)
      <4>1. pc[t] \notin AccessorSteps /\ pc'[t] \notin AccessorSteps
        BY <1>1, <3>4 DEF LockTable, LockBucket, UnlockBucket, UnlockTable
      <4> QED BY <2>1, <2>2, <4>1, NothingSeen
    <3>5. CASE IterTable(t) \/ IterEnd(t)
      <4>1. pc[t] \notin AccessorSteps /\ pc'[t] \notin AccessorSteps
        BY <1>1, <3>5 DEF IterTable, IterEnd
      <4> QED BY <2>1, <2>2, <4>1, NothingSeen
    <3> QED BY <1>6, <2>6, <3>1, <3>2, <3>3, <3>4, <3>5 DEF Progress
  <2> QED BY <2>3, <2>4, <2>5, <2>6
<1> QED BY <1>2, <1>3, <1>4, <1>5, <1>6

(* Every step of the table is one of the map's, or cannot be seen in it:   *)
(* rehash, failed lookups and the locks are the table's own affair.        *)
THEOREM Refinement == Spec => ImplementsMap
<1>1. Init => Map!Init
  <2> SUFFICES ASSUME Init PROVE Map!Init OBVIOUS
  <2>1. next_prime(InitBuckets) \in Nat
    BY NextPrime, PrimeIsNat, InitAssumption
  <2>2. Present = {}
    BY <2>1, EmptyVector DEF Init, Present
  <2>3. Contents = [k \in {} |-> None] /\ Holds = [t \in Thread |-> None]
    BY <2>2 DEF Contents, Holds, Init, AccessorSteps
  <2> QED BY <2>3 DEF Map!Init, Contents, Holds
<1>2. IInv /\ HInv /\ KInv /\ [Next]_vars => [Map!Next]_(Map!vars)
  <2>1. ASSUME IInv, HInv, KInv, NEW t \in Thread, Call(t) \/ Progress(t) \/ Choice(t)
        PROVE  [Map!Next]_(Map!vars)
    BY <2>1, MapStep DEF Map!vars, Contents, Holds
  <2>2. ASSUME UNCHANGED vars PROVE UNCHANGED Map!vars
    BY <2>2 DEF vars, table, Map!vars, Present, KeysIn
  <2> QED BY <2>1, <2>2 DEF Next
<1> QED BY KInvariance, <1>1, <1>2, PTL DEF Spec, ImplementsMap, Map!Spec

-----------------------------------------------------------------------------

(* An iterator between buckets, about to look into bucket i of n: it has   *)
(* seen the nodes of the buckets before, all of those that stayed.         *)
Past(saw, stay, i, n) ==
    /\ saw \subseteq Key
    /\ \A k \in saw : get_bucket_index(k, n) < i
    /\ \A k \in stay : get_bucket_index(k, n) < i => k \in saw

(* An iterator on a node of bucket i that has the nodes of rest before it. *)
On(saw, stay, i, rest, n) ==
    /\ saw \subseteq Key
    /\ \A k \in saw : get_bucket_index(k, n) <= i /\ k \notin rest
    /\ \A k \in stay : get_bucket_index(k, n) <= i => k \in saw \cup rest

LEMMA Entered ==
    ASSUME NEW n \in Nat \ {0}, NEW i \in Nat, NEW saw, NEW stay \in SUBSET Key, Past(saw, stay, i, n),
           NEW rest \in SUBSET Key, NEW h \in Key, h \notin rest,
           \A k \in rest \cup {h} : get_bucket_index(k, n) = i,
           \A k \in stay : get_bucket_index(k, n) = i => k \in rest \cup {h},
           NEW left \in SUBSET stay
    PROVE  h \notin saw /\ On(saw \cup {h}, left, i, rest, n)
<1>1. \A k \in Key : get_bucket_index(k, n) \in Nat
    BY IndexInRange
<1> HIDE DEF get_bucket_index
<1>2. \A k \in Key : get_bucket_index(k, n) <= i <=> get_bucket_index(k, n) < i \/ get_bucket_index(k, n) = i
    BY <1>1
<1>3. \A k \in Key : ~(get_bucket_index(k, n) < i /\ get_bucket_index(k, n) = i)
    BY <1>1
<1> QED BY <1>2, <1>3 DEF Past, On

LEMMA Skipped ==
    ASSUME NEW n \in Nat \ {0}, NEW i \in Nat, NEW saw, NEW stay \in SUBSET Key, Past(saw, stay, i, n),
           \A k \in stay : get_bucket_index(k, n) # i, NEW left \in SUBSET stay
    PROVE  Past(saw, left, i + 1, n)
<1>1. \A k \in Key : get_bucket_index(k, n) \in Nat
    BY IndexInRange
<1>2. \A k \in Key : get_bucket_index(k, n) < i + 1 <=> get_bucket_index(k, n) < i \/ get_bucket_index(k, n) = i
    BY <1>1
<1> QED BY <1>2 DEF Past

LEMMA MovedOn ==
    ASSUME NEW n \in Nat \ {0}, NEW i \in Nat, NEW saw, NEW stay, NEW rest, NEW h \in Key, h \notin rest,
           On(saw, stay, i, {h} \cup rest, n), get_bucket_index(h, n) = i, NEW left \in SUBSET stay
    PROVE  h \notin saw /\ On(saw \cup {h}, left, i, rest, n)
BY DEF On

LEMMA MovedOut ==
    ASSUME NEW n \in Nat \ {0}, NEW i \in Nat, NEW saw, NEW stay \in SUBSET Key, On(saw, stay, i, {}, n),
           NEW left \in SUBSET stay
    PROVE  Past(saw, left, i + 1, n)
<1>1. \A k \in Key : get_bucket_index(k, n) \in Nat
    BY IndexInRange
<1>2. \A k \in Key : get_bucket_index(k, n) < i + 1 <=> get_bucket_index(k, n) <= i
    BY <1>1
<1> QED BY <1>2 DEF Past, On

(* The inductive invariant: an iterator has seen what it has passed.       *)
Tracked(t) ==
    /\ pc[t] = "idle" => ~Iterating(t)
    /\ pc[t] \in {"iter_table", "iter_bucket"} => Iterating(t)
    /\ pc[t] \in {"idle", "iter_table"} => acc[t].index = 0 /\ seen[t] = {}
    /\ pc[t] \in {"iter_bucket"} \cup AccessorSteps => stayed[t] \subseteq Present
    /\ Iterating(t) /\ pc[t] = "iter_bucket" =>
          Past(seen[t], stayed[t], acc[t].index, bucketsSize)
    /\ Iterating(t) /\ pc[t] \in AccessorSteps =>
          On(seen[t], stayed[t], acc[t].index, After(Chain(t), acc[t].node), bucketsSize)

JInv == \A t \in Thread : Tracked(t)

TInv == IInv /\ HInv /\ KInv /\ LoadInv

(* No thread's history changes with another thread's step but by what is   *)
(* no longer present; the chain it is in stays as it is.                   *)
LEMMA OtherTracked ==
    ASSUME TInv, NEW t \in Thread, Call(t) \/ Progress(t) \/ Choice(t), Record,
           NEW u \in Thread, u # t, Tracked(u)
    PROVE  Tracked(u)'
<1>1. Shape /\ IndexInTable /\ LocksMatchSteps /\ WriterAlone /\ AccessorsLive
    BY DEF TInv, IInv
<1>2. pc'[u] = pc[u] /\ call'[u] = call[u] /\ acc'[u] = acc[u]
    BY <1>1, OneThreadMoves
<1>3. Iterating(u)' <=> Iterating(u)
    BY <1>2 DEF Iterating
<1>4. seen'[u] = IF Iterating(u) THEN seen[u] ELSE {}
    BY <1>2, <1>3 DEF Record, Arrives
<1>5. pc[u] \notin {"idle", "iter_table"} /\ Iterating(u) => stayed'[u] \subseteq stayed[u] /\ stayed'[u] \subseteq Present'
    BY <1>2, <1>3 DEF Record
<1>6. ~Iterating(u) => stayed'[u] = {}
    BY <1>3 DEF Record
<1>7. pc[u] \in {"iter_bucket"} \cup AccessorSteps => pc[t] \notin ExclusiveSteps /\ bucketsSize' = bucketsSize
    BY <1>1, OnlyWriterRebuilds
    DEF LocksMatchSteps, WriterAlone, SharedSteps, BucketSteps, ExclusiveSteps
<1>8. ASSUME pc[u] \in AccessorSteps PROVE Chain(u)' = Chain(u)
  <2>1. acc[u].index \in DOMAIN buckets /\ bmutex[acc[u].index] = u
    BY <1>1, <1>8 DEF AccessorsLive
  <2>2. pc[t] \in {"add", "erase"} => acc[t].index # acc[u].index
    <3>1. pc[t] \in {"add", "erase"} => bmutex[acc[t].index] = t
      BY <1>1 DEF LocksMatchSteps, IndexInTable, BucketSteps, AccessorSteps, Shape
    <3> QED BY <2>1, <3>1
  <2>3. buckets'[acc[u].index] = buckets[acc[u].index]
    BY <1>1, <1>7, <1>8, <2>1, <2>2, OnlyOwnerChanges
  <2> QED BY <1>2, <2>3 DEF Chain
<1>9. pc[u] \in {"iter_bucket"} \cup AccessorSteps => pc[u] \notin {"idle", "iter_table"}
    BY DEF AccessorSteps
<1>10. pc'[u] \in {"iter_bucket"} \cup AccessorSteps => stayed'[u] \subseteq Present'
    BY <1>2, <1>5, <1>6, <1>9
<1>11. ASSUME Iterating(u), pc[u] = "iter_bucket"
       PROVE  Past(seen'[u], stayed'[u], acc'[u].index, bucketsSize')
    BY <1>2, <1>4, <1>5, <1>7, <1>11 DEF Tracked, Past
<1>12. ASSUME Iterating(u), pc[u] \in AccessorSteps
       PROVE  On(seen'[u], stayed'[u], acc'[u].index, After(Chain(u), acc[u].node), bucketsSize')
    BY <1>2, <1>4, <1>5, <1>7, <1>9, <1>12 DEF Tracked, On
<1>13. pc[u] \in AccessorSteps => After(Chain(u)', acc'[u].node) = After(Chain(u), acc[u].node)
    BY <1>2, <1>8
<1>14. ASSUME Iterating(u), pc[u] \in AccessorSteps
       PROVE  On(seen'[u], stayed'[u], acc'[u].index, After(Chain(u)', acc'[u].node), bucketsSize')
    BY <1>12, <1>13, <1>14
<1>15. pc'[u] \in {"idle", "iter_table"} => acc'[u].index = 0 /\ seen'[u] = {}
    BY <1>2, <1>4 DEF Tracked
<1>16. /\ pc'[u] = "idle" => ~Iterating(u)'
       /\ pc'[u] \in {"iter_table", "iter_bucket"} => Iterating(u)'
    BY <1>2, <1>3 DEF Tracked
<1> QED BY <1>2, <1>3, <1>10, <1>11, <1>14, <1>15, <1>16 DEF Tracked, After, Chain

(* What the bucket of a thread that shares the table holds.                *)
LEMMA BucketHolds ==
    ASSUME TInv, NEW t \in Thread, pc[t] \in SharedSteps
    PROVE  /\ bucketsSize \in Nat \ {0} /\ Present = KeysIn(buckets) /\ Present \subseteq Key
           /\ \A i \in 0 .. bucketsSize - 1 : \A k \in Key :
                 k \in ToSet(buckets[i]) <=> k \in Present /\ get_bucket_index(k, bucketsSize) = i
<1>1. KeysIn(tmp) = {}
    BY DEF TInv, IInv, HInv, TmpIdle, LocksMatchSteps, WriterAlone, ExclusiveSteps
<1>2. bucketsSize \in Nat \ {0} /\ DOMAIN buckets = 0 .. bucketsSize - 1 /\ InHome(buckets)
    BY VectorsKnown DEF TInv
<1>3. Cardinality(DOMAIN buckets) = bucketsSize
    BY <1>2, VectorSize
<1>4. Present = KeysIn(buckets) /\ Present \subseteq Key
    BY <1>1, PresentKeys DEF Present, TInv
<1>5. ASSUME NEW i \in 0 .. bucketsSize - 1, NEW k \in Key
      PROVE  k \in ToSet(buckets[i]) <=> k \in Present /\ get_bucket_index(k, bucketsSize) = i
  <2>1. k \in ToSet(buckets[i]) => k \in Present /\ get_bucket_index(k, bucketsSize) = i
    BY <1>2, <1>3, <1>4 DEF InHome, KeysIn
  <2>2. ASSUME k \in Present, get_bucket_index(k, bucketsSize) = i PROVE k \in ToSet(buckets[i])
    <3>1. PICK j \in DOMAIN buckets : k \in ToSet(buckets[j])
      BY <1>4, <2>2 DEF KeysIn
    <3>2. j = i
      BY <1>2, <1>3, <2>2, <3>1 DEF InHome
    <3> QED BY <3>1, <3>2
  <2> QED BY <2>1, <2>2
<1> QED BY <1>2, <1>4, <1>5

(* Into a bucket, or past an empty one.                                    *)
LEMMA BucketTracked ==
    ASSUME TInv, NEW t \in Thread, IterBucket(t), Record, Tracked(t), Iterating(t)
    PROVE  Tracked(t)' /\ (Arrives(t) => acc'[t].node \notin seen[t])
<1> DEFINE i == acc[t].index
           n == bucketsSize
           c == buckets[i]
           saw == seen[t]
           stay == stayed[t]
<1>1. Shape /\ pc[t] = "iter_bucket" /\ pc[t] \in SharedSteps
    BY DEF TInv, IInv, IterBucket, SharedSteps
<1>2. call' = call /\ Iterating(t)' /\ buckets' = buckets /\ tmp' = tmp /\ bucketsSize' = n
    BY DEF IterBucket, table, Iterating
<1>3. n \in Nat \ {0} /\ i \in 0 .. n - 1 /\ c \in Seq(Key) /\ IsInjective(c)
    BY <1>1, BucketHolds, VectorsKnown DEF IterBucket, Shape, AccType, TInv, Vectors, Chains
<1>4. saw \subseteq Key /\ stay \subseteq Present /\ stay \subseteq Key /\ Past(saw, stay, i, n)
    BY <1>1, BucketHolds DEF Tracked, Past
<1>5. Present' = Present
    BY <1>2 DEF Present, KeysIn
<1>6. stayed'[t] \subseteq stay /\ stayed'[t] \subseteq Present'
    BY <1>1, <1>2 DEF Record
<1>7. seen'[t] = IF Arrives(t) THEN saw \cup {acc'[t].node} ELSE saw
    BY <1>2 DEF Record
<1>8. \A k \in Key : k \in ToSet(c) <=> k \in Present /\ get_bucket_index(k, n) = i
    BY <1>1, <1>3, BucketHolds
<1>9. CASE c # <<>>
  <2> DEFINE h == Head(c)
             rest == After(c, h)
  <2>1. pc'[t] = "held" /\ acc' = [acc EXCEPT ![t].node = h]
    BY <1>1, <1>9 DEF IterBucket, Goto, Shape
  <2>2. h \in Key /\ ToSet(c) = {h} \cup rest /\ h \notin rest
    BY <1>3, <1>9, AfterHead, PoppedChain
  <2>3. rest \subseteq Key
    <3>1. KeysIn(buckets) \subseteq Key /\ i \in DOMAIN buckets
      BY <1>1, <1>3, VectorsKnown DEF TInv, Shape
    <3>2. ToSet(c) \subseteq Key
      BY <3>1 DEF KeysIn
    <3> QED BY <2>2, <3>2
  <2>4. acc'[t].node = h /\ acc'[t].index = i
    BY <1>1, <2>1 DEF Shape, AccType
  <2>5. Arrives(t)
    BY <1>1, <1>2, <2>1 DEF Arrives
  <2>6. After(Chain(t)', acc'[t].node) = rest
    BY <1>2, <2>4 DEF Chain
  <2> HIDE DEF i, n, c, saw, stay, h, rest
  <2>7. h \notin saw /\ On(saw \cup {h}, stayed'[t], i, rest, n)
    BY <1>3, <1>4, <1>6, <1>8, <2>2, <2>3, Entered
  <2>8. On(seen'[t], stayed'[t], acc'[t].index, After(Chain(t)', acc'[t].node), bucketsSize')
    BY <1>2, <1>7, <2>4, <2>5, <2>6, <2>7
  <2> QED BY <1>2, <1>6, <2>1, <2>4, <2>7, <2>8 DEF Tracked, After, Chain, saw
<1>10. CASE c = <<>>
  <2>1. pc'[t] = "iter_bucket" /\ acc' = [acc EXCEPT ![t].index = i + 1]
    BY <1>1, <1>10 DEF IterBucket
  <2>2. acc'[t].index = i + 1
    BY <1>1, <2>1 DEF Shape, AccType
  <2>3. ~Arrives(t)
    BY <2>1 DEF Arrives
  <2>4. \A k \in stay : get_bucket_index(k, n) # i
    BY <1>4, <1>8, <1>10 DEF ToSet
  <2> HIDE DEF i, n, c, saw, stay
  <2>5. i \in Nat /\ stayed'[t] \in SUBSET stay /\ stay \in SUBSET Key
    BY <1>3, <1>4, <1>6
  <2>6. Past(saw, stayed'[t], i + 1, n)
    BY ONLY <1>3, <1>4, <2>4, <2>5, Skipped
  <2> QED BY <1>2, <1>6, <1>7, <2>1, <2>2, <2>3, <2>6 DEF Tracked, AccessorSteps
<1> QED BY <1>9, <1>10

(* From a node to the next, or out of the bucket, with erase or without.   *)
LEMMA NodeTracked ==
    ASSUME TInv, NEW t \in Thread, IterNext(t) \/ EraseNode(t), Record, Tracked(t), Iterating(t)
    PROVE  Tracked(t)' /\ (Arrives(t) => acc'[t].node \notin seen[t])
<1> DEFINE i == acc[t].index
           n == bucketsSize
           c == buckets[i]
           p == Position(t)
           s == Successor(t)
           saw == seen[t]
           stay == stayed[t]
<1>1. Shape /\ AccessorsLive /\ pc[t] \in {"held", "erase"} /\ pc[t] \in AccessorSteps /\ pc[t] \in SharedSteps
    BY DEF TInv, IInv, IterNext, EraseNode, SharedSteps, BucketSteps, AccessorSteps
<1>2. call' = call /\ Iterating(t)' /\ bucketsSize' = n /\ call[t].type = "iterate"
    BY DEF IterNext, EraseNode, table, Iterating
<1>3. n \in Nat \ {0} /\ i \in 0 .. n - 1 /\ i \in Nat /\ c \in Seq(Key) /\ IsInjective(c)
    BY <1>1, BucketHolds, VectorsKnown DEF AccessorsLive, Shape, AccType, TInv, Vectors, Chains
<1>4. saw \subseteq Key /\ stay \subseteq Key /\ On(saw, stay, i, After(c, acc[t].node), n)
    BY <1>1, <1>2, BucketHolds DEF Tracked, On, Chain, Iterating
<1>5. stayed'[t] \subseteq stay /\ stayed'[t] \subseteq Present'
    BY <1>1, <1>2 DEF Record
<1>6. seen'[t] = IF Arrives(t) THEN saw \cup {acc'[t].node} ELSE saw
    BY <1>2 DEF Record
<1>7. p \in 1 .. Len(c) /\ c[p] = acc[t].node
      /\ s = IF p = Len(c) THEN None ELSE c[p + 1]
    BY <1>1, AccessorChain DEF TInv, IInv, Chain, Successor
<1>8. CASE s # None
  <2> DEFINE rest == After(c, s)
  <2>1. pc'[t] = "held" /\ acc' = [acc EXCEPT ![t].node = s]
    BY <1>1, <1>2, <1>8 DEF IterNext, EraseNode, Goto, Shape
  <2>2. acc'[t].node = s /\ acc'[t].index = i
    BY <1>1, <2>1 DEF Shape, AccType
  <2>3. p # Len(c) /\ s = c[p + 1]
    BY <1>7, <1>8
  <2>4. /\ After(c, c[p]) = {s} \cup rest /\ s \notin rest /\ s # c[p]
        /\ After(RemoveAt(c, p), s) = rest
    BY <1>3, <1>7, <2>3, AfterNext
  <2>5. Arrives(t)
    BY <1>2, <1>7, <2>1, <2>2, <2>4 DEF Arrives
  <2>6. After(Chain(t)', acc'[t].node) = rest
    <3>1. CASE IterNext(t)
      <4>1. Chain(t)' = c
        BY <2>2, <3>1 DEF IterNext, table, Chain
      <4> QED BY <2>2, <4>1
    <3>2. CASE EraseNode(t)
      <4>1. Chain(t)' = RemoveAt(c, p)
        BY <1>1, <1>3, <2>2, <3>2 DEF EraseNode, Chain, Shape
      <4> QED BY <2>2, <2>4, <4>1
    <3> QED BY <3>1, <3>2
  <2>7. s \in Key /\ get_bucket_index(s, n) = i
    <3>1. s \in Key /\ s \in ToSet(c)
      BY <1>1, <1>8, AccessorChain, NoneAssumption DEF TInv, IInv, Chain
    <3> QED BY <1>1, <1>3, <3>1, BucketHolds
  <2> HIDE DEF i, n, c, p, s, saw, stay, rest
  <2>8. s \notin saw /\ On(saw \cup {s}, stayed'[t], i, rest, n)
    BY <1>3, <1>4, <1>5, <1>7, <2>4, <2>7, MovedOn
  <2>9. On(seen'[t], stayed'[t], acc'[t].index, After(Chain(t)', acc'[t].node), bucketsSize')
    BY <1>2, <1>6, <2>2, <2>5, <2>6, <2>8
  <2> QED BY <1>2, <1>5, <2>1, <2>2, <2>8, <2>9 DEF Tracked, After, Chain, saw
<1>9. CASE s = None
  <2>1. pc'[t] = "iter_bucket" /\ NextBucket(t)
    BY <1>1, <1>2, <1>9 DEF IterNext, EraseNode, Goto, Shape
  <2>2. acc'[t].index = i + 1
    BY <1>1, <2>1 DEF Shape, AccType, NextBucket
  <2>3. p = Len(c)
    <3>1. ASSUME p # Len(c) PROVE FALSE
      <4>1. p + 1 \in 1 .. Len(c) /\ s = c[p + 1]
        BY <1>3, <1>7, <3>1, LenProperties
      <4>2. s \in Key
        BY <1>3, <4>1, ElementOfSeq
      <4> QED BY <1>9, <4>2, NoneAssumption
    <3> QED BY <3>1
  <2>4. After(c, acc[t].node) = {}
    BY <1>3, <1>7, <2>3, AfterNext
  <2>5. ~Arrives(t)
    BY <2>1 DEF Arrives
  <2> HIDE DEF i, n, c, p, s, saw, stay
  <2>6. Past(saw, stayed'[t], i + 1, n)
    BY <1>3, <1>4, <1>5, <2>4, MovedOut
  <2> QED BY <1>2, <1>5, <1>6, <2>1, <2>2, <2>5, <2>6 DEF Tracked, AccessorSteps
<1> QED BY <1>8, <1>9

(* A call begins and ends without an accessor; only an iteration is at an  *)
(* iterator's steps.                                                       *)
LEMMA CallEnds ==
    ASSUME Shape, NEW t \in Thread, Call(t) \/ Progress(t) \/ Choice(t), pc'[t] = "idle"
    PROVE  acc'[t] = NoAccessor /\ call'[t] = NoCall
<1> USE DEF Shape, Goto, Return
<1>1. CASE Call(t) \/ Choice(t)
    BY <1>1 DEF Call, CallElement, CallClear, CallIterate, Choice, Write, Erase, IterFound, RehashThrow, locks
<1>2. CASE ResizeCheck(t) \/ TakeGate(t) \/ ClearBegin(t) \/ ClearOne(t) \/ ClearEnd(t)
    BY <1>2 DEF ResizeCheck, TakeGate, ClearBegin, ClearOne, ClearEnd, locks
<1>3. CASE RehashBegin(t) \/ RehashMove(t) \/ RehashEnd(t) \/ UnwindOne(t) \/ UnwindEnd(t)
    BY <1>3 DEF RehashBegin, RehashMove, RehashEnd, UnwindOne, UnwindEnd, locks
<1>4. CASE LockTable(t) \/ LockBucket(t) \/ Find(t) \/ AddNode(t) \/ UnlockBucket(t) \/ UnlockTable(t)
    BY <1>4 DEF LockTable, LockBucket, Find, AddNode, UnlockBucket, UnlockTable
<1>5. CASE EraseNode(t) \/ IterNext(t)
    BY <1>5 DEF EraseNode, IterNext
<1>6. CASE EraseSearch(t) \/ IterTable(t) \/ IterBucket(t) \/ IterEnd(t) \/ Release(t)
    BY <1>6 DEF EraseSearch, IterTable, IterBucket, IterEnd, Release, vars
<1> QED BY <1>1, <1>2, <1>3, <1>4, <1>5, <1>6 DEF Progress

LEMMA IteratorSteps ==
    ASSUME Shape, NEW t \in Thread, Call(t) \/ Progress(t) \/ Choice(t), Tracked(t),
           pc'[t] \in {"iter_table", "iter_bucket"}
    PROVE  Iterating(t)'
<1> USE DEF Shape, Goto, Return, Iterating, Tracked
<1>1. CASE Call(t) \/ Choice(t)
    BY <1>1 DEF Call, CallElement, CallClear, CallIterate, Choice, Write, Erase, IterFound, RehashThrow, locks
<1>2. CASE ResizeCheck(t) \/ TakeGate(t) \/ ClearBegin(t) \/ ClearOne(t) \/ ClearEnd(t)
    BY <1>2 DEF ResizeCheck, TakeGate, ClearBegin, ClearOne, ClearEnd, locks
<1>3. CASE RehashBegin(t) \/ RehashMove(t) \/ RehashEnd(t) \/ UnwindOne(t) \/ UnwindEnd(t)
    BY <1>3 DEF RehashBegin, RehashMove, RehashEnd, UnwindOne, UnwindEnd, locks
<1>4. CASE LockTable(t) \/ LockBucket(t) \/ Find(t) \/ AddNode(t) \/ UnlockBucket(t) \/ UnlockTable(t)
    BY <1>4 DEF LockTable, LockBucket, Find, AddNode, UnlockBucket, UnlockTable
<1>5. CASE EraseNode(t) \/ IterNext(t)
    BY <1>5 DEF EraseNode, IterNext
<1>6. CASE EraseSearch(t) \/ IterTable(t) \/ IterBucket(t) \/ IterEnd(t) \/ Release(t)
    BY <1>6 DEF EraseSearch, IterTable, IterBucket, IterEnd, Release, vars
<1> QED BY <1>1, <1>2, <1>3, <1>4, <1>5, <1>6 DEF Progress

(* Off an iteration nothing is recorded.                                   *)
LEMMA OffTracked ==
    ASSUME TInv, NEW t \in Thread, Call(t) \/ Progress(t) \/ Choice(t), Record, Tracked(t), ~Iterating(t)'
    PROVE  Tracked(t)' /\ ~Arrives(t)
<1>1. seen'[t] = {} /\ stayed'[t] = {} /\ ~Arrives(t)
    BY DEF Record, Arrives
<1>2. pc'[t] \notin {"iter_table", "iter_bucket"}
    BY IteratorSteps DEF TInv, IInv
<1>3. pc'[t] = "idle" => acc'[t].index = 0
    BY CallEnds DEF TInv, IInv, NoAccessor
<1> QED BY <1>1, <1>2, <1>3 DEF Tracked

(* An iterator that stays where it is, and one that is being made.         *)
LEMMA StillTracked ==
    ASSUME TInv, NEW t \in Thread, Write(t) \/ Erase(t) \/ EraseSearch(t), Record, Tracked(t), Iterating(t)'
    PROVE  Tracked(t)' /\ ~Arrives(t)
<1> USE DEF Write, Erase, EraseSearch
<1>1. Shape /\ pc[t] \in AccessorSteps /\ pc'[t] \in AccessorSteps
    BY DEF TInv, IInv, AccessorSteps, Goto, Shape, vars
<1>2. call' = call /\ acc' = acc /\ buckets' = buckets /\ bucketsSize' = bucketsSize /\ Iterating(t)
    BY DEF vars, table, Iterating
<1>3. ~Arrives(t)
    BY <1>1, <1>2 DEF Arrives, AccessorSteps, Goto, Shape, vars
<1>4. seen'[t] = seen[t] /\ stayed'[t] \subseteq stayed[t] /\ stayed'[t] \subseteq Present'
    BY <1>1, <1>3 DEF Record, AccessorSteps
<1>5. On(seen[t], stayed[t], acc[t].index, After(Chain(t), acc[t].node), bucketsSize)
    BY <1>1, <1>2 DEF Tracked
<1>6. On(seen'[t], stayed'[t], acc'[t].index, After(Chain(t), acc'[t].node), bucketsSize')
    BY <1>2, <1>4, <1>5 DEF On
<1>7. Chain(t)' = Chain(t)
    BY <1>2 DEF Chain
<1>8. pc'[t] \notin {"idle", "iter_table", "iter_bucket"}
    BY <1>1 DEF AccessorSteps
<1>9. On(seen'[t], stayed'[t], acc'[t].index, After(Chain(t)', acc'[t].node), bucketsSize')
    BY <1>6, <1>7
<1> QED BY <1>3, <1>4, <1>8, <1>9 DEF Tracked, After, Chain

LEMMA StartTracked ==
    ASSUME TInv, NEW t \in Thread, CallIterate(t) \/ IterTable(t), Record, Tracked(t)
    PROVE  Tracked(t)' /\ ~Arrives(t)
<1>1. Shape /\ pc[t] \in {"idle", "iter_table"} /\ acc' = acc /\ acc[t].index = 0 /\ seen[t] = {}
    BY DEF TInv, IInv, CallIterate, IterTable, Tracked
<1>2. Iterating(t)' /\ pc'[t] \in {"iter_table", "iter_bucket"} /\ ~Arrives(t)
    BY <1>1 DEF CallIterate, IterTable, Goto, Shape, Iterating, Tracked, Arrives
<1>3. seen'[t] = {} /\ stayed'[t] = Present'
    BY <1>1, <1>2 DEF Record
<1>4. Present' \subseteq Key /\ bucketsSize' \in Nat \ {0}
  <2>1. Present \subseteq Key /\ bucketsSize \in Nat \ {0}
    BY PresentKeys, VectorsKnown DEF TInv
  <2>2. Present' = Present /\ bucketsSize' = bucketsSize
    BY DEF CallIterate, IterTable, table, Present, KeysIn
  <2> QED BY <2>1, <2>2
<1>5. \A k \in Present' : ~(get_bucket_index(k, bucketsSize') < 0)
  <2>1. ASSUME NEW n \in Nat \ {0}, NEW k \in Key PROVE ~(get_bucket_index(k, n) < 0)
    BY IndexInRange, <2>1
  <2> QED BY <1>4, <2>1
<1>6. Past({}, Present', 0, bucketsSize')
    BY <1>5 DEF Past
<1>7. Past(seen'[t], stayed'[t], acc'[t].index, bucketsSize')
    BY <1>1, <1>3, <1>6
<1> QED BY <1>1, <1>2, <1>3, <1>7 DEF Tracked, AccessorSteps

(* An iterator that is given back before its end.                          *)
LEMMA LeftTracked ==
    ASSUME TInv, NEW t \in Thread, Record, Iterating(t)',
           pc'[t] \notin {"idle", "iter_table", "iter_bucket"} \cup AccessorSteps
    PROVE  Tracked(t)' /\ ~Arrives(t)
BY DEF Tracked, Arrives, AccessorSteps

(* The steps of one thread keep what its own iterator has seen.            *)
LEMMA OwnTracked ==
    ASSUME TInv, NEW t \in Thread, Call(t) \/ Progress(t) \/ Choice(t), Record, Tracked(t)
    PROVE  Tracked(t)' /\ (Arrives(t) => acc'[t].node \notin seen[t])
<1>1. CASE ~Iterating(t)'
    BY <1>1, OffTracked
<1>2. CASE Iterating(t)'
  <2>1. Shape /\ CallsTyped
    BY DEF TInv, IInv, LoadInv
  <2>2. CASE CallElement(t) \/ CallClear(t) \/ IterFound(t)
    <3>1. call'[t].type # "iterate"
      BY <2>1, <2>2 DEF CallElement, CallClear, IterFound, Shape, InsertTypes
    <3> QED BY <1>2, <3>1 DEF Iterating
  <2>3. CASE ClearEnd(t) \/ UnwindEnd(t) \/ UnlockTable(t) \/ IterEnd(t)
    <3>1. call'[t] = NoCall
      BY <2>1, <2>3 DEF ClearEnd, UnwindEnd, UnlockTable, IterEnd, Return, Shape
    <3> QED BY <1>2, <3>1, NoneAssumption DEF Iterating, NoCall, Calls
  <2>4. CASE CallIterate(t) \/ IterTable(t)
    BY <2>4, StartTracked
  <2>5. CASE Write(t) \/ Erase(t) \/ EraseSearch(t)
    BY <1>2, <2>5, StillTracked
  <2>6. CASE IterBucket(t) \/ IterNext(t) \/ EraseNode(t)
    <3>1. Iterating(t)
      BY <1>2, <2>6 DEF IterBucket, IterNext, EraseNode, Iterating
    <3> QED BY <2>6, <3>1, BucketTracked, NodeTracked
  <2>7. CASE Release(t) \/ UnlockBucket(t) \/ ClearOne(t)
    <3>1. pc'[t] \in {"unlock_bucket", "unlock_table", "clear"}
      BY <2>1, <2>7 DEF Release, UnlockBucket, ClearOne, Goto, Shape
    <3> QED BY <1>2, <3>1, LeftTracked DEF AccessorSteps
  <2>8. CASE ResizeCheck(t) \/ RehashBegin(t) \/ RehashMove(t) \/ RehashEnd(t) \/ RehashThrow(t) \/ UnwindOne(t)
             \/ TakeGate(t) \/ ClearBegin(t) \/ LockTable(t) \/ LockBucket(t) \/ Find(t) \/ AddNode(t)
    <3>1. pc[t] \in {"resize", "gate", "drain", "rehash", "unwind"} \cup FindSteps
      BY <2>8 DEF ResizeCheck, RehashBegin, RehashMove, RehashEnd, RehashThrow, UnwindOne, TakeGate, ClearBegin,
             LockTable, LockBucket, Find, AddNode, FindSteps
    <3>2. call[t].type \in InsertTypes \cup {"clear"}
      BY <2>1, <3>1 DEF CallsTyped, CreateTypes, InsertTypes
    <3>3. call'[t].type = call[t].type
      BY <2>1, <2>8 DEF ResizeCheck, RehashBegin, RehashMove, RehashEnd, RehashThrow, UnwindOne, TakeGate,
             ClearBegin, LockTable, LockBucket, Find, AddNode, Shape
    <3> QED BY <1>2, <3>2, <3>3 DEF Iterating, InsertTypes
  <2> QED BY <2>2, <2>3, <2>4, <2>5, <2>6, <2>7, <2>8 DEF Call, Progress, Choice
<1> QED BY <1>1, <1>2

-----------------------------------------------------------------------------

LEMMA InitJInv == HInit => JInv
<1> SUFFICES ASSUME HInit, NEW t \in Thread PROVE Tracked(t)
    BY DEF JInv
<1> QED BY NoneAssumption DEF HInit, Init, Tracked, Iterating, NoCall, NoAccessor, AccessorSteps, Calls

LEMMA JStep ==
    ASSUME TInv, JInv, HNext
    PROVE  JInv' /\ \A u \in Thread : Arrives(u) => acc'[u].node \notin seen[u]
<1>1. PICK t \in Thread : Call(t) \/ Progress(t) \/ Choice(t)
    BY DEF HNext, Next
<1>2. Record
    BY DEF HNext
<1>3. ASSUME NEW u \in Thread
      PROVE  Tracked(u)' /\ (Arrives(u) => acc'[u].node \notin seen[u])
  <2>1. Tracked(u)
    BY DEF JInv
  <2>2. CASE u = t
    BY <1>1, <1>2, <2>1, <2>2, OwnTracked
  <2>3. CASE u # t
    <3>1. Tracked(u)'
      BY <1>1, <1>2, <2>1, <2>3, OtherTracked
    <3>2. ~Arrives(u)
      BY <1>1, <2>3, OneThreadMoves DEF TInv, IInv, Arrives
    <3> QED BY <3>1, <3>2
  <2> QED BY <2>2, <2>3
<1> QED BY <1>3 DEF JInv

LEMMA TrackInvariance == HSpec => [](TInv /\ JInv)
<1>1. HInit => Init
    BY DEF HInit
<1>2. [HNext]_<<vars, history>> => [Next]_vars
    BY DEF HNext
<1>3. HSpec => Spec
    BY <1>1, <1>2, PTL DEF HSpec, Spec
<1>4. HSpec => []TInv
    BY <1>3, LoadInvariance, PTL DEF TInv
<1>5. TInv /\ JInv /\ [HNext]_<<vars, history>> => JInv'
  <2>1. ASSUME JInv, UNCHANGED <<vars, history>> PROVE JInv'
    BY <2>1 DEF JInv, Tracked, Iterating, Present, KeysIn, Chain, After, Past, On, get_bucket_index,
           vars, table, history
  <2> QED BY <2>1, JStep
<1> QED BY <1>4, <1>5, InitJInv, PTL DEF HSpec

(* next() and erase_and_next() never come back to an element.              *)
THEOREM NoneTwice == HSpec => VisitsOnce
<1>1. TInv /\ JInv /\ [HNext]_<<vars, history>>
      => [\A t \in Thread : Arrives(t) => acc'[t].node \notin seen[t]]_<<vars, history>>
    BY JStep
<1> QED BY TrackInvariance, <1>1, PTL DEF HSpec, VisitsOnce

(* An iteration that ends has passed every bucket, and so has seen every   *)
(* element that was there from its first step to its last.                 *)
THEOREM NoneMissed == HSpec => VisitsAll
<1>1. ASSUME TInv, JInv, NEW t \in Thread, IterEnd(t) PROVE stayed[t] \subseteq seen[t]
  <2>1. pc[t] = "iter_bucket" /\ acc[t].index >= bucketsSize
    BY <1>1 DEF IterEnd
  <2>2. Past(seen[t], stayed[t], acc[t].index, bucketsSize) /\ stayed[t] \subseteq Present
    BY <1>1, <2>1 DEF JInv, Tracked
  <2>3. Present \subseteq Key /\ bucketsSize \in Nat \ {0} /\ acc[t].index \in Nat
    BY <1>1, PresentKeys, VectorsKnown DEF TInv, IInv, Shape, AccType
  <2>4. ASSUME NEW k \in stayed[t] PROVE get_bucket_index(k, bucketsSize) < acc[t].index
    <3>1. get_bucket_index(k, bucketsSize) \in 0 .. bucketsSize - 1
      BY <2>2, <2>3, IndexInRange
    <3> QED BY <2>1, <2>3, <3>1
  <2> QED BY <2>2, <2>4 DEF Past
<1>2. TInv /\ JInv /\ [HNext]_<<vars, history>>
      => [\A t \in Thread : IterEnd(t) => stayed[t] \subseteq seen[t]]_<<vars, history>>
    BY <1>1
<1> QED BY TrackInvariance, <1>2, PTL DEF HSpec, VisitsAll
=============================================================================
