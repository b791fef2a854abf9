----------------------------- MODULE HashTable -----------------------------
(***************************************************************************)
(* ConcurrentHashTableT, include/snake/concurrency/ConcurrentHashTableT.h, *)
(* the table behind ConcurrentHashMap and ConcurrentHashSet.               *)
(*                                                                         *)
(* Operations share the table mutex and own the mutex of one bucket; a     *)
(* rehash and clear own the table mutex.  The table mutex is the lock of   *)
(* module SharedMutex with its drain kept visible: a writer first takes    *)
(* the gate (writer), which stops new readers, and then waits for readers  *)
(* to leave.  A node is named by its key, a chain is the sequence of its   *)
(* nodes.  A step runs from one synchronisation to the next: what a thread *)
(* does between two of them under a lock nobody else can see half done.    *)
(***************************************************************************)
EXTENDS Naturals, FiniteSets, Sequences, SequencesExt

CONSTANTS
    Thread,         \* threads; each has at most one accessor or iterator
    Key, Val,       \* keys, mapped values
    Hash,           \* m_hasher_ : Key -> Nat
    Primes,         \* prime_list
    InitBuckets,    \* the constructor's argument, 100 by default
    HashMayThrow,   \* whether the hash may throw while a rehash runs
    None            \* no thread, no node

ASSUME ThreadAssumption == IsFiniteSet(Thread)

ASSUME HashAssumption == Hash \in [Key -> Nat]

ASSUME PrimesAssumption ==
    /\ Primes \subseteq Nat \ {0}
    /\ \E last \in Primes : \A p \in Primes : p <= last

ASSUME InitAssumption == InitBuckets \in Nat /\ HashMayThrow \in BOOLEAN

VARIABLES
    buckets,        \* m_buckets_: from 0 .. n-1 to chains
    tmp,            \* the vector a rehash fills; no bucket when none runs
    bucketsSize,    \* m_buckets_size_
    numElements,    \* m_num_elements_
    value,          \* the mapped value in the node of each key present
    writer,         \* who has the gate of m_table_mutex_
    readers,        \* who shares m_table_mutex_
    bmutex,         \* m_bucket_mutex_array_: who has each bucket mutex
    pc,             \* where each thread is in its call
    call,           \* the call: its kind, key, and the size resize wants
    acc             \* the accessor's m_index_ and m_node_

table == <<buckets, tmp, bucketsSize, numElements, value>>
locks == <<writer, readers, bmutex>>
vars  == <<table, locks, pc, call, acc>>

(* The last prime is the greatest number of buckets there can be.          *)
LastPrime == Max(Primes)

next_prime(n) ==
    IF \E p \in Primes : p >= n THEN Min({p \in Primes : p >= n}) ELSE LastPrime

get_bucket_index(k, n) == Hash[k] % n

(* get, has, get_copy, remove and put(..., false) look an element up;      *)
(* get_or_create and put(..., true) create it when absent; insert returns  *)
(* an accessor only to an element it created.                              *)
InsertTypes == {"get", "get_or_create", "insert"}

Calls == InsertTypes \cup {"clear", "iterate"}

ASSUME NoneAssumption == None \notin Key \cup Thread \cup Val \cup Calls

NoCall == [type |-> None, key |-> None, want |-> 0]
NoAccessor == [index |-> 0, node |-> None]

EmptyBuckets(n) == [i \in 0 .. n - 1 |-> <<>>]
FreshMutexes(n) == [i \in 0 .. n - 1 |-> None]

(* The keys in a vector of chains, and in the whole table.                 *)
KeysIn(vector) == UNION {ToSet(vector[i]) : i \in DOMAIN vector}
Present == KeysIn(buckets) \cup KeysIn(tmp)

(* The first bucket that is not empty, as the loops over buckets find it.  *)
FirstUsed(vector) == Min({i \in DOMAIN vector : vector[i] # <<>>})

PushFrontLosing(vector, i, k) == [vector EXCEPT ![i] = <<k>>]
PushFront(vector, i, k) == [vector EXCEPT ![i] = <<k>> \o @]
PopFront(vector, i) == [vector EXCEPT ![i] = Tail(@)]

(* The guards and updates that several operations share.  The one named    *)
(* before each, with its flaw in a comment, is a plausible slip that the   *)
(* properties must tell from the code; no action uses it.                  *)
ElementsWantedShort == numElements          \* resize() for one too few
ElementsWanted == numElements + 1

UncountElementNot == UNCHANGED numElements  \* destroys without counting out
UncountElement == numElements' = numElements - 1

NoWriter == writer = None

NoReadersNot == TRUE                        \* lock does not drain readers
NoReaders == readers = {}

EnterShared(t) == NoWriter /\ readers' = readers \cup {t}

LeaveSharedNot(t) == UNCHANGED readers      \* a return without unlock_shared
LeaveShared(t) == readers' = readers \ {t}

BucketFree(i) == bmutex[i] = None

LockBucketMutex(t, i) == BucketFree(i) /\ bmutex' = [bmutex EXCEPT ![i] = t]
UnlockBucketMutex(i) == bmutex' = [bmutex EXCEPT ![i] = None]

Goto(t, step) == pc' = [pc EXCEPT ![t] = step]

(* The call returns, or its exception reaches the caller.                  *)
Return(t) ==
    /\ Goto(t, "idle")
    /\ call' = [call EXCEPT ![t] = NoCall]
    /\ acc'  = [acc EXCEPT ![t] = NoAccessor]

Init ==
    LET n == next_prime(InitBuckets)
    IN  /\ buckets = EmptyBuckets(n)
        /\ tmp = EmptyBuckets(0)
        /\ bucketsSize = n
        /\ numElements = 0
        /\ value = [k \in Key |-> None]
        /\ writer = None
        /\ readers = {}
        /\ bmutex = FreshMutexes(n)
        /\ pc = [t \in Thread |-> "idle"]
        /\ call = [t \in Thread |-> NoCall]
        /\ acc = [t \in Thread |-> NoAccessor]

-----------------------------------------------------------------------------

(* The beginning of a call.  insert and get_or_create pass the number of   *)
(* elements they read here, plus one, to resize.                           *)
CallElement(t) ==
    /\ pc[t] = "idle"
    /\ \E type \in InsertTypes, k \in Key :
          /\ call' = [call EXCEPT ![t] =
                        [type |-> type, key |-> k,
                         want |-> IF type = "get" THEN 0 ELSE ElementsWanted]]
          /\ Goto(t, IF type = "get" THEN "lock_table" ELSE "resize")
    /\ UNCHANGED <<table, locks, acc>>

CallClear(t) ==
    /\ pc[t] = "idle"
    /\ call' = [call EXCEPT ![t].type = "clear"]
    /\ Goto(t, "gate")
    /\ UNCHANGED <<table, locks, acc>>

CallIterate(t) ==
    /\ pc[t] = "idle"
    /\ call' = [call EXCEPT ![t].type = "iterate"]
    /\ Goto(t, "iter_table")
    /\ UNCHANGED <<table, locks, acc>>

-----------------------------------------------------------------------------

(* resize(): the check without the lock.                                   *)
ResizeCheck(t) ==
    LET size == next_prime(call[t].want) IN
    /\ pc[t] = "resize"
    /\ IF call[t].want > bucketsSize /\ size > bucketsSize
       THEN /\ call' = [call EXCEPT ![t].want = size]
            /\ Goto(t, "gate")
       ELSE /\ Goto(t, "lock_table")
            /\ UNCHANGED call
    /\ UNCHANGED <<table, locks, acc>>

(* resize() and clear(): WriteLock of the table mutex.                     *)
TakeGate(t) ==
    /\ pc[t] = "gate"
    /\ NoWriter
    /\ writer' = t
    /\ Goto(t, "drain")
    /\ UNCHANGED <<table, readers, bmutex, call, acc>>

ClearBegin(t) ==
    /\ pc[t] = "drain" /\ call[t].type = "clear"
    /\ NoReaders
    /\ Goto(t, "clear")
    /\ UNCHANGED <<table, locks, call, acc>>

(* resize(): the same check under the lock; another rehash may have run.   *)
StillTooSmallNot(t) == TRUE                 \* trusts the check made before
StillTooSmall(t) == call[t].want > bucketsSize

RehashBegin(t) ==
    /\ pc[t] = "drain" /\ call[t].type # "clear"
    /\ NoReaders
    /\ IF StillTooSmall(t)
       THEN /\ tmp' = EmptyBuckets(call[t].want)
            /\ Goto(t, "rehash")
            /\ UNCHANGED writer
       ELSE /\ writer' = None
            /\ Goto(t, "lock_table")
            /\ UNCHANGED tmp
    /\ UNCHANGED <<buckets, bucketsSize, numElements, value, readers, bmutex, call, acc>>

NewIndexOld(t, k) == get_bucket_index(k, bucketsSize)   \* the old size
NewIndex(t, k) == get_bucket_index(k, call[t].want)

RehashMove(t) ==
    /\ pc[t] = "rehash"
    /\ KeysIn(buckets) # {}
    /\ LET i == FirstUsed(buckets)
           k == Head(buckets[i])
       IN  /\ buckets' = PopFront(buckets, i)
           /\ tmp' = PushFront(tmp, NewIndex(t, k), k)
    /\ UNCHANGED <<bucketsSize, numElements, value, locks, pc, call, acc>>

SwapBucketsOnly(n) == buckets' = tmp /\ UNCHANGED bucketsSize \* size stale
SwapBuckets(n) == buckets' = tmp /\ bucketsSize' = n

RehashEnd(t) ==
    /\ pc[t] = "rehash"
    /\ KeysIn(buckets) = {}
    /\ SwapBuckets(call[t].want)
    /\ bmutex' = FreshMutexes(call[t].want)
    /\ tmp' = EmptyBuckets(0)
    /\ writer' = None
    /\ Goto(t, "lock_table")
    /\ UNCHANGED <<numElements, value, readers, call, acc>>

(* The hash throws: the nodes already moved are destroyed, the others stay *)
(* in their buckets, and the exception leaves the call.                    *)
RehashThrow(t) ==
    /\ pc[t] = "rehash"
    /\ HashMayThrow
    /\ KeysIn(buckets) # {}
    /\ Goto(t, "unwind")
    /\ UNCHANGED <<table, locks, call, acc>>

UnwindOne(t) ==
    /\ pc[t] = "unwind"
    /\ KeysIn(tmp) # {}
    /\ LET i == FirstUsed(tmp)
       IN  /\ tmp' = PopFront(tmp, i)
           /\ value' = [value EXCEPT ![Head(tmp[i])] = None]
    /\ UncountElement
    /\ UNCHANGED <<buckets, bucketsSize, locks, pc, call, acc>>

UnwindEnd(t) ==
    /\ pc[t] = "unwind"
    /\ KeysIn(tmp) = {}
    /\ tmp' = EmptyBuckets(0)
    /\ writer' = None
    /\ Return(t)
    /\ UNCHANGED <<buckets, bucketsSize, numElements, value, readers, bmutex>>

-----------------------------------------------------------------------------

(* clear(): one element at a time; size() sees the number go down.         *)
ClearOne(t) ==
    /\ pc[t] = "clear"
    /\ KeysIn(buckets) # {}
    /\ LET i == FirstUsed(buckets)
       IN  /\ buckets' = PopFront(buckets, i)
           /\ value' = [value EXCEPT ![Head(buckets[i])] = None]
    /\ UncountElement
    /\ UNCHANGED <<tmp, bucketsSize, locks, pc, call, acc>>

ClearEnd(t) ==
    /\ pc[t] = "clear"
    /\ KeysIn(buckets) = {}
    /\ writer' = None
    /\ Return(t)
    /\ UNCHANGED <<table, readers, bmutex>>

-----------------------------------------------------------------------------

(* get_or_create_impl(): lock_shared, then the index for the size it finds.*)
LockTable(t) ==
    /\ pc[t] = "lock_table"
    /\ EnterShared(t)
    /\ acc' = [acc EXCEPT ![t].index = get_bucket_index(call[t].key, bucketsSize)]
    /\ Goto(t, "lock_bucket")
    /\ UNCHANGED <<table, writer, bmutex, call>>

LockBucket(t) ==
    /\ pc[t] = "lock_bucket"
    /\ LockBucketMutex(t, acc[t].index)
    /\ Goto(t, "find")
    /\ UNCHANGED <<table, writer, readers, call, acc>>

(* The lookup, and which of the three outcomes the call has.               *)
Find(t) ==
    LET k == call[t].key
        found == k \in ToSet(buckets[acc[t].index])
    IN
    /\ pc[t] = "find"
    /\ \/ /\ ~found /\ call[t].type # "get"
          /\ Goto(t, "add")
          /\ UNCHANGED acc
       \/ /\ found /\ call[t].type # "insert"
          /\ acc' = [acc EXCEPT ![t].node = k]
          /\ Goto(t, "held")
       \/ /\ IF found THEN call[t].type = "insert" ELSE call[t].type = "get"
          /\ Goto(t, "unlock_bucket")
          /\ UNCHANGED acc
    /\ UNCHANGED <<table, locks, call>>

(* construct and add_new_node_with_no_lock.                                *)
AddNode(t) ==
    LET k == call[t].key IN
    /\ pc[t] = "add"
    /\ buckets' = PushFront(buckets, acc[t].index, k)
    /\ numElements' = numElements + 1
    /\ \E v \in Val : value' = [value EXCEPT ![k] = v]
    /\ acc' = [acc EXCEPT ![t].node = k]
    /\ Goto(t, "held")
    /\ UNCHANGED <<tmp, bucketsSize, locks, call>>

(* Both end with the bucket mutex and then the table mutex given back: a   *)
(* call that found nothing, and an accessor whose node has been erased.    *)
UnlockBucket(t) ==
    /\ pc[t] = "unlock_bucket"
    /\ UnlockBucketMutex(acc[t].index)
    /\ Goto(t, "unlock_table")
    /\ UNCHANGED <<table, writer, readers, call, acc>>

UnlockTable(t) ==
    /\ pc[t] = "unlock_table"
    /\ LeaveShared(t)
    /\ Return(t)
    /\ UNCHANGED <<table, writer, bmutex>>

-----------------------------------------------------------------------------

(* What a thread does with a valid accessor or iterator.                   *)

(* Through operator* and ->, or put's set_value.                           *)
Write(t) ==
    /\ pc[t] = "held"
    /\ \E v \in Val : value' = [value EXCEPT ![acc[t].node] = v]
    /\ UNCHANGED <<buckets, tmp, bucketsSize, numElements, locks, pc, call, acc>>

(* release(), or the destructor.                                           *)
Release(t) ==
    /\ pc[t] = "held"
    /\ Goto(t, "unlock_bucket")
    /\ UNCHANGED <<table, locks, call, acc>>

(* erase(), and remove(); erase_and_next() for an iterator.                *)
Erase(t) ==
    /\ pc[t] = "held"
    /\ Goto(t, "erase")
    /\ UNCHANGED <<table, locks, call, acc>>

(* Where erase_with_no_lock finds the node, and what follows it.           *)
Chain(t) == buckets[acc[t].index]
Position(t) == CHOOSE p \in DOMAIN Chain(t) : Chain(t)[p] = acc[t].node
SuccessorNone(t) == None                    \* takes every node for the last
Successor(t) == IF Position(t) = Len(Chain(t)) THEN None ELSE Chain(t)[Position(t) + 1]

(* An iterator leaves its bucket.                                          *)
NextBucketSame(t) == acc' = [acc EXCEPT ![t].node = None]  \* index not moved
NextBucket(t) == acc' = [acc EXCEPT ![t] = [index |-> @.index + 1, node |-> None]]

(* The first node of a chain, or the second: its predecessor is the head.  *)
(* The accessor is left on the successor; without one the bucket mutex is  *)
(* released, and an iterator goes on with the next bucket.                 *)
EraseNode(t) ==
    /\ pc[t] = "erase"
    /\ Position(t) <= 2
    /\ buckets' = [buckets EXCEPT ![acc[t].index] = RemoveAt(@, Position(t))]
    /\ UncountElement
    /\ value' = [value EXCEPT ![acc[t].node] = None]
    /\ IF Successor(t) # None
       THEN /\ acc' = [acc EXCEPT ![t].node = Successor(t)]
            /\ Goto(t, IF call[t].type = "iterate" THEN "held" ELSE "unlock_bucket")
            /\ UNCHANGED bmutex
       ELSE /\ UnlockBucketMutex(acc[t].index)
            /\ IF call[t].type = "iterate"
               THEN /\ NextBucket(t)
                    /\ Goto(t, "iter_bucket")
               ELSE /\ acc' = [acc EXCEPT ![t].node = None]
                    /\ Goto(t, "unlock_table")
    /\ UNCHANGED <<tmp, bucketsSize, writer, readers, call>>

(* Any later node: the loop compares the head's successor again and again, *)
(* for it never moves p.                                                   *)
EraseSearch(t) ==
    /\ pc[t] = "erase"
    /\ Position(t) > 2
    /\ UNCHANGED vars

-----------------------------------------------------------------------------

(* UniqueIterator::next(), the first time: lock_shared, then bucket 0.     *)
IterTable(t) ==
    /\ pc[t] = "iter_table"
    /\ EnterShared(t)
    /\ Goto(t, "iter_bucket")
    /\ UNCHANGED <<table, writer, bmutex, call, acc>>

(* move_to_next_bucket(): waits for each bucket mutex in turn, keeps that  *)
(* of the first bucket that has a node.                                    *)
IterBucket(t) ==
    LET i == acc[t].index IN
    /\ pc[t] = "iter_bucket"
    /\ i < bucketsSize
    /\ BucketFree(i)
    /\ IF buckets[i] # <<>>
       THEN /\ LockBucketMutex(t, i)
            /\ acc' = [acc EXCEPT ![t].node = Head(buckets[i])]
            /\ Goto(t, "held")
       ELSE /\ acc' = [acc EXCEPT ![t].index = i + 1]
            /\ UNCHANGED <<bmutex, pc>>
    /\ UNCHANGED <<table, writer, readers, call>>

IterEnd(t) ==
    /\ pc[t] = "iter_bucket"
    /\ acc[t].index >= bucketsSize
    /\ LeaveShared(t)
    /\ Return(t)
    /\ UNCHANGED <<table, writer, bmutex>>

(* next() from a node.                                                     *)
IterNext(t) ==
    /\ pc[t] = "held" /\ call[t].type = "iterate"
    /\ IF Successor(t) # None
       THEN /\ acc' = [acc EXCEPT ![t].node = Successor(t)]
            /\ UNCHANGED <<bmutex, pc>>
       ELSE /\ UnlockBucketMutex(acc[t].index)
            /\ NextBucket(t)
            /\ Goto(t, "iter_bucket")
    /\ UNCHANGED <<table, writer, readers, call>>

(* find_if(): the iterator on the node found becomes an accessor.          *)
IterFound(t) ==
    /\ pc[t] = "held" /\ call[t].type = "iterate"
    /\ call' = [call EXCEPT ![t].type = "get"]
    /\ UNCHANGED <<table, locks, pc, acc>>

-----------------------------------------------------------------------------

Call(t) == CallElement(t) \/ CallClear(t) \/ CallIterate(t)

(* The steps inside the code, and the ones by which a caller moves on.     *)
Progress(t) ==
    \/ ResizeCheck(t) \/ TakeGate(t)
    \/ ClearBegin(t)  \/ ClearOne(t)   \/ ClearEnd(t)
    \/ RehashBegin(t) \/ RehashMove(t) \/ RehashEnd(t)
    \/ UnwindOne(t)   \/ UnwindEnd(t)
    \/ LockTable(t)   \/ LockBucket(t) \/ Find(t) \/ AddNode(t)
    \/ UnlockBucket(t) \/ UnlockTable(t)
    \/ EraseNode(t)   \/ EraseSearch(t)
    \/ IterTable(t)   \/ IterBucket(t) \/ IterEnd(t)
    \/ Release(t)     \/ IterNext(t)

(* What the caller or the hash may do instead.                             *)
Choice(t) == Write(t) \/ Erase(t) \/ IterFound(t) \/ RehashThrow(t)

Next == \E t \in Thread : Call(t) \/ Progress(t) \/ Choice(t)

Spec == Init /\ [][Next]_vars

(* Threads keep running and callers do not keep an accessor for ever.  The *)
(* locks are spin locks: only weak fairness, and none for calls.           *)
Fairness == \A t \in Thread : WF_vars(Progress(t))

FairSpec == Spec /\ Fairness

-----------------------------------------------------------------------------

(* Where a thread shares the table mutex, owns it, owns a bucket mutex.    *)
AccessorSteps  == {"held", "erase"}
BucketSteps    == {"find", "add", "unlock_bucket"} \cup AccessorSteps
SharedSteps    == {"lock_bucket", "unlock_table", "iter_bucket"} \cup BucketSteps
ExclusiveSteps == {"rehash", "unwind", "clear"}
OutsideSteps   == {"idle", "resize", "gate", "lock_table", "iter_table"}
Steps == OutsideSteps \cup {"drain"} \cup ExclusiveSteps \cup SharedSteps

TypeOK ==
    /\ bucketsSize \in Primes
    /\ DOMAIN buckets = 0 .. bucketsSize - 1
    /\ \A i \in DOMAIN buckets : buckets[i] \in Seq(Key)
    /\ \A i \in DOMAIN tmp : tmp[i] \in Seq(Key)
    /\ numElements \in Nat
    /\ value \in [Key -> Val \cup {None}]
    /\ writer \in Thread \cup {None}
    /\ readers \subseteq Thread
    /\ bmutex \in [0 .. bucketsSize - 1 -> Thread \cup {None}]
    /\ pc \in [Thread -> Steps]
    /\ call \in [Thread -> [type : Calls \cup {None}, key : Key \cup {None}, want : Nat]]
    /\ acc \in [Thread -> [index : Nat, node : Key \cup {None}]]

(* Every lock is held by exactly the threads whose step says so: none is   *)
(* leaked by a call that returned or threw, none is released twice.        *)
LocksMatchSteps ==
    /\ readers = {t \in Thread : pc[t] \in SharedSteps}
    /\ \A t \in Thread : writer = t <=> pc[t] \in ExclusiveSteps \cup {"drain"}
    /\ \A t \in Thread, i \in DOMAIN bmutex :
          bmutex[i] = t <=> pc[t] \in BucketSteps /\ acc[t].index = i

(* A rehash, its unwinding and clear run while nobody shares the table.    *)
WriterAlone ==
    \A t \in Thread : pc[t] \in ExclusiveSteps => readers = {}

(* An accessor is never left dangling: its node is in the bucket whose     *)
(* mutex the thread owns, so nobody erases, moves or clears it, and two    *)
(* threads never have one node.                                            *)
AccessorsLive ==
    \A t \in Thread : pc[t] \in AccessorSteps =>
        /\ acc[t].index \in DOMAIN buckets
        /\ acc[t].node \in ToSet(Chain(t))
        /\ bmutex[acc[t].index] = t

(* Every node is where a lookup will search for it.                        *)
HomeBuckets ==
    /\ \A i \in DOMAIN buckets : \A k \in ToSet(buckets[i]) :
          get_bucket_index(k, Cardinality(DOMAIN buckets)) = i
    /\ \A i \in DOMAIN tmp : \A k \in ToSet(tmp[i]) :
          get_bucket_index(k, Cardinality(DOMAIN tmp)) = i

(* No key has two nodes, whoever raced to insert it.                       *)
Nodes(vector) == UNION {{<<i, p>> : p \in DOMAIN vector[i]} : i \in DOMAIN vector}

UniqueKeys ==
    Cardinality(Nodes(buckets)) + Cardinality(Nodes(tmp)) = Cardinality(Present)

(* size() counts the nodes, through rehash, failed rehash, clear and erase.*)
SizeExact == numElements = Cardinality(Nodes(buckets)) + Cardinality(Nodes(tmp))

(* Threads that checked the size before others inserted can overfill the   *)
(* table, but only by one element each (the check reads m_num_elements_    *)
(* outside the lock).                                                      *)
LoadBounded ==
    bucketsSize < LastPrime => numElements < bucketsSize + Cardinality(Thread)

(* The mutex array is replaced only when every mutex in it is free, and    *)
(* the table never shrinks.                                                *)
MutexArrayReplacedFree ==
    [][DOMAIN bmutex' # DOMAIN bmutex =>
          /\ \A i \in DOMAIN bmutex : bmutex[i] = None
          /\ bucketsSize' > bucketsSize]_vars

(* A null accessor is the truth: get returns one only when the key is      *)
(* nowhere in the table, insert only when it is somewhere.                 *)
NullMeansAbsent ==
    [][\A t \in Thread : pc[t] = "find" /\ pc'[t] = "unlock_bucket" =>
          (call[t].type = "get" <=> call[t].key \notin Present)]_vars

(* The promise to the callers.                                             *)
Map == INSTANCE ConcurrentMap WITH
    contents <- [k \in Present |-> value[k]],
    holds <- [t \in Thread |-> IF pc[t] \in AccessorSteps THEN acc[t].node ELSE None]

ImplementsMap == Map!Spec

(* Once callers stop calling, every call returns with its locks released:  *)
(* no cycle of table mutex and bucket mutexes (chains of up to two nodes). *)
CallsReturn ==
    <>[][\A t \in Thread : ~Call(t)]_vars => <>[](\A t \in Thread : pc[t] = "idle")

(* erase() returns (lib/concurrency/test/container_test.cpp:342-344).      *)
EraseReturns ==
    \A t \in Thread : pc[t] = "erase" ~> pc[t] # "erase"
=============================================================================
