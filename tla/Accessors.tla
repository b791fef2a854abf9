----------------------------- MODULE Accessors ------------------------------
(***************************************************************************)
(* The accessor objects of ConcurrentHashTableT                            *)
(* (include/snake/concurrency/ConcurrentHashTableT.h) as programs may use  *)
(* them: a thread with several at once, moves from one to another,         *)
(* iterators that are never begun, an insert that throws.  Module          *)
(* HashTable shows that calls which follow the rules keep the locks right; *)
(* this one shows what each object owns and what each slip costs.          *)
(*                                                                         *)
(* The table never has to grow here.  A step runs from one wait to the     *)
(* next.  The bucket mutexes do not know their owners, and the table mutex *)
(* only counts its sharers; who has what follows from the objects.         *)
(***************************************************************************)
EXTENDS Integers, FiniteSets, Sequences, SequencesExt

CONSTANTS
    Thread,
    Accessor,       \* variables of type UniqueAccessor
    Iterator,       \* variables of type UniqueIterator
    Owner,          \* the thread each variable belongs to
    Key, Hash, N,   \* keys, their hashes, the number of buckets
    CountModulus,   \* count_ of the table mutex is unsigned
    MaxFaults,      \* bound on the number of slips in a behaviour
    None

Object == Accessor \cup Iterator
Bucket == 0 .. N - 1

ASSUME ObjectAssumption ==
    Owner \in [Object -> Thread] /\ IsFiniteSet(Object) /\ IsFiniteSet(Thread)

(* Room for one element more than there are keys, so that no insert        *)
(* rehashes; at most two keys in a bucket, for erase never returns from    *)
(* the third node of a chain (EraseReturns of module HashTable).           *)
ASSUME NoGrowthAssumption ==
    /\ Hash \in [Key -> Nat] /\ IsFiniteSet(Key)
    /\ N \in Nat /\ N > Cardinality(Key)
    /\ \A i \in Bucket : Cardinality({k \in Key : Hash[k] % N = i}) <= 2

(* Every object and every thread's call may share at once, and one more    *)
(* share may be lost to each slip, before the count wraps.                 *)
ASSUME WidthAssumption ==
    /\ CountModulus \in Nat /\ MaxFaults \in Nat
    /\ CountModulus > Cardinality(Object) + Cardinality(Thread) + MaxFaults

ASSUME NoneAssumption == None \notin Key \cup Thread

VARIABLES
    chain,      \* m_buckets_
    writer,     \* who has the gate of m_table_mutex_
    count,      \* count_ of m_table_mutex_
    locked,     \* the buckets whose mutex is locked
    object,     \* m_table_ (set or not), m_index_, m_node_ of each variable
    pc, call,   \* where each thread waits, and in which call
    faults      \* the slips so far: history, each kind at most once

vars == <<chain, writer, count, locked, object, pc, call, faults>>

Faults == {"overwritten", "unbegun", "thrown"}

Empty == [table |-> FALSE, index |-> 0, node |-> None]      \* clear()
Unbegun == [Empty EXCEPT !.table = TRUE]                    \* unique_iterator()
On(i, k) == [table |-> TRUE, index |-> i, node |-> k]

NoCall == [type |-> None, to |-> None, key |-> None]

Mine(t) == {o \in Object : Owner[o] = t}

Holding == {o \in Object : object[o].node # None}

get_bucket_index(k) == Hash[k] % N

Init ==
    /\ chain = [i \in Bucket |-> <<>>]
    /\ writer = None
    /\ count = 0
    /\ locked = {}
    /\ object = [o \in Object |-> Empty]
    /\ pc = [t \in Thread |-> "run"]
    /\ call = [t \in Thread |-> NoCall]
    /\ faults = {}

-----------------------------------------------------------------------------

(* The helpers; the one before some of them is a plausible slip in it,     *)
(* used by no action.                                                      *)

lock_shared == writer = None /\ count' = (count + 1) % CountModulus
unlock_sharedSigned == count' = count - 1                   \* count_ signed
unlock_shared == count' = (count - 1) % CountModulus

Slip(kind) ==
    /\ kind \notin faults
    /\ Cardinality(faults) < MaxFaults
    /\ faults' = faults \cup {kind}

(* o = <an object>: the locks of what o held before are not given back.    *)
OverwriteOK(o) ==
    IF object[o].node # None THEN Slip("overwritten") ELSE UNCHANGED faults

(* The move operations take the pointers and clear the source.             *)
MovedKeeps(to, from) == [object EXCEPT ![to] = object[from]] \* source kept
Moved(to, from) == [object EXCEPT ![to] = object[from], ![from] = Empty]

Wait(t, at, type, to, key) ==
    /\ pc' = [pc EXCEPT ![t] = at]
    /\ call' = [call EXCEPT ![t] = [type |-> type, to |-> to, key |-> key]]

Return(t) ==
    /\ pc' = [pc EXCEPT ![t] = "run"]
    /\ call' = [call EXCEPT ![t] = NoCall]

Position(i, k) == CHOOSE p \in DOMAIN chain[i] : chain[i][p] = k

Succ(i, k) ==
    IF Position(i, k) = Len(chain[i]) THEN None ELSE chain[i][Position(i, k) + 1]

Unlinked(i, k) == [chain EXCEPT ![i] = RemoveAt(@, Position(i, k))]

-----------------------------------------------------------------------------

(* o = table.get(k), get_or_create(k) or insert(k).                        *)
Get(t) ==
    /\ pc[t] = "run"
    /\ \E o \in Mine(t) \cap Accessor, k \in Key,
          type \in {"get", "get_or_create", "insert"} : Wait(t, "table", type, o, k)
    /\ UNCHANGED <<chain, writer, count, locked, object, faults>>

(* lock_shared, then the hash, which may throw: the share is lost.         *)
GetTable(t) ==
    /\ pc[t] = "table"
    /\ lock_shared
    /\ \/ /\ pc' = [pc EXCEPT ![t] = "bucket"]
          /\ UNCHANGED <<call, faults>>
       \/ Slip("thrown") /\ Return(t)
    /\ UNCHANGED <<chain, writer, locked, object>>

(* The bucket mutex, the lookup and what follows: an accessor on the       *)
(* element, or an empty one with both locks given back, is moved to the    *)
(* variable.  A construct that throws leaves both locked.                  *)
GetBucket(t) ==
    LET k == call[t].key
        i == get_bucket_index(k)
        o == call[t].to
        found == k \in ToSet(chain[i])
    IN
    /\ pc[t] = "bucket"
    /\ i \notin locked
    /\ \/ /\ IF found THEN call[t].type # "insert" ELSE call[t].type # "get"
          /\ chain' = [chain EXCEPT ![i] = IF found THEN @ ELSE <<k>> \o @]
          /\ locked' = locked \cup {i}
          /\ object' = [object EXCEPT ![o] = On(i, k)]
          /\ OverwriteOK(o)
          /\ UNCHANGED count
       \/ /\ IF found THEN call[t].type = "insert" ELSE call[t].type = "get"
          /\ unlock_shared
          /\ object' = [object EXCEPT ![o] = Empty]
          /\ OverwriteOK(o)
          /\ UNCHANGED <<chain, locked>>
       \/ /\ ~found /\ call[t].type # "get"
          /\ Slip("thrown")
          /\ locked' = locked \cup {i}
          /\ UNCHANGED <<chain, count, object>>
    /\ Return(t)
    /\ UNCHANGED writer

(* release() and the destructor.  An iterator not begun has no share, but  *)
(* it has m_table_ and gives one back.                                     *)
ReleaseAny(o) ==
    /\ locked' = IF object[o].node # None THEN locked \ {object[o].index} ELSE locked
    /\ IF object[o].table THEN unlock_shared ELSE UNCHANGED count
    /\ object' = [object EXCEPT ![o] = Empty]

Release(t) ==
    /\ pc[t] = "run"
    /\ \E o \in Mine(t) :
          /\ object[o].table
          /\ ReleaseAny(o)
          /\ IF object[o].node = None THEN Slip("unbegun") ELSE UNCHANGED faults
    /\ UNCHANGED <<chain, writer, pc, call>>

(* to = std::move(from), or a variable constructed so; find_if returns its *)
(* iterator as an accessor.  An accessor never becomes an iterator.        *)
Move(t) ==
    /\ pc[t] = "run"
    /\ \E from, to \in Mine(t) :
          /\ from # to
          /\ to \in Iterator => from \in Iterator
          /\ object' = Moved(to, from)
          /\ OverwriteOK(to)
    /\ UNCHANGED <<chain, writer, count, locked, pc, call>>

(* UniqueAccessor::erase: whichever way erase_with_no_lock leaves m_node_, *)
(* the bucket mutex and the share are given back.                          *)
Erase(t) ==
    /\ pc[t] = "run"
    /\ \E o \in Mine(t) \cap Accessor :
          LET i == object[o].index IN
          /\ object[o].node # None
          /\ chain' = Unlinked(i, object[o].node)
          /\ ReleaseAny(o)
    /\ UNCHANGED <<writer, pc, call, faults>>

-----------------------------------------------------------------------------

(* it = table.unique_iterator(): no lock yet.                              *)
NewIterator(t) ==
    /\ pc[t] = "run"
    /\ \E o \in Mine(t) \cap Iterator :
          /\ object' = [object EXCEPT ![o] = Unbegun]
          /\ OverwriteOK(o)
    /\ UNCHANGED <<chain, writer, count, locked, pc, call>>

(* Where next() goes once m_node_ is null: to the next bucket.             *)
ToBucketRelocking(t, o) == Wait(t, "iter_table", "next", o, None) \* shares again
ToBucket(t, o) == Wait(t, "iter_bucket", "next", o, None)

(* o leaves element k of bucket i for s, or gives the bucket mutex back    *)
(* and goes on.                                                            *)
Step(t, o, i, s) ==
    IF s # None
    THEN /\ object' = [object EXCEPT ![o].node = s]
         /\ UNCHANGED <<locked, pc, call>>
    ELSE /\ locked' = locked \ {i}
         /\ object' = [object EXCEPT ![o].node = None, ![o].index = i + 1]
         /\ ToBucket(t, o)

(* next(): the first one waits for the table.                              *)
IterNext(t) ==
    /\ pc[t] = "run"
    /\ \E o \in Mine(t) \cap Iterator :
          LET i == object[o].index
              k == object[o].node
          IN
          /\ object[o].table
          /\ IF k # None
             THEN Step(t, o, i, Succ(i, k))
             ELSE /\ object' = [object EXCEPT ![o].index = 0]
                  /\ Wait(t, "iter_table", "next", o, None)
                  /\ UNCHANGED locked
    /\ UNCHANGED <<chain, writer, count, faults>>

(* erase_and_next(): only an iterator on an element does anything.         *)
IterErase(t) ==
    /\ pc[t] = "run"
    /\ \E o \in Mine(t) \cap Iterator :
          LET i == object[o].index
              k == object[o].node
          IN
          /\ k # None
          /\ chain' = Unlinked(i, k)
          /\ Step(t, o, i, Succ(i, k))
    /\ UNCHANGED <<writer, count, faults>>

IterTable(t) ==
    /\ pc[t] = "iter_table"
    /\ lock_shared
    /\ ToBucket(t, call[t].to)
    /\ UNCHANGED <<chain, writer, locked, object, faults>>

(* move_to_next_bucket().                                                  *)
IterBucket(t) ==
    LET o == call[t].to
        i == object[o].index
    IN
    /\ pc[t] = "iter_bucket"
    /\ i < N
    /\ i \notin locked
    /\ IF chain[i] # <<>>
       THEN /\ locked' = locked \cup {i}
            /\ object' = [object EXCEPT ![o].node = Head(chain[i])]
            /\ Return(t)
       ELSE /\ object' = [object EXCEPT ![o].index = i + 1]
            /\ UNCHANGED <<locked, pc, call>>
    /\ UNCHANGED <<chain, writer, count, faults>>

IterEnd(t) ==
    LET o == call[t].to IN
    /\ pc[t] = "iter_bucket"
    /\ object[o].index >= N
    /\ unlock_shared
    /\ object' = [object EXCEPT ![o] = Empty]
    /\ Return(t)
    /\ UNCHANGED <<chain, writer, locked, faults>>

-----------------------------------------------------------------------------

(* clear(): the gate, the drain, the elements.  If it destroys one under   *)
(* an accessor the program is undefined from there: nobody goes on.        *)
Clear(t) ==
    /\ pc[t] = "run"
    /\ Wait(t, "gate", "clear", None, None)
    /\ UNCHANGED <<chain, writer, count, locked, object, faults>>

ClearGate(t) ==
    /\ pc[t] = "gate"
    /\ writer = None
    /\ writer' = t
    /\ Wait(t, "drain", "clear", None, None)
    /\ UNCHANGED <<chain, count, locked, object, faults>>

DrainedNot == TRUE                          \* lock does not wait for readers
Drained == count = 0

ClearAll(t) ==
    /\ pc[t] = "drain"
    /\ Drained
    /\ chain' = [i \in Bucket |-> <<>>]
    /\ writer' = None
    /\ IF Holding = {}
       THEN Return(t)
       ELSE pc' = [u \in Thread |-> "undefined"] /\ UNCHANGED call
    /\ UNCHANGED <<count, locked, object, faults>>

-----------------------------------------------------------------------------

Waits(t) ==
    \/ GetTable(t) \/ GetBucket(t)
    \/ IterTable(t) \/ IterBucket(t) \/ IterEnd(t)
    \/ ClearGate(t) \/ ClearAll(t)

Next ==
    \E t \in Thread :
        \/ Get(t) \/ Release(t) \/ Move(t) \/ Erase(t)
        \/ NewIterator(t) \/ IterNext(t) \/ IterErase(t)
        \/ Clear(t)
        \/ Waits(t)

Spec == Init /\ [][Next]_vars

-----------------------------------------------------------------------------

TypeOK ==
    /\ chain \in [Bucket -> Seq(Key)]
    /\ writer \in Thread \cup {None}
    /\ count \in 0 .. CountModulus - 1
    /\ locked \subseteq Bucket
    /\ object \in [Object -> [table : BOOLEAN, index : 0 .. N, node : Key \cup {None}]]
    /\ pc \in [Thread -> {"run", "table", "bucket", "iter_table", "iter_bucket",
                          "gate", "drain", "undefined"}]
    /\ faults \subseteq Faults

(* Besides the objects on an element, calls on their way between the table *)
(* and a bucket share the table mutex.                                     *)
Entering == {t \in Thread : pc[t] \in {"bucket", "iter_bucket"}}

Lost == Cardinality(faults \cap {"overwritten", "thrown"})
Forged == Cardinality(faults \cap {"unbegun"})

(* Through moves, nested accessors, erases and iterations the locks are    *)
(* exactly those of the objects, but for what the slips cost: a share, and *)
(* at most a bucket mutex, for an accessor assigned over one that holds an *)
(* element and for an insert that throws (lines 289 and 474); a share      *)
(* given back that was never taken for an iterator destroyed before its    *)
(* first next() (line 305).                                                *)
LocksAccounted ==
    /\ count = (Cardinality(Holding) + Cardinality(Entering) + Lost - Forged)
                  % CountModulus
    /\ {object[o].index : o \in Holding} \subseteq locked
    /\ Cardinality(locked) <= Cardinality(Holding) + Lost

(* No two objects are on one element, or in one bucket, and none dangles,  *)
(* even after locks were lost; only a forged share lets a clear in under   *)
(* an accessor.                                                            *)
ElementsOwned ==
    /\ "unbegun" \notin faults =>
          \A o \in Holding : object[o].node \in ToSet(chain[object[o].index])
    /\ \A o, p \in Holding : o # p => object[o].index # object[p].index

(* The bucket mutex that t waits for.                                      *)
Awaited(t) ==
    IF pc[t] = "bucket" THEN get_bucket_index(call[t].key) ELSE object[call[t].to].index

(* Who a waiting thread waits for.                                         *)
BlockedBy(t) ==
    CASE pc[t] \in {"table", "iter_table", "gate"} -> {writer} \ {None}
      [] pc[t] = "drain" -> {Owner[o] : o \in Holding} \cup Entering
      [] pc[t] \in {"bucket", "iter_bucket"} ->
            {Owner[o] : o \in {p \in Holding : object[p].index = Awaited(t)}}
      [] OTHER -> {}

(* t does not wait, or the lock it waits for is to be had (Mutex.cpp).     *)
CanGo(t) ==
    \/ pc[t] = "run"
    \/ pc[t] \in {"table", "iter_table", "gate"} /\ writer = None
    \/ pc[t] = "drain" /\ Drained
    \/ pc[t] \in {"bucket", "iter_bucket"} /\ Awaited(t) \notin locked

(* t has an element in its hands while it waits for another.               *)
Nests(t) == pc[t] # "run" /\ Mine(t) \cap Holding # {}

(* Threads deadlock only by nesting: unless a slip has lost a lock, threads *)
(* that wait for nobody but each other have one among them that can go on, *)
(* or that keeps an element while it waits (Mutex.cpp:101: it shares the   *)
(* table already and a writer has come).                                   *)
DeadlockNeedsNesting ==
    faults = {} =>
        \A group \in SUBSET Thread :
            group # {} /\ (\A t \in group : BlockedBy(t) \subseteq group)
                => \E t \in group : CanGo(t) \/ Nests(t)
=============================================================================
