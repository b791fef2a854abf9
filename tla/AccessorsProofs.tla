-------------------------- MODULE AccessorsProofs ---------------------------
(***************************************************************************)
(* Proofs about the accessor objects of ConcurrentHashTableT for every set *)
(* of threads, objects and keys and every number of slips: the locks are   *)
(* those of the objects, but for what the slips cost, and no element has   *)
(* two objects on it.                                                      *)
(***************************************************************************)
EXTENDS Accessors, SequenceProofs, FiniteSetTheorems, TLAPS

Places == {"run", "table", "bucket", "iter_table", "iter_bucket", "gate", "drain", "undefined"}
CallType == [type : {"get", "get_or_create", "insert", "next", "clear"} \cup {None},
             to : Object \cup {None}, key : Key \cup {None}]
ObjectType == [table : BOOLEAN, index : 0 .. N, node : Key \cup {None}]

Typed ==
    /\ chain \in [Bucket -> Seq(Key)]
    /\ writer \in Thread \cup {None}
    /\ count \in 0 .. CountModulus - 1
    /\ locked \subseteq Bucket
    /\ object \in [Object -> ObjectType]
    /\ pc \in [Thread -> Places]
    /\ call \in [Thread -> CallType]
    /\ faults \subseteq Faults /\ Cardinality(faults) <= MaxFaults

(* A call has the variable its result goes to, one of its own thread; an   *)
(* iterator on its way to a bucket has its table and is on no element.     *)
CallsReady ==
    \A t \in Thread :
        /\ pc[t] \in {"table", "bucket"} => call[t].to \in Mine(t) \cap Accessor /\ call[t].key \in Key
        /\ pc[t] \in {"iter_table", "iter_bucket"} =>
              /\ call[t].to \in Mine(t) \cap Iterator
              /\ object[call[t].to].node = None /\ object[call[t].to].table

(* An object on an element has the table, and the mutex of its bucket is   *)
(* locked; no other object is in that bucket.                              *)
HoldersLock == \A o \in Holding : object[o].table /\ object[o].index \in locked

Apart == \A o, p \in Holding : o # p => object[o].index # object[p].index

(* Its element is in the bucket, or the program has become undefined.      *)
Live ==
    \/ /\ \A t \in Thread : pc[t] = "undefined"
       /\ "unbegun" \in faults
    \/ \A o \in Holding : object[o].node \in ToSet(chain[object[o].index])

(* What count_ would be without its width, and the balance of the mutexes. *)
Shares == Cardinality(Holding) + Cardinality(Entering) + Lost - Forged

Balanced ==
    /\ count = Shares % CountModulus
    /\ Cardinality(locked) <= Cardinality(Holding) + Lost

IInv == Typed /\ CallsReady /\ HoldersLock /\ Apart /\ Live /\ Balanced

-----------------------------------------------------------------------------

(* There is a bucket, and a hash names one.                                *)
LEMMA BucketOf ==
    /\ N \in Nat \ {0} /\ Bucket = 0 .. N - 1 /\ IsFiniteSet(Bucket)
    /\ \A k \in Key : get_bucket_index(k) \in Bucket
<1>1. Cardinality(Key) \in Nat
    BY NoGrowthAssumption, FS_CardinalityType
<1>2. N \in Nat \ {0}
    BY <1>1, NoGrowthAssumption
<1>3. IsFiniteSet(0 .. N - 1)
    BY <1>2, FS_Interval
<1> QED BY <1>2, <1>3, NoGrowthAssumption DEF Bucket, get_bucket_index

LEMMA FaultCount ==
    ASSUME faults \subseteq Faults, NEW kind \in Faults \ faults
    PROVE  /\ IsFiniteSet(faults)
           /\ Cardinality(faults \cup {kind}) = Cardinality(faults) + 1
           /\ Cardinality(faults) \in Nat
<1>1. Faults = {"overwritten"} \cup {"unbegun"} \cup {"thrown"}
    BY DEF Faults
<1>2. IsFiniteSet(Faults)
    BY <1>1, FS_Singleton, FS_Union
<1>3. IsFiniteSet(faults)
    BY <1>2, FS_Subset
<1> QED BY <1>3, FS_AddElement, FS_CardinalityType

(* What a slip does, for every operation that may have one.                *)
LEMMA SlipTyped ==
    ASSUME Typed, NEW kind \in Faults, Slip(kind) \/ UNCHANGED faults
    PROVE  faults' \subseteq Faults /\ Cardinality(faults') <= MaxFaults
<1>1. CASE Slip(kind)
  <2>1. Cardinality(faults') = Cardinality(faults) + 1 /\ Cardinality(faults) \in Nat
    BY <1>1, FaultCount DEF Slip, Typed
  <2> QED BY <1>1, <2>1, WidthAssumption DEF Slip, Typed
<1> QED BY <1>1 DEF Typed

LEMMA CountTyped ==
    ASSUME Typed, lock_shared \/ unlock_shared \/ UNCHANGED count
    PROVE  count' \in 0 .. CountModulus - 1
<1>1. CountModulus \in Nat \ {0}
    BY WidthAssumption DEF Typed
<1> QED BY <1>1 DEF Typed, lock_shared, unlock_shared

LEMMA Waited ==
    ASSUME Typed, NEW t \in Thread, NEW at \in Places, NEW type, NEW to \in Object \cup {None},
           NEW key \in Key \cup {None}, Wait(t, at, type, to, key),
           type \in {"get", "get_or_create", "insert", "next", "clear"}
    PROVE  /\ pc' \in [Thread -> Places] /\ call' \in [Thread -> CallType]
           /\ pc'[t] = at /\ call'[t].to = to /\ call'[t].key = key
           /\ \A u \in Thread \ {t} : pc'[u] = pc[u] /\ call'[u] = call[u]
BY DEF Typed, Wait, CallType

LEMMA Returned ==
    ASSUME Typed, NEW t \in Thread, Return(t)
    PROVE  /\ pc' \in [Thread -> Places] /\ call' \in [Thread -> CallType]
           /\ pc'[t] = "run"
           /\ \A u \in Thread \ {t} : pc'[u] = pc[u] /\ call'[u] = call[u]
<1>1. NoCall \in CallType
    BY DEF NoCall, CallType
<1> QED BY <1>1 DEF Typed, Return, Places

(* What an object on an element has: a place in the chain of its bucket.   *)
LEMMA HolderPlace ==
    ASSUME IInv, NEW t \in Thread, pc[t] # "undefined", NEW o \in Holding
    PROVE  LET i == object[o].index
               k == object[o].node
               s == Succ(i, k)
           IN  /\ i \in Bucket /\ i \in locked /\ object[o].table /\ k \in Key
               /\ k \in ToSet(chain[i])
               /\ Unlinked(i, k) \in [Bucket -> Seq(Key)]
               /\ \A j \in Bucket \ {i} : Unlinked(i, k)[j] = chain[j]
               /\ s \in Key \cup {None}
               /\ s # None => s \in ToSet(chain[i]) /\ s \in ToSet(Unlinked(i, k)[i])
<1> DEFINE i == object[o].index
           k == object[o].node
           c == chain[i]
           p == Position(i, k)
<1>1. o \in Object /\ k \in Key /\ i \in locked /\ object[o].table
    BY DEF IInv, Holding, Typed, ObjectType, HoldersLock
<1>2. i \in Bucket /\ c \in Seq(Key)
    BY <1>1 DEF IInv, Typed
<1>3. k \in ToSet(c)
    BY DEF IInv, Live
<1>4. p \in DOMAIN c /\ c[p] = k
    BY <1>3 DEF Position, ToSet
<1>5. DOMAIN c = 1 .. Len(c) /\ Len(c) \in Nat
    BY <1>2, LenProperties
<1>6. RemoveAt(c, p) \in Seq(Key) /\ (p < Len(c) => c[p + 1] \in Key /\ c[p + 1] \in ToSet(RemoveAt(c, p)))
    BY <1>2, <1>4, <1>5, RemovedChain
<1>7. /\ Unlinked(i, k) \in [Bucket -> Seq(Key)] /\ Unlinked(i, k)[i] = RemoveAt(c, p)
      /\ \A j \in Bucket \ {i} : Unlinked(i, k)[j] = chain[j]
    BY <1>2, <1>6 DEF IInv, Typed, Unlinked
<1>8. CASE p = Len(c)
    BY <1>1, <1>2, <1>3, <1>7, <1>8 DEF Succ
<1>9. CASE p # Len(c)
  <2>1. p < Len(c) /\ p + 1 \in DOMAIN c
    BY <1>4, <1>5, <1>9
  <2>2. Succ(i, k) = c[p + 1] /\ c[p + 1] \in ToSet(c)
    BY <1>9, <2>1 DEF Succ, ToSet
  <2> QED BY <1>1, <1>2, <1>3, <1>6, <1>7, <2>1, <2>2
<1> QED BY <1>8, <1>9

(* An object that is set to a new value.                                   *)
LEMMA ObjectSet ==
    ASSUME Typed, NEW o \in Object, NEW x \in ObjectType, object' = [object EXCEPT ![o] = x]
    PROVE  /\ object' \in [Object -> ObjectType]
           /\ object'[o] = x /\ \A p \in Object \ {o} : object'[p] = object[p]
           /\ Holding' = IF x.node = None THEN Holding \ {o} ELSE Holding \cup {o}
BY DEF Typed, Holding

LEMMA EmptyTyped ==
    /\ Empty \in ObjectType /\ Empty.node = None
    /\ Unbegun \in ObjectType /\ Unbegun.node = None
    /\ \A i \in Bucket, k \in Key : /\ On(i, k) \in ObjectType /\ On(i, k).node = k
                                    /\ On(i, k).table /\ On(i, k).index = i
<1>1. 0 \in 0 .. N /\ \A i \in Bucket : i \in 0 .. N
  <2> SUFFICES N \in Nat \ {0} /\ Bucket = 0 .. N - 1
    OBVIOUS
  <2> QED BY BucketOf
<1>2. Empty \in ObjectType /\ Empty.node = None
    BY <1>1 DEF ObjectType, Empty
<1>3. Unbegun \in ObjectType /\ Unbegun.node = None
    BY <1>2 DEF Unbegun, ObjectType
<1> QED BY <1>1, <1>2, <1>3 DEF ObjectType, On

(* An object moved from one variable to another.                           *)
LEMMA ObjectMoved ==
    ASSUME Typed, NEW from \in Object, NEW to \in Object, from # to, object' = Moved(to, from)
    PROVE  /\ object' \in [Object -> ObjectType]
           /\ object'[to] = object[from] /\ object'[from] = Empty
           /\ \A p \in Object \ {to, from} : object'[p] = object[p]
           /\ Holding' = IF from \in Holding THEN (Holding \ {from}) \cup {to} ELSE Holding \ {to}
<1>1. Empty \in ObjectType /\ Empty.node = None
    BY EmptyTyped
<1> QED BY <1>1 DEF Typed, Moved, Holding

(* Where an iterator that leaves its element goes.                         *)
LEMMA Stepped ==
    ASSUME IInv, NEW t \in Thread, pc[t] = "run", NEW o \in Mine(t) \cap Holding, NEW s \in Key \cup {None},
           Step(t, o, object[o].index, s)
    PROVE  /\ object' \in [Object -> ObjectType] /\ pc' \in [Thread -> Places] /\ call' \in [Thread -> CallType]
           /\ \A p \in Object \ {o} : object'[p] = object[p]
           /\ \A u \in Thread \ {t} : pc'[u] = pc[u] /\ call'[u] = call[u]
           /\ s # None => /\ UNCHANGED <<locked, pc, call>> /\ Holding' = Holding
                          /\ object'[o].table = object[o].table
                          /\ object'[o].index = object[o].index /\ object'[o].node = s
           /\ s = None => /\ locked' = locked \ {object[o].index} /\ Holding' = Holding \ {o}
                          /\ pc'[t] = "iter_bucket" /\ call'[t].to = o
                          /\ object'[o].node = None /\ object'[o].table
<1>1. Typed /\ object[o].table /\ o \in Object /\ object[o].index \in Bucket
    BY HolderPlace DEF IInv, Holding
<1>2. CASE s # None
  <2> DEFINE x == [object[o] EXCEPT !.node = s]
  <2>1. object' = [object EXCEPT ![o] = x] /\ UNCHANGED <<locked, pc, call>>
    BY <1>1, <1>2 DEF Step
  <2>2. x \in ObjectType /\ x.node = s /\ x.table = object[o].table /\ x.index = object[o].index
    BY <1>1 DEF Typed, ObjectType
  <2> HIDE DEF x
  <2>3. /\ object' \in [Object -> ObjectType] /\ object'[o] = x /\ Holding' = Holding \cup {o}
        /\ \A p \in Object \ {o} : object'[p] = object[p]
    BY <1>1, <1>2, <2>1, <2>2, ObjectSet
  <2>4. Holding' = Holding
    BY <2>3
  <2>5. pc' \in [Thread -> Places] /\ call' \in [Thread -> CallType] /\ pc' = pc /\ call' = call /\ locked' = locked
    BY <1>1, <2>1 DEF Typed
  <2> QED BY <1>2, <2>2, <2>3, <2>4, <2>5
<1>3. CASE s = None
  <2> DEFINE x == [object[o] EXCEPT !.node = None, !.index = object[o].index + 1]
  <2>1. /\ object' = [object EXCEPT ![o] = x] /\ locked' = locked \ {object[o].index}
        /\ Wait(t, "iter_bucket", "next", o, None)
    BY <1>1, <1>3 DEF Step, Typed, ObjectType, ToBucket
  <2>2. x \in ObjectType /\ x.node = None /\ x.table
    <3>1. object[o] \in ObjectType /\ object[o].table
      BY <1>1 DEF Typed
    <3>2. object[o].index + 1 \in 0 .. N
      <4>1. N \in Nat /\ object[o].index \in 0 .. N - 1
        BY <1>1, BucketOf
      <4> QED BY <4>1
    <3> QED BY <3>1, <3>2 DEF ObjectType
  <2> HIDE DEF x
  <2>3. "iter_bucket" \in Places
    BY DEF Places
  <2>4. /\ object' \in [Object -> ObjectType] /\ object'[o].node = None /\ object'[o].table
        /\ Holding' = Holding \ {o}
        /\ \A p \in Object \ {o} : object'[p] = object[p]
    BY <1>1, <2>1, <2>2, ObjectSet
  <2>5. /\ pc' \in [Thread -> Places] /\ call' \in [Thread -> CallType]
        /\ \A u \in Thread \ {t} : pc'[u] = pc[u] /\ call'[u] = call[u]
        /\ pc'[t] = "iter_bucket" /\ call'[t].to = o
    BY <1>1, <2>1, <2>3, Waited
  <2> QED BY <1>3, <2>1, <2>4, <2>5
<1> QED BY <1>2, <1>3

-----------------------------------------------------------------------------

(* The steps keep the variables in their types.                            *)
LEMMA TypedStep ==
    ASSUME IInv, [Next]_vars
    PROVE  Typed'
<1> USE DEF Typed
<1>1. Typed /\ CallsReady
    BY DEF IInv
<1>2. {"overwritten", "unbegun", "thrown"} \subseteq Faults /\ "undefined" \in Places
      /\ {"run", "table", "bucket", "iter_table", "iter_bucket", "gate", "drain"} \subseteq Places
    BY DEF Faults, Places
<1>3. ASSUME NEW t \in Thread, NEW o \in Object, OverwriteOK(o)
      PROVE  faults' \subseteq Faults /\ Cardinality(faults') <= MaxFaults
    BY <1>1, <1>2, <1>3, SlipTyped DEF OverwriteOK
<1>4. ASSUME NEW t \in Thread, Get(t) \/ Clear(t) \/ ClearGate(t) PROVE Typed'
  <2>1. pc' \in [Thread -> Places] /\ call' \in [Thread -> CallType]
    <3>1. CASE Get(t)
      BY <1>1, <1>2, <3>1, Waited DEF Get, Mine
    <3>2. CASE Clear(t) \/ ClearGate(t)
      BY <1>1, <1>2, <3>2, Waited DEF Clear, ClearGate
    <3> QED BY <1>4, <3>1, <3>2
  <2> QED BY <1>1, <1>4, <2>1 DEF Get, Clear, ClearGate
<1>5. ASSUME NEW t \in Thread, GetTable(t) PROVE Typed'
  <2>1. count' \in 0 .. CountModulus - 1
    BY <1>1, <1>5, CountTyped DEF GetTable
  <2>2. faults' \subseteq Faults /\ Cardinality(faults') <= MaxFaults
    BY <1>1, <1>2, <1>5, SlipTyped DEF GetTable
  <2>3. pc' \in [Thread -> Places] /\ call' \in [Thread -> CallType]
    BY <1>1, <1>2, <1>5, Returned DEF GetTable
  <2> QED BY <1>1, <1>5, <2>1, <2>2, <2>3 DEF GetTable
<1>6. ASSUME NEW t \in Thread, GetBucket(t) PROVE Typed'
  <2> DEFINE k == call[t].key
             i == get_bucket_index(k)
             o == call[t].to
  <2>1. o \in Object /\ k \in Key /\ i \in Bucket
    BY <1>1, <1>6, BucketOf DEF CallsReady, GetBucket, Mine
  <2>2. pc' \in [Thread -> Places] /\ call' \in [Thread -> CallType]
    BY <1>1, <1>6, Returned DEF GetBucket
  <2>3. count' \in 0 .. CountModulus - 1
    BY <1>1, <1>6, CountTyped DEF GetBucket
  <2>4. faults' \subseteq Faults /\ Cardinality(faults') <= MaxFaults
    BY <1>1, <1>2, <1>3, <1>6, <2>1, SlipTyped DEF GetBucket
  <2>5. chain' \in [Bucket -> Seq(Key)]
    <3>1. <<k>> \o chain[i] \in Seq(Key)
      BY <1>1, <2>1, PushedChain
    <3> QED BY <1>1, <1>6, <2>1, <3>1 DEF GetBucket
  <2>6. object' \in [Object -> ObjectType]
    BY <1>1, <1>6, <2>1, ObjectSet, EmptyTyped DEF GetBucket
  <2> QED BY <1>1, <1>6, <2>1, <2>2, <2>3, <2>4, <2>5, <2>6 DEF GetBucket
<1>7. ASSUME NEW t \in Thread, Release(t) PROVE Typed'
  <2>1. PICK o \in Mine(t) : object[o].table /\ ReleaseAny(o)
          /\ IF object[o].node = None THEN Slip("unbegun") ELSE UNCHANGED faults
    BY <1>7 DEF Release
  <2>2. count' \in 0 .. CountModulus - 1
    BY <1>1, <2>1, CountTyped DEF ReleaseAny
  <2>3. faults' \subseteq Faults /\ Cardinality(faults') <= MaxFaults
    BY <1>1, <1>2, <2>1, SlipTyped
  <2>4. object' \in [Object -> ObjectType]
    BY <1>1, <2>1, ObjectSet, EmptyTyped DEF ReleaseAny, Mine
  <2> QED BY <1>1, <1>7, <2>1, <2>2, <2>3, <2>4 DEF Release, ReleaseAny
<1>8. ASSUME NEW t \in Thread, Move(t) PROVE Typed'
  <2>1. PICK from \in Mine(t), to \in Mine(t) : from # to /\ object' = Moved(to, from) /\ OverwriteOK(to)
    BY <1>8 DEF Move
  <2>2. object' \in [Object -> ObjectType]
    BY <1>1, <2>1, ObjectMoved DEF Mine
  <2>3. faults' \subseteq Faults /\ Cardinality(faults') <= MaxFaults
    BY <1>3, <2>1 DEF Mine
  <2> QED BY <1>1, <1>8, <2>2, <2>3 DEF Move
<1>9. ASSUME NEW t \in Thread, Erase(t) PROVE Typed'
  <2>1. PICK o \in Mine(t) \cap Accessor :
          /\ object[o].node # None /\ chain' = Unlinked(object[o].index, object[o].node) /\ ReleaseAny(o)
    BY <1>9 DEF Erase
  <2>2. o \in Holding /\ pc[t] # "undefined"
    BY <1>9, <2>1 DEF Holding, Mine, Erase
  <2>3. chain' \in [Bucket -> Seq(Key)]
    BY <2>1, <2>2, HolderPlace
  <2>4. count' \in 0 .. CountModulus - 1
    BY <1>1, <2>1, CountTyped DEF ReleaseAny
  <2>5. object' \in [Object -> ObjectType]
    BY <1>1, <2>1, ObjectSet, EmptyTyped DEF ReleaseAny, Mine
  <2> QED BY <1>1, <1>9, <2>1, <2>3, <2>4, <2>5 DEF Erase, ReleaseAny
<1>10. ASSUME NEW t \in Thread, NewIterator(t) PROVE Typed'
  <2>1. PICK o \in Mine(t) \cap Iterator : object' = [object EXCEPT ![o] = Unbegun] /\ OverwriteOK(o)
    BY <1>10 DEF NewIterator
  <2>2. object' \in [Object -> ObjectType]
    BY <1>1, <2>1, ObjectSet, EmptyTyped DEF Mine
  <2>3. faults' \subseteq Faults /\ Cardinality(faults') <= MaxFaults
    BY <1>3, <2>1 DEF Mine
  <2> QED BY <1>1, <1>10, <2>2, <2>3 DEF NewIterator
<1>11. ASSUME NEW t \in Thread, IterNext(t) \/ IterErase(t) PROVE Typed'
  <2>1. PICK o \in Mine(t) \cap Iterator :
          \/ /\ object[o].node # None
             /\ Step(t, o, object[o].index, Succ(object[o].index, object[o].node))
             /\ chain' \in {chain, Unlinked(object[o].index, object[o].node)}
          \/ /\ object' = [object EXCEPT ![o].index = 0] /\ Wait(t, "iter_table", "next", o, None)
             /\ UNCHANGED <<locked, chain>>
    BY <1>11 DEF IterNext, IterErase
  <2>2. pc[t] = "run" /\ o \in Object
    BY <1>11 DEF IterNext, IterErase, Mine
  <2>3. CASE object[o].node # None /\ Step(t, o, object[o].index, Succ(object[o].index, object[o].node))
    <3>1. o \in Mine(t) \cap Holding
      BY <2>2, <2>3 DEF Holding
    <3>2. /\ Succ(object[o].index, object[o].node) \in Key \cup {None}
          /\ Unlinked(object[o].index, object[o].node) \in [Bucket -> Seq(Key)]
      BY <2>2, <3>1, HolderPlace
    <3>3. object' \in [Object -> ObjectType] /\ pc' \in [Thread -> Places] /\ call' \in [Thread -> CallType]
          /\ locked' \subseteq locked
      BY <2>2, <2>3, <3>1, <3>2, Stepped, ZenonT(60)
    <3>4. chain' \in [Bucket -> Seq(Key)]
      BY <1>1, <1>11, <2>1, <2>3, <3>2 DEF IterNext, IterErase
    <3> QED BY <1>1, <1>11, <3>3, <3>4 DEF IterNext, IterErase
  <2>4. CASE /\ object' = [object EXCEPT ![o].index = 0] /\ Wait(t, "iter_table", "next", o, None)
             /\ UNCHANGED <<locked, chain>>
    <3>1. object' \in [Object -> ObjectType]
      <4>1. 0 \in 0 .. N
        BY BucketOf
      <4> QED BY <1>1, <2>2, <2>4, <4>1 DEF ObjectType
    <3>2. pc' \in [Thread -> Places] /\ call' \in [Thread -> CallType]
      BY <1>1, <1>2, <2>2, <2>4, Waited
    <3> QED BY <1>1, <1>11, <2>4, <3>1, <3>2 DEF IterNext, IterErase
  <2> QED BY <2>1, <2>3, <2>4
<1>12. ASSUME NEW t \in Thread, IterTable(t) PROVE Typed'
  <2>1. call[t].to \in Object
    BY <1>1, <1>12 DEF CallsReady, IterTable, Mine
  <2>2. pc' \in [Thread -> Places] /\ call' \in [Thread -> CallType]
    BY <1>1, <1>2, <1>12, <2>1, Waited DEF IterTable, ToBucket
  <2>3. count' \in 0 .. CountModulus - 1
    BY <1>1, <1>12, CountTyped DEF IterTable
  <2> QED BY <1>1, <1>12, <2>2, <2>3 DEF IterTable
<1>13. ASSUME NEW t \in Thread, IterBucket(t) PROVE Typed'
  <2> DEFINE o == call[t].to
             i == object[o].index
  <2>1. o \in Object /\ i \in 0 .. N /\ i < N
    BY <1>1, <1>13 DEF CallsReady, IterBucket, Mine, ObjectType
  <2>2. i \in Bucket /\ i + 1 \in 0 .. N /\ chain[i] \in Seq(Key)
    BY <1>1, <2>1, BucketOf, SMTT(30)
  <2>3. CASE chain[i] # <<>>
    <3>1. Head(chain[i]) \in Key
      BY <2>2, <2>3, PoppedChain
    <3>2. object' \in [Object -> ObjectType]
      BY <1>1, <1>13, <2>1, <2>3, <3>1, ZenonT(60) DEF IterBucket, ObjectType
    <3> QED BY <1>1, <1>13, <2>2, <2>3, <3>2, Returned DEF IterBucket
  <2>4. CASE chain[i] = <<>>
    <3>1. object' \in [Object -> ObjectType]
      BY <1>1, <1>13, <2>1, <2>2, <2>4, ZenonT(60) DEF IterBucket, ObjectType
    <3> QED BY <1>1, <1>13, <2>4, <3>1 DEF IterBucket
  <2> QED BY <2>3, <2>4
<1>14. ASSUME NEW t \in Thread, IterEnd(t) PROVE Typed'
  <2>1. call[t].to \in Object
    BY <1>1, <1>14 DEF CallsReady, IterEnd, Mine
  <2>2. object' \in [Object -> ObjectType]
    BY <1>1, <1>14, <2>1, ObjectSet, EmptyTyped DEF IterEnd
  <2>3. count' \in 0 .. CountModulus - 1
    BY <1>1, <1>14, CountTyped DEF IterEnd
  <2> QED BY <1>1, <1>14, <2>2, <2>3, Returned DEF IterEnd
<1>15. ASSUME NEW t \in Thread, ClearAll(t) PROVE Typed'
  <2>1. chain' \in [Bucket -> Seq(Key)]
    BY <1>15 DEF ClearAll
  <2>2. pc' \in [Thread -> Places] /\ call' \in [Thread -> CallType]
    BY <1>1, <1>2, <1>15, Returned DEF ClearAll
  <2> QED BY <1>1, <1>15, <2>1, <2>2 DEF ClearAll
<1>16. CASE UNCHANGED vars
    BY <1>1, <1>16 DEF vars
<1> QED BY <1>4, <1>5, <1>6, <1>7, <1>8, <1>9, <1>10, <1>11, <1>12, <1>13, <1>14, <1>15, <1>16 DEF Next, Waits

-----------------------------------------------------------------------------

(* A step touches the variables of its own thread only.                    *)
LEMMA OwnSteps ==
    ASSUME IInv, NEW t \in Thread,
           \/ Get(t) \/ Release(t) \/ Move(t) \/ Erase(t) \/ NewIterator(t) \/ IterNext(t) \/ IterErase(t)
           \/ Clear(t) \/ Waits(t)
    PROVE  /\ \A o \in Object \ Mine(t) : object'[o] = object[o]
           /\ \/ \A u \in Thread : pc'[u] = "undefined"
              \/ \A u \in Thread \ {t} : pc'[u] = pc[u] /\ call'[u] = call[u]
           /\ pc[t] # "undefined"
<1>1. Typed /\ CallsReady
    BY DEF IInv
<1>2. CASE Get(t) \/ Clear(t) \/ GetTable(t) \/ IterTable(t) \/ ClearGate(t) \/ ClearAll(t)
    BY <1>1, <1>2 DEF Typed, Get, Clear, GetTable, IterTable, ClearGate, ClearAll, Wait, Return, ToBucket
<1>3. CASE GetBucket(t) \/ IterBucket(t) \/ IterEnd(t)
    BY <1>1, <1>3 DEF Typed, CallsReady, GetBucket, IterBucket, IterEnd, Wait, Return, Mine
<1>4. CASE Release(t) \/ Erase(t) \/ NewIterator(t)
    BY <1>1, <1>4 DEF Typed, Release, Erase, ReleaseAny, NewIterator, Mine
<1>5. CASE Move(t)
    BY <1>1, <1>5 DEF Typed, Move, Moved, Mine
<1>6. CASE IterNext(t) \/ IterErase(t)
    BY <1>1, <1>6 DEF Typed, IterNext, IterErase, Step, Wait, ToBucket, Mine
<1> QED BY <1>2, <1>3, <1>4, <1>5, <1>6 DEF Waits

(* Calls keep what they need to go on.                                     *)
LEMMA ReadyStep ==
    ASSUME IInv, NEW t \in Thread,
           \/ Get(t) \/ Release(t) \/ Move(t) \/ Erase(t) \/ NewIterator(t) \/ IterNext(t) \/ IterErase(t)
           \/ Clear(t) \/ Waits(t)
    PROVE  CallsReady'
<1>1. Typed /\ CallsReady
    BY DEF IInv
<1>2. ASSUME NEW u \in Thread, u # t
      PROVE  /\ pc'[u] \in {"table", "bucket"} => call'[u].to \in Mine(u) \cap Accessor /\ call'[u].key \in Key
             /\ pc'[u] \in {"iter_table", "iter_bucket"} =>
                   call'[u].to \in Mine(u) \cap Iterator /\ object'[call'[u].to].node = None /\ object'[call'[u].to].table
    BY <1>1, <1>2, OwnSteps DEF CallsReady, Mine
<1>3. /\ pc'[t] \in {"table", "bucket"} => call'[t].to \in Mine(t) \cap Accessor /\ call'[t].key \in Key
      /\ pc'[t] \in {"iter_table", "iter_bucket"} =>
            call'[t].to \in Mine(t) \cap Iterator /\ object'[call'[t].to].node = None /\ object'[call'[t].to].table
  <2>1. CASE Get(t) \/ Clear(t) \/ ClearGate(t) \/ ClearAll(t)
    BY <1>1, <2>1 DEF Typed, CallType, Get, Clear, ClearGate, ClearAll, Wait, Return
  <2>2. CASE GetTable(t) \/ GetBucket(t) \/ IterEnd(t)
    BY <1>1, <2>2 DEF Typed, CallsReady, GetTable, GetBucket, IterEnd, Return
  <2>3. CASE Release(t) \/ Erase(t) \/ NewIterator(t) \/ Move(t)
    BY <1>1, <2>3 DEF Typed, Release, Erase, NewIterator, Move
  <2>4. CASE IterTable(t)
    BY <1>1, <2>4 DEF Typed, CallsReady, CallType, IterTable, ToBucket, Wait
  <2>5. CASE IterBucket(t)
    <3>1. call[t].to \in Object /\ object[call[t].to].node = None /\ object[call[t].to].table /\ call[t].to \in Mine(t) \cap Iterator
      BY <1>1, <2>5 DEF CallsReady, IterBucket, Mine
    <3>2. \/ pc'[t] = "run"
          \/ /\ UNCHANGED <<pc, call>>
             /\ object' = [object EXCEPT ![call[t].to].index = object[call[t].to].index + 1]
      BY <1>1, <2>5 DEF Typed, IterBucket, Return
    <3>3. pc'[t] # "run" => object'[call[t].to].node = None /\ object'[call[t].to].table
      BY <1>1, <3>1, <3>2 DEF Typed, ObjectType
    <3>4. pc[t] = "iter_bucket"
      BY <2>5 DEF IterBucket
    <3> QED BY <3>1, <3>2, <3>3, <3>4
  <2>6. CASE IterNext(t) \/ IterErase(t)
    <3>1. pc[t] = "run"
      BY <2>6 DEF IterNext, IterErase
    <3>2. PICK o \in Mine(t) \cap Iterator :
            \/ /\ object[o].node # None
               /\ Step(t, o, object[o].index, Succ(object[o].index, object[o].node))
            \/ /\ object[o].node = None /\ object[o].table
               /\ object' = [object EXCEPT ![o].index = 0] /\ Wait(t, "iter_table", "next", o, None)
      BY <2>6 DEF IterNext, IterErase
    <3>3. CASE /\ object[o].node # None
               /\ Step(t, o, object[o].index, Succ(object[o].index, object[o].node))
      <4>1. o \in Mine(t) \cap Holding
        BY <3>3 DEF Holding, Mine
      <4>2. Succ(object[o].index, object[o].node) \in Key \cup {None}
        BY <3>1, <4>1, HolderPlace
      <4> QED BY <3>1, <3>3, <4>1, <4>2, Stepped
    <3>4. CASE /\ object[o].node = None /\ object[o].table
               /\ object' = [object EXCEPT ![o].index = 0] /\ Wait(t, "iter_table", "next", o, None)
      BY <1>1, <3>4 DEF Typed, ObjectType, CallType, Wait, Mine
    <3> QED BY <3>2, <3>3, <3>4
  <2> QED BY <2>1, <2>2, <2>3, <2>4, <2>5, <2>6 DEF Waits
<1> QED BY <1>2, <1>3 DEF CallsReady, Mine

-----------------------------------------------------------------------------

(* What happens to the objects on elements, their mutexes and their number.*)
LEMMA Finite ==
    /\ \A H \in SUBSET Object : IsFiniteSet(H) /\ Cardinality(H) \in Nat /\ Cardinality(H) <= Cardinality(Object)
    /\ \A E \in SUBSET Thread : IsFiniteSet(E) /\ Cardinality(E) \in Nat /\ Cardinality(E) <= Cardinality(Thread)
    /\ \A L \in SUBSET Bucket : IsFiniteSet(L) /\ Cardinality(L) \in Nat
    /\ \A F \in SUBSET Faults : IsFiniteSet(F) /\ Cardinality(F) \in Nat
<1>1. IsFiniteSet(Object) /\ IsFiniteSet(Thread) /\ IsFiniteSet(Bucket)
    BY ObjectAssumption, BucketOf
<1>2. IsFiniteSet(Faults)
  <2>1. Faults = {"overwritten"} \cup {"unbegun"} \cup {"thrown"}
    BY DEF Faults
  <2> QED BY <2>1, FS_Singleton, FS_Union
<1> QED BY <1>1, <1>2, FS_Subset, FS_CardinalityType

LEMMA HoldersKeep ==
    ASSUME IInv, Holding' = Holding, locked \subseteq locked',
           \A p \in Holding : object'[p].index = object[p].index /\ object'[p].table = object[p].table
    PROVE  HoldersLock' /\ Apart'
BY DEF IInv, HoldersLock, Apart

LEMMA HoldersLose ==
    ASSUME IInv, NEW o \in Holding, Holding' = Holding \ {o}, locked \ {object[o].index} \subseteq locked',
           \A p \in Holding \ {o} : object'[p] = object[p]
    PROVE  HoldersLock' /\ Apart' /\ Cardinality(Holding') = Cardinality(Holding) - 1
<1>1. HoldersLock' /\ Apart'
    BY DEF IInv, HoldersLock, Apart
<1>2. IsFiniteSet(Holding)
    BY Finite DEF Holding
<1> QED BY <1>1, <1>2, FS_RemoveElement

LEMMA HoldersGain ==
    ASSUME IInv, NEW o \in Object, NEW i \in Bucket \ locked, Holding' = Holding \cup {o},
           locked' = locked \cup {i}, object'[o].index = i, object'[o].table,
           \A p \in Holding \ {o} : object'[p] = object[p]
    PROVE  /\ HoldersLock' /\ Apart' /\ Cardinality(locked') = Cardinality(locked) + 1
           /\ Cardinality(Holding') = Cardinality(Holding) + IF o \in Holding THEN 0 ELSE 1
<1>1. HoldersLock' /\ Apart'
    BY DEF IInv, HoldersLock, Apart
<1>2. IsFiniteSet(Holding) /\ IsFiniteSet(locked)
    BY Finite DEF Holding, IInv, Typed
<1>3. Cardinality(locked') = Cardinality(locked) + 1
    BY <1>2, FS_AddElement
<1>4. CASE o \in Holding
  <2>1. Holding' = Holding
    BY <1>4
  <2>2. Cardinality(Holding') = Cardinality(Holding) /\ Cardinality(Holding) \in Nat
    <3>1. Cardinality(Holding') = Cardinality(Holding)
      BY <2>1, Zenon
    <3> QED BY <1>2, <3>1, FS_CardinalityType
  <2> QED BY <1>1, <1>3, <1>4, <2>2
<1>5. CASE o \notin Holding
    BY <1>1, <1>2, <1>3, <1>5, FS_AddElement
<1> QED BY <1>4, <1>5

LEMMA HoldersMove ==
    ASSUME IInv, NEW from \in Holding, NEW to \in Object \ {from}, locked' = locked,
           Holding' = (Holding \ {from}) \cup {to}, object'[to] = object[from],
           \A p \in Holding \ {from, to} : object'[p] = object[p]
    PROVE  /\ HoldersLock' /\ Apart'
           /\ Cardinality(Holding') = Cardinality(Holding) - IF to \in Holding THEN 1 ELSE 0
<1>1. HoldersLock' /\ Apart'
    BY DEF IInv, HoldersLock, Apart
<1>2. IsFiniteSet(Holding) /\ Cardinality(Holding) \in Nat
    BY Finite DEF Holding
<1>3. Cardinality(Holding \ {from}) = Cardinality(Holding) - 1 /\ IsFiniteSet(Holding \ {from})
    BY <1>2, FS_RemoveElement
<1>4. CASE to \in Holding
  <2>1. Holding' = Holding \ {from}
    BY <1>4
  <2> QED BY <1>1, <1>2, <1>3, <1>4, <2>1
<1>5. CASE to \notin Holding
  <2>1. Cardinality((Holding \ {from}) \cup {to}) = Cardinality(Holding \ {from}) + 1
    BY <1>3, <1>5, FS_AddElement
  <2> QED BY <1>1, <1>2, <1>3, <1>5, <2>1
<1> QED BY <1>4, <1>5

(* A bucket mutex given back.                                              *)
LEMMA UnlockedOne ==
    ASSUME IInv, NEW i \in locked
    PROVE  Cardinality(locked \ {i}) = Cardinality(locked) - 1
<1>1. IsFiniteSet(locked)
    BY Finite DEF IInv, Typed
<1> QED BY <1>1, FS_RemoveElement

(* A thread between the table and a bucket shares the table.               *)
Enters(place) == IF place \in {"bucket", "iter_bucket"} THEN 1 ELSE 0

LEMMA EnteringStep ==
    ASSUME Typed, NEW t \in Thread, \A u \in Thread \ {t} : pc'[u] = pc[u]
    PROVE  Cardinality(Entering') = Cardinality(Entering) + Enters(pc'[t]) - Enters(pc[t])
<1>1. Entering' = IF pc'[t] \in {"bucket", "iter_bucket"} THEN Entering \cup {t} ELSE Entering \ {t}
    BY DEF Entering
<1>2. t \in Entering <=> pc[t] \in {"bucket", "iter_bucket"}
    BY DEF Entering
<1>3. IsFiniteSet(Entering) /\ Cardinality(Entering) \in Nat
    BY Finite DEF Entering
<1>4. Cardinality(Entering \cup {t}) = Cardinality(Entering) + IF t \in Entering THEN 0 ELSE 1
  <2>1. CASE t \in Entering
    <3>1. Entering \cup {t} = Entering
      BY <2>1
    <3>2. Cardinality(Entering \cup {t}) = Cardinality(Entering)
      BY <3>1, Zenon
    <3> QED BY <1>3, <2>1, <3>2
  <2>2. CASE t \notin Entering
    BY <1>3, <2>2, FS_AddElement
  <2> QED BY <2>1, <2>2
<1>5. Cardinality(Entering \ {t}) = Cardinality(Entering) - IF t \in Entering THEN 1 ELSE 0
  <2>1. CASE t \in Entering
    BY <1>3, <2>1, FS_RemoveElement
  <2>2. CASE t \notin Entering
    <3>1. Entering \ {t} = Entering
      BY <2>2
    <3>2. Cardinality(Entering \ {t}) = Cardinality(Entering)
      BY <3>1, Zenon
    <3> QED BY <1>3, <2>2, <3>2
  <2> QED BY <2>1, <2>2
<1> QED BY <1>1, <1>2, <1>3, <1>4, <1>5 DEF Enters

-----------------------------------------------------------------------------

(* The count: what a slip costs, and how far from the width it stays.      *)
LostOf(F) == F \cap {"overwritten", "thrown"}
ForgedOf(F) == F \cap {"unbegun"}

LEMMA SlipCounts ==
    ASSUME Typed
    PROVE  /\ \A kind \in {"overwritten", "thrown"} : Slip(kind) => Lost' = Lost + 1 /\ Forged' = Forged
           /\ Slip("unbegun") => Lost' = Lost /\ Forged' = Forged + 1
           /\ UNCHANGED faults => Lost' = Lost /\ Forged' = Forged
           /\ Lost \in Nat /\ Forged \in {0, 1} /\ ("unbegun" \notin faults => Forged = 0)
<1>1. LostOf(faults) \in SUBSET Faults
    BY DEF LostOf, Faults
<1>2. IsFiniteSet(LostOf(faults)) /\ Lost \in Nat /\ Lost = Cardinality(LostOf(faults))
    BY <1>1, Finite DEF LostOf, Lost
<1>3. Forged = IF "unbegun" \in faults THEN 1 ELSE 0
  <2>1. CASE "unbegun" \in faults
    <3>1. faults \cap {"unbegun"} = {"unbegun"}
      BY <2>1
    <3>2. Cardinality(faults \cap {"unbegun"}) = Cardinality({"unbegun"})
      BY <3>1, Zenon
    <3> QED BY <2>1, <3>2, FS_Singleton DEF Forged
  <2>2. CASE "unbegun" \notin faults
    <3>1. faults \cap {"unbegun"} = {}
      BY <2>2
    <3>2. Cardinality(faults \cap {"unbegun"}) = Cardinality({})
      BY <3>1, Zenon
    <3> QED BY <2>2, <3>2, FS_EmptySet DEF Forged
  <2> QED BY <2>1, <2>2
<1>4. ASSUME NEW kind \in {"overwritten", "thrown"}, Slip(kind) PROVE Lost' = Lost + 1 /\ Forged' = Forged
  <2>1. kind \notin LostOf(faults) /\ faults' = faults \cup {kind}
    BY <1>4 DEF Slip, LostOf
  <2>2. LostOf(faults') = LostOf(faults) \cup {kind} /\ ForgedOf(faults') = ForgedOf(faults)
    BY <2>1 DEF LostOf, ForgedOf
  <2>3. Cardinality(LostOf(faults) \cup {kind}) = Cardinality(LostOf(faults)) + 1
    BY <1>2, <2>1, FS_AddElement
  <2>4. Cardinality(LostOf(faults')) = Cardinality(LostOf(faults) \cup {kind})
        /\ Cardinality(ForgedOf(faults')) = Cardinality(ForgedOf(faults))
    BY <2>2, Zenon
  <2> QED BY <2>3, <2>4 DEF Lost, Forged, LostOf, ForgedOf
<1>5. ASSUME Slip("unbegun") PROVE Lost' = Lost /\ Forged' = Forged + 1
  <2>1. "unbegun" \notin ForgedOf(faults) /\ faults' = faults \cup {"unbegun"}
    BY <1>5 DEF Slip, ForgedOf
  <2>2. LostOf(faults') = LostOf(faults) /\ ForgedOf(faults') = ForgedOf(faults) \cup {"unbegun"}
    BY <2>1 DEF LostOf, ForgedOf
  <2>3. IsFiniteSet(ForgedOf(faults))
    BY Finite DEF ForgedOf, Faults
  <2>4. Cardinality(ForgedOf(faults) \cup {"unbegun"}) = Cardinality(ForgedOf(faults)) + 1
    BY <2>1, <2>3, FS_AddElement
  <2>5. Cardinality(LostOf(faults')) = Cardinality(LostOf(faults))
        /\ Cardinality(ForgedOf(faults')) = Cardinality(ForgedOf(faults) \cup {"unbegun"})
    BY <2>2, Zenon
  <2> QED BY <2>4, <2>5 DEF Lost, Forged, LostOf, ForgedOf
<1>6. UNCHANGED faults => Lost' = Lost /\ Forged' = Forged
    BY DEF Lost, Forged
<1> QED BY <1>2, <1>3, <1>4, <1>5, <1>6

LEMMA SharesRange ==
    ASSUME NEW H \in SUBSET Object, NEW E \in SUBSET Thread, NEW F \in SUBSET Faults, Cardinality(F) <= MaxFaults
    PROVE  Cardinality(H) + Cardinality(E) + Cardinality(LostOf(F)) - Cardinality(ForgedOf(F))
              \in -1 .. CountModulus - 1
<1>1. IsFiniteSet(F) /\ LostOf(F) \in SUBSET F
    BY Finite DEF LostOf
<1>2. Cardinality(LostOf(F)) \in Nat /\ Cardinality(LostOf(F)) <= Cardinality(F) /\ Cardinality(F) \in Nat
    BY <1>1, FS_Subset, FS_CardinalityType
<1>3. Cardinality(ForgedOf(F)) \in Nat /\ Cardinality(ForgedOf(F)) <= 1
  <2>1. ForgedOf(F) \in SUBSET {"unbegun"}
    BY DEF ForgedOf
  <2>2. IsFiniteSet({"unbegun"}) /\ Cardinality({"unbegun"}) = 1
    BY FS_Singleton
  <2>3. IsFiniteSet(ForgedOf(F)) /\ Cardinality(ForgedOf(F)) <= Cardinality({"unbegun"})
    BY <2>1, <2>2, FS_Subset
  <2> QED BY <2>2, <2>3, FS_CardinalityType
<1>4. /\ Cardinality(H) \in Nat /\ Cardinality(H) <= Cardinality(Object) /\ Cardinality(Object) \in Nat
      /\ Cardinality(E) \in Nat /\ Cardinality(E) <= Cardinality(Thread) /\ Cardinality(Thread) \in Nat
    BY Finite
<1> QED BY <1>2, <1>3, <1>4, WidthAssumption

LEMMA CountStep ==
    ASSUME NEW m \in Nat, NEW s \in -1 .. m - 1, NEW r \in -1 .. m - 1
    PROVE  /\ r = s + 1 => r % m = ((s % m) + 1) % m
           /\ r = s - 1 => r % m = ((s % m) - 1) % m
<1>1. m = 0 \/ m \in Nat \ {0}
    OBVIOUS
<1>2. CASE m = 0
    BY <1>2
<1>3. CASE m \in Nat \ {0}
  <2>1. \A x \in 0 .. m - 1 : x % m = x
    BY <1>3
  <2>2. m % m = 0 /\ (-1) % m = m - 1
    BY <1>3
  <2>3. CASE s = -1
    <3>1. s % m = m - 1 /\ (m - 1) + 1 = m
      BY <1>3, <2>2, <2>3
    <3> QED BY <1>3, <2>1, <2>2, <2>3, <3>1
  <2>4. CASE s \in 0 .. m - 1
    BY <1>3, <2>1, <2>2, <2>4
  <2> QED BY <1>3, <2>3, <2>4
<1> QED BY <1>1, <1>2, <1>3

(* The locks stay accounted for when a step changes the number of objects  *)
(* on an element, of threads between the table and a bucket, and of slips  *)
(* by as much as it changes the count.                                     *)
Change ==
    (Cardinality(Holding') - Cardinality(Holding)) + (Cardinality(Entering') - Cardinality(Entering))
        + (Lost' - Lost) - (Forged' - Forged)

LocksPaid ==
    Cardinality(locked') - Cardinality(locked) <= (Cardinality(Holding') - Cardinality(Holding)) + (Lost' - Lost)

LEMMA Numbers ==
    ASSUME Typed
    PROVE  /\ Cardinality(Holding) \in Nat /\ Cardinality(Entering) \in Nat /\ Cardinality(locked) \in Nat
           /\ Lost \in Nat /\ Forged \in {0, 1}
<1>1. Holding \in SUBSET Object /\ Entering \in SUBSET Thread /\ locked \in SUBSET Bucket
    BY DEF Holding, Entering, Typed
<1>2. Lost \in Nat /\ Forged \in {0, 1}
    BY SlipCounts
<1> QED BY <1>1, <1>2, Finite

LEMMA NumbersNext ==
    ASSUME Typed'
    PROVE  /\ Cardinality(Holding') \in Nat /\ Cardinality(Entering') \in Nat /\ Cardinality(locked') \in Nat
           /\ Lost' \in Nat /\ Forged' \in Nat
<1>1. /\ Holding' \in SUBSET Object /\ Entering' \in SUBSET Thread /\ locked' \in SUBSET Bucket
      /\ LostOf(faults') \in SUBSET Faults /\ ForgedOf(faults') \in SUBSET Faults
    BY DEF Holding, Entering, Typed, LostOf, ForgedOf, Faults
<1> QED BY <1>1, Finite DEF Lost, Forged, LostOf, ForgedOf

LEMMA BalancedStep ==
    ASSUME IInv, Typed', LocksPaid,
           \/ Change = 0 /\ count' = count
           \/ Change = 1 /\ lock_shared
           \/ Change = -1 /\ unlock_shared
    PROVE  Balanced'
<1>1. Typed /\ Balanced
    BY DEF IInv
<1>2. Shares \in -1 .. CountModulus - 1
    BY <1>1, SharesRange DEF Typed, Shares, Lost, Forged, LostOf, ForgedOf, Holding, Entering
<1>3. Shares' \in -1 .. CountModulus - 1
    BY SharesRange DEF Typed, Shares, Lost, Forged, LostOf, ForgedOf, Holding, Entering
<1>4. Shares' = Shares + Change
    BY <1>1, Numbers, NumbersNext DEF Shares, Change
<1>5. Cardinality(locked') <= Cardinality(Holding') + Lost'
    BY <1>1, Numbers, NumbersNext DEF Balanced, LocksPaid
<1>6. count' = Shares' % CountModulus
  <2>1. CountModulus \in Nat /\ count = Shares % CountModulus /\ Shares \in Int
    BY <1>1, <1>2, WidthAssumption DEF Balanced
  <2>2. CASE Change = 0 /\ count' = count
    <3>1. Shares' = Shares
      BY <1>4, <2>1, <2>2
    <3> QED BY <2>1, <2>2, <3>1
  <2>3. CASE Change = 1 /\ lock_shared
    <3>1. Shares' = Shares + 1
      BY <1>4, <2>3
    <3> QED BY <1>2, <1>3, <2>1, <2>3, <3>1, CountStep DEF lock_shared
  <2>4. CASE Change = -1 /\ unlock_shared
    <3>1. Shares' = Shares - 1
      BY <1>4, <2>1, <2>4
    <3> QED BY <1>2, <1>3, <2>1, <2>4, <3>1, CountStep DEF unlock_shared
  <2> QED BY <2>2, <2>3, <2>4
<1> QED BY <1>5, <1>6 DEF Balanced

-----------------------------------------------------------------------------

(* A step that changes neither objects nor elements.                       *)
LEMMA SameObjects ==
    ASSUME IInv, NEW t \in Thread, pc[t] # "undefined", object' = object, chain' = chain, locked \subseteq locked'
    PROVE  HoldersLock' /\ Apart' /\ Live' /\ Cardinality(Holding') = Cardinality(Holding)
<1>1. Holding' = Holding
    BY DEF Holding
<1>2. Cardinality(Holding') = Cardinality(Holding)
    BY <1>1, Zenon
<1>3. HoldersLock' /\ Apart'
    BY <1>1, HoldersKeep
<1>4. Live'
    BY <1>1 DEF IInv, Live
<1> QED BY <1>2, <1>3, <1>4

LEMMA GetKept ==
    ASSUME IInv, Typed', NEW t \in Thread,
           Get(t) \/ Clear(t) \/ GetTable(t) \/ IterTable(t) \/ ClearGate(t)
    PROVE  HoldersLock' /\ Apart' /\ Live' /\ Balanced'
<1>1. Typed /\ object' = object /\ chain' = chain /\ locked' = locked /\ pc[t] # "undefined"
    BY DEF IInv, Get, Clear, GetTable, IterTable, ClearGate
<1>2. HoldersLock' /\ Apart' /\ Live' /\ Cardinality(Holding') = Cardinality(Holding)
    BY <1>1, SameObjects
<1>3. Cardinality(locked') = Cardinality(locked)
    BY <1>1, Zenon
<1>4. \A u \in Thread \ {t} : pc'[u] = pc[u]
    BY <1>1 DEF Typed, Get, Clear, GetTable, IterTable, ClearGate, Wait, Return, ToBucket
<1>5. Cardinality(Entering') = Cardinality(Entering) + Enters(pc'[t]) - Enters(pc[t])
    BY <1>1, <1>4, EnteringStep
<1>6. CASE Get(t) \/ Clear(t) \/ ClearGate(t)
  <2>1. /\ pc[t] \in {"run", "gate"} /\ pc'[t] \in {"table", "gate", "drain"}
        /\ UNCHANGED <<count, faults>>
    BY <1>1, <1>6 DEF Typed, Get, Clear, ClearGate, Wait
  <2>2. Enters(pc'[t]) = 0 /\ Enters(pc[t]) = 0
    BY <2>1 DEF Enters
  <2>3. Lost' = Lost /\ Forged' = Forged
    BY <1>1, <2>1, SlipCounts
  <2>4. Change = 0 /\ LocksPaid
    BY <1>1, <1>2, <1>3, <1>5, <2>2, <2>3, Numbers DEF Change, LocksPaid
  <2> QED BY <1>2, <2>1, <2>4, BalancedStep
<1>7. CASE IterTable(t) \/ (GetTable(t) /\ UNCHANGED faults)
  <2>1. /\ pc[t] \in {"table", "iter_table"} /\ lock_shared /\ UNCHANGED faults
        /\ pc'[t] \in {"bucket", "iter_bucket"}
    BY <1>1, <1>7 DEF Typed, GetTable, IterTable, Wait, ToBucket, Slip
  <2>2. Enters(pc'[t]) = 1 /\ Enters(pc[t]) = 0
    BY <2>1 DEF Enters
  <2>3. Lost' = Lost /\ Forged' = Forged
    BY <1>1, <2>1, SlipCounts
  <2>4. Change = 1 /\ LocksPaid
    BY <1>1, <1>2, <1>3, <1>5, <2>2, <2>3, Numbers DEF Change, LocksPaid
  <2> QED BY <1>2, <2>1, <2>4, BalancedStep
<1>8. CASE GetTable(t) /\ faults' # faults
  <2>1. pc[t] = "table" /\ lock_shared /\ Slip("thrown") /\ pc'[t] = "run"
    BY <1>1, <1>8 DEF Typed, GetTable, Return
  <2>2. Enters(pc'[t]) = 0 /\ Enters(pc[t]) = 0
    BY <2>1 DEF Enters
  <2>3. Lost' = Lost + 1 /\ Forged' = Forged
    BY <1>1, <2>1, SlipCounts
  <2>4. Change = 1 /\ LocksPaid
    BY <1>1, <1>2, <1>3, <1>5, <2>2, <2>3, Numbers DEF Change, LocksPaid
  <2> QED BY <1>2, <2>1, <2>4, BalancedStep
<1> QED BY <1>6, <1>7, <1>8

(* An object assigned over, or one that is on no element set to another    *)
(* such: the locks it held are lost.                                       *)
LEMMA Overwritten ==
    ASSUME IInv, NEW t \in Thread, pc[t] # "undefined", NEW o \in Object, OverwriteOK(o),
           Holding' = Holding \ {o}, \A p \in Holding \ {o} : object'[p] = object[p],
           locked' = locked, chain' = chain
    PROVE  /\ HoldersLock' /\ Apart' /\ Live' /\ Forged' = Forged
           /\ Cardinality(locked') = Cardinality(locked)
           /\ Cardinality(Holding') + Lost' = Cardinality(Holding) + Lost
<1>1. Typed
    BY DEF IInv
<1>2. Live'
    BY DEF IInv, Live
<1>3. Cardinality(locked') = Cardinality(locked)
    BY Zenon
<1>4. CASE o \in Holding
  <2>1. Slip("overwritten")
    BY <1>4 DEF OverwriteOK, Holding
  <2>2. Lost' = Lost + 1 /\ Forged' = Forged
    BY <1>1, <2>1, SlipCounts
  <2>3. HoldersLock' /\ Apart' /\ Cardinality(Holding') = Cardinality(Holding) - 1
    BY <1>4, HoldersLose
  <2> QED BY <1>1, <1>2, <1>3, <2>2, <2>3, Numbers
<1>5. CASE o \notin Holding
  <2>1. UNCHANGED faults
    BY <1>5 DEF OverwriteOK, Holding
  <2>2. Lost' = Lost /\ Forged' = Forged
    BY <1>1, <2>1, SlipCounts
  <2>3. Holding' = Holding
    BY <1>5
  <2>4. Cardinality(Holding') = Cardinality(Holding)
    BY <2>3, Zenon
  <2>5. HoldersLock' /\ Apart'
    BY <1>5, <2>3, HoldersKeep
  <2> QED BY <1>2, <1>3, <2>2, <2>4, <2>5
<1> QED BY <1>4, <1>5

LEMMA GetBucketKept ==
    ASSUME IInv, Typed', NEW t \in Thread, GetBucket(t)
    PROVE  HoldersLock' /\ Apart' /\ Live' /\ Balanced'
<1> DEFINE k == call[t].key
           i == get_bucket_index(k)
           o == call[t].to
           found == k \in ToSet(chain[i])
<1>1. Typed /\ pc[t] = "bucket" /\ o \in Object /\ k \in Key /\ i \in Bucket /\ i \notin locked /\ Return(t)
    BY BucketOf DEF IInv, CallsReady, GetBucket, Mine
<1>2. /\ Enters(pc'[t]) = 0 /\ Enters(pc[t]) = 1
      /\ Cardinality(Entering') = Cardinality(Entering) + Enters(pc'[t]) - Enters(pc[t])
    BY <1>1, Returned, EnteringStep DEF Enters
<1>3. ASSUME chain' = [chain EXCEPT ![i] = IF found THEN @ ELSE <<k>> \o @], locked' = locked \cup {i},
             object' = [object EXCEPT ![o] = On(i, k)], OverwriteOK(o), UNCHANGED count
      PROVE  HoldersLock' /\ Apart' /\ Live' /\ Balanced'
  <2>1. /\ object'[o].index = i /\ object'[o].table /\ object'[o].node = k
        /\ Holding' = Holding \cup {o} /\ \A p \in Holding \ {o} : object'[p] = object[p]
    <3>1. On(i, k) \in ObjectType /\ On(i, k).node = k /\ k # None /\ On(i, k).table /\ On(i, k).index = i
      BY <1>1, EmptyTyped, NoneAssumption
    <3> HIDE DEF i, k, o
    <3>2. object'[o] = On(i, k) /\ Holding' = Holding \cup {o} /\ \A p \in Object \ {o} : object'[p] = object[p]
      BY <1>1, <1>3, <3>1, ObjectSet
    <3> QED BY <3>1, <3>2 DEF Holding
  <2>2. /\ HoldersLock' /\ Apart' /\ Cardinality(locked') = Cardinality(locked) + 1
        /\ Cardinality(Holding') = Cardinality(Holding) + IF o \in Holding THEN 0 ELSE 1
    BY <1>1, <1>3, <2>1, HoldersGain
  <2>3. Live'
    <3>1. k \in ToSet(chain'[i]) /\ \A j \in Bucket : ToSet(chain[j]) \subseteq ToSet(chain'[j])
      <4>1. /\ k \in ToSet(<<k>> \o chain[i]) /\ ToSet(chain[i]) \subseteq ToSet(<<k>> \o chain[i])
        BY <1>1, PushedChain DEF Typed
      <4> QED BY <1>1, <1>3, <4>1 DEF Typed
    <3>2. \A p \in Holding : object[p].node \in ToSet(chain[object[p].index]) /\ object[p].index \in Bucket
      BY <1>1 DEF IInv, Live, HoldersLock, Typed
    <3> QED BY <2>1, <3>1, <3>2 DEF Live
  <2>4. Lost' = Lost + (IF o \in Holding THEN 1 ELSE 0) /\ Forged' = Forged
    <3>1. IF o \in Holding THEN Slip("overwritten") ELSE UNCHANGED faults
      BY <1>1, <1>3 DEF OverwriteOK, Holding
    <3> QED BY <1>1, <3>1, SlipCounts
  <2>5. Change = 0 /\ LocksPaid
    <3> HIDE DEF o
    <3> QED BY <1>1, <1>2, <2>2, <2>4, Numbers DEF Change, LocksPaid
  <2> QED BY <1>3, <2>2, <2>3, <2>5, BalancedStep
<1>4. ASSUME unlock_shared, object' = [object EXCEPT ![o] = Empty], OverwriteOK(o), UNCHANGED <<chain, locked>>
      PROVE  HoldersLock' /\ Apart' /\ Live' /\ Balanced'
  <2>1. Holding' = Holding \ {o} /\ \A p \in Holding \ {o} : object'[p] = object[p]
    BY <1>1, <1>4, EmptyTyped, ObjectSet, ZenonT(60) DEF Holding
  <2>2. /\ HoldersLock' /\ Apart' /\ Live' /\ Forged' = Forged
        /\ Cardinality(locked') = Cardinality(locked)
        /\ Cardinality(Holding') + Lost' = Cardinality(Holding) + Lost
    BY <1>1, <1>4, <2>1, Overwritten
  <2>3. Change = -1 /\ LocksPaid
    BY <1>1, <1>2, <2>2, Numbers, NumbersNext DEF Change, LocksPaid
  <2> QED BY <1>4, <2>2, <2>3, BalancedStep
<1>5. ASSUME Slip("thrown"), locked' = locked \cup {i}, UNCHANGED <<chain, count, object>>
      PROVE  HoldersLock' /\ Apart' /\ Live' /\ Balanced'
  <2>1. HoldersLock' /\ Apart' /\ Live' /\ Cardinality(Holding') = Cardinality(Holding)
    BY <1>1, <1>5, SameObjects
  <2>2. Cardinality(locked') = Cardinality(locked) + 1
    BY <1>1, <1>5, Finite, FS_AddElement DEF Typed
  <2>3. Lost' = Lost + 1 /\ Forged' = Forged
    BY <1>1, <1>5, SlipCounts
  <2>4. Change = 0 /\ LocksPaid
    BY <1>1, <1>2, <2>1, <2>2, <2>3, Numbers DEF Change, LocksPaid
  <2> QED BY <1>5, <2>1, <2>4, BalancedStep
<1> QED BY <1>3, <1>4, <1>5 DEF GetBucket

(* release(): what each kind of object gives back.                         *)
LEMMA ReleaseKept ==
    ASSUME IInv, Typed', NEW t \in Thread, Release(t) \/ Erase(t)
    PROVE  HoldersLock' /\ Apart' /\ Live' /\ Balanced'
<1>1. Typed /\ pc[t] = "run" /\ pc' = pc
    BY DEF IInv, Release, Erase
<1>2. Cardinality(Entering') = Cardinality(Entering)
  <2>1. Entering' = Entering
    BY <1>1 DEF Entering
  <2> QED BY <2>1, Zenon
<1>3. PICK o \in Object : /\ object[o].table \/ object[o].node # None
                          /\ ReleaseAny(o)
                          /\ object[o].node = None => Slip("unbegun")
                          /\ object[o].node # None => UNCHANGED faults
                          /\ \/ chain' = chain
                             \/ object[o].node # None /\ chain' = Unlinked(object[o].index, object[o].node)
  <2>1. CASE Release(t)
    BY <2>1 DEF Release, Mine
  <2>2. CASE Erase(t)
    BY <2>2 DEF Erase, Mine
  <2> QED BY <2>1, <2>2
<1>4. Holding' = Holding \ {o} /\ \A p \in Object \ {o} : object'[p] = object[p]
  <2>1. object' = [object EXCEPT ![o] = Empty]
    BY <1>3 DEF ReleaseAny
  <2> QED BY <1>1, <2>1, EmptyTyped, ObjectSet
<1>5. CASE o \in Holding
  <2> DEFINE i == object[o].index
  <2>1. i \in Bucket /\ i \in locked /\ object[o].table /\ object[o].node # None
        /\ \A j \in Bucket \ {i} : Unlinked(i, object[o].node)[j] = chain[j]
    BY <1>1, <1>5, HolderPlace DEF Holding
  <2>2. locked' = locked \ {i} /\ unlock_shared /\ UNCHANGED faults
    BY <1>3, <2>1 DEF ReleaseAny
  <2>3. HoldersLock' /\ Apart' /\ Cardinality(Holding') = Cardinality(Holding) - 1
    BY <1>4, <1>5, <2>2, HoldersLose DEF Holding
  <2>4. Live'
    <3>1. \A p \in Holding \ {o} : /\ object[p].node \in ToSet(chain[object[p].index])
                                   /\ object[p].index \in Bucket /\ object[p].index # i
      BY <1>1, <1>5 DEF IInv, Live, Apart, HoldersLock, Typed
    <3>2. \A p \in Holding \ {o} : object'[p] = object[p] /\ chain'[object[p].index] = chain[object[p].index]
      BY <1>3, <1>4, <2>1, <3>1 DEF Holding
    <3> QED BY <1>4, <3>1, <3>2 DEF Live
  <2>5. Cardinality(locked') = Cardinality(locked) - 1
    <3>1. Cardinality(locked \ {i}) = Cardinality(locked) - 1
      BY <2>1, UnlockedOne
    <3> QED BY <2>2, <3>1
  <2>6. Lost' = Lost /\ Forged' = Forged
    BY <1>1, <2>2, SlipCounts
  <2>7. Change = -1 /\ LocksPaid
    BY <1>1, <1>2, <2>3, <2>5, <2>6, Numbers DEF Change, LocksPaid
  <2> QED BY <2>2, <2>3, <2>4, <2>7, BalancedStep
<1>6. CASE o \notin Holding
  <2>1. object[o].node = None /\ object[o].table
    BY <1>3, <1>6 DEF Holding
  <2>2. locked' = locked /\ unlock_shared /\ Slip("unbegun") /\ chain' = chain
    <3>1. ReleaseAny(o) /\ Slip("unbegun") /\ chain' = chain
      BY <1>3, <2>1
    <3>2. locked' = locked /\ unlock_shared
      BY <2>1, <3>1 DEF ReleaseAny
    <3> QED BY <3>1, <3>2
  <2>3. Holding' = Holding /\ \A p \in Holding : object'[p] = object[p]
    BY <1>4, <1>6 DEF Holding
  <2>4. HoldersLock' /\ Apart'
    BY <2>2, <2>3, HoldersKeep
  <2>5. Live'
    BY <1>1, <2>2, <2>3 DEF IInv, Live
  <2>6. Cardinality(Holding') = Cardinality(Holding) /\ Cardinality(locked') = Cardinality(locked)
    BY <2>2, <2>3, Zenon
  <2>7. Lost' = Lost /\ Forged' = Forged + 1
    BY <1>1, <2>2, SlipCounts
  <2>8. Change = -1 /\ LocksPaid
    BY <1>1, <1>2, <2>6, <2>7, Numbers DEF Change, LocksPaid
  <2> QED BY <2>2, <2>4, <2>5, <2>8, BalancedStep
<1> QED BY <1>5, <1>6

(* A variable that takes over what another holds.                          *)
LEMMA MoveKept ==
    ASSUME IInv, Typed', NEW t \in Thread, Move(t) \/ NewIterator(t)
    PROVE  HoldersLock' /\ Apart' /\ Live' /\ Balanced'
<1>1. Typed /\ pc[t] = "run" /\ UNCHANGED <<pc, chain, count, locked>>
    BY DEF IInv, Move, NewIterator
<1>2. Cardinality(Entering') = Cardinality(Entering) /\ Cardinality(locked') = Cardinality(locked)
  <2>1. Entering' = Entering /\ locked' = locked
    BY <1>1 DEF Entering
  <2> QED BY <2>1, Zenon
<1>3. ASSUME NEW o \in Object, OverwriteOK(o), Holding' = Holding \ {o},
             \A p \in Holding \ {o} : object'[p] = object[p]
      PROVE  HoldersLock' /\ Apart' /\ Live' /\ Balanced'
  <2>1. /\ HoldersLock' /\ Apart' /\ Live' /\ Forged' = Forged
        /\ Cardinality(Holding') + Lost' = Cardinality(Holding) + Lost
    BY <1>1, <1>3, Overwritten
  <2>2. Change = 0 /\ LocksPaid
    BY <1>1, <1>2, <2>1, Numbers, NumbersNext DEF Change, LocksPaid
  <2> QED BY <1>1, <2>1, <2>2, BalancedStep
<1>4. CASE NewIterator(t)
  <2>1. PICK o \in Object : object' = [object EXCEPT ![o] = Unbegun] /\ OverwriteOK(o)
    BY <1>4 DEF NewIterator, Mine
  <2>2. Holding' = Holding \ {o} /\ \A p \in Holding \ {o} : object'[p] = object[p]
    BY <1>1, <2>1, EmptyTyped, ObjectSet DEF Holding
  <2> QED BY <1>3, <2>1, <2>2
<1>5. CASE Move(t)
  <2>1. PICK from \in Object, to \in Object : from # to /\ object' = Moved(to, from) /\ OverwriteOK(to)
    BY <1>5 DEF Move, Mine
  <2>2. /\ object'[to] = object[from] /\ \A p \in Object \ {to, from} : object'[p] = object[p]
        /\ Holding' = IF from \in Holding THEN (Holding \ {from}) \cup {to} ELSE Holding \ {to}
    BY <1>1, <2>1, ObjectMoved
  <2>3. CASE from \notin Holding
    <3>1. Holding' = Holding \ {to} /\ \A p \in Holding \ {to} : object'[p] = object[p]
      BY <2>2, <2>3 DEF Holding
    <3> QED BY <1>3, <2>1, <3>1
  <2>4. CASE from \in Holding
    <3>1. Holding' = (Holding \ {from}) \cup {to} /\ \A p \in Holding \ {from, to} : object'[p] = object[p]
      BY <2>2, <2>4 DEF Holding
    <3>2. /\ HoldersLock' /\ Apart'
          /\ Cardinality(Holding') = Cardinality(Holding) - IF to \in Holding THEN 1 ELSE 0
      BY <1>1, <2>1, <2>2, <2>4, <3>1, HoldersMove
    <3>3. Live'
      BY <1>1, <2>2, <2>4, <3>1 DEF IInv, Live
    <3>4. Lost' = Lost + (IF to \in Holding THEN 1 ELSE 0) /\ Forged' = Forged
      <4>1. IF to \in Holding THEN Slip("overwritten") ELSE UNCHANGED faults
        BY <2>1 DEF OverwriteOK, Holding
      <4> QED BY <1>1, <4>1, SlipCounts
    <3>5. Change = 0 /\ LocksPaid
      BY <1>1, <1>2, <3>2, <3>4, Numbers DEF Change, LocksPaid
    <3> QED BY <1>1, <3>2, <3>3, <3>5, BalancedStep
  <2> QED BY <2>3, <2>4
<1> QED BY <1>4, <1>5

(* The steps of an iterator.                                               *)
LEMMA IterKept ==
    ASSUME IInv, Typed', NEW t \in Thread, IterNext(t) \/ IterErase(t)
    PROVE  HoldersLock' /\ Apart' /\ Live' /\ Balanced'
<1>1. Typed /\ pc[t] = "run" /\ UNCHANGED <<count, faults>>
    BY DEF IInv, IterNext, IterErase
<1>2. Lost' = Lost /\ Forged' = Forged
    BY <1>1, SlipCounts
<1>3. CASE \E o \in Mine(t) \cap Iterator :
              /\ object[o].node # None
              /\ Step(t, o, object[o].index, Succ(object[o].index, object[o].node))
              /\ \/ chain' = chain
                 \/ chain' = Unlinked(object[o].index, object[o].node)
  <2>1. PICK o \in Mine(t) \cap Holding :
              /\ Step(t, o, object[o].index, Succ(object[o].index, object[o].node))
              /\ \/ chain' = chain
                 \/ chain' = Unlinked(object[o].index, object[o].node)
    BY <1>3 DEF Holding, Mine
  <2> DEFINE i == object[o].index
             k == object[o].node
             s == Succ(i, k)
  <2>2. /\ i \in Bucket /\ i \in locked
        /\ \A j \in Bucket \ {i} : Unlinked(i, k)[j] = chain[j]
        /\ s \in Key \cup {None}
        /\ s # None => s \in ToSet(chain[i]) /\ s \in ToSet(Unlinked(i, k)[i])
    BY <1>1, <2>1, HolderPlace
  <2>3. \A p \in Holding \ {o} : /\ object[p].node \in ToSet(chain[object[p].index])
                                 /\ object[p].index \in Bucket /\ object[p].index # i
    BY <1>1, <2>1 DEF IInv, Live, Apart, HoldersLock, Typed
  <2>4. /\ \A p \in Object \ {o} : object'[p] = object[p]
        /\ \A u \in Thread \ {t} : pc'[u] = pc[u]
        /\ s # None => /\ UNCHANGED <<locked, pc, call>> /\ Holding' = Holding
                       /\ object'[o].table = object[o].table
                       /\ object'[o].index = i /\ object'[o].node = s
        /\ s = None => /\ locked' = locked \ {i} /\ Holding' = Holding \ {o}
                       /\ pc'[t] = "iter_bucket"
    BY <1>1, <2>1, <2>2, Stepped
  <2>5. \A p \in Holding \ {o} : /\ object'[p] = object[p] /\ chain'[object[p].index] = chain[object[p].index]
                                 /\ object'[p].node \in ToSet(chain'[object'[p].index])
    BY <2>1, <2>2, <2>3, <2>4 DEF Holding
  <2>6. Cardinality(Entering') = Cardinality(Entering) + Enters(pc'[t]) - Enters(pc[t])
    BY <1>1, <2>4, EnteringStep
  <2>7. CASE s # None
    <3>1. HoldersLock' /\ Apart'
      BY <2>4, <2>5, <2>7, HoldersKeep
    <3>2. Live'
      <4>1. s \in ToSet(chain'[i])
        BY <2>1, <2>2, <2>7
      <4> HIDE DEF s, i
      <4> QED BY <2>4, <2>5, <2>7, <4>1 DEF Live
    <3>3. Cardinality(Holding') = Cardinality(Holding) /\ Cardinality(locked') = Cardinality(locked)
      <4>1. Holding' = Holding /\ locked' = locked
        BY <2>4, <2>7
      <4> QED BY <4>1, Zenon
    <3>4. pc'[t] = pc[t]
      BY <2>4, <2>7
    <3>5. Enters(pc'[t]) = 0 /\ Enters(pc[t]) = 0
      BY <1>1, <3>4 DEF Enters
    <3>6. Change = 0 /\ LocksPaid
      BY <1>1, <1>2, <2>6, <3>3, <3>5, Numbers DEF Change, LocksPaid
    <3> QED BY <1>1, <3>1, <3>2, <3>6, BalancedStep
  <2>8. CASE s = None
    <3>1. locked' = locked \ {i} /\ Holding' = Holding \ {o} /\ pc'[t] = "iter_bucket"
      BY <2>4, <2>8
    <3>2. HoldersLock' /\ Apart' /\ Cardinality(Holding') = Cardinality(Holding) - 1
      BY <2>1, <2>5, <3>1, HoldersLose
    <3>3. Live'
      BY <2>5, <3>1 DEF Live
    <3>4. Cardinality(locked') = Cardinality(locked) - 1
      <4>1. Cardinality(locked \ {i}) = Cardinality(locked) - 1
        BY <2>2, UnlockedOne
      <4> QED BY <3>1, <4>1
    <3>5. Enters(pc'[t]) = 1 /\ Enters(pc[t]) = 0
      BY <1>1, <3>1 DEF Enters
    <3>6. Change = 0 /\ LocksPaid
      BY <1>1, <1>2, <2>6, <3>2, <3>4, <3>5, Numbers DEF Change, LocksPaid
    <3> QED BY <1>1, <3>2, <3>3, <3>6, BalancedStep
  <2> QED BY <2>7, <2>8
<1>4. CASE \E o \in Mine(t) \cap Iterator :
              /\ object[o].node = None
              /\ object' = [object EXCEPT ![o].index = 0] /\ Wait(t, "iter_table", "next", o, None)
              /\ UNCHANGED <<locked, chain>>
  <2>1. PICK o \in Object :
              /\ object[o].node = None
              /\ object' = [object EXCEPT ![o].index = 0] /\ Wait(t, "iter_table", "next", o, None)
              /\ UNCHANGED <<locked, chain>>
    BY <1>4 DEF Mine
  <2>2. Holding' = Holding /\ \A p \in Holding : object'[p] = object[p]
    BY <1>1, <2>1 DEF Typed, ObjectType, Holding
  <2>3. HoldersLock' /\ Apart'
    BY <2>1, <2>2, HoldersKeep
  <2>4. Live'
    BY <1>1, <2>1, <2>2 DEF IInv, Live
  <2>5. Cardinality(Holding') = Cardinality(Holding) /\ Cardinality(locked') = Cardinality(locked)
    <3>1. locked' = locked
      BY <2>1
    <3> QED BY <2>2, <3>1, Zenon
  <2>6. pc'[t] = "iter_table" /\ \A u \in Thread \ {t} : pc'[u] = pc[u]
    BY <1>1, <2>1 DEF Typed, Wait
  <2>7. Enters(pc'[t]) = 0 /\ Enters(pc[t]) = 0
    BY <1>1, <2>6 DEF Enters
  <2>8. Cardinality(Entering') = Cardinality(Entering) + Enters(pc'[t]) - Enters(pc[t])
    BY <1>1, <2>6, EnteringStep
  <2>9. Change = 0 /\ LocksPaid
    BY <1>1, <1>2, <2>5, <2>7, <2>8, Numbers DEF Change, LocksPaid
  <2> QED BY <1>1, <2>3, <2>4, <2>9, BalancedStep
<1> QED BY <1>3, <1>4 DEF IterNext, IterErase

LEMMA IterBucketKept ==
    ASSUME IInv, Typed', NEW t \in Thread, IterBucket(t) \/ IterEnd(t)
    PROVE  HoldersLock' /\ Apart' /\ Live' /\ Balanced'
<1> DEFINE o == call[t].to
           i == object[o].index
<1>1. /\ Typed /\ pc[t] = "iter_bucket" /\ UNCHANGED <<chain, faults>>
      /\ o \in Object /\ object[o].node = None /\ object[o].table /\ o \notin Holding
    BY DEF IInv, CallsReady, IterBucket, IterEnd, Mine, Holding
<1>2. Lost' = Lost /\ Forged' = Forged
    BY <1>1, SlipCounts
<1>3. CASE IterBucket(t) /\ chain[i] # <<>>
  <2>1. /\ i \in Bucket \ locked /\ locked' = locked \cup {i} /\ Return(t) /\ count' = count
        /\ object' = [object EXCEPT ![o].node = Head(chain[i])]
    <3>1. i < N /\ i \in 0 .. N
      BY <1>1, <1>3 DEF IterBucket, Typed, ObjectType
    <3>2. i \in Bucket
      <4> HIDE DEF i
      <4> QED BY <3>1, BucketOf
    <3> QED BY <1>3, <3>2 DEF IterBucket
  <2> DEFINE k == Head(chain[i])
  <2>2. k \in Key /\ k \in ToSet(chain[i])
    BY <1>1, <1>3, <2>1 DEF Typed, ToSet
  <2>3. /\ object'[o].index = i /\ object'[o].table /\ object'[o].node = k
        /\ \A p \in Object \ {o} : object'[p] = object[p]
        /\ Holding' = Holding \cup {o}
    <3> DEFINE x == [object[o] EXCEPT !.node = k]
    <3>1. object' = [object EXCEPT ![o] = x]
      BY <1>1, <2>1 DEF Typed
    <3>2. x \in ObjectType /\ x.node = k /\ x.index = i /\ x.table /\ k # None
      BY <1>1, <2>2, NoneAssumption DEF Typed, ObjectType
    <3> HIDE DEF x, k, i, o
    <3>3. object'[o] = x /\ Holding' = Holding \cup {o} /\ \A p \in Object \ {o} : object'[p] = object[p]
      BY <1>1, <3>1, <3>2, ObjectSet
    <3> QED BY <3>2, <3>3
  <2>4. /\ HoldersLock' /\ Apart' /\ Cardinality(locked') = Cardinality(locked) + 1
        /\ Cardinality(Holding') = Cardinality(Holding) + 1
    <3>1. \A p \in Holding \ {o} : object'[p] = object[p]
      BY <2>3 DEF Holding
    <3> QED BY <1>1, <2>1, <2>3, <3>1, HoldersGain
  <2>5. Live'
    BY <1>1, <2>2, <2>3 DEF IInv, Live, Holding
  <2>6. /\ Enters(pc'[t]) = 0 /\ Enters(pc[t]) = 1
        /\ Cardinality(Entering') = Cardinality(Entering) + Enters(pc'[t]) - Enters(pc[t])
    BY <1>1, <2>1, Returned, EnteringStep DEF Enters
  <2>7. Change = 0 /\ LocksPaid
    BY <1>1, <1>2, <2>4, <2>6, Numbers DEF Change, LocksPaid
  <2> QED BY <2>1, <2>4, <2>5, <2>7, BalancedStep
<1>4. CASE (IterBucket(t) /\ chain[i] = <<>>) \/ IterEnd(t)
  <2>1. locked' = locked
    BY <1>4 DEF IterBucket, IterEnd
  <2>2. Holding' = Holding /\ \A p \in Holding : object'[p] = object[p]
    <3>1. /\ \A p \in Object \ {o} : object'[p] = object[p]
          /\ object'[o].node = None
      <4>1. CASE IterEnd(t)
        BY <1>1, <4>1 DEF Typed, IterEnd, Empty
      <4>2. CASE IterBucket(t) /\ chain[i] = <<>>
        BY <1>1, <4>2, ZenonT(60) DEF Typed, ObjectType, IterBucket
      <4> QED BY <1>4, <4>1, <4>2
    <3> QED BY <1>1, <3>1 DEF Holding
  <2>3. HoldersLock' /\ Apart'
    BY <2>1, <2>2, HoldersKeep
  <2>4. Live'
    BY <1>1, <2>2 DEF IInv, Live
  <2>5. Cardinality(Holding') = Cardinality(Holding) /\ Cardinality(locked') = Cardinality(locked)
    BY <2>1, <2>2, Zenon
  <2>6. CASE IterEnd(t)
    <3>1. /\ Enters(pc'[t]) = 0 /\ Enters(pc[t]) = 1 /\ unlock_shared
          /\ Cardinality(Entering') = Cardinality(Entering) + Enters(pc'[t]) - Enters(pc[t])
      BY <1>1, <2>6, Returned, EnteringStep DEF Enters, IterEnd
    <3>2. Change = -1 /\ LocksPaid
      BY <1>1, <1>2, <2>5, <3>1, Numbers DEF Change, LocksPaid
    <3> QED BY <2>3, <2>4, <3>1, <3>2, BalancedStep
  <2>7. CASE IterBucket(t) /\ chain[i] = <<>>
    <3>1. pc' = pc /\ count' = count
      BY <2>7 DEF IterBucket
    <3>2. Entering' = Entering
      BY <3>1 DEF Entering
    <3>3. Cardinality(Entering') = Cardinality(Entering)
      BY <3>2, Zenon
    <3>4. Change = 0 /\ LocksPaid
      BY <1>1, <1>2, <2>5, <3>3, Numbers DEF Change, LocksPaid
    <3> QED BY <2>3, <2>4, <3>1, <3>4, BalancedStep
  <2> QED BY <1>4, <2>6, <2>7
<1> QED BY <1>3, <1>4

(* clear(): drained, it either finds no object on an element, or it was    *)
(* let in by a share that was given back and never taken.                  *)
LEMMA ClearKept ==
    ASSUME IInv, Typed', NEW t \in Thread, ClearAll(t)
    PROVE  HoldersLock' /\ Apart' /\ Live' /\ Balanced'
<1>1. Typed /\ pc[t] = "drain" /\ count = 0 /\ Balanced /\ UNCHANGED <<count, locked, object, faults>>
    BY DEF IInv, ClearAll, Drained
<1>2. Holding' = Holding /\ \A p \in Holding : object'[p] = object[p]
    BY <1>1 DEF Holding
<1>3. HoldersLock' /\ Apart'
    BY <1>1, <1>2, HoldersKeep
<1>4. /\ Cardinality(Holding') = Cardinality(Holding) /\ Cardinality(locked') = Cardinality(locked)
      /\ Lost' = Lost /\ Forged' = Forged
  <2>1. locked' = locked /\ UNCHANGED faults
    BY <1>1
  <2>2. Cardinality(Holding') = Cardinality(Holding) /\ Cardinality(locked') = Cardinality(locked)
    BY <1>2, <2>1, Zenon
  <2> QED BY <1>1, <2>1, <2>2, SlipCounts
<1>5. CASE Holding = {}
  <2>1. Return(t)
    BY <1>5 DEF ClearAll
  <2>2. Live'
    BY <1>2, <1>5 DEF Live
  <2>3. /\ Enters(pc'[t]) = 0 /\ Enters(pc[t]) = 0
        /\ Cardinality(Entering') = Cardinality(Entering) + Enters(pc'[t]) - Enters(pc[t])
    BY <1>1, <2>1, Returned, EnteringStep DEF Enters
  <2>4. Change = 0 /\ LocksPaid
    BY <1>1, <1>4, <2>3, Numbers DEF Change, LocksPaid
  <2> QED BY <1>1, <1>3, <2>2, <2>4, BalancedStep
<1>6. CASE Holding # {}
  <2>1. Cardinality(Holding) # 0
    BY <1>6, Finite, FS_EmptySet DEF Holding
  <2>2. CountModulus \in Nat /\ CountModulus >= 2
    <3>1. Cardinality(Thread) # 0 /\ Cardinality(Thread) \in Nat /\ Cardinality(Object) \in Nat
      BY Finite, FS_EmptySet
    <3> QED BY <3>1, WidthAssumption
  <2>3. Shares \in -1 .. CountModulus - 1 /\ Shares % CountModulus = 0
    BY <1>1, SharesRange DEF Balanced, Typed, Shares, Lost, Forged, LostOf, ForgedOf, Holding, Entering
  <2>4. Shares = 0
    <3>1. (-1) % CountModulus # 0 /\ \A x \in 0 .. CountModulus - 1 : x % CountModulus = x
      BY <2>2
    <3> QED BY <2>2, <2>3, <3>1
  <2>5. Forged = 1 /\ Cardinality(Entering) = 0
    BY <1>1, <2>1, <2>4, Numbers DEF Shares
  <2>6. "unbegun" \in faults
    BY <1>1, <2>5, SlipCounts
  <2>7. \A u \in Thread : pc'[u] = "undefined"
    BY <1>6 DEF ClearAll
  <2>8. Live'
    BY <1>1, <2>6, <2>7 DEF Live
  <2>9. Cardinality(Entering') = Cardinality(Entering)
    <3>1. Entering' = {}
      BY <2>7 DEF Entering
    <3>2. Cardinality(Entering') = Cardinality({})
      BY <3>1, Zenon
    <3> QED BY <2>5, <3>2, FS_EmptySet
  <2>10. Change = 0 /\ LocksPaid
    BY <1>1, <1>4, <2>9, Numbers DEF Change, LocksPaid
  <2> QED BY <1>1, <1>3, <2>8, <2>10, BalancedStep
<1> QED BY <1>5, <1>6

-----------------------------------------------------------------------------

LEMMA InitIInv == Init => IInv
<1> SUFFICES ASSUME Init PROVE IInv
    OBVIOUS
<1>1. Holding = {} /\ Entering = {} /\ locked = {} /\ faults = {}
    BY EmptyTyped DEF Init, Holding, Entering
<1>2. /\ Cardinality(Holding) = 0 /\ Cardinality(Entering) = 0 /\ Cardinality(locked) = 0
      /\ Cardinality(faults) = 0 /\ Lost = 0 /\ Forged = 0
  <2>1. faults \cap {"overwritten", "thrown"} = {} /\ faults \cap {"unbegun"} = {}
    BY <1>1
  <2>2. /\ Cardinality(Holding) = Cardinality({}) /\ Cardinality(Entering) = Cardinality({})
        /\ Cardinality(locked) = Cardinality({}) /\ Cardinality(faults) = Cardinality({})
        /\ Cardinality(faults \cap {"overwritten", "thrown"}) = Cardinality({})
        /\ Cardinality(faults \cap {"unbegun"}) = Cardinality({})
    BY <1>1, <2>1, Zenon
  <2> QED BY <2>2, FS_EmptySet DEF Lost, Forged
<1>3. CountModulus \in Nat /\ CountModulus > 0 /\ 0 <= MaxFaults
  <2>1. Cardinality(Thread) \in Nat /\ Cardinality(Object) \in Nat
    BY Finite
  <2> QED BY <2>1, WidthAssumption
<1>4. Typed
  <2>1. NoCall \in CallType
    BY DEF NoCall, CallType
  <2>2. chain \in [Bucket -> Seq(Key)] /\ object \in [Object -> ObjectType]
    BY EmptyTyped DEF Init
  <2>3. pc \in [Thread -> Places] /\ call \in [Thread -> CallType] /\ writer = None
    BY <2>1 DEF Init, Places
  <2>4. count \in 0 .. CountModulus - 1
    BY <1>3 DEF Init
  <2> QED BY <1>1, <1>2, <1>3, <2>2, <2>3, <2>4 DEF Typed
<1>5. CallsReady
    BY DEF Init, CallsReady
<1>6. HoldersLock /\ Apart /\ Live
    BY <1>1 DEF HoldersLock, Apart, Live
<1>7. Balanced
  <2>1. Shares = 0 /\ count = 0 /\ 0 % CountModulus = 0
    BY <1>2, <1>3 DEF Shares, Init
  <2> QED BY <1>2, <2>1 DEF Balanced
<1> QED BY <1>4, <1>5, <1>6, <1>7 DEF IInv

LEMMA NextIInv == IInv /\ [Next]_vars => IInv'
<1> SUFFICES ASSUME IInv, [Next]_vars PROVE IInv'
    OBVIOUS
<1>1. Typed'
    BY TypedStep
<1>2. CASE UNCHANGED vars
    BY <1>2 DEF vars, IInv, Typed, CallsReady, HoldersLock, Apart, Live, Balanced, Shares, Lost, Forged, Holding, Entering
<1>3. CASE Next
  <2>1. PICK t \in Thread :
           \/ Get(t) \/ Release(t) \/ Move(t) \/ Erase(t) \/ NewIterator(t) \/ IterNext(t) \/ IterErase(t)
           \/ Clear(t) \/ Waits(t)
    BY <1>3 DEF Next
  <2>2. CallsReady'
    BY <2>1, ReadyStep
  <2>3. HoldersLock' /\ Apart' /\ Live' /\ Balanced'
    <3>1. CASE Get(t) \/ Clear(t) \/ GetTable(t) \/ IterTable(t) \/ ClearGate(t)
      BY <1>1, <3>1, GetKept
    <3>2. CASE GetBucket(t)
      BY <1>1, <3>2, GetBucketKept
    <3>3. CASE Release(t) \/ Erase(t)
      BY <1>1, <3>3, ReleaseKept
    <3>4. CASE Move(t) \/ NewIterator(t)
      BY <1>1, <3>4, MoveKept
    <3>5. CASE IterNext(t) \/ IterErase(t)
      BY <1>1, <3>5, IterKept
    <3>6. CASE IterBucket(t) \/ IterEnd(t)
      BY <1>1, <3>6, IterBucketKept
    <3>7. CASE ClearAll(t)
      BY <1>1, <3>7, ClearKept
    <3> QED BY <2>1, <3>1, <3>2, <3>3, <3>4, <3>5, <3>6, <3>7 DEF Waits
  <2> QED BY <1>1, <2>2, <2>3 DEF IInv
<1> QED BY <1>2, <1>3

(* The inductive invariant of the accessor objects holds in every state.   *)
THEOREM Invariance == Spec => []IInv
<1> QED BY InitIInv, NextIInv, PTL DEF Spec

(* Every variable of the accessors, and the count of the table mutex with  *)
(* its unsigned width, keeps its type.                                     *)
THEOREM TypeCorrect == Spec => []TypeOK
<1>1. IInv => TypeOK
    BY DEF IInv, Typed, TypeOK, ObjectType, Places
<1> QED BY <1>1, Invariance, PTL

(* Through moves, nested accessors, erases and iterations the locks are    *)
(* exactly those of the objects on elements and of the calls on their way, *)
(* but for what each slip costs (lines 289, 305 and 474).                  *)
THEOREM LocksAreAccounted == Spec => []LocksAccounted
<1>1. IInv => LocksAccounted
    BY DEF IInv, Balanced, Shares, HoldersLock, LocksAccounted
<1> QED BY <1>1, Invariance, PTL

(* No two objects are in one bucket and none dangles, even after locks     *)
(* were lost; only a forged share lets a clear in under an accessor.       *)
THEOREM OneObjectEach == Spec => []ElementsOwned
<1>1. IInv => ElementsOwned
    BY DEF IInv, Live, Apart, ElementsOwned
<1> QED BY <1>1, Invariance, PTL
-----------------------------------------------------------------------------

(* Deadlock.  The writer is the thread in clear(), and a program that has  *)
(* become undefined has had its slip.                                      *)
WriterDrains == \A t \in Thread : pc[t] = "drain" <=> writer = t

Defined == (\E t \in Thread : pc[t] = "undefined") => "unbegun" \in faults

ClearInv == "unbegun" \in faults \/ (WriterDrains /\ Defined)

(* clear() destroys an element under an accessor only after that slip.     *)
LEMMA ClearDefined ==
    ASSUME IInv, IInv', NEW t \in Thread, ClearAll(t), "unbegun" \notin faults
    PROVE  Return(t) /\ writer' = None
<1>1. writer' = None /\ UNCHANGED <<object, faults>> /\ (Holding = {} => Return(t))
    BY DEF ClearAll
<1>2. CASE Holding # {}
  <2>1. \A u \in Thread : pc'[u] = "undefined"
    BY <1>2 DEF ClearAll
  <2>2. \A o \in Holding' : object'[o].node \in ToSet(chain'[object'[o].index])
    BY <1>1, <2>1 DEF IInv, Live
  <2>3. \A o \in Holding : object'[o].node \in ToSet(chain'[object'[o].index]) /\ object'[o].index \in Bucket
    BY <1>1, <2>2 DEF IInv, HoldersLock, Typed, Holding
  <2>4. \A i \in Bucket : ToSet(chain'[i]) = {}
    BY DEF ClearAll, ToSet
  <2> QED BY <1>2, <2>3, <2>4
<1> QED BY <1>1, <1>2

LEMMA ClearInvStep ==
    ASSUME IInv, IInv', ClearInv, [Next]_vars
    PROVE  ClearInv'
<1>1. Typed /\ Typed'
    BY DEF IInv
<1>2. CASE UNCHANGED vars
    BY <1>2 DEF vars, ClearInv, WriterDrains, Defined
<1>3. CASE Next
  <2>1. PICK t \in Thread :
           \/ Get(t) \/ Release(t) \/ Move(t) \/ Erase(t) \/ NewIterator(t) \/ IterNext(t) \/ IterErase(t)
           \/ Clear(t) \/ Waits(t)
    BY <1>3 DEF Next
  <2>2. faults \subseteq faults'
    BY <2>1 DEF Get, Release, Move, Erase, NewIterator, IterNext, IterErase, Clear, Waits, GetTable, GetBucket,
                IterTable, IterBucket, IterEnd, ClearGate, ClearAll, OverwriteOK, Slip
  <2>3. SUFFICES ASSUME "unbegun" \notin faults, WriterDrains, Defined PROVE WriterDrains' /\ Defined'
    BY <2>2 DEF ClearInv
  <2>4. CASE ClearGate(t)
    BY <1>1, <2>3, <2>4, NoneAssumption DEF ClearGate, Wait, WriterDrains, Defined, Typed
  <2>5. CASE ClearAll(t)
    BY <1>1, <2>3, <2>5, ClearDefined, NoneAssumption DEF ClearAll, Return, WriterDrains, Defined, Typed
  <2>6. CASE \/ Get(t) \/ Release(t) \/ Move(t) \/ Erase(t) \/ NewIterator(t) \/ IterNext(t) \/ IterErase(t)
             \/ Clear(t) \/ GetTable(t) \/ GetBucket(t) \/ IterTable(t) \/ IterBucket(t) \/ IterEnd(t)
    <3>1. UNCHANGED writer
      BY <2>6 DEF Get, Release, Move, Erase, NewIterator, IterNext, IterErase, Clear, GetTable, GetBucket,
                  IterTable, IterBucket, IterEnd
    <3>2. pc[t] # "drain" /\ pc'[t] \notin {"drain", "undefined"} /\ \A u \in Thread \ {t} : pc'[u] = pc[u]
      BY <1>1, <2>6 DEF Typed, Get, Release, Move, Erase, NewIterator, IterNext, IterErase, Clear, GetTable, GetBucket,
                  IterTable, IterBucket, IterEnd, Wait, Return, Step, ToBucket
    <3> QED BY <2>3, <3>1, <3>2 DEF WriterDrains, Defined
  <2> QED BY <2>1, <2>4, <2>5, <2>6 DEF Waits
<1> QED BY <1>2, <1>3

LEMMA NoSlips == faults = {} => Lost = 0 /\ Forged = 0
<1> SUFFICES ASSUME faults = {} PROVE Lost = 0 /\ Forged = 0
    OBVIOUS
<1>1. faults \cap {"overwritten", "thrown"} = {} /\ faults \cap {"unbegun"} = {}
    OBVIOUS
<1>2. Lost = Cardinality({}) /\ Forged = Cardinality({})
    BY <1>1, Zenon DEF Lost, Forged
<1> QED BY <1>2, FS_EmptySet

(* Without slips a locked mutex has an object on an element of its bucket, *)
(* and a count above zero a thread that shares the table.                  *)
LEMMA LockedHeld ==
    ASSUME IInv, faults = {}
    PROVE  \A i \in locked : \E o \in Holding : object[o].index = i
<1> DEFINE f == [o \in Holding |-> object[o].index]
<1>1. Holding \in SUBSET Object /\ locked \in SUBSET Bucket
    BY DEF IInv, Typed, Holding
<1>2. IsFiniteSet(locked) /\ Cardinality(locked) \in Nat /\ Cardinality(Holding) \in Nat
    BY <1>1, Finite
<1>3. Cardinality(locked) <= Cardinality(Holding)
  <2>1. Lost = 0
    BY NoSlips
  <2> QED BY <1>2, <2>1 DEF IInv, Balanced
<1>4. f \in Injection(Holding, locked)
    BY DEF IInv, HoldersLock, Apart, Injection, IsInjective
<1>5. f \in Surjection(Holding, locked)
    BY <1>2, <1>3, <1>4, FS_Injection
<1> QED BY <1>5 DEF Surjection

LEMMA SharedBySome ==
    ASSUME IInv, faults = {}, count # 0
    PROVE  Holding # {} \/ Entering # {}
<1> SUFFICES ASSUME Holding = {}, Entering = {} PROVE FALSE
    OBVIOUS
<1>1. Lost = 0 /\ Forged = 0
    BY NoSlips
<1>2. Cardinality(Holding) = 0 /\ Cardinality(Entering) = 0
  <2>1. Cardinality(Holding) = Cardinality({}) /\ Cardinality(Entering) = Cardinality({})
    BY Zenon
  <2> QED BY <2>1, FS_EmptySet
<1>3. Shares = 0
    BY <1>1, <1>2 DEF Shares
<1>4. 0 % CountModulus = 0
  <2>1. Cardinality(Object) \in Nat /\ Cardinality(Thread) \in Nat
    BY Finite
  <2>2. CountModulus \in Nat /\ CountModulus > 0
    BY <2>1, WidthAssumption
  <2>3. \A x \in 0 .. CountModulus - 1 : x % CountModulus = x
    BY <2>2
  <2> QED BY <2>2, <2>3
<1> QED BY <1>3, <1>4 DEF IInv, Balanced

(* Who waits for a bucket waits for an accessor's owner; who drains, for   *)
(* one of those or for a thread that waits for a bucket; who waits for the *)
(* table, for the one that drains.  So each wait ends, after three more at *)
(* most, at a thread that goes on or keeps an element while it waits.      *)
LEMMA NoKnot ==
    ASSUME IInv, ClearInv
    PROVE  DeadlockNeedsNesting
<1> SUFFICES ASSUME faults = {}, NEW group \in SUBSET Thread, group # {},
                    \A t \in group : BlockedBy(t) \subseteq group,
                    \A t \in group : ~CanGo(t) /\ ~Nests(t)
             PROVE  FALSE
    BY DEF DeadlockNeedsNesting
<1>1. Typed /\ CallsReady /\ WriterDrains /\ Defined
    BY DEF IInv, ClearInv
<1>2. \A o \in Holding : Owner[o] \in Thread /\ o \in Mine(Owner[o])
    BY ObjectAssumption DEF Holding, Mine
<1>3. \A o \in Holding : Owner[o] \notin group
    BY <1>2 DEF CanGo, Nests
<1>4. ASSUME NEW t \in group PROVE pc[t] \notin {"bucket", "iter_bucket"}
  <2> SUFFICES ASSUME pc[t] \in {"bucket", "iter_bucket"} PROVE FALSE
    OBVIOUS
  <2>1. Awaited(t) \in locked
    BY DEF CanGo
  <2>2. PICK o \in Holding : object[o].index = Awaited(t)
    BY <2>1, LockedHeld
  <2>3. Owner[o] \in BlockedBy(t)
    BY <2>2 DEF BlockedBy
  <2> QED BY <1>3, <2>3
<1>5. ASSUME NEW t \in group PROVE pc[t] # "drain"
  <2> SUFFICES ASSUME pc[t] = "drain" PROVE FALSE
    OBVIOUS
  <2>1. count # 0
    BY DEF CanGo, Drained
  <2>2. BlockedBy(t) = {Owner[o] : o \in Holding} \cup Entering
    BY DEF BlockedBy
  <2>3. \A u \in Entering : u \in group
    BY <2>2
  <2>4. Holding = {} /\ Entering = {}
    BY <1>3, <1>4, <2>2, <2>3 DEF Entering
  <2> QED BY <2>1, <2>4, SharedBySome
<1>6. ASSUME NEW t \in group PROVE pc[t] \notin {"table", "iter_table", "gate"}
  <2> SUFFICES ASSUME pc[t] \in {"table", "iter_table", "gate"} PROVE FALSE
    OBVIOUS
  <2>1. writer # None
    BY DEF CanGo
  <2>2. BlockedBy(t) = {writer} \ {None}
    BY DEF BlockedBy
  <2>3. writer \in group
    BY <2>1, <2>2
  <2> QED BY <1>1, <1>5, <2>3 DEF WriterDrains
<1>7. \A t \in group : pc[t] \notin {"run", "undefined"}
    BY <1>1 DEF CanGo, Defined
<1> QED BY <1>1, <1>4, <1>5, <1>6, <1>7 DEF Typed, Places

(* Through any nesting of accessors, moves and iterations, with any number *)
(* of threads: a deadlock has a thread in it that keeps an element while   *)
(* it waits (Mutex.cpp:101), unless a slip has lost a lock.                *)
THEOREM DeadlockByNesting == Spec => []DeadlockNeedsNesting
<1>1. Init => ClearInv
    BY NoneAssumption DEF Init, ClearInv, WriterDrains, Defined
<1>2. IInv /\ IInv' /\ ClearInv /\ [Next]_vars => ClearInv'
    BY ClearInvStep
<1>3. IInv /\ ClearInv => DeadlockNeedsNesting
    BY NoKnot
<1> QED BY <1>1, <1>2, <1>3, Invariance, PTL DEF Spec
=============================================================================
