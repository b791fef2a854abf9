--------------------------- MODULE SequenceProofs ---------------------------
(***************************************************************************)
(* Facts about sequences that several proofs cite.  About a chain of nodes,*)
(* as the buckets of ConcurrentHashTableT keep them: what a push to the    *)
(* front, a pop from it and the removal of a node leave in the chain, and  *)
(* what an iterator has before it.  About a sequence of lists, as the      *)
(* logger writes them one after the other: what FlattenSeq makes of the    *)
(* lists and of the first of them.  FlattenSeq is a recursive function:    *)
(* these facts are proved by induction over the numbers.                   *)
(***************************************************************************)
EXTENDS Integers, Sequences, SequencesExt, SequenceTheorems, WellFoundedInduction, TLAPS

(* What the operations on a chain leave in it.                             *)
LEMMA PushedChain ==
    ASSUME NEW Node, NEW s \in Seq(Node), NEW k \in Node
    PROVE  <<k>> \o s \in Seq(Node) /\ ToSet(<<k>> \o s) = ToSet(s) \cup {k}
<1>1. <<k>> \in Seq(Node) /\ Len(<<k>>) = 1 /\ <<k>>[1] = k
    OBVIOUS
<1>2. /\ <<k>> \o s \in Seq(Node)
      /\ Len(<<k>> \o s) = 1 + Len(s)
      /\ \A i \in 1 .. 1 + Len(s) : (<<k>> \o s)[i] = IF i <= 1 THEN k ELSE s[i - 1]
    BY <1>1, ConcatProperties
<1>3. DOMAIN (<<k>> \o s) = 1 .. 1 + Len(s) /\ DOMAIN s = 1 .. Len(s) /\ Len(s) \in Nat
    BY <1>2, LenProperties
<1>4. ToSet(<<k>> \o s) \subseteq ToSet(s) \cup {k}
    BY <1>2, <1>3 DEF ToSet
<1>5. k \in ToSet(<<k>> \o s)
    BY <1>2, <1>3 DEF ToSet
<1>6. ASSUME NEW i \in 1 .. Len(s) PROVE s[i] \in ToSet(<<k>> \o s)
  <2>1. i + 1 \in 1 .. 1 + Len(s) /\ (<<k>> \o s)[i + 1] = s[i]
    BY <1>2, <1>3
  <2> QED BY <2>1, <1>3 DEF ToSet
<1> QED BY <1>2, <1>3, <1>4, <1>5, <1>6 DEF ToSet

LEMMA PoppedChain ==
    ASSUME NEW Node, NEW s \in Seq(Node), s # <<>>
    PROVE  /\ Head(s) \in Node /\ Head(s) \in ToSet(s)
           /\ Tail(s) \in Seq(Node) /\ ToSet(Tail(s)) \subseteq ToSet(s)
<1>1. Len(s) \in Nat \ {0} /\ DOMAIN s = 1 .. Len(s) /\ Head(s) = s[1]
    BY LenProperties, EmptySeq
<1>2. Head(s) \in Node /\ Tail(s) \in Seq(Node) /\ Len(Tail(s)) = Len(s) - 1
      /\ \A i \in 1 .. Len(Tail(s)) : Tail(s)[i] = s[i + 1]
    BY HeadTailProperties
<1>3. DOMAIN Tail(s) = 1 .. Len(s) - 1
    BY <1>2, LenProperties
<1> QED BY <1>1, <1>2, <1>3 DEF ToSet

LEMMA RemovedAt ==
    ASSUME NEW Node, NEW s \in Seq(Node), NEW p \in 1 .. Len(s)
    PROVE  /\ RemoveAt(s, p) \in Seq(Node) /\ DOMAIN RemoveAt(s, p) = 1 .. Len(s) - 1
           /\ \A i \in 1 .. Len(s) - 1 : RemoveAt(s, p)[i] = IF i < p THEN s[i] ELSE s[i + 1]
<1> DEFINE n == Len(s)
           a == SubSeq(s, 1, p - 1)
           b == SubSeq(s, p + 1, n)
<1>1. n \in Nat /\ DOMAIN s = 1 .. n /\ \A i \in 1 .. n : s[i] \in Node
    BY LenProperties, ElementOfSeq
<1>2. p \in 1 .. n
    OBVIOUS
<1>3. RemoveAt(s, p) = a \o b
    BY DEF RemoveAt
<1> HIDE DEF n
<1>4. /\ a \in Seq(Node) /\ Len(a) = p - 1
      /\ \A i \in 1 .. p - 1 : a[i] = s[i]
  <2>1. 1 \in Int /\ p - 1 \in Int /\ \A i \in 1 .. p - 1 : s[i] \in Node
    BY <1>1, <1>2
  <2>2. /\ a \in Seq(Node) /\ Len(a) = IF 1 <= p - 1 THEN (p - 1) - 1 + 1 ELSE 0
        /\ \A i \in 1 .. (p - 1) - 1 + 1 : a[i] = s[1 + i - 1]
    BY <2>1, SubSeqProperties
  <2> HIDE DEF a
  <2> QED BY <1>1, <1>2, <2>2
<1>5. /\ b \in Seq(Node) /\ Len(b) = n - p
      /\ \A i \in 1 .. n - p : b[i] = s[p + i]
  <2>1. p + 1 \in Int /\ n \in Int /\ \A i \in p + 1 .. n : s[i] \in Node
    BY <1>1, <1>2
  <2>2. /\ b \in Seq(Node) /\ Len(b) = IF p + 1 <= n THEN n - (p + 1) + 1 ELSE 0
        /\ \A i \in 1 .. n - (p + 1) + 1 : b[i] = s[(p + 1) + i - 1]
    BY <2>1, SubSeqProperties
  <2> HIDE DEF b
  <2>3. Len(b) = n - p
    BY <1>1, <1>2, <2>2
  <2>4. ASSUME NEW i \in 1 .. n - p PROVE b[i] = s[p + i]
    <3>1. i \in 1 .. n - (p + 1) + 1 /\ (p + 1) + i - 1 = p + i
      BY <1>1, <1>2
    <3> QED BY <2>2, <3>1
  <2> QED BY <2>2, <2>3, <2>4
<1> HIDE DEF a, b
<1>6. /\ a \o b \in Seq(Node) /\ DOMAIN (a \o b) = 1 .. n - 1
      /\ \A i \in 1 .. n - 1 : (a \o b)[i] = IF i <= p - 1 THEN a[i] ELSE b[i - (p - 1)]
  <2>1. /\ a \o b \in Seq(Node) /\ Len(a \o b) = Len(a) + Len(b)
        /\ \A i \in 1 .. Len(a) + Len(b) :
              (a \o b)[i] = IF i <= Len(a) THEN a[i] ELSE b[i - Len(a)]
    BY <1>4, <1>5, ConcatProperties
  <2>2. Len(a) + Len(b) = n - 1
    BY <1>1, <1>2, <1>4, <1>5
  <2>3. DOMAIN (a \o b) = 1 .. n - 1
    BY <2>1, <2>2, LenProperties
  <2> QED BY <2>1, <2>2, <2>3, <1>4
<1>7. ASSUME NEW i \in 1 .. n - 1
      PROVE  (a \o b)[i] = IF i < p THEN s[i] ELSE s[i + 1]
  <2>1. CASE i < p
    BY <1>1, <1>2, <1>4, <1>6, <2>1
  <2>2. CASE ~(i < p)
    <3>1. i - (p - 1) \in 1 .. n - p /\ p + (i - (p - 1)) = i + 1 /\ ~(i <= p - 1)
      BY <1>1, <1>2, <2>2
    <3> QED BY <1>5, <1>6, <2>2, <3>1
  <2> QED BY <2>1, <2>2
<1> QED BY <1>3, <1>6, <1>7 DEF n

LEMMA RemovedChain ==
    ASSUME NEW Node, NEW s \in Seq(Node), NEW p \in 1 .. Len(s)
    PROVE  /\ RemoveAt(s, p) \in Seq(Node)
           /\ ToSet(RemoveAt(s, p)) \subseteq ToSet(s)
           /\ p < Len(s) => s[p + 1] \in Node /\ s[p + 1] \in ToSet(RemoveAt(s, p))
<1> DEFINE n == Len(s)
           r == RemoveAt(s, p)
<1>1. n \in Nat /\ DOMAIN s = 1 .. n /\ p \in 1 .. n /\ \A i \in 1 .. n : s[i] \in Node
    BY LenProperties, ElementOfSeq
<1>2. r \in Seq(Node) /\ DOMAIN r = 1 .. n - 1
      /\ \A i \in 1 .. n - 1 : r[i] = IF i < p THEN s[i] ELSE s[i + 1]
    BY RemovedAt
<1> HIDE DEF n, r
<1>3. ToSet(r) \subseteq ToSet(s)
  <2>1. ASSUME NEW i \in 1 .. n - 1 PROVE i \in 1 .. n /\ i + 1 \in 1 .. n
    BY <1>1
  <2> QED BY <1>1, <1>2, <2>1 DEF ToSet
<1>4. ASSUME p < n PROVE s[p + 1] \in Node /\ s[p + 1] \in ToSet(r)
  <2>1. p \in 1 .. n - 1 /\ p + 1 \in 1 .. n /\ ~(p < p)
    BY <1>1, <1>4
  <2> QED BY <1>1, <1>2, <2>1 DEF ToSet
<1> QED BY <1>2, <1>3, <1>4 DEF n, r
(* A chain of distinct nodes that has lost one of another.                 *)
Loses(s, chain, k) == IsInjective(s) /\ ToSet(s) = ToSet(chain) \ {k}

(* What the operations leave of a chain of distinct nodes.                 *)
LEMMA PushedDistinct ==
    ASSUME NEW Node, NEW s \in Seq(Node), IsInjective(s), NEW k \in Node \ ToSet(s)
    PROVE  IsInjective(<<k>> \o s)
<1> DEFINE r == <<k>> \o s
           n == Len(s)
<1>1. <<k>> \in Seq(Node) /\ Len(<<k>>) = 1 /\ <<k>>[1] = k
    OBVIOUS
<1>2. /\ r \in Seq(Node)
      /\ Len(r) = 1 + n
      /\ \A i \in 1 .. 1 + n : r[i] = IF i <= 1 THEN k ELSE s[i - 1]
    BY <1>1, ConcatProperties
<1>3. DOMAIN r = 1 .. 1 + n /\ DOMAIN s = 1 .. n /\ n \in Nat
    BY <1>2, LenProperties
<1> HIDE DEF r, n
<1>4. \A i \in 1 .. n : s[i] # k
    BY <1>3 DEF ToSet
<1>5. ASSUME NEW i \in 1 .. 1 + n, NEW j \in 1 .. 1 + n, r[i] = r[j] PROVE i = j
  <2>1. CASE i = 1 \/ j = 1
    <3>1. ASSUME NEW h \in 1 .. 1 + n, h # 1 PROVE r[h] # k
      <4>1. h - 1 \in 1 .. n /\ ~(h <= 1)
        BY <1>3, <3>1
      <4> QED BY <1>2, <1>4, <4>1
    <3>2. r[1] = k
      BY <1>2, <1>3
    <3> QED BY <1>5, <2>1, <3>1, <3>2
  <2>2. CASE i # 1 /\ j # 1
    <3>1. i - 1 \in 1 .. n /\ j - 1 \in 1 .. n /\ ~(i <= 1) /\ ~(j <= 1)
      BY <1>3, <2>2
    <3>2. s[i - 1] = s[j - 1]
      BY <1>2, <1>5, <3>1
    <3>3. i - 1 = j - 1
      BY <1>3, <3>1, <3>2 DEF IsInjective
    <3> QED BY <1>3, <3>3
  <2> QED BY <2>1, <2>2
<1> QED BY <1>3, <1>5 DEF IsInjective, r

LEMMA RemovedDistinct ==
    ASSUME NEW Node, NEW s \in Seq(Node), IsInjective(s), NEW p \in 1 .. Len(s)
    PROVE  Loses(RemoveAt(s, p), s, s[p])
<1> DEFINE n == Len(s)
           r == RemoveAt(s, p)
<1>1. n \in Nat /\ DOMAIN s = 1 .. n /\ p \in 1 .. n
    BY LenProperties
<1>2. DOMAIN r = 1 .. n - 1 /\ \A i \in 1 .. n - 1 : r[i] = IF i < p THEN s[i] ELSE s[i + 1]
    BY RemovedAt
<1> HIDE DEF n, r
<1> DEFINE At(i) == IF i < p THEN i ELSE i + 1
<1>3. ASSUME NEW i \in 1 .. n - 1 PROVE At(i) \in 1 .. n /\ At(i) # p /\ r[i] = s[At(i)]
    BY <1>1, <1>2
<1>4. ASSUME NEW h \in 1 .. n, h # p PROVE \E i \in 1 .. n - 1 : At(i) = h
  <2>1. CASE h < p
    BY <1>1, <2>1
  <2>2. CASE h > p
    <3>1. h - 1 \in 1 .. n - 1 /\ At(h - 1) = h
      BY <1>1, <2>2
    <3> QED BY <3>1
  <2> QED BY <1>1, <1>4, <2>1, <2>2
<1>5. \A i, j \in 1 .. n - 1 : At(i) = At(j) => i = j
    BY <1>1
<1> HIDE DEF At
<1>6. IsInjective(r)
    BY <1>1, <1>2, <1>3, <1>5 DEF IsInjective
<1>7. ASSUME NEW x \in ToSet(r) PROVE x \in ToSet(s) \ {s[p]}
    BY <1>1, <1>2, <1>3, SMTT(30) DEF ToSet, IsInjective
<1>8. ASSUME NEW x \in ToSet(s), x # s[p] PROVE x \in ToSet(r)
  <2>1. PICK h \in 1 .. n : s[h] = x /\ h # p
    BY <1>1, <1>8 DEF ToSet
  <2>2. PICK i \in 1 .. n - 1 : At(i) = h
    BY <1>4, <2>1
  <2> QED BY <1>2, <1>3, <2>1, <2>2 DEF ToSet
<1> QED BY <1>6, <1>7, <1>8 DEF r, Loses

LEMMA PoppedDistinct ==
    ASSUME NEW Node, NEW s \in Seq(Node), IsInjective(s), s # <<>>
    PROVE  Loses(Tail(s), s, Head(s))
<1> DEFINE n == Len(s)
           r == Tail(s)
<1>1. n \in Nat \ {0} /\ DOMAIN s = 1 .. n /\ Head(s) = s[1]
    BY LenProperties, EmptySeq
<1>2. r \in Seq(Node) /\ Len(r) = n - 1 /\ \A i \in 1 .. Len(r) : r[i] = s[i + 1]
    BY HeadTailProperties
<1>3. DOMAIN r = 1 .. n - 1 /\ \A i \in 1 .. n - 1 : r[i] = s[i + 1]
    BY <1>2, LenProperties
<1> HIDE DEF n, r
<1>4. ASSUME NEW i \in 1 .. n - 1 PROVE i + 1 \in 1 .. n /\ i + 1 # 1 /\ r[i] = s[i + 1]
    BY <1>1, <1>3
<1>5. IsInjective(r)
  <2>1. ASSUME NEW i \in 1 .. n - 1, NEW j \in 1 .. n - 1, r[i] = r[j] PROVE i = j
    <3>1. i + 1 \in DOMAIN s /\ j + 1 \in DOMAIN s
      BY <1>1, <1>4
    <3>2. s[i + 1] = s[j + 1]
      BY <1>4, <2>1
    <3>3. i + 1 = j + 1
      BY <3>1, <3>2 DEF IsInjective
    <3> QED BY <1>1, <3>3
  <2> QED BY <1>3, <2>1 DEF IsInjective
<1>6. ASSUME NEW x \in ToSet(r) PROVE x \in ToSet(s) \ {s[1]}
  <2>1. PICK i \in 1 .. n - 1 : r[i] = x
    BY <1>3 DEF ToSet
  <2>2. s[i + 1] = x /\ i + 1 \in 1 .. n /\ i + 1 # 1 /\ 1 \in 1 .. n
    BY <1>1, <1>4, <2>1
  <2> QED BY <1>1, <2>2 DEF ToSet, IsInjective
<1>7. ASSUME NEW x \in ToSet(s), x # s[1] PROVE x \in ToSet(r)
  <2>1. PICK h \in 1 .. n : s[h] = x /\ h # 1
    BY <1>1, <1>7 DEF ToSet
  <2>2. h - 1 \in 1 .. n - 1 /\ (h - 1) + 1 = h
    BY <1>1, <2>1
  <2> QED BY <1>3, <2>1, <2>2 DEF ToSet
<1> QED BY <1>1, <1>5, <1>6, <1>7 DEF r, Loses

-----------------------------------------------------------------------------

(* The nodes of a chain that an iterator on node k has before it.          *)
After(chain, k) ==
    {chain[q] : q \in {r \in DOMAIN chain : \E p \in DOMAIN chain : p < r /\ chain[p] = k}}

(* The head of a chain has all the others before it.                       *)
LEMMA AfterHead ==
    ASSUME NEW Node, NEW c \in Seq(Node), IsInjective(c), c # <<>>
    PROVE  ToSet(c) = {Head(c)} \cup After(c, Head(c)) /\ Head(c) \notin After(c, Head(c))
<1> DEFINE n == Len(c)
<1>1. n \in Nat \ {0} /\ DOMAIN c = 1 .. n /\ Head(c) = c[1]
    BY LenProperties, EmptySeq
<1> HIDE DEF n
<1>2. ASSUME NEW r \in 1 .. n PROVE (\E p \in 1 .. n : p < r /\ c[p] = c[1]) <=> r # 1
    BY <1>1 DEF IsInjective
<1>3. After(c, c[1]) = {c[q] : q \in {r \in 1 .. n : r # 1}}
    BY <1>1, <1>2 DEF After
<1>4. ToSet(c) = {c[q] : q \in 1 .. n}
    BY <1>1 DEF ToSet
<1>5. ToSet(c) = {c[1]} \cup After(c, c[1])
    BY <1>1, <1>3, <1>4
<1>6. c[1] \notin After(c, c[1])
    BY <1>1, <1>3 DEF IsInjective
<1> QED BY <1>1, <1>5, <1>6

(* An iterator that moves on has one node less before it, the last none.   *)
LEMMA AfterNext ==
    ASSUME NEW Node, NEW c \in Seq(Node), IsInjective(c), NEW p \in 1 .. Len(c)
    PROVE  /\ p = Len(c) => After(c, c[p]) = {}
           /\ p # Len(c) => /\ After(c, c[p]) = {c[p + 1]} \cup After(c, c[p + 1])
                            /\ c[p + 1] \notin After(c, c[p + 1])
                            /\ c[p + 1] # c[p]
                            /\ After(RemoveAt(c, p), c[p + 1]) = After(c, c[p + 1])
<1> DEFINE n == Len(c)
           d == RemoveAt(c, p)
<1>1. n \in Nat /\ DOMAIN c = 1 .. n /\ p \in 1 .. n
    BY LenProperties
<1>2. DOMAIN d = 1 .. n - 1 /\ \A i \in 1 .. n - 1 : d[i] = IF i < p THEN c[i] ELSE c[i + 1]
    BY RemovedAt
<1> HIDE DEF n, d
<1>3. ASSUME NEW h \in 1 .. n, NEW x
      PROVE  x \in After(c, c[h]) <=> \E q \in 1 .. n : h < q /\ x = c[q]
  <2>1. \A r \in 1 .. n : (\E o \in 1 .. n : o < r /\ c[o] = c[h]) <=> h < r
    BY <1>1 DEF IsInjective
  <2> QED BY <1>1, <2>1 DEF After
<1>4. CASE p = n
    BY <1>1, <1>3, <1>4
<1>5. CASE p # n
  <2>1. p + 1 \in 1 .. n
    BY <1>1, <1>5
  <2>2. ASSUME NEW q \in 1 .. n PROVE p < q <=> q = p + 1 \/ p + 1 < q
    BY <1>1, <2>2
  <2>3. After(c, c[p]) = {c[p + 1]} \cup After(c, c[p + 1])
    <3>1. \A x : x \in After(c, c[p]) <=> \E q \in 1 .. n : p < q /\ x = c[q]
      BY <1>1, <1>3
    <3>2. \A x : x \in After(c, c[p + 1]) <=> \E q \in 1 .. n : p + 1 < q /\ x = c[q]
      BY <1>3, <2>1
    <3> QED BY <2>1, <2>2, <3>1, <3>2
  <2>4. c[p + 1] \notin After(c, c[p + 1]) /\ c[p + 1] # c[p]
    BY <1>1, <1>3, <2>1 DEF IsInjective
  <2>5. After(d, c[p + 1]) = After(c, c[p + 1])
    <3>1. ASSUME NEW i \in 1 .. n - 1 PROVE d[i] = c[p + 1] <=> i = p
      <4>1. i \in 1 .. n /\ i + 1 \in 1 .. n
        BY <1>1
      <4>2. c[i] = c[p + 1] <=> i = p + 1
        BY <1>1, <2>1, <4>1 DEF IsInjective
      <4>3. c[i + 1] = c[p + 1] <=> i = p
        BY <1>1, <2>1, <4>1 DEF IsInjective
      <4> QED BY <1>1, <1>2, <4>2, <4>3
    <3>2. p \in 1 .. n - 1
      BY <1>1, <1>5
    <3>3. ASSUME NEW x PROVE x \in After(d, c[p + 1]) <=> \E i \in 1 .. n - 1 : p < i /\ x = d[i]
      BY <1>2, <3>1, <3>2 DEF After
    <3>4. ASSUME NEW x, NEW i \in 1 .. n - 1, p < i, x = d[i]
          PROVE  \E q \in 1 .. n : p + 1 < q /\ x = c[q]
      <4>1. i + 1 \in 1 .. n /\ p + 1 < i + 1 /\ x = c[i + 1]
        BY <1>1, <1>2, <3>4
      <4> QED BY <4>1
    <3>5. ASSUME NEW x, NEW q \in 1 .. n, p + 1 < q, x = c[q]
          PROVE  \E i \in 1 .. n - 1 : p < i /\ x = d[i]
      <4>1. q - 1 \in 1 .. n - 1 /\ p < q - 1 /\ (q - 1) + 1 = q /\ ~(q - 1 < p)
        BY <1>1, <3>5
      <4>2. x = d[q - 1]
        BY <1>2, <3>5, <4>1
      <4> QED BY <4>1, <4>2
    <3>6. \A x : x \in After(c, c[p + 1]) <=> \E q \in 1 .. n : p + 1 < q /\ x = c[q]
      BY <1>3, <2>1
    <3> QED BY <3>3, <3>4, <3>5, <3>6
  <2> QED BY <1>5, <2>3, <2>4, <2>5 DEF n, d
<1> QED BY <1>4, <1>5 DEF n

LEMMA AfterInChain == \A c, k : After(c, k) \subseteq ToSet(c)
BY DEF After, ToSet

-----------------------------------------------------------------------------

(* Induction over the numbers, for a set in place of a predicate.          *)
LEMMA LeastNumber ==
    ASSUME NEW S \in SUBSET Nat, S # {}
    PROVE  \E n \in S : \A m \in S : n <= m
<1> DEFINE R == OpToRel(<, Nat)
<1>1. IsWellFoundedOn(R, Nat)
    BY NatLessThanWellFounded
<1>2. \A m, n \in Nat : <<m, n>> \in R <=> m < n
    BY DEF OpToRel
<1> HIDE DEF R
<1>3. PICK n \in S : \A m \in S : ~ (<<m, n>> \in R)
    BY <1>1, WFMin
<1>4. \A m \in S : m \in Nat /\ n \in Nat /\ ~ (m < n)
    BY <1>2, <1>3
<1>5. \A m \in S : n <= m
    BY <1>4
<1> QED BY <1>5

LEMMA SetInduction ==
    ASSUME NEW S, 0 \in S, \A n \in Nat : n \in S => n + 1 \in S
    PROVE  Nat \subseteq S
<1> SUFFICES ASSUME Nat \ S # {} PROVE FALSE
    OBVIOUS
<1>1. PICK n \in Nat \ S : \A m \in Nat \ S : n <= m
    BY LeastNumber
<1>2. n - 1 \in Nat /\ n - 1 \in S
    BY <1>1
<1> QED BY <1>1, <1>2

(* What FlattenSeq joins, one list after the other.                        *)
Joins(s, n, f) == f = [i \in 1 .. n |-> IF i = 1 THEN s[i] ELSE f[i - 1] \o s[i]]

JoinsEach(s, n, f) == \A i \in 1 .. n : f[i] = IF i = 1 THEN s[i] ELSE f[i - 1] \o s[i]

LEMMA JoinsAt ==
    ASSUME NEW s, NEW n, NEW f, Joins(s, n, f)
    PROVE  DOMAIN f = 1 .. n /\ JoinsEach(s, n, f)
<1> DEFINE g == [i \in 1 .. n |-> IF i = 1 THEN s[i] ELSE f[i - 1] \o s[i]]
<1>1. f = g
    BY DEF Joins
<1>2. DOMAIN g = 1 .. n /\ \A i \in 1 .. n : g[i] = IF i = 1 THEN s[i] ELSE f[i - 1] \o s[i]
    OBVIOUS
<1> HIDE DEF g
<1> QED BY <1>1, <1>2 DEF JoinsEach

LEMMA JoinsExist ==
    ASSUME NEW B, NEW s \in Seq(Seq(B)), NEW n \in Nat, n <= Len(s)
    PROVE  \E f : f \in [1 .. n -> Seq(B)] /\ Joins(s, n, f)
<1> DEFINE P(k) == k <= Len(s) => \E f : f \in [1 .. k -> Seq(B)] /\ Joins(s, k, f)
           S == {k \in Nat : P(k)}
<1>1. 0 \in S
  <2> DEFINE e == [i \in 1 .. 0 |-> s[i]]
  <2>1. e \in [1 .. 0 -> Seq(B)]
    OBVIOUS
  <2>2. e = [i \in 1 .. 0 |-> IF i = 1 THEN s[i] ELSE e[i - 1] \o s[i]]
    OBVIOUS
  <2>3. Joins(s, 0, e)
    BY ONLY <2>2 DEF Joins
  <2> QED BY <2>1, <2>3
<1>2. ASSUME NEW k \in Nat, k \in S PROVE k + 1 \in S
  <2> SUFFICES ASSUME k + 1 <= Len(s) PROVE \E f : f \in [1 .. k + 1 -> Seq(B)] /\ Joins(s, k + 1, f)
    OBVIOUS
  <2>1. PICK f : f \in [1 .. k -> Seq(B)] /\ Joins(s, k, f)
    BY <1>2
  <2>2. \A i \in 1 .. k : f[i] = IF i = 1 THEN s[i] ELSE f[i - 1] \o s[i]
    BY <2>1, JoinsAt DEF JoinsEach
  <2> DEFINE x == IF k = 0 THEN s[1] ELSE f[k] \o s[k + 1]
             g == [i \in 1 .. k + 1 |-> IF i <= k THEN f[i] ELSE x]
  <2>3. x \in Seq(B)
    <3>1. s[k + 1] \in Seq(B)
      OBVIOUS
    <3>2. CASE k = 0
      BY <3>1, <3>2
    <3>3. CASE k # 0
      <4>1. f[k] \in Seq(B)
        BY <2>1, <3>3
      <4> QED BY <3>1, <3>3, <4>1, ConcatProperties
    <3> QED BY <3>2, <3>3
  <2> HIDE DEF x
  <2>4. g \in [1 .. k + 1 -> Seq(B)]
    BY <2>1, <2>3
  <2>5. ASSUME NEW i \in 1 .. k + 1 PROVE g[i] = IF i = 1 THEN s[i] ELSE g[i - 1] \o s[i]
    <3>1. CASE i <= k
      BY <2>2, <3>1
    <3>2. CASE i = k + 1 /\ k = 0
      BY <3>2 DEF x
    <3>3. CASE i = k + 1 /\ k # 0
      <4>1. g[i] = x /\ g[i - 1] = f[k] /\ i # 1
        BY <3>3
      <4> QED BY <3>3, <4>1 DEF x
    <3> QED BY <3>1, <3>2, <3>3
  <2>6. g = [i \in 1 .. k + 1 |-> IF i = 1 THEN s[i] ELSE g[i - 1] \o s[i]]
    <3> DEFINE h == [i \in 1 .. k + 1 |-> IF i = 1 THEN s[i] ELSE g[i - 1] \o s[i]]
    <3>1. DOMAIN g = DOMAIN h /\ \A i \in DOMAIN g : g[i] = h[i]
      BY <2>5
    <3> QED BY <3>1
  <2>7. Joins(s, k + 1, g)
    BY ONLY <2>6 DEF Joins
  <2> HIDE DEF g
  <2> QED BY <2>4, <2>7
<1> HIDE DEF P
<1>3. Nat \subseteq S
    BY <1>1, <1>2, SetInduction
<1>4. P(n)
    BY <1>3
<1> QED BY <1>4 DEF P

(* Two that join lists with the same beginning agree on it.                *)
Agree(s, t, k) == \A i \in 1 .. k : s[i] = t[i]

LEMMA JoinsAgree ==
    ASSUME NEW s, NEW t, NEW m \in Nat, NEW n \in Nat, NEW f, NEW g, Joins(s, m, f), Joins(t, n, g),
           NEW k \in Nat, k <= m, k <= n, Agree(s, t, k)
    PROVE  Agree(f, g, k)
<1> DEFINE S == {j \in Nat : j \in 1 .. k => f[j] = g[j]}
<1>1. 0 \in S
    OBVIOUS
<1>2. ASSUME NEW j \in Nat, j \in S PROVE j + 1 \in S
  <2> SUFFICES ASSUME j + 1 <= k PROVE f[j + 1] = g[j + 1]
    OBVIOUS
  <2>1. /\ f[j + 1] = IF j + 1 = 1 THEN s[j + 1] ELSE f[j + 1 - 1] \o s[j + 1]
        /\ g[j + 1] = IF j + 1 = 1 THEN t[j + 1] ELSE g[j + 1 - 1] \o t[j + 1]
    <3>1. j + 1 \in 1 .. m /\ j + 1 \in 1 .. n
      OBVIOUS
    <3>2. \A i \in 1 .. m : f[i] = IF i = 1 THEN s[i] ELSE f[i - 1] \o s[i]
      BY JoinsAt DEF JoinsEach
    <3>3. \A i \in 1 .. n : g[i] = IF i = 1 THEN t[i] ELSE g[i - 1] \o t[i]
      BY JoinsAt DEF JoinsEach
    <3> QED BY <3>1, <3>2, <3>3
  <2>2. s[j + 1] = t[j + 1]
    BY DEF Agree
  <2>3. CASE j = 0
    BY <2>1, <2>2, <2>3
  <2>4. CASE j # 0
    <3>1. j + 1 - 1 = j /\ j + 1 # 1 /\ f[j] = g[j]
      BY <1>2, <2>4
    <3> QED BY <2>1, <2>2, <3>1
  <2> QED BY <2>3, <2>4
<1>3. Nat \subseteq S
    BY <1>1, <1>2, SetInduction
<1> QED BY <1>3 DEF Agree

LEMMA FlattenJoins ==
    ASSUME NEW B, NEW s \in Seq(Seq(B)), s # <<>>
    PROVE  \E f : f \in [1 .. Len(s) -> Seq(B)] /\ Joins(s, Len(s), f) /\ FlattenSeq(s) = f[Len(s)]
<1> DEFINE h == CHOOSE f : f = [i \in 1 .. Len(s) |-> IF i = 1 THEN s[i] ELSE f[i - 1] \o s[i]]
<1>1. PICK g : g \in [1 .. Len(s) -> Seq(B)] /\ Joins(s, Len(s), g)
    BY JoinsExist
<1>2. g = [i \in 1 .. Len(s) |-> IF i = 1 THEN s[i] ELSE g[i - 1] \o s[i]]
    BY <1>1 DEF Joins
<1>3. h = [i \in 1 .. Len(s) |-> IF i = 1 THEN s[i] ELSE h[i - 1] \o s[i]]
    BY <1>2
<1>4. FlattenSeq(s) = h[Len(s)]
    BY DEF FlattenSeq
<1> HIDE DEF h
<1>5. Joins(s, Len(s), h)
    BY ONLY <1>3 DEF Joins
<1>6. h = g
  <2>1. DOMAIN h = 1 .. Len(s) /\ DOMAIN g = 1 .. Len(s)
    BY <1>1, <1>5, JoinsAt
  <2>2. h = [i \in DOMAIN h |-> h[i]] /\ g = [i \in DOMAIN g |-> g[i]]
    BY <1>2, <1>3
  <2>3. \A i \in 1 .. Len(s) : h[i] = g[i]
    <3>1. Agree(s, s, Len(s))
      BY DEF Agree
    <3>2. Len(s) \in Nat /\ Len(s) <= Len(s)
      OBVIOUS
    <3>3. Agree(h, g, Len(s))
      BY <1>1, <1>5, <3>1, <3>2, JoinsAgree
    <3> QED BY <3>3 DEF Agree
  <2> QED BY <2>1, <2>2, <2>3
<1> QED BY <1>1, <1>4, <1>6

(* Flattening joins the last list to what comes before it.                 *)
LEMMA FlattenEmpty == FlattenSeq(<<>>) = <<>>
BY DEF FlattenSeq

LEMMA FlattenAppend ==
    ASSUME NEW B, NEW s \in Seq(Seq(B)), NEW x \in Seq(B)
    PROVE  FlattenSeq(s) \in Seq(B) /\ FlattenSeq(Append(s, x)) = FlattenSeq(s) \o x
<1> DEFINE t == Append(s, x)
<1>1. t \in Seq(Seq(B)) /\ t # <<>> /\ Len(t) = Len(s) + 1 /\ t[Len(s) + 1] = x /\ \A i \in 1 .. Len(s) : t[i] = s[i]
    BY AppendProperties
<1> HIDE DEF t
<1>2. PICK g : g \in [1 .. Len(t) -> Seq(B)] /\ Joins(t, Len(t), g) /\ FlattenSeq(t) = g[Len(t)]
    BY <1>1, FlattenJoins
<1>3. CASE s = <<>>
  <2>1. FlattenSeq(t) = x
    BY <1>1, <1>2, <1>3, JoinsAt DEF JoinsEach
  <2>2. FlattenSeq(s) = <<>> /\ <<>> \in Seq(B) /\ <<>> \o x = x
    BY <1>3, FlattenEmpty, ConcatEmptySeq
  <2> QED BY <2>1, <2>2 DEF t
<1>4. CASE s # <<>>
  <2>1. PICK f : f \in [1 .. Len(s) -> Seq(B)] /\ Joins(s, Len(s), f) /\ FlattenSeq(s) = f[Len(s)]
    BY <1>4, FlattenJoins
  <2>2. Len(s) \in Nat /\ Len(s) # 0
    BY <1>4
  <2>3. f[Len(s)] = g[Len(s)] /\ f[Len(s)] \in Seq(B)
    <3>1. \A i \in 1 .. Len(s) : f[i] = g[i]
      <4>1. Len(s) <= Len(s) /\ Len(s) <= Len(t) /\ Len(t) \in Nat /\ Agree(s, t, Len(s))
        BY <1>1, <2>2 DEF Agree
      <4>2. Agree(f, g, Len(s))
        BY <1>2, <2>1, <2>2, <4>1, JoinsAgree
      <4> QED BY <4>2 DEF Agree
    <3> QED BY <2>1, <2>2, <3>1
  <2>4. g[Len(s) + 1] = g[Len(s)] \o x
    <3>1. Len(s) + 1 \in 1 .. Len(t) /\ Len(s) + 1 # 1 /\ Len(s) + 1 - 1 = Len(s)
      BY <1>1, <2>2
    <3>2. JoinsEach(t, Len(t), g)
      BY <1>2, JoinsAt
    <3>3. \A i \in 1 .. Len(t) : i # 1 => g[i] = g[i - 1] \o t[i]
      BY <3>2 DEF JoinsEach
    <3> DEFINE l == Len(s) + 1
    <3>4. g[l] = g[l - 1] \o t[l]
      BY <3>1, <3>3
    <3>5. l - 1 = Len(s) /\ t[l] = x
      BY <1>1, <3>1
    <3> QED BY <3>4, <3>5
  <2> QED BY <1>1, <1>2, <2>1, <2>3, <2>4 DEF t
<1> QED BY <1>3, <1>4

(* What it makes of a list's beginning comes first.                        *)
LEMMA SubSeqLonger ==
    ASSUME NEW A, NEW s \in Seq(A), NEW k \in Nat, k + 1 <= Len(s)
    PROVE  /\ SubSeq(s, 1, k) \in Seq(A) /\ s[k + 1] \in A
           /\ SubSeq(s, 1, k + 1) = Append(SubSeq(s, 1, k), s[k + 1])
<1> DEFINE a == SubSeq(s, 1, k)  b == SubSeq(s, 1, k + 1)  x == s[k + 1]
<1>1. Len(s) \in Nat /\ \A i \in 1 .. Len(s) : s[i] \in A
    OBVIOUS
<1>2. /\ a \in Seq(A) /\ Len(a) = k /\ \A i \in 1 .. k : a[i] = s[i]
      /\ b \in Seq(A) /\ Len(b) = k + 1 /\ \A i \in 1 .. k + 1 : b[i] = s[i]
    BY <1>1
<1>3. x \in A
    BY <1>1
<1> HIDE DEF a, b
<1>4. Append(a, x) \in Seq(A) /\ Len(Append(a, x)) = k + 1
      /\ \A i \in 1 .. k : Append(a, x)[i] = a[i] /\ Append(a, x)[k + 1] = x
    BY <1>2, <1>3, AppendProperties
<1>5. \A i \in 1 .. k + 1 : i \in 1 .. k \/ i = k + 1
    OBVIOUS
<1>6. \A i \in 1 .. Len(b) : b[i] = Append(a, x)[i]
    BY <1>2, <1>4, <1>5
<1>7. b = Append(a, x)
    BY <1>2, <1>4, <1>6, SeqEqual
<1> QED BY <1>2, <1>3, <1>7 DEF a, b

LEMMA FlattenPrefix ==
    ASSUME NEW B, NEW s \in Seq(Seq(B)), NEW k \in 0 .. Len(s)
    PROVE  \E rest \in Seq(B) : FlattenSeq(s) = FlattenSeq(SubSeq(s, 1, k)) \o rest
<1> DEFINE pre(n) == SubSeq(s, 1, n)
           P(n) == k + n <= Len(s) =>
                     \E rest \in Seq(B) : FlattenSeq(pre(k + n)) = FlattenSeq(pre(k)) \o rest
           S == {n \in Nat : P(n)}
<1>1. Len(s) \in Nat /\ k \in Nat
    OBVIOUS
<1>2. ASSUME NEW n \in Nat, n <= Len(s)
      PROVE  pre(n) \in Seq(Seq(B)) /\ FlattenSeq(pre(n)) \in Seq(B)
  <2>1. pre(n) \in Seq(Seq(B))
    BY <1>1, <1>2
  <2>2. <<>> \in Seq(B)
    OBVIOUS
  <2> HIDE DEF pre
  <2> QED BY <2>1, <2>2, FlattenAppend
<1>3. 0 \in S
  <2>1. k + 0 = k /\ k <= Len(s)
    BY <1>1
  <2>2. FlattenSeq(pre(k)) = FlattenSeq(pre(k)) \o <<>> /\ <<>> \in Seq(B)
    <3>1. FlattenSeq(pre(k)) \in Seq(B)
      BY <1>1, <1>2, <2>1
    <3> HIDE DEF pre
    <3> QED BY <3>1, ConcatEmptySeq
  <2> HIDE DEF pre
  <2>3. P(0)
    BY <2>1, <2>2
  <2> QED BY <2>3
<1>4. ASSUME NEW n \in Nat, n \in S PROVE n + 1 \in S
  <2> HIDE DEF P
  <2> SUFFICES P(n + 1)
      OBVIOUS
  <2> USE DEF P
  <2> HIDE DEF pre
  <2> SUFFICES ASSUME k + (n + 1) <= Len(s)
               PROVE  \E rest \in Seq(B) : FlattenSeq(pre(k + (n + 1))) = FlattenSeq(pre(k)) \o rest
      OBVIOUS
  <2>1. k + n \in Nat /\ k + n <= Len(s) /\ (k + n) + 1 = k + (n + 1) /\ k + n + 1 <= Len(s) /\ k <= Len(s)
    BY <1>1
  <2>2. PICK rest \in Seq(B) : FlattenSeq(pre(k + n)) = FlattenSeq(pre(k)) \o rest
    BY <1>4, <2>1
  <2> DEFINE x == s[(k + n) + 1]
  <2>3. pre(k + n) \in Seq(Seq(B)) /\ x \in Seq(B) /\ pre((k + n) + 1) = Append(pre(k + n), x)
    BY <2>1, SubSeqLonger DEF pre
  <2> HIDE DEF x
  <2>4. FlattenSeq(pre((k + n) + 1)) = FlattenSeq(pre(k + n)) \o x
    <3> HIDE DEF pre
    <3>1. FlattenSeq(Append(pre(k + n), x)) = FlattenSeq(pre(k + n)) \o x
      BY <2>3, FlattenAppend
    <3> QED BY <2>3, <3>1
  <2>5. FlattenSeq(pre(k)) \in Seq(B)
    BY <1>1, <1>2, <2>1
  <2>6. (FlattenSeq(pre(k)) \o rest) \o x = FlattenSeq(pre(k)) \o (rest \o x) /\ rest \o x \in Seq(B)
    <3>1. \A a, b, c \in Seq(B) : (a \o b) \o c = a \o (b \o c)
      BY ConcatAssociative
    <3>2. \A b, c \in Seq(B) : b \o c \in Seq(B)
      BY ConcatProperties
    <3> QED BY <2>2, <2>3, <2>5, <3>1, <3>2
  <2> QED BY <2>1, <2>2, <2>4, <2>6
<1> HIDE DEF P
<1>5. Nat \subseteq S
    BY <1>3, <1>4, SetInduction
<1>6. Len(s) - k \in Nat /\ k + (Len(s) - k) = Len(s)
    BY <1>1
<1>7. P(Len(s) - k)
    BY <1>5, <1>6
<1>8. pre(Len(s)) = s
    BY SubSeqFull
<1> HIDE DEF pre, S
<1>9. k + (Len(s) - k) <= Len(s)
    BY <1>1
<1>10. \E rest \in Seq(B) : FlattenSeq(pre(k + (Len(s) - k))) = FlattenSeq(pre(k)) \o rest
    BY <1>7, <1>9 DEF P
<1>11. \E rest \in Seq(B) : FlattenSeq(s) = FlattenSeq(pre(k)) \o rest
    BY <1>6, <1>8, <1>10
<1> QED BY <1>11 DEF pre
=============================================================================
