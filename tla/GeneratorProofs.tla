--------------------------- MODULE GeneratorProofs ---------------------------
(***************************************************************************)
(* Proofs about the protoc plugin (Generator), for every set of schemas    *)
(* that meets ProtoAssumption, whatever the number of files, types and     *)
(* fields, and every order of the calls: generated.cpp is written when,    *)
(* and only when, every file has been through Generate, and then has every *)
(* type (OutputWhole); and what is written compiles for the schemas that   *)
(* keep to the Readme, and for none that uses types it does not have       *)
(* (OutputCompiles).                                                       *)
(*                                                                         *)
(* GenInv says of each moment what has been written and gathered: the      *)
(* parts of the files that have been through Generate.  What a header      *)
(* includes, by way of others, too, is the least set closed under the      *)
(* headers' own includes (ReachesLeast); that each class finds MessageType *)
(* follows since no message is its own base by way of others.              *)
(***************************************************************************)
EXTENDS Generator, SequenceProofs, FiniteSetTheorems, TLAPS

(* One more level of includes, and the levels, as Reaches goes over them.  *)
Entered(w, H, names) == UNION {w[m].headers : m \in names \cap H}
Levels(w, H, h, n, f) == f = [k \in 0 .. n |-> IF k = 0 THEN h ELSE f[k - 1] \cup Entered(w, H, f[k - 1])]

(* The levels one by one; there are such levels.                           *)
LEMMA LevelsAt ==
    ASSUME NEW w, NEW H, NEW h, NEW n \in Nat, NEW f, Levels(w, H, h, n, f)
    PROVE  f[0] = h /\ \A k \in Nat : k < n => f[k + 1] = f[k] \cup Entered(w, H, f[k])
<1> DEFINE g == [k \in 0 .. n |-> IF k = 0 THEN h ELSE f[k - 1] \cup Entered(w, H, f[k - 1])]
<1>1. f = g
    BY DEF Levels
<1>2. \A k \in 0 .. n : g[k] = IF k = 0 THEN h ELSE f[k - 1] \cup Entered(w, H, f[k - 1])
    OBVIOUS
<1> HIDE DEF g
<1>3. ASSUME NEW k \in Nat, k < n PROVE f[k + 1] = f[k] \cup Entered(w, H, f[k])
  <2>1. k + 1 \in 0 .. n /\ k + 1 # 0 /\ (k + 1) - 1 = k
    BY <1>3
  <2> QED BY <1>1, <1>2, <2>1
<1>4. f[0] = h
  <2>1. 0 \in 0 .. n
    OBVIOUS
  <2> QED BY <1>1, <1>2, <2>1
<1> QED BY <1>3, <1>4

LEMMA LevelsExist ==
    ASSUME NEW w, NEW H, NEW h, NEW n \in Nat
    PROVE  \E f : Levels(w, H, h, n, f)
<1> DEFINE S == {k \in Nat : \E f : Levels(w, H, h, k, f)}
<1>1. 0 \in S
  <2> DEFINE e == [k \in 0 .. 0 |-> h]
  <2>1. e = [k \in 0 .. 0 |-> IF k = 0 THEN h ELSE e[k - 1] \cup Entered(w, H, e[k - 1])]
    OBVIOUS
  <2>2. Levels(w, H, h, 0, e)
    BY ONLY <2>1 DEF Levels
  <2> QED BY <2>2
<1>2. ASSUME NEW k \in Nat, k \in S PROVE k + 1 \in S
  <2>1. PICK f : Levels(w, H, h, k, f)
    BY <1>2
  <2>2. f[0] = h /\ \A i \in Nat : i < k => f[i + 1] = f[i] \cup Entered(w, H, f[i])
    BY <2>1, LevelsAt
  <2> DEFINE g == [i \in 0 .. k + 1 |-> IF i <= k THEN f[i] ELSE f[k] \cup Entered(w, H, f[k])]
             d == [i \in 0 .. k + 1 |-> IF i = 0 THEN h ELSE g[i - 1] \cup Entered(w, H, g[i - 1])]
  <2>3. ASSUME NEW i \in 0 .. k + 1 PROVE g[i] = IF i = 0 THEN h ELSE g[i - 1] \cup Entered(w, H, g[i - 1])
    <3>1. CASE i = 0
      BY <2>2, <3>1
    <3>2. CASE i # 0 /\ i <= k
      <4>1. i - 1 \in Nat /\ i - 1 < k /\ (i - 1) + 1 = i /\ i - 1 \in 0 .. k + 1 /\ i - 1 <= k
        BY <3>2
      <4>2. g[i] = f[i] /\ g[i - 1] = f[i - 1]
        BY <3>2, <4>1
      <4> HIDE DEF g
      <4>3. f[(i - 1) + 1] = f[i - 1] \cup Entered(w, H, f[i - 1])
        BY <2>2, <4>1
      <4> QED BY <3>2, <4>1, <4>2, <4>3
    <3>3. CASE i = k + 1
      <4>1. g[i] = f[k] \cup Entered(w, H, f[k]) /\ g[i - 1] = f[k] /\ i # 0
        BY <3>3
      <4> HIDE DEF g
      <4> QED BY <4>1
    <3> QED BY <3>1, <3>2, <3>3
  <2>4. g = d
    <3>1. DOMAIN g = 0 .. k + 1 /\ DOMAIN d = 0 .. k + 1 /\ \A i \in 0 .. k + 1 : g[i] = d[i]
      BY <2>3
    <3>2. g = [i \in 0 .. k + 1 |-> g[i]] /\ d = [i \in 0 .. k + 1 |-> d[i]]
      OBVIOUS
    <3> HIDE DEF g, d
    <3> QED BY <3>1, <3>2
  <2>5. Levels(w, H, h, k + 1, g)
    <3> HIDE DEF g
    <3> QED BY <2>4 DEF Levels
  <2> HIDE DEF g
  <2> QED BY <2>5
<1> HIDE DEF S
<1>3. Nat \subseteq S
    BY <1>1, <1>2, SetInduction
<1>4. n \in S
    BY <1>3
<1> QED BY <1>4 DEF S

(* After as many levels as there are headers, and one, none is left to     *)
(* enter: each level but the last enters one more.                         *)
LEMMA LevelsEnd ==
    ASSUME NEW w, NEW H, IsFiniteSet(H), NEW h, NEW n \in Nat, Cardinality(H) < n,
           NEW f, Levels(w, H, h, n, f)
    PROVE  /\ h \subseteq f[n]
           /\ \A m \in f[n] \cap H : w[m].headers \subseteq f[n]
           /\ \A C : (h \subseteq C /\ \A m \in C \cap H : w[m].headers \subseteq C) => f[n] \subseteq C
<1>1. f[0] = h /\ \A k \in Nat : k < n => f[k + 1] = f[k] \cup Entered(w, H, f[k])
  <2>1. n \in Nat /\ Levels(w, H, h, n, f)
    OBVIOUS
  <2>2. f[0] = h
    <3>1. 0 \in 0 .. n
      OBVIOUS
    <3> QED BY ONLY <2>1, <3>1 DEF Levels
  <2>3. \A k \in Nat : k < n => f[k + 1] = f[k] \cup Entered(w, H, f[k])
    BY ONLY <2>1, LevelsAt
  <2> QED BY <2>2, <2>3
<1> DEFINE Fixed(k) == Entered(w, H, f[k]) \subseteq f[k]
           S == {k \in Nat : k <= n => Fixed(k) \/ Cardinality(f[k] \cap H) >= k}
           A == {k \in Nat : k <= n => h \subseteq f[k]}
<1>2. \A k : IsFiniteSet(f[k] \cap H) /\ Cardinality(f[k] \cap H) \in Nat /\ Cardinality(f[k] \cap H) <= Cardinality(H)
    BY FS_Subset, FS_CardinalityType
<1>3. Cardinality(H) \in Nat
    BY FS_CardinalityType
<1>4. 0 \in S
    BY <1>2
<1>5. ASSUME NEW k \in Nat, k \in S PROVE k + 1 \in S
  <2> SUFFICES ASSUME k + 1 <= n PROVE Fixed(k + 1) \/ Cardinality(f[k + 1] \cap H) >= k + 1
    OBVIOUS
  <2>1. k < n /\ k <= n /\ f[k + 1] = f[k] \cup Entered(w, H, f[k])
    BY <1>1
  <2>2. Fixed(k) \/ Cardinality(f[k] \cap H) >= k
    BY <1>5, <2>1
  <2>3. CASE Fixed(k)
    <3>1. f[k + 1] = f[k]
      BY <2>1, <2>3
    <3> QED BY <2>3, <3>1
  <2>4. CASE f[k + 1] \cap H = f[k] \cap H
    <3>1. Entered(w, H, f[k + 1]) = Entered(w, H, f[k])
      BY <2>4 DEF Entered
    <3> QED BY <2>1, <3>1
  <2>5. CASE Cardinality(f[k] \cap H) >= k /\ f[k + 1] \cap H # f[k] \cap H
    <3> DEFINE a == f[k] \cap H  b == f[k + 1] \cap H
    <3>1. IsFiniteSet(b) /\ a \subseteq b /\ a # b
      BY <1>2, <2>1, <2>5
    <3>2. Cardinality(a) < Cardinality(b)
      <4> HIDE DEF a, b
      <4> QED BY <3>1, FS_Subset, FS_CardinalityType
    <3>3. Cardinality(a) \in Nat /\ Cardinality(b) \in Nat /\ Cardinality(a) >= k
      BY <1>2, <2>5
    <3> HIDE DEF a
    <3> QED BY <3>2, <3>3
  <2> QED BY <2>2, <2>3, <2>4, <2>5
<1>6. Fixed(n)
  <2> HIDE DEF S
  <2>1. Nat \subseteq S
    BY <1>4, <1>5, SetInduction
  <2>2. n \in S
    BY <2>1
  <2>3. Fixed(n) \/ Cardinality(f[n] \cap H) >= n
    BY <2>2 DEF S
  <2>4. Cardinality(f[n] \cap H) \in Nat /\ Cardinality(f[n] \cap H) <= Cardinality(H)
    BY <1>2
  <2> HIDE DEF Fixed
  <2> QED BY <1>3, <2>3, <2>4
<1>7. h \subseteq f[n]
  <2>1. 0 \in A
    BY <1>1
  <2>2. ASSUME NEW k \in Nat, k \in A PROVE k + 1 \in A
    BY <1>1, <2>2
  <2> HIDE DEF A
  <2>3. n \in A
    BY <2>1, <2>2, SetInduction
  <2> QED BY <2>3 DEF A
<1>8. ASSUME NEW m \in f[n] \cap H PROVE w[m].headers \subseteq f[n]
    BY <1>6 DEF Entered
<1>9. ASSUME NEW C, h \subseteq C, \A m \in C \cap H : w[m].headers \subseteq C PROVE f[n] \subseteq C
  <2> DEFINE T == {k \in Nat : k <= n => f[k] \subseteq C}
  <2>1. 0 \in T
    BY <1>1, <1>9
  <2>2. ASSUME NEW k \in Nat, k \in T PROVE k + 1 \in T
    <3> SUFFICES ASSUME k + 1 <= n PROVE f[k + 1] \subseteq C
      OBVIOUS
    <3>1. f[k] \subseteq C /\ f[k + 1] = f[k] \cup Entered(w, H, f[k])
      BY <1>1, <2>2
    <3> QED BY <1>9, <3>1 DEF Entered
  <2> HIDE DEF T
  <2>3. n \in T
    BY <2>1, <2>2, SetInduction
  <2> QED BY <2>3 DEF T
<1> QED BY <1>7, <1>8, <1>9

(* Reaches(n) is the least set of headers with those that n includes, that *)
(* each generated header in it includes, too.                              *)
LEMMA ReachesLeast ==
    ASSUME IsFiniteSet(DOMAIN written), "generated.cpp" \in DOMAIN written, NEW n
    PROVE  /\ written[n].headers \subseteq Reaches(n)
           /\ \A m \in Reaches(n) \cap Header : written[m].headers \subseteq Reaches(n)
           /\ \A C : (written[n].headers \subseteq C /\ \A m \in C \cap Header : written[m].headers \subseteq C)
                        => Reaches(n) \subseteq C
<1> DEFINE N == Cardinality(DOMAIN written)
           h == written[n].headers
<1>1. N \in Nat /\ IsFiniteSet(Header) /\ Cardinality(Header) < N
  <2> DEFINE D == DOMAIN written
  <2>1. IsFiniteSet(D \ {"generated.cpp"}) /\ Cardinality(D \ {"generated.cpp"}) = Cardinality(D) - 1
    BY FS_RemoveElement
  <2>2. Cardinality(D) \in Nat
    BY FS_CardinalityType
  <2> QED BY <2>1, <2>2 DEF Header
<1>2. PICK f : Levels(written, Header, h, N, f)
    BY <1>1, LevelsExist
<1> DEFINE g == CHOOSE r : r = [k \in 0 .. N |-> IF k = 0 THEN h
                   ELSE r[k - 1] \cup UNION {written[m].headers : m \in r[k - 1] \cap Header}]
<1>3. Levels(written, Header, h, N, g)
    BY <1>2 DEF Levels, Entered
<1>4. Reaches(n) = g[N]
    BY DEF Reaches
<1> HIDE DEF g, N, h
<1>5. /\ h \subseteq g[N]
      /\ \A m \in g[N] \cap Header : written[m].headers \subseteq g[N]
      /\ \A C : (h \subseteq C /\ \A m \in C \cap Header : written[m].headers \subseteq C) => g[N] \subseteq C
    BY <1>1, <1>3, LevelsEnd
<1> QED BY <1>4, <1>5 DEF h

-----------------------------------------------------------------------------

(* What an added type contributes, whatever it is.                         *)
LEMMA PartsFacts ==
    ASSUME NEW t, NEW f
    PROVE  /\ Parts(t, f).cpp.types = {t} /\ Parts(t, f).cpp.sources = {f}
           /\ t \in Parts(t, f).cpp.headers
<1>1. EnumParts(t, f).cpp.types = {t} /\ EnumParts(t, f).cpp.sources = {f} /\ t \in EnumParts(t, f).cpp.headers
    BY DEF EnumParts, EmptyFile
<1>2. ClassParts(t, f).cpp.types = {t} /\ ClassParts(t, f).cpp.sources = {f} /\ t \in ClassParts(t, f).cpp.headers
    BY DEF ClassParts
<1>3. FactoryParts(t, f).cpp.types = {t} /\ FactoryParts(t, f).cpp.sources = {f} /\ t \in FactoryParts(t, f).cpp.headers
    BY DEF FactoryParts
<1>4. Parts(t, f) \in {EnumParts(t, f), ClassParts(t, f), FactoryParts(t, f)}
    BY DEF Parts
<1> QED BY <1>1, <1>2, <1>3, <1>4

(* JoinAll by its parts; of nothing; and in two steps.                     *)
LEMMA JoinAllParts ==
    ASSUME NEW files
    PROVE  /\ JoinAll(files).headers = UNION {file.headers : file \in files}
           /\ JoinAll(files).types = UNION {file.types : file \in files}
           /\ JoinAll(files).functions = UNION {file.functions : file \in files}
           /\ JoinAll(files).sources = UNION {file.sources : file \in files}
           /\ \A other : (JoinAll(files).headers = JoinAll(other).headers
                         /\ JoinAll(files).types = JoinAll(other).types
                         /\ JoinAll(files).functions = JoinAll(other).functions
                         /\ JoinAll(files).sources = JoinAll(other).sources)
                       => JoinAll(files) = JoinAll(other)
<1>1. DOMAIN EmptyFile = {"headers", "types", "functions", "sources"}
    BY DEF EmptyFile
<1> QED BY <1>1 DEF JoinAll

LEMMA JoinAllNone == JoinAll({}) = EmptyFile
BY DEF JoinAll, EmptyFile

LEMMA JoinAllTwice ==
    ASSUME NEW A, NEW B
    PROVE  JoinAll({JoinAll(A)} \cup B) = JoinAll(A \cup B)
<1> DEFINE j == JoinAll(A)  D == DOMAIN EmptyFile
<1>1. ASSUME NEW p \in D
      PROVE  UNION {x[p] : x \in {j} \cup B} = UNION {x[p] : x \in A \cup B}
  <2>1. j[p] = UNION {x[p] : x \in A}
    BY DEF JoinAll
  <2> HIDE DEF j
  <2> QED BY <2>1
<1> HIDE DEF j
<1>2. JoinAll({j} \cup B) = JoinAll(A \cup B)
    BY <1>1 DEF JoinAll
<1> QED BY <1>2 DEF j

-----------------------------------------------------------------------------

(* Before GenerateAll, after a failure, and in between: what was written   *)
(* and gathered is that of the files that have been through Generate.      *)
Done == File \ todo
TypesIn(files) == UNION {TypesOf(f) : f \in files}
CppParts(files) == UNION {{Parts(t, f).cpp : t \in TypesOf(f)} : f \in files}

Before == todo = {} /\ current_file_number = 0 /\ cpp = EmptyFile /\ written = <<>>

Failed == todo = {} /\ written = <<>> /\ \E f \in File : ParseFails(f)

Going ==
    /\ todo \subseteq File
    /\ current_file_number = Cardinality(Done)
    /\ \A f \in Done : ~ParseFails(f)
    /\ DOMAIN written = TypesIn(Done) \cup (IF todo = {} THEN {"generated.cpp"} ELSE {})
    /\ \A t \in TypesIn(Done) : \E f \in File : written[t] = Parts(t, f).hpp
    /\ todo = {} => written["generated.cpp"] = cpp
    /\ cpp = JoinAll(CppParts(Done))

GenInv ==
    /\ schema \in Schemas
    /\ proto_file_number \in {0, FileNumber}
    /\ proto_file_number = 0 => Before
    /\ proto_file_number # 0 => Failed \/ Going

(* What ProtoAssumption says of the schema of a run.                       *)
LEMMA SchemaFacts ==
    ASSUME schema \in Schemas
    PROVE  /\ IsFiniteSet(File) /\ FileNumber \in Nat /\ IsFiniteSet(AllTypes)
           /\ "generated.cpp" \notin AllTypes
<1>1. IsFiniteSet(File) /\ \A f \in File : IsFiniteSet(TypesOf(f))
    BY ProtoAssumption DEF File, TypesOf
<1>2. "generated.cpp" \notin AllTypes
    BY ProtoAssumption DEF AllTypes, File, TypesOf
<1>3. IsFiniteSet({TypesOf(f) : f \in File})
  <2> DEFINE g == [f \in File |-> TypesOf(f)]  R == {TypesOf(f) : f \in File}
  <2>1. g \in Surjection(File, R)
    BY DEF Surjection
  <2> HIDE DEF g, R
  <2>2. IsFiniteSet(R)
    BY <1>1, <2>1, FS_Surjection
  <2> QED BY <2>2 DEF R
<1>4. IsFiniteSet(AllTypes)
    BY <1>1, <1>3, FS_UNION DEF AllTypes
<1>5. FileNumber \in Nat
    BY <1>1, FS_CardinalityType DEF FileNumber
<1> QED BY <1>1, <1>2, <1>4, <1>5

(* GenInv is inductive: Generate for one file, then the other actions.     *)
LEMMA GenerateStep ==
    ASSUME GenInv, NEW f \in File, Generate(f)
    PROVE  GenInv'
<1>1. /\ schema \in Schemas /\ proto_file_number # 0 /\ proto_file_number = FileNumber /\ Going
      /\ f \in todo /\ ~ParseFails(f) /\ todo' = todo \ {f} /\ UNCHANGED <<schema, proto_file_number>>
      /\ current_file_number' = current_file_number + 1
    BY DEF GenInv, Before, Failed, Generate
<1>2. /\ IsFiniteSet(File) /\ FileNumber \in Nat /\ "generated.cpp" \notin AllTypes
    BY <1>1, SchemaFacts
<1>3. UNCHANGED <<File, AllTypes, FileNumber>> /\ \A g : TypesOf(g)' = TypesOf(g) /\ ParseFails(g)' = ParseFails(g)
    BY <1>1 DEF File, AllTypes, FileNumber, TypesOf, ParseFails
<1>4. Done' = Done \cup {f} /\ f \notin Done /\ Done \subseteq File /\ Done' \subseteq File
    BY <1>1, <1>3 DEF Done
<1>5. IsFiniteSet(Done) /\ Cardinality(Done') = Cardinality(Done) + 1 /\ Cardinality(Done) \in Nat
    BY <1>2, <1>4, FS_Subset, FS_AddElement, FS_CardinalityType
<1>6. current_file_number' = Cardinality(Done')
    BY <1>1, <1>5 DEF Going
<1>7. LastFile <=> todo' = {}
  <2>1. Cardinality(Done') = Cardinality(File) <=> Done' = File
    BY <1>2, <1>4, FS_Subset
  <2>2. Done' = File <=> todo' = {}
    BY <1>1, <1>3 DEF Done, Going
  <2> QED BY <1>1, <1>6, <2>1, <2>2 DEF LastFile, FileNumber
<1>8. TypesIn(Done') = TypesIn(Done) \cup TypesOf(f) /\ TypesIn(Done)' = TypesIn(Done')
  <2>1. TypesIn(Done) \cup TypesOf(f) = TypesIn(Done \cup {f})
    BY DEF TypesIn
  <2>2. TypesIn(Done)' = TypesIn(Done')
    BY <1>3 DEF TypesIn
  <2> QED BY <1>4, <2>1, <2>2
<1>9. cpp' = JoinAll(CppParts(Done))'
  <2> DEFINE new == {Parts(t, f).cpp : t \in TypesOf(f)}
  <2>1. cpp' = JoinAll({JoinAll(CppParts(Done))} \cup new)
    BY <1>1 DEF Going, Generate
  <2>2. CppParts(Done) \cup new = CppParts(Done \cup {f})
    BY DEF CppParts
  <2>3. CppParts(Done') = CppParts(Done)'
    <3>1. \A t, g : Parts(t, g)' = Parts(t, g)
      BY <1>1 DEF Parts, EnumParts, ClassParts, FactoryParts, Fields
    <3> QED BY <1>3, <3>1 DEF CppParts
  <2>4. \A files : JoinAll(files)' = JoinAll(files')
    OBVIOUS
  <2> HIDE DEF new
  <2> QED BY <1>4, <2>1, <2>2, <2>3, JoinAllTwice
<1>10. DOMAIN written = TypesIn(Done) /\ todo # {}
    BY <1>1 DEF Going
<1>11. DOMAIN written' = (TypesIn(Done) \cup TypesOf(f)) \cup (IF LastFile THEN {"generated.cpp"} ELSE {})
    BY <1>10 DEF Generate
<1>12. ASSUME NEW n \in DOMAIN written'
       PROVE  written'[n] = IF n \in TypesOf(f) THEN Parts(n, f).hpp
                            ELSE IF n \in TypesIn(Done) THEN written[n] ELSE cpp'
    BY <1>10, <1>11 DEF Generate
<1>13. \A t, g : Parts(t, g)' = Parts(t, g)
    BY <1>1 DEF Parts, EnumParts, ClassParts, FactoryParts, Fields
<1>14. ASSUME NEW t \in TypesIn(Done') PROVE \E g \in File : written'[t] = Parts(t, g).hpp
  <2>1. t \in DOMAIN written'
    BY <1>8, <1>11
  <2>2. CASE t \in TypesOf(f)
    BY <1>12, <2>1, <2>2
  <2>3. CASE t \notin TypesOf(f) /\ t \in TypesIn(Done)
    BY <1>1, <1>12, <2>1, <2>3 DEF Going
  <2> QED BY <1>8, <2>2, <2>3
<1>15. "generated.cpp" \notin TypesOf(f) \cup TypesIn(Done)
    BY <1>2, <1>4 DEF AllTypes, TypesIn
<1>16. LastFile => written'["generated.cpp"] = cpp'
    BY <1>11, <1>12, <1>15
<1>17. Going'
  <2>1. todo' \subseteq File'
    BY <1>1, <1>3 DEF Going
  <2>2. \A g \in Done' : ~ParseFails(g)'
    BY <1>1, <1>3, <1>4 DEF Going
  <2>3. DOMAIN written' = TypesIn(Done)' \cup (IF todo' = {} THEN {"generated.cpp"} ELSE {})
    BY <1>7, <1>8, <1>11
  <2>4. \A t \in TypesIn(Done)' : \E g \in File' : written'[t] = Parts(t, g)'.hpp
    BY <1>3, <1>8, <1>13, <1>14
  <2> QED BY <1>6, <1>7, <1>9, <1>16, <2>1, <2>2, <2>3, <2>4 DEF Going
<1> QED BY <1>1, <1>3, <1>17 DEF GenInv

LEMMA GenStep ==
    ASSUME GenInv, [GenNext]_genVars
    PROVE  GenInv'
<1>1. CASE UNCHANGED genVars
  <2>1. UNCHANGED <<File, AllTypes, FileNumber, Done>> /\ \A g : TypesOf(g)' = TypesOf(g) /\ ParseFails(g)' = ParseFails(g)
    BY <1>1 DEF genVars, File, AllTypes, FileNumber, TypesOf, ParseFails, Done
  <2>2. \A t, g : Parts(t, g)' = Parts(t, g)
    BY <1>1 DEF genVars, Parts, EnumParts, ClassParts, FactoryParts, Fields
  <2>3. TypesIn(Done)' = TypesIn(Done) /\ CppParts(Done)' = CppParts(Done)
    BY <2>1, <2>2 DEF TypesIn, CppParts
  <2>4. Going' <=> Going
    BY <1>1, <2>1, <2>2, <2>3 DEF Going, genVars
  <2>5. Failed' <=> Failed
    BY <1>1, <2>1 DEF Failed, genVars
  <2> QED BY <1>1, <2>1, <2>4, <2>5 DEF GenInv, Before, genVars
<1>2. CASE GenerateAll
  <2>1. /\ Before /\ proto_file_number = 0 /\ schema' = schema /\ proto_file_number' = FileNumber /\ todo' = File
        /\ UNCHANGED <<current_file_number, cpp, written>> /\ schema \in Schemas
    BY <1>2 DEF GenInv, GenerateAll
  <2>2. File' = File /\ FileNumber' = FileNumber
    BY <2>1 DEF File, FileNumber
  <2>3. IsFiniteSet(File)
    BY <2>1, SchemaFacts
  <2>4. CASE FileNumber = 0
    <3>1. File = {}
      BY <2>3, <2>4, FS_EmptySet DEF FileNumber
    <3> QED BY <2>1, <2>2, <2>4, <3>1 DEF GenInv, Before
  <2>5. CASE FileNumber # 0
    <3>1. File # {} /\ Cardinality({}) = 0
      BY <2>5, FS_EmptySet DEF FileNumber
    <3>2. Done' = {}
      BY <2>1, <2>2 DEF Done
    <3>3. TypesIn(Done)' = {} /\ CppParts(Done)' = {}
      BY <3>2 DEF TypesIn, CppParts
    <3>4. JoinAll(CppParts(Done))' = EmptyFile
      <4>1. JoinAll(CppParts(Done))' = JoinAll({})
        BY <3>3 DEF JoinAll
      <4> QED BY <4>1, JoinAllNone
    <3>5. DOMAIN written' = {}
      BY <2>1 DEF Before
    <3>6. Going'
      BY <2>1, <2>2, <3>1, <3>2, <3>3, <3>4, <3>5 DEF Going, Before
    <3>7. schema' \in Schemas /\ proto_file_number' = FileNumber' /\ proto_file_number' # 0
      BY <2>1, <2>2, <2>5
    <3> QED BY <3>6, <3>7 DEF GenInv
  <2> QED BY <2>4, <2>5
<1>3. ASSUME NEW f \in File, Generate(f) PROVE GenInv'
    BY <1>3, GenerateStep
<1>4. ASSUME NEW f \in File, Throw(f) PROVE GenInv'
  <2>1. /\ schema' = schema /\ proto_file_number' = proto_file_number /\ ParseFails(f) /\ todo' = {} /\ written' = <<>>
        /\ proto_file_number # 0
    BY <1>4 DEF Throw, GenInv, Before
  <2>2. File' = File /\ FileNumber' = FileNumber /\ ParseFails(f)'
    BY <2>1 DEF File, FileNumber, ParseFails, TypesOf
  <2> QED BY <2>1, <2>2 DEF GenInv, Failed
<1> QED BY <1>1, <1>2, <1>3, <1>4 DEF GenNext

(* When, and only when, every file has been through Generate, the output   *)
(* is there, and what it has of each file.                                 *)
LEMMA Whole ==
    ASSUME GenInv
    PROVE  /\ "generated.cpp" \in DOMAIN written <=> proto_file_number # 0 /\ todo = {} /\ \A f \in File : ~ParseFails(f)
           /\ "generated.cpp" \in DOMAIN written =>
                 /\ schema \in Schemas
                 /\ DOMAIN written = AllTypes \cup {"generated.cpp"}
                 /\ written["generated.cpp"] = JoinAll(CppParts(File))
                 /\ \A t \in AllTypes : \E f \in File : written[t] = Parts(t, f).hpp
<1>1. DOMAIN <<>> = {}
    OBVIOUS
<1>2. CASE proto_file_number = 0
  <2>1. DOMAIN written = {}
    BY <1>1, <1>2 DEF GenInv, Before
  <2> QED BY <1>2, <2>1
<1>3. CASE proto_file_number # 0 /\ Failed
  <2>1. DOMAIN written = {} /\ \E f \in File : ParseFails(f)
    BY <1>1, <1>3 DEF Failed
  <2> QED BY <2>1
<1>4. CASE proto_file_number # 0 /\ Going
  <2>1. schema \in Schemas /\ "generated.cpp" \notin AllTypes
    BY SchemaFacts DEF GenInv
  <2>2. TypesIn(Done) \subseteq AllTypes
    BY DEF TypesIn, AllTypes, Done
  <2>3. "generated.cpp" \in DOMAIN written <=> todo = {}
    BY <1>4, <2>1, <2>2 DEF Going
  <2>4. CASE todo = {}
    <3>1. Done = File /\ TypesIn(Done) = AllTypes
      BY <2>4 DEF Done, TypesIn, AllTypes
    <3>2. \A f \in File : ~ParseFails(f)
      BY <1>4, <3>1 DEF Going
    <3>3. /\ DOMAIN written = AllTypes \cup {"generated.cpp"}
          /\ written["generated.cpp"] = JoinAll(CppParts(File))
          /\ \A t \in AllTypes : \E f \in File : written[t] = Parts(t, f).hpp
      BY <1>4, <2>4, <3>1 DEF Going
    <3> QED BY <1>4, <2>1, <2>3, <2>4, <3>2, <3>3
  <2>5. CASE todo # {}
    BY <2>3, <2>5
  <2> QED BY <2>4, <2>5
<1> QED BY <1>2, <1>3, <1>4 DEF GenInv

(* GenInv holds always, and so the output is there when, and only when,    *)
(* every file has been through Generate, and is complete then.             *)
THEOREM OutputWhole == GenSpec => []GeneratedWhole
<1>1. GenInit => GenInv
    BY DEF GenInit, GenInv, Before
<1>2. GenInv /\ [GenNext]_genVars => GenInv'
    BY GenStep
<1>3. GenInv => GeneratedWhole
  <2> SUFFICES ASSUME GenInv PROVE GeneratedWhole
    OBVIOUS
  <2>1. FileNumber \in Nat /\ proto_file_number \in {0, FileNumber}
    BY SchemaFacts DEF GenInv
  <2>2. proto_file_number > 0 <=> proto_file_number # 0
    BY <2>1
  <2>3. ASSUME "generated.cpp" \in DOMAIN written
        PROVE  LET out == written["generated.cpp"] IN
               /\ out.types = AllTypes
               /\ \A f \in File : TypesOf(f) # {} => f \in out.sources
               /\ AllTypes \subseteq DOMAIN written
    <3> DEFINE out == written["generated.cpp"]
    <3>1. out = JoinAll(CppParts(File)) /\ AllTypes \subseteq DOMAIN written
      BY <2>3, Whole
    <3>2. /\ out.types = UNION {file.types : file \in CppParts(File)}
          /\ out.sources = UNION {file.sources : file \in CppParts(File)}
      BY <3>1, JoinAllParts
    <3> HIDE DEF out
    <3>3. out.types = AllTypes
      BY <3>2, PartsFacts DEF CppParts, AllTypes
    <3>4. ASSUME NEW f \in File, TypesOf(f) # {} PROVE f \in out.sources
      BY <3>2, <3>4, PartsFacts DEF CppParts
    <3> QED BY <3>1, <3>3, <3>4 DEF out
  <2>4. "generated.cpp" \in DOMAIN written <=> proto_file_number # 0 /\ todo = {} /\ \A f \in File : ~ParseFails(f)
    BY Whole
  <2> QED BY <2>2, <2>3, <2>4 DEF GeneratedWhole
<1> QED BY <1>1, <1>2, <1>3, PTL DEF GenSpec

-----------------------------------------------------------------------------

(* What the files of a finished run include, define and declare.           *)
Message == DOMAIN schema.fields

ClassHeaders(t) ==
    (UNION {FieldHeader(p) : p \in Fields(t)}) \cup
        {IF schema.base[t] = NoType THEN "MessageType" ELSE schema.base[t]}

Written ==
    /\ DOMAIN written = AllTypes \cup {"generated.cpp"} /\ Header = AllTypes
    /\ IsFiniteSet(DOMAIN written)
    /\ \A t \in AllTypes :
          /\ t \in Message => written[t].headers = ClassHeaders(t)
          /\ t \notin Message => written[t].headers \subseteq Standard
    /\ LET out == written["generated.cpp"] IN
          /\ out.types = AllTypes
          /\ out.headers \subseteq AllTypes \cup Standard /\ AllTypes \subseteq out.headers
          /\ Message \subseteq out.functions /\ out.functions \subseteq Message \cup {"handle_message_from_item"}

Named ==
    /\ Message = AllTypes \ (schema.enums \cup {Factory})
    /\ Factory \notin schema.enums
    /\ AllTypes \cap (Standard \cup BuiltIn \cup {NoType, "generated.cpp", "handle_message_from_item"}) = {}
    /\ \A t \in Message : \A p \in Fields(t) :
          /\ p.kind \in {"item", "list", "map"}
          /\ p.kind = "map" => p.key \in {"int32", "string"}
          /\ p.type \notin Standard \ BuiltIn
    /\ DOMAIN schema.tags # {} => Factory \in AllTypes

(* The names of the schema of a run, and that bases go round in no circle. *)
LEMMA NamedFacts ==
    ASSUME schema \in Schemas
    PROVE  /\ Named
           /\ \A some \in (SUBSET Message) \ {{}} : \E t \in some : schema.base[t] \notin some
<1>1. AllTypes = UNION {schema.files[f] : f \in DOMAIN schema.files}
    BY DEF AllTypes, File, TypesOf
<1>2. /\ Message = AllTypes \ (schema.enums \cup {Factory})
      /\ Factory \notin schema.enums
      /\ AllTypes \cap (Standard \cup BuiltIn \cup {NoType, "generated.cpp", "handle_message_from_item"}) = {}
    BY <1>1, ProtoAssumption DEF Message
<1>3. ASSUME NEW t \in Message, NEW p \in Fields(t)
      PROVE  /\ p.kind \in {"item", "list", "map"} /\ (p.kind = "map" => p.key \in {"int32", "string"})
             /\ p.type \notin Standard \ BuiltIn
  <2>1. PICK i \in DOMAIN schema.fields[t] : p = schema.fields[t][i]
    BY DEF Fields, ToSet
  <2> QED BY <1>1, <1>2, <2>1, ProtoAssumption
<1>4. ASSUME NEW some \in (SUBSET Message) \ {{}} PROVE \E t \in some : schema.base[t] \notin some
    BY <1>1, <1>2, <1>4, ProtoAssumption
<1>5. DOMAIN schema.tags # {} => Factory \in AllTypes
    BY <1>1, ProtoAssumption
<1> QED BY <1>2, <1>3, <1>4, <1>5 DEF Named

(* A field's headers are that of its type and standard ones.               *)
LEMMA FieldHeaders ==
    ASSUME NEW p, p.kind \in {"item", "list", "map"}, p.kind = "map" => p.key \in {"int32", "string"}
    PROVE  /\ TypeHeader(p.type) \subseteq FieldHeader(p)
           /\ FieldHeader(p) \subseteq TypeHeader(p.type) \cup Standard
           /\ p.kind = "list" => "vector" \in FieldHeader(p)
           /\ p.kind = "map" => {"map"} \cup TypeHeader(p.key) \subseteq FieldHeader(p)
           /\ FieldCppHeader(p) \subseteq Standard
<1>1. p.kind = "map" => TypeHeader(p.key) \subseteq {"string"}
    BY DEF TypeHeader
<1>2. FieldCppHeader(p) \subseteq Standard
    BY DEF FieldCppHeader, Standard
<1>3. CASE p.kind = "map"
  <2>1. FieldHeader(p) = TypeHeader(p.type) \cup ({"map"} \cup TypeHeader(p.key))
    BY <1>3 DEF FieldHeader
  <2> QED BY <1>1, <1>2, <1>3, <2>1 DEF Standard
<1>4. CASE p.kind = "list"
  <2>1. FieldHeader(p) = TypeHeader(p.type) \cup {"vector"}
    BY <1>4 DEF FieldHeader
  <2> QED BY <1>2, <1>4, <2>1 DEF Standard
<1>5. CASE p.kind = "item"
  <2>1. FieldHeader(p) = TypeHeader(p.type)
    BY <1>5 DEF FieldHeader
  <2> QED BY <1>2, <1>5, <2>1
<1> QED BY <1>3, <1>4, <1>5

(* GenInv gives what Written says of a finished run.                       *)
LEMMA WrittenFacts ==
    ASSUME GenInv, "generated.cpp" \in DOMAIN written
    PROVE  Written
<1>1. /\ schema \in Schemas
      /\ DOMAIN written = AllTypes \cup {"generated.cpp"}
      /\ written["generated.cpp"] = JoinAll(CppParts(File))
      /\ \A t \in AllTypes : \E f \in File : written[t] = Parts(t, f).hpp
    BY Whole
<1>2. Named /\ "generated.cpp" \notin AllTypes /\ IsFiniteSet(AllTypes)
    BY <1>1, NamedFacts, SchemaFacts
<1>3. Header = AllTypes
    BY <1>1, <1>2 DEF Header
<1>4. IsFiniteSet(DOMAIN written)
    BY <1>1, <1>2, FS_AddElement
<1>5. ASSUME NEW t \in AllTypes
      PROVE  \/ t \in Message /\ \A f : Parts(t, f) = ClassParts(t, f)
             \/ t \notin Message /\ \A f : Parts(t, f) = EnumParts(t, f)
             \/ t \notin Message /\ \A f : Parts(t, f) = FactoryParts(t, f)
    BY <1>2 DEF Named, Parts
<1>6. ASSUME NEW t, NEW f
      PROVE  /\ EnumParts(t, f).hpp.headers \subseteq Standard
             /\ FactoryParts(t, f).hpp.headers \subseteq Standard
             /\ ClassParts(t, f).hpp.headers = ClassHeaders(t)
             /\ EnumParts(t, f).cpp.headers = {t} /\ EnumParts(t, f).cpp.functions = {}
             /\ FactoryParts(t, f).cpp.headers = {t}
             /\ FactoryParts(t, f).cpp.functions = {"handle_message_from_item"}
             /\ ClassParts(t, f).cpp.headers = {t} \cup UNION {FieldCppHeader(p) : p \in Fields(t)}
             /\ ClassParts(t, f).cpp.functions = {t}
  <2>1. EnumParts(t, f).hpp.headers = {} /\ EnumParts(t, f).cpp.headers = {t} /\ EnumParts(t, f).cpp.functions = {}
    BY DEF EnumParts, EmptyFile
  <2>2. /\ FactoryParts(t, f).hpp.headers = {"memory", "functional", "string"} /\ FactoryParts(t, f).cpp.headers = {t}
        /\ FactoryParts(t, f).cpp.functions = {"handle_message_from_item"}
    BY DEF FactoryParts, EmptyFile
  <2>3. ClassParts(t, f).hpp.headers = ClassHeaders(t)
    BY DEF ClassParts, ClassHeaders, EmptyFile
  <2>4. /\ ClassParts(t, f).cpp.headers = {t} \cup UNION {FieldCppHeader(p) : p \in Fields(t)}
        /\ ClassParts(t, f).cpp.functions = {t}
    BY DEF ClassParts
  <2> QED BY <2>1, <2>2, <2>3, <2>4 DEF Standard
<1>7. ASSUME NEW t \in AllTypes
      PROVE  /\ t \in Message => written[t].headers = ClassHeaders(t)
             /\ t \notin Message => written[t].headers \subseteq Standard
    BY <1>1, <1>5, <1>6
<1>8. ASSUME NEW t \in AllTypes, NEW f
      PROVE  /\ Parts(t, f).cpp.types = {t}
             /\ t \in Parts(t, f).cpp.headers /\ Parts(t, f).cpp.headers \subseteq {t} \cup Standard
             /\ Parts(t, f).cpp.functions \subseteq Message \cup {"handle_message_from_item"}
             /\ t \in Message => Parts(t, f).cpp.functions = {t}
  <2>1. t \in Message => UNION {FieldCppHeader(p) : p \in Fields(t)} \subseteq Standard
    BY <1>2, FieldHeaders DEF Named
  <2> QED BY <1>5, <1>6, <2>1, PartsFacts
<1>9. \A c : c \in CppParts(File) <=> \E f \in File : \E t \in TypesOf(f) : c = Parts(t, f).cpp
    BY DEF CppParts
<1>10. \A t : t \in AllTypes <=> \E f \in File : t \in TypesOf(f)
    BY DEF AllTypes
<1> DEFINE out == written["generated.cpp"]
<1>11. /\ out.types = UNION {file.types : file \in CppParts(File)}
       /\ out.headers = UNION {file.headers : file \in CppParts(File)}
       /\ out.functions = UNION {file.functions : file \in CppParts(File)}
    BY <1>1, JoinAllParts
<1> HIDE DEF out
<1>12. out.types = AllTypes
    BY <1>8, <1>9, <1>10, <1>11
<1>13. out.headers \subseteq AllTypes \cup Standard /\ AllTypes \subseteq out.headers
    BY <1>8, <1>9, <1>10, <1>11
<1>14. out.functions \subseteq Message \cup {"handle_message_from_item"}
    BY <1>8, <1>9, <1>10, <1>11
<1>15. Message \subseteq out.functions
  <2>1. Message \subseteq AllTypes
    BY <1>2 DEF Named
  <2> QED BY <1>8, <1>9, <1>10, <1>11, <2>1
<1> QED BY <1>1, <1>3, <1>4, <1>7, <1>12, <1>13, <1>14, <1>15 DEF Written, out

-----------------------------------------------------------------------------

(* Reaches of a file of a finished run: what ReachesLeast says, with what  *)
(* the generated headers include.                                          *)
LEMMA WrittenReaches ==
    ASSUME Written, NEW n
    PROVE  /\ written[n].headers \subseteq Reaches(n)
           /\ \A m \in Reaches(n) \cap AllTypes : written[m].headers \subseteq Reaches(n)
           /\ \A C : (written[n].headers \subseteq C /\ \A m \in C \cap AllTypes : written[m].headers \subseteq C)
                        => Reaches(n) \subseteq C
<1>1. IsFiniteSet(DOMAIN written) /\ "generated.cpp" \in DOMAIN written /\ Header = AllTypes
    BY DEF Written
<1> QED BY <1>1, ReachesLeast

(* Under the Readme's rules: what a field's type can be, what the classes  *)
(* without a base and those with one have, and what the factory's items    *)
(* are.                                                                    *)
LEMMA SupportedFacts ==
    ASSUME schema \in Schemas, Supported
    PROVE  /\ \A t \in Message : \A p \in Fields(t) :
                 /\ TypeHeader(p.type) \subseteq AllTypes \cup Standard
                 /\ p.type # Factory /\ p.type \notin Abstract
           /\ \A t \in Message :
                 \/ schema.base[t] = NoType /\ t = "MessageBase" /\ \E p \in Fields(t) : p.type = "Timestamp"
                 \/ schema.base[t] \in Message /\ schema.base[t] # NoType /\ t # "MessageBase" /\ HasMember(t)
           /\ \A g \in DOMAIN schema.tags : schema.tags[g] \in Message \ Abstract
           /\ "MessageType" \in AllTypes \cap schema.enums /\ "MessageBase" \in Message
<1>1. Named
    BY NamedFacts
<1>2. /\ Message = AllTypes \ (schema.enums \cup {Factory}) /\ Factory \notin schema.enums
      /\ AllTypes \cap (BuiltIn \cup {NoType}) = {}
    BY <1>1 DEF Named
<1>3. Concrete = Message \ Abstract /\ Abstract \subseteq Message /\ Abstract = {t \in Message : schema.base[t] = NoType}
    BY <1>2 DEF Concrete, Abstract, Message, IsMessage
<1>4. ASSUME NEW t \in Message, NEW p \in Fields(t)
      PROVE  TypeHeader(p.type) \subseteq AllTypes \cup Standard /\ p.type # Factory /\ p.type \notin Abstract
  <2>1. p.type \in BuiltIn \cup (AllTypes \cap schema.enums) \cup Concrete
    BY DEF Supported, KnownTypes, Message
  <2>2. CASE p.type \in BuiltIn
    <3>1. TypeHeader(p.type) \subseteq Standard /\ p.type # Factory
      BY <2>2 DEF TypeHeader, BuiltIn, Standard, Factory
    <3> QED BY <1>2, <1>3, <2>2, <3>1
  <2>3. CASE p.type \in AllTypes /\ p.type # Factory /\ p.type \notin Abstract
    <3>1. TypeHeader(p.type) = {p.type}
      BY <1>2, <2>3 DEF TypeHeader, BuiltIn
    <3> QED BY <2>3, <3>1
  <2> QED BY <1>2, <1>3, <2>1, <2>2, <2>3
<1>5. ASSUME NEW t \in Message
      PROVE  \/ schema.base[t] = NoType /\ t = "MessageBase" /\ \E p \in Fields(t) : p.type = "Timestamp"
             \/ schema.base[t] \in Message /\ schema.base[t] # NoType /\ t # "MessageBase" /\ HasMember(t)
  <2>1. schema.base[t] = NoType <=> t = "MessageBase"
    BY DEF Supported, Message
  <2>2. CASE schema.base[t] = NoType
    BY <2>1, <2>2 DEF Supported
  <2>3. CASE schema.base[t] # NoType
    <3>1. schema.base[t] \in Message
      BY <2>3 DEF Supported, KnownTypes, Message, IsMessage
    <3>2. PICK g \in DOMAIN schema.tags : schema.tags[g] = t
      BY <1>3, <2>3 DEF Supported
    <3>3. g = t
      BY <3>2 DEF Supported
    <3> QED BY <2>1, <2>3, <3>1, <3>2, <3>3 DEF HasMember
  <2> QED BY <2>2, <2>3
<1>6. \A g \in DOMAIN schema.tags : schema.tags[g] \in Message \ Abstract
    BY <1>3 DEF Supported, KnownTypes
<1>7. "MessageType" \in AllTypes \cap schema.enums /\ "MessageBase" \in Message
    BY DEF Supported, IsMessage, Message
<1> QED BY <1>4, <1>5, <1>6, <1>7

(* MessageBase is the only root, and bases go round in no circle, so every *)
(* message derives from it.                                                *)
LEMMA SupportedDerives ==
    ASSUME schema \in Schemas, Supported, NEW c \in Message
    PROVE  Derives(c)
<1> SUFFICES ASSUME NEW some, c \in some, \A t \in some \cap Message : schema.base[t] \in some,
                    "MessageBase" \notin some
             PROVE  FALSE
    BY DEF Derives, Message
<1>1. some \cap Message \in (SUBSET Message) \ {{}}
    OBVIOUS
<1>2. PICK t \in some \cap Message : schema.base[t] \notin some \cap Message
    BY <1>1, NamedFacts
<1>3. schema.base[t] \in Message
    BY <1>2, SupportedFacts
<1> QED BY <1>2, <1>3

(* Each header includes what its class needs: the fields' headers are its  *)
(* own, MessageType comes by way of the bases; and each function called    *)
(* is that of a message of these files.                                    *)
LEMMA SupportedCompiles ==
    ASSUME schema \in Schemas, Written, Supported
    PROVE  Compiles
<1> DEFINE out == written["generated.cpp"]
           Known == AllTypes \cup Standard
<1>1. Named /\ \A some \in (SUBSET Message) \ {{}} : \E t \in some : schema.base[t] \notin some
    BY NamedFacts
<1>2. Message \subseteq AllTypes /\ Factory \notin Message
    BY <1>1 DEF Named
<1>3. /\ \A t \in Message : \A p \in Fields(t) :
            /\ TypeHeader(p.type) \subseteq AllTypes \cup Standard
            /\ p.type # Factory /\ p.type \notin Abstract
      /\ \A g \in DOMAIN schema.tags : schema.tags[g] \in Message \ Abstract
      /\ "MessageType" \in AllTypes \cap schema.enums /\ "MessageBase" \in Message
    BY SupportedFacts
<1>4. \A t \in Message :
         \/ schema.base[t] = NoType /\ t = "MessageBase" /\ \E p \in Fields(t) : p.type = "Timestamp"
         \/ schema.base[t] \in Message /\ schema.base[t] # NoType /\ t # "MessageBase" /\ HasMember(t)
    BY SupportedFacts
<1>5. \A t \in Message : \A p \in Fields(t) :
         /\ TypeHeader(p.type) \subseteq FieldHeader(p)
         /\ FieldHeader(p) \subseteq TypeHeader(p.type) \cup Standard
         /\ p.kind = "list" => "vector" \in FieldHeader(p)
         /\ p.kind = "map" => {"map"} \cup TypeHeader(p.key) \subseteq FieldHeader(p)
  <2> SUFFICES ASSUME NEW t \in Message, NEW p \in Fields(t)
               PROVE  /\ TypeHeader(p.type) \subseteq FieldHeader(p)
                      /\ FieldHeader(p) \subseteq TypeHeader(p.type) \cup Standard
                      /\ p.kind = "list" => "vector" \in FieldHeader(p)
                      /\ p.kind = "map" => {"map"} \cup TypeHeader(p.key) \subseteq FieldHeader(p)
    OBVIOUS
  <2>1. p.kind \in {"item", "list", "map"} /\ (p.kind = "map" => p.key \in {"int32", "string"})
    BY <1>1 DEF Named
  <2> QED BY <2>1, FieldHeaders
<1>6. ASSUME NEW t \in AllTypes PROVE written[t].headers \subseteq Known
  <2>1. CASE t \in Message
    <3>1. written[t].headers = ClassHeaders(t)
      BY <2>1 DEF Written
    <3>2. \A p \in Fields(t) : FieldHeader(p) \subseteq Known
      BY <1>3, <1>5, <2>1
    <3>3. (IF schema.base[t] = NoType THEN "MessageType" ELSE schema.base[t]) \in Known
      BY <1>2, <1>3, <1>4, <2>1
    <3> HIDE DEF Known
    <3> QED BY <3>1, <3>2, <3>3 DEF ClassHeaders
  <2>2. CASE t \notin Message
    BY <2>2 DEF Written
  <2> QED BY <2>1, <2>2
<1>7. out.headers \subseteq Known /\ AllTypes \subseteq out.headers /\ out.types = AllTypes /\ Message \subseteq out.functions
    BY DEF Written
<1> HIDE DEF out
<1>8. ASSUME NEW n \in DOMAIN written PROVE Reaches(n) \subseteq Known
  <2>1. n \in AllTypes \/ n = "generated.cpp"
    BY DEF Written
  <2>2. written[n].headers \subseteq Known
    BY <1>6, <1>7, <2>1 DEF out
  <2>3. \A m \in Known \cap AllTypes : written[m].headers \subseteq Known
    BY <1>6
  <2> HIDE DEF Known
  <2> QED BY <2>2, <2>3, WrittenReaches
<1>9. \A t \in Message : "MessageType" \in Reaches(t)
  <2> DEFINE some == {t \in Message : "MessageType" \notin Reaches(t)}
  <2>1. SUFFICES ASSUME some # {} PROVE FALSE
    OBVIOUS
  <2>2. some \in (SUBSET Message) \ {{}}
    BY <2>1
  <2>3. PICK t \in some : schema.base[t] \notin some
    BY <1>1, <2>2
  <2>4. t \in Message /\ "MessageType" \notin Reaches(t) /\ written[t].headers = ClassHeaders(t)
    BY <1>2 DEF Written
  <2>5. ClassHeaders(t) \subseteq Reaches(t)
    BY <2>4, WrittenReaches
  <2>6. schema.base[t] # NoType
    BY <2>4, <2>5 DEF ClassHeaders
  <2>7. schema.base[t] \in Reaches(t) /\ schema.base[t] \in Message
    BY <1>4, <2>4, <2>5, <2>6 DEF ClassHeaders
  <2>8. "MessageType" \in Reaches(schema.base[t])
    BY <2>3, <2>7
  <2>9. Reaches(schema.base[t]) \subseteq Reaches(t)
    <3>1. written[schema.base[t]].headers \subseteq Reaches(t)
      BY <1>2, <2>7, WrittenReaches
    <3>2. \A m \in Reaches(t) \cap AllTypes : written[m].headers \subseteq Reaches(t)
      BY WrittenReaches
    <3> QED BY <3>1, <3>2, WrittenReaches
  <2> QED BY <2>4, <2>8, <2>9
<1>10. ASSUME NEW t \in AllTypes PROVE Needs(t) \subseteq Reaches(t)
  <2>1. CASE t \notin Message
    BY <2>1 DEF Needs, IsMessage, Message
  <2>2. CASE t \in Message
    <3>1. ClassHeaders(t) \subseteq Reaches(t)
      <4>1. written[t].headers = ClassHeaders(t)
        BY <2>2 DEF Written
      <4> QED BY <4>1, WrittenReaches
    <3>2. \A p \in Fields(t) : FieldHeader(p) \subseteq Reaches(t)
      BY <3>1 DEF ClassHeaders
    <3>3. schema.base[t] = NoType => "DateTime" \in Reaches(t)
      <4>1. SUFFICES ASSUME schema.base[t] = NoType PROVE "DateTime" \in Reaches(t)
        OBVIOUS
      <4>2. PICK p \in Fields(t) : p.type = "Timestamp"
        BY <1>4, <2>2, <4>1
      <4>3. "DateTime" \in TypeHeader(p.type)
        BY <4>2 DEF TypeHeader
      <4> QED BY <1>5, <2>2, <3>2, <4>3
    <3>4. schema.base[t] # NoType => schema.base[t] \in Reaches(t)
      BY <3>1 DEF ClassHeaders
    <3>5. UNION {TypeHeader(p.type) : p \in Fields(t)} \subseteq Reaches(t)
      BY <1>5, <2>2, <3>2
    <3>6. {"vector" : p \in {q \in Fields(t) : q.kind = "list"}} \subseteq Reaches(t)
      BY <1>5, <2>2, <3>2
    <3>7. UNION {{"map"} \cup TypeHeader(p.key) : p \in {q \in Fields(t) : q.kind = "map"}} \subseteq Reaches(t)
      <4>1. ASSUME NEW p \in Fields(t), p.kind = "map" PROVE {"map"} \cup TypeHeader(p.key) \subseteq Reaches(t)
        BY <1>5, <2>2, <3>2, <4>1
      <4> QED BY <4>1
    <3>8. "MessageType" \in Reaches(t)
      BY <1>9, <2>2
    <3> QED BY <2>2, <3>3, <3>4, <3>5, <3>6, <3>7, <3>8 DEF Needs, IsMessage, Message
  <2> QED BY <2>1, <2>2
<1>11. AllTypes \subseteq Reaches("generated.cpp")
    BY <1>7, WrittenReaches DEF out
<1>12. ASSUME NEW t \in AllTypes PROVE Callees(t) \subseteq Message /\ Creates(t) \cap Abstract = {}
  <2>1. CASE t = Factory
    <3>1. Callees(t) = {schema.tags[g] : g \in DOMAIN schema.tags} /\ Creates(t) = Callees(t)
      BY <1>2, <2>1 DEF Callees, Creates, IsMessage, Message
    <3> QED BY <1>3, <3>1
  <2>2. CASE t # Factory /\ t \notin Message
    BY <2>2 DEF Callees, Creates, IsMessage, Message
  <2>3. CASE t # Factory /\ t \in Message
    <3>1. Creates(t) = {p.type : p \in Fields(t)}
      BY <2>3 DEF Creates, IsMessage, Message
    <3>2. Callees(t) = (Creates(t) \cap (Message \cup {Factory})) \cup ({schema.base[t]} \ {NoType})
      BY <2>3 DEF Callees, IsMessage, Message
    <3>3. Creates(t) \cap (Abstract \cup {Factory}) = {}
      BY <1>3, <2>3, <3>1
    <3>4. schema.base[t] # NoType => schema.base[t] \in Message
      BY <1>4, <2>3
    <3> QED BY <3>2, <3>3, <3>4
  <2> QED BY <2>1, <2>2, <2>3
<1>13. ASSUME NEW t \in AllTypes
       PROVE  /\ IsMessage(t) => "MessageType" \in schema.enums /\ (t \in Abstract \/ HasMember(t))
              /\ t = Factory => IsMessage("MessageBase") /\ \A c \in Creates(t) : Derives(c)
  <2>1. IsMessage(t) => t \in Abstract \/ HasMember(t)
    BY <1>4 DEF IsMessage, Message, Abstract
  <2>2. ASSUME t = Factory, NEW c \in Creates(t) PROVE Derives(c)
    <3>1. c \in Message
      BY <1>3, <2>2 DEF Creates
    <3> QED BY <3>1, SupportedDerives
  <2> QED BY <1>3, <2>1, <2>2 DEF IsMessage, Message
<1>14. ASSUME NEW n \in DOMAIN written
       PROVE  Reaches(n) \subseteq Header \cup Standard /\ (n # "generated.cpp" => Needs(n) \subseteq Reaches(n) \cup {n})
  <2>1. Header = AllTypes /\ (n # "generated.cpp" => n \in AllTypes)
    BY DEF Written
  <2> QED BY <1>8, <1>10, <2>1
<1>15. ASSUME NEW t \in AllTypes PROVE Callees(t) \subseteq out.functions \cap out.types
    BY <1>2, <1>7, <1>12
<1> QED BY <1>7, <1>11, <1>12, <1>13, <1>14, <1>15 DEF Compiles, out

(* What a compiling output includes, calls and makes objects of is what    *)
(* was generated, so the schema has it.                                    *)
LEMMA CompilesKnown ==
    ASSUME schema \in Schemas, Written, Compiles
    PROVE  KnownTypes
<1> DEFINE out == written["generated.cpp"]
<1>1. Named
    BY NamedFacts
<1>2. Message \subseteq AllTypes /\ Message = AllTypes \ (schema.enums \cup {Factory})
    BY <1>1 DEF Named
<1>3. out.types = AllTypes /\ out.functions \subseteq Message \cup {"handle_message_from_item"}
    BY DEF Written
<1>4. \A t \in AllTypes : Callees(t) \subseteq out.functions \cap out.types /\ Creates(t) \cap Abstract = {}
    BY <1>3 DEF Compiles
<1> HIDE DEF out
<1>5. \A t \in AllTypes : Callees(t) \subseteq Message
  <2>1. "handle_message_from_item" \notin AllTypes
    BY <1>1 DEF Named
  <2> QED BY <1>3, <1>4, <2>1
<1>6. Concrete = Message \ Abstract
    BY <1>2 DEF Concrete, Abstract, Message, IsMessage
<1>7. ASSUME NEW t \in Message PROVE ClassHeaders(t) \subseteq AllTypes \cup Standard
  <2>1. t \in DOMAIN written /\ written[t].headers = ClassHeaders(t) /\ Header = AllTypes
    BY <1>2 DEF Written
  <2>2. Reaches(t) \subseteq AllTypes \cup Standard
    BY <2>1 DEF Compiles
  <2> QED BY <2>1, <2>2, WrittenReaches
<1>8. ASSUME NEW t \in Message
      PROVE  /\ Creates(t) = {p.type : p \in Fields(t)}
             /\ Creates(t) \cap (Message \cup {Factory}) \subseteq Message
             /\ schema.base[t] \in Message \/ schema.base[t] = NoType
  <2>1. Creates(t) = {p.type : p \in Fields(t)}
    BY <1>1, <1>2 DEF Creates, IsMessage, Message
  <2>2. Callees(t) = (Creates(t) \cap (Message \cup {Factory})) \cup ({schema.base[t]} \ {NoType})
    BY DEF Callees, IsMessage, Message
  <2> QED BY <1>2, <1>5, <2>1, <2>2
<1>9. ASSUME NEW t \in Message, NEW p \in Fields(t)
      PROVE  p.type \in BuiltIn \cup (AllTypes \cap schema.enums) \cup Concrete
  <2>1. SUFFICES ASSUME p.type \notin BuiltIn PROVE p.type \in (AllTypes \cap schema.enums) \cup Concrete
    OBVIOUS
  <2>2. TypeHeader(p.type) = {p.type}
    BY <2>1 DEF TypeHeader, BuiltIn
  <2>3. TypeHeader(p.type) \subseteq FieldHeader(p)
    <3>1. p.kind \in {"item", "list", "map"} /\ (p.kind = "map" => p.key \in {"int32", "string"})
      BY <1>1 DEF Named
    <3> QED BY <3>1, FieldHeaders
  <2>4. p.type \in AllTypes
    <3>1. p.type \in AllTypes \cup Standard
      BY <1>7, <2>2, <2>3 DEF ClassHeaders
    <3>2. p.type \notin Standard \ BuiltIn
      BY <1>1 DEF Named
    <3> QED BY <2>1, <3>1, <3>2
  <2>5. p.type \in Creates(t) /\ p.type \notin Abstract
    BY <1>2, <1>4, <1>8
  <2>6. p.type # Factory
    BY <1>2, <1>8, <2>5
  <2> QED BY <1>2, <1>6, <2>4, <2>5, <2>6
<1>10. ASSUME NEW g \in DOMAIN schema.tags PROVE schema.tags[g] \in Concrete
  <2>1. Factory \in AllTypes
    BY <1>1 DEF Named
  <2>2. ~IsMessage(Factory)
    BY <1>2 DEF IsMessage, Message
  <2>3. schema.tags[g] \in Creates(Factory) /\ Callees(Factory) = Creates(Factory)
    BY <2>2 DEF Creates, Callees
  <2> QED BY <1>4, <1>5, <1>6, <2>1, <2>3
<1> QED BY <1>8, <1>9, <1>10 DEF KnownTypes, Message, IsMessage

(* Once written, the output of a schema that keeps to the Readme compiles, *)
(* whatever the order in which protoc hands the files to Generate; and     *)
(* none compiles that uses types it does not have, or makes objects of     *)
(* abstract classes.                                                       *)
THEOREM OutputCompiles == GenSpec => []CompilesIfSupported
<1>1. GenInit => GenInv
    BY DEF GenInit, GenInv, Before
<1>2. GenInv /\ [GenNext]_genVars => GenInv'
    BY GenStep
<1>3. GenInv => CompilesIfSupported
  <2> SUFFICES ASSUME GenInv, "generated.cpp" \in DOMAIN written PROVE (Supported => Compiles) /\ (Compiles => KnownTypes)
    BY DEF CompilesIfSupported
  <2>1. schema \in Schemas /\ Written
    BY WrittenFacts DEF GenInv
  <2> QED BY <2>1, SupportedCompiles, CompilesKnown
<1> QED BY <1>1, <1>2, <1>3, PTL DEF GenSpec
===============================================================================
