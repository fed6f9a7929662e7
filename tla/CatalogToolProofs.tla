-------------------------- MODULE CatalogToolProofs --------------------------
(***************************************************************************)
(* Proofs about CatalogTool, for any number of processes, any workspaces,  *)
(* files and commands.  First the operators of Catalog, for any index: the *)
(* order of paths, the checks of the reader, the queries.  Then the order  *)
(* in which processes read and write, whatever the catalogs are: there,    *)
(* what discovery finds and what it is rendered to are never expanded.     *)
(***************************************************************************)
EXTENDS CatalogTool, FiniteSetTheorems, FunctionTheorems, TLAPS

(* Induction over the natural numbers, for a set in place of a predicate. *)

\* A set of natural numbers that is not empty has a least member.
LEMMA Least ==
    ASSUME NEW S \in SUBSET Nat, S # {}
    PROVE  \E n \in S : \A m \in S : n <= m
<1>1. PICK n \in S : \A m \in S : <<m, n>> \notin OpToRel(<, Nat)
  BY NatLessThanWellFounded, WFMin
<1>2. \A m \in S : m \in Nat /\ n \in Nat /\ ~(m < n)
  BY <1>1, Zenon DEF OpToRel
<1> QED
  BY <1>2

LEMMA Induction ==
    ASSUME NEW S, 0 \in S, \A n \in Nat : n \in S => n + 1 \in S
    PROVE  \A n \in Nat : n \in S
<1> SUFFICES ASSUME NEW k \in Nat, k \notin S PROVE FALSE
  OBVIOUS
<1>1. PICK n \in Nat \ S : \A m \in Nat \ S : n <= m
  BY Least
<1>2. n # 0 /\ n - 1 \in Nat /\ n - 1 \in S
  BY <1>1
<1> QED
  BY <1>1, <1>2

\* A set of places in a list that is not empty has a first and a last one.
LEMMA FirstAndLast ==
    ASSUME NEW n \in Nat, NEW S \in SUBSET (1..n), S # {}
    PROVE  Min(S) \in S /\ Max(S) \in S
<1>1. \E x \in S : \A y \in S : x =< y
  BY Least
<1>2. \E x \in S : \A y \in S : x >= y
  <2> DEFINE T == {k \in Nat : n - k \in S}
  <2>1. T \in SUBSET Nat /\ T # {}
    <3>1. PICK x \in S : TRUE
      OBVIOUS
    <3>2. n - x \in Nat /\ n - (n - x) = x
      BY <3>1
    <3> QED
      BY <3>1, <3>2
  <2> HIDE DEF T
  <2>2. PICK k \in T : \A m \in T : k <= m
    BY <2>1, Least
  <2> USE DEF T
  <2>3. k \in Nat /\ n - k \in S
    BY <2>2
  <2>4. ASSUME NEW y \in S PROVE n - k >= y
    <3>1. y \in Nat /\ n - y \in Nat /\ n - (n - y) = y
      OBVIOUS
    <3>2. n - y \in T
      BY <3>1
    <3> QED
      BY <2>2, <2>3, <3>1, <3>2
  <2> QED
    BY <2>3, <2>4
<1> QED
  BY <1>1, <1>2 DEF Min, Max

\* Numbers that rise from each place to the next rise from each place to every later
\* one.
LEMMA Rising ==
    ASSUME NEW n \in Nat, NEW f, \A i \in 1..n : f[i] \in Nat,
           \A i \in 1..n : i # 1 => f[i - 1] < f[i]
    PROVE  \A i, j \in 1..n : i < j => f[i] < f[j]
<1> DEFINE S == {j \in Nat : j \in 1..n => \A i \in 1..n : i < j => f[i] < f[j]}
<1>1. 0 \in S
  OBVIOUS
<1>2. ASSUME NEW j \in Nat, j \in S PROVE j + 1 \in S
  <2> SUFFICES ASSUME j + 1 \in 1..n, NEW i \in 1..n, i < j + 1 PROVE f[i] < f[j + 1]
    OBVIOUS
  <2>1. j \in 1..n /\ j + 1 # 1 /\ (j + 1) - 1 = j
    OBVIOUS
  <2>2. f[j] < f[j + 1] /\ f[i] \in Nat /\ f[j] \in Nat /\ f[j + 1] \in Nat
    BY <2>1
  <2>3. i = j \/ i < j
    OBVIOUS
  <2> QED
    BY <1>2, <2>1, <2>2, <2>3
<1> HIDE DEF S
<1>3. \A j \in Nat : j \in S
  BY <1>1, <1>2, Induction
<1> QED
  BY <1>3 DEF S

-----------------------------------------------------------------------------
(* The order of paths. *)

Below(S, p) == {q \in S : Rank[q] < Rank[p]}

LEMMA BelowRises ==
    ASSUME NEW S \in SUBSET Paths, IsFiniteSet(S), NEW p \in S, NEW q \in S,
           Rank[p] < Rank[q]
    PROVE  /\ Cardinality(Below(S, p)) \in Nat /\ Cardinality(Below(S, q)) \in Nat
           /\ Cardinality(Below(S, p)) < Cardinality(Below(S, q))
<1>1. Rank[p] \in Nat /\ Rank[q] \in Nat /\ \A r \in S : Rank[r] \in Nat
  BY RankAssumption
<1>2. Below(S, p) \in SUBSET Below(S, q) /\ Below(S, q) \in SUBSET S
  BY <1>1 DEF Below
<1>3. p \in Below(S, q) /\ p \notin Below(S, p)
  BY <1>1 DEF Below
<1>4. IsFiniteSet(Below(S, q)) /\ IsFiniteSet(Below(S, p))
  BY <1>2, FS_Subset
<1>5. /\ Cardinality(Below(S, p)) <= Cardinality(Below(S, q))
      /\ Cardinality(Below(S, p)) # Cardinality(Below(S, q))
  BY <1>2, <1>3, <1>4, FS_Subset
<1> QED
  BY <1>4, <1>5, FS_CardinalityType

\* The place of a member of a set is the number of members below it.
LEMMA BelowIsPlace ==
    ASSUME NEW S \in SUBSET Paths, IsFiniteSet(S)
    PROVE  /\ Cardinality(S) \in Nat
           /\ \A p \in S : Cardinality(Below(S, p)) \in 0..(Cardinality(S) - 1)
           /\ \A p, q \in S : Cardinality(Below(S, p)) = Cardinality(Below(S, q)) => p = q
           /\ \A i \in 0..(Cardinality(S) - 1) : \E p \in S : Cardinality(Below(S, p)) = i
<1> DEFINE N == Cardinality(S)
<1>1. N \in Nat
  BY FS_CardinalityType
<1>2. ASSUME NEW p \in S PROVE Cardinality(Below(S, p)) \in 0..(N - 1)
  <2>1. Below(S, p) \in SUBSET S /\ Below(S, p) # S
    BY RankAssumption DEF Below
  <2>2. /\ IsFiniteSet(Below(S, p)) /\ Cardinality(Below(S, p)) <= N
        /\ Cardinality(Below(S, p)) # N
    BY <2>1, FS_Subset
  <2> QED
    BY <1>1, <2>2, FS_CardinalityType
<1>3. ASSUME NEW p \in S, NEW q \in S, Cardinality(Below(S, p)) = Cardinality(Below(S, q))
      PROVE  p = q
  <2>1. Rank[p] \in Nat /\ Rank[q] \in Nat
    BY RankAssumption
  <2>2. ~(Rank[p] < Rank[q]) /\ ~(Rank[q] < Rank[p])
    BY <1>3, BelowRises
  <2> QED
    BY <2>1, <2>2, RankAssumption
<1>4. ASSUME NEW i \in 0..(N - 1) PROVE \E p \in S : Cardinality(Below(S, p)) = i
  <2> SUFFICES ASSUME \A p \in S : Cardinality(Below(S, p)) # i PROVE FALSE
    OBVIOUS
  <2> DEFINE T == (0..(N - 1)) \ {i}
             f == [p \in S |-> Cardinality(Below(S, p))]
  <2>1. IsFiniteSet(0..(N - 1)) /\ Cardinality(0..(N - 1)) = N
    BY <1>1, FS_Interval
  <2>2. IsFiniteSet(T) /\ Cardinality(T) = N - 1
    BY <1>1, <2>1, FS_RemoveElement
  <2>3. f \in [S -> T]
    BY <1>2
  <2> HIDE DEF T, f
  <2>4. \E p, q \in S : p # q /\ f[p] = f[q]
    BY <1>1, <2>2, <2>3, FS_PigeonHole
  <2> QED
    BY <1>3, <2>4 DEF f
<1> QED
  BY <1>1, <1>2, <1>3, <1>4

\* Sorted(S) has the members of S, in rising order.
LEMMA SortedRises ==
    ASSUME NEW S \in SUBSET Paths, IsFiniteSet(S)
    PROVE  /\ Cardinality(S) \in Nat
           /\ DOMAIN Sorted(S) = 1..Cardinality(S)
           /\ Sorted(S) \in Seq(S)
           /\ Len(Sorted(S)) = Cardinality(S)
           /\ Range(Sorted(S)) = S
           /\ \A i, j \in 1..Cardinality(S) : i < j => Rank[Sorted(S)[i]] < Rank[Sorted(S)[j]]
<1> DEFINE N == Cardinality(S)
<1>1. N \in Nat
  BY BelowIsPlace
<1>2. \A i \in 1..N : /\ Sorted(S)[i] \in S
                      /\ Cardinality(Below(S, Sorted(S)[i])) = i - 1
  <2> SUFFICES ASSUME NEW i \in 1..N
               PROVE  /\ Sorted(S)[i] \in S
                      /\ Cardinality(Below(S, Sorted(S)[i])) = i - 1
    OBVIOUS
  <2>1. i - 1 \in 0..(N - 1)
    BY <1>1
  <2>2. \E p \in S : Cardinality(Below(S, p)) = i - 1
    BY <2>1, BelowIsPlace
  <2>3. Sorted(S)[i] = CHOOSE p \in S : Cardinality(Below(S, p)) = i - 1
    BY DEF Sorted, Below
  <2> QED
    BY <2>2, <2>3
<1>3. DOMAIN Sorted(S) = 1..N
  BY DEF Sorted
<1>4. Sorted(S) \in Seq(S) /\ Len(Sorted(S)) = N
  <2>1. Sorted(S) \in [1..N -> S]
    BY <1>2, <1>3 DEF Sorted
  <2> QED
    BY <1>1, <2>1
<1>5. ASSUME NEW p \in S PROVE \E i \in 1..N : Sorted(S)[i] = p
  <2> DEFINE i == Cardinality(Below(S, p)) + 1
  <2>1. Cardinality(Below(S, p)) \in 0..(N - 1)
    BY BelowIsPlace
  <2>2. i \in 1..N /\ i - 1 = Cardinality(Below(S, p))
    BY <1>1, <2>1
  <2> HIDE DEF i
  <2>3. Sorted(S)[i] \in S /\ Cardinality(Below(S, Sorted(S)[i])) = Cardinality(Below(S, p))
    BY <1>2, <2>2
  <2>4. Sorted(S)[i] = p
    BY <2>3, BelowIsPlace
  <2> QED
    BY <2>2, <2>4
<1>6. Range(Sorted(S)) = S
  BY <1>2, <1>3, <1>5 DEF Range
<1>7. ASSUME NEW i \in 1..N, NEW j \in 1..N, i < j
      PROVE  Rank[Sorted(S)[i]] < Rank[Sorted(S)[j]]
  <2> DEFINE p == Sorted(S)[i]
             q == Sorted(S)[j]
  <2>1. /\ p \in S /\ q \in S
        /\ Cardinality(Below(S, p)) = i - 1 /\ Cardinality(Below(S, q)) = j - 1
    BY <1>2
  <2> HIDE DEF p, q
  <2>2. Rank[p] \in Nat /\ Rank[q] \in Nat /\ p # q
    BY <1>7, <2>1, RankAssumption
  <2>3. Rank[p] # Rank[q]
    BY <2>1, <2>2, RankAssumption
  <2>4. ~(Rank[q] < Rank[p])
    BY <1>7, <2>1, BelowRises
  <2> QED
    BY <2>2, <2>3, <2>4 DEF p, q
<1> QED
  BY <1>1, <1>3, <1>4, <1>6, <1>7

\* A list of paths is the sorted list of its members exactly when it rises.
LEMMA SortedIsRising ==
    ASSUME NEW edges \in Seq(Paths)
    PROVE  /\ IsFiniteSet(Range(edges))
           /\ edges = Sorted(Range(edges)) <=>
                 \A i, j \in 1..Len(edges) : i < j => Rank[edges[i]] < Rank[edges[j]]
<1> DEFINE N == Len(edges)
           S == Range(edges)
<1>1. N \in Nat /\ DOMAIN edges = 1..N /\ S \in SUBSET Paths /\ edges \in [1..N -> Paths]
  BY DEF Range
<1>2. IsFiniteSet(S)
  <2>1. edges \in Surjection(1..N, S)
    BY <1>1, Fun_RangeProperties
  <2>2. IsFiniteSet(1..N)
    BY <1>1, FS_Interval
  <2> QED
    BY <2>1, <2>2, FS_Surjection
<1>3. ASSUME edges = Sorted(S)
      PROVE  \A i, j \in 1..N : i < j => Rank[edges[i]] < Rank[edges[j]]
  BY <1>1, <1>2, <1>3, SortedRises
<1>4. ASSUME \A i, j \in 1..N : i < j => Rank[edges[i]] < Rank[edges[j]]
      PROVE  edges = Sorted(S)
  <2>1. \A i \in 1..N : Rank[edges[i]] \in Nat /\ edges[i] \in S
    BY <1>1, RankAssumption DEF Range
  <2>2. \A i, j \in 1..N : edges[i] = edges[j] => i = j
    BY <1>1, <1>4, <2>1
  <2>3. ASSUME NEW k \in 0..N
        PROVE  Cardinality({edges[j] : j \in 1..k}) = k
    <3> DEFINE T == {edges[j] : j \in 1..k}
               b == [j \in 1..k |-> edges[j]]
    <3>1. /\ \A j \in 1..k : j \in 1..N
          /\ k \in Nat
      BY <1>1
    <3>2. b \in Bijection(1..k, T)
      <4>1. b \in [1..k -> T]
        OBVIOUS
      <4>2. \A i, j \in 1..k : b[i] = b[j] => i = j
        BY <2>2, <3>1
      <4>3. \A t \in T : \E j \in 1..k : b[j] = t
        OBVIOUS
      <4> HIDE DEF b, T
      <4>4. b \in Surjection(1..k, T)
        BY <4>1, <4>3, Fun_IsSurj
      <4> QED
        BY <4>1, <4>2, <4>4, Fun_IsBij
    <3> QED
      BY <3>1, <3>2, FS_CountingElements, Fun_ExistsBij
  <2>4. Cardinality(S) = N
    <3>1. S = {edges[j] : j \in 1..N} /\ N \in 0..N
      BY <1>1 DEF Range
    <3> QED
      BY <2>3, <3>1
  <2>5. ASSUME NEW i \in 1..N PROVE Cardinality(Below(S, edges[i])) = i - 1
    <3>1. Below(S, edges[i]) = {edges[j] : j \in 1..(i - 1)}
      <4>1. ASSUME NEW j \in 1..N PROVE Rank[edges[j]] < Rank[edges[i]] <=> j < i
        BY <1>4, <2>1
      <4> QED
        BY <1>1, <4>1 DEF Below, Range
    <3>2. i - 1 \in 0..N
      BY <1>1
    <3> QED
      BY <2>3, <3>1, <3>2
  <2>6. ASSUME NEW i \in 1..N PROVE edges[i] = Sorted(S)[i]
    <3>1. Sorted(S)[i] = CHOOSE p \in S : Cardinality(Below(S, p)) = i - 1
      BY <2>4 DEF Sorted, Below
    <3>2. /\ edges[i] \in S /\ Cardinality(Below(S, edges[i])) = i - 1
          /\ \A p \in S : Cardinality(Below(S, p)) = i - 1 => p = edges[i]
      BY <1>1, <1>2, <2>1, <2>5, BelowIsPlace
    <3> QED
      BY <3>1, <3>2
  <2>7. DOMAIN Sorted(S) = 1..N
    BY <1>1, <1>2, <2>4, SortedRises
  <2>8. Sorted(S) \in Seq(S) /\ Len(Sorted(S)) = N
    BY <1>1, <1>2, <2>4, SortedRises
  <2> QED
    BY <1>1, <2>6, <2>7, <2>8
<1> QED
  BY <1>2, <1>3, <1>4
-----------------------------------------------------------------------------
(* Checks that are made one after another. *)

\* Nothing is returned exactly when no check fails.
LEMMA FirstIsOk ==
    ASSUME NEW n \in Nat, NEW errors, DOMAIN errors = 1..n
    PROVE  First(errors) = "Ok" <=> \A i \in 1..n : errors[i] = "Ok"
<1> DEFINE failed == {i \in DOMAIN errors : errors[i] # "Ok"}
<1>1. CASE failed = {}
  BY <1>1 DEF First
<1>2. CASE failed # {}
  <2>1. Min(failed) \in failed
    <3>1. failed \in SUBSET (1..n)
      OBVIOUS
    <3> HIDE DEF failed
    <3> QED
      BY <1>2, <3>1, FirstAndLast
  <2>2. First(errors) = errors[Min(failed)]
    BY <1>2 DEF First
  <2> QED
    BY <2>1, <2>2
<1> QED
  BY <1>1, <1>2

LEMMA FirstOfTwo ==
    ASSUME NEW a, NEW b
    PROVE  First(<<a, b>>) = "Ok" <=> a = "Ok" /\ b = "Ok"
<1>1. /\ DOMAIN <<a, b>> = 1..2 /\ <<a, b>>[1] = a /\ <<a, b>>[2] = b
      /\ 1 \in 1..2 /\ 2 \in 1..2 /\ \A i \in 1..2 : i = 1 \/ i = 2
  OBVIOUS
<1>2. First(<<a, b>>) = "Ok" <=> \A i \in 1..2 : <<a, b>>[i] = "Ok"
  BY <1>1, FirstIsOk
<1> QED
  BY <1>1, <1>2

LEMMA FirstOfThree ==
    ASSUME NEW a, NEW b, NEW c
    PROVE  First(<<a, b, c>>) = "Ok" <=> a = "Ok" /\ b = "Ok" /\ c = "Ok"
<1>1. /\ DOMAIN <<a, b, c>> = 1..3
      /\ <<a, b, c>>[1] = a /\ <<a, b, c>>[2] = b /\ <<a, b, c>>[3] = c
      /\ 1 \in 1..3 /\ 2 \in 1..3 /\ 3 \in 1..3 /\ \A i \in 1..3 : i = 1 \/ i = 2 \/ i = 3
  OBVIOUS
<1>2. First(<<a, b, c>>) = "Ok" <=> \A i \in 1..3 : <<a, b, c>>[i] = "Ok"
  BY <1>1, FirstIsOk
<1> QED
  BY <1>1, <1>2

\* Two passes over a list of n find nothing exactly when neither does.
LEMMA FirstOfPasses ==
    ASSUME NEW n \in Nat, NEW E, NEW s \in Seq(E), NEW t \in Seq(E),
           Len(s) = n, Len(t) = n
    PROVE  First(s \o t) = "Ok" <=> \A i \in 1..n : s[i] = "Ok" /\ t[i] = "Ok"
<1> DEFINE passes == s \o t
<1>1. \A i \in 1..n : i \in 1..(n + n) /\ n + i \in 1..(n + n)
  OBVIOUS
<1>2. /\ DOMAIN passes = 1..(n + n) /\ n + n \in Nat
      /\ \A i \in 1..n : passes[i] = s[i]
      /\ \A i \in 1..n : passes[n + i] = t[i]
  <2>1. passes \in Seq(E) /\ Len(passes) = n + n
    OBVIOUS
  <2>2. ASSUME NEW i \in 1..n PROVE passes[i] = s[i]
    OBVIOUS
  <2>3. ASSUME NEW i \in 1..n PROVE passes[n + i] = t[i]
    OBVIOUS
  <2> HIDE DEF passes
  <2> QED
    BY <2>1, <2>2, <2>3
<1> HIDE DEF passes
<1>3. First(passes) = "Ok" <=> \A i \in 1..(n + n) : passes[i] = "Ok"
  BY <1>2, FirstIsOk
<1>4. ASSUME NEW i \in 1..(n + n) PROVE i \in 1..n \/ \E j \in 1..n : i = n + j
  <2>1. CASE i <= n
    BY <2>1
  <2>2. CASE i > n
    <3>1. i - n \in 1..n /\ i = n + (i - n)
      BY <2>2
    <3> QED
      BY <3>1
  <2> QED
    BY <2>1, <2>2
<1>5. First(passes) = "Ok" <=> \A i \in 1..n : s[i] = "Ok" /\ t[i] = "Ok"
  BY <1>1, <1>2, <1>3, <1>4
<1> QED
  BY <1>5 DEF passes
-----------------------------------------------------------------------------
(* The reader. *)

\* A typed index: what a well-formed document is parsed to.
IsIndex(index) ==
    /\ index.artifacts \in Seq(Range(index.artifacts))
    /\ \A artifact \in Range(index.artifacts) :
          /\ artifact.kind \in Kinds
          /\ artifact.path \in Paths
          /\ artifact.cargoPackage # None
          /\ \A group \in Groups : artifact.dependencies[group] \in Seq(Paths)

LEMMA ParsedIsIndex ==
    ASSUME NEW document, WellFormed(document)
    PROVE  /\ IsIndex(Parsed(document))
           /\ \A artifact \in Range(Parsed(document).artifacts) :
                 DOMAIN artifact = RequiredFields \cup OptionalFields
<1> DEFINE n == Len(document.artifacts)
           A(i) == [field \in RequiredFields \cup OptionalFields |->
                       IF field \in DOMAIN document.artifacts[i]
                       THEN document.artifacts[i][field] ELSE None]
<1>1. /\ n \in Nat /\ DOMAIN document.artifacts = 1..n
      /\ \A i \in 1..n : document.artifacts[i] \in Range(document.artifacts)
  BY DEF WellFormed, Range
<1>2. Parsed(document).artifacts = [i \in 1..n |-> A(i)]
  BY <1>1 DEF Parsed, WellFormed
<1>3. ASSUME NEW i \in 1..n
      PROVE  /\ DOMAIN A(i) = RequiredFields \cup OptionalFields
             /\ A(i).kind \in Kinds /\ A(i).path \in Paths /\ A(i).cargoPackage # None
             /\ \A group \in Groups : A(i).dependencies[group] \in Seq(Paths)
  <2> DEFINE artifact == document.artifacts[i]
  <2>1. /\ RequiredFields \subseteq DOMAIN artifact
        /\ \A field \in RequiredFields : artifact[field] # None
        /\ artifact.kind \in Kinds
        /\ artifact.path \in Paths
        /\ \A group \in Groups : artifact.dependencies[group] \in Seq(Paths)
    BY <1>1 DEF WellFormed
  <2>2. \A field \in RequiredFields : A(i)[field] = artifact[field]
    BY <2>1
  <2>3. /\ A(i).kind = artifact.kind /\ A(i).path = artifact.path
        /\ A(i).cargoPackage = artifact.cargoPackage
        /\ A(i).dependencies = artifact.dependencies
        /\ artifact.cargoPackage # None
    BY <2>1, <2>2 DEF RequiredFields
  <2> HIDE DEF A
  <2>4. DOMAIN A(i) = RequiredFields \cup OptionalFields
    BY DEF A
  <2> QED
    BY <2>1, <2>3, <2>4
<1> HIDE DEF A
<1>4. Range(Parsed(document).artifacts) = {A(i) : i \in 1..n}
  BY <1>2 DEF Range
<1>5. Parsed(document).artifacts \in Seq(Range(Parsed(document).artifacts))
  BY <1>1, <1>2, <1>4
<1> QED
  BY <1>3, <1>4, <1>5 DEF IsIndex

\* A neighbour that is in order comes before.
LEMMA OrderIsOk ==
    ASSUME NEW p \in Paths, NEW q \in Paths
    PROVE  OrderError(p, q) = "Ok" <=> Rank[p] < Rank[q]
BY RankAssumption DEF OrderError

\* validate_dependency_group takes exactly the sorted lists of paths it is given.
LEMMA GroupIsOk ==
    ASSUME NEW edges \in Seq(Paths), NEW paths
    PROVE  GroupError(edges, paths) = "Ok" <=>
              Range(edges) \subseteq paths /\ edges = Sorted(Range(edges))
<1> DEFINE n == Len(edges)
           Step(i) == First(<<IF i = 1 THEN "Ok" ELSE OrderError(edges[i - 1], edges[i]),
                              IF edges[i] \in paths THEN "Ok" ELSE "Dangling">>)
<1>1. n \in Nat /\ DOMAIN edges = 1..n /\ \A i \in 1..n : edges[i] \in Paths
  OBVIOUS
<1>2. GroupError(edges, paths) = First([i \in 1..n |-> Step(i)])
  BY <1>1 DEF GroupError
<1>3. ASSUME NEW i \in 1..n
      PROVE  Step(i) = "Ok" <=> /\ i # 1 => Rank[edges[i - 1]] < Rank[edges[i]]
                                /\ edges[i] \in paths
  <2>1. Step(i) = "Ok" <=>
           /\ (IF i = 1 THEN "Ok" ELSE OrderError(edges[i - 1], edges[i])) = "Ok"
           /\ (IF edges[i] \in paths THEN "Ok" ELSE "Dangling") = "Ok"
    BY FirstOfTwo
  <2>2. i # 1 => edges[i - 1] \in Paths /\ edges[i] \in Paths
    BY <1>1
  <2> HIDE DEF Step
  <2> QED
    BY <2>1, <2>2, OrderIsOk
<1> HIDE DEF Step
<1>4. GroupError(edges, paths) = "Ok" <=> \A i \in 1..n : Step(i) = "Ok"
  <2>1. DOMAIN [i \in 1..n |-> Step(i)] = 1..n
    OBVIOUS
  <2>2. First([i \in 1..n |-> Step(i)]) = "Ok"
          <=> \A i \in 1..n : [j \in 1..n |-> Step(j)][i] = "Ok"
    BY <1>1, <2>1, FirstIsOk
  <2> QED
    BY <1>2, <2>2
<1>5. (\A i \in 1..n : i # 1 => Rank[edges[i - 1]] < Rank[edges[i]])
        <=> \A i, j \in 1..n : i < j => Rank[edges[i]] < Rank[edges[j]]
  <2> DEFINE f == [i \in 1..n |-> Rank[edges[i]]]
  <2>1. \A i \in 1..n : f[i] \in Nat
    BY <1>1, RankAssumption
  <2>2. \A i \in 1..n : i # 1 => i - 1 \in 1..n /\ i - 1 < i
    BY <1>1
  <2>3. ASSUME \A i \in 1..n : i # 1 => Rank[edges[i - 1]] < Rank[edges[i]]
        PROVE  \A i, j \in 1..n : i < j => f[i] < f[j]
    <3>1. \A i \in 1..n : i # 1 => f[i - 1] < f[i]
      BY <2>2, <2>3
    <3> HIDE DEF f
    <3> QED
      BY <1>1, <2>1, <3>1, Rising
  <2> QED
    BY <2>2, <2>3
<1>6. Range(edges) \subseteq paths <=> \A i \in 1..n : edges[i] \in paths
  BY <1>1 DEF Range
<1> QED
  BY <1>3, <1>4, <1>5, <1>6, SortedIsRising

\* A path of three segments, or of two, is the one its kind asks for.
LEMMA ThreeSegments ==
    ASSUME NEW path \in Paths, NEW x, NEW y
    PROVE  path = <<x, y, path[Len(path)]>> <=>
              Len(path) = 3 /\ path[1] = x /\ path[2] = y
<1>1. path \in Seq(Range(path))
  BY PathsAssumption
<1>2. ASSUME path = <<x, y, path[Len(path)]>>
      PROVE  Len(path) = 3 /\ path[1] = x /\ path[2] = y
  <2> DEFINE z == path[Len(path)]
  <2>1. path = <<x, y, z>>
    BY <1>2
  <2> HIDE DEF z
  <2>2. Len(<<x, y, z>>) = 3 /\ <<x, y, z>>[1] = x /\ <<x, y, z>>[2] = y
    OBVIOUS
  <2> QED
    BY <2>1, <2>2
<1>3. ASSUME Len(path) = 3, path[1] = x, path[2] = y
      PROVE  path = <<x, y, path[Len(path)]>>
  BY <1>1, <1>3
<1> QED
  BY <1>2, <1>3

LEMMA TwoSegments ==
    ASSUME NEW path \in Paths, NEW x
    PROVE  path = <<x, path[Len(path)]>> <=> Len(path) = 2 /\ path[1] = x
<1>1. path \in Seq(Range(path))
  BY PathsAssumption
<1>2. ASSUME path = <<x, path[Len(path)]>>
      PROVE  Len(path) = 2 /\ path[1] = x
  <2> DEFINE z == path[Len(path)]
  <2>1. path = <<x, z>>
    BY <1>2
  <2> HIDE DEF z
  <2>2. Len(<<x, z>>) = 2 /\ <<x, z>>[1] = x
    OBVIOUS
  <2> QED
    BY <2>1, <2>2
<1>3. ASSUME Len(path) = 2, path[1] = x
      PROVE  path = <<x, path[Len(path)]>>
  BY <1>1, <1>3
<1> QED
  BY <1>2, <1>3

\* The shape that a schema version has for a root.
LEMMA ShapeIs ==
    ASSUME NEW version \in {1, 2}, NEW path, NEW shape \in SchemaTopology(version),
           shape.root = path[1]
    PROVE  ShapeOf(version, path) = shape
<1>1. \A other \in SchemaTopology(version) : other.root = path[1] => other = shape
  BY DEF SchemaTopology
<1> QED
  BY <1>1 DEF ShapeOf

\* validate_artifact takes exactly the canonical artifacts.
LEMMA ArtifactIsOk ==
    ASSUME NEW version \in {1, 2}, NEW artifact, artifact.kind \in Kinds,
           artifact.path \in Paths
    PROVE  ArtifactError(version, artifact) = "Ok" <=> CanonicalArtifact(version, artifact)
<1> DEFINE path == artifact.path
           Proper == \A k \in DOMAIN path :
                        path[k] \notin {"", ".", ".."} \cup Backslashed
           Rest == /\ artifact.cargoPackage # "" /\ artifact.version # ""
                   /\ ~Blank(artifact.description)
                   /\ artifact.readme # None => artifact.readme = Append(path, "README.md")
           Shaped(shape) == /\ artifact.kind = shape.kind
                            /\ artifact.category = IF shape.depth = 3 THEN path[2] ELSE None
           Fits(shape) == shape.root = path[1] /\ shape.depth = Len(path)
<1>1. ArtifactError(version, artifact) = "Ok" <=>
         /\ Proper /\ Rest
         /\ \E shape \in SchemaTopology(version) : Fits(shape)
         /\ Shaped(ShapeOf(version, path))
  <2>1. CatalogPathError(version, path) = "Ok" <=>
           Proper /\ \E shape \in SchemaTopology(version) : Fits(shape)
    BY DEF CatalogPathError
  <2> QED
    BY <2>1 DEF ArtifactError, Readme
<1>2. ArtifactError(version, artifact) = "Ok" <=>
         Proper /\ Rest /\ \E shape \in SchemaTopology(version) : Fits(shape) /\ Shaped(shape)
  <2>1. \A shape \in SchemaTopology(version) : Fits(shape) => ShapeOf(version, path) = shape
    BY ShapeIs
  <2> HIDE DEF Proper, Rest, Shaped
  <2> QED
    BY <1>1, <2>1
<1>3. (\E shape \in SchemaTopology(version) : Fits(shape) /\ Shaped(shape))
        <=> /\ version = 1 => artifact.kind # "instance"
            /\ path = PathOf(artifact, path[Len(path)])
            /\ artifact.kind \in {"host", "example"} => artifact.category = None
  <2> DEFINE last == path[Len(path)]
  <2>1. \A x, y : path = <<x, y, last>> <=> Len(path) = 3 /\ path[1] = x /\ path[2] = y
    BY ThreeSegments
  <2>2. \A x : path = <<x, last>> <=> Len(path) = 2 /\ path[1] = x
    BY TwoSegments
  <2> DEFINE Is(root, depth, kind) ==
                /\ path[1] = root /\ Len(path) = depth /\ artifact.kind = kind
                /\ artifact.category = IF depth = 3 THEN path[2] ELSE None
  <2>3. (\E shape \in SchemaTopology(version) : Fits(shape) /\ Shaped(shape))
          <=> \/ Is("packages", 3, "package")
              \/ Is("hosts", 2, "host")
              \/ Is("compositions", 3, "composition")
              \/ Is("examples", 2, "example")
              \/ version = 2 /\ Is("instances", 3, "instance")
    <3> DEFINE Shape(root, depth, kind) == [root |-> root, depth |-> depth, kind |-> kind]
    <3>1. \A shape : shape \in SchemaTopology(version)
             <=> \/ shape = Shape("packages", 3, "package")
                 \/ shape = Shape("hosts", 2, "host")
                 \/ shape = Shape("compositions", 3, "composition")
                 \/ shape = Shape("examples", 2, "example")
                 \/ version = 2 /\ shape = Shape("instances", 3, "instance")
      BY DEF SchemaTopology
    <3>2. ASSUME NEW root, NEW depth \in {2, 3}, NEW kind
          PROVE  Fits(Shape(root, depth, kind)) /\ Shaped(Shape(root, depth, kind))
                   <=> Is(root, depth, kind)
      OBVIOUS
    <3> HIDE DEF Shape, Fits, Shaped, Is
    <3> QED
      BY <3>1, <3>2
  <2>4. CASE artifact.kind = "package"
    <3>1. path = PathOf(artifact, last) <=> Len(path) = 3 /\ path[1] = "packages" /\ path[2] = artifact.category
      <4>1. PathOf(artifact, last) = <<"packages", artifact.category, last>>
        BY <2>4 DEF PathOf
      <4> QED
        BY <2>1, <4>1
    <3> HIDE DEF Fits, Shaped
    <3> QED
      BY <2>3, <2>4, <3>1
  <2>5. CASE artifact.kind = "host"
    <3>1. path = PathOf(artifact, last) <=> Len(path) = 2 /\ path[1] = "hosts"
      BY <2>2, <2>5 DEF PathOf
    <3> HIDE DEF Fits, Shaped
    <3> QED
      BY <2>3, <2>5, <3>1
  <2>6. CASE artifact.kind = "composition"
    <3>1. path = PathOf(artifact, last) <=> Len(path) = 3 /\ path[1] = "compositions" /\ path[2] = artifact.category
      <4>1. PathOf(artifact, last) = <<"compositions", artifact.category, last>>
        BY <2>6 DEF PathOf
      <4> QED
        BY <2>1, <4>1
    <3> HIDE DEF Fits, Shaped
    <3> QED
      BY <2>3, <2>6, <3>1
  <2>7. CASE artifact.kind = "instance"
    <3>1. path = PathOf(artifact, last) <=> Len(path) = 3 /\ path[1] = "instances" /\ path[2] = artifact.category
      <4>1. PathOf(artifact, last) = <<"instances", artifact.category, last>>
        BY <2>7 DEF PathOf
      <4> QED
        BY <2>1, <4>1
    <3> HIDE DEF Fits, Shaped
    <3> QED
      BY <2>3, <2>7, <3>1
  <2>8. CASE artifact.kind = "example"
    <3>1. path = PathOf(artifact, last) <=> Len(path) = 2 /\ path[1] = "examples"
      BY <2>2, <2>8 DEF PathOf
    <3> HIDE DEF Fits, Shaped
    <3> QED
      BY <2>3, <2>8, <3>1
  <2> QED
    BY <2>4, <2>5, <2>6, <2>7, <2>8 DEF Kinds
<1> QED
  BY <1>2, <1>3 DEF CanonicalArtifact

LEMMA PackageIsOk ==
    ASSUME NEW artifacts, NEW n \in Nat
    PROVE  (\A i \in 1..n : PackageError(artifacts, i) = "Ok") <=>
              \A i, j \in 1..n : i < j => artifacts[i].cargoPackage # artifacts[j].cargoPackage
<1>1. \A i \in 1..n : PackageError(artifacts, i) = "Ok" <=>
         \A j \in 1..(i - 1) : artifacts[j].cargoPackage # artifacts[i].cargoPackage
  BY DEF PackageError
<1>2. \A i, j \in 1..n : i < j <=> i \in 1..(j - 1)
  OBVIOUS
<1> QED
  BY <1>1, <1>2

\* validate_catalog_index takes exactly the canonical indexes.
LEMMA ValidIsCanonical ==
    ASSUME NEW index, IsIndex(index)
    PROVE  ValidationError(index) = "Ok" <=> Canonical(index)
<1> DEFINE version == index.schemaVersion
           artifacts == index.artifacts
           n == Len(artifacts)
           paths == {artifacts[i].path : i \in DOMAIN artifacts}
           Edges(i, group) == artifacts[i].dependencies[group]
           Dependencies(i) == First(<<GroupError(artifacts[i].dependencies.normal, paths),
                                      GroupError(artifacts[i].dependencies.development, paths),
                                      GroupError(artifacts[i].dependencies.build, paths)>>)
           Sound(edges) == Range(edges) \subseteq paths /\ edges = Sorted(Range(edges))
<1>1. /\ n \in Nat /\ DOMAIN artifacts = 1..n
      /\ \A i \in 1..n : /\ artifacts[i].kind \in Kinds
                         /\ artifacts[i].path \in Paths
                         /\ \A group \in Groups : Edges(i, group) \in Seq(Paths)
  <2>1. \A i \in DOMAIN artifacts : artifacts[i] \in Range(artifacts)
    BY DEF Range
  <2> QED
    BY <2>1 DEF IsIndex
<1>2. ASSUME version \notin {1, 2}
      PROVE  ValidationError(index) # "Ok" /\ ~Canonical(index)
  BY <1>2 DEF ValidationError, Canonical
<1>3. ASSUME version \in {1, 2}
      PROVE  ValidationError(index) = "Ok" <=> Canonical(index)
  <2> DEFINE Entry(i) == EntryError(version, artifacts, i)
             s == [i \in 1..n |-> Entry(i)]
             t == [i \in 1..n |-> Dependencies(i)]
  <2>1. ValidationError(index) = First(s \o t)
    BY <1>1, <1>3 DEF ValidationError
  <2>2. ValidationError(index) = "Ok" <=>
           /\ \A i \in 1..n : Entry(i) = "Ok"
           /\ \A i \in 1..n : Dependencies(i) = "Ok"
    <3> DEFINE E == {Entry(i) : i \in 1..n} \cup {Dependencies(i) : i \in 1..n}
    <3>1. s \in [1..n -> E] /\ t \in [1..n -> E]
      OBVIOUS
    <3>2. n \in Nat
      BY <1>1
    <3>3. First(s \o t) = "Ok" <=> \A i \in 1..n : s[i] = "Ok" /\ t[i] = "Ok"
      <4> HIDE DEF s, t, n, E
      <4>1. s \in Seq(E) /\ Len(s) = n /\ t \in Seq(E) /\ Len(t) = n
        BY <3>1, <3>2
      <4> QED
        BY <3>2, <4>1, FirstOfPasses
    <3>4. \A i \in 1..n : s[i] = Entry(i) /\ t[i] = Dependencies(i)
      OBVIOUS
    <3> HIDE DEF s, t, Entry, Dependencies
    <3> QED
      BY <2>1, <3>3, <3>4
  <2>3. ASSUME NEW i \in 1..n
        PROVE  Entry(i) = "Ok" <=>
                  /\ i # 1 => Rank[artifacts[i - 1].path] < Rank[artifacts[i].path]
                  /\ CanonicalArtifact(version, artifacts[i])
                  /\ PackageError(artifacts, i) = "Ok"
    <3>1. Entry(i) = "Ok" <=>
             /\ (IF i = 1 THEN "Ok"
                 ELSE OrderError(artifacts[i - 1].path, artifacts[i].path)) = "Ok"
             /\ ArtifactError(version, artifacts[i]) = "Ok"
             /\ PackageError(artifacts, i) = "Ok"
      BY FirstOfThree DEF EntryError
    <3>2. i # 1 => i - 1 \in 1..n
      BY <1>1
    <3>3. i # 1 => (OrderError(artifacts[i - 1].path, artifacts[i].path) = "Ok"
                      <=> Rank[artifacts[i - 1].path] < Rank[artifacts[i].path])
      BY <1>1, <3>2, OrderIsOk
    <3>4. ArtifactError(version, artifacts[i]) = "Ok" <=>
             CanonicalArtifact(version, artifacts[i])
      BY <1>1, <1>3, ArtifactIsOk
    <3> HIDE DEF Entry
    <3> QED
      BY <3>1, <3>3, <3>4
  <2>4. ASSUME NEW i \in 1..n
        PROVE  Dependencies(i) = "Ok" <=> \A group \in Groups : Sound(Edges(i, group))
    <3>1. \A group \in Groups : GroupError(Edges(i, group), paths) = "Ok"
                                  <=> Sound(Edges(i, group))
      BY <1>1, GroupIsOk
    <3>2. Dependencies(i) = "Ok" <=>
             /\ GroupError(Edges(i, "normal"), paths) = "Ok"
             /\ GroupError(Edges(i, "development"), paths) = "Ok"
             /\ GroupError(Edges(i, "build"), paths) = "Ok"
      BY FirstOfThree
    <3> HIDE DEF Dependencies, Edges, Sound
    <3> QED
      BY <3>1, <3>2 DEF Groups
  <2>5. (\A i \in 1..n : i # 1 => Rank[artifacts[i - 1].path] < Rank[artifacts[i].path])
          <=> \A i, j \in 1..n : i < j => Rank[artifacts[i].path] < Rank[artifacts[j].path]
    <3> DEFINE f == [i \in 1..n |-> Rank[artifacts[i].path]]
    <3>1. \A i \in 1..n : f[i] \in Nat
      BY <1>1, RankAssumption
    <3>2. \A i \in 1..n : i # 1 => i - 1 \in 1..n /\ i - 1 < i
      BY <1>1
    <3>3. ASSUME \A i \in 1..n : i # 1 => Rank[artifacts[i - 1].path] < Rank[artifacts[i].path]
          PROVE  \A i, j \in 1..n : i < j => f[i] < f[j]
      <4>1. \A i \in 1..n : i # 1 => f[i - 1] < f[i]
        BY <3>2, <3>3
      <4> HIDE DEF f
      <4> QED
        BY <1>1, <3>1, <4>1, Rising
    <3> QED
      BY <3>2, <3>3
  <2>6. (\A i \in 1..n : PackageError(artifacts, i) = "Ok") <=>
           \A i, j \in 1..n : i < j => artifacts[i].cargoPackage # artifacts[j].cargoPackage
    BY <1>1, PackageIsOk
  <2>7. Canonical(index) <=>
           /\ \A i, j \in 1..n : i < j =>
                 /\ Rank[artifacts[i].path] < Rank[artifacts[j].path]
                 /\ artifacts[i].cargoPackage # artifacts[j].cargoPackage
           /\ \A i \in 1..n : /\ CanonicalArtifact(version, artifacts[i])
                              /\ \A group \in Groups : Sound(Edges(i, group))
    BY <1>1, <1>3 DEF Canonical
  <2> HIDE DEF Entry, Dependencies, Sound, Edges, n, artifacts, version
  <2> QED
    BY <2>2, <2>3, <2>4, <2>5, <2>6, <2>7
<1> QED
  BY <1>2, <1>3

\* What the reader does with a file that holds something.
LEMMA ReaderIsStrict ==
    ASSUME NEW content, content \notin {Missing, Empty, Torn}
    PROVE  ReadError(content) = "Ok" <=> WellFormed(content) /\ Canonical(Parsed(content))
<1>1. CASE WellFormed(content)
  <2>1. IsIndex(Parsed(content))
    BY <1>1, ParsedIsIndex
  <2>2. ReadError(content) = ValidationError(Parsed(content))
    BY <1>1 DEF ReadError
  <2> QED
    BY <1>1, <2>1, <2>2, ValidIsCanonical
<1>2. CASE ~WellFormed(content)
  BY <1>2 DEF ReadError
<1> QED
  BY <1>1, <1>2
-----------------------------------------------------------------------------
(* The queries. *)

\* What is found has the key that was asked for, and what has it is found.
LEMMA LookupFinds ==
    ASSUME NEW index, IsIndex(index), NEW field, NEW key
    PROVE  /\ Len(index.artifacts) \in Nat
           /\ DOMAIN index.artifacts = 1..Len(index.artifacts)
           /\ \A i \in 1..Len(index.artifacts) :
                 index.artifacts[i][field] = key => Found(index, field, key)
           /\ Found(index, field, key) =>
                 \E i \in 1..Len(index.artifacts) :
                    /\ Lookup(index, field, key) = index.artifacts[i]
                    /\ index.artifacts[i][field] = key
<1> DEFINE n == Len(index.artifacts)
           positions == {i \in DOMAIN index.artifacts : index.artifacts[i][field] = key}
<1>1. n \in Nat /\ DOMAIN index.artifacts = 1..n
  BY DEF IsIndex
<1>2. positions \in SUBSET (1..n)
  BY <1>1
<1>3. positions # {} => Max(positions) \in positions
  <2> HIDE DEF positions, n
  <2> QED
    BY <1>1, <1>2, FirstAndLast
<1>4. Position(index, field, key) = IF positions = {} THEN 0 ELSE Max(positions)
  BY DEF Position
<1>5. Found(index, field, key) <=> positions # {}
  <2> HIDE DEF positions, n
  <2>1. positions # {} => Max(positions) # 0
    <3>1. positions # {} => Max(positions) \in 1..n
      BY <1>2, <1>3, Zenon
    <3>2. n \in Nat
      BY <1>1
    <3> QED
      BY <3>1, <3>2
  <2> QED
    BY <1>4, <2>1 DEF Found
<1>6. ASSUME positions # {}
      PROVE  \E i \in 1..n : /\ Lookup(index, field, key) = index.artifacts[i]
                             /\ index.artifacts[i][field] = key
  <2>1. Max(positions) \in positions /\ Position(index, field, key) = Max(positions)
    BY <1>3, <1>4, <1>6
  <2> QED
    BY <1>1, <2>1 DEF Lookup
<1> QED
  BY <1>1, <1>5, <1>6

\* The dependents that are shown are the paths of the artifacts that depend.
LEMMA DependentsShown ==
    ASSUME NEW index, IsIndex(index), NEW path, NEW group \in Groups
    PROVE  LET shown == ShownDependents(DirectDependents(index, path))[group]
               paths == {index.artifacts[i].path : i \in DOMAIN index.artifacts}
           IN  \A q : (\E k \in DOMAIN shown : shown[k] = q) <=>
                         q \in paths /\ DependsOn(Lookup(index, "path", q), group, path)
<1> DEFINE artifacts == index.artifacts
           n == Len(artifacts)
           paths == {artifacts[i].path : i \in DOMAIN artifacts}
           dependents == DirectDependents(index, path)
           T == {d.path : d \in {d \in dependents : d.group = group}}
           f == [i \in 1..n |-> artifacts[i].path]
<1>1. n \in Nat /\ DOMAIN artifacts = 1..n /\ \A i \in 1..n : artifacts[i].path \in Paths
  <2>1. n \in Nat /\ DOMAIN artifacts = 1..n
    BY DEF IsIndex
  <2>2. \A i \in 1..n : artifacts[i] \in Range(artifacts)
    BY <2>1 DEF Range
  <2> QED
    BY <2>1, <2>2 DEF IsIndex
<1>2. IsFiniteSet(paths)
  <2>1. f \in [1..n -> paths] /\ \A q \in paths : \E i \in 1..n : f[i] = q
    BY <1>1
  <2>2. IsFiniteSet(1..n)
    BY <1>1, FS_Interval
  <2> HIDE DEF f, paths, n
  <2>3. f \in Surjection(1..n, paths)
    BY <2>1, Fun_IsSurj
  <2> QED
    BY <2>2, <2>3, FS_Surjection
<1>3. dependents = {d \in [path : paths, group : Groups] :
                       DependsOn(Lookup(index, "path", d.path), d.group, path)}
  BY DEF DirectDependents
<1>4. \A q : q \in T <=> q \in paths /\ DependsOn(Lookup(index, "path", q), group, path)
  <2> HIDE DEF paths, dependents
  <2>1. ASSUME NEW q, q \in T
        PROVE  q \in paths /\ DependsOn(Lookup(index, "path", q), group, path)
    BY <1>3, <2>1
  <2>2. ASSUME NEW q \in paths, DependsOn(Lookup(index, "path", q), group, path)
        PROVE  q \in T
    <3> DEFINE d == [path |-> q, group |-> group]
    <3>1. d \in [path : paths, group : Groups] /\ d.path = q /\ d.group = group
      OBVIOUS
    <3> HIDE DEF d
    <3>2. d \in dependents
      BY <1>3, <2>2, <3>1
    <3> QED
      BY <3>1, <3>2
  <2> QED
    BY <2>1, <2>2
<1>5. T \in SUBSET Paths /\ IsFiniteSet(T)
  <2>1. T \in SUBSET paths /\ paths \in SUBSET Paths
    BY <1>1, <1>4
  <2> HIDE DEF T, paths
  <2> QED
    BY <1>2, <2>1, FS_Subset
<1>6. ShownDependents(dependents)[group] = Sorted(T)
  BY DEF ShownDependents
<1>7. Range(Sorted(T)) = T
  BY <1>5, SortedRises
<1> HIDE DEF T, paths, dependents
<1>8. \A q : (\E k \in DOMAIN Sorted(T) : Sorted(T)[k] = q) <=> q \in T
  BY <1>7 DEF Range
<1> QED
  BY <1>4, <1>6, <1>8 DEF paths, dependents

\* The files that answer a query.
LEMMA ReadIsIndex ==
    ASSUME NEW content, ReadError(content) = "Ok"
    PROVE  /\ IsIndex(Parsed(content)) /\ Canonical(Parsed(content))
           /\ \A artifact \in Range(Parsed(content).artifacts) :
                 DOMAIN artifact = RequiredFields \cup OptionalFields
<1>1. content \notin {Missing, Empty, Torn}
  BY DEF ReadError
<1> QED
  BY <1>1, ReaderIsStrict, ParsedIsIndex

\* deps and dependents, of one index.
LEMMA EdgesAgree ==
    ASSUME NEW index, IsIndex(index), NEW here, NEW there, NEW group \in Groups,
           Found(index, "path", here)
    PROVE  LET deps == ShownDependencies(Lookup(index, "path", here).dependencies)[group]
               dependents == ShownDependents(DirectDependents(index, there))[group]
           IN  (\E k \in DOMAIN deps : deps[k] = there)
                 <=> (\E k \in DOMAIN dependents : dependents[k] = here)
<1> DEFINE paths == {index.artifacts[i].path : i \in DOMAIN index.artifacts}
<1>1. here \in paths
  BY LookupFinds
<1>2. ShownDependencies(Lookup(index, "path", here).dependencies)[group]
        = Lookup(index, "path", here).dependencies[group]
  BY DEF ShownDependencies
<1> QED
  BY <1>1, <1>2, DependentsShown DEF DependsOn

\* show and show-package, of one index.
LEMMA ShowsAgree ==
    ASSUME NEW index, IsIndex(index), Canonical(index),
           \A artifact \in Range(index.artifacts) :
              DOMAIN artifact = RequiredFields \cup OptionalFields,
           NEW path, NEW package, Found(index, "path", path),
           Shown(Lookup(index, "path", path)).cargoPackage = package
    PROVE  /\ Found(index, "cargoPackage", package)
           /\ Lookup(index, "cargoPackage", package) = Lookup(index, "path", path)
<1> DEFINE artifacts == index.artifacts
           n == Len(artifacts)
<1>1. /\ n \in Nat /\ DOMAIN artifacts = 1..n
      /\ \A i \in 1..n : artifacts[i] \in Range(artifacts)
  BY LookupFinds DEF Range
<1>2. PICK i \in 1..n : Lookup(index, "path", path) = artifacts[i]
  BY LookupFinds
<1>3. artifacts[i].cargoPackage = package
  <2>1. /\ "cargoPackage" \in DOMAIN artifacts[i]
        /\ artifacts[i].cargoPackage # None
    BY <1>1 DEF RequiredFields, IsIndex
  <2>2. SkipNone(artifacts[i]).cargoPackage = artifacts[i].cargoPackage
    BY <2>1 DEF SkipNone
  <2> QED
    BY <1>2, <2>2 DEF Shown
<1>4. Found(index, "cargoPackage", package)
  BY <1>3, LookupFinds
<1>5. PICK j \in 1..n : /\ Lookup(index, "cargoPackage", package) = artifacts[j]
                        /\ artifacts[j].cargoPackage = package
  BY <1>4, LookupFinds
<1>6. i = j
  <2>1. \A x, y \in 1..n : x < y => artifacts[x].cargoPackage # artifacts[y].cargoPackage
    BY <1>1 DEF Canonical
  <2>2. i < j \/ j < i \/ i = j
    BY <1>1
  <2> QED
    BY <1>3, <1>5, <2>1, <2>2
<1> QED
  BY <1>2, <1>4, <1>5, <1>6

-----------------------------------------------------------------------------
(* Discovery. *)

\* The members of a workspace are packages of it, in a list.
LEMMA MembersAreListed ==
    ASSUME NEW w, w.packages \in Seq(Range(w.packages))
    PROVE  Members(w) \in Seq(Range(w.packages))
<1> DEFINE packages == w.packages
           N == Len(packages)
           S == Range(packages)
           Longer(text, n) == IF packages[n].id \in w.members
                             THEN Append(text, packages[n]) ELSE text
           Upto(n) == {g \in [0..n -> Seq(S)] :
                          g[0] = <<>> /\ \A i \in 1..n : g[i] = Longer(g[i - 1], i)}
           Reached == {n \in Nat : n <= N => Upto(n) # {}}
<1>0. N \in Nat /\ \A n \in 1..N : packages[n] \in S
  OBVIOUS
<1> HIDE DEF S, packages
<1>a. \A n \in 1..N : \A text \in Seq(S) : Longer(text, n) \in Seq(S)
  BY <1>0
<1> HIDE DEF N, Longer
<1>1. 0 \in Reached
  <2> DEFINE g == [n \in 0..0 |-> <<>>]
  <2>1. g \in [0..0 -> Seq(S)] /\ g[0] = <<>>
    OBVIOUS
  <2>2. \A i \in 1..0 : g[i] = Longer(g[i - 1], i)
    OBVIOUS
  <2> HIDE DEF g
  <2>3. g \in Upto(0)
    BY <2>1, <2>2
  <2> QED
    BY <2>3, Zenon
<1>2. ASSUME NEW n \in Nat, n \in Reached PROVE n + 1 \in Reached
  <2>0. n + 1 \in Nat
    OBVIOUS
  <2> SUFFICES ASSUME n + 1 <= N PROVE Upto(n + 1) # {}
    BY <2>0, Zenon
  <2>1. PICK g \in Upto(n) : TRUE
    <3>1. n <= N
      BY <1>0
    <3> QED
      BY <1>2, <3>1, Zenon
  <2>2. g \in [0..n -> Seq(S)] /\ n \in 0..n /\ n + 1 \in 1..N
    BY <1>0, <2>1
  <2>3. Longer(g[n], n + 1) \in Seq(S)
    BY <1>a, <2>2
  <2> DEFINE h == [i \in 0..(n + 1) |-> IF i = n + 1 THEN Longer(g[n], n + 1) ELSE g[i]]
  <2>4. h \in [0..(n + 1) -> Seq(S)] /\ h[0] = <<>>
    BY <2>1, <2>2, <2>3
  <2>5. ASSUME NEW i \in 1..(n + 1) PROVE h[i] = Longer(h[i - 1], i)
    <3>1. CASE i = n + 1
      BY <3>1
    <3>2. CASE i # n + 1
      <4>1. i \in 1..n /\ i - 1 \in 0..n /\ i - 1 # n + 1
        BY <3>2
      <4> QED
        BY <2>1, <3>2, <4>1
    <3> QED
      BY <3>1, <3>2
  <2> QED
    BY <2>4, <2>5
<1>3. PICK g \in Upto(N) : TRUE
  <2> HIDE DEF Reached
  <2>1. N \in Reached
    BY <1>0, <1>1, <1>2, Induction
  <2>2. N <= N
    BY <1>0
  <2> QED
    BY <2>1, <2>2, Zenon DEF Reached
<1> DEFINE Step(f) == [n \in 0..N |-> IF n = 0 THEN <<>>
                          ELSE IF packages[n].id \in w.members
                          THEN Append(f[n - 1], packages[n]) ELSE f[n - 1]]
           among == CHOOSE f : f = Step(f)
<1>4. g = Step(g)
  <2>1. g \in [0..N -> Seq(S)] /\ g[0] = <<>>
    BY <1>3
  <2>2. ASSUME NEW n \in 0..N PROVE g[n] = Step(g)[n]
    <3>1. CASE n = 0
      BY <2>1, <3>1
    <3>2. CASE n # 0
      <4>1. n \in 1..N
        BY <1>0, <3>2
      <4> QED
        BY <1>3, <3>2, <4>1 DEF Longer
    <3> QED
      BY <3>1, <3>2
  <2> QED
    BY <2>1, <2>2
<1>5. among = Step(among)
  BY <1>4
<1>6. Members(w) = among[N]
  BY DEF Members, N, packages
<1> HIDE DEF among
<1>7. \A n \in Nat : n <= N => among[n] \in Seq(S)
  <2> DEFINE Kept == {n \in Nat : n <= N => among[n] \in Seq(S)}
  <2>1. 0 \in Kept
    BY <1>0, <1>5
  <2>2. ASSUME NEW n \in Nat, n \in Kept PROVE n + 1 \in Kept
    <3> SUFFICES ASSUME n + 1 <= N PROVE among[n + 1] \in Seq(S)
      OBVIOUS
    <3>1. /\ among[n] \in Seq(S) /\ n + 1 \in 0..N /\ n + 1 \in 1..N /\ n + 1 # 0
          /\ (n + 1) - 1 = n
      BY <1>0, <2>2
    <3>2. among[n + 1] = Longer(among[n], n + 1)
      BY <1>5, <3>1 DEF Longer
    <3> QED
      BY <1>a, <3>1, <3>2
  <2> HIDE DEF Kept
  <2>3. \A n \in Nat : n \in Kept
    BY <2>1, <2>2, Induction
  <2> QED
    BY <2>3 DEF Kept
<1> QED
  BY <1>0, <1>6, <1>7 DEF S, packages

\* What a list of checks that finds nothing says of its parts.
LEMMA FirstOfDiscovery ==
    ASSUME NEW E, NEW a \in E, NEW f \in Seq(E), NEW c \in E, NEW d \in E,
           First(<<a>> \o f \o <<c, d>>) = "Ok"
    PROVE  a = "Ok" /\ c = "Ok" /\ d = "Ok" /\ \A i \in 1..Len(f) : f[i] = "Ok"
<1> DEFINE n == Len(f)
           head == <<a>> \o f
           all == head \o <<c, d>>
<1>1. n \in Nat /\ <<a>> \in Seq(E) /\ <<c, d>> \in Seq(E)
  OBVIOUS
<1>2. /\ head \in Seq(E) /\ Len(head) = n + 1 /\ head[1] = a
      /\ \A i \in 1..n : head[i + 1] = f[i] /\ i + 1 \in 1..(n + 1)
  <2>1. ASSUME NEW i \in 1..n PROVE head[i + 1] = f[i] /\ i + 1 \in 1..(n + 1)
    OBVIOUS
  <2>2. head \in Seq(E) /\ Len(head) = n + 1 /\ head[1] = a
    BY <1>1
  <2> HIDE DEF head
  <2> QED
    BY <2>1, <2>2
<1> HIDE DEF head
<1>3. /\ all \in Seq(E) /\ Len(all) = n + 3
      /\ \A i \in 1..(n + 1) : all[i] = head[i]
      /\ all[n + 2] = c /\ all[n + 3] = d
  <2>1. all \in Seq(E) /\ Len(all) = n + 3
    BY <1>1, <1>2
  <2>2. ASSUME NEW i \in 1..(n + 1) PROVE all[i] = head[i]
    BY <1>1, <1>2
  <2>3. all[n + 2] = c
    BY <1>1, <1>2
  <2>4. all[n + 3] = d
    BY <1>1, <1>2
  <2> HIDE DEF all
  <2> QED
    BY <2>1, <2>2, <2>3, <2>4
<1> HIDE DEF n
<1>4. \A i \in 1..(n + 3) : all[i] = "Ok"
  <2>1. First(all) = "Ok"
    BY DEF head
  <2> HIDE DEF all
  <2>2. DOMAIN all = 1..(n + 3) /\ n + 3 \in Nat
    BY <1>1, <1>3
  <2> QED
    BY <2>1, <2>2, FirstIsOk
<1> HIDE DEF all
<1>5. /\ 1 \in 1..(n + 3) /\ n + 2 \in 1..(n + 3) /\ n + 3 \in 1..(n + 3)
      /\ 1 \in 1..(n + 1)
      /\ \A i \in 1..n : i + 1 \in 1..(n + 1) /\ i + 1 \in 1..(n + 3)
  BY <1>1
<1>6. \A i \in 1..n : f[i] = "Ok"
  <2> TAKE i \in 1..n
  <2>1. all[i + 1] = "Ok" /\ all[i + 1] = head[i + 1] /\ head[i + 1] = f[i]
    BY <1>2, <1>3, <1>4, <1>5
  <2> QED
    BY <2>1
<1>7. a = "Ok" /\ c = "Ok" /\ d = "Ok"
  BY <1>2, <1>3, <1>4, <1>5
<1> QED
  BY <1>6, <1>7 DEF n

\* The places of the members that are cataloged, and their directories.
CatalogedIn(packages) == {i \in DOMAIN packages : Cataloged(packages[i])}
DirsIn(packages) == {packages[i].dir : i \in CatalogedIn(packages)}

\* What discovery has made sure of when it finds no error.
LEMMA DiscoveryChecks ==
    ASSUME NEW w \in Workspaces, DiscoverError(w) = "Ok"
    PROVE  LET packages == Members(w)
               n == Len(packages)
           IN  /\ packages \in Seq(Range(w.packages)) /\ n \in Nat
               /\ \A i, j \in 1..n : i # j => packages[i].name # packages[j].name
               /\ \A i \in 1..n : PlacementError(packages, i) = "Ok"
               /\ ~StrayManifest(w, DirsIn(packages))
               /\ \A i \in CatalogedIn(packages) :
                     packages[i].description # None /\ ~Blank(packages[i].description)
<1> DEFINE packages == Members(w)
           n == Len(packages)
           E == {"Ok", "DuplicateName", "OutsideRoot", "UnsupportedPath", "DuplicatePath",
                 "StrayManifest", "NoDescription"}
           cataloged == {i \in DOMAIN packages : Cataloged(packages[i])}
           Twice == \E i, j \in DOMAIN packages :
                       i # j /\ packages[i].name = packages[j].name
           Stray == StrayManifest(w, {packages[i].dir : i \in cataloged})
           Undescribed == \E i \in cataloged : packages[i].description = None
                                                 \/ Blank(packages[i].description)
           Fails(failed, error) == IF failed THEN error ELSE "Ok"
           a == Fails(Twice, "DuplicateName")
           f == [i \in DOMAIN packages |-> PlacementError(packages, i)]
           c == Fails(Stray, "StrayManifest")
           d == Fails(Undescribed, "NoDescription")
<1>1. packages \in Seq(Range(w.packages))
  BY MembersAreListed, WorkspacesAssumption
<1>2. n \in Nat /\ DOMAIN packages = 1..n
  BY <1>1
<1>3. First(<<a>> \o f \o <<c, d>>) = "Ok"
  BY DEF DiscoverError
<1>4. a \in E /\ c \in E /\ d \in E
  <2> HIDE DEF Twice, Stray, Undescribed
  <2> QED
    OBVIOUS
<1>5. f \in Seq(E) /\ Len(f) = n
  <2>1. \A i \in DOMAIN packages : PlacementError(packages, i) \in E
    BY DEF PlacementError
  <2>2. f \in [1..n -> E]
    BY <1>2, <2>1
  <2> HIDE DEF f, n, E
  <2> QED
    BY <1>2, <2>2
<1>6. a = "Ok" /\ c = "Ok" /\ d = "Ok" /\ \A i \in 1..n : f[i] = "Ok"
  <2> HIDE DEF a, c, d, f, n, E
  <2> QED
    BY <1>3, <1>4, <1>5, FirstOfDiscovery
<1>7. ~Twice /\ ~Stray /\ ~Undescribed
  <2> HIDE DEF Twice, Stray, Undescribed
  <2> QED
    BY <1>6
<1>8. \A i \in 1..n : PlacementError(packages, i) = "Ok"
  BY <1>2, <1>6
<1>9. cataloged = CatalogedIn(packages)
  BY DEF CatalogedIn
<1> HIDE DEF packages, n, cataloged
<1>10. ~StrayManifest(w, DirsIn(packages))
  BY <1>7, <1>9 DEF DirsIn
<1>11. \A i, j \in 1..n : i # j => packages[i].name # packages[j].name
  BY <1>2, <1>7
<1>12. \A i \in CatalogedIn(packages) :
          packages[i].description # None /\ ~Blank(packages[i].description)
  BY <1>7, <1>9
<1> QED
  BY <1>1, <1>2, <1>8, <1>10, <1>11, <1>12 DEF packages, n

\* What classify_path says of a path it takes is what the path says of itself.
LEMMA ClassifiedIsShaped ==
    ASSUME NEW artifact, artifact.path \in Paths,
           Classify(artifact.path).class = "cataloged",
           artifact.kind = Classify(artifact.path).kind,
           artifact.category = Classify(artifact.path).category
    PROVE  /\ artifact.kind \in Kinds
           /\ artifact.path = PathOf(artifact, artifact.path[Len(artifact.path)])
           /\ artifact.kind \in {"host", "example"} => artifact.category = None
<1> DEFINE path == artifact.path
           last == path[Len(path)]
           Is(root, depth, kind) ==
              /\ path[1] = root /\ Len(path) = depth /\ artifact.kind = kind
              /\ artifact.category = IF depth = 3 THEN path[2] ELSE None
<1>1. \/ Is("packages", 3, "package")
      \/ Is("hosts", 2, "host")
      \/ Is("compositions", 3, "composition")
      \/ Is("examples", 2, "example")
      \/ Is("instances", 3, "instance")
  <2>1. path[1] \in DOMAIN Topology /\ Len(path) = Topology[path[1]].depth
    BY DEF Classify
  <2>2. /\ artifact.kind = Topology[path[1]].kind
        /\ artifact.category = IF Topology[path[1]].depth = 3 THEN path[2] ELSE None
    BY <2>1 DEF Classify
  <2>3. path[1] \in {"packages", "hosts", "compositions", "instances", "examples"}
    BY <2>1 DEF Topology
  <2> HIDE DEF path
  <2> QED
    BY <2>1, <2>2, <2>3 DEF Topology
<1>2. \A x, y : path = <<x, y, last>> <=> Len(path) = 3 /\ path[1] = x /\ path[2] = y
  BY ThreeSegments
<1>3. \A x : path = <<x, last>> <=> Len(path) = 2 /\ path[1] = x
  BY TwoSegments
<1> HIDE DEF last
<1>4. CASE Is("packages", 3, "package")
  BY <1>2, <1>4 DEF PathOf, Kinds
<1>5. CASE Is("hosts", 2, "host")
  BY <1>3, <1>5 DEF PathOf, Kinds
<1>6. CASE Is("compositions", 3, "composition")
  BY <1>2, <1>6 DEF PathOf, Kinds
<1>7. CASE Is("examples", 2, "example")
  BY <1>3, <1>7 DEF PathOf, Kinds
<1>8. CASE Is("instances", 3, "instance")
  BY <1>2, <1>8 DEF PathOf, Kinds
<1> QED
  BY <1>1, <1>4, <1>5, <1>6, <1>7, <1>8 DEF last

LEMMA DirsAreFinite ==
    ASSUME NEW packages, NEW n \in Nat, DOMAIN packages = 1..n
    PROVE  IsFiniteSet(DirsIn(packages))
<1>1. IsFiniteSet(CatalogedIn(packages))
  <2>1. IsFiniteSet(1..n) /\ CatalogedIn(packages) \subseteq 1..n
    BY FS_Interval DEF CatalogedIn
  <2> QED
    BY <2>1, FS_Subset
<1> DEFINE dir == [i \in CatalogedIn(packages) |-> packages[i].dir]
<1>2. dir \in Surjection(CatalogedIn(packages), DirsIn(packages))
  BY DEF DirsIn, Surjection
<1> QED
  BY <1>1, <1>2, FS_Surjection

\* A package that is cataloged, and the index that has it.
LEMMA ArtifactIsFaithful ==
    ASSUME NEW w \in Workspaces, DiscoverError(w) = "Ok",
           NEW k \in CatalogedIn(Members(w))
    PROVE  LET packages == Members(w)
               package == packages[k]
               artifact == ArtifactOf(package, packages, w.readmes)
           IN  /\ package.dir \in Paths
               /\ artifact.path = package.dir /\ artifact.cargoPackage = package.name
               /\ artifact.kind \in Kinds
               /\ DOMAIN artifact = RequiredFields \cup OptionalFields
               /\ \A field \in RequiredFields : artifact[field] # None
               /\ DOMAIN artifact.dependencies = Groups
               /\ \A group \in Groups :
                     /\ artifact.dependencies[group] \in Seq(Paths)
                     /\ Range(artifact.dependencies[group]) \subseteq DirsIn(packages)
                     /\ artifact.dependencies[group] =
                           Sorted(Range(artifact.dependencies[group]))
               /\ CanonicalArtifact(CurrentSchema, artifact) <=>
                     \A i \in DOMAIN package.dir : package.dir[i] \notin Backslashed
<1> DEFINE packages == Members(w)
           n == Len(packages)
           package == packages[k]
           artifact == ArtifactOf(package, packages, w.readmes)
           edges == artifact.dependencies
<1>1. /\ packages \in Seq(Range(w.packages)) /\ n \in Nat /\ DOMAIN packages = 1..n
      /\ \A i \in CatalogedIn(packages) :
            packages[i].description # None /\ ~Blank(packages[i].description)
  BY DiscoveryChecks
<1> HIDE DEF packages, n
<1>2. \A i \in 1..n : packages[i] \in Range(w.packages)
  BY <1>1
<1>3. \A i \in CatalogedIn(packages) :
         /\ i \in 1..n
         /\ packages[i].dir \in Paths /\ packages[i].dir # None
         /\ Classify(packages[i].dir).class = "cataloged"
  <2> TAKE i \in CatalogedIn(packages)
  <2>1. i \in 1..n /\ Cataloged(packages[i])
    BY <1>1 DEF CatalogedIn
  <2>2. packages[i].dir \in Paths \cup {None}
    BY <1>2, <2>1, WorkspacesAssumption
  <2> QED
    BY <2>1, <2>2 DEF Cataloged
<1>4. k \in CatalogedIn(packages)
  BY DEF packages
<1>5. /\ package.dir \in Paths /\ Classify(package.dir).class = "cataloged"
      /\ package.description # None /\ ~Blank(package.description)
      /\ package.name \notin {None, ""} /\ package.version \notin {None, ""}
      /\ \A i \in DOMAIN package.dir : package.dir[i] \notin {"", ".", ".."}
  <2>1. package \in Range(w.packages) /\ package.dir # None
    BY <1>2, <1>3, <1>4
  <2>2. /\ package.name \notin {None, ""} /\ package.version \notin {None, ""}
        /\ \A i \in DOMAIN package.dir : package.dir[i] \notin {"", ".", ".."}
    BY <2>1, WorkspacesAssumption
  <2> QED
    BY <1>1, <1>3, <1>4, <2>2
<1> HIDE DEF package
<1>6. /\ artifact.kind = Classify(package.dir).kind
      /\ artifact.category = Classify(package.dir).category
      /\ artifact.path = package.dir
      /\ artifact.cargoPackage = package.name
      /\ artifact.version = package.version
      /\ artifact.description = package.description
      /\ artifact.publishable = (package.publish # {})
      /\ artifact.readme = IF package.dir \in w.readmes THEN Readme(package.dir) ELSE None
      /\ artifact.dependencies = DependencyProjection(package, packages)
      /\ DOMAIN artifact = RequiredFields \cup OptionalFields
  BY DEF ArtifactOf, RequiredFields, OptionalFields
<1> HIDE DEF artifact
<1>7. \A group \in Groups : edges[group] \in Seq(Paths)
                              /\ Range(edges[group]) \subseteq DirsIn(packages)
                              /\ edges[group] = Sorted(Range(edges[group]))
  <2> TAKE group \in Groups
  <2>1. PICK D : edges[group] = Sorted(D) /\ D \subseteq DirsIn(packages)
    <3> DEFINE cargoKind == [normal |-> None, development |-> "dev", build |-> "build"]
               D(g) == {packages[i].dir : i \in {i \in DOMAIN packages :
                          /\ Cataloged(packages[i])
                          /\ [name |-> packages[i].name, kind |-> cargoKind[g]]
                               \in package.dependencies}}
    <3>1. edges[group] = Sorted(D(group))
      BY <1>6 DEF DependencyProjection, Projected
    <3>2. D(group) \subseteq DirsIn(packages)
      BY DEF DirsIn, CatalogedIn
    <3> HIDE DEF D
    <3> QED
      BY <3>1, <3>2
  <2>2. D \in SUBSET Paths /\ IsFiniteSet(D)
    <3>1. IsFiniteSet(DirsIn(packages))
      BY <1>1, DirsAreFinite
    <3>2. IsFiniteSet(D)
      BY <2>1, <3>1, FS_Subset
    <3>3. DirsIn(packages) \subseteq Paths
      BY <1>3 DEF DirsIn
    <3> QED
      BY <2>1, <3>2, <3>3
  <2>3. Sorted(D) \in Seq(D) /\ Range(Sorted(D)) = D
    BY <2>2, SortedRises
  <2>4. Sorted(D) \in Seq(Paths)
    BY <2>2, <2>3
  <2> QED
    BY <2>1, <2>3, <2>4
<1>8. DOMAIN edges = Groups /\ edges \in [Groups -> Seq(Paths)]
  <2>1. edges = [group \in Groups |-> edges[group]]
    BY <1>6 DEF DependencyProjection
  <2> HIDE DEF edges
  <2> QED
    BY <1>7, <2>1
<1>9. /\ artifact.kind \in Kinds
      /\ artifact.path = PathOf(artifact, artifact.path[Len(artifact.path)])
      /\ artifact.kind \in {"host", "example"} => artifact.category = None
  BY <1>5, <1>6, ClassifiedIsShaped
<1>10. \A field \in RequiredFields : artifact[field] # None
  <2>1. /\ artifact.kind # None /\ artifact.path # None /\ artifact.dependencies # None
        /\ artifact.publishable # None
    <3>1. artifact.publishable \in BOOLEAN
      BY <1>6, Zenon
    <3> QED
      BY <1>5, <1>6, <1>8, <1>9, <3>1, NoneAssumption, Zenon
  <2>2. /\ artifact.cargoPackage # None /\ artifact.version # None
        /\ artifact.description # None
    BY <1>5, <1>6
  <2> QED
    BY <2>1, <2>2 DEF RequiredFields
<1>11. CanonicalArtifact(CurrentSchema, artifact) <=>
          \A i \in DOMAIN package.dir : package.dir[i] \notin Backslashed
  <2>1. artifact.readme # None => artifact.readme = Append(artifact.path, "README.md")
    BY <1>6 DEF Readme
  <2>2. /\ artifact.cargoPackage # "" /\ artifact.version # ""
        /\ ~Blank(artifact.description)
    BY <1>5, <1>6
  <2>3. CanonicalArtifact(CurrentSchema, artifact) <=>
           \A i \in DOMAIN artifact.path :
              artifact.path[i] \notin {"", ".", ".."} \cup Backslashed
    <3>1. CanonicalArtifact(2, artifact) <=>
             /\ 2 = 1 => artifact.kind # "instance"
             /\ artifact.path = PathOf(artifact, artifact.path[Len(artifact.path)])
             /\ artifact.kind \in {"host", "example"} => artifact.category = None
             /\ \A i \in DOMAIN artifact.path :
                   artifact.path[i] \notin {"", ".", ".."} \cup Backslashed
             /\ artifact.cargoPackage # "" /\ artifact.version # ""
             /\ ~Blank(artifact.description)
             /\ artifact.readme # None =>
                   artifact.readme = Append(artifact.path, "README.md")
      BY Zenon DEF CanonicalArtifact
    <3>2. CurrentSchema = 2 /\ 2 # 1
      BY DEF CurrentSchema
    <3> QED
      BY <1>9, <2>1, <2>2, <3>1, <3>2
  <2>4. artifact.path = package.dir
    BY <1>6
  <2> QED
    BY <1>5, <2>3, <2>4
<1> HIDE DEF edges
<1>12. \A group \in Groups :
          /\ artifact.dependencies[group] \in Seq(Paths)
          /\ Range(artifact.dependencies[group]) \subseteq DirsIn(packages)
          /\ artifact.dependencies[group] = Sorted(Range(artifact.dependencies[group]))
  BY <1>7 DEF edges
<1>13. DOMAIN artifact.dependencies = Groups
  BY <1>8 DEF edges
<1>14. package.dir \in Paths /\ artifact.path = package.dir /\ artifact.cargoPackage = package.name
       /\ DOMAIN artifact = RequiredFields \cup OptionalFields
  BY <1>5, <1>6
<1>15. artifact.kind \in Kinds
  BY <1>9
<1> QED
  BY <1>10, <1>11, <1>12, <1>13, <1>14, <1>15 DEF artifact, package, packages

\* The artifacts of a discovered index: every field is there, and what JSON has no
\* place for is in optional fields alone.
AreDiscovered(artifacts, n) ==
    /\ artifacts = [i \in 1..n |-> artifacts[i]]
    /\ \A i \in 1..n :
          LET artifact == artifacts[i]
          IN  /\ artifact = [field \in RequiredFields \cup OptionalFields |-> artifact[field]]
              /\ \A field \in RequiredFields : artifact[field] # None
              /\ artifact.kind \in Kinds
              /\ artifact.path \in Paths
              /\ DOMAIN artifact.dependencies = Groups
              /\ \A group \in Groups : artifact.dependencies[group] \in Seq(Paths)

\* What is rendered to JSON and read again is what was discovered.
LEMMA JsonIsParsed ==
    ASSUME NEW n \in Nat, NEW artifacts, AreDiscovered(artifacts, n), NEW index,
           index = [schemaVersion |-> CurrentSchema, artifacts |-> artifacts]
    PROVE  WellFormed(Json(index)) /\ Parsed(Json(index)) = index
<1> DEFINE Fields == RequiredFields \cup OptionalFields
           skipped == [i \in 1..n |-> SkipNone(artifacts[i])]
           Restored(artifact) ==
              [field \in Fields |-> IF field \in DOMAIN artifact THEN artifact[field] ELSE None]
<1>0. ASSUME NEW i \in 1..n
      PROVE  /\ artifacts[i] = [field \in Fields |-> artifacts[i][field]]
             /\ DOMAIN artifacts[i] = Fields
             /\ \A field \in RequiredFields : artifacts[i][field] # None
  <2>1. artifacts[i] = [field \in Fields |-> artifacts[i][field]]
    BY DEF AreDiscovered
  <2>2. DOMAIN artifacts[i] = Fields
    <3> DEFINE copy == [field \in Fields |-> artifacts[i][field]]
    <3>1. DOMAIN copy = Fields
      OBVIOUS
    <3>2. artifacts[i] = copy
      BY <2>1
    <3> HIDE DEF copy, Fields
    <3> QED
      BY <3>1, <3>2
  <2> QED
    BY <2>1, <2>2 DEF AreDiscovered
<1>1. DOMAIN artifacts = 1..n /\ index.artifacts = artifacts
  <2>1. artifacts = [i \in 1..n |-> artifacts[i]]
    BY DEF AreDiscovered
  <2> QED
    BY <2>1
<1>2. Json(index) = [schemaVersion |-> CurrentSchema, artifacts |-> skipped]
  <2>1. Json(index) = [index EXCEPT !.artifacts =
                          [i \in DOMAIN index.artifacts |-> SkipNone(index.artifacts[i])]]
    BY DEF Json
  <2>2. [i \in DOMAIN index.artifacts |-> SkipNone(index.artifacts[i])] = skipped
    BY <1>1
  <2> HIDE DEF skipped
  <2> QED
    BY <2>1, <2>2
<1>3. ASSUME NEW i \in 1..n
      PROVE  /\ RequiredFields \subseteq DOMAIN skipped[i]
             /\ DOMAIN skipped[i] \subseteq Fields
             /\ \A field \in DOMAIN skipped[i] : skipped[i][field] = artifacts[i][field]
             /\ Restored(skipped[i]) = artifacts[i]
  <2>1. skipped[i] = [field \in {f \in Fields : artifacts[i][f] # None} |-> artifacts[i][field]]
    BY <1>0 DEF SkipNone
  <2>2. \A field \in RequiredFields : artifacts[i][field] # None
    BY <1>0
  <2>3. artifacts[i] = [field \in Fields |-> artifacts[i][field]]
    BY <1>0
  <2> HIDE DEF skipped
  <2>4. \A field \in Fields : Restored(skipped[i])[field] = artifacts[i][field]
    BY <2>1
  <2>5. Restored(skipped[i]) = [field \in Fields |-> Restored(skipped[i])[field]]
    OBVIOUS
  <2> HIDE DEF Restored
  <2>6. Restored(skipped[i]) = artifacts[i]
    BY <2>3, <2>4, <2>5
  <2> QED
    BY <2>1, <2>2, <2>6
<1>4. Parsed(Json(index)) = [schemaVersion |-> CurrentSchema,
                             artifacts |-> [i \in 1..n |-> Restored(skipped[i])]]
  <2>1. DOMAIN skipped = 1..n
    OBVIOUS
  <2> DEFINE document == Json(index)
             restored == [i \in 1..n |-> Restored(skipped[i])]
  <2> HIDE DEF skipped, document
  <2>2. Parsed(document) = [document EXCEPT !.artifacts =
                               [i \in DOMAIN document.artifacts |->
                                   Restored(document.artifacts[i])]]
    BY DEF Parsed
  <2>3. document = [schemaVersion |-> CurrentSchema, artifacts |-> skipped]
    BY <1>2 DEF document
  <2> HIDE DEF Restored
  <2>4. [i \in DOMAIN document.artifacts |-> Restored(document.artifacts[i])] = restored
    BY <2>1, <2>3
  <2> HIDE DEF restored
  <2>5. Parsed(document) = [schemaVersion |-> CurrentSchema, artifacts |-> restored]
    BY <2>2, <2>3, <2>4
  <2> QED
    BY <2>5 DEF restored, document
<1> HIDE DEF Restored, skipped
<1>5. Parsed(Json(index)) = index
  <2>1. artifacts = [i \in 1..n |-> artifacts[i]]
    BY DEF AreDiscovered
  <2>2. artifacts = [i \in 1..n |-> Restored(skipped[i])]
    BY <1>3, <2>1
  <2> QED
    BY <1>4, <2>2
<1>6. WellFormed(Json(index))
  <2>1. /\ DOMAIN Json(index) = {"schemaVersion", "artifacts"}
        /\ Json(index).artifacts = skipped
    BY <1>2
  <2>2. Range(skipped) = {skipped[i] : i \in 1..n} /\ skipped \in Seq(Range(skipped))
    BY DEF Range, skipped
  <2>3. ASSUME NEW i \in 1..n
        PROVE  /\ \A field \in RequiredFields : skipped[i][field] # None
               /\ skipped[i].kind = artifacts[i].kind
               /\ skipped[i].path = artifacts[i].path
               /\ skipped[i].dependencies = artifacts[i].dependencies
    <3>1. \A field \in RequiredFields : skipped[i][field] = artifacts[i][field]
      BY <1>3
    <3>2. \A field \in RequiredFields : artifacts[i][field] # None
      BY <1>0
    <3> QED
      BY <3>1, <3>2 DEF RequiredFields
  <2>4. ASSUME NEW artifact \in Range(skipped)
        PROVE  /\ RequiredFields \subseteq DOMAIN artifact
               /\ DOMAIN artifact \subseteq Fields
               /\ \A field \in RequiredFields : artifact[field] # None
               /\ artifact.kind \in Kinds
               /\ artifact.path \in Paths
               /\ DOMAIN artifact.dependencies = Groups
               /\ \A group \in Groups : artifact.dependencies[group] \in Seq(Paths)
    <3>1. PICK i \in 1..n : artifact = skipped[i]
      BY <2>2
    <3>2. /\ artifacts[i].kind \in Kinds
          /\ artifacts[i].path \in Paths
          /\ DOMAIN artifacts[i].dependencies = Groups
          /\ \A group \in Groups : artifacts[i].dependencies[group] \in Seq(Paths)
      BY DEF AreDiscovered
    <3>3. /\ RequiredFields \subseteq DOMAIN skipped[i] /\ DOMAIN skipped[i] \subseteq Fields
          /\ \A field \in RequiredFields : skipped[i][field] # None
          /\ skipped[i].kind = artifacts[i].kind
          /\ skipped[i].path = artifacts[i].path
          /\ skipped[i].dependencies = artifacts[i].dependencies
      BY <1>3, <2>3
    <3> QED
      BY <3>1, <3>2, <3>3
  <2> QED
    BY <2>1, <2>2, <2>4 DEF WellFormed
<1> QED
  BY <1>5, <1>6

\* A generated catalog has every manifest below a catalog root, and the reader takes it
\* unless a directory in it has a backslash.
LEMMA GenerationIsFaithful ==
    ASSUME NEW w \in Workspaces, DiscoverError(w) = "Ok"
    PROVE  LET index == Discover(w)
               paths == {index.artifacts[i].path : i \in DOMAIN index.artifacts}
           IN  /\ w.manifests \subseteq paths
               /\ ReadError(Json(index)) = "Ok" <=>
                     \A path \in paths : \A k \in DOMAIN path : path[k] \notin Backslashed
<1> DEFINE packages == Members(w)
           n == Len(packages)
           S == DirsIn(packages)
           N == Cardinality(S)
           sorted == Sorted(S)
           At(path) == packages[CHOOSE i \in CatalogedIn(packages) : packages[i].dir = path]
           artifacts == [i \in 1..N |-> ArtifactOf(At(sorted[i]), packages, w.readmes)]
           index == Discover(w)
           paths == {index.artifacts[i].path : i \in DOMAIN index.artifacts}
           Clean == \A path \in paths : \A k \in DOMAIN path : path[k] \notin Backslashed
<1>1. /\ packages \in Seq(Range(w.packages)) /\ n \in Nat /\ DOMAIN packages = 1..n
      /\ \A i, j \in 1..n : i # j => packages[i].name # packages[j].name
      /\ ~StrayManifest(w, S)
  BY DiscoveryChecks
<1>2. /\ S \in SUBSET Paths /\ N \in Nat /\ DOMAIN sorted = 1..N /\ Range(sorted) = S
      /\ \A i \in 1..N : sorted[i] \in S
      /\ \A i, j \in 1..N : i < j => Rank[sorted[i]] < Rank[sorted[j]]
  <2>1. IsFiniteSet(S)
    BY <1>1, DirsAreFinite
  <2>2. S \in SUBSET Paths
    BY ArtifactIsFaithful DEF DirsIn
  <2> HIDE DEF S
  <2>3. /\ N \in Nat /\ DOMAIN sorted = 1..N /\ Range(sorted) = S
        /\ \A i, j \in 1..N : i < j => Rank[sorted[i]] < Rank[sorted[j]]
    BY <2>1, <2>2, SortedRises
  <2>4. \A i \in 1..N : sorted[i] \in S
    BY <2>3 DEF Range
  <2> QED
    BY <2>2, <2>3, <2>4
<1>3. index = [schemaVersion |-> CurrentSchema, artifacts |-> artifacts]
  <2> DEFINE cataloged == {i \in DOMAIN packages : Cataloged(packages[i])}
             From(path) == packages[CHOOSE i \in cataloged : packages[i].dir = path]
             places == Sorted({packages[i].dir : i \in cataloged})
             found == [i \in DOMAIN places |->
                          ArtifactOf(From(places[i]), packages, w.readmes)]
  <2>1. index = [schemaVersion |-> CurrentSchema, artifacts |-> found]
    BY Zenon DEF Discover
  <2>2. cataloged = CatalogedIn(packages)
    BY DEF CatalogedIn
  <2> HIDE DEF cataloged, index, packages
  <2>3. places = sorted
    BY <2>2 DEF DirsIn
  <2>4. \A path : From(path) = At(path)
    BY <2>2
  <2> HIDE DEF places, sorted, From, At, N
  <2>5. found = artifacts
    BY <1>2, <2>3, <2>4
  <2> QED
    BY <2>1, <2>5
<1>4. ASSUME NEW i \in 1..N
      PROVE  \E k \in CatalogedIn(packages) :
                /\ packages[k].dir = sorted[i]
                /\ artifacts[i] = ArtifactOf(packages[k], packages, w.readmes)
  <2>1. \E k \in CatalogedIn(packages) : packages[k].dir = sorted[i]
    BY <1>2 DEF DirsIn
  <2> DEFINE k == CHOOSE k \in CatalogedIn(packages) : packages[k].dir = sorted[i]
  <2>2. k \in CatalogedIn(packages) /\ packages[k].dir = sorted[i]
    BY <2>1
  <2>3. artifacts[i] = ArtifactOf(packages[k], packages, w.readmes)
    OBVIOUS
  <2> HIDE DEF k
  <2> QED
    BY <2>2, <2>3
<1> HIDE DEF artifacts, At
<1>5. ASSUME NEW i \in 1..N
      PROVE  /\ artifacts[i].path = sorted[i]
             /\ \E k \in 1..n : packages[k].dir = sorted[i]
                                  /\ artifacts[i].cargoPackage = packages[k].name
             /\ artifacts[i].kind \in Kinds
             /\ artifacts[i].path \in Paths
             /\ DOMAIN artifacts[i] = RequiredFields \cup OptionalFields
             /\ artifacts[i] = [field \in RequiredFields \cup OptionalFields |->
                                   artifacts[i][field]]
             /\ \A field \in RequiredFields : artifacts[i][field] # None
             /\ DOMAIN artifacts[i].dependencies = Groups
             /\ \A group \in Groups :
                   LET edges == artifacts[i].dependencies[group]
                   IN  edges \in Seq(Paths) /\ Range(edges) \subseteq S
                         /\ edges = Sorted(Range(edges))
             /\ CanonicalArtifact(CurrentSchema, artifacts[i]) <=>
                   \A k \in DOMAIN sorted[i] : sorted[i][k] \notin Backslashed
  <2>1. PICK k \in CatalogedIn(packages) :
           /\ packages[k].dir = sorted[i]
           /\ artifacts[i] = ArtifactOf(packages[k], packages, w.readmes)
    BY <1>4
  <2>2. k \in 1..n
    BY <1>1 DEF CatalogedIn
  <2> DEFINE artifact == ArtifactOf(packages[k], packages, w.readmes)
  <2>3. artifact = [field \in DOMAIN artifact |-> artifact[field]]
    BY DEF ArtifactOf
  <2>4. /\ packages[k].dir \in Paths
        /\ artifact.path = packages[k].dir /\ artifact.cargoPackage = packages[k].name
        /\ artifact.kind \in Kinds
        /\ DOMAIN artifact = RequiredFields \cup OptionalFields
        /\ \A field \in RequiredFields : artifact[field] # None
        /\ DOMAIN artifact.dependencies = Groups
        /\ \A group \in Groups :
              /\ artifact.dependencies[group] \in Seq(Paths)
              /\ Range(artifact.dependencies[group]) \subseteq S
              /\ artifact.dependencies[group] = Sorted(Range(artifact.dependencies[group]))
        /\ CanonicalArtifact(CurrentSchema, artifact) <=>
              \A j \in DOMAIN packages[k].dir : packages[k].dir[j] \notin Backslashed
    BY ArtifactIsFaithful
  <2>5. artifacts[i] = artifact
    BY <2>1
  <2> HIDE DEF artifact, packages, S, sorted, n
  <2>6. packages[k].dir = sorted[i]
    BY <2>1
  <2>7. artifact = [field \in RequiredFields \cup OptionalFields |-> artifact[field]]
    BY <2>3, <2>4
  <2> QED
    BY <2>2, <2>4, <2>5, <2>6, <2>7
<1>6. DOMAIN artifacts = 1..N /\ artifacts = [i \in 1..N |-> artifacts[i]]
  BY DEF artifacts
<1> HIDE DEF index, N, sorted, S, n
<1>7. paths = S
  <2>1. index.artifacts = artifacts
    BY <1>3
  <2>2. paths = {sorted[i] : i \in 1..N}
    BY <1>5, <1>6, <2>1
  <2> QED
    BY <1>2, <2>2 DEF Range
<1>8. w.manifests \subseteq S
  <2> SUFFICES ASSUME NEW dir \in w.manifests PROVE dir \in S
    OBVIOUS
  <2>1. dir[1] \in DOMAIN Topology
    BY WorkspacesAssumption
  <2>2. Classify(dir).class = "unsupported" \/ Classify(dir).class = "cataloged"
    BY <2>1 DEF Classify
  <2> QED
    BY <1>1, <2>2 DEF StrayManifest
<1>9. WellFormed(Json(index)) /\ Parsed(Json(index)) = index
  <2>1. AreDiscovered(artifacts, N)
    BY <1>5, <1>6 DEF AreDiscovered
  <2> QED
    BY <1>2, <1>3, <2>1, JsonIsParsed
<1>10. ReadError(Json(index)) = "Ok" <=> Canonical(index)
  <2>1. Json(index) \notin {Missing, Empty, Torn}
    BY RenderedAssumption DEF index
  <2> QED
    BY <1>9, <2>1, ReaderIsStrict
<1>11. \A i, j \in 1..N : i < j => artifacts[i].cargoPackage # artifacts[j].cargoPackage
  <2> SUFFICES ASSUME NEW i \in 1..N, NEW j \in 1..N, i < j
               PROVE  artifacts[i].cargoPackage # artifacts[j].cargoPackage
    OBVIOUS
  <2>1. PICK k \in 1..n : packages[k].dir = sorted[i]
                            /\ artifacts[i].cargoPackage = packages[k].name
    BY <1>5
  <2>2. PICK l \in 1..n : packages[l].dir = sorted[j]
                            /\ artifacts[j].cargoPackage = packages[l].name
    BY <1>5
  <2>3. sorted[i] # sorted[j]
    <3>1. Rank[sorted[i]] < Rank[sorted[j]] /\ Rank[sorted[i]] \in Nat
      BY <1>2, RankAssumption
    <3> QED
      BY <3>1
  <2> QED
    BY <1>1, <2>1, <2>2, <2>3
<1>12. Canonical(index) <=> Clean
  <2>1. index.artifacts = artifacts /\ index.schemaVersion = CurrentSchema
    BY <1>3
  <2>2. {artifacts[k].path : k \in DOMAIN artifacts} = S
    BY <1>7, <2>1
  <2>3. \A i, j \in 1..N : i < j => Rank[artifacts[i].path] < Rank[artifacts[j].path]
    <3>1. \A i \in 1..N : artifacts[i].path = sorted[i]
      BY <1>5
    <3> QED
      BY <1>2, <3>1
  <2>4. \A i \in 1..N : \A group \in Groups :
           LET edges == artifacts[i].dependencies[group]
           IN  Range(edges) \subseteq S /\ edges = Sorted(Range(edges))
    BY <1>5
  <2>5. Canonical(index) <=> \A i \in 1..N : CanonicalArtifact(CurrentSchema, artifacts[i])
    <3>1. CurrentSchema \in {1, 2}
      BY DEF CurrentSchema
    <3> QED
      <4> DEFINE Ordered == \A i, j \in DOMAIN artifacts : i < j =>
                               /\ Rank[artifacts[i].path] < Rank[artifacts[j].path]
                               /\ artifacts[i].cargoPackage # artifacts[j].cargoPackage
                 Sound(i) == \A group \in Groups :
                    LET edges == artifacts[i].dependencies[group]
                    IN  /\ Range(edges) \subseteq {artifacts[k].path : k \in DOMAIN artifacts}
                        /\ edges = Sorted(Range(edges))
      <4>1. Canonical([schemaVersion |-> CurrentSchema, artifacts |-> artifacts]) <=>
               /\ CurrentSchema \in {1, 2}
               /\ Ordered
               /\ \A i \in DOMAIN artifacts :
                     CanonicalArtifact(CurrentSchema, artifacts[i]) /\ Sound(i)
        BY DEF Canonical
      <4>2. Ordered
        BY <1>6, <1>11, <2>3
      <4>3. \A i \in 1..N : Sound(i)
        BY <2>2, <2>4
      <4> HIDE DEF Ordered, Sound
      <4> QED
        BY <1>3, <1>6, <3>1, <4>1, <4>2, <4>3
  <2>6. Canonical(index) <=> \A i \in 1..N : \A k \in DOMAIN sorted[i] : sorted[i][k] \notin Backslashed
    BY <1>5, <2>5
  <2>7. Clean <=> \A i \in 1..N : \A k \in DOMAIN sorted[i] : sorted[i][k] \notin Backslashed
    <3>1. paths = {sorted[i] : i \in 1..N}
      BY <1>2, <1>7 DEF Range
    <3> HIDE DEF paths
    <3> QED
      BY <3>1
  <2> QED
    BY <2>6, <2>7
<1> HIDE DEF Clean, paths
<1>13. w.manifests \subseteq paths /\ (ReadError(Json(index)) = "Ok" <=> Clean)
  BY <1>7, <1>8, <1>10, <1>12
<1> QED
  BY <1>13 DEF Clean, paths, index
-----------------------------------------------------------------------------
(* The processes. *)

Steps == {"idle", "truncateJson", "fillJson", "truncateMarkdown", "fillMarkdown",
          "checkJson", "checkMarkdown"}

TypeInv ==
    /\ workspace \in Workspaces
    /\ pc \in [Tools -> Steps]
    /\ command = [p \in Tools |-> command[p]]
    /\ rendered = [p \in Tools |-> rendered[p]]
    /\ fresh \in [Tools -> BOOLEAN]
    /\ result = [p \in Tools |-> result[p]]
    /\ printed = [p \in Tools |-> printed[p]]
    /\ quiet \in [Tools -> BOOLEAN]

\* A process in the middle of a write or a check works for that command, and on what
\* it discovered; when nobody has disturbed it, that is what there is now.
WorkInv(p) ==
    pc[p] # "idle" =>
        /\ command[p].name = (IF pc[p] \in {"checkJson", "checkMarkdown"} THEN "check"
                              ELSE "write")
        /\ quiet[p] => /\ DiscoverError(workspace) = "Ok"
                       /\ rendered[p] = Discover(workspace)

\* How far an undisturbed process has brought the files, or has seen of them.
FilesInv(p) ==
    quiet[p] =>
        /\ pc[p] = "fillJson" => json = Empty
        /\ pc[p] \in {"truncateMarkdown", "fillMarkdown"} => json = Json(rendered[p])
        /\ pc[p] = "fillMarkdown" => markdown = Empty
        /\ pc[p] = "checkMarkdown" => fresh[p] = (json = Json(rendered[p]))

Queries == {"validate", "list"} \cup WithArgument

\* What an undisturbed query has been told, once it has read the file, is what
\* index.json says now.
Answered(p) ==
    result[p] # "Failed" =>
        IF ReadError(json) # "Ok" THEN result[p] = ReadError(json)
        ELSE IF Answerable(command[p], Parsed(json))
        THEN result[p] = "Ok" /\ printed[p] = Answer(command[p], Parsed(json))
        ELSE result[p] = "NotFound"

\* WriteRepairs and CheckTellsFreshness, of one process, and what it has answered.
EndInv(p) ==
    /\ pc[p] = "idle" /\ quiet[p] /\ command[p].name \in Queries => Answered(p)
    /\ Undisturbed(p, "write") /\ result[p] = "Ok" => Current
    /\ Undisturbed(p, "check") =>
          /\ result[p] = "Ok" => Current
          /\ result[p] \in {"Stale", "Unreadable"} => ~Current

ToolInv(p) == WorkInv(p) /\ FilesInv(p) /\ EndInv(p)

IInv == TypeInv /\ \A p \in Tools : ToolInv(p)
-----------------------------------------------------------------------------
\* The initial state satisfies the invariant: no process has begun.
LEMMA InitInv == Init => IInv
<1> SUFFICES ASSUME Init PROVE IInv
  OBVIOUS
<1>1. TypeInv
  BY RepositoriesAssumption DEF Init, TypeInv, Steps
<1>2. \A p \in Tools : ToolInv(p)
  BY DEF Init, ToolInv, WorkInv, FilesInv, EndInv, Undisturbed
<1> QED
  BY <1>1, <1>2 DEF IInv

\* A process that takes no part in a step keeps its invariant when the step changes
\* neither the workspace nor a file, and when it ends its quiet.
LEMMA Bystander ==
    ASSUME NEW q \in Tools, ToolInv(q),
           pc'[q] = pc[q], command'[q] = command[q], rendered'[q] = rendered[q],
           fresh'[q] = fresh[q], result'[q] = result[q], printed'[q] = printed[q],
           \/ UNCHANGED <<workspace, json, markdown>> /\ quiet'[q] = quiet[q]
           \/ quiet'[q] = FALSE
    PROVE  ToolInv(q)'
<1>1. CASE quiet'[q] = FALSE
  BY <1>1 DEF ToolInv, WorkInv, FilesInv, EndInv, Undisturbed
<1>2. CASE UNCHANGED <<workspace, json, markdown>> /\ quiet'[q] = quiet[q]
  <2>1. Current' = Current
    BY <1>2 DEF Current
  <2>2. Answered(q)' <=> Answered(q)
    BY <1>2 DEF Answered
  <2> QED
    BY <1>2, <2>1, <2>2 DEF ToolInv, WorkInv, FilesInv, EndInv, Undisturbed
<1> QED
  BY <1>1, <1>2

\* The environment disturbs everybody.
LEMMA EnvironmentInv == ASSUME IInv, Develop \/ HandEdit PROVE IInv'
<1>1. /\ UNCHANGED <<pc, command, rendered, fresh, result, printed>>
      /\ quiet' = [q \in Tools |-> q = None /\ quiet[q]]
      /\ workspace' \in Workspaces
  BY DEF Develop, HandEdit, Disturbs, IInv, TypeInv
<1>2. quiet' = [q \in Tools |-> FALSE]
  BY <1>1, ToolsAssumption
<1>3. TypeInv'
  BY <1>1, <1>2 DEF IInv, TypeInv
<1>4. ASSUME NEW q \in Tools PROVE ToolInv(q)'
  BY <1>1, <1>2, Bystander DEF IInv
<1> QED
  BY <1>3, <1>4 DEF IInv

\* Process p does something and leaves the variables of the others alone; when it
\* touches a file it ends their quiet.
Alone(p) ==
    /\ UNCHANGED workspace
    /\ \A q \in Tools \ {p} :
          /\ pc'[q] = pc[q] /\ command'[q] = command[q] /\ rendered'[q] = rendered[q]
          /\ fresh'[q] = fresh[q] /\ result'[q] = result[q] /\ printed'[q] = printed[q]
          /\ \/ UNCHANGED files /\ quiet'[q] = quiet[q]
             \/ quiet'[q] = FALSE

\* It is then enough to look at p.
LEMMA OnlyActor ==
    ASSUME IInv, NEW p \in Tools, Alone(p), TypeInv', ToolInv(p)' PROVE IInv'
<1>1. ASSUME NEW q \in Tools \ {p} PROVE ToolInv(q)'
  BY <1>1, Bystander DEF IInv, Alone, files
<1> QED
  BY <1>1 DEF IInv

\* A command that ends, with a result that fits what there is then.
LEMMA EndsInv ==
    ASSUME IInv, NEW p \in Tools, NEW how, Ends(p, how), Alone(p),
           command' = [q \in Tools |-> command'[q]], quiet' \in [Tools -> BOOLEAN],
           printed' = [q \in Tools |-> printed'[q]],
           quiet'[p] => /\ command'[p].name \in Queries => Answered(p)'
                        /\ command'[p].name = "write" /\ how = "Ok" => Current'
                        /\ command'[p].name = "check" /\ how = "Ok" => Current'
                        /\ command'[p].name = "check" /\ how \in {"Stale", "Unreadable"}
                              => ~Current'
    PROVE  IInv'
<1>1. /\ pc' = [pc EXCEPT ![p] = "idle"] /\ result' = [result EXCEPT ![p] = how]
      /\ rendered' = [rendered EXCEPT ![p] = None] /\ fresh' = [fresh EXCEPT ![p] = FALSE]
  BY DEF Ends
<1>2. TypeInv'
  BY <1>1 DEF IInv, TypeInv, Alone, Steps
<1>3. pc'[p] = "idle" /\ result'[p] = how
  BY <1>1 DEF IInv, TypeInv
<1>4. ToolInv(p)'
  BY <1>3 DEF ToolInv, WorkInv, FilesInv, EndInv, Undisturbed
<1> QED
  BY <1>2, <1>4, OnlyActor

\* A command that begins: refused, answered at once, or set to work.
LEMMA BeginsInv ==
    ASSUME IInv, NEW p \in Tools, Refuse(p) \/ Discovers(p) \/ Answers(p) PROVE IInv'
<1>1. ASSUME NEW args \in CommandLines, Begins(p, args)
      PROVE  /\ pc[p] = "idle" /\ quiet' = [quiet EXCEPT ![p] = TRUE]
             /\ UNCHANGED <<workspace, files>>
             /\ command' = [q \in Tools |-> command'[q]]
             /\ quiet' \in [Tools -> BOOLEAN] /\ quiet'[p]
             /\ \A q \in Tools \ {p} : command'[q] = command[q] /\ quiet'[q] = quiet[q]
             /\ command'[p].name = (IF ParseError(args) = "Ok" THEN args[1] ELSE "none")
             /\ ParseError(args) = "Ok" => command'[p] = Parse(args)
  BY <1>1 DEF Begins, Parse, NoCommand, IInv, TypeInv, files
<1>2. CASE Refuse(p)
  <2>1. PICK args \in CommandLines :
            /\ ParseError(args) # "Ok" /\ Begins(p, args)
            /\ result' = [result EXCEPT ![p] = ParseError(args)]
            /\ printed' = [printed EXCEPT ![p] = None]
            /\ UNCHANGED <<pc, rendered, fresh>>
    BY <1>2 DEF Refuse
  <2>2. Alone(p)
    BY <1>1, <2>1 DEF Alone, IInv, TypeInv
  <2>3. TypeInv'
    BY <1>1, <2>1 DEF IInv, TypeInv
  <2>4. ToolInv(p)'
    BY <1>1, <2>1 DEF ToolInv, WorkInv, FilesInv, EndInv, Undisturbed, Queries, WithArgument
  <2> QED
    BY <2>2, <2>3, <2>4, OnlyActor
<1>3. CASE Discovers(p)
  <2>1. PICK args \in CommandLines :
            /\ ParseError(args) = "Ok" /\ args[1] \in {"write", "check"}
            /\ Begins(p, args)
            /\ printed' = [printed EXCEPT ![p] = None]
            /\ \/ /\ DiscoverError(workspace) = "Ok"
                  /\ pc' = [pc EXCEPT ![p] = IF args[1] = "write" THEN "truncateJson"
                                             ELSE "checkJson"]
                  /\ rendered' = [rendered EXCEPT ![p] = Discover(workspace)]
                  /\ result' = [result EXCEPT ![p] = "none"]
                  /\ UNCHANGED fresh
               \/ DiscoverError(workspace) # "Ok" /\ Ends(p, DiscoverError(workspace))
               \/ Ends(p, "Failed")
    BY <1>3 DEF Discovers
  <2>0. /\ printed' = [q \in Tools |-> printed'[q]] /\ command'[p].name \notin Queries
        /\ \A q \in Tools \ {p} : printed'[q] = printed[q]
    BY <1>1, <2>1 DEF Queries, WithArgument, IInv, TypeInv
  <2>2. CASE Ends(p, DiscoverError(workspace)) /\ DiscoverError(workspace) # "Ok"
    <3>1. Alone(p)
      BY <1>1, <2>0, <2>1, <2>2 DEF Alone, Ends, IInv, TypeInv
    <3>2. ~Current'
      BY <1>1, <2>0, <2>1, <2>2 DEF Current
    <3> QED
      BY <1>1, <2>0, <2>1, <2>2, <3>1, <3>2, EndsInv
  <2>3. CASE Ends(p, "Failed")
    <3>1. Alone(p)
      BY <1>1, <2>0, <2>1, <2>3 DEF Alone, Ends, IInv, TypeInv
    <3> QED
      BY <1>1, <2>0, <2>1, <2>3, <3>1, EndsInv
  <2>4. CASE /\ DiscoverError(workspace) = "Ok"
             /\ pc' = [pc EXCEPT ![p] = IF args[1] = "write" THEN "truncateJson"
                                        ELSE "checkJson"]
             /\ rendered' = [rendered EXCEPT ![p] = Discover(workspace)]
             /\ result' = [result EXCEPT ![p] = "none"]
             /\ UNCHANGED fresh
    <3>1. Alone(p)
      BY <1>1, <2>0, <2>1, <2>4 DEF Alone, IInv, TypeInv
    <3>2. TypeInv'
      BY <1>1, <2>0, <2>1, <2>4 DEF IInv, TypeInv, Steps
    <3>3. /\ pc'[p] = IF args[1] = "write" THEN "truncateJson" ELSE "checkJson"
          /\ rendered'[p] = Discover(workspace) /\ workspace' = workspace
          /\ command'[p].name = args[1] /\ args[1] \in {"write", "check"}
      BY <1>1, <2>0, <2>1, <2>4 DEF IInv, TypeInv
    <3>4. ToolInv(p)'
      BY <2>0, <2>4, <3>3 DEF ToolInv, WorkInv, FilesInv, EndInv, Undisturbed
    <3> QED
      BY <3>1, <3>2, <3>4, OnlyActor
  <2> QED
    BY <2>1, <2>2, <2>3, <2>4
<1>4. CASE Answers(p)
  <2>1. PICK args \in CommandLines, how \in {"Ok", "NotFound", "Failed", ReadError(json)},
             text \in {Answer(Parse(line), Parsed(json)) : line \in CommandLines} \cup {None} :
            /\ ParseError(args) = "Ok" /\ args[1] \notin {"write", "check"}
            /\ Begins(p, args) /\ Ends(p, how)
            /\ printed' = [printed EXCEPT ![p] = text]
            /\ how # "Failed" =>
                  IF ReadError(json) # "Ok" THEN how = ReadError(json)
                  ELSE IF Answerable(Parse(args), Parsed(json))
                  THEN how = "Ok" /\ text = Answer(Parse(args), Parsed(json))
                  ELSE how = "NotFound"
    BY <1>4 DEF Answers
  <2>2. Alone(p)
    BY <1>1, <2>1 DEF Alone, Ends, IInv, TypeInv
  <2>3. /\ printed' = [q \in Tools |-> printed'[q]] /\ printed'[p] = text
        /\ result'[p] = how /\ command'[p] = Parse(args) /\ UNCHANGED json
    BY <1>1, <2>1 DEF Ends, IInv, TypeInv, files
  <2>4. Answered(p)'
    BY <2>1, <2>3 DEF Answered
  <2> QED
    BY <1>1, <2>1, <2>2, <2>3, <2>4, EndsInv
<1> QED
  BY <1>2, <1>3, <1>4

\* The steps of a write that go on: each takes the files one step further.
LEMMA WriteInv ==
    ASSUME IInv, NEW p \in Tools,
           TruncateJson(p) \/ FillJson(p) \/ TruncateMarkdown(p)
    PROVE  IInv'
<1>1. /\ UNCHANGED <<workspace, command, rendered, fresh, result, printed>>
      /\ Disturbs(p)
      /\ \/ pc[p] = "truncateJson" /\ pc' = [pc EXCEPT ![p] = "fillJson"]
         \/ pc[p] = "fillJson" /\ pc' = [pc EXCEPT ![p] = "truncateMarkdown"]
         \/ pc[p] = "truncateMarkdown" /\ pc' = [pc EXCEPT ![p] = "fillMarkdown"]
  BY DEF TruncateJson, FillJson, TruncateMarkdown
<1>2. /\ quiet' \in [Tools -> BOOLEAN] /\ quiet'[p] = quiet[p]
      /\ \A q \in Tools \ {p} : quiet'[q] = FALSE
  BY <1>1 DEF Disturbs, IInv, TypeInv
<1>3. Alone(p)
  BY <1>1, <1>2 DEF Alone, IInv, TypeInv
<1>4. TypeInv'
  BY <1>1, <1>2 DEF IInv, TypeInv, Steps
<1>5. WorkInv(p) /\ FilesInv(p)
  BY DEF IInv, ToolInv
<1>6. /\ pc'[p] # "idle" /\ pc'[p] \notin {"checkJson", "checkMarkdown"}
      /\ pc[p] # "idle" /\ pc[p] \notin {"checkJson", "checkMarkdown"}
  BY <1>1 DEF IInv, TypeInv
<1>7. WorkInv(p)' /\ EndInv(p)'
  BY <1>1, <1>2, <1>5, <1>6 DEF WorkInv, EndInv, Undisturbed
<1>8. FilesInv(p)'
  <2>1. CASE TruncateJson(p)
    BY <1>1, <2>1 DEF TruncateJson, FilesInv, IInv, TypeInv
  <2>2. CASE FillJson(p)
    BY <1>1, <1>2, <1>5, <2>2 DEF FillJson, Overwritten, FilesInv, IInv, TypeInv
  <2>3. CASE TruncateMarkdown(p)
    BY <1>1, <1>2, <1>5, <2>3 DEF TruncateMarkdown, FilesInv, IInv, TypeInv
  <2> QED
    BY <2>1, <2>2, <2>3
<1> QED
  BY <1>3, <1>4, <1>7, <1>8, OnlyActor DEF ToolInv

\* A write that ends: with both files as rendered, or failed.
LEMMA WriteEndsInv ==
    ASSUME IInv, NEW p \in Tools, FillMarkdown(p) \/ WriteFails(p) PROVE IInv'
<1>1. /\ UNCHANGED <<workspace, command, printed>> /\ Disturbs(p)
      /\ pc[p] \in {"truncateJson", "fillJson", "truncateMarkdown", "fillMarkdown"}
  BY DEF FillMarkdown, WriteFails
<1>2. /\ quiet' \in [Tools -> BOOLEAN] /\ quiet'[p] = quiet[p]
      /\ \A q \in Tools \ {p} : quiet'[q] = FALSE
      /\ command' = [q \in Tools |-> command'[q]]
      /\ printed' = [q \in Tools |-> printed'[q]]
  BY <1>1 DEF Disturbs, IInv, TypeInv
<1>3. WorkInv(p) /\ FilesInv(p)
  BY DEF IInv, ToolInv
<1>4. command'[p].name = "write" /\ command'[p].name \notin Queries
  BY <1>1, <1>3 DEF WorkInv, Queries, WithArgument
<1>5. CASE FillMarkdown(p)
  <2>1. Ends(p, "Ok") /\ UNCHANGED json /\ pc[p] = "fillMarkdown"
    BY <1>5 DEF FillMarkdown
  <2>2. Alone(p)
    BY <1>1, <1>2, <2>1 DEF Alone, Ends, IInv, TypeInv
  <2>3. quiet[p] => Current'
    BY <1>1, <1>3, <1>5, <2>1
    DEF FillMarkdown, Overwritten, WorkInv, FilesInv, Current
  <2> QED
    BY <1>2, <1>4, <2>1, <2>2, <2>3, EndsInv
<1>6. CASE WriteFails(p)
  <2>1. Ends(p, "Failed")
    BY <1>6 DEF WriteFails
  <2>2. Alone(p)
    BY <1>1, <1>2, <2>1 DEF Alone, Ends, IInv, TypeInv
  <2> QED
    BY <1>2, <1>4, <2>1, <2>2, EndsInv
<1> QED
  BY <1>5, <1>6

\* The steps of a check: what it has seen of index.json is still so when it has seen
\* index.md.
LEMMA CheckInv ==
    ASSUME IInv, NEW p \in Tools, CheckJson(p) \/ CheckMarkdown(p) \/ CheckFails(p)
    PROVE  IInv'
<1>1. /\ UNCHANGED <<workspace, files, command, printed, quiet>>
      /\ pc[p] \in {"checkJson", "checkMarkdown"}
  BY DEF CheckJson, CheckMarkdown, CheckFails
<1>2. WorkInv(p) /\ FilesInv(p)
  BY DEF IInv, ToolInv
<1>3. /\ command'[p].name = "check" /\ command'[p].name \notin Queries
      /\ printed' = [q \in Tools |-> printed'[q]]
      /\ command' = [q \in Tools |-> command'[q]] /\ quiet' \in [Tools -> BOOLEAN]
      /\ workspace \in Workspaces
  BY <1>1, <1>2 DEF WorkInv, IInv, TypeInv, Queries, WithArgument
<1>4. ASSUME NEW how, Ends(p, how),
             quiet[p] /\ how = "Ok" => Current,
             quiet[p] /\ how \in {"Stale", "Unreadable"} => ~Current
      PROVE  IInv'
  <2>1. Alone(p)
    BY <1>1, <1>4 DEF Alone, Ends, IInv, TypeInv
  <2>2. Current' = Current
    BY <1>1 DEF Current, files
  <2> QED
    BY <1>1, <1>3, <1>4, <2>1, <2>2, EndsInv
<1>5. quiet[p] => /\ DiscoverError(workspace) = "Ok" /\ rendered[p] = Discover(workspace)
                  /\ Json(rendered[p]) # Missing /\ Markdown(rendered[p]) # Missing
  BY <1>1, <1>2, <1>3, RenderedAssumption DEF WorkInv
<1>6. CASE CheckFails(p)
  BY <1>4, <1>6 DEF CheckFails
<1>7. CASE CheckMarkdown(p)
  <2>1. quiet[p] => fresh[p] = (json = Json(rendered[p]))
    BY <1>2, <1>7 DEF CheckMarkdown, FilesInv
  <2>2. CASE markdown = Missing
    BY <1>4, <1>5, <1>7, <2>2 DEF CheckMarkdown, Current
  <2>3. CASE markdown # Missing /\ UpToDate(p)
    BY <1>4, <1>5, <1>7, <2>1, <2>3 DEF CheckMarkdown, Current, UpToDate
  <2>4. CASE markdown # Missing /\ ~UpToDate(p)
    BY <1>4, <1>5, <1>7, <2>1, <2>4 DEF CheckMarkdown, Current, UpToDate
  <2> QED
    BY <2>2, <2>3, <2>4
<1>8. CASE CheckJson(p)
  <2>1. CASE json = Missing
    BY <1>4, <1>5, <1>8, <2>1 DEF CheckJson, Current
  <2>2. CASE json # Missing
    <3>1. /\ fresh' = [fresh EXCEPT ![p] = (json = Json(rendered[p]))]
          /\ pc' = [pc EXCEPT ![p] = "checkMarkdown"]
          /\ UNCHANGED <<result, rendered>>
      BY <1>8, <2>2 DEF CheckJson
    <3>2. Alone(p)
      BY <1>1, <3>1 DEF Alone, IInv, TypeInv
    <3>3. TypeInv'
      BY <1>1, <3>1 DEF IInv, TypeInv, Steps
    <3>4. /\ fresh'[p] = (json = Json(rendered[p])) /\ pc'[p] = "checkMarkdown"
      BY <3>1 DEF IInv, TypeInv
    <3>5. ToolInv(p)'
      BY <1>1, <1>2, <3>1, <3>4
      DEF ToolInv, WorkInv, FilesInv, EndInv, Undisturbed, files
    <3> QED
      BY <3>2, <3>3, <3>5, OnlyActor
  <2> QED
    BY <2>1, <2>2
<1> QED
  BY <1>6, <1>7, <1>8
-----------------------------------------------------------------------------
\* Every step preserves the invariant.
LEMMA NextInv == IInv /\ [Next]_vars => IInv'
<1> SUFFICES ASSUME IInv, [Next]_vars PROVE IInv'
  OBVIOUS
<1>1. CASE Develop \/ HandEdit
  BY <1>1, EnvironmentInv
<1>2. ASSUME NEW p \in Tools,
             \/ Refuse(p) \/ Discovers(p) \/ Answers(p)
             \/ TruncateJson(p) \/ FillJson(p) \/ TruncateMarkdown(p) \/ FillMarkdown(p)
             \/ WriteFails(p) \/ CheckJson(p) \/ CheckMarkdown(p) \/ CheckFails(p)
      PROVE  IInv'
  BY <1>2, BeginsInv, WriteInv, WriteEndsInv, CheckInv
<1>3. CASE UNCHANGED vars
  <2>1. TypeInv'
    BY <1>3 DEF vars, files, IInv, TypeInv
  <2>2. ASSUME NEW p \in Tools PROVE ToolInv(p)'
    BY <1>3, Bystander DEF vars, files, IInv
  <2> QED
    BY <2>1, <2>2 DEF IInv
<1> QED
  BY <1>1, <1>2, <1>3 DEF Next

\* The invariant holds in every reachable state.
THEOREM Invariance == Spec => []IInv
<1> QED
  BY InitInv, NextInv, PTL DEF Spec

\* An undisturbed write that reports success leaves both files current.
THEOREM WritesRepair == Spec => []WriteRepairs
<1>1. IInv => WriteRepairs
  BY DEF IInv, ToolInv, EndInv, WriteRepairs
<1> QED
  BY <1>1, Invariance, PTL

\* An undisturbed check tells exactly whether both files are current.
THEOREM ChecksTell == Spec => []CheckTellsFreshness
<1>1. IInv => CheckTellsFreshness
  BY DEF IInv, ToolInv, EndInv, CheckTellsFreshness
<1> QED
  BY <1>1, Invariance, PTL

\* The reader accepts exactly the canonical documents: its pass over neighbours and
\* its checks one after another are the order, the uniqueness and the shapes that the
\* catalog's documentation asks of the whole.
THEOREM ReadersAreStrict == Spec => []AcceptsExactlyCanonical
<1>1. IInv => AcceptsExactlyCanonical
  <2> SUFFICES ASSUME IInv, NEW p \in Tools, Undisturbed(p, "validate"),
                      result[p] # "Failed"
               PROVE  result[p] = "Ok" <=> /\ json \notin {Missing, Empty, Torn}
                                           /\ WellFormed(json)
                                           /\ Canonical(Parsed(json))
    BY DEF AcceptsExactlyCanonical
  <2>1. Answered(p) /\ command[p].name = "validate"
    BY DEF IInv, ToolInv, EndInv, Undisturbed, Queries
  <2>2. Answerable(command[p], Parsed(json))
    BY <2>1 DEF Answerable
  <2>3. result[p] = "Ok" <=> ReadError(json) = "Ok"
    BY <2>1, <2>2 DEF Answered
  <2>4. json \in {Missing, Empty, Torn} => ReadError(json) # "Ok"
    BY DEF ReadError
  <2> QED
    BY <2>3, <2>4, ReaderIsStrict
<1> QED
  BY <1>1, Invariance, PTL

\* The answers of two processes to two queries of one catalog agree.
THEOREM QueriesAgree == Spec => []AnswersAgree
<1>1. IInv => AnswersAgree
  <2> SUFFICES ASSUME IInv, NEW p \in Tools, NEW q \in Tools
               PROVE  /\ Undisturbed(p, "deps") /\ Undisturbed(q, "dependents")
                           /\ result[p] = "Ok" /\ result[q] = "Ok" =>
                         \A group \in Groups :
                            (\E k \in DOMAIN printed[p][group] :
                                printed[p][group][k] = command[q].argument)
                              <=> (\E k \in DOMAIN printed[q][group] :
                                      printed[q][group][k] = command[p].argument)
                      /\ Undisturbed(p, "show") /\ Undisturbed(q, "show-package")
                           /\ result[p] = "Ok" /\ result[q] # "Failed"
                           /\ printed[p].cargoPackage = command[q].argument =>
                         result[q] = "Ok" /\ printed[q] = printed[p]
    BY DEF AnswersAgree
  <2> DEFINE index == Parsed(json)
  <2>1. ASSUME NEW r \in Tools, Undisturbed(r, command[r].name),
               command[r].name \in Queries, result[r] = "Ok"
        PROVE  /\ ReadError(json) = "Ok" /\ Answerable(command[r], index)
               /\ printed[r] = Answer(command[r], index)
    <3>1. Answered(r)
      BY <2>1 DEF IInv, ToolInv, EndInv, Undisturbed
    <3> QED
      BY <2>1, <3>1 DEF Answered
  <2>2. ASSUME Undisturbed(p, "deps"), Undisturbed(q, "dependents"),
               result[p] = "Ok", result[q] = "Ok", NEW group \in Groups
        PROVE  (\E k \in DOMAIN printed[p][group] :
                   printed[p][group][k] = command[q].argument)
                 <=> (\E k \in DOMAIN printed[q][group] :
                         printed[q][group][k] = command[p].argument)
    <3>1. /\ command[p].name = "deps" /\ command[q].name = "dependents"
          /\ command[p].name \in Queries /\ command[q].name \in Queries
      BY <2>2 DEF Undisturbed, Queries, WithArgument
    <3>2. /\ ReadError(json) = "Ok"
          /\ Answerable(command[p], index)
          /\ printed[p] = Answer(command[p], index)
          /\ printed[q] = Answer(command[q], index)
      BY <2>1, <2>2, <3>1 DEF Undisturbed
    <3>3. IsIndex(index)
      BY <3>2, ReadIsIndex
    <3> HIDE DEF index
    <3>4. /\ printed[p] = ShownDependencies(
                              Lookup(index, "path", command[p].argument).dependencies)
          /\ Found(index, "path", command[p].argument)
      BY <3>1, <3>2 DEF Answer, Answerable
    <3>5. printed[q] = ShownDependents(DirectDependents(index, command[q].argument))
      BY <3>1, <3>2 DEF Answer
    <3> QED
      BY <3>3, <3>4, <3>5, EdgesAgree
  <2>3. ASSUME Undisturbed(p, "show"), Undisturbed(q, "show-package"),
               result[p] = "Ok", result[q] # "Failed",
               printed[p].cargoPackage = command[q].argument
        PROVE  result[q] = "Ok" /\ printed[q] = printed[p]
    <3>1. /\ command[p].name = "show" /\ command[q].name = "show-package"
          /\ command[p].name \in Queries /\ command[q].name \in Queries
      BY <2>3 DEF Undisturbed, Queries, WithArgument
    <3>2. /\ ReadError(json) = "Ok"
          /\ Answerable(command[p], index)
          /\ printed[p] = Answer(command[p], index)
      BY <2>1, <2>3, <3>1 DEF Undisturbed
    <3>3. /\ IsIndex(index) /\ Canonical(index)
          /\ \A artifact \in Range(index.artifacts) :
                DOMAIN artifact = RequiredFields \cup OptionalFields
      BY <3>2, ReadIsIndex
    <3>4. Answered(q)
      BY <2>3, <3>1 DEF IInv, ToolInv, EndInv, Undisturbed
    <3>5. IF Answerable(command[q], index)
          THEN result[q] = "Ok" /\ printed[q] = Answer(command[q], index)
          ELSE result[q] = "NotFound"
      BY <2>3, <3>2, <3>4 DEF Answered
    <3> HIDE DEF index
    <3>6. /\ printed[p] = Shown(Lookup(index, "path", command[p].argument))
          /\ Found(index, "path", command[p].argument)
      BY <3>1, <3>2 DEF Answer, Answerable
    <3>7. /\ Found(index, "cargoPackage", command[q].argument)
          /\ Lookup(index, "cargoPackage", command[q].argument)
                = Lookup(index, "path", command[p].argument)
      BY <2>3, <3>3, <3>6, ShowsAgree
    <3>8. /\ Answerable(command[q], index)
          /\ Answer(command[q], index)
                = Shown(Lookup(index, "cargoPackage", command[q].argument))
      BY <3>1, <3>7 DEF Answer, Answerable
    <3> QED
      BY <3>5, <3>6, <3>7, <3>8
  <2> QED
    BY <2>2, <2>3
<1> QED
  BY <1>1, Invariance, PTL

\* Whatever the workspace becomes, the catalog generated from it has every manifest
\* below a catalog root, and the reader takes it unless a directory has a backslash.
THEOREM GeneratedAreFaithful == Spec => []GeneratedIsFaithful
<1>1. IInv => GeneratedIsFaithful
  BY GenerationIsFaithful DEF IInv, TypeInv, GeneratedIsFaithful
<1> QED
  BY <1>1, Invariance, PTL
=============================================================================
