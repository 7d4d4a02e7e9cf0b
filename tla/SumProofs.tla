----------------------------- MODULE SumProofs -----------------------------
(***************************************************************************)
(* Sums over finite sets: of a coupon's events, of a customer's orders.    *)
(* The facts about them are proved by induction over the subsets of the    *)
(* set, whose strict inclusion is well-founded.                            *)
(***************************************************************************)
EXTENDS Functions, Integers, FiniteSetTheorems, TLAPS

\* Induction over the subsets of a finite set, for those in a set G.
LEMMA SubsetInduction ==
    ASSUME NEW S, IsFiniteSet(S), NEW G, {} \in G,
           \A s \in SUBSET S : s # {} /\ (\A x \in s : s \ {x} \in G) => s \in G
    PROVE  \A s \in SUBSET S : s \in G
  <1> DEFINE bad == {s \in SUBSET S : s \notin G}
             R == StrictSubsetOrdering(S)
  <1>1. IsWellFoundedOn(R, SUBSET S)
    BY FS_FiniteSubsetsOfFinite, FS_StrictSubsetOrderingWellFounded
  <1>2. SUFFICES ASSUME bad # {}
                 PROVE  FALSE
    OBVIOUS
  <1>3. bad \subseteq SUBSET S
    OBVIOUS
  <1>4. PICK s \in bad : \A r \in bad : ~(<<r, s>> \in R)
    <2> HIDE DEF R, bad
    <2> QED BY <1>1, <1>2, <1>3, WFMin
  <1>5. PICK x \in s : s \ {x} \notin G
    BY <1>4
  <1>6. <<s \ {x}, s>> \in R /\ s \ {x} \in bad
    BY <1>4, <1>5 DEF StrictSubsetOrdering
  <1> QED BY <1>4, <1>6

\* The sum of the values of f over a finite set S: what MapThenSumSet makes of
\* it, by a table of the sums over all subsets.
First(s) == CHOOSE x \in s : TRUE

Row(f, g, s) == IF s = {} THEN 0 ELSE f[First(s)] + g[s \ {First(s)}]

IsTable(f, S, g) == g = [s \in SUBSET S |-> Row(f, g, s)]

SumOf(f, S) == (CHOOSE g : IsTable(f, S, g))[S]

LEMMA FirstIn ==
    ASSUME NEW s, s # {}
    PROVE  First(s) \in s
  BY DEF First

LEMMA TableRow ==
    ASSUME NEW f, NEW S, NEW g, IsTable(f, S, g), NEW s \in SUBSET S
    PROVE  /\ s = {} => g[s] = 0
           /\ s # {} => g[s] = f[First(s)] + g[s \ {First(s)}]
  <1>1. g = [r \in SUBSET S |-> Row(f, g, r)]
    BY DEF IsTable
  <1>2. g[s] = Row(f, g, s)
    BY <1>1
  <1> QED BY <1>2 DEF Row

\* Two tables agree.
LEMMA TablesAgree ==
    ASSUME NEW f, NEW S, IsFiniteSet(S), NEW g, NEW T, NEW h,
           IsTable(f, T, g), IsTable(f, S, h), S \subseteq T
    PROVE  \A s \in SUBSET S : g[s] = h[s]
  <1> DEFINE G == {s \in SUBSET S : g[s] = h[s]}
  <1>1. {} \in G
    BY TableRow
  <1>2. ASSUME NEW s \in SUBSET S, s # {}, \A x \in s : s \ {x} \in G
        PROVE  s \in G
    <2>1. g[s \ {First(s)}] = h[s \ {First(s)}]
      BY <1>2, FirstIn
    <2>2. /\ g[s] = f[First(s)] + g[s \ {First(s)}]
          /\ h[s] = f[First(s)] + h[s \ {First(s)}]
      BY <1>2, TableRow
    <2> QED BY <2>1, <2>2
  <1> HIDE DEF G
  <1>3. \A s \in SUBSET S : s \in G
    BY <1>1, <1>2, SubsetInduction
  <1> QED BY <1>3 DEF G

\* A part of a table is a table.
LEMMA TablePart ==
    ASSUME NEW f, NEW S, NEW g, IsTable(f, S, g), NEW T \in SUBSET S
    PROVE  \E h : IsTable(f, T, h)
  <1> DEFINE h == [s \in SUBSET T |-> g[s]]
  <1>1. \A s \in SUBSET T : g[s] = Row(f, g, s)
    BY TableRow DEF Row
  <1>2. ASSUME NEW s \in SUBSET T
        PROVE  Row(f, g, s) = Row(f, h, s)
    <2>1. s \ {First(s)} \in SUBSET T
      OBVIOUS
    <2>2. h[s \ {First(s)}] = g[s \ {First(s)}]
      BY <2>1
    <2> HIDE DEF h
    <2> QED BY <2>2 DEF Row
  <1>3. h = [s \in SUBSET T |-> Row(f, h, s)]
    <2>1. \A s \in SUBSET T : g[s] = Row(f, h, s)
      BY <1>1, <1>2
    <2>2. [s \in SUBSET T |-> g[s]] = [s \in SUBSET T |-> Row(f, h, s)]
      <3> HIDE DEF h
      <3> QED BY <2>1
    <2> QED BY <2>2
  <1> HIDE DEF h
  <1> QED BY <1>3 DEF IsTable

\* What a table says, said of the sum.
LEMMA SumRow ==
    ASSUME NEW f, NEW S, IsFiniteSet(S), \E g : IsTable(f, S, g)
    PROVE  /\ S = {} => SumOf(f, S) = 0
           /\ S # {} => SumOf(f, S) = f[First(S)] + SumOf(f, S \ {First(S)})
  <1> DEFINE g == CHOOSE t : IsTable(f, S, t)
             T == S \ {First(S)}
             h == CHOOSE t : IsTable(f, T, t)
  <1>1. IsTable(f, S, g)
    OBVIOUS
  <1>2. IsTable(f, T, h)
    <2>1. T \in SUBSET S
      OBVIOUS
    <2>2. \E t : IsTable(f, T, t)
      BY <1>1, <2>1, TablePart
    <2> HIDE DEF T
    <2> QED BY <2>2
  <1>3. SumOf(f, S) = g[S] /\ SumOf(f, T) = h[T]
    BY DEF SumOf
  <1> HIDE DEF g, h
  <1>4. g[T] = h[T]
    <2>1. IsFiniteSet(T) /\ T \subseteq S
      BY FS_Subset
    <2> HIDE DEF T
    <2> QED BY <1>1, <1>2, <2>1, TablesAgree
  <1>5. /\ S = {} => g[S] = 0
        /\ S # {} => g[S] = f[First(S)] + g[T]
    BY <1>1, TableRow
  <1> QED BY <1>3, <1>4, <1>5

\* Every finite set has a table.
LEMMA TableExists ==
    ASSUME NEW S, IsFiniteSet(S), NEW f
    PROVE  \A s \in SUBSET S : \E g : IsTable(f, s, g)
  <1> DEFINE G == {s \in SUBSET S : \E g : IsTable(f, s, g)}
  <1>1. {} \in G
    <2> DEFINE g == [s \in SUBSET {} |-> 0]
    <2>1. \A s \in SUBSET {} : Row(f, g, s) = 0
      BY DEF Row
    <2>2. g = [s \in SUBSET {} |-> Row(f, g, s)]
      <3>1. [s \in SUBSET {} |-> 0] = [s \in SUBSET {} |-> Row(f, g, s)]
        <4> HIDE DEF g
        <4> QED BY <2>1
      <3> QED BY <3>1
    <2> HIDE DEF g
    <2> QED BY <2>2 DEF IsTable
  <1>2. ASSUME NEW s \in SUBSET S, s # {}, \A x \in s : s \ {x} \in G
        PROVE  s \in G
    <2> DEFINE all == f[First(s)] + SumOf(f, s \ {First(s)})
               val(r) == IF r = s THEN all ELSE SumOf(f, r)
               g == [r \in SUBSET s |-> val(r)]
    <2>1. ASSUME NEW r \in SUBSET s, r # s
          PROVE  /\ r = {} => SumOf(f, r) = 0
                 /\ r # {} => SumOf(f, r) = f[First(r)] + SumOf(f, r \ {First(r)})
      <3>1. PICK x \in s : x \notin r
        BY <2>1
      <3>2. PICK h : IsTable(f, s \ {x}, h)
        BY <1>2, <3>1
      <3>3. \E t : IsTable(f, r, t)
        BY <3>1, <3>2, TablePart
      <3>4. IsFiniteSet(r)
        BY FS_Subset
      <3> QED BY <3>3, <3>4, SumRow
    <2>2. ASSUME NEW r \in SUBSET s
          PROVE  val(r) = Row(f, g, r)
      <3>1. r \ {First(r)} \in SUBSET s
        OBVIOUS
      <3>2. g[r \ {First(r)}] = val(r \ {First(r)})
        BY <3>1
      <3>3. r # {} => r \ {First(r)} # s
        BY FirstIn
      <3>4. r # {} => g[r \ {First(r)}] = SumOf(f, r \ {First(r)})
        BY <3>2, <3>3
      <3>5. r # {} => val(r) = f[First(r)] + SumOf(f, r \ {First(r)})
        BY <2>1
      <3>6. r = {} => val(r) = 0
        BY <1>2, <2>1
      <3> HIDE DEF g, val
      <3> QED BY <3>4, <3>5, <3>6 DEF Row
    <2>3. g = [r \in SUBSET s |-> Row(f, g, r)]
      <3>1. [r \in SUBSET s |-> val(r)] = [r \in SUBSET s |-> Row(f, g, r)]
        <4> HIDE DEF g, val
        <4> QED BY <2>2
      <3> QED BY <3>1
    <2> HIDE DEF g
    <2> QED BY <2>3 DEF IsTable
  <1> HIDE DEF G
  <1>3. \A s \in SUBSET S : s \in G
    BY <1>1, <1>2, SubsetInduction
  <1> QED BY <1>3 DEF G

\* How a sum over a finite set is made up.
LEMMA SumParts ==
    ASSUME NEW S, IsFiniteSet(S), NEW f
    PROVE  \A s \in SUBSET S :
              /\ s = {} => SumOf(f, s) = 0
              /\ s # {} => SumOf(f, s) = f[First(s)] + SumOf(f, s \ {First(s)})
  BY TableExists, SumRow, FS_Subset

LEMMA NoSum ==
    ASSUME NEW f
    PROVE  SumOf(f, {}) = 0
  <1>1. IsFiniteSet({}) /\ {} \in SUBSET {}
    BY FS_EmptySet
  <1> QED BY <1>1, SumParts

\* A sum of integers is one.
LEMMA SumInt ==
    ASSUME NEW S, IsFiniteSet(S), NEW f \in [S -> Int]
    PROVE  \A s \in SUBSET S : SumOf(f, s) \in Int
  <1> DEFINE G == {s \in SUBSET S : SumOf(f, s) \in Int}
  <1>1. {} \in G
    BY NoSum
  <1>2. ASSUME NEW s \in SUBSET S, s # {}, \A x \in s : s \ {x} \in G
        PROVE  s \in G
    <2>1. First(s) \in s /\ SumOf(f, s \ {First(s)}) \in Int
      BY <1>2, FirstIn
    <2>2. SumOf(f, s) = f[First(s)] + SumOf(f, s \ {First(s)})
      BY <1>2, SumParts
    <2> QED BY <2>1, <2>2
  <1> HIDE DEF G
  <1>3. \A s \in SUBSET S : s \in G
    BY <1>1, <1>2, SubsetInduction
  <1> QED BY <1>3 DEF G

\* One value changes.
LEMMA SumChange ==
    ASSUME NEW S, IsFiniteSet(S), NEW f \in [S -> Int], NEW h \in [S -> Int],
           NEW x \in S, \A y \in S : y # x => h[y] = f[y]
    PROVE  SumOf(h, S) = SumOf(f, S) + (h[x] - f[x])
  <1> DEFINE d(s) == IF x \in s THEN h[x] - f[x] ELSE 0
             G == {s \in SUBSET S : SumOf(h, s) = SumOf(f, s) + d(s)}
  <1>1. {} \in G
    BY NoSum
  <1>2. ASSUME NEW s \in SUBSET S, s # {}, \A y \in s : s \ {y} \in G
        PROVE  s \in G
    <2> DEFINE y == First(s)
               r == s \ {y}
    <2>1. y \in s /\ y \in S /\ r \in SUBSET S
      BY <1>2, FirstIn
    <2>2. SumOf(h, r) = SumOf(f, r) + d(r)
      BY <1>2, <2>1
    <2>3. /\ SumOf(f, s) = f[y] + SumOf(f, r)
          /\ SumOf(h, s) = h[y] + SumOf(h, r)
      BY <1>2, SumParts
    <2>4. SumOf(f, r) \in Int /\ SumOf(f, s) \in Int /\ SumOf(h, r) \in Int
      BY <2>1, SumInt
    <2>5. f[y] \in Int /\ h[y] \in Int /\ f[x] \in Int /\ h[x] \in Int
      BY <2>1
    <2>6. CASE y = x
      <3>1. d(r) = 0 /\ d(s) = h[x] - f[x]
        BY <2>1, <2>6
      <3> HIDE DEF y, r, d
      <3>2. SumOf(h, s) = SumOf(f, s) + d(s)
        BY <2>2, <2>3, <2>4, <2>5, <2>6, <3>1
      <3> QED BY <3>2
    <2>7. CASE y # x
      <3>1. d(r) = d(s) /\ h[y] = f[y] /\ d(s) \in Int
        BY <2>1, <2>5, <2>7
      <3> HIDE DEF y, r, d
      <3>2. SumOf(h, s) = SumOf(f, s) + d(s)
        BY <2>2, <2>3, <2>4, <2>5, <3>1
      <3> QED BY <3>2
    <2> QED BY <2>6, <2>7
  <1> HIDE DEF G
  <1>3. \A s \in SUBSET S : s \in G
    BY <1>1, <1>2, SubsetInduction
  <1>4. S \in G
    BY <1>3
  <1> QED BY <1>4 DEF G

\* No value falls.
LEMMA SumGrows ==
    ASSUME NEW S, IsFiniteSet(S), NEW f \in [S -> Int], NEW h \in [S -> Int],
           \A y \in S : f[y] <= h[y]
    PROVE  SumOf(f, S) <= SumOf(h, S)
  <1> DEFINE G == {s \in SUBSET S : SumOf(f, s) <= SumOf(h, s)}
  <1>1. {} \in G
    BY NoSum
  <1>2. ASSUME NEW s \in SUBSET S, s # {}, \A y \in s : s \ {y} \in G
        PROVE  s \in G
    <2> DEFINE y == First(s)
               r == s \ {y}
    <2>1. y \in s /\ y \in S /\ r \in SUBSET S
      BY <1>2, FirstIn
    <2>2. SumOf(f, r) <= SumOf(h, r) /\ f[y] <= h[y]
      BY <1>2, <2>1
    <2>3. /\ SumOf(f, s) = f[y] + SumOf(f, r)
          /\ SumOf(h, s) = h[y] + SumOf(h, r)
      BY <1>2, SumParts
    <2>4. /\ SumOf(f, r) \in Int /\ SumOf(h, r) \in Int
          /\ f[y] \in Int /\ h[y] \in Int
      BY <2>1, SumInt
    <2> HIDE DEF y, r
    <2>5. SumOf(f, s) <= SumOf(h, s)
      BY <2>2, <2>3, <2>4
    <2> QED BY <2>5
  <1> HIDE DEF G
  <1>3. \A s \in SUBSET S : s \in G
    BY <1>1, <1>2, SubsetInduction
  <1>4. S \in G
    BY <1>3
  <1> QED BY <1>4 DEF G

\* Values that are all 0.
LEMMA SumZero ==
    ASSUME NEW S, IsFiniteSet(S), NEW f, \A y \in S : f[y] = 0
    PROVE  SumOf(f, S) = 0
  <1> DEFINE G == {s \in SUBSET S : SumOf(f, s) = 0}
  <1>1. {} \in G
    BY NoSum
  <1>2. ASSUME NEW s \in SUBSET S, s # {}, \A y \in s : s \ {y} \in G
        PROVE  s \in G
    <2>1. First(s) \in s /\ SumOf(f, s \ {First(s)}) = 0
      BY <1>2, FirstIn
    <2>2. SumOf(f, s) = f[First(s)] + SumOf(f, s \ {First(s)})
      BY <1>2, SumParts
    <2>3. f[First(s)] = 0
      BY <2>1
    <2> QED BY <2>1, <2>2, <2>3
  <1> HIDE DEF G
  <1>3. \A s \in SUBSET S : s \in G
    BY <1>1, <1>2, SubsetInduction
  <1>4. S \in G
    BY <1>3
  <1> QED BY <1>4 DEF G

\* No value is more than the sum of values that are not negative.
LEMMA SumCovers ==
    ASSUME NEW S, IsFiniteSet(S), NEW f \in [S -> Int],
           \A y \in S : f[y] >= 0, NEW x \in S
    PROVE  f[x] <= SumOf(f, S)
  <1> DEFINE zero == [y \in S |-> 0]
             only == [y \in S |-> IF y = x THEN f[x] ELSE 0]
  <1>1. zero \in [S -> Int] /\ only \in [S -> Int]
    OBVIOUS
  <1>2. \A y \in S : zero[y] = 0 /\ only[y] <= f[y]
    OBVIOUS
  <1>3. \A y \in S : y # x => only[y] = zero[y]
    OBVIOUS
  <1>4. only[x] = f[x] /\ zero[x] = 0 /\ f[x] \in Int
    OBVIOUS
  <1> HIDE DEF zero, only
  <1>5. SumOf(zero, S) = 0
    BY <1>2, SumZero
  <1>6. SumOf(only, S) = SumOf(zero, S) + (only[x] - zero[x])
    BY <1>1, <1>3, SumChange
  <1>7. SumOf(only, S) <= SumOf(f, S)
    BY <1>1, <1>2, SumGrows
  <1>8. SumOf(f, S) \in Int /\ SumOf(only, S) \in Int
    BY <1>1, SumInt
  <1> QED BY <1>4, <1>5, <1>6, <1>7, <1>8

\* The folds of the properties are these sums.
LEMMA FoldIsSum ==
    ASSUME NEW f
    PROVE  FoldFunction(+, 0, f) = SumOf(f, DOMAIN f)
  BY DEF FoldFunction, FoldFunctionOnSet, MapThenFoldSet, SumOf, IsTable, Row, First
=============================================================================
