---------------------------- MODULE SumTheorems -----------------------------
(***************************************************************************)
(* Sums over finite sets, as balances and totals are written in this       *)
(* project: MapThenSumSet.  The definition folds a set in an order that    *)
(* CHOOSE picks; the theorems say that the order does not matter and how a *)
(* sum follows a change of its terms.                                      *)
(*                                                                         *)
(* Induction is on a set of good cases, an ordinary parameter, instead of  *)
(* on a predicate.                                                         *)
(***************************************************************************)
EXTENDS Integers, FiniteSets, FiniteSetsExt, FiniteSetTheorems, WellFoundedInduction, TLAPS

\* The sum of g[x] for x in S.
SumOf(g, S) == MapThenSumSet(LAMBDA x : g[x], S)

\* The element that the fold takes out of a set next.
Taken(s) == CHOOSE x \in s : TRUE

\* it is the table of partial sums that the definition of the fold builds.
IsFold(it, g, U) ==
  it = [s \in SUBSET U |-> IF s = {} THEN 0 ELSE g[Taken(s)] + it[s \ {Taken(s)}]]

-----------------------------------------------------------------------------
\* A set of numbers that has 0, and the successor of what it has, has them all.
LEMMA NumbersByInduction ==
  ASSUME NEW G, 0 \in G, \A n \in Nat : n \in G => n + 1 \in G
  PROVE  \A n \in Nat : n \in G
<1> SUFFICES ASSUME NEW k \in Nat, k \notin G PROVE FALSE
  OBVIOUS
<1> DEFINE T == {n \in Nat : n \notin G}
<1>1. T \subseteq Nat /\ T # {}
  OBVIOUS
<1> HIDE DEF T
<1>2. \E x \in T : \A y \in T : ~(<<y, x>> \in OpToRel(<, Nat))
  BY <1>1, NatLessThanWellFounded, WFMin
<1>3. ASSUME NEW x \in Nat, NEW y \in Nat, y < x
      PROVE  <<y, x>> \in OpToRel(<, Nat)
  BY <1>3 DEF OpToRel
<1>4. PICK x \in T : \A y \in T : ~(<<y, x>> \in OpToRel(<, Nat))
  BY <1>2
<1>5. x \in Nat /\ x \notin G /\ x # 0
  BY DEF T
<1>6. x - 1 \in Nat /\ x - 1 < x /\ (x - 1) + 1 = x
  BY <1>5
<1>7. x - 1 \notin T
  BY <1>3, <1>4, <1>5, <1>6, Zenon
<1>8. x - 1 \in G
  BY <1>6, <1>7 DEF T
<1> QED BY <1>5, <1>6, <1>8

\* A set of subsets of S that has the empty set, and with every set the sets
\* one element larger, has S.
LEMMA SetsByInduction ==
  ASSUME NEW S, IsFiniteSet(S), NEW G, {} \in G,
         \A s \in SUBSET S : \A a \in S \ s : s \in G => s \cup {a} \in G
  PROVE  S \in G
<1> DEFINE N == {n \in Nat : \A s \in SUBSET S : Cardinality(s) = n => s \in G}
<1>1. \A s \in SUBSET S : IsFiniteSet(s) /\ Cardinality(s) \in Nat
  BY FS_Subset, FS_CardinalityType
<1>2. 0 \in N
  <2>1. \A s \in SUBSET S : Cardinality(s) = 0 => s = {}
    BY <1>1, FS_EmptySet
  <2> QED BY <2>1
<1>3. ASSUME NEW n \in Nat, n \in N PROVE n + 1 \in N
  <2> SUFFICES ASSUME NEW s \in SUBSET S, Cardinality(s) = n + 1 PROVE s \in G
    OBVIOUS
  <2>1. IsFiniteSet(s) /\ s # {}
    BY <1>1, FS_EmptySet
  <2>2. PICK a \in s : TRUE
    BY <2>1
  <2>3. Cardinality(s \ {a}) = n
    <3>1. Cardinality(s \ {a}) = Cardinality(s) - 1
      BY <2>1, <2>2, FS_RemoveElement
    <3> QED BY <3>1
  <2>4. s \ {a} \in G
    BY <1>3, <2>3
  <2>5. s = (s \ {a}) \cup {a} /\ a \in S \ (s \ {a})
    OBVIOUS
  <2> QED BY <2>4, <2>5
<1> HIDE DEF N
<1>4. \A n \in Nat : n \in N
  BY <1>2, <1>3, NumbersByInduction
<1>5. Cardinality(S) \in N
  BY <1>1, <1>4
<1> QED BY <1>5 DEF N

-----------------------------------------------------------------------------
\* The definition's own words.
LEMMA SumIsFold ==
  ASSUME NEW S, NEW g
  PROVE  SumOf(g, S) = (CHOOSE it : IsFold(it, g, S))[S]
BY DEF SumOf, MapThenSumSet, MapThenFoldSet, IsFold, Taken

\* What the fold takes is an element.
LEMMA TakenIsIn ==
  ASSUME NEW s, s # {}
  PROVE  Taken(s) \in s
BY DEF Taken

\* The table of partial sums exists for a finite set.
LEMMA FoldExists ==
  ASSUME NEW S, IsFiniteSet(S), NEW g
  PROVE  \E it : IsFold(it, g, S)
<1> DEFINE Upto(n) == {s \in SUBSET S : Cardinality(s) <= n}
           Row(h, s) == IF s = {} THEN 0 ELSE g[Taken(s)] + h[s \ {Taken(s)}]
           N == {n \in Nat : \E h : h = [s \in Upto(n) |-> Row(h, s)]}
<1>1. \A s \in SUBSET S : IsFiniteSet(s) /\ Cardinality(s) \in Nat
  BY FS_Subset, FS_CardinalityType
<1>2. 0 \in N
  <2>1. \A s \in Upto(0) : s = {}
    BY <1>1, FS_EmptySet
  <2> DEFINE h == [s \in Upto(0) |-> 0]
  <2>2. h = [s \in Upto(0) |-> Row(h, s)]
    BY <2>1
  <2> QED BY <2>2
<1>3. ASSUME NEW n \in Nat, n \in N PROVE n + 1 \in N
  <2>1. PICK h : h = [s \in Upto(n) |-> Row(h, s)]
    BY <1>3
  <2> DEFINE k == [s \in Upto(n + 1) |-> Row(h, s)]
  <2>2. Upto(n) \subseteq Upto(n + 1)
    BY <1>1
  <2>3. \A s \in Upto(n) : h[s] = Row(h, s)
    BY <2>1
  <2>4. \A s \in Upto(n) : k[s] = h[s]
    BY <2>2, <2>3
  <2>5. ASSUME NEW s \in Upto(n + 1), s # {} PROVE s \ {Taken(s)} \in Upto(n)
    <3>1. Taken(s) \in s
      BY <2>5, TakenIsIn
    <3>2. Cardinality(s \ {Taken(s)}) = Cardinality(s) - 1
      BY <1>1, <3>1, FS_RemoveElement
    <3> QED BY <1>1, <3>2
  <2>6. k = [s \in Upto(n + 1) |-> Row(h, s)]
    OBVIOUS
  <2> HIDE DEF k
  <2>7. ASSUME NEW s \in Upto(n + 1) PROVE Row(k, s) = Row(h, s)
    <3>1. CASE s = {}
      BY <3>1
    <3>2. CASE s # {}
      <4>1. k[s \ {Taken(s)}] = h[s \ {Taken(s)}]
        BY <2>4, <2>5, <3>2
      <4> QED BY <3>2, <4>1
    <3> QED BY <3>1, <3>2
  <2> HIDE DEF Upto, Row
  <2>8. k = [s \in Upto(n + 1) |-> Row(k, s)]
    BY <2>6, <2>7
  <2>9. \E j : j = [s \in Upto(n + 1) |-> Row(j, s)]
    BY <2>8
  <2> QED BY <2>9
<1> HIDE DEF N
<1>4. \A n \in Nat : n \in N
  BY <1>2, <1>3, NumbersByInduction
<1>5. PICK it : it = [s \in Upto(Cardinality(S)) |-> Row(it, s)]
  BY <1>1, <1>4 DEF N
<1>6. Upto(Cardinality(S)) = SUBSET S
  BY <1>1, FS_Subset
<1> QED BY <1>5, <1>6 DEF IsFold


\* The fold's rows.
LEMMA FoldRows ==
  ASSUME NEW U, NEW g, NEW it, IsFold(it, g, U)
  PROVE  \A s \in SUBSET U : it[s] = IF s = {} THEN 0 ELSE g[Taken(s)] + it[s \ {Taken(s)}]
<1> DEFINE Row(s) == IF s = {} THEN 0 ELSE g[Taken(s)] + it[s \ {Taken(s)}]
<1>1. it = [s \in SUBSET U |-> Row(s)]
  BY DEF IsFold
<1> HIDE DEF Row
<1>2. \A s \in SUBSET U : it[s] = Row(s)
  BY <1>1
<1> QED BY <1>2 DEF Row

\* The table that a sum is read from.
LEMMA SumHasFold ==
  ASSUME NEW S, IsFiniteSet(S), NEW g
  PROVE  \E it : IsFold(it, g, S) /\ SumOf(g, S) = it[S]
<1> DEFINE it == CHOOSE h : IsFold(h, g, S)
<1>1. IsFold(it, g, S)
  BY FoldExists
<1>2. SumOf(g, S) = it[S]
  BY SumIsFold
<1> QED BY <1>1, <1>2

\* Every row of a table is the sum of its own set, whatever the table is for.
LEMMA FoldIsSum ==
  ASSUME NEW S, IsFiniteSet(S), NEW g
  PROVE  \A U \in SUBSET S : \A it : IsFold(it, g, U) => \A t \in SUBSET U : it[t] = SumOf(g, t)
<1> DEFINE P(n) == \A U \in SUBSET S : \A it : IsFold(it, g, U) =>
                      \A t \in SUBSET U : Cardinality(t) = n => it[t] = SumOf(g, t)
           N == {n \in Nat : P(n)}
<1>1. \A s \in SUBSET S : IsFiniteSet(s) /\ Cardinality(s) \in Nat
  BY FS_Subset, FS_CardinalityType
<1>2. SumOf(g, {}) = 0
  <2>1. PICK it : IsFold(it, g, {}) /\ SumOf(g, {}) = it[{}]
    BY SumHasFold, FS_EmptySet
  <2>2. it[{}] = 0
    BY <2>1, FoldRows
  <2> QED BY <2>1, <2>2
<1>3. 0 \in N
  <2> SUFFICES ASSUME NEW U \in SUBSET S, NEW it, IsFold(it, g, U),
                      NEW t \in SUBSET U, Cardinality(t) = 0
               PROVE  it[t] = SumOf(g, t)
    OBVIOUS
  <2>1. t = {}
    BY <1>1, FS_EmptySet
  <2>2. it[t] = 0
    BY <2>1, FoldRows
  <2> QED BY <1>2, <2>1, <2>2
<1>4. ASSUME NEW n \in Nat, n \in N PROVE n + 1 \in N
  <2> HIDE DEF P
  <2> SUFFICES P(n + 1)
    OBVIOUS
  <2>0. P(n)
    BY <1>4
  <2> USE DEF P
  <2> SUFFICES ASSUME NEW U \in SUBSET S, NEW it, IsFold(it, g, U),
                      NEW t \in SUBSET U, Cardinality(t) = n + 1
               PROVE  it[t] = SumOf(g, t)
    OBVIOUS
  <2>1. IsFiniteSet(t) /\ t # {} /\ t \in SUBSET S
    BY <1>1, FS_EmptySet
  <2>2. PICK x \in t : x = Taken(t)
    BY <2>1, TakenIsIn
  <2>3. Cardinality(t \ {x}) = n
    <3>1. Cardinality(t \ {x}) = Cardinality(t) - 1
      BY <2>1, <2>2, FS_RemoveElement
    <3> QED BY <3>1
  <2>4. it[t] = g[x] + it[t \ {x}]
    BY <2>1, <2>2, FoldRows
  <2>5. it[t \ {x}] = SumOf(g, t \ {x})
    <3>1. t \ {x} \in SUBSET U
      OBVIOUS
    <3> QED BY <2>0, <2>3, <3>1
  <2>6. PICK own : IsFold(own, g, t) /\ SumOf(g, t) = own[t]
    BY <2>1, SumHasFold
  <2>7. own[t] = g[x] + own[t \ {x}]
    BY <2>1, <2>2, <2>6, FoldRows
  <2>8. own[t \ {x}] = SumOf(g, t \ {x})
    <3>1. t \ {x} \in SUBSET t
      OBVIOUS
    <3>2. t \in SUBSET S
      BY <2>1
    <3> QED BY <2>0, <2>3, <2>6, <3>1, <3>2
  <2> QED BY <2>4, <2>5, <2>6, <2>7, <2>8
<1> HIDE DEF N
<1>5. \A n \in Nat : n \in N
  BY <1>3, <1>4, NumbersByInduction
<1> SUFFICES ASSUME NEW U \in SUBSET S, NEW it, IsFold(it, g, U), NEW t \in SUBSET U
             PROVE  it[t] = SumOf(g, t)
  OBVIOUS
<1>6. Cardinality(t) \in N
  BY <1>1, <1>5
<1> QED BY <1>6 DEF N

\* The sum over the empty set.
LEMMA SumEmpty ==
  ASSUME NEW g
  PROVE  SumOf(g, {}) = 0
<1>1. PICK it : IsFold(it, g, {}) /\ SumOf(g, {}) = it[{}]
  BY SumHasFold, FS_EmptySet
<1>2. it[{}] = 0
  BY <1>1, FoldRows
<1> QED BY <1>1, <1>2

\* The sum, as the fold takes it apart.
LEMMA SumTaken ==
  ASSUME NEW S, IsFiniteSet(S), S # {}, NEW g
  PROVE  Taken(S) \in S /\ SumOf(g, S) = g[Taken(S)] + SumOf(g, S \ {Taken(S)})
<1>1. Taken(S) \in S
  BY TakenIsIn
<1>2. PICK it : IsFold(it, g, S) /\ SumOf(g, S) = it[S]
  BY SumHasFold
<1>3. it[S] = g[Taken(S)] + it[S \ {Taken(S)}]
  BY <1>2, FoldRows
<1>4. it[S \ {Taken(S)}] = SumOf(g, S \ {Taken(S)})
  <2>1. S \ {Taken(S)} \in SUBSET S /\ S \in SUBSET S
    OBVIOUS
  <2>2. \A U \in SUBSET S : \A h : IsFold(h, g, U) => \A t \in SUBSET U : h[t] = SumOf(g, t)
    BY FoldIsSum
  <2>3. \A t \in SUBSET S : it[t] = SumOf(g, t)
    BY <1>2, <2>1, <2>2
  <2> QED BY <2>1, <2>3
<1> QED BY <1>1, <1>2, <1>3, <1>4

\* A sum of integers is an integer.
LEMMA SumInt ==
  ASSUME NEW S, IsFiniteSet(S), NEW g, \A x \in S : g[x] \in Int
  PROVE  SumOf(g, S) \in Int
<1> DEFINE N == {n \in Nat : \A s \in SUBSET S : Cardinality(s) = n => SumOf(g, s) \in Int}
<1>1. \A s \in SUBSET S : IsFiniteSet(s) /\ Cardinality(s) \in Nat
  BY FS_Subset, FS_CardinalityType
<1>2. 0 \in N
  <2>1. \A s \in SUBSET S : Cardinality(s) = 0 => s = {}
    BY <1>1, FS_EmptySet
  <2>2. SumOf(g, {}) \in Int
    BY SumEmpty
  <2> QED BY <2>1, <2>2
<1>3. ASSUME NEW n \in Nat, n \in N PROVE n + 1 \in N
  <2> SUFFICES ASSUME NEW s \in SUBSET S, Cardinality(s) = n + 1 PROVE SumOf(g, s) \in Int
    OBVIOUS
  <2>1. IsFiniteSet(s) /\ s # {}
    BY <1>1, FS_EmptySet
  <2>2. PICK x \in s : SumOf(g, s) = g[x] + SumOf(g, s \ {x})
    BY <2>1, SumTaken
  <2>3. Cardinality(s \ {x}) = Cardinality(s) - 1
    BY <2>1, FS_RemoveElement
  <2>4. Cardinality(s \ {x}) = n /\ s \ {x} \in SUBSET S
    BY <2>3
  <2>5. SumOf(g, s \ {x}) \in Int
    BY <1>3, <2>4
  <2> QED BY <2>2, <2>5
<1> HIDE DEF N
<1>4. Cardinality(S) \in N
  BY <1>1, <1>2, <1>3, NumbersByInduction
<1> QED BY <1>4 DEF N

\* Any term of a sum can be taken out first.
LEMMA SumTakeOut ==
  ASSUME NEW S, IsFiniteSet(S), NEW g, \A x \in S : g[x] \in Int
  PROVE  \A a \in S : SumOf(g, S) = g[a] + SumOf(g, S \ {a})
<1> DEFINE N == {n \in Nat : \A s \in SUBSET S : Cardinality(s) = n =>
                   \A a \in s : SumOf(g, s) = g[a] + SumOf(g, s \ {a})}
<1>1. \A s \in SUBSET S : IsFiniteSet(s) /\ Cardinality(s) \in Nat /\ SumOf(g, s) \in Int
  BY FS_Subset, FS_CardinalityType, SumInt
<1>2. 0 \in N
  <2>1. \A s \in SUBSET S : Cardinality(s) = 0 => s = {}
    BY <1>1, FS_EmptySet
  <2> QED BY <2>1
<1>3. ASSUME NEW n \in Nat, n \in N PROVE n + 1 \in N
  <2> SUFFICES ASSUME NEW s \in SUBSET S, Cardinality(s) = n + 1, NEW a \in s
               PROVE  SumOf(g, s) = g[a] + SumOf(g, s \ {a})
    OBVIOUS
  <2>1. IsFiniteSet(s) /\ s # {}
    BY <1>1, FS_EmptySet
  <2>2. PICK x \in s : SumOf(g, s) = g[x] + SumOf(g, s \ {x})
    BY <2>1, SumTaken
  <2>3. ASSUME NEW b \in s
        PROVE  /\ s \ {b} \in SUBSET S
               /\ \A d \in s \ {b} : SumOf(g, s \ {b}) = g[d] + SumOf(g, (s \ {b}) \ {d})
    <3>1. Cardinality(s \ {b}) = Cardinality(s) - 1
      BY <2>1, FS_RemoveElement
    <3>2. Cardinality(s \ {b}) = n /\ s \ {b} \in SUBSET S
      BY <3>1
    <3> QED BY <1>3, <3>2
  <2>4. CASE a # x
    <3>1. PICK u \in SUBSET S : u = (s \ {a}) \ {x} /\ u = (s \ {x}) \ {a}
      OBVIOUS
    <3>2. SumOf(g, s \ {x}) = g[a] + SumOf(g, u)
      BY <2>3, <2>4, <3>1
    <3>3. SumOf(g, s \ {a}) = g[x] + SumOf(g, u)
      BY <2>3, <2>4, <3>1
    <3>4. g[a] \in Int /\ g[x] \in Int /\ SumOf(g, u) \in Int
      BY <1>1
    <3> QED BY <2>2, <3>2, <3>3, <3>4
  <2> QED BY <2>2, <2>4
<1> HIDE DEF N
<1>4. Cardinality(S) \in N
  BY <1>1, <1>2, <1>3, NumbersByInduction
<1> QED BY <1>4 DEF N


-----------------------------------------------------------------------------
(* How sums compare.                                                       *)

\* A new term adds its value.
LEMMA SumAddElement ==
  ASSUME NEW S, IsFiniteSet(S), NEW a, a \notin S, NEW g, \A x \in S \cup {a} : g[x] \in Int
  PROVE  SumOf(g, S \cup {a}) = g[a] + SumOf(g, S)
<1> DEFINE T == S \cup {a}
<1>1. IsFiniteSet(T) /\ a \in T /\ T \ {a} = S
  BY FS_AddElement
<1>2. SumOf(g, T) = g[a] + SumOf(g, T \ {a})
  BY <1>1, SumTakeOut
<1> QED BY <1>1, <1>2

\* Sums compare as their terms do.
LEMMA SumLeq ==
  ASSUME NEW S, IsFiniteSet(S), NEW f, NEW g,
         \A x \in S : f[x] \in Int /\ g[x] \in Int /\ f[x] <= g[x]
  PROVE  SumOf(f, S) <= SumOf(g, S)
<1> DEFINE G == {s \in SUBSET S : SumOf(f, s) <= SumOf(g, s)}
<1>1. {} \in G
  BY SumEmpty
<1>2. ASSUME NEW s \in SUBSET S, NEW a \in S \ s, s \in G PROVE s \cup {a} \in G
  <2>1. IsFiniteSet(s) /\ SumOf(f, s) \in Int /\ SumOf(g, s) \in Int
    BY FS_Subset, SumInt
  <2>2. SumOf(f, s \cup {a}) = f[a] + SumOf(f, s)
    BY <2>1, SumAddElement
  <2>3. SumOf(g, s \cup {a}) = g[a] + SumOf(g, s)
    BY <2>1, SumAddElement
  <2>4. SumOf(f, s) <= SumOf(g, s) /\ f[a] \in Int /\ g[a] \in Int /\ f[a] <= g[a]
    BY <1>2
  <2> QED BY <2>1, <2>2, <2>3, <2>4
<1> HIDE DEF G
<1>3. S \in G
  BY <1>1, <1>2, SetsByInduction
<1> QED BY <1>3 DEF G

\* Sums of equal terms are equal.
LEMMA SumEqual ==
  ASSUME NEW S, IsFiniteSet(S), NEW f, NEW g,
         \A x \in S : f[x] \in Int /\ f[x] = g[x]
  PROVE  SumOf(f, S) = SumOf(g, S)
<1>1. SumOf(f, S) <= SumOf(g, S) /\ SumOf(g, S) <= SumOf(f, S)
  BY SumLeq
<1>2. SumOf(f, S) \in Int /\ SumOf(g, S) \in Int
  BY SumInt
<1> QED BY <1>1, <1>2

\* A sum of zeroes is zero.
LEMMA SumZero ==
  ASSUME NEW S, IsFiniteSet(S), NEW g, \A x \in S : g[x] = 0
  PROVE  SumOf(g, S) = 0
<1> DEFINE G == {s \in SUBSET S : SumOf(g, s) = 0}
<1>1. {} \in G
  BY SumEmpty
<1>2. ASSUME NEW s \in SUBSET S, NEW a \in S \ s, s \in G PROVE s \cup {a} \in G
  <2>1. IsFiniteSet(s) /\ \A x \in s \cup {a} : g[x] \in Int
    BY FS_Subset
  <2>2. SumOf(g, s \cup {a}) = g[a] + SumOf(g, s)
    BY <2>1, SumAddElement
  <2> QED BY <1>2, <2>2
<1> HIDE DEF G
<1>3. S \in G
  BY <1>1, <1>2, SetsByInduction
<1> QED BY <1>3 DEF G

\* When one term changes, the sum changes by as much.
LEMMA SumChange ==
  ASSUME NEW S, IsFiniteSet(S), NEW a \in S, NEW f, NEW g,
         \A x \in S : f[x] \in Int /\ g[x] \in Int, \A x \in S \ {a} : f[x] = g[x]
  PROVE  SumOf(g, S) = SumOf(f, S) + (g[a] - f[a])
<1> DEFINE T == S \ {a}
<1>1. IsFiniteSet(T)
  BY FS_Subset
<1>2. SumOf(f, T) = SumOf(g, T)
  BY <1>1, SumEqual
<1>3. SumOf(f, S) = f[a] + SumOf(f, T) /\ SumOf(g, S) = g[a] + SumOf(g, T)
  BY SumTakeOut
<1>4. SumOf(f, T) \in Int
  BY <1>1, SumInt
<1> QED BY <1>2, <1>3, <1>4

\* The sum over two disjoint sets.
LEMMA SumUnion ==
  ASSUME NEW S, IsFiniteSet(S), NEW T, IsFiniteSet(T), S \cap T = {}, NEW g,
         \A x \in S \cup T : g[x] \in Int
  PROVE  SumOf(g, S \cup T) = SumOf(g, S) + SumOf(g, T)
<1> DEFINE G == {t \in SUBSET T : SumOf(g, S \cup t) = SumOf(g, S) + SumOf(g, t)}
<1>1. {} \in G
  <2>1. SumOf(g, S) \in Int /\ S \cup {} = S
    BY SumInt
  <2> QED BY <2>1, SumEmpty
<1>2. ASSUME NEW t \in SUBSET T, NEW a \in T \ t, t \in G PROVE t \cup {a} \in G
  <2> DEFINE U == S \cup t
  <2>1. IsFiniteSet(t)
    BY FS_Subset
  <2>2. IsFiniteSet(U) /\ a \notin U /\ S \cup (t \cup {a}) = U \cup {a}
    BY <2>1, FS_Union
  <2>3. SumOf(g, U \cup {a}) = g[a] + SumOf(g, U)
    BY <2>2, SumAddElement
  <2>4. SumOf(g, t \cup {a}) = g[a] + SumOf(g, t)
    BY <2>1, SumAddElement
  <2>5. SumOf(g, S) \in Int /\ SumOf(g, t) \in Int /\ g[a] \in Int
    BY <2>1, SumInt
  <2>6. SumOf(g, U) = SumOf(g, S) + SumOf(g, t)
    BY <1>2
  <2>7. t \cup {a} \in SUBSET T
    OBVIOUS
  <2> HIDE DEF U
  <2>8. SumOf(g, U \cup {a}) = SumOf(g, S) + SumOf(g, t \cup {a})
    BY <2>3, <2>4, <2>5, <2>6
  <2> QED BY <2>2, <2>7, <2>8
<1> HIDE DEF G
<1>3. T \in G
  BY <1>1, <1>2, SetsByInduction
<1> QED BY <1>3 DEF G


\* A sum does not depend on the names of its terms.
LEMMA SumReindex ==
  ASSUME NEW S, IsFiniteSet(S), NEW T, NEW f, NEW g, NEW h,
         \A x \in S : h[x] \in T, \A y \in T : \E x \in S : y = h[x],
         \A x, y \in S : h[x] = h[y] => x = y,
         \A x \in S : g[x] \in Int /\ f[h[x]] = g[x]
  PROVE  IsFiniteSet(T) /\ SumOf(f, T) = SumOf(g, S)
<1> DEFINE Named(s) == {h[x] : x \in s}
           G == {s \in SUBSET S : IsFiniteSet(Named(s)) /\ SumOf(f, Named(s)) = SumOf(g, s)}
<1>1. {} \in G
  <2>1. Named({}) = {}
    OBVIOUS
  <2> QED BY <2>1, FS_EmptySet, SumEmpty
<1>2. ASSUME NEW s \in SUBSET S, NEW a \in S \ s, s \in G PROVE s \cup {a} \in G
  <2>1. IsFiniteSet(s)
    BY FS_Subset
  <2>2. Named(s \cup {a}) = Named(s) \cup {h[a]} /\ h[a] \notin Named(s)
    OBVIOUS
  <2>3. \A y \in Named(s) \cup {h[a]} : f[y] \in Int
    OBVIOUS
  <2>4. IsFiniteSet(Named(s)) /\ SumOf(f, Named(s)) = SumOf(g, s)
    BY <1>2
  <2> HIDE DEF Named
  <2>5. IsFiniteSet(Named(s) \cup {h[a]})
    BY <2>4, FS_AddElement
  <2>6. SumOf(f, Named(s) \cup {h[a]}) = f[h[a]] + SumOf(f, Named(s))
    BY <2>2, <2>3, <2>4, SumAddElement
  <2>7. SumOf(g, s \cup {a}) = g[a] + SumOf(g, s)
    BY <2>1, SumAddElement
  <2>8. SumOf(f, Named(s \cup {a})) = SumOf(g, s \cup {a})
    BY <2>2, <2>4, <2>6, <2>7
  <2> QED BY <2>2, <2>5, <2>8
<1>3. Named(S) = T
  OBVIOUS
<1> HIDE DEF G
<1>4. S \in G
  BY <1>1, <1>2, SetsByInduction
<1>5. IsFiniteSet(Named(S)) /\ SumOf(f, Named(S)) = SumOf(g, S)
  BY <1>4 DEF G
<1> HIDE DEF Named
<1> QED BY <1>3, <1>5, Zenon

\* The sum of one term.
LEMMA SumSingle ==
  ASSUME NEW g, NEW a, g[a] \in Int
  PROVE  SumOf(g, {a}) = g[a]
<1>1. IsFiniteSet({a}) /\ {a} \ {a} = {}
  BY FS_Singleton
<1>2. SumOf(g, {a}) = g[a] + SumOf(g, {a} \ {a})
  BY <1>1, SumTakeOut
<1> QED BY <1>1, <1>2, SumEmpty

\* Terms that are zero can be left out.
LEMMA SumWithoutZeroes ==
  ASSUME NEW S, IsFiniteSet(S), NEW T, T \subseteq S, NEW g,
         \A x \in S : g[x] \in Int, \A x \in S \ T : g[x] = 0
  PROVE  SumOf(g, S) = SumOf(g, T)
<1> DEFINE R == S \ T
<1>1. IsFiniteSet(T) /\ IsFiniteSet(R) /\ T \cap R = {} /\ S = T \cup R
  BY FS_Subset
<1>2. SumOf(g, R) = 0
  BY <1>1, SumZero
<1> HIDE DEF R
<1>3. SumOf(g, T \cup R) = SumOf(g, T) + SumOf(g, R)
  BY <1>1, SumUnion
<1>4. SumOf(g, S) = SumOf(g, T \cup R)
  BY <1>1, Zenon
<1>5. SumOf(g, T) \in Int
  BY <1>1, SumInt
<1> QED BY <1>2, <1>3, <1>4, <1>5

\* The sum of the amounts of rows.
LEMMA AmountsAreSum ==
  ASSUME NEW S
  PROVE  MapThenSumSet(LAMBDA row : row.amount, S) = SumOf([row \in S |-> row.amount], S)
<1> DEFINE g == [row \in S |-> row.amount]
           F(it) == it = [s \in SUBSET S |->
                            IF s = {} THEN 0 ELSE Taken(s).amount + it[s \ {Taken(s)}]]
<1>1. \A s \in SUBSET S : s # {} => Taken(s).amount = g[Taken(s)]
  <2>1. \A s \in SUBSET S : s # {} => Taken(s) \in S
    BY TakenIsIn
  <2> QED BY <2>1
<1>2. MapThenSumSet(LAMBDA row : row.amount, S) = (CHOOSE it : F(it))[S]
  BY DEF MapThenSumSet, MapThenFoldSet, Taken
<1> HIDE DEF g
<1>3. ASSUME NEW it PROVE F(it) <=> IsFold(it, g, S)
  <2>1. [s \in SUBSET S |-> IF s = {} THEN 0 ELSE Taken(s).amount + it[s \ {Taken(s)}]]
          = [s \in SUBSET S |-> IF s = {} THEN 0 ELSE g[Taken(s)] + it[s \ {Taken(s)}]]
    BY <1>1
  <2> QED BY <2>1 DEF IsFold
<1> HIDE DEF F
<1>4. (CHOOSE it : F(it)) = (CHOOSE it : IsFold(it, g, S))
  BY <1>3
<1>5. (CHOOSE it : F(it))[S] = SumOf(g, S)
  BY <1>4, SumIsFold
<1> QED BY <1>2, <1>5 DEF g

\* A sum of numbers that are not negative is not negative, and no term is
\* larger than it.
LEMMA SumNat ==
  ASSUME NEW S, IsFiniteSet(S), NEW g, \A x \in S : g[x] \in Nat
  PROVE  SumOf(g, S) \in Nat /\ \A x \in S : g[x] <= SumOf(g, S)
<1> DEFINE zero == [x \in S |-> 0]
<1>1. ASSUME NEW T \in SUBSET S PROVE SumOf(g, T) \in Nat
  <2>1. IsFiniteSet(T) /\ \A x \in T : g[x] \in Int /\ zero[x] = 0 /\ zero[x] <= g[x]
    BY FS_Subset
  <2>2. SumOf(zero, T) = 0 /\ SumOf(g, T) \in Int
    <3> HIDE DEF zero
    <3> QED BY <2>1, SumZero, SumInt
  <2>3. SumOf(zero, T) <= SumOf(g, T)
    <3>1. \A x \in T : zero[x] \in Int
      BY <2>1
    <3> HIDE DEF zero
    <3> QED BY <2>1, <3>1, SumLeq
  <2> QED BY <2>2, <2>3
<1>2. ASSUME NEW x \in S PROVE g[x] <= SumOf(g, S)
  <2>1. SumOf(g, S) = g[x] + SumOf(g, S \ {x})
    BY SumTakeOut
  <2>2. SumOf(g, S \ {x}) \in Nat
    BY <1>1
  <2> QED BY <2>1, <2>2
<1> QED BY <1>1, <1>2

\* Sums add up term by term.
LEMMA SumPlus ==
  ASSUME NEW S, IsFiniteSet(S), NEW f, NEW g, NEW h,
         \A x \in S : f[x] \in Int /\ g[x] \in Int /\ h[x] = f[x] + g[x]
  PROVE  SumOf(h, S) = SumOf(f, S) + SumOf(g, S)
<1> DEFINE G == {s \in SUBSET S : SumOf(h, s) = SumOf(f, s) + SumOf(g, s)}
<1>1. {} \in G
  BY SumEmpty
<1>2. ASSUME NEW s \in SUBSET S, NEW a \in S \ s, s \in G PROVE s \cup {a} \in G
  <2>1. /\ IsFiniteSet(s)
        /\ \A x \in s \cup {a} : f[x] \in Int /\ g[x] \in Int /\ h[x] \in Int
    BY FS_Subset
  <2>2. /\ SumOf(f, s \cup {a}) = f[a] + SumOf(f, s)
        /\ SumOf(g, s \cup {a}) = g[a] + SumOf(g, s)
        /\ SumOf(h, s \cup {a}) = h[a] + SumOf(h, s)
    BY <2>1, SumAddElement
  <2>3. SumOf(f, s) \in Int /\ SumOf(g, s) \in Int
    BY <2>1, SumInt
  <2> QED BY <1>2, <2>1, <2>2, <2>3
<1> HIDE DEF G
<1>3. S \in G
  BY <1>1, <1>2, SetsByInduction
<1> QED BY <1>3 DEF G

\* A sum is the sum, over the names of the classes, of the sums over a class.
LEMMA SumPartition ==
  ASSUME NEW S, IsFiniteSet(S), NEW T, IsFiniteSet(T), NEW g, \A x \in S : g[x] \in Int,
         NEW part, \A t \in T : part[t] \subseteq S, \A x \in S : \E t \in T : x \in part[t],
         \A t, u \in T : t # u => part[t] \cap part[u] = {},
         NEW per, \A t \in T : per[t] = SumOf(g, part[t])
  PROVE  SumOf(per, T) = SumOf(g, S)
<1> DEFINE In(U) == {x \in S : \E t \in U : x \in part[t]}
           G == {U \in SUBSET T : SumOf(per, U) = SumOf(g, In(U))}
<1>1. {} \in G
  <2>1. In({}) = {}
    OBVIOUS
  <2> QED BY <2>1, SumEmpty
<1>2. ASSUME NEW U \in SUBSET T, NEW t \in T \ U, U \in G PROVE U \cup {t} \in G
  <2> DEFINE C == part[t]
  <2>1. IsFiniteSet(U) /\ IsFiniteSet(C) /\ IsFiniteSet(In(U))
    BY FS_Subset
  <2>2. In(U \cup {t}) = In(U) \cup C /\ In(U) \cap C = {}
    OBVIOUS
  <2>3. SumOf(g, In(U) \cup C) = SumOf(g, In(U)) + SumOf(g, C)
    <3>1. \A x \in In(U) \cup C : g[x] \in Int
      OBVIOUS
    <3> HIDE DEF C, In
    <3> QED BY <2>1, <2>2, <3>1, SumUnion
  <2>4. \A u \in T : per[u] \in Int
    <3> SUFFICES ASSUME NEW u \in T PROVE per[u] \in Int
      OBVIOUS
    <3>1. IsFiniteSet(part[u]) /\ \A x \in part[u] : g[x] \in Int
      BY FS_Subset
    <3>2. SumOf(g, part[u]) \in Int
      BY <3>1, SumInt
    <3> QED BY <3>2
  <2>5. SumOf(per, U \cup {t}) = per[t] + SumOf(per, U)
    BY <2>1, <2>4, SumAddElement
  <2>6. SumOf(per, U) = SumOf(g, In(U)) /\ per[t] = SumOf(g, C)
    BY <1>2
  <2>7. SumOf(g, In(U)) \in Int /\ SumOf(g, C) \in Int
    <3>1. (\A x \in In(U) : g[x] \in Int) /\ \A x \in C : g[x] \in Int
      OBVIOUS
    <3> HIDE DEF C, In
    <3> QED BY <2>1, <3>1, SumInt
  <2> HIDE DEF C, In
  <2>8. PICK a, c : a = SumOf(g, In(U)) /\ c = SumOf(g, C)
    OBVIOUS
  <2>9. SumOf(per, U \cup {t}) = SumOf(g, In(U \cup {t}))
    <3>1. a + c = c + a
      BY <2>7, <2>8
    <3> QED BY <2>2, <2>3, <2>5, <2>6, <2>8, <3>1
  <2>10. U \cup {t} \in SUBSET T
    OBVIOUS
  <2> QED BY <2>9, <2>10
<1>3. In(T) = S
  OBVIOUS
<1> HIDE DEF G, In
<1>4. T \in G
  BY <1>1, <1>2, SetsByInduction
<1> QED BY <1>3, <1>4 DEF G

\* Of finitely many numbers one is the largest.
LEMMA LargestExists ==
  ASSUME NEW S, IsFiniteSet(S), S # {}, NEW g, \A x \in S : g[x] \in Int
  PROVE  \E x \in S : \A y \in S : g[x] >= g[y]
<1> DEFINE G == {s \in SUBSET S : s # {} => \E x \in s : \A y \in s : g[x] >= g[y]}
<1>1. {} \in G
  OBVIOUS
<1>2. ASSUME NEW s \in SUBSET S, NEW a \in S \ s, s \in G PROVE s \cup {a} \in G
  <2>1. CASE s = {}
    BY <2>1
  <2>2. CASE s # {}
    <3>1. PICK x \in s : \A y \in s : g[x] >= g[y]
      BY <1>2, <2>2
    <3>2. CASE g[x] >= g[a]
      BY <3>1, <3>2
    <3>3. CASE ~(g[x] >= g[a])
      <4>1. \A y \in s \cup {a} : g[a] >= g[y]
        BY <3>1, <3>3
      <4> QED BY <4>1
    <3> QED BY <3>2, <3>3
  <2> QED BY <2>1, <2>2
<1> HIDE DEF G
<1>3. S \in G
  BY <1>1, <1>2, SetsByInduction
<1> QED BY <1>3 DEF G
=============================================================================
