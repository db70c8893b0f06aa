----------------------------- MODULE Reductions -----------------------------
(***************************************************************************)
(* Facts about what a finite set or function is reduced to: its minimum,   *)
(* its maximum, its sum.  The community modules define the sum by a        *)
(* recursive function; Units gives it a form without recursion, as a       *)
(* cardinality, and FiniteInduction shows that the two are the same.       *)
(***************************************************************************)
EXTENDS FiniteSetTheorems, SequencesExt, TLAPS

\* Among some subsets of a finite set there is a minimal one.
LEMMA MinimalSubset ==
  ASSUME NEW S, IsFiniteSet(S), NEW F \in SUBSET (SUBSET S), F # {}
  PROVE  \E T \in F : \A U \in F : U \subseteq T => U = T
<1>1. IsWellFoundedOn(StrictSubsetOrdering(S), SUBSET S)
  BY FS_StrictSubsetOrderingWellFounded, FS_FiniteSubsetsOfFinite
<1>2. \E T \in F : \A U \in F : <<U, T>> \notin StrictSubsetOrdering(S)
  BY <1>1, WFMin, Zenon
<1> QED
  BY <1>2 DEF StrictSubsetOrdering

\* Induction over a finite set, with a family of sets in place of a predicate:
\* a family that has the empty set and never loses by adding an element has it.
LEMMA FiniteInduction ==
  ASSUME NEW S, IsFiniteSet(S), NEW F, {} \in F,
         \A T \in F : \A x \in S \ T : T \in SUBSET S => T \cup {x} \in F
  PROVE  S \in F
<1> SUFFICES ASSUME S \notin F PROVE FALSE
  OBVIOUS
<1>1. PICK T \in {U \in SUBSET S : U \notin F} :
         \A U \in {V \in SUBSET S : V \notin F} : U \subseteq T => U = T
  <2> DEFINE Bad == {V \in SUBSET S : V \notin F}
  <2>1. Bad \in SUBSET (SUBSET S) /\ Bad # {}
    OBVIOUS
  <2>2. \E U \in Bad : \A V \in Bad : V \subseteq U => V = U
    <3> HIDE DEF Bad
    <3> QED BY <2>1, MinimalSubset
  <2> QED
    BY <2>2
<1>2. PICK x \in T : TRUE
  OBVIOUS
<1>3. T \ {x} \in F
  BY <1>1, <1>2
<1>4. (T \ {x}) \cup {x} \in F
  BY <1>1, <1>2, <1>3
<1>5. (T \ {x}) \cup {x} = T
  BY <1>2
<1> QED
  BY <1>1, <1>4, <1>5

\* A finite set of integers that is not empty has a least and a greatest element.
LEMMA MinExists ==
  ASSUME NEW S \in SUBSET Int, IsFiniteSet(S), S # {}
  PROVE  Min(S) \in S /\ \A y \in S : Min(S) <= y
<1> DEFINE F == {T \in SUBSET S : T # {} => \E x \in T : \A y \in T : x <= y}
<1>1. \A T \in F : \A x \in S \ T : T \in SUBSET S => T \cup {x} \in F
  <2> SUFFICES ASSUME NEW T \in F, NEW x \in S \ T
               PROVE  \E z \in T \cup {x} : \A y \in T \cup {x} : z <= y
    OBVIOUS
  <2>1. CASE T = {}
    BY <2>1
  <2>2. CASE T # {}
    <3>1. PICK z \in T : \A y \in T : z <= y
      BY <2>2
    <3>2. CASE z <= x
      BY <3>1, <3>2
    <3>3. CASE ~(z <= x)
      BY <3>1, <3>3
    <3> QED
      BY <3>2, <3>3
  <2> QED
    BY <2>1, <2>2
<1>2. {} \in F
  OBVIOUS
<1>3. S \in F
  <2> HIDE DEF F
  <2> QED BY <1>1, <1>2, FiniteInduction
<1> QED
  BY <1>3 DEF Min

LEMMA MaxExists ==
  ASSUME NEW S \in SUBSET Int, IsFiniteSet(S), S # {}
  PROVE  Max(S) \in S /\ \A y \in S : Max(S) >= y
<1> DEFINE F == {T \in SUBSET S : T # {} => \E x \in T : \A y \in T : x >= y}
<1>1. \A T \in F : \A x \in S \ T : T \in SUBSET S => T \cup {x} \in F
  <2> SUFFICES ASSUME NEW T \in F, NEW x \in S \ T
               PROVE  \E z \in T \cup {x} : \A y \in T \cup {x} : z >= y
    OBVIOUS
  <2>1. CASE T = {}
    BY <2>1
  <2>2. CASE T # {}
    <3>1. PICK z \in T : \A y \in T : z >= y
      BY <2>2
    <3>2. CASE z >= x
      BY <3>1, <3>2
    <3>3. CASE ~(z >= x)
      BY <3>1, <3>3
    <3> QED
      BY <3>2, <3>3
  <2> QED
    BY <2>1, <2>2
<1>2. {} \in F
  OBVIOUS
<1>3. S \in F
  <2> HIDE DEF F
  <2> QED BY <1>1, <1>2, FiniteInduction
<1> QED
  BY <1>3 DEF Max

-----------------------------------------------------------------------------
(* Sums.                                                                   *)

\* As many elements as the values of v over S add up to.
Units(v, S) == {p \in S \X Nat : p[2] \in 1..v[p[1]]}

\* One more summand adds its value.
LEMMA UnitsCount ==
  ASSUME NEW S, NEW v \in [S -> Nat], NEW T \in SUBSET S, IsFiniteSet(T), IsFiniteSet(Units(v, T)),
         NEW x \in S \ T
  PROVE  /\ IsFiniteSet(Units(v, T \cup {x}))
         /\ Cardinality(Units(v, T \cup {x})) = v[x] + Cardinality(Units(v, T))
<1> DEFINE New == {x} \X (1..v[x])
<1>1. IsFiniteSet(New) /\ Cardinality(New) = v[x]
  <2>1. v[x] \in Nat
    OBVIOUS
  <2>2. IsFiniteSet({x}) /\ Cardinality({x}) = 1
    BY FS_Singleton
  <2>3. IsFiniteSet(1..v[x]) /\ Cardinality(1..v[x]) = v[x]
    BY <2>1, FS_Interval
  <2>4. IsFiniteSet(New) /\ Cardinality(New) = 1 * v[x]
    BY <2>2, <2>3, FS_Product
  <2> QED
    BY <2>1, <2>4
<1>2. Units(v, T \cup {x}) = New \cup Units(v, T) /\ New \cap Units(v, T) = {}
  BY DEF Units
<1>3. Cardinality({}) = 0 /\ v[x] \in Nat /\ Cardinality(Units(v, T)) \in Nat
  BY FS_EmptySet, FS_CardinalityType
<1> HIDE DEF New
<1>4. /\ IsFiniteSet(New \cup Units(v, T))
      /\ Cardinality(New \cup Units(v, T))
           = Cardinality(New) + Cardinality(Units(v, T)) - Cardinality(New \cap Units(v, T))
  BY <1>1, FS_Union
<1>5. Cardinality(New \cup Units(v, T)) = v[x] + Cardinality(Units(v, T)) - 0
  BY <1>1, <1>2, <1>3, <1>4
<1>6. IsFiniteSet(Units(v, T \cup {x}))
  BY <1>2, <1>4
<1>7. Cardinality(Units(v, T \cup {x})) = v[x] + Cardinality(Units(v, T)) - 0
  BY <1>2, <1>5
<1> QED
  BY <1>3, <1>6, <1>7

LEMMA UnitsFinite ==
  ASSUME NEW S, IsFiniteSet(S), NEW v \in [S -> Nat]
  PROVE  \A T \in SUBSET S : IsFiniteSet(T) /\ IsFiniteSet(Units(v, T))
<1> SUFFICES ASSUME NEW U \in SUBSET S PROVE IsFiniteSet(U) /\ IsFiniteSet(Units(v, U))
  OBVIOUS
<1> DEFINE F == {T \in SUBSET U : IsFiniteSet(Units(v, T))}
<1>0. IsFiniteSet(U) /\ \A T \in SUBSET U : IsFiniteSet(T)
  BY FS_Subset
<1>1. {} \in F
  <2>1. Units(v, {}) = {}
    BY DEF Units
  <2> QED
    BY <2>1, FS_EmptySet
<1>2. \A T \in F : \A x \in U \ T : T \in SUBSET U => T \cup {x} \in F
  BY <1>0, UnitsCount
<1>3. U \in F
  <2> HIDE DEF F
  <2> QED BY <1>0, <1>1, <1>2, FiniteInduction
<1> QED
  BY <1>0, <1>3

\* The sum of the community modules is the number of units.
LEMMA SumIsCount ==
  ASSUME NEW S, IsFiniteSet(S), NEW v \in [S -> Nat]
  PROVE  SumFunctionOnSet(v, S) = Cardinality(Units(v, S))
<1> DEFINE Step(g) == [s \in SUBSET S |->
                         IF s = {} THEN 0
                         ELSE LET x == CHOOSE x \in s : TRUE IN v[x] + g[s \ {x}]]
           iter == CHOOSE g : g = Step(g)
           count == [s \in SUBSET S |-> Cardinality(Units(v, s))]
<1>1. SumFunctionOnSet(v, S) = iter[S]
  BY DEF SumFunctionOnSet, FoldFunctionOnSet, MapThenFoldSet
<1>2. count = Step(count)
  <2>1. ASSUME NEW s \in SUBSET S PROVE count[s] = Step(count)[s]
    <3>1. CASE s = {}
      <4>1. Units(v, s) = {}
        BY <3>1 DEF Units
      <4> QED
        BY <3>1, <4>1, FS_EmptySet
    <3>2. CASE s # {}
      <4> DEFINE x == CHOOSE x \in s : TRUE
      <4>1. x \in s
        BY <3>2
      <4> HIDE DEF x
      <4>2. s \ {x} \in SUBSET S /\ x \in S \ (s \ {x}) /\ (s \ {x}) \cup {x} = s
        BY <4>1
      <4>3. IsFiniteSet(s \ {x}) /\ IsFiniteSet(Units(v, s \ {x}))
        BY <4>2, UnitsFinite
      <4>4. Cardinality(Units(v, s)) = v[x] + Cardinality(Units(v, s \ {x}))
        <5>1. Cardinality(Units(v, (s \ {x}) \cup {x})) = v[x] + Cardinality(Units(v, s \ {x}))
          BY <4>2, <4>3, UnitsCount
        <5> QED BY <4>2, <5>1
      <4> QED
        BY <3>2, <4>2, <4>4 DEF x
    <3> QED
      BY <3>1, <3>2
  <2> QED
    BY <2>1
<1>3. iter = Step(iter)
  <2> HIDE DEF Step, count
  <2> QED BY <1>2
<1>4. \A s \in SUBSET S : iter[s] = count[s]
  <2> DEFINE Bad == {s \in SUBSET S : iter[s] # count[s]}
  <2> HIDE DEF iter, count
  <2> SUFFICES ASSUME Bad # {} PROVE FALSE
    OBVIOUS
  <2>1. \E T \in Bad : \A U \in Bad : U \subseteq T => U = T
    <3>1. Bad \in SUBSET (SUBSET S)
      OBVIOUS
    <3> HIDE DEF Bad
    <3> QED BY <3>1, MinimalSubset
  <2>2. PICK T \in Bad : \A U \in Bad : U \subseteq T => U = T
    BY <2>1
  <2>3. T \in SUBSET S /\ iter[T] # count[T]
    OBVIOUS
  <2>4. iter[T] = Step(iter)[T] /\ count[T] = Step(count)[T]
    <3> HIDE DEF Step
    <3> QED BY <1>2, <1>3
  <2>5. T # {}
    BY <2>3, <2>4
  <2> DEFINE x == CHOOSE x \in T : TRUE
  <2>6. x \in T
    BY <2>5
  <2>7. iter[T] = v[x] + iter[T \ {x}] /\ count[T] = v[x] + count[T \ {x}]
    BY <2>3, <2>4, <2>5
  <2>8. iter[T \ {x}] = count[T \ {x}]
    <3> HIDE DEF x
    <3>1. T \ {x} \in SUBSET S /\ T \ {x} \subseteq T /\ T \ {x} # T
      BY <2>3, <2>6
    <3> QED
      BY <2>2, <3>1
  <2> QED
    BY <2>3, <2>7, <2>8
<1>5. S \in SUBSET S /\ count[S] = Cardinality(Units(v, S))
  OBVIOUS
<1> HIDE DEF iter, count
<1> QED
  BY <1>1, <1>4, <1>5

AllOf(G, S) == UNION {G[s] : s \in S}
Disjoint(G, S) == \A r, s \in S : r # s => G[r] \cap G[s] = {}

\* A sum of the sizes of sets bounds the size of their union, and is that size
\* when they are disjoint.
LEMMA SumOfSizes ==
  ASSUME NEW S, IsFiniteSet(S), NEW G, NEW v \in [S -> Nat],
         \A s \in S : IsFiniteSet(G[s]) /\ v[s] = Cardinality(G[s])
  PROVE  /\ IsFiniteSet(AllOf(G, S))
         /\ Cardinality(AllOf(G, S)) <= SumFunctionOnSet(v, S)
         /\ Disjoint(G, S) => SumFunctionOnSet(v, S) = Cardinality(AllOf(G, S))
<1> DEFINE All(T) == AllOf(G, T)
           F == {T \in SUBSET S : /\ IsFiniteSet(All(T))
                                  /\ Cardinality(All(T)) <= Cardinality(Units(v, T))
                                  /\ Disjoint(G, S) => Cardinality(All(T)) = Cardinality(Units(v, T))}
<1>1. {} \in F
  <2>1. All({}) = {} /\ Units(v, {}) = {}
    BY DEF Units, AllOf
  <2> QED
    BY <2>1, FS_EmptySet
<1>2. ASSUME NEW T \in F, NEW x \in S \ T PROVE T \cup {x} \in F
  <2>1. All(T \cup {x}) = All(T) \cup G[x]
    BY DEF AllOf
  <2>2. Disjoint(G, S) => All(T) \cap G[x] = {}
    BY DEF AllOf, Disjoint
  <2>3. T \in SUBSET S /\ T \cup {x} \in SUBSET S /\ x \in S
    OBVIOUS
  <2>4. /\ IsFiniteSet(All(T))
        /\ Cardinality(All(T)) <= Cardinality(Units(v, T))
        /\ Disjoint(G, S) => Cardinality(All(T)) = Cardinality(Units(v, T))
    OBVIOUS
  <2>5. IsFiniteSet(T) /\ IsFiniteSet(Units(v, T))
    BY <2>3, UnitsFinite
  <2>6. Cardinality(Units(v, T \cup {x})) = v[x] + Cardinality(Units(v, T))
    BY <2>3, <2>5, UnitsCount
  <2>7. IsFiniteSet(G[x]) /\ v[x] = Cardinality(G[x])
    BY <2>3
  <2> HIDE DEF All
  <2>8. /\ IsFiniteSet(All(T) \cup G[x])
        /\ Cardinality(All(T) \cup G[x])
             = Cardinality(All(T)) + Cardinality(G[x]) - Cardinality(All(T) \cap G[x])
    BY <2>4, <2>7, FS_Union
  <2>9. /\ Cardinality(All(T)) \in Nat /\ Cardinality(G[x]) \in Nat
        /\ Cardinality(Units(v, T)) \in Nat
        /\ Cardinality(All(T) \cap G[x]) \in Nat
        /\ (Disjoint(G, S) => Cardinality(All(T) \cap G[x]) = 0)
    <3>1. IsFiniteSet(All(T) \cap G[x])
      BY <2>4, FS_Intersection
    <3> QED
      BY <2>2, <2>4, <2>5, <2>7, <3>1, FS_CardinalityType, FS_EmptySet
  <2>10. /\ IsFiniteSet(All(T \cup {x}))
         /\ Cardinality(All(T \cup {x}))
              = Cardinality(All(T)) + Cardinality(G[x]) - Cardinality(All(T) \cap G[x])
    BY <2>1, <2>8
  <2>11. /\ Cardinality(All(T \cup {x})) <= Cardinality(Units(v, T \cup {x}))
         /\ Disjoint(G, S) => Cardinality(All(T \cup {x})) = Cardinality(Units(v, T \cup {x}))
    BY <2>4, <2>6, <2>7, <2>9, <2>10
  <2> QED
    BY <2>3, <2>10, <2>11
<1>3. S \in F
  <2> HIDE DEF F
  <2> QED BY <1>1, <1>2, FiniteInduction
<1> QED
  BY <1>3, SumIsCount

\* The sum of one value is that value.
LEMMA SumOfOne ==
  ASSUME NEW x, NEW v \in [{x} -> Nat]
  PROVE  SumFunctionOnSet(v, {x}) = v[x]
<1>1. IsFiniteSet({}) /\ Cardinality({}) = 0 /\ Units(v, {}) = {} /\ IsFiniteSet({x})
  BY FS_EmptySet, FS_Singleton DEF Units
<1>2. Cardinality(Units(v, {} \cup {x})) = v[x] + Cardinality(Units(v, {}))
  BY <1>1, UnitsCount
<1>3. {} \cup {x} = {x} /\ v[x] \in Nat
  OBVIOUS
<1> QED
  BY <1>1, <1>2, <1>3, SumIsCount

-----------------------------------------------------------------------------
(* A finite set as a sequence.                                             *)

\* SetToSeq lists a finite set, without repeating an element.
LEMMA SetToSeqType ==
  ASSUME NEW S, IsFiniteSet(S)
  PROVE  /\ Cardinality(S) \in Nat
         /\ SetToSeq(S) \in [1..Cardinality(S) -> S]
         /\ IsInjective(SetToSeq(S))
<1>1. Cardinality(S) \in Nat /\ ExistsBijection(1..Cardinality(S), S)
  BY FS_CardinalityType
<1>2. \E f \in [1..Cardinality(S) -> S] : IsInjective(f)
  BY <1>1 DEF ExistsBijection, Bijection, Injection, IsInjective
<1> QED
  BY <1>1, <1>2 DEF SetToSeq
=============================================================================
