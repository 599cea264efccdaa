------------------------------ MODULE SumTheorems ------------------------------
(***************************************************************************)
(* Facts about SumFunctionOnSet(f, S), the sum of f[x] for the x in S, and *)
(* the induction they are proved with.  The set of the arguments for which *)
(* a claim holds stands for the claim.                                     *)
(***************************************************************************)
EXTENDS Integers, Functions, Folds, FiniteSetTheorems, WellFoundedInduction, TLAPS

-----------------------------------------------------------------------------
(* Induction.                                                              *)

\* A set of natural numbers with 0 and with every successor is all of Nat.
LEMMA NatSetInduction ==
    ASSUME NEW Good, 0 \in Good, \A n \in Nat : n \in Good => n + 1 \in Good
    PROVE  \A n \in Nat : n \in Good
  <1> DEFINE Bad == {n \in Nat : n \notin Good}
             Less == OpToRel(<, Nat)
  <1> SUFFICES ASSUME Bad # {} PROVE FALSE
    OBVIOUS
  <1>1. \E x \in Bad : \A y \in Bad : ~ (<<y, x>> \in Less)
    <2> HIDE DEF Less
    <2>1. IsWellFoundedOn(Less, Nat)
      BY NatLessThanWellFounded DEF Less
    <2> QED
      BY <2>1, WFMin, Zenon
  <1>2. PICK x \in Bad : \A y \in Bad : ~ (<<y, x>> \in Less)
    BY <1>1
  <1>3. x - 1 \in Nat /\ x - 1 < x
    OBVIOUS
  <1>4. x - 1 \in Good
    BY <1>2, <1>3 DEF OpToRel
  <1> QED
    BY <1>3, <1>4

\* Taking an element out of a set of n + 1 leaves n.
LEMMA TakeOne ==
    ASSUME NEW U, IsFiniteSet(U), NEW n \in Nat, Cardinality(U) = n + 1
    PROVE  U # {} /\ \A x \in U : Cardinality(U \ {x}) = n
  <1>1. U # {}
    BY FS_EmptySet
  <1>2. \A x \in U : Cardinality(U \ {x}) = Cardinality(U) - 1
    BY FS_RemoveElement
  <1>3. (n + 1) - 1 = n
    OBVIOUS
  <1> QED
    BY <1>1, <1>2, <1>3

\* A set of subsets of a finite S with the empty one, and with each extension
\* of a member by an element of S, has S itself.
LEMMA SubsetInduction ==
    ASSUME NEW S, IsFiniteSet(S), NEW Good, {} \in Good,
           \A T \in SUBSET S : \A x \in S \ T : T \in Good => T \cup {x} \in Good
    PROVE  S \in Good
  <1> DEFINE Sized == {n \in Nat : \A T \in SUBSET S : Cardinality(T) = n => T \in Good}
  <1>1. \A T \in SUBSET S : IsFiniteSet(T) /\ Cardinality(T) \in Nat
    BY FS_Subset, FS_CardinalityType
  <1>2. 0 \in Sized
    BY <1>1, FS_EmptySet
  <1>3. ASSUME NEW n \in Nat, n \in Sized
        PROVE  n + 1 \in Sized
    <2> SUFFICES ASSUME NEW T \in SUBSET S, Cardinality(T) = n + 1 PROVE T \in Good
      OBVIOUS
    <2>1. T # {} /\ \A x \in T : Cardinality(T \ {x}) = n
      BY <1>1, TakeOne
    <2>2. PICK x \in T : TRUE
      BY <2>1
    <2>3. Cardinality(T \ {x}) = n
      BY <2>1
    <2>4. T \ {x} \in SUBSET S /\ x \in S \ (T \ {x})
      OBVIOUS
    <2>5. T \ {x} \in Good
      BY <1>3, <2>3, <2>4
    <2>6. (T \ {x}) \cup {x} = T
      OBVIOUS
    <2> QED
      BY <2>4, <2>5, <2>6
  <1>4. \A n \in Nat : n \in Sized
    <2> HIDE DEF Sized
    <2> QED
      BY <1>2, <1>3, NatSetInduction
  <1> QED
    BY <1>1, <1>4

-----------------------------------------------------------------------------
(* Recursion.                                                              *)

\* Agreeing below x, in the order that rank gives.
AgreeBelow(rank, x, g, h) == \A y \in DOMAIN rank : rank[y] < rank[x] => g[y] = h[y]

\* The value that step gives for an element only depends on the values at the
\* elements of lower rank.
Descends(step, S, V, rank) ==
    /\ step \in [S -> [[S -> V] -> V]]
    /\ \A x \in S : \A g, h \in [S -> V] :
          AgreeBelow(rank, x, g, h) => step[x][g] = step[x][h]

Fixpoint(f, step, S) == f = [x \in S |-> step[x][f]]

\* Such a step defines a function.
LEMMA RecursiveFunctionExists ==
    ASSUME NEW S, NEW V, V # {}, NEW m \in Nat, NEW rank \in [S -> 0 .. m],
           NEW step, Descends(step, S, V, rank)
    PROVE  \E f \in [S -> V] : Fixpoint(f, step, S)
  <1>0. /\ step \in [S -> [[S -> V] -> V]]
        /\ \A x \in S : \A g, h \in [S -> V] :
              AgreeBelow(rank, x, g, h) => step[x][g] = step[x][h]
    BY DEF Descends
  <1> DEFINE Good == {n \in Nat : \E f \in [S -> V] :
                         \A x \in S : rank[x] < n => f[x] = step[x][f]}
  <1>1. 0 \in Good
    <2>1. PICK v \in V : TRUE
      OBVIOUS
    <2>2. [x \in S |-> v] \in [S -> V]
      OBVIOUS
    <2>3. \A x \in S : ~(rank[x] < 0)
      OBVIOUS
    <2> QED
      BY <2>2, <2>3
  <1>2. ASSUME NEW n \in Nat, n \in Good
        PROVE  n + 1 \in Good
    <2>1. PICK f \in [S -> V] : \A x \in S : rank[x] < n => f[x] = step[x][f]
      BY <1>2
    <2> DEFINE g == [x \in S |-> step[x][f]]
    <2>2. g \in [S -> V]
      BY <1>0
    <2>3. ASSUME NEW x \in S, rank[x] < n + 1
          PROVE  g[x] = step[x][g]
      <3>1. \A y \in S : rank[y] < rank[x] => f[y] = g[y]
        BY <2>1, <2>3
      <3>2. AgreeBelow(rank, x, f, g)
        BY <3>1 DEF AgreeBelow
      <3>3. step[x][f] = step[x][g]
        <4> HIDE DEF g
        <4> QED
          BY <1>0, <2>2, <3>2
      <3> QED
        BY <3>3
    <2> HIDE DEF g
    <2> QED
      BY <2>2, <2>3
  <1>3. \A n \in Nat : n \in Good
    <2> HIDE DEF Good
    <2> QED
      BY <1>1, <1>2, NatSetInduction
  <1>4. PICK f \in [S -> V] : \A x \in S : rank[x] < m + 1 => f[x] = step[x][f]
    <2>1. m + 1 \in Good
      <3> HIDE DEF Good
      <3> QED
        BY <1>3
    <2> QED
      BY <2>1
  <1>5. \A x \in S : rank[x] < m + 1
    OBVIOUS
  <1>6. f = [x \in S |-> step[x][f]]
    BY <1>4, <1>5
  <1> QED
    BY <1>6 DEF Fixpoint

\* A set that has an element of S whenever it has those of lower rank has all.
LEMMA RankInduction ==
    ASSUME NEW S, NEW rank, \A x \in S : rank[x] \in Nat, NEW Good,
           \A x \in S : (\A y \in S : rank[y] < rank[x] => y \in Good) => x \in Good
    PROVE  \A x \in S : x \in Good
  <1> DEFINE Low == {n \in Nat : \A x \in S : rank[x] < n => x \in Good}
  <1>1. 0 \in Low
    OBVIOUS
  <1>2. ASSUME NEW n \in Nat, n \in Low
        PROVE  n + 1 \in Low
    <2>1. \A x \in S : rank[x] < n => x \in Good
      BY <1>2
    <2>2. ASSUME NEW x \in S, rank[x] < n + 1
          PROVE  x \in Good
      <3>1. \A y \in S : rank[y] < rank[x] => y \in Good
        BY <2>1, <2>2
      <3> QED
        BY <3>1
    <2> QED
      BY <2>2
  <1>3. \A n \in Nat : n \in Low
    <2> HIDE DEF Low
    <2> QED
      BY <1>1, <1>2, NatSetInduction
  <1>4. ASSUME NEW x \in S
        PROVE  x \in Good
    <2>1. rank[x] + 1 \in Low /\ rank[x] < rank[x] + 1
      BY <1>3
    <2> QED
      BY <2>1
  <1> QED
    BY <1>4

-----------------------------------------------------------------------------
(* The recursion of SumFunctionOnSet.                                      *)

Pick(s) == CHOOSE x \in s : TRUE

\* g adds up f over every member of the family F.
AddsUp(g, f, F) ==
    g = [s \in F |-> IF s = {} THEN 0 ELSE f[Pick(s)] + g[s \ {Pick(s)}]]

\* ... over every subset of S.
Solves(g, f, S) == AddsUp(g, f, SUBSET S)

LEMMA PickIn == \A s : s # {} => Pick(s) \in s
  BY DEF Pick

\* The recursion over the subsets of a finite set has a solution.
LEMMA SumExists ==
    ASSUME NEW f, NEW S, IsFiniteSet(S)
    PROVE  \E g : Solves(g, f, S)
  <1> DEFINE Small(n) == {s \in SUBSET S : Cardinality(s) <= n}
             Good == {n \in Nat : \E g : AddsUp(g, f, Small(n))}
  <1>1. \A s \in SUBSET S : IsFiniteSet(s) /\ Cardinality(s) \in 0 .. Cardinality(S)
    BY FS_Subset, FS_CardinalityType
  <1>2. \A s \in SUBSET S : s # {} =>
            /\ Cardinality(s) # 0
            /\ s \ {Pick(s)} \in SUBSET S
            /\ Cardinality(s \ {Pick(s)}) = Cardinality(s) - 1
    BY <1>1, PickIn, FS_EmptySet, FS_RemoveElement
  <1>3. 0 \in Good
    <2> DEFINE g == [s \in Small(0) |-> 0]
    <2>1. \A s \in Small(0) : s = {}
      <3> SUFFICES ASSUME NEW s \in SUBSET S, Cardinality(s) <= 0 PROVE s = {}
        OBVIOUS
      <3>1. Cardinality(s) \in Nat
        BY <1>1
      <3>2. Cardinality(s) = 0
        BY <3>1
      <3> QED
        BY <1>2, <3>2
    <2>2. AddsUp(g, f, Small(0))
      BY <2>1 DEF AddsUp
    <2> QED
      BY <2>2
  <1>4. ASSUME NEW n \in Nat, n \in Good
        PROVE  n + 1 \in Good
    <2>1. PICK g : AddsUp(g, f, Small(n))
      BY <1>4
    <2> DEFINE h == [s \in Small(n + 1) |->
                        IF s = {} THEN 0 ELSE f[Pick(s)] + g[s \ {Pick(s)}]]
    <2>2. \A s \in Small(n + 1) : s # {} => s \ {Pick(s)} \in Small(n)
      BY <1>1, <1>2
    <2>3. \A s \in Small(n) : s \in Small(n + 1) /\ h[s] = g[s]
      <3>1. \A s \in Small(n) : s \in Small(n + 1)
        BY <1>1
      <3> QED
        BY <2>1, <3>1 DEF AddsUp
    <2>4. \A s \in Small(n + 1) : s # {} => h[s \ {Pick(s)}] = g[s \ {Pick(s)}]
      BY <2>2, <2>3
    <2>5. AddsUp(h, f, Small(n + 1))
      <3> HIDE DEF Small
      <3> QED
        BY <2>4 DEF AddsUp
    <2> HIDE DEF h, Small
    <2> QED
      BY <2>5
  <1>5. \A n \in Nat : n \in Good
    <2> HIDE DEF Good
    <2> QED
      BY <1>3, <1>4, NatSetInduction
  <1>6. Cardinality(S) \in Nat /\ Small(Cardinality(S)) = SUBSET S
    BY <1>1, FS_CardinalityType
  <1> QED
    BY <1>5, <1>6 DEF Solves

\* Two solutions, over the subsets of S and of a part of it, agree on that part.
LEMMA SumUnique ==
    ASSUME NEW f, NEW S, NEW T \in SUBSET S, IsFiniteSet(T),
           NEW g, Solves(g, f, S), NEW h, Solves(h, f, T)
    PROVE  g[T] = h[T]
  <1> DEFINE Good == {n \in Nat :
                 \A U \in SUBSET T : Cardinality(U) = n => g[U] = h[U]}
  <1>1. \A U \in SUBSET T : IsFiniteSet(U) /\ Cardinality(U) \in Nat
    BY FS_Subset, FS_CardinalityType
  <1>2. g[{}] = 0 /\ h[{}] = 0
    BY DEF Solves, AddsUp
  <1>3. 0 \in Good
    BY <1>1, <1>2, FS_EmptySet
  <1>4. ASSUME NEW n \in Nat, n \in Good
        PROVE  n + 1 \in Good
    <2> SUFFICES ASSUME NEW U \in SUBSET T, Cardinality(U) = n + 1
                 PROVE  g[U] = h[U]
      OBVIOUS
    <2> DEFINE V == U \ {Pick(U)}
    <2>1. U # {} /\ \A x \in U : Cardinality(U \ {x}) = n
      BY <1>1, TakeOne
    <2>3. V \in SUBSET T /\ Cardinality(V) = n
      BY <2>1, PickIn
    <2>4. g[V] = h[V]
      BY <1>4, <2>3
    <2> QED
      BY <2>1, <2>4 DEF Solves, AddsUp
  <1>5. \A n \in Nat : n \in Good
    <2> HIDE DEF Good
    <2> QED
      BY <1>3, <1>4, NatSetInduction
  <1> QED
    BY <1>1, <1>5

LEMMA SumSolves ==
    ASSUME NEW f, NEW S, IsFiniteSet(S)
    PROVE  \E g : Solves(g, f, S) /\ SumFunctionOnSet(f, S) = g[S]
  <1> DEFINE g == CHOOSE h : Solves(h, f, S)
  <1>1. Solves(g, f, S)
    BY SumExists
  <1>2. SumFunctionOnSet(f, S) = g[S]
    BY DEF SumFunctionOnSet, FoldFunctionOnSet, MapThenFoldSet, Solves, AddsUp, Pick
  <1> QED
    BY <1>1, <1>2

-----------------------------------------------------------------------------
(* Sums.                                                                   *)

LEMMA SumEmpty == \A f : SumFunctionOnSet(f, {}) = 0
  <1> SUFFICES ASSUME NEW f PROVE SumFunctionOnSet(f, {}) = 0
    OBVIOUS
  <1>1. PICK g : Solves(g, f, {}) /\ SumFunctionOnSet(f, {}) = g[{}]
    BY SumSolves, FS_EmptySet
  <1> QED
    BY <1>1 DEF Solves, AddsUp

\* The element that the recursion takes out first.
LEMMA SumPick ==
    ASSUME NEW f, NEW S, IsFiniteSet(S), S # {}
    PROVE  SumFunctionOnSet(f, S) = f[Pick(S)] + SumFunctionOnSet(f, S \ {Pick(S)})
  <1> DEFINE T == S \ {Pick(S)}
  <1>1. IsFiniteSet(T)
    BY FS_RemoveElement
  <1>2. PICK g : Solves(g, f, S) /\ SumFunctionOnSet(f, S) = g[S]
    BY SumSolves
  <1>3. PICK h : Solves(h, f, T) /\ SumFunctionOnSet(f, T) = h[T]
    BY SumSolves, <1>1
  <1>4. g[T] = h[T]
    <2>1. T \in SUBSET S
      OBVIOUS
    <2>2. Solves(g, f, S) /\ Solves(h, f, T)
      BY <1>2, <1>3
    <2> HIDE DEF T
    <2> QED
      BY <1>1, <2>1, <2>2, SumUnique
  <1>5. g[S] = f[Pick(S)] + g[T]
    BY <1>2 DEF Solves, AddsUp
  <1> QED
    BY <1>2, <1>3, <1>4, <1>5

\* The sum of integers is one.
LEMMA SumInt ==
    ASSUME NEW f, NEW S, IsFiniteSet(S), \A x \in S : f[x] \in Int
    PROVE  SumFunctionOnSet(f, S) \in Int
  <1> DEFINE Good == {n \in Nat : \A U \in SUBSET S :
                         Cardinality(U) = n => SumFunctionOnSet(f, U) \in Int}
  <1>1. \A U \in SUBSET S : IsFiniteSet(U) /\ Cardinality(U) \in Nat
    BY FS_Subset, FS_CardinalityType
  <1>3. 0 \in Good
    BY <1>1, SumEmpty, FS_EmptySet
  <1>4. ASSUME NEW n \in Nat, n \in Good
        PROVE  n + 1 \in Good
    <2> SUFFICES ASSUME NEW U \in SUBSET S, Cardinality(U) = n + 1
                 PROVE  SumFunctionOnSet(f, U) \in Int
      OBVIOUS
    <2>1. U # {} /\ \A x \in U : Cardinality(U \ {x}) = n
      BY <1>1, TakeOne
    <2>2. Pick(U) \in U
      BY <2>1, PickIn
    <2>4. U \ {Pick(U)} \in SUBSET S /\ Cardinality(U \ {Pick(U)}) = n
      BY <2>1, <2>2
    <2>5. SumFunctionOnSet(f, U \ {Pick(U)}) \in Int
      BY <1>4, <2>4
    <2>6. SumFunctionOnSet(f, U) = f[Pick(U)] + SumFunctionOnSet(f, U \ {Pick(U)})
      BY <1>1, <2>1, SumPick
    <2>7. f[Pick(U)] \in Int
      BY <2>2
    <2> QED
      BY <2>5, <2>6, <2>7
  <1>5. \A n \in Nat : n \in Good
    <2> HIDE DEF Good
    <2> QED
      BY <1>3, <1>4, NatSetInduction
  <1> QED
    BY <1>1, <1>5

\* Any element may be taken out.
LEMMA SumElement ==
    ASSUME NEW f, NEW S, IsFiniteSet(S), \A x \in S : f[x] \in Int, NEW z \in S
    PROVE  SumFunctionOnSet(f, S) = f[z] + SumFunctionOnSet(f, S \ {z})
  <1> DEFINE Good == {n \in Nat : \A U \in SUBSET S : Cardinality(U) = n =>
                 \A x \in U : SumFunctionOnSet(f, U)
                              = f[x] + SumFunctionOnSet(f, U \ {x})}
  <1>1. \A U \in SUBSET S : IsFiniteSet(U) /\ Cardinality(U) \in Nat
    BY FS_Subset, FS_CardinalityType
  <1>2. \A U \in SUBSET S : SumFunctionOnSet(f, U) \in Int
    BY <1>1, SumInt
  <1>3. 0 \in Good
    BY <1>1, FS_EmptySet
  <1>4. ASSUME NEW n \in Nat, n \in Good
        PROVE  n + 1 \in Good
    <2> SUFFICES ASSUME NEW U \in SUBSET S, Cardinality(U) = n + 1, NEW x \in U,
                        x # Pick(U)
                 PROVE  SumFunctionOnSet(f, U) = f[x] + SumFunctionOnSet(f, U \ {x})
      BY <1>1, SumPick
    <2> DEFINE y == Pick(U)
               V == U \ {y}
    <2>1. y \in U /\ f[y] \in Int /\ f[x] \in Int
      BY PickIn
    <2>2. Cardinality(V) = n /\ Cardinality(U \ {x}) = n
      BY <1>1, <2>1, TakeOne
    <2>3. /\ V \in SUBSET S /\ Cardinality(V) = n /\ x \in V
          /\ U \ {x} \in SUBSET S /\ Cardinality(U \ {x}) = n /\ y \in U \ {x}
      BY <2>1, <2>2
    <2>4. SumFunctionOnSet(f, V) = f[x] + SumFunctionOnSet(f, V \ {x})
      BY <1>4, <2>3
    <2>5. SumFunctionOnSet(f, U \ {x}) = f[y] + SumFunctionOnSet(f, (U \ {x}) \ {y})
      BY <1>4, <2>3
    <2>6. SumFunctionOnSet(f, U) = f[y] + SumFunctionOnSet(f, V)
      BY <1>1, SumPick
    <2>7. (U \ {x}) \ {y} = V \ {x} /\ V \ {x} \in SUBSET S
      BY <2>3
    <2> QED
      BY <1>2, <2>1, <2>4, <2>5, <2>6, <2>7
  <1>5. \A n \in Nat : n \in Good
    <2> HIDE DEF Good
    <2> QED
      BY <1>3, <1>4, NatSetInduction
  <1> QED
    BY <1>1, <1>5

\* One element more.
LEMMA SumAdd ==
    ASSUME NEW f, NEW S, IsFiniteSet(S), NEW z, z \notin S,
           \A x \in S \cup {z} : f[x] \in Int
    PROVE  SumFunctionOnSet(f, S \cup {z}) = SumFunctionOnSet(f, S) + f[z]
  <1> DEFINE T == S \cup {z}
  <1>1. IsFiniteSet(T)
    BY FS_AddElement
  <1>2. T \ {z} = S /\ z \in T /\ f[z] \in Int
    OBVIOUS
  <1>3. SumFunctionOnSet(f, T) = f[z] + SumFunctionOnSet(f, S)
    <2> HIDE DEF T
    <2>1. \A x \in T : f[x] \in Int
      BY DEF T
    <2> QED
      BY <1>1, <1>2, <2>1, SumElement
  <1>4. SumFunctionOnSet(f, S) \in Int
    BY SumInt
  <1> QED
    BY <1>2, <1>3, <1>4

\* Functions that agree have the same sum.
LEMMA SumAgree ==
    ASSUME NEW S, IsFiniteSet(S), NEW f, NEW g,
           \A x \in S : f[x] \in Int /\ g[x] = f[x]
    PROVE  SumFunctionOnSet(g, S) = SumFunctionOnSet(f, S)
  <1> DEFINE Good == {T \in SUBSET S : SumFunctionOnSet(g, T) = SumFunctionOnSet(f, T)}
  <1>1. {} \in Good
    BY SumEmpty
  <1>2. ASSUME NEW T \in SUBSET S, NEW x \in S \ T, T \in Good
        PROVE  T \cup {x} \in Good
    <2>1. IsFiniteSet(T) /\ \A y \in T \cup {x} : f[y] \in Int /\ g[y] \in Int
      BY FS_Subset
    <2>2. /\ SumFunctionOnSet(f, T \cup {x}) = SumFunctionOnSet(f, T) + f[x]
          /\ SumFunctionOnSet(g, T \cup {x}) = SumFunctionOnSet(g, T) + g[x]
      BY <2>1, SumAdd
    <2> QED
      BY <1>2, <2>2
  <1>3. S \in Good
    <2> HIDE DEF Good
    <2> QED
      BY <1>1, <1>2, SubsetInduction
  <1> QED
    BY <1>3

\* A sum is monotonic in its summands.
LEMMA SumMonotonic ==
    ASSUME NEW S, IsFiniteSet(S), NEW f, NEW g,
           \A x \in S : f[x] \in Int /\ g[x] \in Int /\ f[x] <= g[x]
    PROVE  SumFunctionOnSet(f, S) <= SumFunctionOnSet(g, S)
  <1> DEFINE Good == {T \in SUBSET S : SumFunctionOnSet(f, T) <= SumFunctionOnSet(g, T)}
  <1>1. {} \in Good
    BY SumEmpty
  <1>2. ASSUME NEW T \in SUBSET S, NEW x \in S \ T, T \in Good
        PROVE  T \cup {x} \in Good
    <2>1. IsFiniteSet(T) /\ \A y \in T \cup {x} : f[y] \in Int /\ g[y] \in Int
      BY FS_Subset
    <2>2. /\ SumFunctionOnSet(f, T \cup {x}) = SumFunctionOnSet(f, T) + f[x]
          /\ SumFunctionOnSet(g, T \cup {x}) = SumFunctionOnSet(g, T) + g[x]
      BY <2>1, SumAdd
    <2>3. SumFunctionOnSet(f, T) \in Int /\ SumFunctionOnSet(g, T) \in Int
      BY <2>1, SumInt
    <2>4. f[x] \in Int /\ g[x] \in Int /\ f[x] <= g[x]
      OBVIOUS
    <2> QED
      BY <1>2, <2>2, <2>3, <2>4
  <1>3. S \in Good
    <2> HIDE DEF Good
    <2> QED
      BY <1>1, <1>2, SubsetInduction
  <1> QED
    BY <1>3

\* The sum of natural numbers is one.
LEMMA SumNat ==
    ASSUME NEW f, NEW S, IsFiniteSet(S), \A x \in S : f[x] \in Nat
    PROVE  SumFunctionOnSet(f, S) \in Nat
  <1> DEFINE Good == {T \in SUBSET S : SumFunctionOnSet(f, T) \in Nat}
  <1>1. {} \in Good
    BY SumEmpty
  <1>2. ASSUME NEW T \in SUBSET S, NEW x \in S \ T, T \in Good
        PROVE  T \cup {x} \in Good
    <2>1. IsFiniteSet(T) /\ \A y \in T \cup {x} : f[y] \in Int
      BY FS_Subset
    <2>2. SumFunctionOnSet(f, T \cup {x}) = SumFunctionOnSet(f, T) + f[x]
      BY <2>1, SumAdd
    <2> QED
      BY <1>2, <2>2
  <1>3. S \in Good
    <2> HIDE DEF Good
    <2> QED
      BY <1>1, <1>2, SubsetInduction
  <1> QED
    BY <1>3

\* The sum of n equal summands.
LEMMA SumConstant ==
    ASSUME NEW S, IsFiniteSet(S), NEW f, NEW m \in Nat, \A x \in S : f[x] = m
    PROVE  SumFunctionOnSet(f, S) = m * Cardinality(S)
  <1> DEFINE Good == {T \in SUBSET S : SumFunctionOnSet(f, T) = m * Cardinality(T)}
  <1>1. {} \in Good
    BY SumEmpty, FS_EmptySet
  <1>2. ASSUME NEW T \in SUBSET S, NEW x \in S \ T, T \in Good
        PROVE  T \cup {x} \in Good
    <2>1. IsFiniteSet(T) /\ \A y \in T \cup {x} : f[y] \in Int
      BY FS_Subset
    <2>2. SumFunctionOnSet(f, T \cup {x}) = SumFunctionOnSet(f, T) + f[x]
      BY <2>1, SumAdd
    <2>3. Cardinality(T) \in Nat /\ Cardinality(T \cup {x}) = Cardinality(T) + 1
      BY <2>1, FS_AddElement, FS_CardinalityType
    <2>4. m * (Cardinality(T) + 1) = m * Cardinality(T) + m
      BY <2>3
    <2>5. f[x] = m
      OBVIOUS
    <2>6. SumFunctionOnSet(f, T) = m * Cardinality(T)
      BY <1>2
    <2> QED
      BY <2>2, <2>3, <2>4, <2>5, <2>6
  <1>3. S \in Good
    <2> HIDE DEF Good
    <2> QED
      BY <1>1, <1>2, SubsetInduction
  <1> QED
    BY <1>3

\* The sum over two disjoint sets.
LEMMA SumUnion ==
    ASSUME NEW S, IsFiniteSet(S), NEW T, IsFiniteSet(T), S \cap T = {},
           NEW f, \A x \in S \cup T : f[x] \in Int
    PROVE  SumFunctionOnSet(f, S \cup T) = SumFunctionOnSet(f, S) + SumFunctionOnSet(f, T)
  <1> DEFINE Good == {U \in SUBSET T :
          SumFunctionOnSet(f, S \cup U) = SumFunctionOnSet(f, S) + SumFunctionOnSet(f, U)}
  <1>0. SumFunctionOnSet(f, S) \in Int
    BY SumInt
  <1>1. {} \in Good
    <2>1. S \cup {} = S
      OBVIOUS
    <2> QED
      BY <1>0, <2>1, SumEmpty
  <1>2. ASSUME NEW U \in SUBSET T, NEW x \in T \ U, U \in Good
        PROVE  U \cup {x} \in Good
    <2> DEFINE V == S \cup U
    <2>1. IsFiniteSet(U) /\ \A y \in U \cup {x} : f[y] \in Int
      BY FS_Subset
    <2>2. IsFiniteSet(V) /\ x \notin V /\ \A y \in V \cup {x} : f[y] \in Int
      BY <2>1, FS_Union
    <2>3. SumFunctionOnSet(f, U \cup {x}) = SumFunctionOnSet(f, U) + f[x]
      BY <2>1, SumAdd
    <2>4. SumFunctionOnSet(f, V \cup {x}) = SumFunctionOnSet(f, V) + f[x]
      <3> HIDE DEF V
      <3> QED
        BY <2>2, SumAdd
    <2>5. SumFunctionOnSet(f, U) \in Int /\ f[x] \in Int
      BY <2>1, SumInt
    <2>6. S \cup (U \cup {x}) = V \cup {x}
      OBVIOUS
    <2>7. SumFunctionOnSet(f, V) = SumFunctionOnSet(f, S) + SumFunctionOnSet(f, U)
      BY <1>2
    <2>8. SumFunctionOnSet(f, S \cup (U \cup {x}))
              = SumFunctionOnSet(f, S) + SumFunctionOnSet(f, U \cup {x})
      <3>1. SumFunctionOnSet(f, S \cup (U \cup {x})) = SumFunctionOnSet(f, V \cup {x})
        BY <2>6
      <3> HIDE DEF V, Good
      <3> QED
        BY <1>0, <2>3, <2>4, <2>5, <2>7, <3>1
    <2> QED
      BY <2>8
  <1>3. T \in Good
    <2> HIDE DEF Good
    <2> QED
      BY <1>1, <1>2, SubsetInduction
  <1> QED
    BY <1>3

\* Functions that agree but for one element.
LEMMA SumChange ==
    ASSUME NEW S, IsFiniteSet(S), NEW z \in S, NEW f, NEW g,
           \A x \in S : f[x] \in Int /\ g[x] \in Int,
           \A x \in S \ {z} : g[x] = f[x]
    PROVE  SumFunctionOnSet(g, S) = SumFunctionOnSet(f, S) - f[z] + g[z]
  <1> DEFINE T == S \ {z}
  <1>1. IsFiniteSet(T)
    BY FS_RemoveElement
  <1>2. SumFunctionOnSet(g, T) = SumFunctionOnSet(f, T) /\ SumFunctionOnSet(f, T) \in Int
    BY <1>1, SumAgree, SumInt
  <1>3. /\ SumFunctionOnSet(f, S) = f[z] + SumFunctionOnSet(f, T)
        /\ SumFunctionOnSet(g, S) = g[z] + SumFunctionOnSet(g, T)
    BY SumElement
  <1> QED
    BY <1>2, <1>3

\* A sum over disjoint parts is the sum of the parts' sums.
LEMMA SumParts ==
    ASSUME NEW K, IsFiniteSet(K), NEW Part, \A k \in K : IsFiniteSet(Part[k]),
           \A j, k \in K : j # k => Part[j] \cap Part[k] = {},
           NEW f, \A k \in K : \A x \in Part[k] : f[x] \in Int,
           NEW h, \A k \in K : h[k] = SumFunctionOnSet(f, Part[k])
    PROVE  SumFunctionOnSet(h, K) = SumFunctionOnSet(f, UNION {Part[k] : k \in K})
  <1> DEFINE All(J) == UNION {Part[k] : k \in J}
             Good == {J \in SUBSET K :
                 IsFiniteSet(All(J)) /\ SumFunctionOnSet(h, J) = SumFunctionOnSet(f, All(J))}
  <1>0. \A k \in K : h[k] \in Int
    BY SumInt
  <1>1. {} \in Good
    <2>1. All({}) = {}
      OBVIOUS
    <2> QED
      BY <2>1, SumEmpty, FS_EmptySet
  <1>2. ASSUME NEW J \in SUBSET K, NEW k \in K \ J, J \in Good
        PROVE  J \cup {k} \in Good
    <2>1. All(J \cup {k}) = All(J) \cup Part[k]
      OBVIOUS
    <2>2. All(J) \cap Part[k] = {} /\ \A x \in All(J) \cup Part[k] : f[x] \in Int
      OBVIOUS
    <2>3. IsFiniteSet(J) /\ \A j \in J \cup {k} : h[j] \in Int
      BY <1>0, FS_Subset
    <2>4. SumFunctionOnSet(h, J \cup {k}) = SumFunctionOnSet(h, J) + h[k]
      BY <2>3, SumAdd
    <2>5. IsFiniteSet(All(J)) /\ IsFiniteSet(Part[k])
      BY <1>2
    <2>6. SumFunctionOnSet(h, J) = SumFunctionOnSet(f, All(J))
      BY <1>2
    <2> HIDE DEF All
    <2>7. IsFiniteSet(All(J) \cup Part[k])
      BY <2>5, FS_Union
    <2>8. SumFunctionOnSet(f, All(J) \cup Part[k])
              = SumFunctionOnSet(f, All(J)) + SumFunctionOnSet(f, Part[k])
      BY <2>2, <2>5, SumUnion
    <2>9. SumFunctionOnSet(h, J \cup {k}) = SumFunctionOnSet(f, All(J \cup {k}))
      BY <2>1, <2>4, <2>6, <2>8
    <2> QED
      BY <2>1, <2>7, <2>9
  <1>3. K \in Good
    <2> HIDE DEF Good
    <2> QED
      BY <1>1, <1>2, SubsetInduction
  <1> QED
    BY <1>3
=============================================================================
