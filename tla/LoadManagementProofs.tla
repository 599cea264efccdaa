------------------------- MODULE LoadManagementProofs -------------------------
(***************************************************************************)
(* What LoadManagement guarantees for any tree of circuits, any number of  *)
(* loadpoints and any limits.                                              *)
(***************************************************************************)
EXTENDS LoadManagement, SumTheorems, SequenceTheorems

-----------------------------------------------------------------------------
(* The tree.                                                               *)

LEMMA TreeFacts ==
    /\ Len(Circuits) \in Nat \ {0}
    /\ Root \in CircuitSet
    /\ \A c \in CircuitSet : Position[c] \in 1 .. Len(Circuits)
    /\ \A c \in CircuitSet : Parent[c] # NoCircuit =>
          Parent[c] \in CircuitSet /\ Position[c] < Position[Parent[c]]
    /\ IsFiniteSet(CircuitSet)
  <1>1. Len(Circuits) \in Nat \ {0} /\ DOMAIN Circuits = 1 .. Len(Circuits)
    BY TreeAssumption
  <1>2. Root \in CircuitSet
    BY <1>1 DEF Root, CircuitSet
  <1>3. \A c \in CircuitSet : Position[c] \in 1 .. Len(Circuits)
    BY <1>1 DEF Position, CircuitSet
  <1>4. \A c \in CircuitSet : Parent[c] # NoCircuit =>
            Parent[c] \in CircuitSet /\ Position[c] < Position[Parent[c]]
    BY TreeAssumption
  <1>5. IsFiniteSet(CircuitSet)
    <2>1. IsFiniteSet(1 .. Len(Circuits))
      BY <1>1, FS_Interval
    <2>2. Circuits \in [1 .. Len(Circuits) -> CircuitSet]
      BY <1>1, TreeAssumption
    <2>3. \A c \in CircuitSet : \E i \in 1 .. Len(Circuits) : Circuits[i] = c
      BY <1>1 DEF CircuitSet
    <2>4. Circuits \in Surjection(1 .. Len(Circuits), CircuitSet)
      BY <2>2, <2>3 DEF Surjection
    <2> QED
      BY <2>1, <2>4, FS_Surjection
  <1> QED
    BY <1>1, <1>2, <1>3, <1>4, <1>5

\* How far a circuit is from the end of the list: less for its parent.
Height == [c \in CircuitSet |-> Len(Circuits) - Position[c]]

LEMMA HeightFalls ==
    /\ Height \in [CircuitSet -> 0 .. Len(Circuits)]
    /\ \A c \in CircuitSet : Parent[c] # NoCircuit => Height[Parent[c]] < Height[c]
  BY TreeFacts DEF Height

\* The recursion of Above has a solution.
LEMMA AboveIs ==
    /\ Above = [c \in CircuitSet |->
          {c} \cup (IF Parent[c] = NoCircuit THEN {} ELSE Above[Parent[c]])]
    /\ \A c \in CircuitSet : Above[c] \subseteq CircuitSet
  <1> DEFINE Up(c, g) == {c} \cup (IF Parent[c] = NoCircuit THEN {} ELSE g[Parent[c]])
             V == SUBSET CircuitSet
             W == [CircuitSet -> V]
             step == [c \in CircuitSet |-> [g \in W |-> Up(c, g)]]
  <1>1. \A c \in CircuitSet : \A g \in W : Up(c, g) \in V /\ step[c][g] = Up(c, g)
    BY TreeFacts
  <1>2. step \in [CircuitSet -> [W -> V]]
    BY <1>1
  <1>3. \A c \in CircuitSet : \A g, h \in W :
            AgreeBelow(Height, c, g, h) => step[c][g] = step[c][h]
    <2> SUFFICES ASSUME NEW c \in CircuitSet, NEW g \in W, NEW h \in W,
                        AgreeBelow(Height, c, g, h)
                 PROVE  Up(c, g) = Up(c, h)
      <3> HIDE DEF step, W, Up
      <3> QED
        BY <1>1
    <2>1. DOMAIN Height = CircuitSet
      BY HeightFalls
    <2>2. Parent[c] # NoCircuit => g[Parent[c]] = h[Parent[c]]
      BY <2>1, TreeFacts, HeightFalls DEF AgreeBelow
    <2> QED
      BY <2>2
  <1>4. \E f \in W : Fixpoint(f, step, CircuitSet)
    <2>1. V # {} /\ Len(Circuits) \in Nat
      BY TreeFacts
    <2>2. Height \in [CircuitSet -> 0 .. Len(Circuits)]
      BY HeightFalls
    <2>3. Descends(step, CircuitSet, V, Height)
      <3> HIDE DEF step, V
      <3> QED
        BY <1>2, <1>3 DEF Descends
    <2> HIDE DEF step, V
    <2> QED
      BY <2>1, <2>2, <2>3, RecursiveFunctionExists
  <1>5. PICK f \in W : f = [c \in CircuitSet |-> Up(c, f)]
    <2> HIDE DEF step, W, Up
    <2> QED
      BY <1>1, <1>4 DEF Fixpoint
  <1>6. Above = [c \in CircuitSet |-> Up(c, Above)]
    BY <1>5 DEF Above
  <1>7. \A c \in CircuitSet : Above[c] \subseteq CircuitSet
    <2> DEFINE Good == {c \in CircuitSet : Above[c] \subseteq CircuitSet}
    <2>1. ASSUME NEW c \in CircuitSet,
                 \A d \in CircuitSet : Height[d] < Height[c] => d \in Good
          PROVE  c \in Good
      <3>1. Above[c] = Up(c, Above)
        BY <1>6
      <3> QED
        BY <2>1, <3>1, TreeFacts, HeightFalls
    <2>2. \A c \in CircuitSet : Height[c] \in Nat
      BY HeightFalls
    <2>3. \A c \in CircuitSet : c \in Good
      <3> HIDE DEF Good
      <3> QED
        BY <2>1, <2>2, RankInduction
    <2> QED
      BY <2>3
  <1> QED
    BY <1>6, <1>7

\* A circuit is above another one when it is that one or above its parent.
LEMMA WithinFacts ==
    \A c, d \in CircuitSet :
        /\ d \in Within[c] <=> d = c \/ (Parent[d] # NoCircuit /\ Parent[d] \in Within[c])
        /\ Within[c] \subseteq CircuitSet
  <1> SUFFICES ASSUME NEW c \in CircuitSet, NEW d \in CircuitSet
               PROVE  /\ c \in Above[d] <=>
                            d = c \/ (Parent[d] # NoCircuit /\ c \in Above[Parent[d]])
                      /\ Within[c] \subseteq CircuitSet
    BY TreeFacts DEF Within
  <1>1. Above[d] = {d} \cup (IF Parent[d] = NoCircuit THEN {} ELSE Above[Parent[d]])
    BY AboveIs
  <1> QED
    BY <1>1 DEF Within

\* What is within a circuit is before it in the list.
LEMMA WithinBefore ==
    \A d \in CircuitSet : \A c \in CircuitSet : d \in Within[c] => Position[d] <= Position[c]
  <1> DEFINE Good == {d \in CircuitSet :
                 \A c \in CircuitSet : d \in Within[c] => Position[d] <= Position[c]}
  <1>1. ASSUME NEW d \in CircuitSet,
               \A e \in CircuitSet : Height[e] < Height[d] => e \in Good
        PROVE  d \in Good
    <2> SUFFICES ASSUME NEW c \in CircuitSet, d \in Within[c], d # c
                 PROVE  Position[d] <= Position[c]
      BY TreeFacts
    <2>1. Parent[d] \in CircuitSet /\ Parent[d] # NoCircuit /\ Parent[d] \in Within[c]
      BY WithinFacts, TreeFacts
    <2>2. Position[Parent[d]] <= Position[c]
      BY <1>1, <2>1, HeightFalls
    <2> QED
      BY <2>1, <2>2, TreeFacts
  <1>2. \A c \in CircuitSet : Height[c] \in Nat
    BY HeightFalls
  <1>3. \A c \in CircuitSet : c \in Good
    <2> HIDE DEF Good
    <2> QED
      BY <1>1, <1>2, RankInduction
  <1> QED
    BY <1>3

LEMMA ChildFacts ==
    \A c \in CircuitSet :
        /\ Children[c] \subseteq CircuitSet /\ IsFiniteSet(Children[c])
        /\ \A d \in Children[c] : Parent[d] = c /\ Position[d] < Position[c]
  <1> SUFFICES ASSUME NEW c \in CircuitSet
               PROVE  /\ Children[c] \subseteq CircuitSet /\ IsFiniteSet(Children[c])
                      /\ \A d \in Children[c] : Parent[d] = c /\ Position[d] < Position[c]
    OBVIOUS
  <1>1. Children[c] = {d \in CircuitSet : Parent[d] = c} /\ c # NoCircuit
    BY TreeAssumption DEF Children
  <1>2. Children[c] \in SUBSET CircuitSet
    BY <1>1
  <1>3. IsFiniteSet(Children[c])
    BY <1>2, TreeFacts, FS_Subset
  <1> QED
    BY <1>1, <1>3, TreeFacts

\* Within a circuit is the circuit itself and what is within its children.
LEMMA WithinChildren ==
    \A c \in CircuitSet : Within[c] = {c} \cup UNION {Within[d] : d \in Children[c]}
  <1> SUFFICES ASSUME NEW c \in CircuitSet
               PROVE  Within[c] = {c} \cup UNION {Within[d] : d \in Children[c]}
    OBVIOUS
  <1> DEFINE Good == {e \in CircuitSet :
                 e \in Within[c] => e = c \/ \E d \in Children[c] : e \in Within[d]}
  <1>1. ASSUME NEW e \in CircuitSet,
               \A g \in CircuitSet : Height[g] < Height[e] => g \in Good
        PROVE  e \in Good
    <2> SUFFICES ASSUME e \in Within[c], e # c
                 PROVE  \E d \in Children[c] : e \in Within[d]
      OBVIOUS
    <2>1. Parent[e] \in CircuitSet /\ Parent[e] # NoCircuit /\ Parent[e] \in Within[c]
      BY WithinFacts, TreeFacts
    <2>2. CASE Parent[e] = c
      <3>1. e \in Children[c] /\ e \in Within[e]
        BY <2>2, WithinFacts DEF Children
      <3> QED
        BY <3>1
    <2>3. CASE Parent[e] # c
      <3>1. PICK d \in Children[c] : Parent[e] \in Within[d]
        BY <1>1, <2>1, <2>3, HeightFalls
      <3>2. e \in Within[d]
        BY <2>1, <3>1, ChildFacts, WithinFacts
      <3> QED
        BY <3>2
    <2> QED
      BY <2>2, <2>3
  <1>2. \A e \in CircuitSet : e \in Good
    <2> HIDE DEF Good
    <2>1. \A e \in CircuitSet : Height[e] \in Nat
      BY HeightFalls
    <2> QED
      BY <1>1, <2>1, RankInduction
  <1> DEFINE Down == {e \in CircuitSet :
                 \A d \in Children[c] : e \in Within[d] => e \in Within[c]}
  <1>3. ASSUME NEW e \in CircuitSet,
               \A g \in CircuitSet : Height[g] < Height[e] => g \in Down
        PROVE  e \in Down
    <2> SUFFICES ASSUME NEW d \in Children[c], e \in Within[d]
                 PROVE  e \in Within[c]
      OBVIOUS
    <2>1. d \in CircuitSet /\ Parent[d] = c /\ c \in Within[c] /\ c # NoCircuit
      BY ChildFacts, WithinFacts, TreeAssumption
    <2>2. CASE e = d
      BY <2>1, <2>2, WithinFacts
    <2>3. CASE e # d
      <3>1. Parent[e] # NoCircuit /\ Parent[e] \in CircuitSet /\ Parent[e] \in Within[d]
        BY <2>1, <2>3, WithinFacts, TreeFacts
      <3>2. Parent[e] \in Within[c]
        BY <1>3, <3>1, HeightFalls
      <3> QED
        BY <3>1, <3>2, WithinFacts
    <2> QED
      BY <2>2, <2>3
  <1>4. \A e \in CircuitSet : e \in Down
    <2> HIDE DEF Down
    <2>1. \A e \in CircuitSet : Height[e] \in Nat
      BY HeightFalls
    <2> QED
      BY <1>3, <2>1, RankInduction
  <1>5. Within[c] \subseteq CircuitSet /\ c \in Within[c]
    BY WithinFacts
  <1>6. \A d \in Children[c] : Within[d] \subseteq CircuitSet
    BY ChildFacts, WithinFacts
  <1> QED
    BY <1>2, <1>4, <1>5, <1>6

\* No circuit is within two children of a circuit.
LEMMA ChildrenApart ==
    \A c \in CircuitSet : \A a, b \in Children[c] : a # b => Within[a] \cap Within[b] = {}
  <1> SUFFICES ASSUME NEW c \in CircuitSet, NEW a \in Children[c], NEW b \in Children[c],
                      a # b
               PROVE  Within[a] \cap Within[b] = {}
    OBVIOUS
  <1> DEFINE Good == {e \in CircuitSet : ~(e \in Within[a] /\ e \in Within[b])}
  <1>1. /\ a \in CircuitSet /\ b \in CircuitSet /\ Parent[a] = c /\ Parent[b] = c
        /\ Position[a] < Position[c] /\ Position[b] < Position[c]
    BY ChildFacts
  <1>2. c \notin Within[a] /\ c \notin Within[b]
    BY <1>1, WithinBefore, TreeFacts
  <1>3. ASSUME NEW e \in CircuitSet,
               \A g \in CircuitSet : Height[g] < Height[e] => g \in Good
        PROVE  e \in Good
    <2> SUFFICES ASSUME e \in Within[a], e \in Within[b] PROVE FALSE
      OBVIOUS
    <2>1. e # a
      BY <1>1, <1>2, WithinFacts
    <2>2. e # b
      BY <1>1, <1>2, WithinFacts
    <2>3. /\ Parent[e] # NoCircuit /\ Parent[e] \in CircuitSet
          /\ Parent[e] \in Within[a] /\ Parent[e] \in Within[b]
      BY <1>1, <2>1, <2>2, WithinFacts, TreeFacts
    <2> QED
      BY <1>3, <2>3, HeightFalls
  <1>4. \A e \in CircuitSet : e \in Good
    <2> HIDE DEF Good
    <2>1. \A e \in CircuitSet : Height[e] \in Nat
      BY HeightFalls
    <2> QED
      BY <1>3, <2>1, RankInduction
  <1>5. Within[a] \subseteq CircuitSet
    BY <1>1, WithinFacts
  <1> QED
    BY <1>4, <1>5

-----------------------------------------------------------------------------
(* The loadpoints below a circuit.                                         *)

Own(c) == {lp \in Loadpoints : CircuitOf[lp] = c}

LEMMA BelowFacts ==
    \A c \in CircuitSet :
        /\ Below[c] = {lp \in Loadpoints : CircuitOf[lp] \in Within[c]}
        /\ Below[c] \subseteq Loadpoints /\ IsFiniteSet(Below[c])
        /\ Own(c) \subseteq Below[c] /\ IsFiniteSet(Own(c))
  <1> SUFFICES ASSUME NEW c \in CircuitSet
               PROVE  /\ Below[c] = {lp \in Loadpoints : CircuitOf[lp] \in Within[c]}
                      /\ Below[c] \subseteq Loadpoints /\ IsFiniteSet(Below[c])
                      /\ Own(c) \subseteq Below[c] /\ IsFiniteSet(Own(c))
    OBVIOUS
  <1>1. Below[c] = {lp \in Loadpoints : CircuitOf[lp] \in Within[c]}
    BY DEF Below
  <1>2. c \in Within[c]
    BY WithinFacts
  <1>3. Below[c] \in SUBSET Loadpoints /\ Own(c) \subseteq Below[c]
    BY <1>1, <1>2 DEF Own
  <1>4. IsFiniteSet(Loadpoints)
    BY LoadpointAssumption
  <1>5. IsFiniteSet(Below[c])
    BY <1>3, <1>4, FS_Subset
  <1>6. IsFiniteSet(Own(c))
    BY <1>3, <1>5, FS_Subset
  <1> QED
    BY <1>1, <1>3, <1>5, <1>6

\* They are its own ones and those below its children.
LEMMA BelowSum ==
    ASSUME NEW c \in CircuitSet, NEW f, \A lp \in Loadpoints : f[lp] \in Int
    PROVE  /\ SumFunctionOnSet(f, Below[c])
                 = SumFunctionOnSet(f, Own(c))
                   + SumFunction([d \in Children[c] |-> SumFunctionOnSet(f, Below[d])])
           /\ SumFunctionOnSet(f, Below[c]) \in Int
           /\ SumFunctionOnSet(f, Own(c)) \in Int
  <1> DEFINE K == Children[c]
             h == [d \in K |-> SumFunctionOnSet(f, Below[d])]
             U == UNION {Below[d] : d \in K}
  <1>1. K \subseteq CircuitSet /\ IsFiniteSet(K)
    BY ChildFacts
  <1>2. \A d \in K : IsFiniteSet(Below[d]) /\ \A lp \in Below[d] : f[lp] \in Int
    BY <1>1, BelowFacts
  <1>3. \A d, e \in K : d # e => Below[d] \cap Below[e] = {}
    BY <1>1, BelowFacts, ChildrenApart
  <1>4. SumFunctionOnSet(h, K) = SumFunctionOnSet(f, U)
    <2>1. \A d \in K : h[d] = SumFunctionOnSet(f, Below[d])
      OBVIOUS
    <2> HIDE DEF K, h
    <2> QED
      BY <1>1, <1>2, <1>3, <2>1, SumParts
  <1>5. SumFunction(h) = SumFunctionOnSet(h, K)
    BY DEF SumFunction
  <1>6. Below[c] = Own(c) \cup U
    <2>1. \A lp \in Loadpoints : CircuitOf[lp] \in CircuitSet
      BY LimitAssumption
    <2>2. Within[c] = {c} \cup UNION {Within[d] : d \in K}
      BY WithinChildren
    <2>3. \A d \in K : Below[d] = {lp \in Loadpoints : CircuitOf[lp] \in Within[d]}
      BY <1>1, BelowFacts
    <2>4. Below[c] = {lp \in Loadpoints : CircuitOf[lp] \in Within[c]}
      BY BelowFacts
    <2> HIDE DEF K
    <2> QED
      BY <2>2, <2>3, <2>4 DEF Own
  <1>7. Own(c) \cap U = {}
    <2>1. \A d \in K : c \notin Within[d]
      BY <1>1, ChildFacts, WithinBefore, TreeFacts
    <2>2. \A d \in K : Below[d] = {lp \in Loadpoints : CircuitOf[lp] \in Within[d]}
      BY <1>1, BelowFacts
    <2> SUFFICES ASSUME NEW lp \in Own(c), NEW d \in K, lp \in Below[d] PROVE FALSE
      OBVIOUS
    <2> QED
      BY <2>1, <2>2 DEF Own
  <1>8. IsFiniteSet(U) /\ IsFiniteSet(Own(c)) /\ IsFiniteSet(Below[c])
    <2>1. IsFiniteSet(Own(c)) /\ IsFiniteSet(Below[c])
      BY BelowFacts
    <2>2. U \in SUBSET Below[c]
      BY <1>6
    <2> QED
      BY <2>1, <2>2, FS_Subset
  <1>9. \A lp \in Below[c] : f[lp] \in Int
    BY BelowFacts
  <1> HIDE DEF U, h
  <1>10. SumFunctionOnSet(f, Below[c]) = SumFunctionOnSet(f, Own(c)) + SumFunctionOnSet(f, U)
    BY <1>6, <1>7, <1>8, <1>9, SumUnion
  <1>11. SumFunctionOnSet(f, Below[c]) \in Int /\ SumFunctionOnSet(f, Own(c)) \in Int
    BY <1>6, <1>8, <1>9, SumInt
  <1> QED
    BY <1>4, <1>5, <1>10, <1>11 DEF h

-----------------------------------------------------------------------------
(* Update.                                                                 *)

CircuitState == [power : Nat, current : Nat,
                 powerAge : 0 .. Timeout + 1, currentAge : 0 .. Timeout + 1]

\* What an update makes of a circuit, given the other circuits g.
Updated(c, g, old, load, state, lpPower, lpCurrent) ==
    IF c \notin Reached(state) THEN Older(old)[c]
    ELSE IF HasMeter[c] THEN UpdateMeters(Older(old)[c], c, load[c], state[c])
    ELSE SumLoads(Older(old)[c], c, [d \in Children[c] |-> g[d]], lpPower, lpCurrent)

\* A field of a circuit's state is changed.
LEMMA FieldSet ==
    ASSUME NEW o \in CircuitState
    PROVE  /\ \A x \in Nat : /\ [o EXCEPT !.power = x] \in CircuitState
                             /\ [o EXCEPT !.power = x].power = x
                             /\ [o EXCEPT !.power = x].current = o.current
           /\ \A x \in Nat : /\ [o EXCEPT !.current = x] \in CircuitState
                             /\ [o EXCEPT !.current = x].current = x
                             /\ [o EXCEPT !.current = x].power = o.power
           /\ \A x \in 0 .. Timeout + 1 :
                 /\ [o EXCEPT !.powerAge = x] \in CircuitState
                 /\ [o EXCEPT !.powerAge = x].power = o.power
                 /\ [o EXCEPT !.powerAge = x].current = o.current
           /\ \A x \in 0 .. Timeout + 1 :
                 /\ [o EXCEPT !.currentAge = x] \in CircuitState
                 /\ [o EXCEPT !.currentAge = x].power = o.power
                 /\ [o EXCEPT !.currentAge = x].current = o.current
  BY DEF CircuitState

LEMMA OlderType ==
    ASSUME NEW old \in [CircuitSet -> CircuitState], NEW c \in CircuitSet
    PROVE  /\ Older(old)[c] \in CircuitState
           /\ Older(old)[c].power = old[c].power
           /\ Older(old)[c].current = old[c].current
  <1> DEFINE a == Smaller(old[c].powerAge + 1, Timeout + 1)
             b == Smaller(old[c].currentAge + 1, Timeout + 1)
             o == [old[c] EXCEPT !.powerAge = a]
  <1>1. old[c] \in CircuitState
    OBVIOUS
  <1>2. Older(old)[c] = [o EXCEPT !.currentAge = b]
    BY DEF Older
  <1>3. a \in 0 .. Timeout + 1 /\ b \in 0 .. Timeout + 1
    BY <1>1, LimitAssumption DEF CircuitState, Smaller
  <1> HIDE DEF a, b
  <1>4. o \in CircuitState /\ o.power = old[c].power /\ o.current = old[c].current
    BY <1>1, <1>3, FieldSet
  <1> HIDE DEF o
  <1> QED
    BY <1>2, <1>3, <1>4, FieldSet

\* The sum of what the children report is a natural number.
LEMMA ChildSum ==
    ASSUME NEW c \in CircuitSet, NEW h, DOMAIN h = Children[c],
           \A d \in Children[c] : h[d] \in Nat
    PROVE  SumFunction(h) \in Nat
  <1>1. IsFiniteSet(Children[c])
    BY ChildFacts
  <1>2. SumFunctionOnSet(h, Children[c]) \in Nat
    BY <1>1, SumNat
  <1> QED
    BY <1>2 DEF SumFunction

\* What an update makes of a circuit is the state of one.
LEMMA UpdatedType ==
    ASSUME NEW c \in CircuitSet, NEW g, \A d \in Children[c] : g[d] \in CircuitState,
           NEW old \in [CircuitSet -> CircuitState],
           NEW load, load[c] \in Nat, NEW state, state[c] \in MeterStates,
           NEW lpPower, NEW lpCurrent,
           \A lp \in Loadpoints : lpPower[lp] \in Nat /\ lpCurrent[lp] \in Nat
    PROVE  Updated(c, g, old, load, state, lpPower, lpCurrent) \in CircuitState
  <1> DEFINE o == Older(old)[c]
  <1>1. o \in CircuitState /\ Timeout \in Nat
    BY OlderType, LimitAssumption
  <1> HIDE DEF o
  <1>2. UpdateMeters(o, c, load[c], state[c]) \in CircuitState
    <2> DEFINE a == OverloadOnError(o.power, o.powerAge)
               r1 == [o EXCEPT !.power = load[c]]
               r2 == [r1 EXCEPT !.powerAge = 0]
               b == OverloadOnError(o.current, o.currentAge)
               r3 == [r2 EXCEPT !.current = load[c]]
    <2>1. a \in Nat /\ b \in Nat /\ 0 \in 0 .. Timeout + 1
      BY <1>1 DEF OverloadOnError, Overload, CircuitState
    <2>2. r1 \in CircuitState /\ r1.current = o.current
      BY <1>1, FieldSet
    <2>3. r2 \in CircuitState /\ r2.current = o.current
      <3> HIDE DEF r1
      <3> QED
        BY <2>1, <2>2, FieldSet
    <2>4. UpdateMeters(o, c, load[c], state[c]) \in
              {[o EXCEPT !.power = a], r2, [r2 EXCEPT !.current = b], [r3 EXCEPT !.currentAge = 0]}
      <3>1. r2 = [o EXCEPT !.power = load[c], !.powerAge = 0]
        OBVIOUS
      <3>2. b = OverloadOnError(r2.current, o.currentAge)
        BY <2>3
      <3> HIDE DEF r2
      <3>3. [r3 EXCEPT !.currentAge = 0] = [r2 EXCEPT !.current = load[c], !.currentAge = 0]
        OBVIOUS
      <3> QED
        BY <3>1, <3>2, <3>3 DEF UpdateMeters, MeterStates
    <2> HIDE DEF r2
    <2>5. r3 \in CircuitState
      BY <2>3, FieldSet
    <2> HIDE DEF a, b, r3
    <2> QED
      BY <1>1, <2>1, <2>3, <2>4, <2>5, FieldSet
  <1>3. SumLoads(o, c, [d \in Children[c] |-> g[d]], lpPower, lpCurrent) \in CircuitState
    <2> DEFINE k == [d \in Children[c] |-> g[d]]
               p == [d \in Children[c] |-> k[d].power]
               q == [d \in Children[c] |-> k[d].current]
    <2>1. \A d \in Children[c] : p[d] \in Nat /\ q[d] \in Nat
      BY DEF CircuitState
    <2>2. SumFunction(p) \in Nat /\ SumFunction(q) \in Nat
      <3>1. DOMAIN p = Children[c] /\ DOMAIN q = Children[c]
        OBVIOUS
      <3> HIDE DEF p, q
      <3> QED
        BY <2>1, <3>1, ChildSum
    <2>3. SumFunctionOnSet(lpPower, Own(c)) \in Nat /\ SumFunctionOnSet(lpCurrent, Own(c)) \in Nat
      <3>1. IsFiniteSet(Own(c)) /\ \A lp \in Own(c) : lpPower[lp] \in Nat /\ lpCurrent[lp] \in Nat
        BY BelowFacts DEF Own
      <3> QED
        BY <3>1, SumNat
    <2>4. SumLoads(o, c, k, lpPower, lpCurrent) =
              [o EXCEPT !.power = SumFunctionOnSet(lpPower, Own(c)) + SumFunction(p),
                        !.current = SumFunctionOnSet(lpCurrent, Own(c)) + SumFunction(q)]
      BY DEF SumLoads, Own
    <2> HIDE DEF p, q, k
    <2>5. SumLoads(o, c, k, lpPower, lpCurrent) \in CircuitState
      <3> DEFINE x == SumFunctionOnSet(lpPower, Own(c)) + SumFunction(p)
                 y == SumFunctionOnSet(lpCurrent, Own(c)) + SumFunction(q)
                 r == [o EXCEPT !.power = x]
      <3>1. x \in Nat /\ y \in Nat
        BY <2>2, <2>3
      <3>2. SumLoads(o, c, k, lpPower, lpCurrent) = [r EXCEPT !.current = y]
        BY <2>4
      <3> HIDE DEF x, y
      <3>3. r \in CircuitState
        BY <1>1, <3>1, FieldSet
      <3> HIDE DEF r
      <3> QED
        BY <3>1, <3>2, <3>3, FieldSet
    <2> QED
      BY <2>5 DEF k
  <1> QED
    BY <1>1, <1>2, <1>3 DEF Updated, o

\* What goes into an update.
Inputs(old, load, state, lpPower, lpCurrent) ==
    /\ old \in [CircuitSet -> CircuitState]
    /\ \A c \in CircuitSet : load[c] \in Nat /\ state[c] \in MeterStates
    /\ \A lp \in Loadpoints : lpPower[lp] \in Nat /\ lpCurrent[lp] \in Nat

\* The recursion of Update has a solution: each circuit is updated with the
\* new values of its children.
LEMMA UpdateIs ==
    ASSUME NEW old, NEW load, NEW state, NEW lpPower, NEW lpCurrent,
           Inputs(old, load, state, lpPower, lpCurrent)
    PROVE  LET new == Update(old, load, state, lpPower, lpCurrent) IN
           /\ new \in [CircuitSet -> CircuitState]
           /\ \A c \in CircuitSet :
                 new[c] = Updated(c, new, old, load, state, lpPower, lpCurrent)
  <1> DEFINE W == [CircuitSet -> CircuitState]
             Body(c, g) == Updated(c, g, old, load, state, lpPower, lpCurrent)
             step == [c \in CircuitSet |-> [g \in W |-> Body(c, g)]]
             new == Update(old, load, state, lpPower, lpCurrent)
  <1>1. ASSUME NEW c \in CircuitSet, NEW g, \A d \in Children[c] : g[d] \in CircuitState
        PROVE  Body(c, g) \in CircuitState
    BY <1>1, UpdatedType DEF Inputs
  <1>2. ASSUME NEW c \in CircuitSet, NEW g \in W
        PROVE  Body(c, g) \in CircuitState
    <2>1. \A d \in Children[c] : g[d] \in CircuitState
      BY ChildFacts
    <2> HIDE DEF W, Body
    <2> QED
      BY <1>1, <2>1
  <1>3. \A c \in CircuitSet : \A g \in W :
            Body(c, g) \in CircuitState /\ step[c][g] = Body(c, g)
    <2> HIDE DEF W, Body
    <2> QED
      BY <1>2
  <1>4. step \in [CircuitSet -> [W -> CircuitState]]
    <2> HIDE DEF W, Body
    <2> QED
      BY <1>3
  <1>5. \A c \in CircuitSet : \A g, h \in W :
            AgreeBelow(Position, c, g, h) => step[c][g] = step[c][h]
    <2> SUFFICES ASSUME NEW c \in CircuitSet, NEW g \in W, NEW h \in W,
                        AgreeBelow(Position, c, g, h)
                 PROVE  Body(c, g) = Body(c, h)
      <3> HIDE DEF step, W, Body
      <3> QED
        BY <1>3
    <2>1. DOMAIN Position = CircuitSet
      BY DEF Position
    <2>2. \A d \in Children[c] : g[d] = h[d]
      BY <2>1, ChildFacts DEF AgreeBelow
    <2>3. [d \in Children[c] |-> g[d]] = [d \in Children[c] |-> h[d]]
      BY <2>2
    <2> QED
      BY <2>3 DEF Updated
  <1>6. \E f \in W : Fixpoint(f, step, CircuitSet)
    <2>1. CircuitState # {} /\ Len(Circuits) \in Nat
      <3>1. [power |-> 0, current |-> 0, powerAge |-> 0, currentAge |-> 0] \in CircuitState
        BY LimitAssumption DEF CircuitState
      <3> QED
        BY <3>1, TreeFacts
    <2>2. Position \in [CircuitSet -> 0 .. Len(Circuits)]
      <3>1. Position = [c \in CircuitSet |-> Position[c]]
        BY DEF Position
      <3> QED
        BY <3>1, TreeFacts
    <2>3. Descends(step, CircuitSet, CircuitState, Position)
      <3> HIDE DEF step
      <3> QED
        BY <1>4, <1>5 DEF Descends
    <2> HIDE DEF step
    <2> QED
      BY <2>1, <2>2, <2>3, RecursiveFunctionExists
  <1>7. PICK f \in W : f = [c \in CircuitSet |-> Body(c, f)]
    <2> HIDE DEF step, W, Body
    <2> QED
      BY <1>3, <1>6 DEF Fixpoint
  <1>8. new = [c \in CircuitSet |-> Body(c, new)]
    BY <1>7 DEF Update, Updated
  <1> HIDE DEF new
  <1>9. \A c \in CircuitSet : new[c] \in CircuitState
    <2> DEFINE Good == {c \in CircuitSet : new[c] \in CircuitState}
    <2>1. ASSUME NEW c \in CircuitSet,
                 \A d \in CircuitSet : Position[d] < Position[c] => d \in Good
          PROVE  c \in Good
      <3>1. \A d \in Children[c] : new[d] \in CircuitState
        BY <2>1, ChildFacts
      <3>2. Body(c, new) \in CircuitState
        <4> HIDE DEF Body
        <4> QED
          BY <1>1, <3>1
      <3> HIDE DEF Body
      <3> QED
        BY <1>8, <3>2
    <2>2. \A c \in CircuitSet : Position[c] \in Nat
      BY TreeFacts
    <2>3. \A c \in CircuitSet : c \in Good
      <3> HIDE DEF Good
      <3> QED
        BY <2>1, <2>2, RankInduction
    <2> QED
      BY <2>3
  <1>10. new \in W /\ \A c \in CircuitSet : new[c] = Body(c, new)
    <2> HIDE DEF Body
    <2> QED
      BY <1>8, <1>9
  <1> QED
    BY <1>10 DEF new

\* new is what an update makes of old.
Updates(new, old, load, state, lpPower, lpCurrent) ==
    /\ Inputs(old, load, state, lpPower, lpCurrent)
    /\ new = Update(old, load, state, lpPower, lpCurrent)

\* What the children of a circuit report.
ChildrenPower(new, c) == SumFunction([d \in Children[c] |-> new[d].power])
ChildrenCurrent(new, c) == SumFunction([d \in Children[c] |-> new[d].current])

\* A circuit without a meter reports what its loadpoints and its children do.
LEMMA SumsLoads ==
    ASSUME NEW old, NEW load, NEW state, NEW lpPower, NEW lpCurrent,
           NEW new, Updates(new, old, load, state, lpPower, lpCurrent),
           NEW c \in CircuitSet, ~HasMeter[c]
    PROVE  /\ c \in Reached(state) =>
                 /\ new[c].power = SumFunctionOnSet(lpPower, Own(c)) + ChildrenPower(new, c)
                 /\ new[c].current = SumFunctionOnSet(lpCurrent, Own(c)) + ChildrenCurrent(new, c)
           /\ c \notin Reached(state) =>
                 new[c].power = old[c].power /\ new[c].current = old[c].current
  <1>1. /\ new \in [CircuitSet -> CircuitState]
        /\ new[c] = Updated(c, new, old, load, state, lpPower, lpCurrent)
    BY UpdateIs DEF Updates
  <1>2. CASE c \notin Reached(state)
    <2>1. new[c] = Older(old)[c]
      BY <1>1, <1>2 DEF Updated
    <2> QED
      BY <1>2, <2>1, OlderType DEF Updates, Inputs
  <1>3. CASE c \in Reached(state)
    <2> DEFINE o == Older(old)[c]
               k == [d \in Children[c] |-> new[d]]
               p == [d \in Children[c] |-> k[d].power]
               q == [d \in Children[c] |-> k[d].current]
    <2>1. new[c] = SumLoads(o, c, k, lpPower, lpCurrent)
      BY <1>1, <1>3 DEF Updated
    <2>2. SumLoads(o, c, k, lpPower, lpCurrent) =
              [o EXCEPT !.power = SumFunctionOnSet(lpPower, Own(c)) + SumFunction(p),
                        !.current = SumFunctionOnSet(lpCurrent, Own(c)) + SumFunction(q)]
      BY DEF SumLoads, Own
    <2>3. o \in CircuitState
      BY OlderType DEF Updates, Inputs
    <2>4. SumFunction(p) = ChildrenPower(new, c) /\ SumFunction(q) = ChildrenCurrent(new, c)
      <3>1. /\ p = [d \in Children[c] |-> new[d].power]
            /\ q = [d \in Children[c] |-> new[d].current]
        OBVIOUS
      <3> HIDE DEF p, q
      <3> QED
        BY <3>1 DEF ChildrenPower, ChildrenCurrent
    <2> HIDE DEF p, q, k, o
    <2>5. /\ new[c].power = SumFunctionOnSet(lpPower, Own(c)) + SumFunction(p)
          /\ new[c].current = SumFunctionOnSet(lpCurrent, Own(c)) + SumFunction(q)
      BY <2>1, <2>2, <2>3 DEF CircuitState
    <2> QED
      BY <1>3, <2>4, <2>5
  <1> QED
    BY <1>2, <1>3

\* The circuits within c have no meter of their own.
Unmetered(c) == \A d \in Within[c] : ~HasMeter[d]

\* Where the whole tree below is added up, a circuit reports the sum over all
\* loadpoints below it.
LEMMA CurrentIsSum ==
    ASSUME NEW old, NEW load, NEW state, NEW lpPower, NEW lpCurrent,
           NEW new, Updates(new, old, load, state, lpPower, lpCurrent),
           NEW c \in CircuitSet, Unmetered(c), c \in Reached(state)
    PROVE  new[c].current = SumFunctionOnSet(lpCurrent, Below[c])
  <1> DEFINE Good == {d \in CircuitSet : Unmetered(d) /\ d \in Reached(state) =>
                        new[d].current = SumFunctionOnSet(lpCurrent, Below[d])}
  <1>1. ASSUME NEW d \in CircuitSet,
               \A e \in CircuitSet : Position[e] < Position[d] => e \in Good
        PROVE  d \in Good
    <2> SUFFICES ASSUME Unmetered(d), d \in Reached(state)
                 PROVE  new[d].current = SumFunctionOnSet(lpCurrent, Below[d])
      OBVIOUS
    <2>1. ~HasMeter[d]
      BY WithinFacts DEF Unmetered
    <2>2. \A e \in Children[d] : new[e].current = SumFunctionOnSet(lpCurrent, Below[e])
      <3> SUFFICES ASSUME NEW e \in Children[d]
                   PROVE  new[e].current = SumFunctionOnSet(lpCurrent, Below[e])
        OBVIOUS
      <3>1. e \in CircuitSet /\ Position[e] < Position[d]
        BY ChildFacts
      <3>2. Unmetered(e)
        <4>1. Within[e] \subseteq Within[d]
          BY WithinChildren
        <4> QED
          BY <4>1 DEF Unmetered
      <3>3. e \in Reached(state)
        BY <3>1, TreeFacts DEF Reached
      <3> QED
        BY <1>1, <3>1, <3>2, <3>3
    <2>3. [e \in Children[d] |-> new[e].current]
              = [e \in Children[d] |-> SumFunctionOnSet(lpCurrent, Below[e])]
      BY <2>2
    <2>4. new[d].current = SumFunctionOnSet(lpCurrent, Own(d)) + ChildrenCurrent(new, d)
      <3> HIDE DEF Good
      <3> QED
        BY <2>1, SumsLoads
    <2>5. SumFunctionOnSet(lpCurrent, Below[d])
              = SumFunctionOnSet(lpCurrent, Own(d))
                + SumFunction([e \in Children[d] |-> SumFunctionOnSet(lpCurrent, Below[e])])
      BY BelowSum DEF Updates, Inputs
    <2> QED
      BY <2>3, <2>4, <2>5 DEF ChildrenCurrent
  <1>2. \A d \in CircuitSet : Position[d] \in Nat
    BY TreeFacts
  <1>3. \A d \in CircuitSet : d \in Good
    <2> HIDE DEF Good
    <2> QED
      BY <1>1, <1>2, RankInduction
  <1> QED
    BY <1>3

\* The most that the loadpoints below a circuit can draw or be offered.
Full(c) == ChargerMaxCurrent * Cardinality(Below[c])

\* It is what they are below its own loadpoints and its children, added up.
LEMMA FullSum ==
    ASSUME NEW c \in CircuitSet
    PROVE  LET full == [lp \in Loadpoints |-> ChargerMaxCurrent] IN
           /\ Full(c) = SumFunctionOnSet(full, Own(c)) + SumFunction([d \in Children[c] |-> Full(d)])
           /\ SumFunctionOnSet(full, Own(c)) \in Int
           /\ Full(c) \in Nat
  <1> DEFINE full == [lp \in Loadpoints |-> ChargerMaxCurrent]
  <1>1. \A d \in CircuitSet : Full(d) = SumFunctionOnSet(full, Below[d]) /\ Full(d) \in Nat
    <2> SUFFICES ASSUME NEW d \in CircuitSet
                 PROVE  Full(d) = SumFunctionOnSet(full, Below[d]) /\ Full(d) \in Nat
      OBVIOUS
    <2>1. IsFiniteSet(Below[d]) /\ \A lp \in Below[d] : full[lp] = ChargerMaxCurrent
      BY BelowFacts
    <2>2. ChargerMaxCurrent \in Nat
      BY LoadpointAssumption
    <2> HIDE DEF full
    <2>3. SumFunctionOnSet(full, Below[d]) = ChargerMaxCurrent * Cardinality(Below[d])
      BY <2>1, <2>2, SumConstant
    <2>4. ChargerMaxCurrent * Cardinality(Below[d]) \in Nat
      BY <2>1, <2>2, FS_CardinalityType
    <2> QED
      BY <2>3, <2>4 DEF Full
  <1>2. [d \in Children[c] |-> Full(d)]
            = [d \in Children[c] |-> SumFunctionOnSet(full, Below[d])]
    BY <1>1, ChildFacts
  <1>3. \A lp \in Loadpoints : full[lp] \in Int
    BY LoadpointAssumption
  <1> HIDE DEF full
  <1> DEFINE k == [d \in Children[c] |-> SumFunctionOnSet(full, Below[d])]
  <1>4. /\ SumFunctionOnSet(full, Below[c]) = SumFunctionOnSet(full, Own(c)) + SumFunction(k)
        /\ SumFunctionOnSet(full, Own(c)) \in Int
    BY <1>3, BelowSum
  <1> HIDE DEF k
  <1>5. Full(c) = SumFunctionOnSet(full, Own(c)) + SumFunction(k)
    BY <1>1, <1>4
  <1>6. Full(c) \in Nat
    BY <1>1
  <1> QED
    BY <1>2, <1>4, <1>5, <1>6 DEF full, k

\* What children report, where none reports more than its loadpoints can draw.
LEMMA ChildrenModest ==
    ASSUME NEW c \in CircuitSet, NEW h, DOMAIN h = Children[c],
           \A d \in Children[c] : h[d] \in 0 .. Full(d)
    PROVE  /\ SumFunction(h) \in Nat
           /\ SumFunction([d \in Children[c] |-> Full(d)]) \in Nat
           /\ SumFunction(h) <= SumFunction([d \in Children[c] |-> Full(d)])
  <1> DEFINE g == [d \in Children[c] |-> Full(d)]
  <1>1. IsFiniteSet(Children[c])
    BY ChildFacts
  <1>2. DOMAIN g = Children[c] /\ \A d \in Children[c] : g[d] = Full(d) /\ g[d] \in Nat
    BY ChildFacts, FullSum
  <1> HIDE DEF g
  <1>3. SumFunction(h) \in Nat /\ SumFunction(g) \in Nat
    BY <1>2, ChildSum
  <1>4. \A d \in Children[c] : h[d] \in Int /\ g[d] \in Int /\ h[d] <= g[d]
    BY <1>2
  <1>5. SumFunctionOnSet(h, Children[c]) <= SumFunctionOnSet(g, Children[c])
    BY <1>1, <1>4, SumMonotonic
  <1>6. SumFunction(h) <= SumFunction(g)
    BY <1>2, <1>5 DEF SumFunction
  <1> QED
    BY <1>3, <1>6 DEF g

\* What the loadpoints of a circuit itself contribute.
LEMMA OwnModest ==
    ASSUME NEW c \in CircuitSet, NEW f, \A lp \in Loadpoints : f[lp] \in 0 .. ChargerMaxCurrent
    PROVE  /\ SumFunctionOnSet(f, Own(c)) \in Nat
           /\ SumFunctionOnSet(f, Own(c))
                 <= SumFunctionOnSet([lp \in Loadpoints |-> ChargerMaxCurrent], Own(c))
  <1> DEFINE full == [lp \in Loadpoints |-> ChargerMaxCurrent]
  <1>1. IsFiniteSet(Own(c)) /\ ChargerMaxCurrent \in Nat
    BY BelowFacts, LoadpointAssumption
  <1>2. \A lp \in Own(c) : /\ f[lp] \in Nat /\ f[lp] \in Int
                          /\ full[lp] \in Int /\ f[lp] <= full[lp]
    BY <1>1 DEF Own
  <1> HIDE DEF full
  <1>3. SumFunctionOnSet(f, Own(c)) \in Nat
    BY <1>1, <1>2, SumNat
  <1>4. SumFunctionOnSet(f, Own(c)) <= SumFunctionOnSet(full, Own(c))
    BY <1>1, <1>2, SumMonotonic
  <1> QED
    BY <1>3, <1>4 DEF full

\* A circuit reports no more than its loadpoints can draw.
Modest(state, c) == state.power \in 0 .. Full(c) /\ state.current \in 0 .. Full(c)

\* Where the whole tree below is added up, an update leaves it so.
LEMMA UnmeteredModest ==
    ASSUME NEW old, NEW load, NEW state, NEW lpPower, NEW lpCurrent,
           NEW new, Updates(new, old, load, state, lpPower, lpCurrent),
           \A lp \in Loadpoints :
               lpPower[lp] \in 0 .. ChargerMaxCurrent /\ lpCurrent[lp] \in 0 .. ChargerMaxCurrent,
           \A c \in CircuitSet : Unmetered(c) => Modest(old[c], c)
    PROVE  \A c \in CircuitSet : Unmetered(c) => Modest(new[c], c)
  <1> DEFINE Good == {c \in CircuitSet : Unmetered(c) => Modest(new[c], c)}
             full == [lp \in Loadpoints |-> ChargerMaxCurrent]
  <1>1. ASSUME NEW c \in CircuitSet,
               \A d \in CircuitSet : Position[d] < Position[c] => d \in Good
        PROVE  c \in Good
    <2> SUFFICES ASSUME Unmetered(c) PROVE Modest(new[c], c)
      OBVIOUS
    <2>1. ~HasMeter[c]
      BY WithinFacts DEF Unmetered
    <2>2. CASE c \notin Reached(state)
      <3>1. new[c].power = old[c].power /\ new[c].current = old[c].current
        <4> HIDE DEF Good
        <4> QED
          BY <2>1, <2>2, SumsLoads
      <3> QED
        BY <3>1 DEF Modest
    <2>3. CASE c \in Reached(state)
      <3> DEFINE p == [d \in Children[c] |-> new[d].power]
                 q == [d \in Children[c] |-> new[d].current]
                 g == [d \in Children[c] |-> Full(d)]
      <3>1. /\ new[c].power = SumFunctionOnSet(lpPower, Own(c)) + ChildrenPower(new, c)
            /\ new[c].current = SumFunctionOnSet(lpCurrent, Own(c)) + ChildrenCurrent(new, c)
        <4> HIDE DEF Good, p, q, g, full
        <4> QED
          BY <2>1, <2>3, SumsLoads
      <3>2. \A d \in Children[c] : Modest(new[d], d)
        <4>1. \A d \in Children[c] : Within[d] \subseteq Within[c]
          BY WithinChildren
        <4>2. \A d \in Children[c] : Unmetered(d)
          BY <4>1 DEF Unmetered
        <4> QED
          BY <1>1, <4>2, ChildFacts
      <3>3. /\ DOMAIN p = Children[c] /\ \A d \in Children[c] : p[d] \in 0 .. Full(d)
            /\ DOMAIN q = Children[c] /\ \A d \in Children[c] : q[d] \in 0 .. Full(d)
        BY <3>2 DEF Modest
      <3>7. ChildrenPower(new, c) = SumFunction(p) /\ ChildrenCurrent(new, c) = SumFunction(q)
        BY DEF ChildrenPower, ChildrenCurrent
      <3> HIDE DEF p, q
      <3>4. /\ SumFunction(p) \in Nat /\ SumFunction(p) <= SumFunction(g)
            /\ SumFunction(q) \in Nat /\ SumFunction(q) <= SumFunction(g)
            /\ SumFunction(g) \in Nat
        <4> HIDE DEF Good
        <4> QED
          BY <3>3, ChildrenModest
      <3>5. /\ SumFunctionOnSet(lpPower, Own(c)) \in Nat
            /\ SumFunctionOnSet(lpPower, Own(c)) <= SumFunctionOnSet(full, Own(c))
            /\ SumFunctionOnSet(lpCurrent, Own(c)) \in Nat
            /\ SumFunctionOnSet(lpCurrent, Own(c)) <= SumFunctionOnSet(full, Own(c))
        BY OwnModest
      <3>6. /\ Full(c) = SumFunctionOnSet(full, Own(c)) + SumFunction(g)
            /\ SumFunctionOnSet(full, Own(c)) \in Int
            /\ Full(c) \in Nat
        BY FullSum
      <3> HIDE DEF g, full, Good
      <3> QED
        BY <3>1, <3>4, <3>5, <3>6, <3>7 DEF Modest
    <2> QED
      BY <2>2, <2>3
  <1>2. \A c \in CircuitSet : Position[c] \in Nat
    BY TreeFacts
  <1>3. \A c \in CircuitSet : c \in Good
    <2> HIDE DEF Good
    <2> QED
      BY <1>1, <1>2, RankInduction
  <1> QED
    BY <1>3

-----------------------------------------------------------------------------
(* Validation.                                                             *)

Bounds(limit, load, old) ==
    old \in Nat /\ \A c \in CircuitSet : limit[c] \in Nat /\ load[c] \in Nat

\* What is left of a request is no more than was asked for, and no more than what
\* each circuit above with a limit has left, beside what the loadpoint has.
Fits(limit, load, old) ==
    \A c \in CircuitSet : \A n \in Nat :
        /\ Validate(limit, load, c, old, n) \in 0 .. n
        /\ \A d \in CircuitSet : c \in Within[d] /\ limit[d] # 0 =>
              Validate(limit, load, c, old, n) <= Larger(0, old + limit[d] - load[d])

LEMMA CapFacts ==
    ASSUME NEW limit \in Nat, NEW load \in Nat, NEW old \in Int, NEW n \in Int
    PROVE  /\ Cap(limit, load, old, n) \in Int
           /\ Cap(limit, load, old, n) <= n
           /\ n \in Nat => Cap(limit, load, old, n) \in Nat
           /\ limit # 0 => Cap(limit, load, old, n) <= Larger(0, old + limit - load)
  BY DEF Cap, Larger, Smaller

\* The recursion of Validate has a solution.
LEMMA ValidateIs ==
    ASSUME NEW limit, NEW load, NEW old, Bounds(limit, load, old),
           NEW c \in CircuitSet, NEW n \in Int
    PROVE  Validate(limit, load, c, old, n)
               = LET capped == Cap(limit[c], load[c], old, n)
                 IN  IF Parent[c] = NoCircuit THEN capped
                     ELSE Validate(limit, load, Parent[c], old, capped)
  <1> DEFINE V == [Int -> Int]
             W == [CircuitSet -> V]
             C(d, k) == Cap(limit[d], load[d], old, k)
             Body(d, g) == [k \in Int |->
                 IF Parent[d] = NoCircuit THEN C(d, k) ELSE g[Parent[d]][C(d, k)]]
             step == [d \in CircuitSet |-> [g \in W |-> Body(d, g)]]
  <1>1. \A d \in CircuitSet : \A k \in Int : C(d, k) \in Int
    <2>1. old \in Int /\ \A d \in CircuitSet : limit[d] \in Nat /\ load[d] \in Nat
      BY DEF Bounds
    <2> HIDE DEF Body, V, W, step
    <2> QED
      BY <2>1, CapFacts
  <1>2. \A d \in CircuitSet : \A g \in W : Body(d, g) \in V /\ step[d][g] = Body(d, g)
    <2> SUFFICES ASSUME NEW d \in CircuitSet, NEW g \in W PROVE Body(d, g) \in V
      <3> HIDE DEF Body, W, V
      <3> QED
        OBVIOUS
    <2>1. Parent[d] # NoCircuit => g[Parent[d]] \in V
      BY TreeFacts
    <2> HIDE DEF C
    <2> QED
      BY <1>1, <2>1
  <1>3. step \in [CircuitSet -> [W -> V]]
    <2> HIDE DEF Body, W, V
    <2> QED
      BY <1>2
  <1>4. \A d \in CircuitSet : \A g, h \in W :
            AgreeBelow(Height, d, g, h) => step[d][g] = step[d][h]
    <2> SUFFICES ASSUME NEW d \in CircuitSet, NEW g \in W, NEW h \in W,
                        AgreeBelow(Height, d, g, h)
                 PROVE  Body(d, g) = Body(d, h)
      <3> HIDE DEF step, W, Body
      <3> QED
        BY <1>2
    <2>1. DOMAIN Height = CircuitSet
      BY HeightFalls
    <2>2. Parent[d] # NoCircuit => g[Parent[d]] = h[Parent[d]]
      BY <2>1, TreeFacts, HeightFalls DEF AgreeBelow
    <2> HIDE DEF C
    <2> QED
      BY <2>2
  <1>5. \E f \in W : Fixpoint(f, step, CircuitSet)
    <2>1. V # {} /\ Len(Circuits) \in Nat
      <3>1. [k \in Int |-> 0] \in V
        OBVIOUS
      <3> QED
        BY <3>1, TreeFacts
    <2>2. Height \in [CircuitSet -> 0 .. Len(Circuits)]
      BY HeightFalls
    <2>3. Descends(step, CircuitSet, V, Height)
      <3> HIDE DEF step, V
      <3> QED
        BY <1>3, <1>4 DEF Descends
    <2> HIDE DEF step, V
    <2> QED
      BY <2>1, <2>2, <2>3, RecursiveFunctionExists
  <1>6. PICK f \in W : f = [d \in CircuitSet |-> Body(d, f)]
    <2> HIDE DEF step, W, Body
    <2> QED
      BY <1>2, <1>5 DEF Fixpoint
  <1> DEFINE Left(left) == left = [d \in CircuitSet |-> Body(d, left)]
             left == CHOOSE left : Left(left)
  <1>7. left = [d \in CircuitSet |-> Body(d, left)]
    <2>1. Left(f)
      BY <1>6
    <2> HIDE DEF Left
    <2>2. Left(left)
      BY <2>1
    <2> QED
      BY <2>2 DEF Left
  <1>8. \A d \in CircuitSet : \A k \in Int : Validate(limit, load, d, old, k) = left[d][k]
    BY DEF Validate
  <1> HIDE DEF left
  <1>9. left[c][n] = IF Parent[c] = NoCircuit THEN C(c, n) ELSE left[Parent[c]][C(c, n)]
    <2> HIDE DEF C
    <2> QED
      BY <1>7
  <1>10. C(c, n) \in Int /\ (Parent[c] # NoCircuit => Parent[c] \in CircuitSet)
    BY <1>1, TreeFacts
  <1> QED
    BY <1>8, <1>9, <1>10

LEMMA Validated ==
    ASSUME NEW limit, NEW load, NEW old, Bounds(limit, load, old)
    PROVE  Fits(limit, load, old)
  <1> DEFINE V(c, n) == Validate(limit, load, c, old, n)
             Good == {c \in CircuitSet : \A n \in Nat :
                 /\ V(c, n) \in 0 .. n
                 /\ \A d \in CircuitSet : c \in Within[d] /\ limit[d] # 0 =>
                       V(c, n) <= Larger(0, old + limit[d] - load[d])}
  <1>1. ASSUME NEW c \in CircuitSet,
               \A d \in CircuitSet : Height[d] < Height[c] => d \in Good
        PROVE  c \in Good
    <2> SUFFICES ASSUME NEW n \in Nat
                 PROVE  /\ V(c, n) \in 0 .. n
                        /\ \A d \in CircuitSet : c \in Within[d] /\ limit[d] # 0 =>
                              V(c, n) <= Larger(0, old + limit[d] - load[d])
      OBVIOUS
    <2> DEFINE capped == Cap(limit[c], load[c], old, n)
    <2>1. /\ capped \in Nat /\ capped <= n
          /\ limit[c] # 0 => capped <= Larger(0, old + limit[c] - load[c])
      <3>1. limit[c] \in Nat /\ load[c] \in Nat /\ n \in Int /\ old \in Int
        BY DEF Bounds
      <3> HIDE DEF Good
      <3> QED
        BY <3>1, CapFacts
    <2>2. V(c, n) = IF Parent[c] = NoCircuit THEN capped ELSE V(Parent[c], capped)
      BY ValidateIs
    <2>3. \A d \in CircuitSet : Larger(0, old + limit[d] - load[d]) \in Int
      BY DEF Bounds, Larger
    <2> HIDE DEF capped
    <2>4. CASE Parent[c] = NoCircuit
      <3>1. \A d \in CircuitSet : c \in Within[d] => d = c
        BY <2>4, WithinFacts
      <3> QED
        BY <2>1, <2>2, <2>4, <3>1
    <2>5. CASE Parent[c] # NoCircuit
      <3>1. Parent[c] \in Good
        BY <1>1, <2>5, TreeFacts, HeightFalls
      <3>2. /\ V(Parent[c], capped) \in 0 .. capped
            /\ \A d \in CircuitSet : Parent[c] \in Within[d] /\ limit[d] # 0 =>
                  V(Parent[c], capped) <= Larger(0, old + limit[d] - load[d])
        BY <2>1, <3>1
      <3>3. \A d \in CircuitSet : c \in Within[d] => d = c \/ Parent[c] \in Within[d]
        BY WithinFacts
      <3> HIDE DEF V
      <3> QED
        BY <2>1, <2>2, <2>3, <2>5, <3>2, <3>3
    <2> QED
      BY <2>4, <2>5
  <1>2. \A c \in CircuitSet : Height[c] \in Nat
    BY HeightFalls
  <1>3. \A c \in CircuitSet : c \in Good
    <2> HIDE DEF Good
    <2> QED
      BY <1>1, <1>2, RankInduction
  <1> QED
    BY <1>3 DEF Fits

-----------------------------------------------------------------------------
(* The invariant.  What circuits grant stays within their limits only if     *)
(* what they have added up at the beginning of the cycle is still what their *)
(* loadpoints are offered.                                                   *)

Counted ==
    current # NoLoadpoint =>
        \A c \in Summed : circ[c].current = SumFunctionOnSet(offered, Below[c])

Inv == TypeOK /\ Counted

\* What a step may make of the circuits' offers.
Bounded ==
    \A c \in Summed : MaxCurrent[c] # 0 =>
        Offers(c)' <= Larger(MaxCurrent[c], Offers(c)) + OwnIncrease(c)

Currents == 0 .. ChargerMaxCurrent

LEMMA CurrentFacts ==
    /\ LpMinCurrent \in Nat \ {0} /\ ChargerMaxCurrent \in Nat /\ 0 \in Currents
    /\ \A x \in Currents : x \in Nat
    /\ \A x \in Targets : x \in Currents
  BY LoadpointAssumption DEF Currents, Targets

\* The parts of TypeOK that the circuits' loads and limits depend on.
LEMMA Numbers ==
    ASSUME TypeOK
    PROVE  /\ \A lp \in Loadpoints :
                 /\ draw[lp] \in 0 .. ChargerMaxCurrent /\ chargePower[lp] \in 0 .. ChargerMaxCurrent
                 /\ offered[lp] \in 0 .. ChargerMaxCurrent
                 /\ charger[lp].on \in BOOLEAN /\ charger[lp].limit \in 0 .. ChargerMaxCurrent
                 /\ enabled[lp] \in BOOLEAN
           /\ \A c \in CircuitSet : base[c] \in Nat /\ meter[c] \in MeterStates
           /\ hems \in Nat
           /\ circ \in [CircuitSet -> CircuitState]
           /\ \A c \in CircuitSet : Unmetered(c) => Modest(circ[c], c)
  <1>1. \A lp \in Loadpoints :
            /\ draw[lp] \in 0 .. ChargerMaxCurrent /\ chargePower[lp] \in 0 .. ChargerMaxCurrent
            /\ offered[lp] \in 0 .. ChargerMaxCurrent
            /\ charger[lp].on \in BOOLEAN /\ charger[lp].limit \in 0 .. ChargerMaxCurrent
            /\ enabled[lp] \in BOOLEAN
    BY DEF TypeOK, Chargers
  <1>2. \A c \in CircuitSet : base[c] \in Nat /\ meter[c] \in MeterStates
    BY LoadAssumption, FaultAssumption DEF TypeOK, MeterStates
  <1>3. hems \in Nat
    BY LoadAssumption DEF TypeOK
  <1>4. circ \in [CircuitSet -> CircuitState]
    BY DEF TypeOK, CircuitState
  <1>5. \A c \in CircuitSet : Unmetered(c) => Modest(circ[c], c)
    BY DEF TypeOK, Unmetered, Modest, Full
  <1> QED
    BY <1>1, <1>2, <1>3, <1>4, <1>5

LEMMA LoadType ==
    ASSUME TypeOK
    PROVE  \A c \in CircuitSet : Load(c) \in Nat
  <1> SUFFICES ASSUME NEW c \in CircuitSet PROVE Load(c) \in Nat
    OBVIOUS
  <1>1. IsFiniteSet(Below[c]) /\ \A lp \in Below[c] : draw[lp] \in Nat
    BY BelowFacts, Numbers, LoadpointAssumption
  <1>2. IsFiniteSet(Within[c]) /\ \A d \in Within[c] : base[d] \in Nat
    <2>1. Within[c] \in SUBSET CircuitSet
      BY WithinFacts
    <2> QED
      BY <2>1, TreeFacts, Numbers, FS_Subset
  <1>3. SumFunctionOnSet(draw, Below[c]) \in Nat /\ SumFunctionOnSet(base, Within[c]) \in Nat
    BY <1>1, <1>2, SumNat
  <1> QED
    BY <1>3 DEF Load

\* A circuit that adds up what its loadpoints are offered is reached by every update.
LEMMA SummedFacts ==
    ASSUME TypeOK, NEW c \in Summed
    PROVE  /\ c \in CircuitSet /\ Unmetered(c) /\ c \in Reached(meter)
           /\ \A lp \in Below[c] : ~LpHasCurrents[lp]
  <1>1. c \in CircuitSet /\ Unmetered(c)
    BY DEF Summed, AddedUp, Unmetered
  <1>2. c \in Reached(meter)
    <2>1. \A d \in CircuitSet : meter[d] \in Faults[d] \cup {"ok"}
      BY DEF TypeOK
    <2>2. \A d \in CircuitSet : Position[d] < Position[c] => Faults[d] = {}
      BY DEF Summed, AddedUp
    <2> QED
      BY <1>1, <2>1, <2>2 DEF Reached
  <1>3. \A lp \in Below[c] : ~LpHasCurrents[lp]
    <2>1. Below[c] = {lp \in Loadpoints : CircuitOf[lp] \in Within[c]}
      BY <1>1, BelowFacts
    <2> QED
      BY <2>1 DEF Summed
  <1> QED
    BY <1>1, <1>2, <1>3

\* What is offered below a circuit adds up to a number.
LEMMA OfferedSum ==
    ASSUME TypeOK, NEW c \in CircuitSet
    PROVE  IsFiniteSet(Below[c]) /\ Below[c] \subseteq Loadpoints /\ Offers(c) \in Nat
  <1>1. IsFiniteSet(Below[c]) /\ Below[c] \subseteq Loadpoints
        /\ \A lp \in Below[c] : offered[lp] \in Nat
    BY BelowFacts, Numbers, LoadpointAssumption
  <1> QED
    BY <1>1, SumNat DEF Offers

\* What a loadpoint adopts is a current.
LEMMA AdoptedType ==
    ASSUME TypeOK, NEW lp \in Loadpoints
    PROVE  /\ Adopted(lp) \in Currents /\ offered[lp] \in Currents
           /\ Adopted(lp) - offered[lp] \in Int
  <1>1. Adopted(lp) \in Currents /\ offered[lp] \in Currents
    BY Numbers DEF Adopted, Currents
  <1> QED
    BY <1>1, CurrentFacts

LEMMA IncreaseType ==
    ASSUME TypeOK, NEW c \in CircuitSet
    PROVE  OwnIncrease(c) \in Nat
  <1>1. CASE current \in Below[c]
    <2>1. Adopted(current) - offered[current] \in Int
      BY <1>1, OfferedSum, AdoptedType
    <2> QED
      BY <1>1, <2>1 DEF OwnIncrease, Larger
  <1>2. CASE current \notin Below[c]
    BY <1>2 DEF OwnIncrease
  <1> QED
    BY <1>1, <1>2

\* A step that offers nothing is bounded.
LEMMA OffersKept ==
    ASSUME TypeOK, UNCHANGED offered
    PROVE  Bounded
  <1> SUFFICES ASSUME NEW c \in Summed, MaxCurrent[c] # 0
               PROVE  Offers(c)' <= Larger(MaxCurrent[c], Offers(c)) + OwnIncrease(c)
    BY DEF Bounded
  <1>1. c \in CircuitSet
    BY SummedFacts
  <1>2. Offers(c)' = Offers(c)
    BY DEF Offers
  <1>3. Offers(c) \in Nat /\ MaxCurrent[c] \in Nat /\ OwnIncrease(c) \in Nat
    BY <1>1, OfferedSum, IncreaseType, LimitAssumption
  <1> QED
    BY <1>2, <1>3 DEF Larger

-----------------------------------------------------------------------------
(* setLimit.                                                               *)

\* What the circuits of a loadpoint grant it is nothing or a possible target, and
\* no more than a circuit above it has left, beside what the loadpoint has.
LEMMA GrantedFacts ==
    ASSUME NEW lp \in Loadpoints, NEW circuits \in [CircuitSet -> CircuitState], NEW limit \in Nat,
           NEW old \in Nat, NEW power \in Nat, NEW target \in Targets
    PROVE  LET granted == Granted(lp, circuits, limit, old, power, target) IN
           /\ granted \in Targets
           /\ \A c \in CircuitSet : lp \in Below[c] /\ MaxCurrent[c] # 0 /\ granted # 0 =>
                 granted <= old + MaxCurrent[c] - circuits[c].current
  <1> DEFINE home == CircuitOf[lp]
             granted == Granted(lp, circuits, limit, old, power, target)
             current0 == [d \in CircuitSet |-> circuits[d].current]
             power0 == [d \in CircuitSet |-> circuits[d].power]
             limit0 == [d \in CircuitSet |-> EffectiveMaxPower(d, limit)]
             limited == Limited(lp, circuits, limit, old, power, target)
  <1>2. target \in Nat /\ target <= LpMaxCurrent /\ LpMinCurrent \in Nat \ {0} /\ LpMaxCurrent \in Nat
    BY LoadpointAssumption DEF Targets
  <1>3. home \in CircuitSet
    BY LimitAssumption
  <1>5. Bounds(MaxCurrent, current0, old) /\ Bounds(limit0, power0, power)
    <2>1. \A c \in CircuitSet : MaxCurrent[c] \in Nat /\ MaxPower[c] \in Nat
      BY LimitAssumption
    <2>2. \A c \in CircuitSet : circuits[c].current \in Nat /\ circuits[c].power \in Nat
      BY DEF CircuitState
    <2>3. \A c \in CircuitSet : EffectiveMaxPower(c, limit) \in Nat
      BY <2>1 DEF EffectiveMaxPower, Smaller
    <2> QED
      BY <2>1, <2>2, <2>3 DEF Bounds
  <1> DEFINE v == Validate(MaxCurrent, current0, home, old, target)
             w == Validate(limit0, power0, home, power, target)
  <1>6. limited = Smaller(v, w)
    BY DEF Limited, ValidateCurrent, ValidatePower
  <1>7. \A c \in CircuitSet : current0[c] = circuits[c].current
    OBVIOUS
  <1>8. \A c \in CircuitSet : lp \in Below[c] => home \in Within[c]
    BY BelowFacts
  <1>0. granted = IF limited < LpMinCurrent THEN 0 ELSE limited
    BY DEF Granted
  <1> HIDE DEF current0, power0, limit0, home, limited, granted
  <1>9. /\ v \in 0 .. target
        /\ \A c \in CircuitSet : home \in Within[c] /\ MaxCurrent[c] # 0 =>
              v <= Larger(0, old + MaxCurrent[c] - current0[c])
    <2>1. \A c \in CircuitSet : \A n \in Nat :
              /\ Validate(MaxCurrent, current0, c, old, n) \in 0 .. n
              /\ \A d \in CircuitSet : c \in Within[d] /\ MaxCurrent[d] # 0 =>
                    Validate(MaxCurrent, current0, c, old, n)
                        <= Larger(0, old + MaxCurrent[d] - current0[d])
      BY <1>5, Validated DEF Fits
    <2> QED
      BY <1>2, <1>3, <2>1
  <1>10. w \in 0 .. target
    <2>1. \A c \in CircuitSet : \A n \in Nat :
              Validate(limit0, power0, c, power, n) \in 0 .. n
      BY <1>5, Validated DEF Fits
    <2> QED
      BY <1>2, <1>3, <2>1
  <1> HIDE DEF v, w
  <1>11. limited \in 0 .. target /\ limited <= v
    BY <1>2, <1>6, <1>9, <1>10 DEF Smaller
  <1>12. \/ granted = 0
         \/ granted = limited /\ granted >= LpMinCurrent
    BY <1>0, <1>2, <1>11
  <1>13. granted \in Targets
    BY <1>2, <1>11, <1>12 DEF Targets
  <1>14. ASSUME NEW c \in CircuitSet, lp \in Below[c], MaxCurrent[c] # 0, granted # 0
         PROVE  granted <= old + MaxCurrent[c] - circuits[c].current
    <2>1. v <= Larger(0, old + MaxCurrent[c] - circuits[c].current)
      BY <1>7, <1>8, <1>9, <1>14
    <2>2. granted <= v /\ granted > 0 /\ granted \in Nat /\ v \in Nat
      BY <1>2, <1>9, <1>11, <1>12, <1>14
    <2>3. old + MaxCurrent[c] - circuits[c].current \in Int
      BY <1>5, <1>7 DEF Bounds
    <2> QED
      BY <2>1, <2>2, <2>3 DEF Larger
  <1> QED
    BY <1>13, <1>14 DEF granted

\* However setLimit ends, the loadpoint takes for its offer what it was, or what
\* was granted.
LEMMA DeviceSet ==
    ASSUME NEW lp \in Loadpoints, NEW s \in Devices, NEW granted \in Currents,
           NEW t \in {SetTo(s, granted)} \cup FailTo(lp, s, granted)
    PROVE  t \in Devices /\ t.offered \in {s.offered, granted}
  <1> DEFINE told == TellCurrent(s, granted)
             switched == Switch(told, granted)
  <1>1. s = [enabled |-> s.enabled, offered |-> s.offered, on |-> s.on, limit |-> s.limit]
        /\ s.enabled \in BOOLEAN /\ s.offered \in Currents /\ s.on \in BOOLEAN /\ s.limit \in Currents
    BY DEF Devices, Currents
  <1>2. told \in Devices /\ told.offered \in {s.offered, granted}
    BY <1>1 DEF TellCurrent, Devices, Currents
  <1>3. told.enabled \in BOOLEAN /\ told.offered \in Currents /\ told.on \in BOOLEAN /\ told.limit \in Currents
    BY <1>2 DEF Devices, Currents
  <1> HIDE DEF told
  <1>4. switched \in Devices /\ switched.offered \in {told.offered, granted}
    BY <1>2, <1>3, CurrentFacts DEF Switch, Devices, Currents
  <1>5. switched.on \in BOOLEAN
    BY <1>4 DEF Devices
  <1> HIDE DEF switched
  <1>6. [told EXCEPT !.offered = s.offered] \in Devices
        /\ [told EXCEPT !.offered = s.offered].offered = s.offered
    BY <1>1, <1>2 DEF Devices, Currents
  <1>7. [told EXCEPT !.on = switched.on] \in Devices
        /\ [told EXCEPT !.on = switched.on].offered = told.offered
    BY <1>2, <1>5 DEF Devices
  <1>8. \/ t = switched \/ t = s \/ t = told
        \/ t = [told EXCEPT !.offered = s.offered] \/ t = [told EXCEPT !.on = switched.on]
    BY DEF SetTo, FailTo, told, switched
  <1> QED
    BY <1>2, <1>4, <1>6, <1>7, <1>8

-----------------------------------------------------------------------------
(* The steps.                                                              *)

LEMMA TurnFacts ==
    /\ DOMAIN ActiveLoadpoints = 1 .. Len(ActiveLoadpoints)
    /\ Len(ActiveLoadpoints) \in Nat \ {0}
    /\ \A i \in DOMAIN ActiveLoadpoints : ActiveLoadpoints[i] \in Loadpoints
  <1>1. Cardinality(Loadpoints) \in Nat
    BY LoadpointAssumption, FS_CardinalityType
  <1>2. ActiveLoadpoints \in [1 .. Cardinality(Loadpoints) -> Loadpoints]
    BY LoadpointAssumption
  <1>3. ActiveLoadpoints \in Seq(Loadpoints)
    BY <1>1, <1>2, SeqDef
  <1>4. /\ Len(ActiveLoadpoints) \in Nat
        /\ DOMAIN ActiveLoadpoints = 1 .. Len(ActiveLoadpoints)
    BY <1>3, LenProperties
  <1>5. PICK i \in DOMAIN ActiveLoadpoints : TRUE
    BY LoadpointAssumption
  <1>6. i \in 1 .. Len(ActiveLoadpoints)
    BY <1>4
  <1>7. Len(ActiveLoadpoints) # 0
    BY <1>4, <1>6
  <1> QED
    BY <1>2, <1>4, <1>7

LEMMA MetersRead ==
    ASSUME Inv, NEW lp \in Loadpoints, ReadMeters(lp), turn' \in DOMAIN ActiveLoadpoints
    PROVE  Inv' /\ UNCHANGED offered
  <1> DEFINE load == [c \in CircuitSet |-> Load(c)]
             lpCurrent == [l \in Loadpoints |-> MaxPhaseCurrent(l)]
  <1>1. TypeOK /\ Counted
    BY DEF Inv
  <1>2. \A l \in Loadpoints : draw[l] \in 0 .. ChargerMaxCurrent /\ lpCurrent[l] \in 0 .. ChargerMaxCurrent
    BY <1>1, Numbers DEF MaxPhaseCurrent
  <1>3. Inputs(circ, load, meter, draw, lpCurrent)
    <2>1. \A c \in CircuitSet : load[c] \in Nat
      BY <1>1, LoadType
    <2>2. \A l \in Loadpoints : draw[l] \in Nat /\ lpCurrent[l] \in Nat
      BY <1>2, LoadpointAssumption
    <2>3. /\ circ \in [CircuitSet -> CircuitState]
          /\ \A c \in CircuitSet : meter[c] \in MeterStates
      BY <1>1, Numbers
    <2> HIDE DEF load, lpCurrent
    <2> QED
      BY <2>1, <2>2, <2>3 DEF Inputs
  <1>4. circ' = Update(circ, load, meter, draw, lpCurrent)
    BY DEF ReadMeters
  <1>5. /\ current' = lp /\ chargePower' = draw
        /\ UNCHANGED <<enabled, offered, charger, draw, base, meter, hems>>
    BY DEF ReadMeters
  <1>6. \A c \in Summed : \A l \in Below[c] : offered[l] \in Int /\ lpCurrent[l] = offered[l]
    <2> SUFFICES ASSUME NEW c \in Summed, NEW l \in Below[c]
                 PROVE  offered[l] \in Int /\ lpCurrent[l] = offered[l]
      OBVIOUS
    <2>1. l \in Loadpoints /\ ~LpHasCurrents[l]
      BY <1>1, SummedFacts, BelowFacts
    <2> QED
      BY <1>1, <2>1, Numbers DEF MaxPhaseCurrent
  <1> HIDE DEF load, lpCurrent
  <1>12. Updates(circ', circ, load, meter, draw, lpCurrent)
    BY <1>3, <1>4 DEF Updates
  <1>7. circ' \in [CircuitSet -> CircuitState]
    BY <1>3, <1>4, UpdateIs
  <1>8. \A c \in CircuitSet : Unmetered(c) => Modest(circ'[c], c)
    <2>1. \A c \in CircuitSet : Unmetered(c) => Modest(circ[c], c)
      BY <1>1, Numbers
    <2> QED
      BY <1>2, <1>12, <2>1, UnmeteredModest
  <1>9. TypeOK'
    <2>1. /\ enabled' \in [Loadpoints -> BOOLEAN]
          /\ offered' \in [Loadpoints -> 0 .. ChargerMaxCurrent]
          /\ charger' \in [Loadpoints -> Chargers]
          /\ draw' \in [Loadpoints -> 0 .. ChargerMaxCurrent]
          /\ \A c \in CircuitSet : base'[c] \in BaseLoads[c] /\ meter'[c] \in Faults[c] \cup {"ok"}
          /\ hems' \in HemsLimits
          /\ turn' \in DOMAIN ActiveLoadpoints
          /\ current' \in Loadpoints \cup {NoLoadpoint}
          /\ chargePower' \in [Loadpoints -> 0 .. ChargerMaxCurrent]
      BY <1>1, <1>5 DEF TypeOK
    <2>2. \A c \in CircuitSet : (\A d \in Within[c] : ~HasMeter[d]) =>
              {circ'[c].power, circ'[c].current} \subseteq 0 .. ChargerMaxCurrent * Cardinality(Below[c])
      BY <1>8 DEF Unmetered, Modest, Full
    <2> QED
      BY <1>7, <2>1, <2>2 DEF TypeOK, CircuitState
  <1>10. Counted'
    <2> SUFFICES ASSUME NEW c \in Summed
                 PROVE  circ'[c].current = SumFunctionOnSet(offered, Below[c])
      BY <1>5 DEF Counted, Summed, AddedUp
    <2>1. c \in CircuitSet /\ Unmetered(c) /\ c \in Reached(meter)
      BY <1>1, SummedFacts
    <2>2. circ'[c].current = SumFunctionOnSet(lpCurrent, Below[c])
      BY <1>12, <2>1, CurrentIsSum
    <2>3. IsFiniteSet(Below[c])
      BY <2>1, BelowFacts
    <2>4. SumFunctionOnSet(lpCurrent, Below[c]) = SumFunctionOnSet(offered, Below[c])
      BY <1>6, <2>3, SumAgree
    <2> QED
      BY <2>2, <2>4
  <1> QED
    BY <1>5, <1>9, <1>10 DEF Inv

\* What syncCharger makes of a loadpoint.
LEMMA SyncedFacts ==
    ASSUME TypeOK, NEW lp \in Loadpoints, NEW consistent \in BOOLEAN
    PROVE  LET s == Synced(lp, consistent) IN
           /\ s \in Devices /\ s.offered \in {offered[lp], Adopted(lp)}
           /\ ActualMaxChargeCurrent(lp, s) \in Nat
           /\ ~LpHasCurrents[lp] => ActualMaxChargeCurrent(lp, s) \in 0 .. s.offered
  <1> DEFINE s == Synced(lp, consistent)
  <1>1. /\ Adopted(lp) \in Currents /\ offered[lp] \in Currents /\ enabled[lp] \in BOOLEAN
        /\ charger[lp].on \in BOOLEAN /\ charger[lp].limit \in Currents
        /\ chargePower[lp] \in Currents
    BY AdoptedType, Numbers DEF Currents
  <1>2. s \in Devices /\ s.offered \in {offered[lp], Adopted(lp)}
    BY <1>1 DEF Synced, Devices, Currents
  <1>3. s.offered \in Nat /\ chargePower[lp] \in Nat
    BY <1>1, <1>2, CurrentFacts
  <1> HIDE DEF s
  <1>4. /\ ActualMaxChargeCurrent(lp, s) \in Nat
        /\ ~LpHasCurrents[lp] => ActualMaxChargeCurrent(lp, s) \in 0 .. s.offered
    BY <1>3 DEF ActualMaxChargeCurrent
  <1> QED
    BY <1>2, <1>4 DEF s

\* A loadpoint that is offered what it has adopted, or what its circuits grant.
LEMMA OfferFits ==
    ASSUME Inv, NEW lp \in Loadpoints, current = lp, NEW consistent \in BOOLEAN,
           NEW granted \in Grants(lp, Synced(lp, consistent)),
           NEW x \in {Synced(lp, consistent).offered, granted},
           offered' = [offered EXCEPT ![lp] = x]
    PROVE  Bounded
  <1> DEFINE s == Synced(lp, consistent)
             old == ActualMaxChargeCurrent(lp, s)
             a == s.offered
  <1>1. TypeOK /\ Counted
    BY DEF Inv
  <1> SUFFICES ASSUME NEW c \in Summed, MaxCurrent[c] # 0
               PROVE  Offers(c)' <= Larger(MaxCurrent[c], Offers(c)) + OwnIncrease(c)
    BY DEF Bounded
  <1>2. c \in CircuitSet /\ MaxCurrent[c] \in Nat /\ OwnIncrease(c) \in Nat
    BY <1>1, SummedFacts, IncreaseType, LimitAssumption
  <1>3. IsFiniteSet(Below[c]) /\ Below[c] \subseteq Loadpoints /\ Offers(c) \in Nat
    BY <1>1, <1>2, OfferedSum
  <1>4. /\ old \in Nat /\ a \in {offered[lp], Adopted(lp)}
        /\ ~LpHasCurrents[lp] => old \in 0 .. a
    BY <1>1, SyncedFacts
  <1>5. offered[lp] \in Nat /\ Adopted(lp) \in Nat
    BY <1>1, AdoptedType, CurrentFacts
  <1>6. /\ granted \in Nat
        /\ lp \in Below[c] /\ granted # 0 => granted <= old + MaxCurrent[c] - circ[c].current
    <2>1. PICK target \in Targets :
              granted = Granted(lp, circ, hems, old, chargePower[lp], target)
      BY DEF Grants
    <2>2. chargePower[lp] \in Nat /\ hems \in Nat /\ circ \in [CircuitSet -> CircuitState]
      BY <1>1, Numbers, CurrentFacts
    <2> HIDE DEF old, s
    <2>3. /\ granted \in Targets
          /\ lp \in Below[c] /\ granted # 0 => granted <= old + MaxCurrent[c] - circ[c].current
      BY <1>2, <1>4, <2>1, <2>2, GrantedFacts
    <2> QED
      BY <2>3, CurrentFacts
  <1>7. \A l \in Below[c] : offered[l] \in Int
    BY <1>1, <1>3, AdoptedType, CurrentFacts
  <1>8. offered \in [Loadpoints -> Currents] /\ x \in Nat
    BY <1>1, <1>4, <1>5, <1>6 DEF TypeOK, Currents
  <1>9. x \in {a, granted}
    OBVIOUS
  <1> HIDE DEF a, s, old
  <1>10. CASE lp \notin Below[c]
    <2>1. \A l \in Below[c] : offered'[l] = offered[l]
      BY <1>3, <1>8, <1>10
    <2>2. Offers(c)' = Offers(c)
      BY <1>3, <1>7, <2>1, SumAgree DEF Offers
    <2> QED
      BY <1>2, <1>3, <2>2 DEF Larger
  <1>11. CASE lp \in Below[c]
    <2> DEFINE new == [offered EXCEPT ![lp] = x]
               was == Offers(c)
               own == OwnIncrease(c)
    <2>1. new[lp] = x /\ \A l \in Below[c] \ {lp} : new[l] = offered[l]
      BY <1>3, <1>8
    <2>2. offered' = new
      OBVIOUS
    <2> HIDE DEF new
    <2>3. \A l \in Below[c] : offered[l] \in Int /\ new[l] \in Int
      BY <1>7, <1>8, <2>1
    <2>4. SumFunctionOnSet(new, Below[c])
              = SumFunctionOnSet(offered, Below[c]) - offered[lp] + new[lp]
      BY <1>3, <1>11, <2>1, <2>3, SumChange
    <2>5. Offers(c)' = was - offered[lp] + x
      BY <2>1, <2>2, <2>4 DEF Offers
    <2>6. own = Larger(0, Adopted(lp) - offered[lp])
      BY <1>11 DEF OwnIncrease
    <2>7. a <= offered[lp] + own
      BY <1>4, <1>5, <2>6 DEF Larger
    <2>8. circ[c].current = was
      <3>1. current # NoLoadpoint
        BY LoadpointAssumption
      <3> QED
        BY <1>1, <3>1 DEF Counted, Offers
    <2>9. old \in 0 .. a
      BY <1>1, <1>4, <1>11, SummedFacts
    <2>10. was \in Nat /\ own \in Nat /\ a \in Nat
      BY <1>2, <1>3, <1>4, <1>5
    <2> HIDE DEF was, own
    <2>11. CASE x = a \/ x = 0
      <3>1. was - offered[lp] + x <= was + own
        BY <1>5, <2>7, <2>10, <2>11
      <3> QED
        BY <1>2, <1>5, <1>8, <2>5, <2>10, <3>1 DEF Larger, was, own
    <2>12. CASE x = granted /\ granted # 0
      <3>1. granted <= old + MaxCurrent[c] - was
        BY <1>6, <1>11, <2>8, <2>12
      <3>2. was - offered[lp] + x <= MaxCurrent[c] + own
        BY <1>2, <1>5, <1>6, <2>7, <2>9, <2>10, <2>12, <3>1
      <3> QED
        BY <1>2, <1>5, <1>8, <2>5, <2>10, <3>2 DEF Larger, was, own
    <2> QED
      BY <1>9, <2>11, <2>12
  <1> QED
    BY <1>10, <1>11

\* The end of a cycle leaves nothing to count.
LEMMA CycleEnds ==
    ASSUME Inv, EndCycle, enabled' \in [Loadpoints -> BOOLEAN],
           offered' \in [Loadpoints -> Currents], charger' \in [Loadpoints -> Chargers],
           draw' \in [Loadpoints -> Currents]
    PROVE  Inv'
  <1>1. /\ current' = NoLoadpoint /\ chargePower' = NoPower
        /\ circ' = [c \in CircuitSet |-> IF c \in AddedUp THEN Unread ELSE circ[c]]
        /\ UNCHANGED <<base, meter, hems, turn>>
    BY DEF EndCycle
  <1>2. NoPower \in [Loadpoints -> Currents]
    BY CurrentFacts DEF NoPower
  <1>3. circ \in [CircuitSet -> CircuitState]
    BY Numbers DEF Inv
  <1>4. Unread \in CircuitState /\ Unread.power = 0 /\ Unread.current = 0
    BY LimitAssumption DEF Unread, CircuitState
  <1>5. circ' \in [CircuitSet -> CircuitState]
    BY <1>1, <1>3, <1>4
  <1>6. \A c \in CircuitSet : (\A d \in Within[c] : ~HasMeter[d]) =>
            {circ'[c].power, circ'[c].current} \subseteq 0 .. ChargerMaxCurrent * Cardinality(Below[c])
    <2> SUFFICES ASSUME NEW c \in CircuitSet, \A d \in Within[c] : ~HasMeter[d]
                 PROVE  {circ'[c].power, circ'[c].current} \subseteq 0 .. Full(c)
      BY DEF Full
    <2>1. {circ[c].power, circ[c].current} \subseteq 0 .. Full(c)
      BY DEF Inv, TypeOK, Full
    <2>2. Full(c) \in Nat
      BY FullSum
    <2>3. circ'[c] \in {Unread, circ[c]}
      BY <1>1
    <2> QED
      BY <1>4, <2>1, <2>2, <2>3
  <1>7. TypeOK'
    BY <1>1, <1>2, <1>5, <1>6 DEF Inv, TypeOK, CircuitState, Currents
  <1>8. Counted'
    BY <1>1 DEF Counted
  <1> QED
    BY <1>7, <1>8 DEF Inv

\* A charger that changes leaves its vehicle a current to draw.
LEMMA Followed ==
    ASSUME TypeOK, NEW lp \in Loadpoints, NEW ch \in Chargers, Follow(lp, ch)
    PROVE  draw' \in [Loadpoints -> Currents]
  <1> DEFINE y == IF ch.on THEN Smaller(draw[lp], ch.limit) ELSE 0
  <1>1. draw \in [Loadpoints -> Currents] /\ draw[lp] \in Currents /\ ch.limit \in Currents
    BY DEF TypeOK, Chargers, Currents
  <1>2. y \in Currents
    BY <1>1, CurrentFacts DEF Smaller
  <1>3. draw' = [draw EXCEPT ![lp] = y]
    BY DEF Follow
  <1> HIDE DEF y
  <1> QED
    BY <1>1, <1>2, <1>3

\* Loadpoint.Update, however setLimit ends.
LEMMA LoadpointUpdated ==
    ASSUME Inv, NEW lp \in Loadpoints, NEW consistent \in BOOLEAN,
           SetLimit(lp, consistent) \/ SetLimitFails(lp, consistent)
    PROVE  Inv' /\ Bounded
  <1> DEFINE s == Synced(lp, consistent)
  <1>1. TypeOK
    BY DEF Inv
  <1>2. current = lp /\ EndCycle
    BY DEF SetLimit, SetLimitFails
  <1>3. PICK granted \in Grants(lp, s) :
            \E t \in {SetTo(s, granted)} \cup FailTo(lp, s, granted) : Become(lp, t)
    BY DEF SetLimit, SetLimitFails
  <1>4. PICK t \in {SetTo(s, granted)} \cup FailTo(lp, s, granted) : Become(lp, t)
    BY <1>3
  <1>5. s \in Devices /\ ActualMaxChargeCurrent(lp, s) \in Nat
    BY <1>1, SyncedFacts
  <1>6. granted \in Currents
    <2>1. PICK target \in Targets :
              granted = Granted(lp, circ, hems, ActualMaxChargeCurrent(lp, s), chargePower[lp], target)
      BY DEF Grants
    <2>2. chargePower[lp] \in Nat /\ hems \in Nat /\ circ \in [CircuitSet -> CircuitState]
      BY <1>1, Numbers, CurrentFacts
    <2> HIDE DEF s
    <2>3. granted \in Targets
      BY <1>5, <2>1, <2>2, GrantedFacts
    <2> QED
      BY <2>3, CurrentFacts
  <1>7. t \in Devices /\ t.offered \in {s.offered, granted}
    <2> HIDE DEF s
    <2> QED
      BY <1>4, <1>5, <1>6, DeviceSet
  <1> DEFINE ch == [on |-> t.on, limit |-> t.limit]
  <1>8. ch \in Chargers /\ t.enabled \in BOOLEAN /\ t.offered \in Currents
    BY <1>7 DEF Devices, Chargers, Currents
  <1>9. /\ enabled' = [enabled EXCEPT ![lp] = t.enabled]
        /\ offered' = [offered EXCEPT ![lp] = t.offered]
        /\ charger' = [charger EXCEPT ![lp] = ch]
        /\ Follow(lp, ch)
    BY <1>4 DEF Become
  <1> HIDE DEF ch, s
  <1>10. /\ enabled' \in [Loadpoints -> BOOLEAN] /\ offered' \in [Loadpoints -> Currents]
         /\ charger' \in [Loadpoints -> Chargers]
    BY <1>1, <1>8, <1>9 DEF TypeOK, Currents
  <1>11. draw' \in [Loadpoints -> Currents]
    BY <1>1, <1>8, <1>9, Followed
  <1>12. Inv'
    BY <1>2, <1>10, <1>11, CycleEnds
  <1>13. Bounded
    BY <1>2, <1>7, <1>9, OfferFits DEF s
  <1> QED
    BY <1>12, <1>13

\* The surroundings change neither what is offered nor what has been counted.
LEMMA Surroundings ==
    ASSUME Inv, UNCHANGED <<enabled, offered, circ, turn, current, chargePower>>,
           draw' \in [Loadpoints -> Currents], charger' \in [Loadpoints -> Chargers],
           \A c \in CircuitSet : base'[c] \in BaseLoads[c] /\ meter'[c] \in Faults[c] \cup {"ok"},
           hems' \in HemsLimits
    PROVE  Inv' /\ UNCHANGED offered
  <1>1. TypeOK'
    BY DEF Inv, TypeOK, Currents
  <1>2. Counted'
    BY DEF Inv, Counted, Summed, AddedUp
  <1> QED
    BY <1>1, <1>2 DEF Inv

LEMMA SurroundingsAct ==
    ASSUME Inv,
           \/ \E lp \in Loadpoints : Ramp(lp) \/ Stray(lp)
           \/ \E c \in CircuitSet : OtherConsumers(c) \/ MeterFault(c)
           \/ HemsLimit
           \/ UNCHANGED vars
    PROVE  Inv' /\ UNCHANGED offered
  <1>1. /\ draw \in [Loadpoints -> Currents] /\ charger \in [Loadpoints -> Chargers]
        /\ \A c \in CircuitSet : base[c] \in BaseLoads[c] /\ meter[c] \in Faults[c] \cup {"ok"}
        /\ hems \in HemsLimits
    BY DEF Inv, TypeOK, Currents
  <1>2. \A lp \in Loadpoints : charger[lp].limit \in Currents
    BY <1>1 DEF Chargers, Currents
  <1>3. CASE \E lp \in Loadpoints : Ramp(lp)
    <2>1. PICK lp \in Loadpoints : Ramp(lp)
      BY <1>3
    <2>2. PICK d \in 0 .. charger[lp].limit : draw' = [draw EXCEPT ![lp] = d]
      BY <2>1 DEF Ramp
    <2>3. d \in Currents
      BY <1>2, CurrentFacts DEF Currents
    <2>4. draw' \in [Loadpoints -> Currents]
      BY <1>1, <2>2, <2>3
    <2>5. UNCHANGED <<enabled, offered, charger, base, meter, hems, circ, turn, current, chargePower>>
      BY <2>1 DEF Ramp
    <2> QED
      BY <1>1, <2>4, <2>5, Surroundings
  <1>8. CASE \E lp \in Loadpoints : Stray(lp)
    <2>1. PICK lp \in Loadpoints : Stray(lp)
      BY <1>8
    <2>2. PICK on \in BOOLEAN, limit \in OwnCurrents[lp] :
              LET ch == [on |-> on, limit |-> limit]
              IN  charger' = [charger EXCEPT ![lp] = ch] /\ Follow(lp, ch)
      BY <2>1 DEF Stray
    <2> DEFINE ch == [on |-> on, limit |-> limit]
    <2>3. ch \in Chargers /\ charger' = [charger EXCEPT ![lp] = ch] /\ Follow(lp, ch)
      BY <2>2, LoadpointAssumption DEF Chargers
    <2> HIDE DEF ch
    <2>4. draw' \in [Loadpoints -> Currents] /\ charger' \in [Loadpoints -> Chargers]
      BY <1>1, <2>3, Followed DEF Inv
    <2>5. UNCHANGED <<enabled, offered, base, meter, hems, circ, turn, current, chargePower>>
      BY <2>1 DEF Stray
    <2> QED
      BY <1>1, <2>4, <2>5, Surroundings
  <1>4. CASE \E c \in CircuitSet : OtherConsumers(c)
    <2>1. PICK c \in CircuitSet : OtherConsumers(c)
      BY <1>4
    <2>2. PICK b \in BaseLoads[c] : base' = [base EXCEPT ![c] = b]
      BY <2>1 DEF OtherConsumers
    <2>3. UNCHANGED <<enabled, offered, charger, draw, meter, hems, circ, turn, current, chargePower>>
      BY <2>1 DEF OtherConsumers
    <2>4. \A d \in CircuitSet : base'[d] \in BaseLoads[d]
      BY <1>1, <2>2
    <2> QED
      BY <1>1, <2>3, <2>4, Surroundings
  <1>5. CASE \E c \in CircuitSet : MeterFault(c)
    <2>1. PICK c \in CircuitSet : MeterFault(c)
      BY <1>5
    <2>2. PICK m \in Faults[c] \cup {"ok"} : meter' = [meter EXCEPT ![c] = m]
      BY <2>1 DEF MeterFault
    <2>3. UNCHANGED <<enabled, offered, charger, draw, base, hems, circ, turn, current, chargePower>>
      BY <2>1 DEF MeterFault
    <2>4. \A d \in CircuitSet : meter'[d] \in Faults[d] \cup {"ok"}
      BY <1>1, <2>2
    <2> QED
      BY <1>1, <2>3, <2>4, Surroundings
  <1>6. CASE HemsLimit
    <2>1. /\ hems' \in HemsLimits
          /\ UNCHANGED <<enabled, offered, charger, draw, base, meter, circ, turn, current, chargePower>>
      BY <1>6 DEF HemsLimit
    <2> QED
      BY <1>1, <2>1, Surroundings
  <1>7. CASE UNCHANGED vars
    <2>1. UNCHANGED <<enabled, offered, charger, draw, base, meter, hems, circ, turn, current, chargePower>>
      BY <1>7 DEF vars
    <2> QED
      BY <1>1, <2>1, Surroundings
  <1> QED
    BY <1>3, <1>4, <1>5, <1>6, <1>7, <1>8

LEMMA Step ==
    ASSUME Inv, [Next]_vars
    PROVE  Inv' /\ Bounded
  <1>1. turn \in DOMAIN ActiveLoadpoints /\ TypeOK
    BY DEF Inv, TypeOK
  <1>2. ASSUME NEW lp \in Loadpoints, RequestedUpdate(lp)
        PROVE  Inv' /\ UNCHANGED offered
    <2>1. turn' \in DOMAIN ActiveLoadpoints /\ ReadMeters(lp)
      BY <1>1, <1>2 DEF RequestedUpdate, TurnAfterRequest
    <2> QED
      BY <2>1, MetersRead
  <1>3. CASE UpdateInTurn
    <2>1. NextTurn \in DOMAIN ActiveLoadpoints
      <3>1. turn \in Nat /\ Len(ActiveLoadpoints) \in Nat \ {0}
        BY <1>1, TurnFacts
      <3>2. turn % Len(ActiveLoadpoints) \in 0 .. Len(ActiveLoadpoints) - 1
        BY <3>1
      <3> QED
        BY <3>1, <3>2, TurnFacts DEF NextTurn
    <2>2. ActiveLoadpoints[turn] \in Loadpoints
      BY <1>1, TurnFacts
    <2>3. turn' \in DOMAIN ActiveLoadpoints /\ ReadMeters(ActiveLoadpoints[turn])
      BY <1>3, <2>1 DEF UpdateInTurn
    <2> QED
      BY <1>1, <2>2, <2>3, MetersRead, OffersKept
  <1>4. ASSUME NEW lp \in Loadpoints, NEW consistent \in BOOLEAN,
               SetLimit(lp, consistent) \/ SetLimitFails(lp, consistent)
        PROVE  Inv' /\ Bounded
    BY <1>4, LoadpointUpdated
  <1>5. CASE SkipUpdate
    <2>1. UNCHANGED <<enabled, offered, charger, draw>> /\ EndCycle
      BY <1>5 DEF SkipUpdate
    <2>2. /\ enabled' \in [Loadpoints -> BOOLEAN] /\ offered' \in [Loadpoints -> Currents]
          /\ charger' \in [Loadpoints -> Chargers] /\ draw' \in [Loadpoints -> Currents]
      BY <1>1, <2>1 DEF TypeOK, Currents
    <2>3. Inv'
      BY <2>1, <2>2, CycleEnds
    <2> QED
      BY <1>1, <2>1, <2>3, OffersKept
  <1>6. CASE \/ \E lp \in Loadpoints : Ramp(lp) \/ Stray(lp)
             \/ \E c \in CircuitSet : OtherConsumers(c) \/ MeterFault(c)
             \/ HemsLimit
             \/ UNCHANGED vars
    BY <1>1, <1>6, SurroundingsAct, OffersKept
  <1>7. CASE \E lp \in Loadpoints : RequestedUpdate(lp)
    BY <1>1, <1>2, <1>7, OffersKept
  <1> QED
    BY <1>3, <1>4, <1>5, <1>6, <1>7 DEF Next

\* Prepare leaves a loadpoint with its charger in a proper state.
LEMMA PreparedType ==
    ASSUME NEW lp \in Loadpoints, NEW limit \in HemsLimits, NEW t \in Prepared(lp, limit)
    PROVE  t \in Devices
  <1>1. \A f \in Found(lp) : f \in Devices /\ [f EXCEPT !.enabled = TRUE] \in Devices
    <2>1. OwnCurrents[lp] \subseteq 0 .. ChargerMaxCurrent /\ 0 \in 0 .. ChargerMaxCurrent
      BY LoadpointAssumption
    <2>2. TAKE f \in Found(lp)
    <2>3. PICK on \in BOOLEAN, l \in OwnCurrents[lp] :
              f = [enabled |-> FALSE, offered |-> 0, on |-> on, limit |-> l]
      BY DEF Found
    <2>4. f \in Devices
      BY <2>1, <2>3 DEF Devices
    <2>5. [f EXCEPT !.enabled = TRUE] \in Devices
      BY <2>4 DEF Devices
    <2> QED
      BY <2>4, <2>5
  <1>2. CASE t \in Found(lp)
    BY <1>1, <1>2
  <1>3. CASE t \notin Found(lp)
    <2> DEFINE granted == Granted(lp, [c \in CircuitSet |-> Unread], limit, 0, 0, LpMinCurrent)
    <2>1. PICK f \in Found(lp) :
              t \in {SetTo([f EXCEPT !.enabled = TRUE], granted)}
                    \cup FailTo(lp, [f EXCEPT !.enabled = TRUE], granted)
      BY <1>3 DEF Prepared
    <2>2. granted \in Currents
      <3>1. Unread \in CircuitState
        BY LimitAssumption DEF Unread, CircuitState
      <3>2. [c \in CircuitSet |-> Unread] \in [CircuitSet -> CircuitState]
        BY <3>1
      <3>3. limit \in Nat
        BY LoadAssumption
      <3>4. LpMinCurrent \in Targets
        BY LoadpointAssumption DEF Targets
      <3>5. granted \in Targets
        BY <3>2, <3>3, <3>4, GrantedFacts
      <3> QED
        BY <3>5, CurrentFacts
    <2> HIDE DEF granted
    <2> QED
      BY <1>1, <2>1, <2>2, DeviceSet
  <1> QED
    BY <1>2, <1>3

LEMMA Initially ==
    ASSUME Init
    PROVE  Inv
  <1>1. PICK start \in [Loadpoints -> Devices] :
            /\ enabled = [lp \in Loadpoints |-> start[lp].enabled]
            /\ offered = [lp \in Loadpoints |-> start[lp].offered]
            /\ charger = [lp \in Loadpoints |-> [on |-> start[lp].on, limit |-> start[lp].limit]]
    BY DEF Init
  <1>2. /\ enabled \in [Loadpoints -> BOOLEAN]
        /\ offered \in [Loadpoints -> Currents]
        /\ charger \in [Loadpoints -> Chargers]
    BY <1>1 DEF Devices, Chargers, Currents
  <1>3. /\ draw \in [Loadpoints -> Currents] /\ chargePower \in [Loadpoints -> Currents]
        /\ current \in Loadpoints \cup {NoLoadpoint}
        /\ hems \in HemsLimits
    BY CurrentFacts DEF Init, NoPower
  <1>4. Unread \in CircuitState /\ Unread.power = 0 /\ Unread.current = 0
    BY LimitAssumption DEF Unread, CircuitState
  <1>5. \A c \in CircuitSet : Full(c) \in Nat
    BY FullSum
  <1>6. turn \in DOMAIN ActiveLoadpoints
    BY TurnFacts DEF Init
  <1>7. circ \in [CircuitSet -> CircuitState]
    BY <1>4 DEF Init
  <1>8. \A c \in CircuitSet : {circ[c].power, circ[c].current} \subseteq 0 .. Full(c)
    BY <1>4, <1>5 DEF Init
  <1>9. \A c \in CircuitSet : base[c] \in BaseLoads[c] /\ meter[c] \in Faults[c] \cup {"ok"}
    BY LoadAssumption DEF Init
  <1>10. TypeOK
    BY <1>2, <1>3, <1>6, <1>7, <1>8, <1>9 DEF TypeOK, CircuitState, Full, Currents
  <1>11. Counted
    BY DEF Init, Counted
  <1> QED
    BY <1>10, <1>11 DEF Inv

LEMMA LoadInvariant == Spec => []Inv
  <1>1. Init => Inv
    BY Initially
  <1>2. Inv /\ [Next]_vars => Inv'
    BY Step
  <1> QED
    BY <1>1, <1>2, PTL DEF Spec

-----------------------------------------------------------------------------
(* The theorems.                                                           *)

\* The variables have their types, for any tree of circuits: what a circuit
\* without meters below it reports is never more than its loadpoints can draw,
\* whichever meters fail and whichever updates end early (Circuit.Update).
THEOREM LoadTypeCorrect == Spec => []TypeOK
  <1>1. Inv => TypeOK
    BY DEF Inv
  <1> QED
    BY <1>1, LoadInvariant, PTL

\* No step makes a circuit that adds up what its loadpoints are offered offer more
\* than its current limit, or than it offered before, beyond what the loadpoint of
\* the cycle finds its charger has taken by itself: at any depth of the tree, for
\* any limits above and below it, in whatever order its loadpoints are updated,
\* start, stop and fail, and whatever was offered at the start
\* (Loadpoint.setLimit and Circuit.ValidateCurrent).
THEOREM CircuitsNeverOvercommit == Spec => NeverOvercommits
  <1>1. Inv /\ [Next]_vars =>
            [\A c \in Summed : MaxCurrent[c] # 0 =>
                Offers(c)' <= Larger(MaxCurrent[c], Offers(c)) + OwnIncrease(c)]_vars
    BY Step DEF Bounded
  <1> QED
    BY <1>1, LoadInvariant, PTL DEF Spec, NeverOvercommits
=============================================================================
