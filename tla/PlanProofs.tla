------------------------------ MODULE PlanProofs ------------------------------
(***************************************************************************)
(* What Planner and ChargingPlan guarantee for any tariff, goal and time.  *)
(*                                                                         *)
(* What is planned is compared by the ticks it covers: slots that do not   *)
(* overlap last as long as they have ticks, and to clamp them is to take   *)
(* the ticks of an interval.                                               *)
(***************************************************************************)
EXTENDS ChargingPlan, SumTheorems

Ticks(slots) == {t \in Int : \E s \in slots : s.start <= t /\ t < s.end}

\* No time without a price between two that have one.
Gapless(slots) == \A t, u \in Ticks(slots) : t .. u \subseteq Ticks(slots)

\* The slots have the price v at t.
Costs(slots, t, v) == \E s \in slots : s.start <= t /\ t < s.end /\ s.value = v

-----------------------------------------------------------------------------
(* Slots.                                                                  *)

LEMMA SlotTypes ==
    ASSUME NEW S, Proper(S)
    PROVE  \A s \in S : s \in Slots /\ s.start \in Int /\ s.end \in Int /\ s.value \in Int
                        /\ s.start < s.end
  <1>1. \A s \in Slots : s.start \in Int /\ s.end \in Int /\ s.value \in Int
    BY DEF Slots
  <1> QED
    BY <1>1 DEF Proper

LEMMA ProperPart ==
    ASSUME NEW S, Proper(S), NEW T \in SUBSET S
    PROVE  Proper(T) /\ Ticks(T) \subseteq Ticks(S)
  BY FS_Subset DEF Proper, Ticks

LEMMA SlotIs ==
    ASSUME NEW a \in Int, NEW b \in Int, NEW v \in Int
    PROVE  /\ Slot(a, b, v) \in Slots
           /\ Slot(a, b, v).start = a /\ Slot(a, b, v).end = b /\ Slot(a, b, v).value = v
  BY DEF Slot, Slots

\* One slot more.
LEMMA TicksAdd ==
    ASSUME NEW S, NEW x, x.start \in Int, x.end \in Int
    PROVE  Ticks(S \cup {x}) = Ticks(S) \cup (x.start .. x.end - 1)
  <1>1. \A t \in Int : t \in x.start .. x.end - 1 <=> x.start <= t /\ t < x.end
    OBVIOUS
  <1> QED
    BY <1>1 DEF Ticks

LEMMA TicksNone == Ticks({}) = {}
  BY DEF Ticks

\* Slots last as long as they have ticks.
LEMMA DurationTicks ==
    ASSUME NEW S, Proper(S)
    PROVE  /\ IsFiniteSet(Ticks(S))
           /\ Duration(S) = Cardinality(Ticks(S))
           /\ Duration(S) \in Nat
  <1> DEFINE L == [s \in S |-> Length(s)]
             Good == {T \in SUBSET S : /\ IsFiniteSet(Ticks(T))
                                       /\ SumFunctionOnSet(L, T) = Cardinality(Ticks(T))}
  <1>1. IsFiniteSet(S) /\ \A s \in S : L[s] \in Int /\ L[s] = s.end - s.start
    BY SlotTypes DEF Proper, Length
  <1>2. {} \in Good
    BY TicksNone, SumEmpty, FS_EmptySet
  <1>3. ASSUME NEW T \in SUBSET S, NEW x \in S \ T, T \in Good
        PROVE  T \cup {x} \in Good
    <2> DEFINE I == x.start .. x.end - 1
    <2>1. x.start \in Int /\ x.end \in Int /\ x.start < x.end
      BY SlotTypes
    <2>2. IsFiniteSet(I) /\ Cardinality(I) = x.end - x.start
      BY <2>1, FS_Interval
    <2>3. Ticks(T \cup {x}) = Ticks(T) \cup I
      BY <2>1, TicksAdd
    <2>4. Ticks(T) \cap I = {}
      <3>1. ASSUME NEW t \in Ticks(T), t \in I PROVE FALSE
        <4> PICK s \in T : s.start <= t /\ t < s.end
          BY DEF Ticks
        <4>1. s.start \in Int /\ s.end \in Int /\ t \in Int
          BY SlotTypes DEF Ticks
        <4>2. s.end <= x.start \/ x.end <= s.start
          BY DEF Proper
        <4> QED
          BY <2>1, <3>1, <4>1, <4>2
      <3> QED
        BY <3>1
    <2>5. SumFunctionOnSet(L, T \cup {x}) = SumFunctionOnSet(L, T) + L[x]
      <3>1. IsFiniteSet(T)
        BY <1>1, FS_Subset
      <3>2. \A s \in T \cup {x} : L[s] \in Int
        BY <1>1
      <3> HIDE DEF L
      <3> QED
        BY <3>1, <3>2, SumAdd
    <2> HIDE DEF I, L
    <2>6. /\ IsFiniteSet(Ticks(T) \cup I)
          /\ Cardinality(Ticks(T) \cup I) = Cardinality(Ticks(T)) + Cardinality(I)
      <3>1. IsFiniteSet(Ticks(T))
        BY <1>3
      <3>2. /\ IsFiniteSet(Ticks(T) \cup I)
            /\ Cardinality(Ticks(T) \cup I)
                   = Cardinality(Ticks(T)) + Cardinality(I) - Cardinality(Ticks(T) \cap I)
        BY <2>2, <3>1, FS_Union
      <3>3. Cardinality(Ticks(T)) \in Nat /\ Cardinality(I) \in Nat
        BY <2>2, <3>1, FS_CardinalityType
      <3>4. Cardinality(Ticks(T) \cap I) = 0
        BY <2>4, FS_EmptySet
      <3> QED
        BY <3>2, <3>3, <3>4
    <2> QED
      BY <1>1, <1>3, <2>2, <2>3, <2>5, <2>6
  <1>4. S \in Good
    <2> HIDE DEF Good
    <2> QED
      BY <1>1, <1>2, <1>3, SubsetInduction
  <1>5. Duration(S) = SumFunctionOnSet(L, S)
    BY DEF Duration, SumFunction
  <1>6. IsFiniteSet(Ticks(S)) /\ SumFunctionOnSet(L, S) = Cardinality(Ticks(S))
    BY <1>4
  <1> QED
    BY <1>5, <1>6, FS_CardinalityType

\* Of two sets of slots, the one that covers the other's ticks lasts longer.
LEMMA DurationLess ==
    ASSUME NEW S, Proper(S), NEW T, Proper(T), Ticks(T) \subseteq Ticks(S)
    PROVE  Duration(T) <= Duration(S)
  <1>1. IsFiniteSet(Ticks(S)) /\ Ticks(T) \in SUBSET Ticks(S)
    BY DurationTicks
  <1>2. Cardinality(Ticks(T)) <= Cardinality(Ticks(S))
    BY <1>1, FS_Subset
  <1> QED
    BY <1>2, DurationTicks

\* Two sets of slots apart from each other.
LEMMA DurationUnion ==
    ASSUME NEW S, Proper(S), NEW T, Proper(T), Ticks(S) \cap Ticks(T) = {}
    PROVE  /\ Proper(S \cup T) /\ Ticks(S \cup T) = Ticks(S) \cup Ticks(T)
           /\ Duration(S \cup T) = Duration(S) + Duration(T)
  <1>1. Ticks(S \cup T) = Ticks(S) \cup Ticks(T)
    BY DEF Ticks
  <1>2. ASSUME NEW r \in S, NEW s \in T
        PROVE  r.end <= s.start \/ s.end <= r.start
    <2>1. /\ r.start \in Int /\ r.end \in Int /\ r.start < r.end
          /\ s.start \in Int /\ s.end \in Int /\ s.start < s.end
      BY SlotTypes
    <2>2. ~(r.start <= s.start /\ s.start < r.end)
      <3>1. s.start \in Ticks(T)
        BY <2>1 DEF Ticks
      <3> QED
        BY <2>1, <3>1 DEF Ticks
    <2>3. ~(s.start <= r.start /\ r.start < s.end)
      <3>1. r.start \in Ticks(S)
        BY <2>1 DEF Ticks
      <3> QED
        BY <2>1, <3>1 DEF Ticks
    <2> QED
      BY <2>1, <2>2, <2>3
  <1>3. Proper(S \cup T)
    <2>1. IsFiniteSet(S \cup T)
      BY FS_Union DEF Proper
    <2> QED
      BY <1>2, <2>1 DEF Proper
  <1>4. /\ IsFiniteSet(Ticks(S)) /\ IsFiniteSet(Ticks(T))
        /\ Cardinality(Ticks(S)) \in Nat /\ Cardinality(Ticks(T)) \in Nat
    BY DurationTicks
  <1>5. Cardinality(Ticks(S) \cup Ticks(T)) = Cardinality(Ticks(S)) + Cardinality(Ticks(T))
    <2>1. Cardinality(Ticks(S) \cup Ticks(T))
            = Cardinality(Ticks(S)) + Cardinality(Ticks(T)) - Cardinality(Ticks(S) \cap Ticks(T))
      BY <1>4, FS_Union
    <2>2. Cardinality(Ticks(S) \cap Ticks(T)) = 0
      BY FS_EmptySet
    <2> QED
      BY <1>4, <2>1, <2>2
  <1>6. /\ Duration(S \cup T) = Cardinality(Ticks(S \cup T))
        /\ Duration(S) = Cardinality(Ticks(S)) /\ Duration(T) = Cardinality(Ticks(T))
    BY <1>3, DurationTicks
  <1> QED
    BY <1>1, <1>3, <1>5, <1>6

-----------------------------------------------------------------------------
(* The first and the last.                                                 *)

LEMMA LeastOf ==
    ASSUME NEW S, IsFiniteSet(S), S # {}, NEW f, \A x \in S : f[x] \in Int
    PROVE  \E x \in S : \A y \in S : f[x] <= f[y]
  <1> DEFINE Good == {T \in SUBSET S : T # {} => \E x \in T : \A y \in T : f[x] <= f[y]}
  <1>1. {} \in Good
    OBVIOUS
  <1>2. ASSUME NEW T \in SUBSET S, NEW z \in S \ T, T \in Good
        PROVE  T \cup {z} \in Good
    <2>1. CASE T = {}
      BY <2>1
    <2>2. CASE T # {}
      <3>1. PICK x \in T : \A y \in T : f[x] <= f[y]
        BY <1>2, <2>2
      <3>2. CASE f[x] <= f[z]
        BY <3>1, <3>2
      <3>3. CASE f[z] < f[x]
        BY <3>1, <3>3
      <3> QED
        BY <3>2, <3>3
    <2> QED
      BY <2>1, <2>2
  <1> HIDE DEF Good
  <1>3. S \in Good
    BY <1>1, <1>2, SubsetInduction
  <1> QED
    BY <1>3 DEF Good

LEMMA StartIs ==
    ASSUME NEW S, Proper(S), S # {}
    PROVE  /\ Start(S) \in Int
           /\ \E r \in S : r.start = Start(S)
           /\ \A s \in S : Start(S) <= s.start
           /\ Start(S) \in Ticks(S) /\ \A t \in Ticks(S) : Start(S) <= t
  <1> DEFINE f == [s \in S |-> s.start]
             starts == {s.start : s \in S}
  <1>1. IsFiniteSet(S) /\ \A s \in S : f[s] \in Int
    BY SlotTypes DEF Proper
  <1>2. PICK first \in S : \A s \in S : f[first] <= f[s]
    <2> HIDE DEF f
    <2> QED
      BY <1>1, LeastOf
  <1>3. \E x \in starts : \A y \in starts : x <= y
    BY <1>2
  <1>4. Start(S) \in starts /\ \A y \in starts : Start(S) <= y
    BY <1>3 DEF Start, Min
  <1>5. PICK r \in S : r.start = Start(S)
    BY <1>4
  <1>6. Start(S) \in Int /\ Start(S) \in Ticks(S)
    BY <1>5, SlotTypes DEF Ticks
  <1>7. \A s \in S : Start(S) <= s.start
    BY <1>4
  <1>8. ASSUME NEW t \in Ticks(S) PROVE Start(S) <= t
    <2> PICK s \in S : s.start <= t
      BY DEF Ticks
    <2> QED
      BY <1>6, <1>7, SlotTypes DEF Ticks
  <1> QED
    BY <1>5, <1>6, <1>7, <1>8

LEMMA EndIs ==
    ASSUME NEW S, Proper(S), S # {}
    PROVE  /\ End(S) \in Int
           /\ \E r \in S : r.end = End(S)
           /\ \A s \in S : s.end <= End(S)
           /\ End(S) - 1 \in Ticks(S) /\ \A t \in Ticks(S) : t < End(S)
  <1> DEFINE f == [s \in S |-> 0 - s.end]
             ends == {s.end : s \in S}
  <1>1. IsFiniteSet(S) /\ \A s \in S : f[s] \in Int
    BY SlotTypes DEF Proper
  <1>2. PICK last \in S : \A s \in S : f[last] <= f[s]
    <2> HIDE DEF f
    <2> QED
      BY <1>1, LeastOf
  <1>3. \E x \in ends : \A y \in ends : x >= y
    <2>1. \A s \in S : last.end >= s.end
      <3> TAKE s \in S
      <3>1. 0 - last.end <= 0 - s.end /\ last.end \in Int /\ s.end \in Int
        BY <1>2, SlotTypes
      <3> QED
        BY <3>1
    <2>2. last.end \in ends
      OBVIOUS
    <2> QED
      BY <2>1, <2>2
  <1>4. End(S) \in ends /\ \A y \in ends : End(S) >= y
    BY <1>3 DEF End, Max
  <1>5. PICK r \in S : r.end = End(S)
    BY <1>4
  <1>6. End(S) \in Int /\ End(S) - 1 \in Ticks(S)
    <2>1. r.start \in Int /\ r.end \in Int /\ r.start < r.end
      BY SlotTypes
    <2> QED
      BY <1>5, <2>1 DEF Ticks
  <1>7. \A s \in S : s.end <= End(S)
    BY <1>4, <1>6, SlotTypes
  <1>8. ASSUME NEW t \in Ticks(S) PROVE t < End(S)
    <2> PICK s \in S : t < s.end
      BY DEF Ticks
    <2> QED
      BY <1>6, <1>7, SlotTypes DEF Ticks
  <1> QED
    BY <1>5, <1>6, <1>7, <1>8

LEMMA TicksThere ==
    ASSUME NEW S, Proper(S)
    PROVE  S # {} <=> Ticks(S) # {}
  BY StartIs, TicksNone

\* Slots without holes cover an interval.
LEMMA GaplessDuration ==
    ASSUME NEW S, Proper(S), NEW a \in Int, NEW b \in Int, a <= b, Ticks(S) = a .. b - 1
    PROVE  Duration(S) = b - a
  <1>1. Duration(S) = Cardinality(a .. b - 1)
    BY DurationTicks
  <1>2. Cardinality(a .. b - 1) = b - a
    <2> DEFINE c == b - 1
    <2>1. c \in Int /\ c - a + 1 = b - a /\ (a > c => b - a = 0)
      OBVIOUS
    <2> HIDE DEF c
    <2>2. Cardinality(a .. c) = b - a
      BY <2>1, FS_Interval
    <2> QED
      BY <2>2 DEF c
  <1> QED
    BY <1>1, <1>2

-----------------------------------------------------------------------------
(* Clamp: the part of the slots in an interval.                            *)

\* What is left of one slot.
LEMMA ClampOne ==
    ASSUME NEW r \in Slots, r.start < r.end, NEW a \in Int, NEW b \in Int, a < b,
           a < r.end, r.start < b,
           NEW c, c = Slot(Later(r.start, a), Earlier(r.end, b), r.value)
    PROVE  /\ c \in Slots /\ c.start < c.end /\ c.value = r.value
           /\ r.start <= c.start /\ c.end <= r.end
           /\ \A t \in Int : c.start <= t /\ t < c.end
                 <=> r.start <= t /\ t < r.end /\ a <= t /\ t < b
  <1> DEFINE s == r.start
             e == r.end
             from == Later(s, a)
             to == Earlier(e, b)
  <1>1. s \in Int /\ e \in Int /\ r.value \in Int /\ s < e /\ a < e /\ s < b
    BY DEF Slots
  <1> HIDE DEF s, e
  <1>2. /\ from \in Int /\ to \in Int /\ from < to /\ s <= from /\ to <= e
        /\ \A t \in Int : from <= t /\ t < to <=> s <= t /\ t < e /\ a <= t /\ t < b
    BY <1>1 DEF Later, Earlier
  <1>3. c \in Slots /\ c.start = from /\ c.end = to /\ c.value = r.value
    <2>1. c = Slot(from, to, r.value)
      BY DEF s, e
    <2> HIDE DEF from, to
    <2> QED
      BY <1>1, <1>2, <2>1, SlotIs
  <1> QED
    BY <1>2, <1>3 DEF s, e

LEMMA ClampIs ==
    ASSUME NEW S, Proper(S), NEW a \in Int, NEW b \in Int, a < b
    PROVE  /\ Proper(Clamp(S, a, b))
           /\ Ticks(Clamp(S, a, b)) = {t \in Ticks(S) : a <= t /\ t < b}
           /\ \A t \in a .. b - 1 : \A v : Costs(Clamp(S, a, b), t, v) <=> Costs(S, t, v)
  <1> DEFINE part(r) == Slot(Later(r.start, a), Earlier(r.end, b), r.value)
             R == {r \in S : a < r.end /\ r.start < b}
             C == Clamp(S, a, b)
  <1>1. C = {part(r) : r \in R}
    BY DEF Clamp
  <1>2. ASSUME NEW r \in R
        PROVE  /\ r \in S /\ part(r) \in Slots /\ part(r).start < part(r).end
               /\ part(r).value = r.value
               /\ r.start <= part(r).start /\ part(r).end <= r.end
               /\ \A t \in Int : part(r).start <= t /\ t < part(r).end
                     <=> r.start <= t /\ t < r.end /\ a <= t /\ t < b
    <2>1. r \in S /\ r \in Slots /\ r.start < r.end /\ a < r.end /\ r.start < b
      BY SlotTypes
    <2> DEFINE c == part(r)
    <2>2. c = Slot(Later(r.start, a), Earlier(r.end, b), r.value)
      OBVIOUS
    <2> HIDE DEF c
    <2> QED
      BY <2>1, <2>2, ClampOne DEF c
  <1>3. IsFiniteSet(C)
    <2> DEFINE f == [r \in R |-> part(r)]
    <2>1. IsFiniteSet(R)
      BY FS_Subset DEF Proper
    <2>2. f \in Surjection(R, C)
      BY <1>1 DEF Surjection
    <2> HIDE DEF f, R, C
    <2> QED
      BY <2>1, <2>2, FS_Surjection
  <1> HIDE DEF part, C
  <1>4. Proper(C)
    <2>1. C \subseteq Slots /\ \A c \in C : c.start < c.end
      BY <1>1, <1>2
    <2>2. ASSUME NEW c \in C, NEW d \in C, c # d
          PROVE  c.end <= d.start \/ d.end <= c.start
      <3>1. PICK r \in R : c = part(r)
        BY <1>1
      <3>2. PICK s \in R : d = part(s)
        BY <1>1
      <3>3. r.end <= s.start \/ s.end <= r.start
        BY <2>2, <3>1, <3>2 DEF Proper
      <3>4. /\ r.start <= c.start /\ c.end <= r.end
            /\ s.start <= d.start /\ d.end <= s.end
        BY <1>2, <3>1, <3>2
      <3>5. /\ r.start \in Int /\ r.end \in Int /\ s.start \in Int /\ s.end \in Int
            /\ c.start \in Int /\ c.end \in Int /\ d.start \in Int /\ d.end \in Int
        BY <2>1, SlotTypes DEF Slots
      <3> QED
        BY <3>3, <3>4, <3>5
    <2> QED
      BY <1>3, <2>1, <2>2 DEF Proper
  <1>5. ASSUME NEW t \in Int, NEW r \in S, r.start <= t, t < r.end, a <= t, t < b
        PROVE  r \in R /\ part(r) \in C /\ part(r).start <= t /\ t < part(r).end
    <2>1. r \in R
      BY <1>5, SlotTypes
    <2> QED
      BY <1>1, <1>2, <1>5, <2>1
  <1>6. Ticks(C) = {t \in Ticks(S) : a <= t /\ t < b}
    <2>1. ASSUME NEW t \in Ticks(C) PROVE t \in Ticks(S) /\ a <= t /\ t < b
      <3> PICK c \in C : c.start <= t /\ t < c.end
        BY DEF Ticks
      <3> PICK r \in R : c = part(r)
        BY <1>1
      <3>1. t \in Int
        BY DEF Ticks
      <3> QED
        BY <1>2, <3>1 DEF Ticks
    <2>2. ASSUME NEW t \in Ticks(S), a <= t, t < b PROVE t \in Ticks(C)
      <3> PICK r \in S : t \in Int /\ r.start <= t /\ t < r.end
        BY DEF Ticks
      <3>1. part(r) \in C /\ part(r).start <= t /\ t < part(r).end
        BY <1>5, <2>2
      <3> QED
        BY <3>1 DEF Ticks
    <2> QED
      BY <2>1, <2>2
  <1>7. ASSUME NEW t \in a .. b - 1, NEW v
        PROVE  Costs(C, t, v) <=> Costs(S, t, v)
    <2>1. t \in Int /\ a <= t /\ t < b
      OBVIOUS
    <2>2. ASSUME Costs(C, t, v) PROVE Costs(S, t, v)
      <3> PICK c \in C : c.start <= t /\ t < c.end /\ c.value = v
        BY <2>2 DEF Costs
      <3> PICK r \in R : c = part(r)
        BY <1>1
      <3> QED
        BY <1>2, <2>1 DEF Costs
    <2>3. ASSUME Costs(S, t, v) PROVE Costs(C, t, v)
      <3> PICK r \in S : r.start <= t /\ t < r.end /\ r.value = v
        BY <2>3 DEF Costs
      <3>1. r \in R /\ part(r) \in C /\ part(r).start <= t /\ t < part(r).end
        BY <1>5, <2>1
      <3>2. part(r).value = v
        BY <1>2, <3>1
      <3> QED
        BY <3>1, <3>2 DEF Costs
    <2> QED
      BY <2>2, <2>3
  <1> QED
    BY <1>4, <1>6, <1>7 DEF C

-----------------------------------------------------------------------------
(* OptimalPlan.                                                            *)

\* No tick of the plan costs more than one of the slots that is left out.
CheapIn(slots, plan) ==
    \A t \in Ticks(plan), u \in Ticks(slots) \ Ticks(plan) : \A v, w \in Int :
        Costs(slots, t, v) /\ Costs(slots, u, w) => v <= w

\* The slots are taken in a total order.
LEMMA CheaperOrder ==
    ASSUME NEW S, Proper(S)
    PROVE  /\ \A r \in S : ~Cheaper(r, r)
           /\ \A r, s \in S : r # s => Cheaper(r, s) \/ Cheaper(s, r)
           /\ \A r, s \in S : ~(Cheaper(r, s) /\ Cheaper(s, r))
           /\ \A q, r, s \in S : Cheaper(q, r) /\ Cheaper(r, s) => Cheaper(q, s)
           /\ \A r, s \in S : ~Cheaper(s, r) => r.value <= s.value
           /\ \A r, s \in S : Cheaper(r, s) => r.value <= s.value
  <1>1. \A r \in S : r.start \in Int /\ r.value \in Int
    BY SlotTypes
  <1>2. \A r, s \in S : r # s => r.start # s.start
    <2> SUFFICES ASSUME NEW r \in S, NEW s \in S, r # s PROVE r.start # s.start
      OBVIOUS
    <2>1. r.end <= s.start \/ s.end <= r.start
      BY DEF Proper
    <2> QED
      BY <2>1, SlotTypes
  <1> QED
    BY <1>1, <1>2 DEF Cheaper

LEMMA CheapestOf ==
    ASSUME NEW S, Proper(S), NEW T \in SUBSET S, T # {}
    PROVE  \E first \in T : \A s \in T : s = first \/ Cheaper(first, s)
  <1> DEFINE Good == {U \in SUBSET T :
                 U # {} => \E first \in U : \A s \in U : s = first \/ Cheaper(first, s)}
  <1>1. IsFiniteSet(T)
    BY FS_Subset DEF Proper
  <1>2. {} \in Good
    OBVIOUS
  <1>3. ASSUME NEW U \in SUBSET T, NEW z \in T \ U, U \in Good
        PROVE  U \cup {z} \in Good
    <2>1. CASE U = {}
      BY <2>1
    <2>2. CASE U # {}
      <3>1. PICK first \in U : \A s \in U : s = first \/ Cheaper(first, s)
        BY <1>3, <2>2
      <3>2. CASE Cheaper(first, z)
        BY <3>1, <3>2
      <3>3. CASE ~Cheaper(first, z)
        <4>1. Cheaper(z, first)
          BY <3>3, CheaperOrder
        <4>2. \A s \in U : Cheaper(z, s)
          BY <3>1, <4>1, CheaperOrder
        <4> QED
          BY <4>2
      <3> QED
        BY <3>2, <3>3
    <2> QED
      BY <2>1, <2>2
  <1> HIDE DEF Good
  <1>4. T \in Good
    BY <1>1, <1>2, <1>3, SubsetInduction
  <1> QED
    BY <1>4 DEF Good

LEMMA DearestOf ==
    ASSUME NEW S, Proper(S), NEW T \in SUBSET S, T # {}
    PROVE  \E last \in T : \A s \in T : s = last \/ Cheaper(s, last)
  <1> DEFINE Good == {U \in SUBSET T :
                 U # {} => \E last \in U : \A s \in U : s = last \/ Cheaper(s, last)}
  <1>1. IsFiniteSet(T)
    BY FS_Subset DEF Proper
  <1>2. {} \in Good
    OBVIOUS
  <1>3. ASSUME NEW U \in SUBSET T, NEW z \in T \ U, U \in Good
        PROVE  U \cup {z} \in Good
    <2>1. CASE U = {}
      BY <2>1
    <2>2. CASE U # {}
      <3>1. PICK last \in U : \A s \in U : s = last \/ Cheaper(s, last)
        BY <1>3, <2>2
      <3>2. CASE Cheaper(z, last)
        BY <3>1, <3>2
      <3>3. CASE ~Cheaper(z, last)
        <4>1. Cheaper(last, z)
          BY <3>3, CheaperOrder
        <4>2. \A s \in U : Cheaper(s, z)
          BY <3>1, <4>1, CheaperOrder
        <4> QED
          BY <4>2
      <3> QED
        BY <3>2, <3>3
    <2> QED
      BY <2>1, <2>2
  <1> HIDE DEF Good
  <1>4. T \in Good
    BY <1>1, <1>2, <1>3, SubsetInduction
  <1> QED
    BY <1>4 DEF Good

LEMMA DurationAdd ==
    ASSUME NEW S, Proper(S), NEW T \in SUBSET S, NEW r \in S \ T
    PROVE  /\ Duration(T \cup {r}) = Duration(T) + Length(r)
           /\ Duration(T) \in Nat /\ Length(r) \in Nat
  <1>1. Proper(T) /\ Proper({r}) /\ Proper(T \cup {r})
    BY ProperPart
  <1> DEFINE L == [s \in T \cup {r} |-> Length(s)]
             M == [s \in T |-> Length(s)]
  <1>2. /\ IsFiniteSet(T) /\ \A s \in T \cup {r} : L[s] \in Int
        /\ \A s \in T : M[s] \in Int /\ L[s] = M[s]
        /\ L[r] = Length(r) /\ Length(r) \in Nat
    BY <1>1, SlotTypes DEF Proper, Length
  <1>3. Duration(T \cup {r}) = SumFunctionOnSet(L, T \cup {r}) /\ Duration(T) = SumFunctionOnSet(M, T)
    BY DEF Duration, SumFunction
  <1> HIDE DEF L, M
  <1>4. SumFunctionOnSet(L, T \cup {r}) = SumFunctionOnSet(L, T) + L[r]
    BY <1>2, SumAdd
  <1>5. SumFunctionOnSet(L, T) = SumFunctionOnSet(M, T)
    BY <1>2, SumAgree
  <1> QED
    BY <1>1, <1>2, <1>3, <1>4, <1>5, DurationTicks

\* A slot that is shortened by less than its length.
LEMMA ShortenIs ==
    ASSUME NEW r \in Slots, NEW e \in Int, e < Length(r), r.start < r.end, NEW T
    PROVE  LET s == Shorten(r, e, T)
           IN  /\ s \in Slots /\ s.start < s.end /\ s.value = r.value
               /\ r.start <= s.start /\ s.end <= r.end
               /\ e <= 0 => s = r
               /\ e >= 0 => Length(s) = Length(r) - e
  <1>1. r.start \in Int /\ r.end \in Int /\ r.value \in Int
    BY DEF Slots
  <1>2. CASE e <= 0
    BY <1>1, <1>2 DEF Shorten, Length
  <1>3. CASE e > 0 /\ T # {} /\ IsFirst(r, T)
    <2> DEFINE s == [r EXCEPT !.start = @ + e]
    <2>1. Shorten(r, e, T) = s
      BY <1>3 DEF Shorten
    <2>2. s \in Slots /\ s.start = r.start + e /\ s.end = r.end /\ s.value = r.value
      BY <1>1 DEF Slots
    <2> HIDE DEF s
    <2> QED
      BY <1>1, <1>3, <2>1, <2>2 DEF Length
  <1>4. CASE e > 0 /\ ~(T # {} /\ IsFirst(r, T))
    <2> DEFINE s == [r EXCEPT !.end = @ - e]
    <2>1. Shorten(r, e, T) = s
      BY <1>4 DEF Shorten
    <2>2. s \in Slots /\ s.start = r.start /\ s.end = r.end - e /\ s.value = r.value
      BY <1>1 DEF Slots
    <2> HIDE DEF s
    <2> QED
      BY <1>1, <1>4, <2>1, <2>2 DEF Length
  <1> QED
    BY <1>2, <1>3, <1>4

\* As much as is needed, of the slots that cost least.
LEMMA OptimalIs ==
    ASSUME NEW S, Proper(S), NEW n \in Nat, 0 < n, n <= Duration(S)
    PROVE  /\ Proper(OptimalPlan(S, n))
           /\ Ticks(OptimalPlan(S, n)) \subseteq Ticks(S)
           /\ Duration(OptimalPlan(S, n)) = n
           /\ CheapIn(S, OptimalPlan(S, n))
  <1> DEFINE Before(r) == {s \in S : Cheaper(s, r)}
             D(r) == Duration(Before(r))
             Cut(r) == Shorten(r, D(r) + Length(r) - n, Before(r))
             T == {r \in S : D(r) < n}
             P == OptimalPlan(S, n)
  <1>1. P = {Cut(r) : r \in T}
    BY DEF OptimalPlan
  <1>2. \A r \in S : /\ Before(r) \in SUBSET S /\ Proper(Before(r)) /\ D(r) \in Nat
                     /\ r \notin Before(r)
    BY ProperPart, DurationTicks, CheaperOrder
  <1>3. \A U, V \in SUBSET S : U \subseteq V => Duration(U) <= Duration(V)
    <2> SUFFICES ASSUME NEW U \in SUBSET S, NEW V \in SUBSET S, U \subseteq V
                 PROVE  Duration(U) <= Duration(V)
      OBVIOUS
    <2>1. Proper(U) /\ Proper(V) /\ Ticks(U) \subseteq Ticks(V)
      BY ProperPart DEF Ticks
    <2> QED
      BY <2>1, DurationLess
  <1>4. \A r, s \in S : Cheaper(r, s) => Before(r) \cup {r} \subseteq Before(s)
    BY CheaperOrder
  <1>5. T # {}
    <2>1. S # {}
      <3>1. Duration({}) = 0
        <4>1. Proper({})
          BY ProperPart
        <4> QED
          BY <4>1, DurationTicks, TicksNone, FS_EmptySet
      <3> QED
        BY <3>1
    <2>2. PICK first \in S : \A s \in S : s = first \/ Cheaper(first, s)
      BY <2>1, CheapestOf
    <2>3. Before(first) = {}
      BY <2>2, CheaperOrder
    <2>4. D(first) = 0
      BY <1>2, <2>3, DurationTicks, TicksNone, FS_EmptySet
    <2> QED
      BY <2>4
  <1>6. PICK m \in T : \A s \in T : s = m \/ Cheaper(s, m)
    <2>1. T \in SUBSET S
      OBVIOUS
    <2> HIDE DEF T
    <2> QED
      BY <1>5, <2>1, DearestOf
  <1>7. m \in S /\ D(m) < n /\ D(m) \in Nat /\ m \in Slots /\ m.start < m.end
    BY <1>2, <1>6, SlotTypes
  <1>8. T = Before(m) \cup {m}
    <2>1. ASSUME NEW r \in Before(m) PROVE r \in T
      <3>1. r \in S /\ Before(r) \subseteq Before(m)
        BY <1>4, <1>7
      <3>2. D(r) <= D(m)
        BY <1>2, <1>3, <1>7, <3>1
      <3>3. D(r) \in Nat
        BY <1>2, <3>1
      <3> HIDE DEF D
      <3> QED
        BY <1>7, <3>1, <3>2, <3>3
    <2> QED
      BY <1>6, <2>1
  <1> DEFINE e == D(m) + Length(m) - n
             c == Cut(m)
  <1>9. Duration(T) = D(m) + Length(m) /\ Length(m) \in Nat /\ Duration(T) \in Nat
    <2> DEFINE B == Before(m)
    <2>1. B \in SUBSET S /\ m \in S \ B /\ T = B \cup {m} /\ D(m) = Duration(B)
      BY <1>2, <1>7, <1>8
    <2> HIDE DEF B, T, D, Before
    <2>2. Duration(B \cup {m}) = Duration(B) + Length(m) /\ Duration(B) \in Nat /\ Length(m) \in Nat
      BY <2>1, DurationAdd
    <2> QED
      BY <2>1, <2>2
  <1>10. n <= Duration(T)
    <2> SUFFICES ASSUME Duration(T) < n PROVE FALSE
      BY <1>9
    <2>1. S \ T # {}
      <3>1. T \in SUBSET S /\ Duration(S) \in Nat
        BY DurationTicks
      <3> HIDE DEF T
      <3>2. T # S
        BY <1>9, <3>1
      <3> QED
        BY <3>1, <3>2
    <2>2. PICK r \in S \ T : \A s \in S \ T : s = r \/ Cheaper(r, s)
      <3>1. S \ T \in SUBSET S
        OBVIOUS
      <3> HIDE DEF T
      <3> QED
        BY <2>1, <3>1, CheapestOf
    <2>3. Before(r) \subseteq T
      <3> SUFFICES ASSUME NEW s \in Before(r), s \notin T PROVE FALSE
        OBVIOUS
      <3>1. s = r \/ Cheaper(r, s)
        <4> HIDE DEF T
        <4> QED
          BY <2>2
      <3> QED
        BY <2>2, <3>1, CheaperOrder
    <2>4. D(r) <= Duration(T) /\ D(r) \in Nat
      BY <1>2, <1>3, <2>2, <2>3
    <2>5. D(r) < n
      <3> HIDE DEF D, T
      <3> QED
        BY <1>9, <2>4
    <2> QED
      BY <2>2, <2>5
  <1>11. e \in Int /\ 0 <= e /\ e < Length(m)
    <2> HIDE DEF D, T
    <2> QED
      BY <1>7, <1>9, <1>10
  <1>12. /\ c \in Slots /\ c.start < c.end /\ c.value = m.value
         /\ m.start <= c.start /\ c.end <= m.end /\ Length(c) = Length(m) - e
    <2>1. c = Shorten(m, e, Before(m))
      OBVIOUS
    <2> HIDE DEF e, c
    <2> QED
      BY <1>7, <1>11, <2>1, ShortenIs
  <1>13. \A r \in Before(m) : Cut(r) = r
    <2> TAKE r \in Before(m)
    <2>1. r \in S /\ Before(r) \cup {r} \subseteq Before(m) /\ r \notin Before(r)
      BY <1>2, <1>4, <1>7
    <2>2. Duration(Before(r) \cup {r}) = D(r) + Length(r) /\ D(r) \in Nat /\ Length(r) \in Nat
      BY <1>2, <2>1, DurationAdd
    <2>3. Duration(Before(r) \cup {r}) <= D(m)
      BY <1>2, <1>3, <1>7, <2>1
    <2>4. D(r) + Length(r) - n <= 0 /\ D(r) + Length(r) - n \in Int
      <3> HIDE DEF D
      <3> QED
        BY <1>7, <2>2, <2>3
    <2> QED
      BY <2>4 DEF Shorten
  <1>14. P = Before(m) \cup {c}
    <2> HIDE DEF Cut, T, Before
    <2> QED
      BY <1>1, <1>8, <1>13
  <1> HIDE DEF P, c, e, Cut, T
  <1>15. Proper({c}) /\ Ticks({c}) = c.start .. c.end - 1 /\ c.start \in Int /\ c.end \in Int
    <2>1. IsFiniteSet({c})
      BY FS_Singleton
    <2>2. c.start \in Int /\ c.end \in Int
      BY <1>12 DEF Slots
    <2>3. Ticks({} \cup {c}) = Ticks({}) \cup (c.start .. c.end - 1)
      BY <2>2, TicksAdd
    <2> QED
      BY <1>12, <2>1, <2>2, <2>3, TicksNone DEF Proper
  <1>16. \A t \in Ticks({c}) : t \in Int /\ m.start <= t /\ t < m.end
    BY <1>7, <1>12, <1>15, SlotTypes
  <1>17. Ticks(Before(m)) \cap Ticks({c}) = {}
    <2> SUFFICES ASSUME NEW t \in Ticks(Before(m)), t \in Ticks({c}) PROVE FALSE
      OBVIOUS
    <2> PICK r \in Before(m) : r.start <= t /\ t < r.end
      BY DEF Ticks
    <2>1. r \in S /\ r # m
      BY <1>2, <1>7
    <2>2. r.end <= m.start \/ m.end <= r.start
      BY <1>7, <2>1 DEF Proper
    <2>3. /\ r.start \in Int /\ r.end \in Int /\ m.start \in Int /\ m.end \in Int
          /\ t \in Int /\ m.start <= t /\ t < m.end
      BY <1>7, <1>16, <2>1, SlotTypes
    <2> HIDE DEF Before
    <2> QED
      BY <2>2, <2>3
  <1>18. Proper(Before(m))
    BY <1>2, <1>7
  <1>19. /\ Proper(P) /\ Ticks(P) = Ticks(Before(m)) \cup Ticks({c})
         /\ Duration(P) = D(m) + Duration({c})
    BY <1>14, <1>15, <1>17, <1>18, DurationUnion
  <1>20. Duration({c}) = Length(c)
    BY <1>12, <1>15, GaplessDuration DEF Length
  <1>21. Duration(P) = n
    <2> HIDE DEF D
    <2> QED
      BY <1>7, <1>9, <1>11, <1>12, <1>19, <1>20 DEF e
  <1>22. Ticks(P) \subseteq Ticks(S)
    <2>1. Ticks(Before(m)) \subseteq Ticks(S)
      BY <1>2, <1>7, ProperPart
    <2>2. Ticks({c}) \subseteq Ticks(S)
      BY <1>7, <1>16 DEF Ticks
    <2> QED
      BY <1>19, <2>1, <2>2
  <1>23. CheapIn(S, P)
    <2> SUFFICES ASSUME NEW t \in Ticks(P), NEW u \in Ticks(S) \ Ticks(P),
                        NEW v \in Int, NEW w \in Int, Costs(S, t, v), Costs(S, u, w)
                 PROVE  v <= w
      BY DEF CheapIn
    <2> PICK r \in S : r.start <= t /\ t < r.end /\ r.value = v
      BY DEF Costs
    <2> PICK s \in S : s.start <= u /\ u < s.end /\ s.value = w
      BY DEF Costs
    <2>1. t \in Int /\ u \in Int
      BY DEF Ticks
    <2>2. r \in T
      <3>1. CASE t \in Ticks(Before(m))
        <4> PICK q \in Before(m) : q.start <= t /\ t < q.end
          BY <3>1 DEF Ticks
        <4>1. q = r
          <5>1. q \in S
            OBVIOUS
          <5>2. q # r => q.end <= r.start \/ r.end <= q.start
            BY <5>1 DEF Proper
          <5> QED
            BY <2>1, <5>1, <5>2, SlotTypes
        <4> QED
          BY <1>8, <4>1
      <3>2. CASE t \in Ticks({c})
        <4>1. m.start <= t /\ t < m.end
          BY <1>16, <3>2
        <4>2. m # r => m.end <= r.start \/ r.end <= m.start
          BY <1>7 DEF Proper
        <4>3. m = r
          BY <1>7, <2>1, <4>1, <4>2, SlotTypes
        <4> QED
          BY <1>8, <4>3
      <3> QED
        BY <1>19, <3>1, <3>2
    <2>3. s \notin Before(m)
      <3> SUFFICES ASSUME s \in Before(m) PROVE FALSE
        OBVIOUS
      <3>1. u \in Ticks(Before(m))
        BY <2>1 DEF Ticks
      <3> QED
        BY <1>19, <3>1
    <2>4. m.value <= s.value
      BY <1>7, <2>3, CheaperOrder
    <2>5. r.value <= m.value
      BY <1>6, <1>7, <2>2, SlotTypes, CheaperOrder
    <2>6. m.value \in Int /\ r.value \in Int /\ s.value \in Int
      BY <1>7, SlotTypes
    <2> QED
      BY <2>4, <2>5, <2>6
  <1> QED
    BY <1>19, <1>21, <1>22, <1>23 DEF P

-----------------------------------------------------------------------------
(* The cheapest window, and a plan from one time to another.               *)

\* An interval of slots without holes.
LEMMA ClampInterval ==
    ASSUME NEW S, Proper(S), NEW a \in Int, NEW b \in Int, a < b, a .. b - 1 \subseteq Ticks(S)
    PROVE  /\ Proper(Clamp(S, a, b)) /\ Ticks(Clamp(S, a, b)) = a .. b - 1
           /\ Duration(Clamp(S, a, b)) = b - a
  <1>1. /\ Proper(Clamp(S, a, b))
        /\ Ticks(Clamp(S, a, b)) = {t \in Ticks(S) : a <= t /\ t < b}
    BY ClampIs
  <1>2. {t \in Ticks(S) : a <= t /\ t < b} = a .. b - 1
    BY DEF Ticks
  <1>3. Ticks(Clamp(S, a, b)) = a .. b - 1
    BY <1>1, <1>2
  <1>4. Duration(Clamp(S, a, b)) = b - a
    BY <1>1, <1>3, GaplessDuration
  <1> QED
    BY <1>1, <1>3, <1>4

LEMMA CostInt ==
    ASSUME NEW S, Proper(S), NEW a \in Int, NEW b \in Int, a < b
    PROVE  WindowCost(S, a, b) \in Int
  <1> DEFINE C == Clamp(S, a, b)
             f == [r \in C |-> r.value * Length(r)]
  <1>1. Proper(C)
    BY ClampIs
  <1>2. \A r \in C : r.value * Length(r) \in Int
    BY <1>1, SlotTypes DEF Length
  <1>3. WindowCost(S, a, b) = SumFunctionOnSet(f, C)
    BY DEF WindowCost, SumFunction
  <1>4. IsFiniteSet(C) /\ \A r \in C : f[r] \in Int
    BY <1>1, <1>2 DEF Proper
  <1> HIDE DEF C, f
  <1> QED
    BY <1>3, <1>4, SumInt

\* findContinuousWindow takes one of the starts that there are.
LEMMA WindowStart ==
    ASSUME NEW S, Proper(S), NEW n \in Nat, 0 < n, NEW target \in Int,
           \E s \in S : s.start + n <= target
    PROVE  \E s \in S : /\ s.start + n <= target
                        /\ FindContinuousWindow(S, n, target) = Clamp(S, s.start, s.start + n)
  <1> DEFINE R == {s \in S : s.start + n <= target}
             starts == {s \in {r.start : r \in S} : s + n <= target}
             Cost(s) == WindowCost(S, s, s + n)
             best == {s \in starts : \A other \in starts : Cost(s) <= Cost(other)}
  <1>1. /\ starts # {}
        /\ FindContinuousWindow(S, n, target) = Clamp(S, Max(best), Max(best) + n)
    BY DEF FindContinuousWindow
  <1>2. /\ IsFiniteSet(R) /\ R # {} /\ starts = {r.start : r \in R}
        /\ \A r \in R : r.start \in Int /\ Cost(r.start) \in Int
    <2>1. R \in SUBSET S /\ IsFiniteSet(S) /\ \A r \in S : r.start \in Int
      BY SlotTypes DEF Proper
    <2>2. \A r \in R : r.start + n \in Int /\ r.start < r.start + n
      BY <2>1
    <2> QED
      BY <1>1, <2>1, <2>2, FS_Subset, CostInt
  <1> HIDE DEF starts, Cost
  <1>3. best # {}
    <2> DEFINE f == [r \in R |-> Cost(r.start)]
    <2>1. \A r \in R : f[r] \in Int
      BY <1>2
    <2> HIDE DEF f, R
    <2>2. PICK r \in R : \A s \in R : f[r] <= f[s]
      BY <1>2, <2>1, LeastOf
    <2>3. r.start \in best
      BY <1>2, <2>2 DEF f
    <2> QED
      BY <2>3
  <1>4. Max(best) \in best
    <2> DEFINE B == {r \in R : r.start \in best}
               f == [r \in B |-> 0 - r.start]
    <2>1. IsFiniteSet(B) /\ B # {} /\ \A r \in B : f[r] \in Int /\ r.start \in Int
      BY <1>2, <1>3, FS_Subset
    <2>2. PICK r \in B : \A s \in B : f[r] <= f[s]
      <3> HIDE DEF B, f
      <3> QED
        BY <2>1, LeastOf
    <2>3. \A s \in B : r.start >= s.start
      <3> TAKE s \in B
      <3>1. 0 - r.start <= 0 - s.start /\ r.start \in Int /\ s.start \in Int
        BY <2>1, <2>2
      <3> QED
        BY <3>1
    <2>4. \A x \in best : \E s \in B : s.start = x
      BY <1>2
    <2>5. r.start \in best /\ \A x \in best : r.start >= x
      BY <2>3, <2>4
    <2> HIDE DEF best
    <2> QED
      BY <2>5 DEF Max
  <1>5. PICK s \in R : s.start = Max(best)
    BY <1>2, <1>4
  <1> QED
    BY <1>1, <1>5

LEMMA WindowIs ==
    ASSUME NEW S, Proper(S), Gapless(S), S # {}, NEW n \in Nat, 0 < n, NEW target \in Int,
           Start(S) + n <= target, target - 1 \in Ticks(S)
    PROVE  /\ Proper(FindContinuousWindow(S, n, target))
           /\ Ticks(FindContinuousWindow(S, n, target)) \subseteq Ticks(S)
           /\ \A t \in Ticks(FindContinuousWindow(S, n, target)) : t < target
           /\ Duration(FindContinuousWindow(S, n, target)) = n
  <1> DEFINE P == FindContinuousWindow(S, n, target)
  <1>1. ASSUME NEW s \in S, s.start + n <= target
        PROVE  /\ s.start \in Int /\ s.start + n \in Int /\ s.start < s.start + n
               /\ s.start .. (s.start + n) - 1 \subseteq Ticks(S)
    <2>1. s.start \in Int /\ s.start \in Ticks(S)
      BY SlotTypes DEF Ticks
    <2>2. s.start .. target - 1 \subseteq Ticks(S)
      BY <2>1 DEF Gapless
    <2>3. s.start .. (s.start + n) - 1 \subseteq s.start .. target - 1
      BY <1>1, <2>1
    <2> QED
      BY <2>1, <2>2, <2>3
  <1>2. \E s \in S : s.start + n <= target
    BY StartIs
  <1>3. \A s \in S : s.start + n <= target =>
            /\ Proper(Clamp(S, s.start, s.start + n))
            /\ Ticks(Clamp(S, s.start, s.start + n)) = s.start .. (s.start + n) - 1
            /\ Duration(Clamp(S, s.start, s.start + n)) = n
    <2> SUFFICES ASSUME NEW s \in S, s.start + n <= target
                 PROVE  /\ Proper(Clamp(S, s.start, s.start + n))
                        /\ Ticks(Clamp(S, s.start, s.start + n)) = s.start .. (s.start + n) - 1
                        /\ Duration(Clamp(S, s.start, s.start + n)) = n
      OBVIOUS
    <2> DEFINE a == s.start
               b == s.start + n
    <2>1. a \in Int /\ b \in Int /\ a < b /\ a .. b - 1 \subseteq Ticks(S) /\ b - a = n
      BY <1>1
    <2> HIDE DEF a, b
    <2>2. /\ Proper(Clamp(S, a, b)) /\ Ticks(Clamp(S, a, b)) = a .. b - 1
          /\ Duration(Clamp(S, a, b)) = n
      BY <2>1, ClampInterval
    <2> QED
      BY <2>2 DEF a, b
  <1>4. PICK s \in S : s.start + n <= target /\ P = Clamp(S, s.start, s.start + n)
    BY <1>2, WindowStart
  <1>5. /\ Proper(P) /\ Ticks(P) = s.start .. (s.start + n) - 1 /\ Duration(P) = n
    BY <1>3, <1>4
  <1>6. \A t \in s.start .. (s.start + n) - 1 : t < target
    BY <1>1, <1>4
  <1> QED
    BY <1>1, <1>4, <1>5, <1>6

\* From start to end, whatever prices there are.
LEMMA ContinuousIs ==
    ASSUME NEW S, Proper(S), Gapless(S), NEW a \in Int, NEW b \in Int, a < b
    PROVE  /\ Proper(ContinuousPlan(S, a, b)) /\ Ticks(ContinuousPlan(S, a, b)) = a .. b - 1
           /\ Duration(ContinuousPlan(S, a, b)) = b - a
  <1> DEFINE C == Clamp(S, a, b)
             P == ContinuousPlan(S, a, b)
  <1>1. Proper(C) /\ Ticks(C) = {t \in Ticks(S) : a <= t /\ t < b}
    BY ClampIs
  <1>2. ASSUME NEW x \in Int, NEW y \in Int, x < y
        PROVE  Proper({Slot(x, y, 0)}) /\ Ticks({Slot(x, y, 0)}) = x .. y - 1
    <2>1. Slot(x, y, 0) \in Slots /\ Slot(x, y, 0).start = x /\ Slot(x, y, 0).end = y
      BY SlotIs
    <2>2. Ticks({} \cup {Slot(x, y, 0)}) = Ticks({}) \cup (x .. y - 1)
      BY <2>1, TicksAdd
    <2> QED
      BY <1>2, <2>1, <2>2, TicksNone, FS_Singleton DEF Proper
  <1>3. Proper(P) /\ Ticks(P) = a .. b - 1
    <2>1. CASE C = {}
      BY <1>2, <2>1 DEF ContinuousPlan
    <2>2. CASE C # {}
      <3> DEFINE from == Start(C)
                 to == End(C)
                 head == IF from > a THEN {Slot(a, from, 0)} ELSE {}
                 tail == IF to < b THEN {Slot(to, b, 0)} ELSE {}
      <3>1. P = (C \cup head) \cup tail
        BY <2>2 DEF ContinuousPlan
      <3>2. /\ from \in Int /\ to \in Int /\ from \in Ticks(C) /\ to - 1 \in Ticks(C)
            /\ \A t \in Ticks(C) : t \in Int /\ from <= t /\ t < to
        BY <1>1, <2>2, StartIs, EndIs DEF Ticks
      <3>3. a <= from /\ from < to /\ to <= b
        BY <1>1, <3>2
      <3>4. Ticks(C) = from .. to - 1
        <4>1. from .. to - 1 \subseteq Ticks(S)
          BY <1>1, <3>2 DEF Gapless
        <4>2. \A t \in from .. to - 1 : a <= t /\ t < b
          BY <3>2, <3>3
        <4>3. \A t \in Ticks(C) : t \in from .. to - 1
          BY <3>2
        <4> QED
          BY <1>1, <4>1, <4>2, <4>3
      <3> HIDE DEF C, from, to, P
      <3>5. Proper(head) /\ Ticks(head) = a .. from - 1
        <4>1. CASE from > a
          BY <1>2, <3>2, <4>1
        <4>2. CASE ~(from > a)
          <5>1. head = {} /\ a .. from - 1 = {} /\ Proper({})
            BY <1>1, <3>2, <4>2, ProperPart
          <5> QED
            BY <5>1, TicksNone
        <4> QED
          BY <4>1, <4>2
      <3>6. Proper(tail) /\ Ticks(tail) = to .. b - 1
        <4>1. CASE to < b
          BY <1>2, <3>2, <4>1
        <4>2. CASE ~(to < b)
          <5>1. tail = {} /\ to .. b - 1 = {} /\ Proper({})
            BY <1>1, <3>2, <4>2, ProperPart
          <5> QED
            BY <5>1, TicksNone
        <4> QED
          BY <4>1, <4>2
      <3> HIDE DEF head, tail
      <3>7. Ticks(C) \cap Ticks(head) = {}
        BY <3>2, <3>4, <3>5
      <3>8. Proper(C \cup head) /\ Ticks(C \cup head) = a .. to - 1
        <4>1. Proper(C \cup head) /\ Ticks(C \cup head) = Ticks(C) \cup Ticks(head)
          BY <1>1, <3>5, <3>7, DurationUnion
        <4>2. (from .. to - 1) \cup (a .. from - 1) = a .. to - 1
          BY <3>2, <3>3
        <4> QED
          BY <3>4, <3>5, <4>1, <4>2
      <3>9. Ticks(C \cup head) \cap Ticks(tail) = {}
        BY <3>2, <3>6, <3>8
      <3>10. (a .. to - 1) \cup (to .. b - 1) = a .. b - 1
        BY <3>2, <3>3
      <3> DEFINE H == C \cup head
      <3>11. Proper(H) /\ Proper(tail) /\ Ticks(H) \cap Ticks(tail) = {}
        BY <3>6, <3>8, <3>9
      <3>12. Proper(H \cup tail) /\ Ticks(H \cup tail) = Ticks(H) \cup Ticks(tail)
        <4> HIDE DEF H
        <4> QED
          BY <3>11, DurationUnion
      <3> QED
        BY <3>1, <3>6, <3>8, <3>10, <3>12
    <2> QED
      BY <2>1, <2>2
  <1> HIDE DEF P
  <1>4. Duration(P) = b - a
    BY <1>3, GaplessDuration
  <1> QED
    BY <1>3, <1>4 DEF P

-----------------------------------------------------------------------------
(* The plan.                                                               *)

LEMMA Ends ==
    \A a, b \in Int : /\ Earlier(a, b) \in Int /\ Earlier(a, b) <= a /\ Earlier(a, b) <= b
                      /\ Later(a, b) \in Int /\ a <= Later(a, b) /\ b <= Later(a, b)
                      /\ Earlier(a, b) \in {a, b} /\ Later(a, b) \in {a, b}
  BY DEF Earlier, Later

\* What lasts n ticks and is over before e has begun n ticks before.
LEMMA BeginsBefore ==
    ASSUME NEW S, Proper(S), S # {}, NEW e \in Int, \A t \in Ticks(S) : t < e
    PROVE  Duration(S) <= e - Start(S) /\ Start(S) < e
  <1>1. Start(S) \in Int /\ Start(S) < e /\ Ticks(S) \subseteq Start(S) .. e - 1
    BY StartIs DEF Ticks
  <1> DEFINE a == Start(S)
             c == e - 1
  <1>2. a \in Int /\ c \in Int /\ ~(a > c) /\ c - a + 1 = e - a
    BY <1>1
  <1> HIDE DEF a, c
  <1>3. IsFiniteSet(a .. c) /\ Cardinality(a .. c) = e - a
    BY <1>2, FS_Interval
  <1>4. Ticks(S) \in SUBSET (a .. c)
    BY <1>1 DEF a, c
  <1>5. Cardinality(Ticks(S)) <= Cardinality(a .. c)
    BY <1>3, <1>4, FS_Subset
  <1> QED
    BY <1>1, <1>3, <1>5, DurationTicks DEF a

\* PlanCovered, before the time that is kept for preconditioning.
LEMMA BeforeIs ==
    ASSUME NEW C, Proper(C), C # {}, NEW e \in Int, \A t \in Ticks(C) : t < e,
           NEW n \in Nat, n <= Duration(C), NEW last \in Nat, last < n,
           NEW before, before = IF last > 0 THEN Clamp(C, Start(C), e - last) ELSE C
    PROVE  /\ Proper(before)
           /\ Ticks(before) = {t \in Ticks(C) : t < e - last}
           /\ \A t \in Ticks(before) : \A v : Costs(before, t, v) <=> Costs(C, t, v)
           /\ Start(C) \in Int /\ Start(C) + n <= e /\ Start(C) < e - last
  <1>1. Duration(C) <= e - Start(C) /\ Start(C) \in Int /\ Duration(C) \in Nat
    BY BeginsBefore, StartIs, DurationTicks
  <1>2. Start(C) + n <= e /\ Start(C) < e - last
    BY <1>1
  <1>3. \A t \in Ticks(C) : Start(C) <= t /\ t \in Int
    BY StartIs DEF Ticks
  <1>4. CASE last > 0
    <2> DEFINE b == e - last
    <2>1. b \in Int /\ Start(C) < b
      BY <1>2
    <2> HIDE DEF b
    <2>2. before = Clamp(C, Start(C), b)
      BY <1>4 DEF b
    <2>3. /\ Proper(before) /\ Ticks(before) = {t \in Ticks(C) : Start(C) <= t /\ t < b}
          /\ \A t \in Start(C) .. b - 1 : \A v : Costs(before, t, v) <=> Costs(C, t, v)
      BY <1>1, <2>1, <2>2, ClampIs
    <2>4. Ticks(before) = {t \in Ticks(C) : t < b}
      BY <1>3, <2>3
    <2>5. \A t \in Ticks(before) : t \in Start(C) .. b - 1
      BY <1>1, <1>3, <2>1, <2>3
    <2> QED
      BY <1>1, <1>2, <2>3, <2>4, <2>5 DEF b
  <1>5. CASE last = 0
    <2>1. before = C /\ e - last = e
      BY <1>5
    <2> QED
      BY <1>1, <1>2, <2>1
  <1> QED
    BY <1>4, <1>5

LEMMA CoveredIs ==
    ASSUME NEW C, Proper(C), Gapless(C), C # {}, NEW e \in Int,
           e - 1 \in Ticks(C), \A t \in Ticks(C) : t < e,
           NEW n \in Nat, 0 < n, n <= Duration(C), NEW p \in Nat, NEW continuous \in BOOLEAN
    PROVE  LET P == PlanCovered(C, n, p, e, continuous)
               until == e - Earlier(p, n)
           IN  /\ Proper(P) /\ Ticks(P) \subseteq Ticks(C) /\ Duration(P) = n
               /\ ~continuous =>
                     \A t \in Ticks(P), u \in Ticks(C) \ Ticks(P) : \A v, w \in Int :
                         t < until /\ Costs(C, t, v) /\ Costs(C, u, w) => v <= w
  <1> DEFINE P == PlanCovered(C, n, p, e, continuous)
             last == Earlier(p, n)
             until == e - last
             precond == IF last > 0 THEN Clamp(C, until, e) ELSE {}
             before == IF last > 0 THEN Clamp(C, Start(C), until) ELSE C
             rest == n - last
             main == IF rest = 0 THEN {}
                     ELSE IF continuous THEN FindContinuousWindow(before, rest, until)
                     ELSE OptimalPlan(before, rest)
  <1>1. P = precond \cup main
    BY DEF PlanCovered
  <1>2. last \in Nat /\ last <= n /\ last <= p /\ until \in Int /\ rest \in Nat
        /\ until = e - last /\ rest = n - last
    BY DEF Earlier
  <1> HIDE DEF last
  <1>3. Start(C) \in Int /\ Start(C) + n <= e /\ Start(C) \in Ticks(C)
    BY BeginsBefore, StartIs, DurationTicks
  <1>4. Start(C) .. e - 1 \subseteq Ticks(C)
    BY <1>3 DEF Gapless
  <1>5. Proper(precond) /\ Ticks(precond) = until .. e - 1 /\ Duration(precond) = last
        /\ Ticks(precond) \subseteq Ticks(C)
    <2>1. CASE last > 0
      <3>1. until < e /\ until .. e - 1 \subseteq Ticks(C) /\ e - until = last
        BY <1>2, <1>3, <1>4, <2>1
      <3> QED
        BY <1>2, <2>1, <3>1, ClampInterval
    <2>2. CASE last = 0
      <3>1. precond = {} /\ until .. e - 1 = {} /\ Proper({})
        BY <1>2, <2>2, ProperPart
      <3>2. Duration({}) = 0
        BY <3>1, DurationTicks, TicksNone, FS_EmptySet
      <3> QED
        BY <2>2, <3>1, <3>2, TicksNone
    <2> QED
      BY <1>2, <2>1, <2>2
  <1> HIDE DEF precond
  <1>6. CASE rest = 0
    <2>1. P = precond /\ last = n
      BY <1>1, <1>2, <1>6
    <2>2. \A t \in Ticks(P) : ~(t < until)
      BY <1>2, <1>5, <2>1
    <2> HIDE DEF P, until
    <2> QED
      BY <1>5, <2>1, <2>2 DEF P, until, last
  <1>7. CASE rest # 0
    <2>1. last < n /\ 0 < rest
      BY <1>2, <1>7
    <2>2. /\ Proper(before) /\ Ticks(before) = {t \in Ticks(C) : t < until}
          /\ \A t \in Ticks(before) : \A v : Costs(before, t, v) <=> Costs(C, t, v)
          /\ Start(C) < until
      <3> HIDE DEF before
      <3> QED
        BY <1>2, <2>1, BeforeIs DEF before
    <2> HIDE DEF before
    <2>3. Ticks(before) = Start(C) .. until - 1
      <3>1. \A t \in Ticks(C) : t \in Int /\ Start(C) <= t
        BY StartIs DEF Ticks
      <3>2. \A t \in Start(C) .. until - 1 : t \in Ticks(C) /\ t < until
        BY <1>2, <1>3, <1>4
      <3>3. \A t \in Ticks(before) : t \in Start(C) .. until - 1
        BY <1>2, <1>3, <2>2, <3>1
      <3> HIDE DEF until
      <3> QED
        BY <2>2, <3>2, <3>3
    <2>4. Duration(before) = until - Start(C)
      <3>1. Start(C) <= until
        BY <1>2, <1>3, <2>2
      <3> HIDE DEF until, main, rest
      <3> QED
        BY <1>2, <1>3, <2>2, <2>3, <3>1, GaplessDuration
    <2>5. rest <= Duration(before)
      BY <1>2, <1>3, <2>4
    <2>6. Proper(main) /\ Ticks(main) \subseteq Ticks(before) /\ Duration(main) = rest
      <3>1. CASE continuous
        <4>1. main = FindContinuousWindow(before, rest, until)
          BY <1>7, <3>1
        <4>2. before # {} /\ Gapless(before)
          <5>1. Start(C) \in Ticks(before)
            BY <1>2, <1>3, <2>2, <2>3
          <5>2. \A t, u \in Ticks(before) : t .. u \subseteq Ticks(before)
            BY <1>2, <1>3, <2>3
          <5> QED
            BY <5>1, <5>2, TicksNone DEF Gapless
        <4>3. Start(before) = Start(C)
          <5>1. /\ Start(before) \in Int /\ Start(before) \in Ticks(before)
                /\ \A t \in Ticks(before) : Start(before) <= t
            BY <2>2, <4>2, StartIs
          <5>2. Start(C) \in Ticks(before)
            BY <1>2, <1>3, <2>2, <2>3
          <5>3. Start(before) \in Start(C) .. until - 1 /\ Start(before) <= Start(C)
            BY <2>3, <5>1, <5>2
          <5> HIDE DEF until
          <5> QED
            BY <1>2, <1>3, <5>1, <5>3
        <4>4. Start(before) + rest <= until /\ until - 1 \in Ticks(before)
          BY <1>2, <1>3, <2>2, <2>3, <4>3
        <4> HIDE DEF until, rest, main
        <4> QED
          BY <1>2, <2>1, <2>2, <4>1, <4>2, <4>4, WindowIs
      <3>2. CASE ~continuous
        <4>1. main = OptimalPlan(before, rest)
          BY <1>7, <3>2
        <4> HIDE DEF until, rest, main
        <4> QED
          BY <1>2, <2>1, <2>2, <2>5, <4>1, OptimalIs
      <3> QED
        BY <3>1, <3>2
    <2>7. Ticks(precond) \cap Ticks(main) = {}
      BY <1>2, <1>3, <1>5, <2>3, <2>6
    <2>8. ~continuous => CheapIn(before, main)
      <3> HIDE DEF until, rest
      <3> QED
        BY <1>2, <1>7, <2>1, <2>2, <2>5, OptimalIs
    <2> HIDE DEF main
    <2>9. /\ Proper(P) /\ Ticks(P) = Ticks(precond) \cup Ticks(main)
          /\ Duration(P) = last + rest
      <3> HIDE DEF P, until, rest
      <3>1. /\ Proper(precond \cup main)
            /\ Ticks(precond \cup main) = Ticks(precond) \cup Ticks(main)
            /\ Duration(precond \cup main) = Duration(precond) + Duration(main)
        BY <1>5, <2>6, <2>7, DurationUnion
      <3>2. Duration(precond) = last /\ Duration(main) = rest
        BY <1>5, <2>6
      <3> QED
        BY <1>1, <3>1, <3>2
    <2>10. Duration(P) = n
      <3> HIDE DEF rest
      <3> QED
        BY <1>2, <2>9
    <2>11. Ticks(P) \subseteq Ticks(C)
      BY <1>5, <2>2, <2>6, <2>9
    <2>12. ASSUME ~continuous, NEW t \in Ticks(P), NEW u \in Ticks(C) \ Ticks(P),
                  NEW v \in Int, NEW w \in Int, t < until, Costs(C, t, v), Costs(C, u, w)
           PROVE  v <= w
      <3> HIDE DEF P
      <3>1. t \in Ticks(main)
        <4>1. t \notin Ticks(precond)
          BY <1>2, <1>5, <2>12
        <4> QED
          BY <2>9, <4>1
      <3>2. u \in Ticks(before) \ Ticks(main)
        <4>1. u \notin until .. e - 1 /\ u \notin Ticks(main) /\ u \in Int /\ u < e
          BY <1>5, <2>9, <2>12 DEF Ticks
        <4>2. u < until
          BY <1>2, <4>1
        <4> HIDE DEF until
        <4> QED
          BY <2>2, <4>1, <4>2
      <3>3. Costs(before, t, v) /\ Costs(before, u, w)
        BY <2>2, <2>6, <2>12, <3>1, <3>2
      <3> QED
        BY <2>8, <2>12, <3>1, <3>2, <3>3 DEF CheapIn
    <2> HIDE DEF P
    <2> QED
      BY <2>9, <2>10, <2>11, <2>12 DEF P, until, last
  <1> QED
    BY <1>6, <1>7

\* A single slot.
LEMMA SlotPlan ==
    ASSUME NEW a \in Int, NEW b \in Int, a < b
    PROVE  /\ Proper({Slot(a, b, 0)}) /\ Ticks({Slot(a, b, 0)}) = a .. b - 1
           /\ Duration({Slot(a, b, 0)}) = b - a
  <1> DEFINE s == Slot(a, b, 0)
  <1>1. s \in Slots /\ s.start = a /\ s.end = b
    BY SlotIs
  <1> HIDE DEF s
  <1>2. Ticks({} \cup {s}) = Ticks({}) \cup (a .. b - 1)
    BY <1>1, TicksAdd
  <1>3. Proper({s}) /\ Ticks({s}) = a .. b - 1
    BY <1>1, <1>2, TicksNone, FS_Singleton DEF Proper
  <1>4. Duration({s}) = b - a
    BY <1>3, GaplessDuration
  <1> QED
    BY <1>3, <1>4 DEF s

\* There is no time to choose any more.
LEMMA LatePlan ==
    ASSUME NEW rs, Proper(rs), Gapless(rs), NEW from \in Int, NEW n \in Nat, 0 < n,
           NEW target \in Int, target - n <= from, NEW p, NEW continuous
    PROVE  LET P == Plan(rs, from, n, p, target, continuous)
           IN  Proper(P) /\ Ticks(P) = from .. (from + n) - 1 /\ Duration(P) = n
  <1> DEFINE P == Plan(rs, from, n, p, target, continuous)
             to == from + n
  <1>1. from < to /\ to \in Int /\ to - from = n
    OBVIOUS
  <1>2. Later(target - n, from) = from
    BY DEF Later
  <1>3. P = IF rs = {} THEN {Slot(from, to, 0)} ELSE ContinuousPlan(rs, from, to)
    <2>1. ~(n <= 0) /\ target - n <= from
      OBVIOUS
    <2>2. CASE rs = {}
      BY <1>2, <2>1, <2>2 DEF Plan
    <2>3. CASE rs # {}
      BY <2>1, <2>3 DEF Plan
    <2> QED
      BY <2>2, <2>3
  <1> HIDE DEF to, P
  <1>4. Proper(P) /\ Ticks(P) = from .. to - 1 /\ Duration(P) = n
    <2>1. CASE rs = {}
      BY <1>1, <1>3, <2>1, SlotPlan
    <2>2. CASE rs # {}
      BY <1>1, <1>3, <2>2, ContinuousIs
    <2> QED
      BY <2>1, <2>2
  <1> QED
    BY <1>4 DEF P, to

\* The rates from now on, up to what is planned for or to their end.
LEMMA RestIs ==
    ASSUME NEW rs, Proper(rs), Gapless(rs), rs # {}, NEW from \in Int, NEW target \in Int,
           from < target, NEW C, C = Clamp(rs, from, target), C # {},
           NEW e, e = target - Later(0, target - End(rs))
    PROVE  /\ Proper(C) /\ Gapless(C)
           /\ \A t \in Ticks(C) : t \in Int /\ from <= t /\ t < e
           /\ e \in Int /\ e <= target /\ e - 1 \in Ticks(C)
  <1>1. /\ End(rs) \in Int /\ End(rs) - 1 \in Ticks(rs)
        /\ \A t \in Ticks(rs) : t \in Int /\ t < End(rs)
    BY EndIs DEF Ticks
  <1>2. (e = target \/ e = End(rs)) /\ e \in Int /\ e <= target /\ e <= End(rs)
    BY <1>1 DEF Later
  <1>3. Proper(C) /\ Ticks(C) = {t \in Ticks(rs) : from <= t /\ t < target}
    BY ClampIs
  <1>4. PICK z \in Ticks(C) : z \in Ticks(rs) /\ z \in Int /\ from <= z /\ z < target /\ z < End(rs)
    BY <1>1, <1>3, TicksThere
  <1>5. e - 1 \in Ticks(C)
    <2>1. e - 1 \in z .. End(rs) - 1
      BY <1>1, <1>2, <1>4
    <2>2. e - 1 \in Ticks(rs)
      BY <1>1, <1>4, <2>1 DEF Gapless
    <2>3. from <= e - 1 /\ e - 1 < target
      BY <1>1, <1>2, <1>4
    <2> QED
      BY <1>3, <2>2, <2>3
  <1>6. \A t \in Ticks(C) : t \in Int /\ from <= t /\ t < e
    BY <1>1, <1>2, <1>3
  <1>7. Gapless(C)
    <2> SUFFICES ASSUME NEW t \in Ticks(C), NEW u \in Ticks(C), NEW x \in t .. u
                 PROVE  x \in Ticks(C)
      BY DEF Gapless
    <2>1. x \in Ticks(rs)
      BY <1>3 DEF Gapless
    <2>2. from <= x /\ x < target
      BY <1>2, <1>6
    <2> QED
      BY <1>3, <2>1, <2>2
  <1> QED
    BY <1>2, <1>3, <1>5, <1>6, <1>7

\* There is.
LEMMA EarlyPlan ==
    ASSUME NEW rs, Proper(rs), Gapless(rs), NEW from \in Int, NEW n \in Nat, 0 < n,
           NEW target \in Int, from < target - n, NEW p \in Nat, NEW continuous \in BOOLEAN
    PROVE  LET P == Plan(rs, from, n, p, target, continuous)
               beyond == IF rs = {} THEN 0 ELSE Later(0, target - End(rs))
               C == Clamp(rs, from, target)
           IN  /\ Proper(P) /\ Ticks(P) \subseteq from .. target - 1
               /\ P # {} => Duration(P) \in {n, n - beyond}
               /\ rs # {} /\ ~continuous /\ n <= Duration(C) =>
                     \A t \in Ticks(P), u \in Ticks(C) \ Ticks(P) : \A v, w \in Int :
                         t < target - p /\ Costs(rs, t, v) /\ Costs(rs, u, w) => v <= w
  <1> DEFINE P == Plan(rs, from, n, p, target, continuous)
             latest == target - n
             beyond == IF rs = {} THEN 0 ELSE Later(0, target - End(rs))
             C == Clamp(rs, from, target)
             m == n - beyond
             e == target - beyond
             q == Later(p - beyond, 0)
             Cheapest == \A t \in Ticks(P), u \in Ticks(C) \ Ticks(P) : \A v, w \in Int :
                             t < target - p /\ Costs(rs, t, v) /\ Costs(rs, u, w) => v <= w
             Goal == /\ Proper(P) /\ Ticks(P) \subseteq from .. target - 1
                     /\ P # {} => Duration(P) \in {n, m}
                     /\ rs # {} /\ ~continuous /\ n <= Duration(C) => Cheapest
  <1> SUFFICES Goal
    OBVIOUS
  <1>1. latest \in Int /\ from < latest /\ latest < target /\ target - latest = n /\ from < target
    OBVIOUS
  <1>2. CASE rs = {}
    <2>1. Later(latest, from) = latest /\ latest + n = target
      BY <1>1 DEF Later
    <2>2. P = {Slot(latest, target, 0)}
      BY <1>2, <2>1 DEF Plan
    <2>3. \A t \in latest .. target - 1 : t \in from .. target - 1
      BY <1>1
    <2> HIDE DEF latest, P
    <2> QED
      BY <1>1, <1>2, <2>2, <2>3, SlotPlan
  <1>3. CASE rs # {}
    <2>1. /\ End(rs) \in Int /\ End(rs) - 1 \in Ticks(rs)
          /\ \A t \in Ticks(rs) : t \in Int /\ t < End(rs)
      BY <1>3, EndIs DEF Ticks
    <2>2. beyond \in Nat /\ (beyond = 0 \/ beyond = target - End(rs)) /\ target - End(rs) <= beyond
      BY <1>3, <2>1 DEF Later
    <2>3. /\ Proper(C) /\ Ticks(C) = {t \in Ticks(rs) : from <= t /\ t < target}
          /\ \A t \in from .. target - 1 : \A v : Costs(C, t, v) <=> Costs(rs, t, v)
      BY <1>1, ClampIs
    <2> HIDE DEF beyond
    <2>4. CASE beyond >= n
      <3>1. P = {}
        BY <1>1, <1>3, <2>4 DEF Plan, beyond
      <3>2. Proper({})
        BY ProperPart
      <3> HIDE DEF P, C
      <3> QED
        BY <3>1, <3>2, TicksNone
    <2>5. CASE beyond < n /\ ~Covered(C, m)
      <3>1. P = {Slot(latest, target, 0)}
        BY <1>1, <1>3, <2>2, <2>5 DEF Plan, beyond
      <3>2. \A t \in latest .. target - 1 : t \in from .. target - 1
        BY <1>1
      <3>3. ~(n <= Duration(C))
        <4>1. C # {}
          \/ Duration(C) = 0
          <5>1. Duration({}) = 0
            <6>1. Proper({})
              BY ProperPart
            <6> QED
              BY <6>1, DurationTicks, TicksNone, FS_EmptySet
          <5> QED
            BY <5>1
        <4>2. ~(m <= Duration(C)) \/ C = {}
          BY <2>5 DEF Covered
        <4>3. Duration(C) \in Nat
          BY <2>3, DurationTicks
        <4> HIDE DEF C
        <4> QED
          BY <2>2, <4>1, <4>2, <4>3
      <3> HIDE DEF latest, P, C, m
      <3> QED
        BY <1>1, <3>1, <3>2, <3>3, SlotPlan
    <2>6. CASE beyond < n /\ Covered(C, m)
      <3>1. P = PlanCovered(C, m, q, e, continuous)
        BY <1>1, <1>3, <2>2, <2>6 DEF Plan, beyond
      <3>2. C # {} /\ m <= Duration(C)
        BY <2>6 DEF Covered
      <3>3. m \in Nat /\ 0 < m /\ m <= n /\ q \in Nat /\ e \in Int /\ e <= target /\ e <= End(rs)
        BY <2>1, <2>2, <2>6 DEF Later
      <3> HIDE DEF C, P
      <3>4. e = target - Later(0, target - End(rs))
        BY <1>3 DEF beyond
      <3> HIDE DEF e
      <3>5. e - 1 \in Ticks(C) /\ Gapless(C) /\ \A t \in Ticks(C) : t \in Int /\ from <= t /\ t < e
        BY <1>1, <1>3, <2>3, <3>2, <3>4, RestIs DEF C
      <3> HIDE DEF m, e, q
      <3>6. /\ Proper(P) /\ Ticks(P) \subseteq Ticks(C) /\ Duration(P) = m
            /\ ~continuous =>
                  \A t \in Ticks(P), u \in Ticks(C) \ Ticks(P) : \A v, w \in Int :
                      t < e - Earlier(q, m) /\ Costs(C, t, v) /\ Costs(C, u, w) => v <= w
        BY <2>3, <3>1, <3>2, <3>3, <3>5, CoveredIs
      <3>7. Ticks(P) \subseteq from .. target - 1
        BY <3>3, <3>5, <3>6
      <3>8. ASSUME NEW t \in Int, t < e, t < target - p
             PROVE  t < e - Earlier(q, m)
        <4>1. CASE Earlier(q, m) = m
          <5>1. m <= q
            BY <3>3, <4>1 DEF Earlier
          <5>2. m <= p - beyond
            BY <2>2, <3>3, <5>1 DEF q, Later
          <5>3. e - m = target - n /\ n <= p
            BY <2>2, <5>2 DEF e, m
          <5> QED
            BY <3>8, <4>1, <5>3
        <4>2. CASE Earlier(q, m) = q
          <5>1. q = 0 \/ q = p - beyond
            BY DEF q, Later
          <5>2. CASE q = 0
            BY <3>3, <3>8, <4>2, <5>2
          <5>3. CASE q = p - beyond
            <6>1. e - q = target - p
              BY <2>2, <5>3 DEF e
            <6> QED
              BY <3>8, <4>2, <6>1
          <5> QED
            BY <5>1, <5>2, <5>3
        <4> QED
          BY <3>3, <4>1, <4>2, Ends
      <3>9. ~continuous => Cheapest
        <4> SUFFICES ASSUME ~continuous, NEW t \in Ticks(P), NEW u \in Ticks(C) \ Ticks(P),
                            NEW v \in Int, NEW w \in Int,
                            t < target - p, Costs(rs, t, v), Costs(rs, u, w)
                     PROVE  v <= w
          OBVIOUS
        <4>1. t \in from .. target - 1 /\ u \in from .. target - 1
          BY <2>3, <3>5, <3>7
        <4>2. Costs(C, t, v) /\ Costs(C, u, w)
          BY <2>3, <4>1
        <4>3. t < e - Earlier(q, m)
          BY <3>5, <3>6, <3>8
        <4> QED
          BY <3>6, <4>2, <4>3
      <3> HIDE DEF Cheapest
      <3> QED
        BY <3>6, <3>7, <3>9
    <2> HIDE DEF Goal
    <2>7. m \in Int /\ n \in Int /\ beyond \in Int
      BY <2>2
    <2> QED
      BY <2>2, <2>4, <2>5, <2>6
  <1> HIDE DEF Goal
  <1> QED
    BY <1>2, <1>3

-----------------------------------------------------------------------------
(* What is planned, from rates with or without holes.                      *)

\* Slots remain slots.
LEMMA ClampSlots ==
    ASSUME NEW S, Proper(S), NEW a \in Int, NEW b \in Int
    PROVE  Clamp(S, a, b) \subseteq Slots
  <1> SUFFICES ASSUME NEW r \in S
               PROVE  Slot(Later(r.start, a), Earlier(r.end, b), r.value) \in Slots
    BY DEF Clamp
  <1>1. r.start \in Int /\ r.end \in Int /\ r.value \in Int
    BY SlotTypes
  <1>2. Later(r.start, a) \in Int /\ Earlier(r.end, b) \in Int
    BY <1>1, Ends
  <1> QED
    BY <1>1, <1>2, SlotIs

LEMMA OptimalSlots ==
    ASSUME NEW S, Proper(S), NEW n \in Nat
    PROVE  OptimalPlan(S, n) \subseteq Slots
  <1> DEFINE Before(r) == {s \in S : Cheaper(s, r)}
             Excess(r) == Duration(Before(r)) + Length(r) - n
  <1> SUFFICES ASSUME NEW r \in S
               PROVE  Shorten(r, Excess(r), Before(r)) \in Slots
    BY DEF OptimalPlan
  <1>1. r \in Slots /\ r.start \in Int /\ r.end \in Int /\ r.value \in Int
    BY SlotTypes
  <1>2. Duration(Before(r)) \in Nat
    BY ProperPart, DurationTicks
  <1>3. Excess(r) \in Int
    BY <1>1, <1>2 DEF Length
  <1> HIDE DEF Excess, Before
  <1>4. CASE Shorten(r, Excess(r), Before(r)) = r
    BY <1>1, <1>4
  <1>5. CASE Shorten(r, Excess(r), Before(r)) = [r EXCEPT !.start = @ + Excess(r)]
    BY <1>1, <1>3, <1>5 DEF Slots
  <1>6. CASE Shorten(r, Excess(r), Before(r)) = [r EXCEPT !.end = @ - Excess(r)]
    BY <1>1, <1>3, <1>6 DEF Slots
  <1> QED
    BY <1>4, <1>5, <1>6 DEF Shorten

LEMMA WindowSlots ==
    ASSUME NEW S, Proper(S), NEW n \in Nat, 0 < n, NEW target \in Int
    PROVE  FindContinuousWindow(S, n, target) \subseteq Slots
  <1>1. CASE \E s \in S : s.start + n <= target
    <2>1. PICK s \in S : FindContinuousWindow(S, n, target) = Clamp(S, s.start, s.start + n)
      BY <1>1, WindowStart
    <2>2. s.start \in Int /\ s.start + n \in Int
      BY SlotTypes
    <2> QED
      BY <2>1, <2>2, ClampSlots
  <1>2. CASE ~\E s \in S : s.start + n <= target
    <2>1. {s \in {r.start : r \in S} : s + n <= target} = {}
      BY <1>2
    <2>2. FindContinuousWindow(S, n, target) = {}
      BY <2>1 DEF FindContinuousWindow
    <2> QED
      BY <2>2
  <1> QED
    BY <1>1, <1>2

LEMMA CoveredSlots ==
    ASSUME NEW C, Proper(C), C # {}, NEW e \in Int, \A t \in Ticks(C) : t < e,
           NEW n \in Nat, 0 < n, n <= Duration(C), NEW p \in Nat, NEW continuous
    PROVE  PlanCovered(C, n, p, e, continuous) \subseteq Slots
  <1> DEFINE P == PlanCovered(C, n, p, e, continuous)
             last == Earlier(p, n)
             until == e - last
             precond == IF last > 0 THEN Clamp(C, until, e) ELSE {}
             before == IF last > 0 THEN Clamp(C, Start(C), until) ELSE C
             rest == n - last
             main == IF rest = 0 THEN {}
                     ELSE IF continuous THEN FindContinuousWindow(before, rest, until)
                     ELSE OptimalPlan(before, rest)
  <1>1. P = precond \cup main
    BY DEF PlanCovered
  <1>2. last \in Nat /\ last <= n /\ until \in Int /\ rest \in Nat
        /\ until = e - last /\ rest = n - last
    BY DEF Earlier
  <1> HIDE DEF last
  <1>3. precond \subseteq Slots
    BY <1>2, ClampSlots
  <1> HIDE DEF precond
  <1>4. main \subseteq Slots
    <2>1. CASE rest = 0
      BY <2>1
    <2>2. CASE rest # 0
      <3>1. last < n /\ 0 < rest
        BY <1>2, <2>2
      <3>2. Proper(before)
        <4> HIDE DEF before
        <4> QED
          BY <1>2, <3>1, BeforeIs DEF before
      <3> HIDE DEF before, until, rest
      <3>3. FindContinuousWindow(before, rest, until) \subseteq Slots
        BY <1>2, <3>1, <3>2, WindowSlots
      <3>4. OptimalPlan(before, rest) \subseteq Slots
        BY <1>2, <3>2, OptimalSlots
      <3> QED
        BY <2>2, <3>3, <3>4
    <2> QED
      BY <2>1, <2>2
  <1> HIDE DEF main
  <1> QED
    BY <1>1, <1>3, <1>4

LEMMA PlanSlots ==
    ASSUME NEW rs, Proper(rs), NEW from \in Int, NEW n \in Nat, NEW target \in Int,
           NEW p \in Nat, NEW continuous
    PROVE  Plan(rs, from, n, p, target, continuous) \subseteq Slots
  <1> DEFINE P == Plan(rs, from, n, p, target, continuous)
             latest == target - n
             beyond == IF rs = {} THEN 0 ELSE Later(0, target - End(rs))
             C == Clamp(rs, from, target)
             m == n - beyond
             e == target - beyond
             q == Later(p - beyond, 0)
             to == from + n
  <1>1. CASE n = 0
    BY <1>1 DEF Plan
  <1>2. CASE n # 0 /\ rs = {}
    <2>1. Later(latest, from) \in Int /\ Later(latest, from) + n \in Int
      BY Ends
    <2>2. P = {Slot(Later(latest, from), Later(latest, from) + n, 0)}
      BY <1>2 DEF Plan
    <2> HIDE DEF P, latest
    <2>3. P \subseteq Slots
      BY <2>1, <2>2, SlotIs
    <2> QED
      BY <2>3 DEF P
  <1>3. CASE n # 0 /\ rs # {} /\ latest <= from
    <2>1. P = ContinuousPlan(rs, from, to)
      BY <1>3 DEF Plan
    <2>2. from < to /\ to \in Int
      BY <1>3
    <2> HIDE DEF P, to
    <2>3. P \subseteq Slots
      <3> DEFINE F == Clamp(rs, from, to)
      <3>1. Proper(F) /\ F \subseteq Slots
        BY <2>2, ClampIs, ClampSlots
      <3>2. F # {} => Start(F) \in Int /\ End(F) \in Int
        BY <3>1, StartIs, EndIs
      <3>3. ContinuousPlan(rs, from, to) \subseteq
              F \cup (IF F = {} THEN {Slot(from, to, 0)}
                      ELSE {Slot(from, Start(F), 0), Slot(End(F), to, 0)})
        <4> HIDE DEF F
        <4> QED
          BY DEF ContinuousPlan, F
      <3> HIDE DEF F
      <3>4. CASE F = {}
        <4>1. Slot(from, to, 0) \in Slots
          BY <2>2, SlotIs
        <4> QED
          BY <2>1, <3>1, <3>3, <3>4, <4>1
      <3>5. CASE F # {}
        <4>1. Slot(from, Start(F), 0) \in Slots /\ Slot(End(F), to, 0) \in Slots
          BY <2>2, <3>2, <3>5, SlotIs
        <4> QED
          BY <2>1, <3>1, <3>3, <3>5, <4>1
      <3> QED
        BY <3>4, <3>5
    <2> QED
      BY <2>3 DEF P
  <1>4. CASE n # 0 /\ rs # {} /\ ~(latest <= from)
    <2>1. latest \in Int /\ from < target
      BY <1>4
    <2>2. Proper(C) /\ Ticks(C) = {t \in Ticks(rs) : from <= t /\ t < target}
      BY <2>1, ClampIs
    <2>3. /\ End(rs) \in Int /\ \A t \in Ticks(rs) : t \in Int /\ t < End(rs)
      BY <1>4, EndIs DEF Ticks
    <2>4. beyond \in Nat /\ (beyond = 0 \/ beyond = target - End(rs))
      BY <1>4, <2>3 DEF Later
    <2>5. P = IF beyond >= n THEN {}
              ELSE IF ~Covered(C, m) THEN {Slot(latest, target, 0)}
              ELSE PlanCovered(C, m, q, e, continuous)
      BY <1>4 DEF Plan
    <2>6. CASE beyond >= n
      <3>1. P = {}
        BY <2>5, <2>6
      <3> QED
        BY <3>1
    <2>7. CASE ~(beyond >= n) /\ ~Covered(C, m)
      <3>1. P = {Slot(latest, target, 0)}
        BY <2>5, <2>7
      <3> HIDE DEF P, latest
      <3>2. P \subseteq Slots
        BY <2>1, <3>1, SlotIs
      <3> QED
        BY <3>2 DEF P
    <2>8. CASE ~(beyond >= n) /\ Covered(C, m)
      <3>1. P = PlanCovered(C, m, q, e, continuous)
        BY <2>5, <2>8
      <3>2. C # {} /\ m <= Duration(C)
        BY <2>8 DEF Covered
      <3> HIDE DEF C, P
      <3>3. m \in Nat /\ 0 < m /\ e \in Int /\ q \in Nat /\ (e = target \/ e = End(rs))
        <4>1. m \in Nat /\ 0 < m /\ e \in Int
          BY <2>4, <2>8
        <4>2. q \in Nat
          <5>1. p - beyond \in Int
            BY <2>4
          <5> HIDE DEF beyond
          <5> QED
            BY <5>1 DEF Later
        <4>3. e = target \/ e = End(rs)
          BY <2>3, <2>4
        <4> QED
          BY <4>1, <4>2, <4>3
      <3> HIDE DEF m, e, q
      <3>4. \A t \in Ticks(C) : t < e
        BY <2>2, <2>3, <3>3
      <3>5. P \subseteq Slots
        BY <2>2, <3>1, <3>2, <3>3, <3>4, CoveredSlots
      <3> QED
        BY <3>5 DEF P
    <2> QED
      BY <2>6, <2>7, <2>8
  <1> QED
    BY <1>1, <1>2, <1>3, <1>4

-----------------------------------------------------------------------------
(* The plan in effect.                                                     *)

Needed(s, goal) == Later(0, goal - s)

\* Of two plans to start, p is the first.
Sooner(p, q, s) ==
    LET LatestStart(r) == r.time - Needed(s, r.goal)
    IN  \/ LatestStart(p) < LatestStart(q)
        \/ LatestStart(p) = LatestStart(q) /\ p.id <= q.id

\* NextActivePlan, of its state.
Chosen(a, b, s) ==
    LET plans == {p \in {a, b} : p # NoPlan /\ s < p.goal}
        first == {p \in plans : \A other \in plans : Sooner(p, other, s)}
    IN  IF plans = {} THEN NoPlan ELSE CHOOSE p \in first : TRUE

StaticPlan(p) == p = NoPlan \/ (p \in Goals /\ p.id = 1)
RepeatedPlan(p) == p = NoPlan \/ (p \in Goals /\ p.id = 2)

LEMMA NextIsChosen ==
    /\ NextActivePlan = Chosen(static, Repeating, soc)
    /\ NextActivePlan' = Chosen(static', Repeating', soc')
  BY DEF NextActivePlan, Chosen, Sooner, Needed, RequiredDuration

LEMMA NeededIs ==
    ASSUME NEW s \in Nat, NEW goal \in Nat
    PROVE  /\ Needed(s, goal) \in Nat
           /\ s < goal => Needed(s, goal) = goal - s
           /\ s >= goal => Needed(s, goal) = 0
  BY DEF Needed, Later

LEMMA GoalIs ==
    ASSUME NEW p \in Goals
    PROVE  /\ p # NoPlan /\ p.id \in 1 .. 2 /\ p.time \in Nat /\ p.goal \in 1 .. Full
           /\ p.goal \in Nat /\ p.time # NoTime
  BY PlanAssumption DEF Goals, NoPlan

LEMMA LatestStartIs ==
    ASSUME NEW p \in Goals, NEW s \in Nat
    PROVE  /\ p.goal \in Nat /\ p.time \in Int /\ p.id \in Int
           /\ p.time - Needed(s, p.goal) \in Int
  <1>1. p.goal \in Nat /\ p.time \in Nat /\ p.id \in Int
    BY GoalIs
  <1>2. Needed(s, p.goal) \in Nat
    BY <1>1, NeededIs
  <1> QED
    BY <1>1, <1>2

\* The plan in effect is one that has not been reached, and the first of them.
LEMMA ChosenIs ==
    ASSUME NEW a, StaticPlan(a), NEW b, RepeatedPlan(b), NEW s \in Nat,
           NEW c, c = Chosen(a, b, s)
    PROVE  /\ c = NoPlan \/ (c \in {a, b} /\ c \in Goals /\ s < c.goal)
           /\ c = NoPlan => \A p \in {a, b} : p = NoPlan \/ ~(s < p.goal)
           /\ c # NoPlan => \A p \in {a, b} : p # NoPlan /\ s < p.goal => Sooner(c, p, s)
  <1> DEFINE plans == {p \in {a, b} : p # NoPlan /\ s < p.goal}
             first == {p \in plans : \A other \in plans : Sooner(p, other, s)}
  <1>1. c = IF plans = {} THEN NoPlan ELSE CHOOSE p \in first : TRUE
    BY DEF Chosen
  <1>2. \A p \in plans : /\ p \in Goals /\ p.goal \in Nat /\ p.time \in Int /\ p.id \in Int
                         /\ p.time - Needed(s, p.goal) \in Int
    <2>1. \A p \in plans : p \in Goals
      BY DEF StaticPlan, RepeatedPlan
    <2> QED
      BY <2>1, LatestStartIs
  <1>3. ASSUME plans # {}
        PROVE  first # {}
    <2>1. \A p \in plans : Sooner(p, p, s)
      BY <1>2 DEF Sooner
    <2>2. ASSUME NEW p \in plans, NEW q \in plans
          PROVE  Sooner(p, q, s) \/ Sooner(q, p, s)
      <3> HIDE DEF plans
      <3> QED
        BY <1>2 DEF Sooner
    <2>3. PICK p \in plans : TRUE
      BY <1>3
    <2>4. CASE \A q \in plans : Sooner(p, q, s)
      BY <2>3, <2>4
    <2>5. CASE \E q \in plans : ~Sooner(p, q, s)
      <3>1. PICK q \in plans : ~Sooner(p, q, s)
        BY <2>5
      <3>2. p # q /\ Sooner(q, p, s) /\ Sooner(q, q, s)
        BY <2>1, <2>2, <2>3, <3>1
      <3>3. plans = {p, q}
        BY <2>3, <3>1, <3>2
      <3> QED
        BY <3>2, <3>3
    <2> QED
      BY <2>4, <2>5
  <1>4. CASE plans = {}
    BY <1>1, <1>4
  <1>5. CASE plans # {}
    <2>1. c \in first
      <3> HIDE DEF plans, first
      <3> QED
        BY <1>1, <1>3, <1>5
    <2>2. c \in Goals /\ c # NoPlan
      BY <1>2, <2>1, GoalIs
    <2> QED
      BY <2>1, <2>2
  <1> QED
    BY <1>4, <1>5

\* Of two plans only one is the first.
LEMMA ChosenOnly ==
    ASSUME NEW a, StaticPlan(a), NEW b, RepeatedPlan(b), NEW s \in Nat,
           NEW c \in {a, b}, c # NoPlan, s < c.goal,
           \A p \in {a, b} : p # NoPlan /\ s < p.goal => Sooner(c, p, s)
    PROVE  Chosen(a, b, s) = c
  <1> DEFINE d == Chosen(a, b, s)
  <1>1. /\ d = NoPlan \/ (d \in {a, b} /\ d \in Goals /\ s < d.goal)
        /\ d = NoPlan => \A p \in {a, b} : p = NoPlan \/ ~(s < p.goal)
        /\ d # NoPlan => \A p \in {a, b} : p # NoPlan /\ s < p.goal => Sooner(d, p, s)
    <2> HIDE DEF d
    <2> QED
      BY ChosenIs DEF d
  <1> HIDE DEF d
  <1>2. d # NoPlan /\ d \in {a, b} /\ d \in Goals /\ c \in Goals /\ s < d.goal
    BY <1>1 DEF StaticPlan, RepeatedPlan
  <1>3. Sooner(c, d, s) /\ Sooner(d, c, s)
    BY <1>1, <1>2, GoalIs
  <1>4. /\ c.id \in Int /\ d.id \in Int
        /\ c.time - Needed(s, c.goal) \in Int /\ d.time - Needed(s, d.goal) \in Int
    BY <1>2, LatestStartIs
  <1>5. c.id = d.id
    BY <1>3, <1>4 DEF Sooner
  <1>6. c = d
    BY <1>2, <1>5, GoalIs DEF StaticPlan, RepeatedPlan
  <1> QED
    BY <1>6 DEF d

\* It stays the first while the vehicle charges, and when a later occurrence of the
\* repeating plan is the next.
LEMMA ChosenStays ==
    ASSUME NEW a, StaticPlan(a), NEW b, RepeatedPlan(b), NEW s \in Nat, NEW s2 \in {s, s + 1},
           NEW c, c = Chosen(a, b, s), c # NoPlan, s2 < c.goal,
           NEW b2, RepeatedPlan(b2),
           b2 = b \/ (c = a /\ b # NoPlan /\ b2.id = b.id /\ b2.goal = b.goal /\ b.time <= b2.time)
    PROVE  Chosen(a, b2, s2) = c
  <1>1. /\ c \in {a, b} /\ c \in Goals /\ s < c.goal
        /\ \A p \in {a, b} : p # NoPlan /\ s < p.goal => Sooner(c, p, s)
    BY ChosenIs
  <1>2. s2 \in Nat /\ c \in {a, b2} /\ c.goal \in Nat /\ c.time \in Int /\ c.id \in Int
    BY <1>1, GoalIs
  <1>3. Needed(s, c.goal) = c.goal - s /\ Needed(s2, c.goal) = c.goal - s2
    BY <1>1, <1>2, NeededIs
  <1>4. ASSUME NEW p, p \in {a, b2}, p # NoPlan, s2 < p.goal
        PROVE  Sooner(c, p, s2)
    <2>1. p \in Goals
      BY <1>4 DEF StaticPlan, RepeatedPlan
    <2>2. p.goal \in Nat /\ p.time \in Int /\ p.id \in Int /\ s < p.goal
      BY <1>4, <2>1, GoalIs
    <2>3. Needed(s, p.goal) = p.goal - s /\ Needed(s2, p.goal) = p.goal - s2
      BY <1>2, <1>4, <2>2, NeededIs
    <2>4. CASE p \in {a, b}
      <3>1. Sooner(c, p, s)
        BY <1>1, <1>4, <2>2, <2>4
      <3>2. \/ c.time - (c.goal - s) < p.time - (p.goal - s)
            \/ c.time - (c.goal - s) = p.time - (p.goal - s) /\ c.id <= p.id
        BY <1>3, <2>3, <3>1 DEF Sooner
      <3>3. \/ c.time - (c.goal - s2) < p.time - (p.goal - s2)
            \/ c.time - (c.goal - s2) = p.time - (p.goal - s2) /\ c.id <= p.id
        BY <1>2, <2>2, <3>2
      <3> QED
        BY <1>3, <2>3, <3>3 DEF Sooner
    <2>5. CASE p = b2 /\ c = a /\ b # NoPlan /\ b2.id = b.id /\ b2.goal = b.goal /\ b.time <= b2.time
      <3>1. b \in Goals /\ b.time \in Int /\ s < b.goal
        BY <2>2, <2>5, GoalIs DEF RepeatedPlan
      <3>2. Sooner(c, b, s)
        BY <1>1, <2>5, <3>1
      <3>3. \/ c.time - (c.goal - s) < b.time - (p.goal - s)
            \/ c.time - (c.goal - s) = b.time - (p.goal - s) /\ c.id <= p.id
        BY <1>3, <2>3, <2>5, <3>2 DEF Sooner
      <3>4. b.time <= p.time
        BY <2>5
      <3>5. \/ c.time - (c.goal - s2) < p.time - (p.goal - s2)
            \/ c.time - (c.goal - s2) = p.time - (p.goal - s2) /\ c.id <= p.id
        BY <1>2, <2>2, <3>1, <3>3, <3>4
      <3> QED
        BY <1>3, <2>3, <3>5 DEF Sooner
    <2> QED
      BY <1>4, <2>4, <2>5
  <1>5. c # NoPlan /\ s2 < c.goal
    OBVIOUS
  <1> QED
    BY <1>2, <1>4, <1>5, ChosenOnly

-----------------------------------------------------------------------------
(* Type correctness.                                                       *)

Reads == [id : 0 .. 2, time : Nat \cup {NoTime}, goal : 0 .. Full]

Types == TypeOK /\ read \in Reads

LEMMA GoalsAreRead ==
    /\ NoPlan \in Reads /\ Goals \subseteq Reads
    /\ \A p \in Reads : /\ p.id \in 0 .. 2 /\ p.time \in Nat \cup {NoTime} /\ p.goal \in 0 .. Full
                        /\ p.goal \in Nat
  <1>1. Full \in Nat
    BY PlanAssumption
  <1>2. NoPlan \in Reads
    BY <1>1 DEF NoPlan, Reads
  <1>3. Goals \subseteq Reads
    BY <1>1 DEF Goals, Reads
  <1>4. \A p \in Reads : p.id \in 0 .. 2 /\ p.time \in Nat \cup {NoTime} /\ p.goal \in 0 .. Full
    BY DEF Reads
  <1> QED
    BY <1>1, <1>2, <1>3, <1>4

LEMMA InEffect ==
    ASSUME Types
    PROVE  /\ now \in Nat /\ soc \in Nat
           /\ StaticPlan(static) /\ RepeatedPlan(Repeating)
           /\ NextActivePlan \in Goals \cup {NoPlan}
           /\ NextVehiclePlan \in Goals \cup {NoPlan}
           /\ NextVehiclePlan \in Reads /\ NextVehiclePlan.id \in 0 .. 2
           /\ NextVehiclePlan.id = 0 <=> NextVehiclePlan = NoPlan
           /\ NextVehiclePlan.goal \in 0 .. Full
  <1>1. now \in Nat /\ soc \in Nat
    BY PlanAssumption DEF Types, TypeOK
  <1>2. StaticPlan(static)
    BY PlanAssumption DEF Types, TypeOK, StaticPlan
  <1>3. RepeatedPlan(Repeating)
    <2>1. RepeatedPlan(RepeatingPlan)
      BY PlanAssumption DEF RepeatedPlan
    <2>2. CASE RepeatingPlan = NoPlan
      BY <2>2 DEF Repeating, RepeatedPlan
    <2>3. CASE RepeatingPlan # NoPlan
      <3>1. [RepeatingPlan EXCEPT !.time = @ + Day] \in Goals
            /\ [RepeatingPlan EXCEPT !.time = @ + Day].id = 2
        BY <2>1, <2>3, PlanAssumption DEF RepeatedPlan, Goals
      <3> QED
        BY <2>1, <2>3, <3>1 DEF Repeating, RepeatedPlan
    <2> QED
      BY <2>2, <2>3
  <1>4. NextActivePlan \in Goals \cup {NoPlan}
    BY <1>1, <1>2, <1>3, NextIsChosen, ChosenIs
  <1>5. NextVehiclePlan \in Goals \cup {NoPlan}
    BY <1>4 DEF NextVehiclePlan, Types, TypeOK
  <1>6. NoPlan.id = 0 /\ \A p \in Goals : p.id # 0
    BY GoalIs DEF NoPlan
  <1> QED
    BY <1>1, <1>2, <1>3, <1>4, <1>5, <1>6, GoalsAreRead

LEMMA Deciding ==
    ASSUME Types
    PROVE  /\ Proper(rates) /\ now \in Nat /\ soc \in Nat /\ soc \in 0 .. Full
           /\ read.goal \in Nat /\ read.goal \in 0 .. Full
           /\ Required \in Nat
           /\ Required > 0 => Required = read.goal - soc
           /\ Required = 0 => soc >= read.goal
           /\ strategy.precondition \in Nat /\ strategy.continuous \in BOOLEAN
           /\ ~Unplanned => read.time \in Nat
           /\ ~Unplanned => EffectivePlan \subseteq Slots
  <1>1. /\ Proper(rates) /\ now \in Nat /\ soc \in Nat /\ soc \in 0 .. Full
        /\ strategy.precondition \in Nat /\ strategy.continuous \in BOOLEAN
    BY PlanAssumption DEF Types, TypeOK
  <1>2. read.goal \in Nat /\ read.goal \in 0 .. Full /\ read.time \in Nat \cup {NoTime}
    BY GoalsAreRead DEF Types
  <1>3. Required = Needed(soc, read.goal)
    BY DEF Required, RequiredDuration, Needed
  <1>4. /\ Required \in Nat
        /\ soc < read.goal => Required = read.goal - soc
        /\ soc >= read.goal => Required = 0
    BY <1>1, <1>2, <1>3, NeededIs
  <1>5. /\ Required > 0 => Required = read.goal - soc
        /\ Required = 0 => soc >= read.goal
    BY <1>1, <1>2, <1>4
  <1>6. ~Unplanned => read.time \in Nat
    BY <1>2 DEF Unplanned
  <1>7. ~Unplanned => EffectivePlan \subseteq Slots
    BY <1>1, <1>4, <1>6, PlanSlots DEF EffectivePlan
  <1> QED
    BY <1>1, <1>2, <1>4, <1>5, <1>6, <1>7

\* What is locked has a goal, and a time.
LEMMA Locks ==
    ASSUME Types, ~Unplanned, ~Reached, LockPlanGoal
    PROVE  planLocked' # NoPlan => planLocked' \in Goals
  <1>1. CASE planLocked # NoPlan
    BY <1>1 DEF LockPlanGoal, Types, TypeOK
  <1>2. CASE planLocked = NoPlan /\ NextVehiclePlan.id = 0
    BY <1>2 DEF LockPlanGoal
  <1>3. CASE planLocked = NoPlan /\ NextVehiclePlan.id # 0
    <2>1. planLocked' = [read EXCEPT !.id = NextVehiclePlan.id]
      BY <1>3 DEF LockPlanGoal
    <2>2. NextVehiclePlan.id \in 1 .. 2
      BY <1>3, InEffect
    <2>3. read.time \in Nat /\ read.goal \in 1 .. Full
      BY Deciding, PlanAssumption DEF Reached
    <2> QED
      BY <2>1, <2>2, <2>3 DEF Types, Reads, Goals
  <1> QED
    BY <1>1, <1>2, <1>3

\* No plan is active.
LEMMA InactiveTypes ==
    ASSUME Inactive
    PROVE  /\ planLocked' # NoPlan => planLocked' \in Goals
           /\ planActive' \in BOOLEAN
           /\ planSlotEnd' # NoTime => planActive' /\ planSlotEnd' \in Nat
  BY DEF Inactive

LEMMA InitTypes ==
    ASSUME Init
    PROVE  Types
  <1>1. /\ planLocked # NoPlan => planLocked \in Goals
        /\ planActive \in BOOLEAN
        /\ planSlotEnd # NoTime => planActive /\ planSlotEnd \in Nat
    BY DEF Init
  <1>2. now \in 0 .. MaxTime /\ soc \in 0 .. Full /\ pause \in 0 .. SlotDuration
    BY PlanAssumption, SlotAssumption DEF Init
  <1>3. /\ rates \in Tariffs /\ strategy \in Strategies /\ connected \in BOOLEAN
        /\ static \in StaticPlans \cup {NoPlan}
        /\ pc \in {"time", "goal", "decide", "tick"} /\ read \in Reads
    BY GoalsAreRead DEF Init
  <1> QED
    BY <1>1, <1>2, <1>3 DEF Types, TypeOK

LEMMA DecideTypes ==
    ASSUME Types, NEW plan \in {IF Unplanned THEN {} ELSE EffectivePlan}, Decide(plan)
    PROVE  Types'
  <1>1. /\ pc' = "tick" /\ read' = read /\ now' = now /\ soc' = soc /\ rates' = rates
        /\ strategy' = strategy /\ connected' = connected
    BY DEF Decide
  <1>2. pause' \in 0 .. SlotDuration
    <2>1. pause' = 0 \/ pause' = pause
      BY DEF Decide, Pause
    <2> QED
      BY <2>1, SlotAssumption DEF Types, TypeOK
  <1>3. static' \in StaticPlans \cup {NoPlan}
    <2>1. static' = static \/ static' = NoPlan
      BY DEF Decide, FinishPlan
    <2> QED
      BY <2>1 DEF Types, TypeOK
  <1>4. /\ planLocked' # NoPlan => planLocked' \in Goals
        /\ planActive' \in BOOLEAN
        /\ planSlotEnd' # NoTime => planActive' /\ planSlotEnd' \in Nat
    <2>1. CASE Inactive
      BY <2>1, InactiveTypes
    <2>2. CASE UNCHANGED active
      BY <2>2 DEF active, Types, TypeOK
    <2>3. ASSUME ~Unplanned, ~Reached, NEW slot \in SlotAt(now, plan),
                 planActive' = TRUE, LockPlanGoal, planSlotEnd' = slot.end
          PROVE  <1>4!1 /\ <1>4!2 /\ <1>4!3
      <3>1. slot \in Slots /\ now < slot.end
        BY <2>3, Deciding DEF SlotAt
      <3>2. slot.end \in Nat
        BY <3>1, Deciding DEF Slots
      <3> QED
        BY <2>3, <3>2, Locks
    <2>4. \/ Inactive
          \/ UNCHANGED active
          \/ /\ ~Unplanned /\ ~Reached
             /\ \E slot \in SlotAt(now, plan) :
                   planActive' = TRUE /\ LockPlanGoal /\ planSlotEnd' = slot.end
      BY DEF Decide
    <2> QED
      BY <2>1, <2>2, <2>3, <2>4
  <1> QED
    BY <1>1, <1>2, <1>3, <1>4 DEF Types, TypeOK

LEMMA StepTypes ==
    ASSUME Types, [Next]_vars
    PROVE  Types'
  <1>1. SlotDuration \in Nat /\ Full \in Nat /\ MaxTime \in Nat
    BY PlanAssumption, SlotAssumption
  <1>2. CASE ReadPlanTime
    <2>1. read' \in Reads
      BY <1>2, InEffect DEF ReadPlanTime
    <2> QED
      BY <1>2, <2>1 DEF ReadPlanTime, Types, TypeOK, settings, active
  <1>3. CASE ReadPlanGoal
    <2>1. read' \in Reads
      BY <1>3, InEffect DEF ReadPlanGoal, Types, Reads
    <2> QED
      BY <1>3, <2>1 DEF ReadPlanGoal, Types, TypeOK, settings, active
  <1>4. ASSUME NEW plan \in {IF Unplanned THEN {} ELSE EffectivePlan}, Decide(plan)
        PROVE  Types'
    BY <1>4, DecideTypes
  <1>5. ASSUME NEW charged \in 0 .. 1, Tick(charged)
        PROVE  Types'
    <2>1. now' \in 0 .. MaxTime /\ soc' \in 0 .. Full
      BY <1>1, <1>5 DEF Tick, Types, TypeOK
    <2>2. pause' \in 0 .. SlotDuration
      BY <1>1, <1>5 DEF Tick, Types, TypeOK, Earlier
    <2> QED
      BY <1>5, <2>1, <2>2, GoalsAreRead DEF Tick, Types, TypeOK, settings, active
  <1>6. CASE Connect
    BY <1>6 DEF Connect, Types, TypeOK, active
  <1>7. CASE Disconnect
    <2>1. Inactive
      BY <1>7 DEF Disconnect
    <2>2. connected' \in BOOLEAN
      BY <1>7 DEF Disconnect
    <2>3. pause' \in 0 .. SlotDuration
      BY <1>1, <1>7 DEF Disconnect
    <2>4. /\ now' = now /\ soc' = soc /\ rates' = rates /\ strategy' = strategy
          /\ static' = static /\ pc' = pc /\ read' = read
      BY <1>7 DEF Disconnect
    <2> QED
      BY <2>1, <2>2, <2>3, <2>4, InactiveTypes DEF Types, TypeOK
  <1>8. CASE NewRates
    BY <1>1, <1>8 DEF NewRates, Types, TypeOK, active
  <1>9. CASE SetPlanSoc
    <2>1. static' \in StaticPlans \cup {NoPlan}
      BY <1>9 DEF SetPlanSoc
    <2> QED
      BY <1>1, <1>9, <2>1, GoalsAreRead DEF SetPlanSoc, RequestUpdate, Types, TypeOK
  <1>10. CASE SetMode
    <2>1. Inactive
      BY <1>10 DEF SetMode
    <2> QED
      BY <1>1, <1>10, <2>1, InactiveTypes, GoalsAreRead
      DEF SetMode, RequestUpdate, Types, TypeOK, settings
  <1>11. CASE UNCHANGED vars
    BY <1>11 DEF vars, settings, active, Types, TypeOK
  <1> QED
    BY <1>2, <1>3, <1>4, <1>5, <1>6, <1>7, <1>8, <1>9, <1>10, <1>11 DEF Next, Loop

\* The state of the plan keeps its type, whatever the rates: what is locked is a goal
\* with a time, and the end of a slot is only known while the plan is active.
THEOREM PlanTypeCorrect == Spec => []TypeOK
  <1>1. Init => Types
    BY InitTypes
  <1>2. Types /\ [Next]_vars => Types'
    BY StepTypes
  <1>3. Types => TypeOK
    BY DEF Types
  <1> QED
    BY <1>1, <1>2, <1>3, PTL DEF Spec

LEMMA AlwaysTypes == Spec => []Types
  <1>1. Init => Types
    BY InitTypes
  <1>2. Types /\ [Next]_vars => Types'
    BY StepTypes
  <1> QED
    BY <1>1, <1>2, PTL DEF Spec

-----------------------------------------------------------------------------
(* What is planned fits and costs the least.                               *)

\* The hypothesis of what follows: a tariff has no hole.  In a hole of the rates
\* the plan of the code has none either, and is too short.
TariffsGapless == \A slots \in Tariffs : Gapless(slots)

\* The plan that plannerActive makes when there is no time to choose any more.
LEMMA LateEffective ==
    ASSUME TariffsGapless, Types, ~Unplanned, Required > 0, read.time - Required <= now
    PROVE  /\ Proper(EffectivePlan) /\ Ticks(EffectivePlan) = now .. (now + Required) - 1
           /\ Duration(EffectivePlan) = Required
  <1>1. Proper(rates) /\ Gapless(rates) /\ now \in Int /\ Required \in Nat /\ read.time \in Int
    BY Deciding DEF TariffsGapless, Types, TypeOK
  <1> DEFINE n == Required
  <1>2. n \in Nat /\ 0 < n /\ read.time - n <= now
    BY <1>1
  <1>3. EffectivePlan = Plan(rates, now, n, strategy.precondition, read.time, strategy.continuous)
    BY DEF EffectivePlan
  <1> HIDE DEF n
  <1>4. /\ Proper(EffectivePlan) /\ Ticks(EffectivePlan) = now .. (now + n) - 1
        /\ Duration(EffectivePlan) = n
    BY <1>1, <1>2, <1>3, LatePlan
  <1> QED
    BY <1>4 DEF n

\* The one it makes when there is.
LEMMA EarlyEffective ==
    ASSUME TariffsGapless, Types, ~Unplanned, Required > 0, now < read.time - Required
    PROVE  LET plan == EffectivePlan
               beyond == IF rates = {} THEN 0 ELSE Later(0, read.time - End(rates))
               C == Clamp(rates, now, read.time)
           IN  /\ Proper(plan) /\ Ticks(plan) \subseteq now .. read.time - 1
               /\ plan # {} => Duration(plan) \in {Required, Required - beyond}
               /\ rates # {} /\ ~strategy.continuous /\ Required <= Duration(C) =>
                     \A t \in Ticks(plan), u \in Ticks(C) \ Ticks(plan) : \A v, w \in Int :
                         t < read.time - strategy.precondition
                         /\ Costs(rates, t, v) /\ Costs(rates, u, w) => v <= w
  <1> DEFINE n == Required
             rs == rates
             from == now
             target == read.time
             p == strategy.precondition
             continuous == strategy.continuous
  <1>1. /\ Proper(rs) /\ Gapless(rs) /\ from \in Int /\ n \in Nat /\ target \in Int
        /\ p \in Nat /\ continuous \in BOOLEAN /\ 0 < n /\ from < target - n
    BY Deciding DEF TariffsGapless, Types, TypeOK
  <1>2. EffectivePlan = Plan(rs, from, n, p, target, continuous)
    BY DEF EffectivePlan
  <1> SUFFICES
        LET P == Plan(rs, from, n, p, target, continuous)
            beyond == IF rs = {} THEN 0 ELSE Later(0, target - End(rs))
            C == Clamp(rs, from, target)
        IN  /\ Proper(P) /\ Ticks(P) \subseteq from .. target - 1
            /\ P # {} => Duration(P) \in {n, n - beyond}
            /\ rs # {} /\ ~continuous /\ n <= Duration(C) =>
                  \A t \in Ticks(P), u \in Ticks(C) \ Ticks(P) : \A v, w \in Int :
                      t < target - p /\ Costs(rs, t, v) /\ Costs(rs, u, w) => v <= w
    BY <1>2
  <1> HIDE DEF n, rs, from, target, p, continuous
  <1> QED
    BY <1>1, EarlyPlan

\* What is planned is as long as what is needed, without the time that is left after
\* the last rate, and within the time there is.
LEMMA TypesFit ==
    ASSUME TariffsGapless, Types
    PROVE  PlanFits
  <1> SUFFICES ASSUME Planning
               PROVE  LET plan == EffectivePlan
                          target == Later(read.time, now + Required)
                          beyond == IF rates = {} \/ target = now + Required THEN 0
                                    ELSE Later(0, target - End(rates))
                      IN  plan # {} =>
                              /\ now <= Start(plan) /\ End(plan) <= target
                              /\ Duration(plan) \in {Required, Required - beyond}
    BY DEF PlanFits
  <1> DEFINE plan == EffectivePlan
             target == Later(read.time, now + Required)
             beyond == IF rates = {} \/ target = now + Required THEN 0
                       ELSE Later(0, target - End(rates))
  <1>1. ~Unplanned /\ Required > 0 /\ Required \in Nat /\ now \in Nat /\ read.time \in Nat
    BY Deciding DEF Planning
  <1>2. ASSUME Proper(plan), plan # {}, NEW to \in Int, Ticks(plan) \subseteq now .. to - 1
        PROVE  now <= Start(plan) /\ End(plan) <= to
    <2>1. Start(plan) \in Ticks(plan) /\ End(plan) - 1 \in Ticks(plan)
          /\ Start(plan) \in Int /\ End(plan) \in Int
      BY <1>2, StartIs, EndIs
    <2> HIDE DEF plan
    <2> QED
      BY <1>1, <1>2, <2>1
  <1>3. CASE read.time - Required <= now
    <2>1. target = now + Required
      BY <1>1, <1>3 DEF Later
    <2>2. Proper(plan) /\ Ticks(plan) = now .. target - 1 /\ Duration(plan) = Required
      BY <1>1, <1>3, <2>1, LateEffective
    <2>3. target \in Int
      BY <1>1, <2>1
    <2> HIDE DEF plan, target, beyond
    <2>4. plan # {} => now <= Start(plan) /\ End(plan) <= target
      BY <1>2, <2>2, <2>3
    <2> QED
      BY <2>2, <2>4 DEF plan, target, beyond
  <1>4. CASE now < read.time - Required
    <2>1. target = read.time /\ target # now + Required
      BY <1>1, <1>4 DEF Later
    <2>2. /\ Proper(plan) /\ Ticks(plan) \subseteq now .. read.time - 1
          /\ plan # {} => Duration(plan) \in {Required, Required - beyond}
      BY <1>1, <1>4, <2>1, EarlyEffective
    <2> HIDE DEF plan, target, beyond
    <2>3. plan # {} => now <= Start(plan) /\ End(plan) <= target
      BY <1>1, <1>2, <2>1, <2>2
    <2> QED
      BY <2>2, <2>3 DEF plan, target, beyond
  <1> QED
    BY <1>1, <1>3, <1>4

THEOREM PlansFit == ASSUME TariffsGapless PROVE Spec => []PlanFits
  <1>1. Types => PlanFits
    BY TypesFit
  <1> QED
    BY <1>1, AlwaysTypes, PTL

\* One slot tells the price of a time.
LEMMA PriceIs ==
    ASSUME Proper(rates), NEW t \in Ticks(rates)
    PROVE  Price(t) \in Int /\ Costs(rates, t, Price(t))
  <1>1. \A r \in rates : r.start \in Int /\ r.end \in Int /\ r.value \in Int
    BY SlotTypes
  <1>2. \A r \in rates : t \in r.start .. r.end - 1 <=> (r.start <= t /\ t < r.end)
    BY <1>1 DEF Ticks
  <1>3. \E r \in rates : t \in r.start .. r.end - 1
    BY <1>2 DEF Ticks
  <1> DEFINE q == CHOOSE r \in rates : t \in r.start .. r.end - 1
  <1>4. q \in rates /\ t \in q.start .. q.end - 1
    BY <1>3
  <1>5. Price(t) = q.value
    BY DEF Price
  <1> HIDE DEF q
  <1> QED
    BY <1>1, <1>2, <1>4, <1>5 DEF Costs

LEMMA SlotAtTick ==
    ASSUME NEW S, NEW t \in Int
    PROVE  SlotAt(t, S) # {} <=> t \in Ticks(S)
  BY DEF SlotAt, Ticks

\* No time that is used costs more than one that is not.
LEMMA TypesCheapest ==
    ASSUME TariffsGapless, Types
    PROVE  PlanIsCheapest
  <1> DEFINE plan == EffectivePlan
             window == {t \in now .. Earlier(read.time - strategy.precondition, End(rates)) - 1 :
                           SlotAt(t, rates) # {}}
             used == {t \in window : SlotAt(t, plan) # {}}
  <1> SUFFICES ASSUME Planning, rates # {}, ~strategy.continuous,
                      Required <= Duration(Clamp(rates, now, read.time)),
                      NEW t \in used, NEW u \in window \ used
               PROVE  Price(t) <= Price(u)
    BY DEF PlanIsCheapest
  <1>1. /\ ~Unplanned /\ Required > 0 /\ Required \in Nat /\ now \in Nat /\ read.time \in Nat
        /\ strategy.precondition \in Nat /\ Proper(rates)
    BY Deciding DEF Planning
  <1>2. End(rates) \in Int
    BY <1>1, EndIs
  <1>3. \A x \in window : /\ x \in Int /\ now <= x /\ x < read.time - strategy.precondition
                          /\ x \in Ticks(rates) /\ x < read.time
    <2> TAKE x \in window
    <2> DEFINE last == Earlier(read.time - strategy.precondition, End(rates))
    <2>1. last \in Int /\ last <= read.time - strategy.precondition
      <3>1. read.time - strategy.precondition \in Int
        BY <1>1
      <3> QED
        BY <1>2, <3>1, Ends
    <2>2. x \in now .. last - 1 /\ SlotAt(x, rates) # {}
      OBVIOUS
    <2> HIDE DEF last, window
    <2> QED
      BY <1>1, <2>1, <2>2, SlotAtTick
  <1>4. t \in window /\ u \in window /\ SlotAt(t, plan) # {} /\ SlotAt(u, plan) = {}
    OBVIOUS
  <1> HIDE DEF window, used
  <1>5. t \in Ticks(plan) /\ u \notin Ticks(plan)
    BY <1>3, <1>4, SlotAtTick
  <1>6. CASE read.time - Required <= now
    <2>1. Ticks(plan) = now .. (now + Required) - 1
      BY <1>1, <1>6, LateEffective
    <2>2. u \in now .. (now + Required) - 1
      BY <1>1, <1>3, <1>4, <1>6
    <2> QED
      BY <1>5, <2>1, <2>2
  <1>7. CASE now < read.time - Required
    <2> DEFINE C == Clamp(rates, now, read.time)
    <2>1. \A x \in Ticks(plan), y \in Ticks(C) \ Ticks(plan) : \A v, w \in Int :
             x < read.time - strategy.precondition
             /\ Costs(rates, x, v) /\ Costs(rates, y, w) => v <= w
      BY <1>1, <1>7, EarlyEffective
    <2>2. u \in Ticks(C)
      <3>1. now < read.time
        BY <1>1, <1>7
      <3>2. Ticks(C) = {x \in Ticks(rates) : now <= x /\ x < read.time}
        BY <1>1, <3>1, ClampIs
      <3> QED
        BY <1>3, <1>4, <3>2
    <2>3. /\ Price(t) \in Int /\ Costs(rates, t, Price(t))
          /\ Price(u) \in Int /\ Costs(rates, u, Price(u))
      BY <1>1, <1>3, <1>4, PriceIs
    <2> HIDE DEF plan, C
    <2> QED
      BY <1>3, <1>4, <1>5, <2>1, <2>2, <2>3
  <1> QED
    BY <1>1, <1>6, <1>7

THEOREM PlansAreCheapest == ASSUME TariffsGapless PROVE Spec => []PlanIsCheapest
  <1>1. Types => PlanIsCheapest
    BY TypesCheapest
  <1> QED
    BY <1>1, AlwaysTypes, PTL

-----------------------------------------------------------------------------
(* Deadlines and goals are kept.                                           *)

\* What has been decided when the vehicle charges: without a plan that is active
\* there is still time to begin, and one that is active but not locked is not over.
Decided ==
    /\ planActive => soc = Full \/ Required > 0
    /\ planActive /\ planLocked = NoPlan =>
          \/ soc = Full
          \/ NextActivePlan = NoPlan
          \/ read.time # NoTime /\ now < read.time
    /\ ~planActive /\ connected /\ read.time # NoTime =>
          \/ Required = 0
          \/ read.time < now
          \/ now < read.time - Required

Kept ==
    /\ Types
    /\ ~planActive => planLocked = NoPlan
    /\ pc = "tick" => Decided

\* When there is no time to choose any more there is a slot, and no hole after it.
LEMMA LateRuns ==
    ASSUME TariffsGapless, Types, ~Unplanned, Required > 0, read.time - Required <= now
    PROVE  /\ SlotAt(now, EffectivePlan) # {}
           /\ \A slot \in SlotAt(now, EffectivePlan) : ~Deferred(slot, EffectivePlan)
  <1> DEFINE plan == EffectivePlan
             end == now + Required
  <1>1. now \in Nat /\ Required \in Nat /\ end \in Nat /\ now < end
    BY Deciding
  <1>2. Proper(plan) /\ Ticks(plan) = now .. end - 1
    BY LateEffective
  <1> HIDE DEF plan, end
  <1>3. SlotAt(now, plan) # {}
    BY <1>1, <1>2, SlotAtTick
  <1>4. ASSUME NEW slot \in SlotAt(now, plan), SlotHasLaterSuccessor(slot, plan)
        PROVE  FALSE
    <2>1. slot \in plan /\ slot.start <= now /\ now < slot.end
      BY DEF SlotAt
    <2>2. slot.start \in Int /\ slot.end \in Int
      BY <1>2, <2>1, SlotTypes
    <2>3. PICK later \in plan : slot.end < later.start
      BY <1>4 DEF SlotHasLaterSuccessor
    <2>4. later.start \in Int /\ later.end \in Int /\ later.start < later.end
      BY <1>2, SlotTypes
    <2>5. later.start \in Ticks(plan)
      BY <2>4 DEF Ticks
    <2>6. slot.end \in Ticks(plan)
      BY <1>1, <1>2, <2>1, <2>2, <2>3, <2>4, <2>5
    <2>7. PICK next \in plan : next.start <= slot.end /\ slot.end < next.end
      BY <2>6 DEF Ticks
    <2>8. next.start \in Int /\ next.end \in Int /\ next.start # slot.end
      BY <1>2, <1>4, SlotTypes DEF SlotHasLaterSuccessor
    <2>9. next # slot /\ (next.end <= slot.start \/ slot.end <= next.start)
      <3>1. next # slot
        BY <2>2, <2>7
      <3> QED
        BY <1>2, <2>1, <3>1 DEF Proper
    <2> QED
      BY <1>1, <2>1, <2>2, <2>7, <2>8, <2>9
  <1> QED
    BY <1>3, <1>4 DEF plan, Deferred

\* Without a slot, or with one that is deferred, there is time to choose.
LEMMA Waits ==
    ASSUME TariffsGapless, Types, ~Unplanned, Required > 0,
           \/ SlotAt(now, EffectivePlan) = {}
           \/ \E slot \in SlotAt(now, EffectivePlan) : Deferred(slot, EffectivePlan)
    PROVE  /\ read.time # NoTime /\ now < read.time /\ now < read.time - Required
  <1>1. now \in Nat /\ Required \in Nat /\ read.time \in Nat
    BY Deciding
  <1>2. ~(read.time - Required <= now)
    BY LateRuns
  <1>3. now < read.time - Required /\ now < read.time
    BY <1>1, <1>2
  <1> QED
    BY <1>1, <1>3, PlanAssumption

\* No lock remains without an active plan.
LEMMA LocksKept ==
    ASSUME Kept, [Next]_vars
    PROVE  ~planActive' => planLocked' = NoPlan
  <1>1. CASE Inactive
    BY <1>1 DEF Inactive
  <1>2. CASE UNCHANGED active
    BY <1>2 DEF active, Kept
  <1>3. CASE planActive' = TRUE
    BY <1>3
  <1>4. CASE SetPlanSoc
    BY <1>4 DEF SetPlanSoc
  <1>5. \/ Inactive \/ UNCHANGED active \/ planActive' = TRUE \/ SetPlanSoc
    <2>1. ASSUME NEW plan, Decide(plan)
          PROVE  \/ Inactive \/ UNCHANGED active \/ planActive' = TRUE
      BY <2>1 DEF Decide
    <2>2. ASSUME NEW charged, Tick(charged)
          PROVE  UNCHANGED active
      BY <2>2 DEF Tick
    <2>3. ReadPlanTime \/ ReadPlanGoal \/ Connect \/ NewRates => UNCHANGED active
      BY DEF ReadPlanTime, ReadPlanGoal, Connect, NewRates
    <2>4. Disconnect \/ SetMode => Inactive
      BY DEF Disconnect, SetMode
    <2>5. UNCHANGED vars => UNCHANGED active
      BY DEF vars
    <2> QED
      BY <2>1, <2>2, <2>3, <2>4, <2>5 DEF Next, Loop
  <1> QED
    BY <1>1, <1>2, <1>3, <1>4, <1>5

LEMMA DecideKept ==
    ASSUME TariffsGapless, Kept,
           NEW plan \in {IF Unplanned THEN {} ELSE EffectivePlan}, Decide(plan)
    PROVE  Decided'
  <1>1. /\ Types /\ read' = read /\ now' = now /\ soc' = soc /\ connected' = connected
        /\ Required' = Required /\ Required \in Nat /\ read.goal \in Nat /\ soc \in 0 .. Full
        /\ Required = 0 => soc >= read.goal
    BY Deciding DEF Decide, Kept, Required, RequiredDuration
  <1>2. static' = static => NextActivePlan' = NextActivePlan
    BY <1>1 DEF NextActivePlan, Repeating, RequiredDuration
  <1>3. CASE Unplanned /\ Inactive
    BY <1>1, <1>3 DEF Unplanned, Inactive, Decided
  <1>4. CASE Inactive /\ (Expired \/ Reached)
    <2>1. planActive' = FALSE
      BY <1>4 DEF Inactive
    <2>2. read.time < now \/ Required = 0
      BY <1>4 DEF Expired, Reached
    <2> QED
      BY <1>1, <2>1, <2>2 DEF Decided
  <1>5. CASE ReachedFull /\ UNCHANGED active
    <2>1. planActive' = planActive /\ planActive /\ soc >= Full
      BY <1>1, <1>5 DEF ReachedFull, Reached, active
    <2>2. soc' = Full
      BY <1>1, <2>1, PlanAssumption
    <2> QED
      BY <2>1, <2>2 DEF Decided
  <1>6. ASSUME ~Unplanned, ~Reached, UNCHANGED static, plan = EffectivePlan,
               \/ \E slot \in SlotAt(now, plan) : Deferred(slot, plan)
               \/ SlotAt(now, plan) = {}
        PROVE  Decided'
    <2>1. Required > 0
      BY <1>1, <1>6 DEF Reached
    <2>2. read.time # NoTime /\ now < read.time /\ now < read.time - Required
      BY <1>1, <1>6, <2>1, Waits
    <2> QED
      BY <1>1, <2>1, <2>2 DEF Decided
  <1>7. ASSUME ~Reached, UNCHANGED static, planActive' = TRUE, LockPlanGoal
        PROVE  Decided'
    <2>1. Required > 0
      BY <1>1, <1>7 DEF Reached
    <2>2. ASSUME planLocked' = NoPlan
          PROVE  NextActivePlan' = NoPlan
      <3>1. read \in Reads
        BY <1>1 DEF Types
      <3>2. planLocked = NoPlan /\ NextVehiclePlan.id = 0
        <4>1. CASE planLocked # NoPlan
          BY <1>7, <2>2, <4>1 DEF LockPlanGoal
        <4>2. CASE planLocked = NoPlan /\ NextVehiclePlan.id # 0
          <5>1. planLocked' = [read EXCEPT !.id = NextVehiclePlan.id]
            BY <1>7, <4>2 DEF LockPlanGoal
          <5>2. planLocked'.id = NextVehiclePlan.id
            BY <3>1, <5>1 DEF Reads
          <5> QED
            BY <2>2, <4>2, <5>2 DEF NoPlan
        <4> QED
          BY <4>1, <4>2
      <3>3. NextVehiclePlan = NoPlan
        BY <1>1, <3>2, InEffect
      <3> QED
        BY <1>2, <1>7, <3>2, <3>3 DEF NextVehiclePlan
    <2> QED
      BY <1>1, <1>7, <2>1, <2>2 DEF Decided
  <1>8. \/ Unplanned /\ Inactive
        \/ Inactive /\ (Expired \/ Reached)
        \/ ReachedFull /\ UNCHANGED active
        \/ /\ ~Unplanned /\ ~Reached /\ UNCHANGED static
           /\ \/ \E slot \in SlotAt(now, plan) : Deferred(slot, plan)
              \/ SlotAt(now, plan) = {}
              \/ planActive' = TRUE /\ LockPlanGoal
    BY DEF Decide
  <1> QED
    BY <1>3, <1>4, <1>5, <1>6, <1>7, <1>8

LEMMA StepKept ==
    ASSUME TariffsGapless, Kept, [Next]_vars
    PROVE  Kept'
  <1>1. Types' /\ (~planActive' => planLocked' = NoPlan)
    BY StepTypes, LocksKept DEF Kept
  <1>2. ASSUME pc' = "tick"
        PROVE  Decided'
    <2>1. ASSUME NEW plan \in {IF Unplanned THEN {} ELSE EffectivePlan}, Decide(plan)
          PROVE  Decided'
      BY <2>1, DecideKept
    <2>2. ASSUME UNCHANGED <<now, soc, connected, static, active, pc, read>>
          PROVE  Decided'
      <3>1. Decided
        BY <1>2, <2>2 DEF Kept
      <3>2. Required' = Required /\ NextActivePlan' = NextActivePlan
        BY <2>2 DEF Required, RequiredDuration, NextActivePlan, Repeating
      <3>3. /\ planActive' = planActive /\ planLocked' = planLocked /\ soc' = soc
            /\ read' = read /\ now' = now /\ connected' = connected
        BY <2>2 DEF active
      <3> QED
        BY <3>1, <3>2, <3>3 DEF Decided
    <2>3. CASE NewRates
      BY <2>2, <2>3 DEF NewRates
    <2>4. CASE UNCHANGED vars
      BY <2>2, <2>4 DEF vars, settings
    <2>5. ~ReadPlanTime /\ ~ReadPlanGoal /\ ~Connect /\ ~Disconnect /\ ~SetPlanSoc /\ ~SetMode
      BY <1>2 DEF ReadPlanTime, ReadPlanGoal, Connect, Disconnect, SetPlanSoc, SetMode, RequestUpdate
    <2>6. \A charged : ~Tick(charged)
      BY <1>2 DEF Tick
    <2> QED
      BY <2>1, <2>3, <2>4, <2>5, <2>6 DEF Next, Loop
  <1> QED
    BY <1>1, <1>2 DEF Kept

LEMMA AlwaysKept == ASSUME TariffsGapless PROVE Spec => []Kept
  <1>1. Init => Kept
    BY InitTypes DEF Init, Kept
  <1>2. Kept /\ [Next]_vars => Kept'
    BY StepKept
  <1> QED
    BY <1>1, <1>2, PTL DEF Spec

\* A cycle's charging takes a tick.
LEMMA ChargingTicks ==
    ASSUME Types, Next, Charging
    PROVE  \E charged \in 0 .. 1 : Tick(charged)
  <1>1. pc = "tick" /\ now' # now
    <2>1. pc = "tick" /\ now' = now + 1 /\ now \in Nat
      BY InEffect DEF Charging
    <2> QED
      BY <2>1
  <1>2. \A plan : ~Decide(plan)
    BY <1>1 DEF Decide
  <1>3. ~ReadPlanTime /\ ~ReadPlanGoal /\ ~Connect /\ ~Disconnect /\ ~NewRates /\ ~SetPlanSoc /\ ~SetMode
    BY <1>1 DEF ReadPlanTime, ReadPlanGoal, Connect, Disconnect, NewRates, SetPlanSoc, SetMode
  <1> QED
    BY <1>2, <1>3 DEF Next, Loop

\* What could be reached in time can still be.
LEMMA TickInTime ==
    ASSUME Kept, NEW charged \in 0 .. 1, Tick(charged), Charging,
           planActive => soc' = soc + 1, NextVehiclePlan' = NextVehiclePlan, InTime
    PROVE  InTime'
  <1> DEFINE p == NextVehiclePlan
             g == p.goal
             T == p.time
  <1>1. /\ p \in Goals /\ p # NoPlan /\ read.time = T /\ read.goal = g /\ connected /\ pc = "tick"
        /\ now \in Nat /\ soc \in Nat /\ soc \in 0 .. Full
    BY InEffect, Deciding DEF Charging, Kept
  <1>2. g \in Nat /\ T \in Nat /\ read.time # NoTime /\ g <= Full
    BY <1>1, GoalIs
  <1>3. Required = Needed(soc, g) /\ Needed(soc, g) <= T - now
    BY <1>1 DEF Required, InTime, RequiredDuration, Needed
  <1>4. now' = now + 1 /\ soc' = soc + charged /\ (charged = 1 => planActive /\ soc < Full)
    BY DEF Tick
  <1>5. InTime' <=> Needed(soc', g) <= T - now'
    BY DEF InTime, RequiredDuration, Needed
  <1>6. Decided
    BY <1>1 DEF Kept
  <1>7. /\ Needed(soc, g) \in Nat
        /\ soc < g => Needed(soc, g) = g - soc
        /\ soc >= g => Needed(soc, g) = 0
    BY <1>1, <1>2, NeededIs
  <1> HIDE DEF T, g
  <1>8. CASE planActive
    <2>1. charged = 1 /\ soc < Full /\ soc' = soc + 1
      BY <1>1, <1>4, <1>8
    <2>2. Needed(soc, g) > 0 /\ soc < g
      <3>1. Required > 0
        BY <1>1, <1>6, <1>8, <2>1 DEF Decided
      <3> QED
        BY <1>1, <1>2, <1>3, <1>7, <3>1
    <2>3. Needed(soc', g) = IF soc' < g THEN g - soc' ELSE 0
      <3>1. soc + 1 \in Nat
        BY <1>1
      <3>2. /\ soc + 1 < g => Needed(soc + 1, g) = g - (soc + 1)
            /\ soc + 1 >= g => Needed(soc + 1, g) = 0
        BY <1>2, <3>1, NeededIs
      <3>3. soc + 1 < g \/ soc + 1 >= g
        BY <1>1, <1>2
      <3> QED
        BY <1>1, <1>2, <2>1, <3>2, <3>3
    <2>4. soc' <= g
      BY <1>1, <1>2, <2>1, <2>2
    <2> QED
      BY <1>1, <1>2, <1>3, <1>4, <1>5, <1>7, <2>1, <2>2, <2>3, <2>4
  <1>9. CASE ~planActive
    <2>1. soc' = soc
      BY <1>1, <1>4, <1>9
    <2>2. p = NextActivePlan
      BY <1>9 DEF Kept, NextVehiclePlan
    <2>3. soc < g
      <3>1. p = Chosen(static, Repeating, soc) /\ StaticPlan(static) /\ RepeatedPlan(Repeating)
        BY <2>2, NextIsChosen, InEffect DEF Kept
      <3> HIDE DEF p
      <3> QED
        BY <1>1, <3>1, ChosenIs DEF g
    <2>4. ~(Required = 0) /\ ~(read.time < now)
      BY <1>1, <1>2, <1>3, <1>7, <2>3
    <2>5. now < T - Needed(soc, g)
      BY <1>1, <1>2, <1>3, <1>6, <1>9, <2>4 DEF Decided
    <2> QED
      BY <1>1, <1>2, <1>4, <1>5, <1>7, <2>1, <2>5
  <1> QED
    BY <1>8, <1>9

\* Deferring, waiting and pausing never lose a goal: in every cycle without an
\* active plan there is a tick left.
THEOREM DeadlinesAreKept == ASSUME TariffsGapless PROVE Spec => DeadlineKept
  <1>1. ASSUME Kept, [Next]_vars
        PROVE  [Charging /\ (planActive => soc' = soc + 1) /\ NextVehiclePlan' = NextVehiclePlan
                  /\ InTime => InTime']_vars
    <2>1. CASE UNCHANGED vars
      BY <2>1
    <2>2. CASE Next
      <3> SUFFICES ASSUME Charging, planActive => soc' = soc + 1,
                          NextVehiclePlan' = NextVehiclePlan, InTime
                   PROVE  InTime'
        OBVIOUS
      <3>1. PICK charged \in 0 .. 1 : Tick(charged)
        BY <1>1, <2>2, ChargingTicks DEF Kept
      <3> QED
        BY <1>1, <3>1, TickInTime
    <2> QED
      BY <1>1, <2>1, <2>2
  <1> QED
    BY <1>1, AlwaysKept, PTL DEF Spec, DeadlineKept

-----------------------------------------------------------------------------
(* Goals.                                                                  *)

\* The repeating plan's next occurrence, seen at t.
Occurrence(t) ==
    IF RepeatingPlan = NoPlan \/ t <= RepeatingPlan.time THEN RepeatingPlan
    ELSE [RepeatingPlan EXCEPT !.time = @ + Day]

LEMMA OccurrenceIs ==
    ASSUME NEW t \in Nat, NEW b, b = Occurrence(t), NEW b2, b2 = Occurrence(t + 1)
    PROVE  /\ RepeatedPlan(b2)
           /\ b2 = b \/ (/\ b = RepeatingPlan /\ b # NoPlan /\ b.time = t
                         /\ b2.id = b.id /\ b2.goal = b.goal /\ b.time <= b2.time)
  <1>1. CASE RepeatingPlan = NoPlan
    BY <1>1 DEF Occurrence, RepeatedPlan
  <1>2. CASE RepeatingPlan # NoPlan
    <2> DEFINE next == [RepeatingPlan EXCEPT !.time = @ + Day]
    <2>1. RepeatingPlan \in Goals /\ RepeatingPlan.id = 2 /\ RepeatingPlan.time \in Nat /\ Day \in Nat
      BY <1>2, PlanAssumption, GoalIs
    <2>2. /\ next \in Goals /\ next.id = 2 /\ next.goal = RepeatingPlan.goal
          /\ next.time = RepeatingPlan.time + Day
      BY <2>1 DEF Goals
    <2>3. /\ b = IF t <= RepeatingPlan.time THEN RepeatingPlan ELSE next
          /\ b2 = IF t + 1 <= RepeatingPlan.time THEN RepeatingPlan ELSE next
      BY <1>2 DEF Occurrence
    <2> HIDE DEF next
    <2>4. RepeatedPlan(b2)
      BY <2>1, <2>2, <2>3 DEF RepeatedPlan
    <2>5. CASE t + 1 <= RepeatingPlan.time \/ RepeatingPlan.time < t
      BY <2>1, <2>3, <2>4, <2>5
    <2>6. CASE t = RepeatingPlan.time
      <3>1. b = RepeatingPlan /\ b2 = next
        BY <2>1, <2>3, <2>6
      <3>2. b.time <= b2.time
        BY <2>1, <2>2, <3>1
      <3> QED
        BY <1>2, <2>1, <2>2, <2>4, <2>6, <3>1, <3>2
    <2> QED
      BY <2>1, <2>5, <2>6
  <1> QED
    BY <1>1, <1>2

\* The next plan stays the next while the vehicle charges, until its time.
LEMMA NextStays ==
    ASSUME Types, static' = static, now' = now + 1, soc' \in {soc, soc + 1},
           NextActivePlan # NoPlan, now < NextActivePlan.time, soc' < NextActivePlan.goal
    PROVE  NextActivePlan' = NextActivePlan
  <1> DEFINE c == NextActivePlan
             b == Repeating
             b2 == Repeating'
  <1>1. /\ c \in Goals /\ c # NoPlan /\ now \in Nat /\ soc \in Nat
        /\ StaticPlan(static) /\ RepeatedPlan(b)
    BY InEffect
  <1>2. c.goal \in Nat /\ c.time \in Nat
    BY <1>1, GoalIs
  <1>3. b = Occurrence(now) /\ b2 = Occurrence(now + 1)
    BY DEF Repeating, Occurrence
  <1>4. c = Chosen(static, b, soc) /\ NextActivePlan' = Chosen(static, b2, soc')
    BY NextIsChosen
  <1>5. now < c.time /\ soc' < c.goal
    OBVIOUS
  <1> HIDE DEF c, b, b2
  <1>6. c \in {static, b}
    BY <1>1, <1>4, ChosenIs
  <1>7. /\ RepeatedPlan(b2)
        /\ b2 = b \/ (/\ b = RepeatingPlan /\ b # NoPlan /\ b.time = now
                      /\ b2.id = b.id /\ b2.goal = b.goal /\ b.time <= b2.time)
    BY <1>1, <1>3, OccurrenceIs
  <1>8. b2 = b \/ (c = static /\ b # NoPlan /\ b2.id = b.id /\ b2.goal = b.goal /\ b.time <= b2.time)
    <2>1. CASE b2 = b
      BY <2>1
    <2>2. CASE b2 # b
      <3>1. b.time = now
        BY <1>7, <2>2
      <3>2. c # b
        BY <1>1, <1>2, <1>5, <3>1
      <3> QED
        BY <1>6, <1>7, <2>2, <3>2
    <2> QED
      BY <2>1, <2>2
  <1>9. Chosen(static, b2, soc') = c
    BY <1>1, <1>4, <1>5, <1>7, <1>8, ChosenStays
  <1> QED
    BY <1>4, <1>9 DEF c

LEMMA TickSameGoal ==
    ASSUME Kept, NEW charged \in 0 .. 1, Tick(charged), Charging, planActive,
           soc' < NextVehiclePlan.goal
    PROVE  NextVehiclePlan' = NextVehiclePlan
  <1>1. planLocked' = planLocked /\ static' = static /\ now' = now + 1 /\ soc' = soc + charged
    BY DEF Tick, active, settings
  <1>2. CASE planLocked # NoPlan
    BY <1>1, <1>2 DEF NextVehiclePlan
  <1>3. CASE planLocked = NoPlan
    <2> DEFINE c == NextVehiclePlan
    <2>1. c = NextActivePlan /\ NextVehiclePlan' = NextActivePlan'
      BY <1>1, <1>3 DEF NextVehiclePlan
    <2>2. /\ c \in Goals /\ c # NoPlan /\ soc \in Nat /\ soc \in 0 .. Full
          /\ read.time = c.time /\ pc = "tick" /\ Types
      BY InEffect, Deciding DEF Charging, Kept
    <2>3. c.goal \in Nat /\ c.goal <= Full /\ soc' \in {soc, soc + 1}
      BY <1>1, <2>2, GoalIs
    <2>4. now < c.time
      <3>1. soc # Full
        BY <1>1, <2>2, <2>3
      <3>2. Decided
        BY <2>2 DEF Kept
      <3> QED
        BY <1>3, <2>1, <2>2, <3>1, <3>2 DEF Decided
    <2> QED
      BY <1>1, <2>1, <2>2, <2>3, <2>4, NextStays
  <1> QED
    BY <1>2, <1>3

\* A plan that charges is not left for another one before its goal is reached, not
\* when it overruns and not when it could not be locked.
THEOREM GoalsAreKept == ASSUME TariffsGapless PROVE Spec => GoalKept
  <1>1. ASSUME Kept, [Next]_vars
        PROVE  [Charging /\ planActive /\ soc' < NextVehiclePlan.goal
                  => NextVehiclePlan' = NextVehiclePlan]_vars
    <2>1. CASE UNCHANGED vars
      BY <2>1
    <2>2. CASE Next
      <3> SUFFICES ASSUME Charging, planActive, soc' < NextVehiclePlan.goal
                   PROVE  NextVehiclePlan' = NextVehiclePlan
        OBVIOUS
      <3>1. PICK charged \in 0 .. 1 : Tick(charged)
        BY <1>1, <2>2, ChargingTicks DEF Kept
      <3> QED
        BY <1>1, <3>1, TickSameGoal
    <2> QED
      BY <1>1, <2>1, <2>2
  <1> QED
    BY <1>1, AlwaysKept, PTL DEF Spec, GoalKept

-----------------------------------------------------------------------------
(* What is not used of the rates may pass: the plan stays away from it.    *)

LEMMA ExcessIs ==
    ASSUME NEW r \in Slots, NEW n \in Nat, NEW d \in Nat
    PROVE  /\ d + Length(r) - n \in Int /\ Length(r) = r.end - r.start /\ Length(r) \in Int
           /\ d < n => d + Length(r) - n < Length(r)
  BY DEF Length, Slots

\* What remains of the cheapest slots when the time before t has passed: of the
\* slots of A the ones after t, and what is left of the one at t.
LEMMA OptimalLater ==
    ASSUME NEW A, Proper(A), NEW B, Proper(B), NEW n \in Nat, 0 < n, NEW t \in Int,
           \A s \in B : s.start >= t,
           \A s : (s \in A /\ s.start > t) <=> (s \in B /\ s.start > t),
           NEW x \in A, x.start <= t, t < x.end,
           NEW y \in B, y.start = t, y.end = x.end, y.value = x.value,
           \A u \in Ticks(OptimalPlan(A, n)) : u > t
    PROVE  t \notin Ticks(OptimalPlan(B, n))
  <1> DEFINE BeforeA(r) == {s \in A : Cheaper(s, r)}
             BeforeB(r) == {s \in B : Cheaper(s, r)}
             CutA(r) == Shorten(r, Duration(BeforeA(r)) + Length(r) - n, BeforeA(r))
             CutB(r) == Shorten(r, Duration(BeforeB(r)) + Length(r) - n, BeforeB(r))
  <1>1. /\ \A s \in A : /\ s \in Slots /\ s.start \in Int /\ s.end \in Int /\ s.value \in Int
                        /\ s.start < s.end
        /\ \A s \in B : /\ s \in Slots /\ s.start \in Int /\ s.end \in Int /\ s.value \in Int
                        /\ s.start < s.end
    BY SlotTypes
  <1>2. /\ OptimalPlan(A, n) = {CutA(r) : r \in {r \in A : Duration(BeforeA(r)) < n}}
        /\ OptimalPlan(B, n) = {CutB(r) : r \in {r \in B : Duration(BeforeB(r)) < n}}
    BY DEF OptimalPlan
  <1>3. /\ \A r : Proper(BeforeA(r)) /\ BeforeA(r) \subseteq A /\ Duration(BeforeA(r)) \in Nat
        /\ \A r : Proper(BeforeB(r)) /\ BeforeB(r) \subseteq B /\ Duration(BeforeB(r)) \in Nat
    BY ProperPart, DurationTicks
  <1>4. \A s \in B : s = y \/ s.start > t
    <2> TAKE s \in B
    <2>1. s = y \/ s.end <= y.start \/ y.end <= s.start
      BY DEF Proper
    <2> QED
      BY <1>1, <2>1
  <1>5. BeforeB(y) \subseteq BeforeA(x) /\ \A s \in BeforeB(y) : s.start > t
    <2>1. ASSUME NEW s \in B, Cheaper(s, y)
          PROVE  s.start > t /\ s \in A /\ Cheaper(s, x)
      <3>1. s.start > t
        BY <1>1, <1>4, <2>1 DEF Cheaper
      <3>2. Cheaper(s, x)
        BY <1>1, <2>1, <3>1 DEF Cheaper
      <3> QED
        BY <3>1, <3>2
    <2> QED
      BY <2>1
  <1>6. \A s \in BeforeA(x) \ BeforeB(y) : s.start < x.start
    <2> TAKE s \in BeforeA(x) \ BeforeB(y)
    <2>1. s \in A /\ Cheaper(s, x) /\ s # x
      BY <1>1 DEF Cheaper
    <2>2. s.end <= x.start \/ x.end <= s.start
      BY <2>1 DEF Proper
    <2>3. CASE s.end <= x.start
      BY <1>1, <2>1, <2>3
    <2>4. CASE x.end <= s.start
      <3>1. s.start > t
        BY <1>1, <2>1, <2>4
      <3>2. s \in B /\ Cheaper(s, y)
        BY <1>1, <2>1, <3>1 DEF Cheaper
      <3> QED
        BY <3>2
    <2> QED
      BY <2>2, <2>3, <2>4
  <1>7. ASSUME NEW r \in A, Duration(BeforeA(r)) < n
        PROVE  /\ CutA(r).start \in Int /\ CutA(r).end \in Int /\ CutA(r).start < CutA(r).end
               /\ r.start <= CutA(r).start /\ CutA(r).end <= r.end
               /\ CutA(r).start > t
    <2> DEFINE e == Duration(BeforeA(r)) + Length(r) - n
    <2>1. e \in Int /\ e < Length(r)
      <3> HIDE DEF BeforeA
      <3> QED
        BY <1>1, <1>3, <1>7, ExcessIs
    <2> HIDE DEF e
    <2>2. LET s == Shorten(r, e, BeforeA(r))
          IN  /\ s \in Slots /\ s.start < s.end /\ r.start <= s.start /\ s.end <= r.end
      BY <1>1, <2>1, ShortenIs
    <2>3. /\ CutA(r) \in Slots /\ CutA(r).start < CutA(r).end
          /\ r.start <= CutA(r).start /\ CutA(r).end <= r.end
      BY <2>2 DEF e
    <2>4. CutA(r) \in OptimalPlan(A, n)
      BY <1>2, <1>7
    <2> HIDE DEF CutA
    <2>5. CutA(r).start \in Int /\ CutA(r).end \in Int
      BY <2>3 DEF Slots
    <2>6. CutA(r).start \in Ticks(OptimalPlan(A, n))
      BY <2>3, <2>4, <2>5 DEF Ticks
    <2> QED
      BY <2>3, <2>5, <2>6
  <1>8. ASSUME Duration(BeforeB(y)) < n
        PROVE  t \notin CutB(y).start .. CutB(y).end - 1
    <2>1. CASE ~(Duration(BeforeA(x)) < n)
      <3> DEFINE E == BeforeA(x) \ BeforeB(y)
      <3>1. E # {}
        <4>1. CASE E = {}
          <5>1. BeforeA(x) = BeforeB(y)
            BY <1>5, <4>1
          <5> QED
            BY <1>8, <2>1, <5>1
        <4> QED
          BY <4>1
      <3>2. E \in SUBSET A
        BY <1>3
      <3>3. PICK f \in E : \A s \in E : s = f \/ Cheaper(f, s)
        BY <3>1, <3>2, CheapestOf
      <3>4. f \in A /\ Cheaper(f, x) /\ f.start < x.start
        BY <1>6, <3>3
      <3>5. BeforeA(f) \subseteq BeforeB(y)
        <4> SUFFICES ASSUME NEW s \in A, Cheaper(s, f), s \notin BeforeB(y)
                     PROVE  FALSE
          OBVIOUS
        <4>1. Cheaper(s, x)
          BY <3>4, CheaperOrder
        <4>2. s \in E
          BY <4>1
        <4>3. s = f \/ Cheaper(f, s)
          BY <3>3, <4>2
        <4> QED
          BY <3>4, <4>3, CheaperOrder
      <3>6. Duration(BeforeA(f)) < n
        <4>1. Ticks(BeforeA(f)) \subseteq Ticks(BeforeB(y))
          BY <3>5 DEF Ticks
        <4>2. Duration(BeforeA(f)) <= Duration(BeforeB(y))
          <5> HIDE DEF BeforeA, BeforeB
          <5> QED
            BY <1>3, <4>1, DurationLess
        <4> QED
          BY <1>3, <1>8, <4>2
      <3>7. CutA(f).start > t /\ CutA(f).start < CutA(f).end /\ CutA(f).end <= f.end
            /\ CutA(f).start \in Int /\ CutA(f).end \in Int
        BY <1>7, <3>4, <3>6
      <3>8. f.end <= x.start \/ x.end <= f.start
        <4>1. f # x
          BY <1>1, <3>4
        <4> HIDE DEF BeforeA, BeforeB
        <4> QED
          BY <3>4, <4>1 DEF Proper
      <3> HIDE DEF CutA
      <3> QED
        BY <1>1, <3>4, <3>7, <3>8
    <2>2. CASE Duration(BeforeA(x)) < n
      <3> DEFINE eA == Duration(BeforeA(x)) + Length(x) - n
                 eB == Duration(BeforeB(y)) + Length(y) - n
      <3>1. CutA(x).start > t /\ CutA(x).start # x.start
        BY <1>1, <1>7, <2>2
      <3>2. ~(eA <= 0) /\ BeforeA(x) # {} /\ IsFirst(x, BeforeA(x))
        <4>1. CutA(x) = Shorten(x, eA, BeforeA(x))
          OBVIOUS
        <4>2. [x EXCEPT !.end = @ - eA].start = x.start
          BY <1>1 DEF Slots
        <4> HIDE DEF CutA, eA, BeforeA
        <4> QED
          BY <3>1, <4>1, <4>2 DEF Shorten
      <3>3. BeforeA(x) = BeforeB(y)
        <4>1. \A s \in BeforeA(x) : x.start <= s.start /\ s.start \in Int
          BY <1>1, <3>2 DEF IsFirst
        <4>2. \A s \in BeforeA(x) : s \in BeforeB(y)
          BY <1>1, <1>6, <4>1
        <4> QED
          BY <1>5, <4>2
      <3>4. BeforeB(y) # {} /\ IsFirst(y, BeforeB(y))
        <4>1. \A s \in BeforeB(y) : y.start <= s.start
          BY <1>1, <1>5
        <4> QED
          BY <3>2, <3>3, <4>1 DEF IsFirst
      <3>5. eA \in Int /\ eB \in Int /\ eA = eB + (t - x.start) /\ CutA(x).start = x.start + eA
        <4>1. eA \in Int /\ eB \in Int
          <5> HIDE DEF BeforeA, BeforeB
          <5> QED
            BY <1>1, <1>3, ExcessIs
        <4>2. eA = eB + (t - x.start)
          <5> DEFINE d == Duration(BeforeB(y))
          <5>1. d \in Nat /\ eA = d + Length(x) - n /\ eB = d + Length(y) - n
            BY <1>3, <3>3
          <5>2. Length(x) = x.end - x.start /\ Length(y) = x.end - t
            BY <1>1, ExcessIs
          <5> HIDE DEF d, eA, eB
          <5> QED
            BY <1>1, <5>1, <5>2
        <4>3. CutA(x) = [x EXCEPT !.start = @ + eA]
          <5> HIDE DEF eA, BeforeA
          <5> QED
            BY <3>2 DEF Shorten, eA
        <4>4. [x EXCEPT !.start = @ + eA].start = x.start + eA
          BY <1>1 DEF Slots
        <4> HIDE DEF CutA, eA, eB
        <4> QED
          BY <4>1, <4>2, <4>3, <4>4
      <3>6. eB > 0
        <4> HIDE DEF eA, eB, CutA
        <4> QED
          BY <1>1, <3>1, <3>5
      <3>7. CutB(y) = [y EXCEPT !.start = @ + eB]
        <4>1. CutB(y) = Shorten(y, eB, BeforeB(y))
          OBVIOUS
        <4> HIDE DEF CutB, eB, BeforeB
        <4> QED
          BY <3>4, <3>5, <3>6, <4>1 DEF Shorten
      <3>8. [y EXCEPT !.start = @ + eB].start = y.start + eB
        BY <1>1 DEF Slots
      <3> HIDE DEF CutB, eA, eB
      <3> QED
        BY <3>5, <3>6, <3>7, <3>8
    <2> QED
      BY <2>1, <2>2
  <1>9. ASSUME NEW r \in B, r # y, Duration(BeforeB(r)) < n
        PROVE  CutB(r).start > t
    <2> DEFINE e == Duration(BeforeB(r)) + Length(r) - n
    <2>1. e \in Int /\ e < Length(r)
      <3> HIDE DEF BeforeB
      <3> QED
        BY <1>1, <1>3, <1>9, ExcessIs
    <2> HIDE DEF e
    <2>2. LET s == Shorten(r, e, BeforeB(r))
          IN  s \in Slots /\ r.start <= s.start
      BY <1>1, <2>1, ShortenIs
    <2>3. CutB(r) \in Slots /\ r.start <= CutB(r).start
      BY <2>2 DEF e
    <2>4. r.start > t
      BY <1>4, <1>9
    <2> HIDE DEF CutB
    <2>5. CutB(r).start \in Int
      BY <2>3 DEF Slots
    <2> QED
      BY <1>1, <2>3, <2>4, <2>5
  <1> SUFFICES ASSUME NEW c \in OptimalPlan(B, n), c.start <= t, t < c.end
               PROVE  FALSE
    BY DEF Ticks
  <1>10. PICK r \in B : Duration(BeforeB(r)) < n /\ c = CutB(r)
    BY <1>2
  <1>11. CutB(r) \in Slots
    <2> DEFINE e == Duration(BeforeB(r)) + Length(r) - n
    <2>1. e \in Int /\ e < Length(r)
      <3> HIDE DEF BeforeB
      <3> QED
        BY <1>1, <1>3, <1>10, ExcessIs
    <2> HIDE DEF e
    <2>2. LET s == Shorten(r, e, BeforeB(r))
          IN  s \in Slots
      BY <1>1, <2>1, ShortenIs
    <2> QED
      BY <2>2 DEF e
  <1> HIDE DEF CutB
  <1>12. CutB(r).start \in Int /\ CutB(r).end \in Int
    BY <1>11 DEF Slots
  <1>13. CASE r = y
    <2>1. t \in CutB(y).start .. CutB(y).end - 1
      BY <1>10, <1>12, <1>13
    <2> QED
      BY <1>8, <1>10, <1>13, <2>1
  <1>14. CASE r # y
    BY <1>9, <1>10, <1>12, <1>14
  <1> QED
    BY <1>13, <1>14

LEMMA OptimalWithin ==
    ASSUME NEW S, Proper(S), NEW n \in Nat
    PROVE  Ticks(OptimalPlan(S, n)) \subseteq Ticks(S)
  <1> DEFINE Before(r) == {s \in S : Cheaper(s, r)}
             Cut(r) == Shorten(r, Duration(Before(r)) + Length(r) - n, Before(r))
  <1> SUFFICES ASSUME NEW t \in Int, NEW c \in OptimalPlan(S, n), c.start <= t, t < c.end
               PROVE  t \in Ticks(S)
    BY DEF Ticks
  <1>1. PICK r \in S : Duration(Before(r)) < n /\ c = Cut(r)
    BY DEF OptimalPlan
  <1>2. r \in Slots /\ r.start \in Int /\ r.end \in Int /\ r.start < r.end
    BY SlotTypes
  <1>3. Duration(Before(r)) \in Nat
    BY ProperPart, DurationTicks
  <1> DEFINE e == Duration(Before(r)) + Length(r) - n
  <1>4. e \in Int /\ e < Length(r)
    <2> HIDE DEF Before
    <2> QED
      BY <1>1, <1>2, <1>3, ExcessIs
  <1> HIDE DEF e
  <1>5. LET s == Shorten(r, e, Before(r))
        IN  s \in Slots /\ r.start <= s.start /\ s.end <= r.end
    BY <1>2, <1>4, ShortenIs
  <1>6. c \in Slots /\ r.start <= c.start /\ c.end <= r.end
    BY <1>1, <1>5 DEF e
  <1> HIDE DEF Cut
  <1>7. c.start \in Int /\ c.end \in Int
    BY <1>6 DEF Slots
  <1>8. r.start <= t /\ t < r.end
    BY <1>2, <1>6, <1>7
  <1> QED
    BY <1>8 DEF Ticks

\* To clamp what has been clamped.
LEMMA ClampTwice ==
    ASSUME NEW S, Proper(S), NEW a \in Int, NEW b \in Int, NEW c \in Int, a < c, c <= b,
           NEW C, C = Clamp(S, a, b), C # {}
    PROVE  Clamp(C, Start(C), c) = Clamp(S, a, c)
  <1> DEFINE first == Start(C)
             part(r) == Slot(Later(r.start, a), Earlier(r.end, b), r.value)
             again(s) == Slot(Later(s.start, first), Earlier(s.end, c), s.value)
             once(r) == Slot(Later(r.start, a), Earlier(r.end, c), r.value)
             R == {r \in S : a < r.end /\ r.start < b}
  <1>1. a < b /\ Proper(C)
    BY ClampIs
  <1>2. first \in Int /\ \A s \in C : first <= s.start
    BY <1>1, StartIs
  <1>3. C = {part(r) : r \in R}
    BY DEF Clamp
  <1> HIDE DEF first
  <1>4. ASSUME NEW r \in R
        PROVE  /\ again(part(r)) = once(r)
               /\ first < part(r).end /\ part(r).start < c <=> r.start < c
    <2>1. r.start \in Int /\ r.end \in Int /\ r.value \in Int /\ r.start < r.end
      BY SlotTypes
    <2> DEFINE from == Later(r.start, a)
               to == Earlier(r.end, b)
               s == part(r)
    <2>2. from \in Int /\ to \in Int
      BY <2>1, Ends
    <2>3. s.start = from /\ s.end = to /\ s.value = r.value
      <3>1. s = Slot(from, to, r.value)
        OBVIOUS
      <3> HIDE DEF s, from, to
      <3> QED
        BY <2>1, <2>2, <3>1, SlotIs
    <2>4. from < to /\ first <= from
      <3>1. from < to
        BY <1>1, <2>1 DEF Later, Earlier
      <3>2. s \in C
        BY <1>3
      <3> HIDE DEF s
      <3> QED
        BY <1>2, <2>3, <3>1, <3>2
    <2>5. Later(from, first) = from
      <3> HIDE DEF from
      <3> QED
        BY <1>2, <2>2, <2>4 DEF Later
    <2>6. Earlier(to, c) = Earlier(r.end, c)
      BY <2>1 DEF Earlier
    <2>7. from < c <=> r.start < c
      BY <2>1 DEF Later
    <2> HIDE DEF s, from, to
    <2>8. again(s) = once(r)
      BY <2>3, <2>5, <2>6 DEF from
    <2>9. first < s.end /\ s.start < c <=> r.start < c
      BY <1>2, <2>2, <2>3, <2>4, <2>7
    <2> QED
      BY <2>8, <2>9 DEF s
  <1>5. Clamp(C, first, c) = {again(s) : s \in {s \in C : first < s.end /\ s.start < c}}
    BY DEF Clamp
  <1>6. Clamp(S, a, c) = {once(r) : r \in {r \in S : a < r.end /\ r.start < c}}
    BY DEF Clamp
  <1>7. {r \in S : a < r.end /\ r.start < c} = {r \in R : r.start < c}
    <2> SUFFICES ASSUME NEW r \in S, r.start < c
                 PROVE  r.start < b
      OBVIOUS
    <2> QED
      BY SlotTypes
  <1> HIDE DEF R, part, again, once
  <1>8. Clamp(C, first, c) = Clamp(S, a, c)
    BY <1>3, <1>4, <1>5, <1>6, <1>7
  <1> QED
    BY <1>8 DEF first

\* What remains of rates when the time before t has passed.
LEMMA ClampLater ==
    ASSUME NEW S, Proper(S), NEW a \in Int, NEW t \in Int, NEW c \in Int, a <= t, t < c
    PROVE  LET A == Clamp(S, a, c)
               B == Clamp(S, t, c)
           IN  /\ \A s \in B : s.start >= t
               /\ \A s : (s \in A /\ s.start > t) <=> (s \in B /\ s.start > t)
               /\ t \in Ticks(S) =>
                     \E x \in A, y \in B : /\ x.start <= t /\ t < x.end
                                           /\ y.start = t /\ y.end = x.end /\ y.value = x.value
  <1> DEFINE A == Clamp(S, a, c)
             B == Clamp(S, t, c)
             part(r, d) == Slot(Later(r.start, d), Earlier(r.end, c), r.value)
             R(d) == {r \in S : d < r.end /\ r.start < c}
  <1>1. A = {part(r, a) : r \in R(a)} /\ B = {part(r, t) : r \in R(t)}
    BY DEF Clamp
  <1>2. \A r \in S : r.start \in Int /\ r.end \in Int /\ r.value \in Int /\ r.start < r.end
    BY SlotTypes
  <1>3. ASSUME NEW r \in S, NEW d \in Int
        PROVE  /\ part(r, d).start = Later(r.start, d) /\ part(r, d).end = Earlier(r.end, c)
               /\ part(r, d).value = r.value /\ Later(r.start, d) \in Int
    <2>1. Later(r.start, d) \in Int /\ Earlier(r.end, c) \in Int
      BY <1>2, Ends
    <2> QED
      BY <1>2, <2>1, SlotIs
  <1> HIDE DEF part, A, B
  <1>4. ASSUME NEW s \in B
        PROVE  s.start >= t
    <2>1. PICK r \in R(t) : s = part(r, t)
      BY <1>1
    <2>2. s.start = Later(r.start, t)
      BY <1>3, <2>1
    <2> QED
      BY <1>2, <2>2 DEF Later
  <1>5. ASSUME NEW r \in S, r.start > t
        PROVE  part(r, a) = part(r, t) /\ r.start > a
    <2>1. Later(r.start, a) = r.start /\ Later(r.start, t) = r.start
      BY <1>2, <1>5 DEF Later
    <2> QED
      BY <1>2, <1>5, <2>1 DEF part
  <1>6. ASSUME NEW s, s \in A, s.start > t
        PROVE  s \in B
    <2>1. PICK r \in R(a) : s = part(r, a)
      BY <1>1, <1>6
    <2>2. r.start > t
      <3>1. s.start = Later(r.start, a)
        BY <1>3, <2>1
      <3> QED
        BY <1>2, <1>6, <3>1 DEF Later
    <2>3. r \in R(t)
      BY <1>2, <2>2
    <2> QED
      BY <1>1, <1>5, <2>1, <2>2, <2>3
  <1>7. ASSUME NEW s, s \in B, s.start > t
        PROVE  s \in A
    <2>1. PICK r \in R(t) : s = part(r, t)
      BY <1>1, <1>7
    <2>2. r.start > t
      <3>1. s.start = Later(r.start, t)
        BY <1>3, <2>1
      <3> QED
        BY <1>2, <1>7, <3>1 DEF Later
    <2>3. r \in R(a)
      BY <1>2, <2>2
    <2> QED
      BY <1>1, <1>5, <2>1, <2>2, <2>3
  <1>8. ASSUME t \in Ticks(S)
        PROVE  \E x \in A, y \in B : /\ x.start <= t /\ t < x.end
                                     /\ y.start = t /\ y.end = x.end /\ y.value = x.value
    <2>1. PICK r \in S : r.start <= t /\ t < r.end
      BY <1>8 DEF Ticks
    <2>2. r \in R(a) /\ r \in R(t)
      BY <1>2, <2>1
    <2>3. part(r, a) \in A /\ part(r, t) \in B
      BY <1>1, <2>2
    <2>4. Later(r.start, a) <= t /\ Later(r.start, t) = t /\ t < Earlier(r.end, c)
      BY <1>2, <2>1 DEF Later, Earlier
    <2> QED
      BY <1>3, <2>3, <2>4
  <1> QED
    BY <1>4, <1>6, <1>7, <1>8 DEF A, B

LEMMA OptimalAway ==
    ASSUME NEW S, Proper(S), NEW n \in Nat, 0 < n,
           NEW a \in Int, NEW t \in Int, NEW c \in Int, a <= t, t < c,
           \A u \in Ticks(OptimalPlan(Clamp(S, a, c), n)) : u > t
    PROVE  t \notin Ticks(OptimalPlan(Clamp(S, t, c), n))
  <1> DEFINE A == Clamp(S, a, c)
             B == Clamp(S, t, c)
  <1>1. a < c /\ Proper(A) /\ Proper(B) /\ Ticks(B) \subseteq Ticks(S)
    BY ClampIs
  <1>2. /\ \A s \in B : s.start >= t
        /\ \A s : (s \in A /\ s.start > t) <=> (s \in B /\ s.start > t)
        /\ t \in Ticks(S) =>
              \E x \in A, y \in B : /\ x.start <= t /\ t < x.end
                                    /\ y.start = t /\ y.end = x.end /\ y.value = x.value
    BY ClampLater
  <1>3. \A u \in Ticks(OptimalPlan(A, n)) : u > t
    OBVIOUS
  <1> HIDE DEF A, B
  <1>4. CASE t \in Ticks(S)
    <2>1. PICK x \in A, y \in B : /\ x.start <= t /\ t < x.end
                                  /\ y.start = t /\ y.end = x.end /\ y.value = x.value
      BY <1>2, <1>4
    <2>2. t \notin Ticks(OptimalPlan(B, n))
      BY <1>1, <1>2, <1>3, <2>1, OptimalLater
    <2> QED
      BY <2>2 DEF B
  <1>5. CASE t \notin Ticks(S)
    <2>1. t \notin Ticks(OptimalPlan(B, n))
      BY <1>1, <1>5, OptimalWithin
    <2> QED
      BY <2>1 DEF B
  <1> QED
    BY <1>4, <1>5

\* The plan without the branches that do not apply.
LEMMA PlanWhen ==
    ASSUME NEW rs, rs # {}, NEW from \in Int, NEW n \in Nat, 0 < n, NEW target \in Int,
           from < target - n, NEW p, NEW continuous,
           NEW beyond, beyond = Later(0, target - End(rs)), ~(beyond >= n),
           NEW C, C = Clamp(rs, from, target)
    PROVE  Plan(rs, from, n, p, target, continuous) =
             IF ~Covered(C, n - beyond) THEN {Slot(target - n, target, 0)}
             ELSE PlanCovered(C, n - beyond, Later(p - beyond, 0), target - beyond, continuous)
  <1>1. ~(n <= 0) /\ ~(target - n <= from)
    OBVIOUS
  <1> QED
    BY <1>1 DEF Plan

\* PlanCovered, of what is clamped from some time on, before until.
LEMMA CoveredWhen ==
    ASSUME NEW rs, Proper(rs), Gapless(rs), rs # {}, NEW from \in Int, NEW target \in Int,
           from < target, NEW C, C = Clamp(rs, from, target), C # {},
           NEW e, e = target - Later(0, target - End(rs)),
           NEW n \in Nat, 0 < n, n <= Duration(C), NEW last \in Nat, last < n, from < e - last
    PROVE  IF last > 0
           THEN Clamp(C, Start(C), e - last) = Clamp(rs, from, e - last)
           ELSE C = Clamp(rs, from, target)
  <1>1. e \in Int /\ e <= target
    BY RestIs
  <1> DEFINE c == e - last
  <1>2. c \in Int /\ c <= target /\ from < c
    BY <1>1
  <1> HIDE DEF c
  <1>3. Clamp(C, Start(C), c) = Clamp(rs, from, c)
    BY <1>2, ClampTwice
  <1> QED
    BY <1>3 DEF c

\* What has been planned for later is, as long as nothing else changes, still planned
\* for later: the plan uses none of the time in between.
LEMMA PlanAway ==
    ASSUME NEW rs, Proper(rs), Gapless(rs), NEW from \in Int, NEW t \in Int, from <= t,
           NEW n \in Nat, 0 < n, NEW target \in Int, NEW p \in Nat, NEW continuous \in BOOLEAN,
           ~(continuous /\ n > p),
           NEW P, P = Plan(rs, from, n, p, target, continuous), P # {},
           \A u \in Ticks(P) : u > t
    PROVE  /\ t < target - n
           /\ t \notin Ticks(Plan(rs, t, n, p, target, continuous))
  <1> DEFINE Q == Plan(rs, t, n, p, target, continuous)
             latest == target - n
  <1>1. from < target - n
    <2> SUFFICES ASSUME target - n <= from
                 PROVE  FALSE
      OBVIOUS
    <2>1. Ticks(P) = from .. (from + n) - 1
      BY LatePlan
    <2>2. from \in from .. (from + n) - 1
      OBVIOUS
    <2>3. from > t
      BY <2>1, <2>2
    <2> QED
      BY <2>3
  <1>2. latest \in Int /\ latest < target /\ from < target
    BY <1>1
  <1>3. Ticks({Slot(latest, target, 0)}) = latest .. target - 1
        /\ latest \in Ticks({Slot(latest, target, 0)})
    <2>1. latest \in latest .. target - 1
      BY <1>2
    <2> HIDE DEF latest
    <2> QED
      BY <1>2, <2>1, SlotPlan
  <1>4. ASSUME t < latest, Q = {} \/ Q = {Slot(latest, target, 0)}
        PROVE  t \notin Ticks(Q)
    <2>1. t \notin latest .. target - 1
      BY <1>2, <1>4
    <2> HIDE DEF latest, Q
    <2> QED
      BY <1>3, <1>4, <2>1, TicksNone
  <1>5. CASE rs = {}
    <2>1. P = {Slot(latest, target, 0)}
      <3>1. Later(latest, from) = latest /\ latest + n = target
        BY <1>1 DEF Later
      <3> QED
        BY <1>5, <3>1 DEF Plan
    <2>2. t < latest
      BY <1>3, <2>1
    <2>3. Q = {Slot(latest, target, 0)}
      <3>1. Later(latest, t) = latest /\ latest + n = target
        BY <2>2 DEF Later
      <3> QED
        BY <1>5, <3>1 DEF Plan
    <2> QED
      BY <1>4, <2>2, <2>3
  <1>6. CASE rs # {}
    <2> DEFINE beyond == Later(0, target - End(rs))
               m == n - beyond
               e == target - beyond
               q == Later(p - beyond, 0)
               A == Clamp(rs, from, target)
               B == Clamp(rs, t, target)
    <2>1. End(rs) \in Int
      BY <1>6, EndIs
    <2>2. beyond \in Nat
      BY <2>1 DEF Later
    <2>3. ~(beyond >= n)
      <3> SUFFICES ASSUME beyond >= n
                   PROVE  FALSE
        OBVIOUS
      <3>1. P = {}
        BY <1>1, <1>6 DEF Plan
      <3> QED
        BY <3>1
    <2>4. m \in Nat /\ 0 < m /\ e \in Int /\ e - m = latest
      BY <2>2, <2>3
    <2>5. q \in Nat /\ (n <= p => m <= q)
      BY <2>2 DEF Later
    <2>6. P = IF ~Covered(A, m) THEN {Slot(latest, target, 0)}
              ELSE PlanCovered(A, m, q, e, continuous)
      BY <1>1, <1>6, <2>3, PlanWhen
    <2>7. t < latest => Q = IF ~Covered(B, m) THEN {Slot(latest, target, 0)}
                            ELSE PlanCovered(B, m, q, e, continuous)
      BY <1>6, <2>3, PlanWhen
    <2>8. e = target - Later(0, target - End(rs))
      OBVIOUS
    <2>9. ASSUME t < target
          PROVE  /\ Proper(A) /\ Proper(B) /\ Ticks(B) \subseteq Ticks(A)
      <3>1. /\ Proper(A) /\ Ticks(A) = {u \in Ticks(rs) : from <= u /\ u < target}
            /\ Proper(B) /\ Ticks(B) = {u \in Ticks(rs) : t <= u /\ u < target}
        BY <1>2, <2>9, ClampIs
      <3>2. \A u \in Ticks(B) : u \in Int /\ from <= u
        BY <3>1 DEF Ticks
      <3> HIDE DEF A, B
      <3> QED
        BY <3>1, <3>2
    <2> HIDE DEF beyond, m, e, q, latest, Q
    <2>10. CASE ~Covered(A, m)
      <3>1. P = {Slot(latest, target, 0)}
        BY <2>6, <2>10
      <3>2. t < latest /\ t < target
        <4>1. t < latest
          BY <1>3, <3>1
        <4> QED
          BY <1>2, <4>1
      <3>3. ~Covered(B, m)
        <4> SUFFICES ASSUME Covered(B, m)
                     PROVE  FALSE
          OBVIOUS
        <4>1. B # {} /\ m <= Duration(B)
          BY DEF Covered
        <4>2. /\ Duration(B) <= Duration(A) /\ Duration(A) \in Nat /\ Duration(B) \in Nat
              /\ A # {}
          <5> HIDE DEF A, B
          <5> QED
            BY <2>9, <3>2, <4>1, DurationLess, DurationTicks, TicksThere
        <4> HIDE DEF A, B
        <4> QED
          BY <2>4, <2>10, <4>1, <4>2 DEF Covered
      <3>4. Q = {Slot(latest, target, 0)}
        BY <2>7, <3>2, <3>3
      <3> QED
        BY <1>4, <3>2, <3>4 DEF Q, latest
    <2>11. CASE Covered(A, m)
      <3>1. P = PlanCovered(A, m, q, e, continuous) /\ A # {} /\ m <= Duration(A)
        BY <2>6, <2>11 DEF Covered
      <3>2. /\ Proper(A) /\ Gapless(A)
            /\ \A u \in Ticks(A) : u \in Int /\ from <= u /\ u < e
            /\ e \in Int /\ e <= target /\ e - 1 \in Ticks(A)
        <4> HIDE DEF A
        <4> QED
          BY <1>2, <1>6, <2>8, <3>1, RestIs DEF A
      <3>3. Proper(P) /\ Ticks(P) \subseteq Ticks(A) /\ Duration(P) = m
        <4> HIDE DEF A
        <4> QED
          BY <2>4, <2>5, <3>1, <3>2, CoveredIs
      <3>4. t < latest
        <4>1. Duration(P) <= e - Start(P) /\ Start(P) \in Int /\ Start(P) \in Ticks(P)
          BY <3>2, <3>3, BeginsBefore, StartIs
        <4>2. t < Start(P)
          BY <4>1
        <4> QED
          BY <1>2, <2>4, <3>3, <4>1, <4>2
      <3>5. CASE ~Covered(B, m)
        <4>1. Q = {Slot(latest, target, 0)}
          BY <2>7, <3>4, <3>5
        <4> QED
          BY <1>4, <3>4, <4>1 DEF Q, latest
      <3>6. CASE Covered(B, m)
        <4> DEFINE last == Earlier(q, m)
                   until == e - last
                   rest == m - last
                   c == IF last > 0 THEN until ELSE target
                   before(C) == IF last > 0 THEN Clamp(C, Start(C), until) ELSE C
                   precond(C) == IF last > 0 THEN Clamp(C, until, e) ELSE {}
                   main(C) == IF rest = 0 THEN {}
                              ELSE IF continuous THEN FindContinuousWindow(before(C), rest, until)
                              ELSE OptimalPlan(before(C), rest)
        <4>1. P = precond(A) \cup main(A)
          BY <3>1 DEF PlanCovered
        <4>2. Q = precond(B) \cup main(B) /\ B # {} /\ m <= Duration(B)
          <5>1. Q = PlanCovered(B, m, q, e, continuous)
            BY <2>7, <3>4, <3>6
          <5> QED
            BY <3>6, <5>1 DEF PlanCovered, Covered
        <4>3. last \in Nat /\ last <= m /\ (m <= q => last = m) /\ last <= q
          BY <2>4, <2>5 DEF Earlier
        <4> HIDE DEF last
        <4>4. /\ until \in Int /\ rest \in Nat /\ t < until /\ until <= e
              /\ until = e - last /\ rest = m - last /\ (rest = 0 <=> last = m)
          BY <1>2, <2>4, <3>2, <3>4, <4>3
        <4>5. t < target /\ Proper(B)
          BY <1>2, <2>9, <3>4
        <4>6. t \notin Ticks(precond(B))
          <5>1. CASE last > 0
            <6>1. until < e
              BY <3>2, <4>3, <4>4, <5>1
            <6> HIDE DEF until, B
            <6>2. Ticks(Clamp(B, until, e)) = {u \in Ticks(B) : until <= u /\ u < e}
              BY <3>2, <4>4, <4>5, <6>1, ClampIs
            <6> QED
              BY <4>4, <5>1, <6>2
          <5>2. CASE ~(last > 0)
            BY <5>2, TicksNone
          <5> QED
            BY <5>1, <5>2
        <4>7. t \notin Ticks(main(B))
          <5>1. CASE rest = 0
            BY <5>1, TicksNone
          <5>2. CASE rest # 0
            <6>1. last < m /\ 0 < rest
              BY <2>4, <4>3, <4>4, <5>2
            <6>2. ~continuous
              BY <2>4, <2>5, <4>3, <6>1
            <6>3. main(A) = OptimalPlan(before(A), rest) /\ main(B) = OptimalPlan(before(B), rest)
              BY <5>2, <6>2
            <6>4. c \in Int /\ t < c
              BY <4>4, <4>5
            <6>5. before(A) = Clamp(rs, from, c)
              <7>1. from < until
                BY <4>4
              <7> HIDE DEF A, before
              <7>2. IF last > 0 THEN Clamp(A, Start(A), until) = Clamp(rs, from, until)
                    ELSE A = Clamp(rs, from, target)
                BY <1>2, <1>6, <2>4, <2>8, <3>1, <4>3, <6>1, <7>1, CoveredWhen DEF A
              <7> QED
                BY <7>2 DEF before
            <6>6. before(B) = Clamp(rs, t, c)
              <7> HIDE DEF B, before
              <7>1. IF last > 0 THEN Clamp(B, Start(B), until) = Clamp(rs, t, until)
                    ELSE B = Clamp(rs, t, target)
                BY <1>6, <2>4, <2>8, <4>2, <4>3, <4>4, <4>5, <6>1, CoveredWhen DEF B
              <7> QED
                BY <7>1 DEF before
            <6> HIDE DEF before, c, rest, precond, main
            <6>7. \A u \in Ticks(OptimalPlan(Clamp(rs, from, c), rest)) : u > t
              <7>1. Ticks(main(A)) \subseteq Ticks(P)
                BY <4>1 DEF Ticks
              <7> QED
                BY <6>3, <6>5, <7>1
            <6>8. t \notin Ticks(OptimalPlan(Clamp(rs, t, c), rest))
              BY <4>4, <6>1, <6>4, <6>7, OptimalAway
            <6> QED
              BY <6>3, <6>6, <6>8
          <5> QED
            BY <5>1, <5>2
        <4> HIDE DEF precond, main
        <4>8. t \notin Ticks(Q)
          BY <4>2, <4>6, <4>7 DEF Ticks
        <4> QED
          BY <3>4, <4>8 DEF Q, latest
      <3> QED
        BY <3>5, <3>6
    <2> QED
      BY <2>10, <2>11
  <1> QED
    BY <1>5, <1>6

-----------------------------------------------------------------------------
(* Pauses are not short.                                                   *)

\* A plan that was made at from, for p, begins a slot's length later, and is not
\* to be continuous.
Away(p, from, rs, s, charge) ==
    LET n == Needed(charge, p.goal)
        plan == Plan(rs, from, n, s.precondition, p.time, s.continuous)
    IN  /\ p # NoPlan /\ n > 0
        /\ ~(s.continuous /\ n > s.precondition)
        /\ plan # {} /\ \A t \in Ticks(plan) : from + SlotDuration <= t

\* During a pause the plan in effect is the one that was paused, and what is read of
\* it is what it is.
Paused ==
    pause < SlotDuration =>
        /\ ~planActive
        /\ Away(NextVehiclePlan, now - pause, rates, strategy, soc)
        /\ pc \in {"goal", "decide"} => read.time = NextVehiclePlan.time
        /\ pc = "decide" => read.goal = NextVehiclePlan.goal

\* What is planned anew during the pause does not end it.
LEMMA PauseLasts ==
    ASSUME TariffsGapless, Types, Paused, pause < SlotDuration
    PROVE  LET p == NextVehiclePlan
               n == Needed(soc, p.goal)
           IN  /\ p \in Goals /\ n > 0 /\ soc < p.goal /\ now < p.time
               /\ SlotAt(now, Plan(rates, now, n, strategy.precondition, p.time, strategy.continuous)) = {}
  <1> DEFINE p == NextVehiclePlan
             g == p.goal
             target == p.time
             n == Needed(soc, g)
             from == now - pause
             pre == strategy.precondition
             continuous == strategy.continuous
             P == Plan(rates, from, n, pre, target, continuous)
             Q == Plan(rates, now, n, pre, target, continuous)
  <1>1. Away(p, from, rates, strategy, soc)
    BY DEF Paused
  <1>2. /\ p # NoPlan /\ n > 0 /\ ~(continuous /\ n > pre)
        /\ P # {} /\ \A t \in Ticks(P) : from + SlotDuration <= t
    BY <1>1 DEF Away
  <1>3. p \in Goals /\ g \in Nat /\ target \in Nat
    BY <1>2, InEffect, GoalIs
  <1>4. /\ Proper(rates) /\ Gapless(rates) /\ now \in Nat /\ soc \in Nat
        /\ pre \in Nat /\ continuous \in BOOLEAN /\ pause \in Nat /\ SlotDuration \in Nat
    BY Deciding, SlotAssumption DEF TariffsGapless, Types, TypeOK
  <1>5. n \in Nat /\ (soc >= g => n = 0)
    BY <1>3, <1>4, NeededIs
  <1>6. soc < g
    <2> HIDE DEF n, g
    <2> QED
      BY <1>2, <1>3, <1>4, <1>5
  <1>7. from \in Int /\ from <= now /\ now < from + SlotDuration
    BY <1>4
  <1> HIDE DEF from, n, pre, continuous, target, P
  <1>8. \A t \in Ticks(P) : t > now
    <2>1. \A t \in Ticks(P) : t \in Int
      BY DEF Ticks
    <2> QED
      BY <1>2, <1>4, <1>7, <2>1
  <1>9. now < target - n /\ now \notin Ticks(Q)
    <2>1. 0 < n /\ n \in Nat /\ target \in Int /\ now \in Int
      BY <1>2, <1>3, <1>4, <1>5
    <2>2. P = Plan(rates, from, n, pre, target, continuous)
      BY DEF P
    <2> QED
      BY <1>2, <1>4, <1>7, <1>8, <2>1, <2>2, PlanAway
  <1>10. now < target
    BY <1>3, <1>4, <1>5, <1>9
  <1>11. SlotAt(now, Q) = {}
    <2> HIDE DEF Q
    <2> QED
      BY <1>4, <1>9, SlotAtTick
  <1> QED
    BY <1>2, <1>3, <1>6, <1>10, <1>11 DEF n, pre, continuous, target

\* A decision during the pause leaves the plan paused.
LEMMA PauseGoesOn ==
    ASSUME TariffsGapless, Kept, Paused, pause < SlotDuration,
           NEW plan \in {IF Unplanned THEN {} ELSE EffectivePlan}, Decide(plan)
    PROVE  UNCHANGED static /\ Inactive
  <1>1. ~planActive /\ read.time = NextVehiclePlan.time /\ read.goal = NextVehiclePlan.goal
    BY DEF Paused, Decide
  <1>2. /\ Needed(soc, read.goal) > 0 /\ now < read.time
        /\ SlotAt(now, Plan(rates, now, Needed(soc, read.goal), strategy.precondition,
                            read.time, strategy.continuous)) = {}
    BY <1>1, PauseLasts DEF Kept
  <1>3. Required = Needed(soc, read.goal) /\ Required \in Nat
    BY Deciding DEF Kept, Required, RequiredDuration, Needed
  <1>4. ~Reached
    BY <1>2, <1>3 DEF Reached
  <1>5. CASE Unplanned
    BY <1>5 DEF Decide
  <1>6. CASE ~Unplanned
    <2>1. ~Expired
      <3>1. read.time \in Nat /\ now \in Nat
        BY <1>6, Deciding DEF Kept
      <3> QED
        BY <1>2, <3>1 DEF Expired
    <2>2. SlotAt(now, plan) = {}
      BY <1>2, <1>3, <1>6 DEF EffectivePlan
    <2>3. ~Continues(plan)
      BY <1>1 DEF Continues
    <2> QED
      BY <1>4, <1>6, <2>1, <2>2, <2>3 DEF Decide, ReachedFull
  <1> QED
    BY <1>5, <1>6

\* The pause begins with a plan that is away.
LEMMA PauseBegins ==
    ASSUME TariffsGapless, Kept,
           NEW plan \in {IF Unplanned THEN {} ELSE EffectivePlan}, Decide(plan),
           planActive, ~planActive', plan # {}, NextVehiclePlan' = read
    PROVE  Away(read, now, rates, strategy, soc)
  <1>1. ~Unplanned /\ plan = EffectivePlan
    OBVIOUS
  <1>2. /\ Types /\ Required = Needed(soc, read.goal) /\ Required \in Nat /\ soc \in Nat /\ now \in Nat
        /\ read.goal \in Nat /\ (Required = 0 => soc >= read.goal)
    BY Deciding DEF Kept, Required, RequiredDuration, Needed
  <1>3. read # NoPlan
    BY <1>1 DEF Unplanned, NoPlan
  <1>4. ~Reached
    <2> SUFFICES ASSUME Reached
                 PROVE  FALSE
      OBVIOUS
    <2>1. Inactive
      <3>1. ~UNCHANGED active
        BY DEF active
      <3> QED
        BY <1>1, <3>1 DEF Decide
    <2>2. NextActivePlan' = read
      BY <2>1 DEF Inactive, NextVehiclePlan
    <2>3. NextActivePlan' = Chosen(static', Repeating', soc')
      BY NextIsChosen
    <2>4. soc' = soc /\ Repeating' = Repeating /\ (static' = static \/ static' = NoPlan)
      BY DEF Decide, Repeating, FinishPlan
    <2>5. StaticPlan(static') /\ RepeatedPlan(Repeating)
      BY <1>2, <2>4, InEffect DEF StaticPlan
    <2>6. soc < read.goal
      BY <1>2, <1>3, <2>2, <2>3, <2>4, <2>5, ChosenIs
    <2> QED
      BY <1>2, <2>6 DEF Reached
  <1>5. SlotAt(now, plan) = {} /\ ~Continues(plan)
    <2>1. ~Expired /\ ~ReachedFull
      BY <1>4 DEF Expired, ReachedFull
    <2>2. \A slot \in SlotAt(now, plan) : ~Deferred(slot, plan)
      BY DEF Deferred
    <2>3. ~UNCHANGED active
      BY DEF active
    <2> QED
      BY <1>1, <1>4, <2>1, <2>2, <2>3 DEF Decide
  <1>6. ~(strategy.continuous /\ Required > strategy.precondition) /\ ~(Start(plan) - now < SlotDuration)
    BY <1>5 DEF Continues
  <1>7. Required > 0
    BY <1>2, <1>4 DEF Reached
  <1>8. now < read.time - Required
    BY <1>1, <1>2, <1>5, <1>7, Waits
  <1>9. Proper(plan)
    BY <1>1, <1>2, <1>7, <1>8, EarlyEffective
  <1>10. Start(plan) \in Int /\ \A t \in Ticks(plan) : t \in Int /\ Start(plan) <= t
    BY <1>9, StartIs DEF Ticks
  <1>11. \A t \in Ticks(plan) : now + SlotDuration <= t
    BY <1>2, <1>6, <1>10, SlotAssumption
  <1>12. plan = Plan(rates, now, Needed(soc, read.goal), strategy.precondition, read.time,
                     strategy.continuous)
    BY <1>1, <1>2 DEF EffectivePlan
  <1> QED
    BY <1>2, <1>3, <1>6, <1>7, <1>11, <1>12 DEF Away

LEMMA DecidePaused ==
    ASSUME TariffsGapless, Kept, Paused,
           NEW plan \in {IF Unplanned THEN {} ELSE EffectivePlan}, Decide(plan)
    PROVE  Paused'
  <1>1. /\ pc' = "tick" /\ now' = now /\ soc' = soc /\ rates' = rates /\ strategy' = strategy
        /\ pause' = IF planActive /\ ~planActive' /\ plan # {} /\ NextVehiclePlan' = read
                    THEN 0 ELSE pause
    BY DEF Decide, Pause
  <1>2. now \in Nat
    BY Deciding DEF Kept
  <1>3. CASE planActive /\ ~planActive' /\ plan # {} /\ NextVehiclePlan' = read
    <2>1. Away(read, now, rates, strategy, soc)
      BY <1>3, PauseBegins
    <2>2. now' - pause' = now
      BY <1>1, <1>2, <1>3
    <2>3. Away(NextVehiclePlan', now' - pause', rates', strategy', soc')
      BY <1>1, <1>3, <2>1, <2>2
    <2> QED
      BY <1>1, <1>3, <2>3 DEF Paused
  <1>4. CASE ~(planActive /\ ~planActive' /\ plan # {} /\ NextVehiclePlan' = read)
    <2> SUFFICES ASSUME pause < SlotDuration
                 PROVE  /\ ~planActive'
                        /\ Away(NextVehiclePlan', now' - pause', rates', strategy', soc')
      BY <1>1, <1>4 DEF Paused
    <2>1. static' = static /\ Inactive
      BY PauseGoesOn
    <2>2. planLocked = NoPlan /\ planLocked' = NoPlan
      BY <2>1 DEF Paused, Kept, Inactive
    <2>3. NextActivePlan' = NextActivePlan
      BY <1>1, <2>1 DEF NextActivePlan, Repeating, RequiredDuration
    <2>4. NextVehiclePlan' = NextVehiclePlan
      BY <2>2, <2>3 DEF NextVehiclePlan
    <2>5. Away(NextVehiclePlan, now - pause, rates, strategy, soc)
      BY DEF Paused
    <2> QED
      BY <1>1, <1>4, <2>1, <2>4, <2>5 DEF Inactive
  <1> QED
    BY <1>3, <1>4

LEMMA TickPaused ==
    ASSUME TariffsGapless, Kept, Paused, NEW charged \in 0 .. 1, Tick(charged)
    PROVE  Paused'
  <1>1. /\ now' = now + 1 /\ soc' = soc + charged /\ pc' = "time"
        /\ pause' = Earlier(pause + 1, SlotDuration) /\ (charged = 1 => planActive)
        /\ rates' = rates /\ strategy' = strategy /\ static' = static
        /\ planLocked' = planLocked /\ planActive' = planActive
    BY DEF Tick, settings, active
  <1>2. now \in Nat /\ soc \in Nat /\ pause \in Nat /\ SlotDuration \in Nat /\ Types
    BY Deciding, SlotAssumption DEF Kept, Types, TypeOK
  <1> SUFFICES ASSUME pause' < SlotDuration
               PROVE  /\ ~planActive'
                      /\ Away(NextVehiclePlan', now' - pause', rates', strategy', soc')
    BY <1>1 DEF Paused
  <1>3. pause' = pause + 1 /\ pause < SlotDuration
    BY <1>1, <1>2 DEF Earlier
  <1>4. ~planActive /\ Away(NextVehiclePlan, now - pause, rates, strategy, soc)
    BY <1>3 DEF Paused
  <1>5. soc' = soc /\ now' - pause' = now - pause
    BY <1>1, <1>2, <1>3, <1>4
  <1>6. planLocked = NoPlan
    BY <1>4 DEF Kept
  <1>7. NextVehiclePlan' = NextVehiclePlan
    <2>1. NextVehiclePlan = NextActivePlan /\ NextVehiclePlan' = NextActivePlan'
      BY <1>1, <1>6 DEF NextVehiclePlan
    <2>2. NextVehiclePlan \in Goals /\ soc < NextVehiclePlan.goal /\ now < NextVehiclePlan.time
      BY <1>2, <1>3, PauseLasts
    <2>3. NextVehiclePlan # NoPlan
      BY <2>2, GoalIs
    <2> QED
      BY <1>1, <1>2, <1>5, <2>1, <2>2, <2>3, NextStays
  <1> QED
    BY <1>1, <1>4, <1>5, <1>7

LEMMA StepPaused ==
    ASSUME TariffsGapless, Kept, Paused, [Next]_vars
    PROVE  Paused'
  <1>1. ASSUME UNCHANGED <<now, soc, rates, strategy, static, active, pause>>
        PROVE  /\ NextVehiclePlan' = NextVehiclePlan /\ planActive' = planActive /\ pause' = pause
               /\ Away(NextVehiclePlan, now - pause, rates, strategy, soc)
                    => Away(NextVehiclePlan', now' - pause', rates', strategy', soc')
    BY <1>1 DEF active, NextVehiclePlan, NextActivePlan, Repeating, RequiredDuration
  <1>2. CASE ReadPlanTime
    BY <1>1, <1>2 DEF ReadPlanTime, settings, Paused
  <1>3. CASE ReadPlanGoal
    <2>1. read \in Reads
      BY DEF Kept, Types
    <2>2. read'.time = read.time /\ read'.goal = NextVehiclePlan.goal /\ pc = "goal" /\ pc' = "decide"
      BY <1>3, <2>1 DEF ReadPlanGoal, Reads
    <2> QED
      BY <1>1, <1>3, <2>2 DEF ReadPlanGoal, settings, Paused
  <1>4. ASSUME NEW plan \in {IF Unplanned THEN {} ELSE EffectivePlan}, Decide(plan)
        PROVE  Paused'
    BY <1>4, DecidePaused
  <1>5. ASSUME NEW charged \in 0 .. 1, Tick(charged)
        PROVE  Paused'
    BY <1>5, TickPaused
  <1>6. CASE Connect
    BY <1>1, <1>6 DEF Connect, Paused
  <1>7. CASE UNCHANGED vars
    BY <1>1, <1>7 DEF vars, settings, Paused
  <1>8. CASE Disconnect \/ NewRates \/ SetPlanSoc \/ SetMode
    <2>1. pause' = SlotDuration
      BY <1>8 DEF Disconnect, NewRates, SetPlanSoc, SetMode, RequestUpdate
    <2> QED
      BY <2>1, SlotAssumption DEF Paused
  <1> QED
    BY <1>2, <1>3, <1>4, <1>5, <1>6, <1>7, <1>8 DEF Next, Loop

\* A plan that is paused is not resumed before a slot's length, as long as no rates, plan
\* or mode are set, no update is requested and the vehicle stays (plannerActive): what
\* is planned anew begins no earlier.
THEOREM PausesLast == ASSUME TariffsGapless PROVE Spec => NoShortPause
  <1>1. Init => Kept /\ Paused
    <2>1. Init => Kept
      BY InitTypes DEF Init, Kept
    <2>2. Init => Paused
      BY SlotAssumption DEF Init, Paused
    <2> QED
      BY <2>1, <2>2
  <1>2. Kept /\ Paused /\ [Next]_vars => Kept' /\ Paused'
    BY StepKept, StepPaused
  <1>3. ASSUME Kept, Paused, [Next]_vars
        PROVE  [pc = "decide" /\ ~planActive /\ planActive' => pause = SlotDuration]_vars
    <2> SUFFICES ASSUME Next, ~planActive, planActive'
                 PROVE  pause = SlotDuration
      BY <1>3
    <2>1. ~Inactive /\ ~UNCHANGED planActive
      BY DEF Inactive
    <2>2. PICK plan \in {IF Unplanned THEN {} ELSE EffectivePlan} : Decide(plan)
      <3>1. ~ReadPlanTime /\ ~ReadPlanGoal /\ ~Connect /\ ~Disconnect /\ ~NewRates /\ ~SetPlanSoc /\ ~SetMode
        BY <2>1 DEF ReadPlanTime, ReadPlanGoal, Connect, Disconnect, NewRates, SetPlanSoc, SetMode, active
      <3>2. \A charged : ~Tick(charged)
        BY <2>1 DEF Tick, active
      <3> QED
        BY <3>1, <3>2 DEF Next, Loop
    <2>3. ~(pause < SlotDuration)
      BY <1>3, <2>1, <2>2, PauseGoesOn
    <2> QED
      BY <1>3, <2>3, SlotAssumption DEF Kept, Types, TypeOK
  <1> QED
    BY <1>1, <1>2, <1>3, PTL DEF Spec, NoShortPause
=============================================================================
