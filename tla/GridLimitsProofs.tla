---------------------------- MODULE GridLimitsProofs ----------------------------
(* Theorems about GridLimits, with the driver EEBus in it.                   *)
EXTENDS GridLimits, TLAPS

USE DEF Directions, Zero, Nil, Forever

\* A device is told a percentage between none and all of its power.
LEMMA Percentage ==
    ASSUME NEW limit \in Nat
    PROVE  PercentOf(limit) \in 0 .. 100
<1>1. CASE limit >= ProductionNominalMax
    BY <1>1 DEF PercentOf
<1>2. CASE limit < ProductionNominalMax
    <2> DEFINE n == ProductionNominalMax
               q == (limit * 100) \div n
    <2>1. n \in Nat /\ n > 0
        BY EEBusAssumption
    <2>2. limit * 100 < n * 100 /\ limit * 100 >= 0 /\ limit * 100 \in Nat
        BY <1>2, <2>1
    <2>3. q \in 0 .. 100
        BY <2>1, <2>2
    <2>4. PercentOf(limit) = q
        BY <1>2, <2>1 DEF PercentOf
    <2> QED
        BY <2>3, <2>4
<1> QED
    BY <1>1, <1>2, EEBusAssumption

-----------------------------------------------------------------------------
(* Type correctness of the driver.                                         *)

LEMMA DriverStartsTyped == Init => TypeOK
<1> SUFFICES ASSUME Init
             PROVE  TypeOK
    OBVIOUS
<1>1. failsafe \in [consumption : Nat, production : Nat \cup {NoLimit}]
    BY EEBusAssumption DEF Init
<1>2. guard \in [Directions -> [active : BOOLEAN, value : Nat,
                               left : (0 .. MaxDuration) \cup {Forever}]]
    BY DEF Init
<1>3. stated \in [Directions -> [active : BOOLEAN, value : Nat, duration : 0 .. MaxDuration]]
    BY EEBusAssumption DEF Init
<1>4. activated \in [Directions -> Ages \cup {Zero, Nil}]
    BY DEF Init
<1>5. status = "normal" /\ returned = Zero /\ following = FALSE
    BY DEF Init
<1>6. heartbeat \in 0 .. (HeartbeatTimeout + 1)
    BY EEBusAssumption DEF Init
<1> QED
    BY <1>1, <1>2, <1>3, <1>4, <1>5, <1>6 DEF TypeOK

\* What is received of an approved statement, new or running.
LEMMA ReceivedTyped ==
    ASSUME NEW l \in [active : BOOLEAN, value : Nat, left : (0 .. MaxDuration) \cup {Forever}]
    PROVE  /\ Received(l) \in [active : BOOLEAN, value : Nat, duration : 0 .. MaxDuration]
           /\ Received(l).active = l.active
           /\ Received(l).value = l.value
           /\ Received(l).duration = IF l.left = Forever THEN 0 ELSE l.left
BY EEBusAssumption DEF Received

LEMMA ApprovedTyped ==
    ASSUME NEW d \in Directions, NEW l \in Statements[d], Approved(l)
    PROVE  /\ l \in [active : BOOLEAN, value : Nat, left : (0 .. MaxDuration) \cup {Forever}]
           /\ l.left # 0
<1>1. l \in Statement
    BY EEBusAssumption
<1> QED
    BY <1>1, EEBusAssumption DEF Statement, Approved

LEMMA StoredTyped ==
    ASSUME TypeOK, NEW d \in Directions,
           NEW limit \in [active : BOOLEAN, value : Nat, duration : 0 .. MaxDuration],
           SetLimitData(d, limit)
    PROVE  /\ stated' \in [Directions -> [active : BOOLEAN, value : Nat, duration : 0 .. MaxDuration]]
           /\ activated' \in [Directions -> Ages \cup {Zero, Nil}]
           /\ following' \in BOOLEAN
BY EEBusAssumption DEF TypeOK, SetLimitData, Ages

LEMMA AgeTyped ==
    ASSUME NEW age \in Int, NEW last \in Nat
    PROVE  /\ Older(age, last) \in {age} \cup (1 .. last)
           /\ age >= 0 => Older(age, last) >= 0
BY DEF Older

LEMMA DriverTyped == TypeOK /\ [Next]_eebusVars => TypeOK'
<1> SUFFICES ASSUME TypeOK, [Next]_eebusVars
             PROVE  TypeOK'
    OBVIOUS
<1>1. CASE Connect
    BY <1>1 DEF Connect, TypeOK
<1>2. ASSUME NEW d \in Directions, WriteLimit(d)
      PROVE  TypeOK'
    <2>1. PICK l \in Statements[d] :
              Approved(l) /\ guard' = [guard EXCEPT ![d] = l] /\ SetLimitData(d, Received(l))
        BY <1>2 DEF WriteLimit
    <2>2. guard' \in [Directions -> [active : BOOLEAN, value : Nat,
                                     left : (0 .. MaxDuration) \cup {Forever}]]
        BY <2>1, ApprovedTyped DEF TypeOK
    <2>3. /\ stated' \in [Directions -> [active : BOOLEAN, value : Nat, duration : 0 .. MaxDuration]]
          /\ activated' \in [Directions -> Ages \cup {Zero, Nil}]
          /\ following' \in BOOLEAN
        BY <2>1, ApprovedTyped, ReceivedTyped, StoredTyped
    <2> QED
        BY <1>2, <2>2, <2>3 DEF WriteLimit, TypeOK
<1>3. ASSUME NEW d \in Directions, UpdateLimit(d)
      PROVE  TypeOK'
    <2>1. guard[d] \in [active : BOOLEAN, value : Nat, left : (0 .. MaxDuration) \cup {Forever}]
        BY DEF TypeOK
    <2>2. /\ stated' \in [Directions -> [active : BOOLEAN, value : Nat, duration : 0 .. MaxDuration]]
          /\ activated' \in [Directions -> Ages \cup {Zero, Nil}]
          /\ following' \in BOOLEAN
        BY <1>3, <2>1, ReceivedTyped, StoredTyped DEF UpdateLimit
    <2> QED
        BY <1>3, <2>2 DEF UpdateLimit, TypeOK
<1>4. ASSUME NEW d \in Directions, UpdateFailsafeLimit(d)
      PROVE  TypeOK'
    <2>1. FailsafeWrites[d] \subseteq Nat
        BY EEBusAssumption
    <2>2. failsafe' \in [consumption : Nat, production : Nat \cup {NoLimit}]
        BY <1>4, <2>1 DEF UpdateFailsafeLimit, TypeOK
    <2> QED
        BY <1>4, <2>2 DEF UpdateFailsafeLimit, TypeOK
<1>5. CASE UpdateHeartbeat
    BY <1>5, EEBusAssumption DEF UpdateHeartbeat, TypeOK
<1>6. CASE EnterFailsafe
    <2>1. activated' \in [Directions -> Ages \cup {Zero, Nil}]
        BY <1>6, EEBusAssumption DEF EnterFailsafe, ActivatedAt, Ages
    <2> QED
        BY <1>6, <2>1, EEBusAssumption DEF EnterFailsafe, TypeOK
<1>7. CASE StayInFailsafe
    BY <1>7, EEBusAssumption DEF StayInFailsafe, Returning, TypeOK
<1>8. CASE Operate
    <2>1. activated' \in [Directions -> Ages \cup {Zero, Nil}]
        BY <1>8, EEBusAssumption DEF Operate, TypeOK, ActivatedAt, Ages
    <2>2. stated' \in [Directions -> [active : BOOLEAN, value : Nat, duration : 0 .. MaxDuration]]
        BY <1>8 DEF Operate, TypeOK, LimitActive, Expired
    <2> QED
        BY <1>8, <2>1, <2>2, EEBusAssumption DEF Operate, Returning, TypeOK
<1>9. CASE Tick
    <2>1. guard' \in [Directions -> [active : BOOLEAN, value : Nat,
                                     left : (0 .. MaxDuration) \cup {Forever}]]
        BY <1>9, EEBusAssumption DEF Tick, TypeOK
    <2>2. ASSUME NEW d \in Directions
          PROVE  Older(activated[d], Oldest(d)) \in Ages \cup {Zero, Nil}
        <3>1. Oldest(d) \in 0 .. (MaxDuration + 1)
            BY EEBusAssumption DEF TypeOK, Oldest
        <3>2. activated[d] \in Ages \cup {Zero, Nil} /\ activated[d] \in Int
            BY EEBusAssumption DEF TypeOK, Ages
        <3> QED
            BY <3>1, <3>2, AgeTyped, EEBusAssumption DEF Ages
    <2>3. activated' \in [Directions -> Ages \cup {Zero, Nil}]
        BY <1>9, <2>2 DEF Tick
    <2>4. heartbeat' \in 0 .. (HeartbeatTimeout + 1)
        BY <1>9, EEBusAssumption DEF Tick, TypeOK, Older
    <2>5. returned' \in (0 .. ReleaseTimeout) \cup {Zero}
        BY <1>9, EEBusAssumption DEF Tick, TypeOK, Older
    <2> QED
        BY <1>9, <2>1, <2>3, <2>4, <2>5 DEF Tick, TypeOK
<1>10. CASE UNCHANGED eebusVars
    BY <1>10 DEF eebusVars, TypeOK
<1> QED
    BY <1>1, <1>2, <1>3, <1>4, <1>5, <1>6, <1>7, <1>8, <1>9, <1>10 DEF Next, Event, Run

-----------------------------------------------------------------------------
(* What the driver knows of a limit that stands.                           *)

\* It has the limit as the Energy Guard means it, with at least the time that is
\* left of it, also when it has counted for a while.
Understood(d) ==
    Stands(d) =>
        /\ stated[d].active
        /\ stated[d].value = guard[d].value
        /\ guard[d].left = Forever => stated[d].duration = 0
        /\ guard[d].left # Forever =>
              /\ guard[d].left <= stated[d].duration
              /\ status = "normal" /\ InForce(d) =>
                    activated[d] + guard[d].left <= stated[d].duration

AllUnderstood == \A d \in Directions : Understood(d)

\* A limit that has just been stated is understood.
LEMMA StatedUnderstood ==
    ASSUME TypeOK, NEW d \in Directions,
           NEW l \in [active : BOOLEAN, value : Nat, left : (0 .. MaxDuration) \cup {Forever}],
           guard' = [guard EXCEPT ![d] = l], SetLimitData(d, Received(l))
    PROVE  Understood(d)'
<1>1. guard'[d] = l
    BY DEF TypeOK
<1>2. stated'[d] = Received(l)
    BY DEF TypeOK, SetLimitData
<1>3. activated'[d] = IF LimitActive(activated[d]) THEN 0 ELSE activated[d]
    BY DEF TypeOK, SetLimitData
<1>4. Received(l).active = l.active /\ Received(l).value = l.value
      /\ Received(l).duration = IF l.left = Forever THEN 0 ELSE l.left
    BY ReceivedTyped
<1>5. InForce(d)' => activated'[d] = 0
    BY <1>3 DEF LimitActive, InForce
<1> QED
    BY <1>1, <1>2, <1>4, <1>5, EEBusAssumption DEF Understood, Stands

\* What is not touched stays understood.
LEMMA StillUnderstood ==
    ASSUME TypeOK, NEW d \in Directions, Understood(d),
           guard'[d] = guard[d], stated'[d] = stated[d],
           activated'[d] = activated[d], status' = status \/ status' = "failsafe"
    PROVE  Understood(d)'
BY DEF Understood, Stands, InForce, LimitActive

\* A limit that is in force and stands is not taken for expired.
LEMMA NotExpired ==
    ASSUME TypeOK, NEW d \in Directions, Understood(d), Stands(d),
           status = "normal", InForce(d)
    PROVE  stated[d].active /\ ~Expired(d, activated[d])
<1>1. guard[d].left \in Nat \cup {Forever} /\ stated[d].duration \in Nat /\ activated[d] \in Int
    BY EEBusAssumption DEF TypeOK, Ages
<1> QED
    BY <1>1 DEF Understood, Stands, Expired

LEMMA StaysUnderstood == TypeOK /\ AllUnderstood /\ [Next]_eebusVars => AllUnderstood'
<1> SUFFICES ASSUME TypeOK, AllUnderstood, [Next]_eebusVars, NEW e \in Directions
             PROVE  Understood(e)'
    BY DEF AllUnderstood
<1>0. Understood(e)
    BY DEF AllUnderstood
<1>1. CASE Connect
    <2>1. InForce(e)' <=> InForce(e)
        BY <1>1 DEF Connect, InForce, LimitActive
    <2>2. InForce(e) => activated'[e] = activated[e]
        BY <1>1 DEF Connect, InForce, LimitActive
    <2> QED
        BY <1>0, <1>1, <2>1, <2>2 DEF Connect, Understood, Stands
<1>2. ASSUME NEW d \in Directions, WriteLimit(d)
      PROVE  Understood(e)'
    <2>1. PICK l \in Statements[d] :
              Approved(l) /\ guard' = [guard EXCEPT ![d] = l] /\ SetLimitData(d, Received(l))
        BY <1>2 DEF WriteLimit
    <2>2. CASE e = d
        BY <2>1, <2>2, ApprovedTyped, StatedUnderstood
    <2>3. CASE e # d
        <3>1. guard'[e] = guard[e] /\ stated'[e] = stated[e] /\ activated'[e] = activated[e]
            BY <2>1, <2>3 DEF SetLimitData, TypeOK
        <3> QED
            BY <1>0, <1>2, <3>1, StillUnderstood DEF WriteLimit
    <2> QED
        BY <2>2, <2>3
<1>3. ASSUME NEW d \in Directions, UpdateLimit(d)
      PROVE  Understood(e)'
    <2>1. /\ guard[d] \in [active : BOOLEAN, value : Nat, left : (0 .. MaxDuration) \cup {Forever}]
          /\ guard' = [guard EXCEPT ![d] = guard[d]]
          /\ SetLimitData(d, Received(guard[d]))
        BY <1>3 DEF UpdateLimit, TypeOK
    <2>2. CASE e = d
        BY <2>1, <2>2, StatedUnderstood
    <2>3. CASE e # d
        <3>1. guard'[e] = guard[e] /\ stated'[e] = stated[e] /\ activated'[e] = activated[e]
            BY <2>1, <2>3 DEF SetLimitData, TypeOK
        <3> QED
            BY <1>0, <1>3, <3>1, StillUnderstood DEF UpdateLimit
    <2> QED
        BY <2>2, <2>3
<1>4. ASSUME NEW d \in Directions, UpdateFailsafeLimit(d)
      PROVE  Understood(e)'
    BY <1>0, <1>4, StillUnderstood DEF UpdateFailsafeLimit
<1>5. CASE UpdateHeartbeat
    BY <1>0, <1>5, StillUnderstood DEF UpdateHeartbeat
<1>6. CASE EnterFailsafe
    BY <1>0, <1>6 DEF EnterFailsafe, Understood, Stands
<1>7. CASE StayInFailsafe
    BY <1>0, <1>7, StillUnderstood DEF StayInFailsafe
<1>8. CASE Operate
    <2>1. CASE ~Stands(e)
        BY <1>8, <2>1 DEF Operate, Understood, Stands
    <2>2. CASE Stands(e)
        <3> DEFINE since == IF status = "failsafe" THEN Zero ELSE activated[e]
        <3>1. /\ activated'[e] = IF ~LimitActive(since)
                                 THEN IF stated[e].active THEN ActivatedAt(Limits(e)) ELSE since
                                 ELSE IF ~stated[e].active \/ Expired(e, since) THEN Zero ELSE since
              /\ stated'[e] = [stated[e] EXCEPT
                                  !.active = @ /\ ~(LimitActive(since) /\ Expired(e, since))]
            BY <1>8 DEF Operate, TypeOK
        <3>2. LimitActive(since) => status = "normal" /\ InForce(e) /\ ~Expired(e, since)
            BY <1>0, <2>2, NotExpired DEF LimitActive, InForce, TypeOK
        <3>3. stated[e] \in [active : BOOLEAN, value : Nat, duration : 0 .. MaxDuration]
            BY DEF TypeOK
        <3>4. stated[e].active
            BY <1>0, <2>2 DEF Understood
        <3>5. stated'[e] = stated[e]
            BY <3>1, <3>2, <3>3, <3>4
        <3>6. activated'[e] \in {0, Zero} \/ (status = "normal" /\ activated'[e] = activated[e])
            BY <3>1, <3>2, <3>4 DEF ActivatedAt
        <3>7. guard' = guard /\ guard[e].left \in Int /\ stated[e].duration \in Int
            BY <1>8, EEBusAssumption DEF Operate, TypeOK
        <3> QED
            BY <1>0, <2>2, <3>5, <3>6, <3>7 DEF Understood, Stands, InForce, LimitActive
    <2> QED
        BY <2>1, <2>2
<1>9. CASE Tick
    <2>1. guard'[e] = [guard[e] EXCEPT !.left = IF @ > 0 THEN @ - 1 ELSE @]
        BY <1>9 DEF Tick
    <2>2. guard[e] \in [active : BOOLEAN, value : Nat, left : (0 .. MaxDuration) \cup {Forever}]
        BY DEF TypeOK
    <2>3. /\ guard'[e].active = guard[e].active
          /\ guard'[e].value = guard[e].value
          /\ guard'[e].left = IF guard[e].left > 0 THEN guard[e].left - 1 ELSE guard[e].left
        BY <2>1, <2>2
    <2>4. Stands(e)' => Stands(e)
        BY <2>2, <2>3 DEF Stands
    <2>5. activated[e] \in Int /\ Oldest(e) \in Int
        BY EEBusAssumption DEF TypeOK, Ages, Oldest
    <2>6. activated'[e] \in {activated[e], activated[e] + 1}
        BY <1>9, <2>5 DEF Tick, Older
    <2>7. InForce(e)' => InForce(e)
        BY <1>9, <2>5 DEF Tick, Older, InForce, LimitActive
    <2>8. stated' = stated /\ status' = status /\ stated[e].duration \in Int
        BY <1>9, EEBusAssumption DEF Tick, TypeOK
    <2> QED
        BY <1>0, <2>2, <2>3, <2>4, <2>5, <2>6, <2>7, <2>8, EEBusAssumption DEF Understood, Stands
<1>10. CASE UNCHANGED eebusVars
    BY <1>0, <1>10, StillUnderstood DEF eebusVars
<1> QED
    BY <1>1, <1>2, <1>3, <1>4, <1>5, <1>6, <1>7, <1>8, <1>9, <1>10 DEF Next, Event, Run

\* A limit in force that stands stays in force, in every step of the driver.
LEMMA StandingStep ==
    ASSUME TypeOK, AllUnderstood, [Next]_eebusVars, NEW d \in Directions,
           InForce(d), Stands(d), Stands(d)', Limits(d)', status' = "normal"
    PROVE  InForce(d)'
<1>0. Understood(d)
    BY DEF AllUnderstood
<1>1. CASE Connect
    BY <1>1 DEF Connect, InForce, LimitActive
<1>2. ASSUME NEW e \in Directions, NEW limit, SetLimitData(e, limit)
      PROVE  InForce(d)'
    BY <1>2 DEF SetLimitData, InForce, LimitActive, TypeOK
<1>3. ASSUME NEW e \in Directions, WriteLimit(e) \/ UpdateLimit(e)
      PROVE  InForce(d)'
    BY <1>2, <1>3 DEF WriteLimit, UpdateLimit
<1>4. ASSUME NEW e \in Directions, UpdateFailsafeLimit(e)
      PROVE  InForce(d)'
    BY <1>4 DEF UpdateFailsafeLimit, InForce
<1>5. CASE UpdateHeartbeat \/ StayInFailsafe \/ UNCHANGED eebusVars
    BY <1>5 DEF UpdateHeartbeat, StayInFailsafe, eebusVars, InForce
<1>6. CASE EnterFailsafe
    BY <1>6 DEF EnterFailsafe
<1>7. CASE Operate
    <2> DEFINE since == IF status = "failsafe" THEN Zero ELSE activated[d]
    <2>1. /\ activated'[d] = IF ~LimitActive(since)
                             THEN IF stated[d].active THEN ActivatedAt(Limits(d)) ELSE since
                             ELSE IF ~stated[d].active \/ Expired(d, since) THEN Zero ELSE since
          /\ stated'[d].value = stated[d].value
        BY <1>7 DEF Operate, TypeOK
    <2>2. Limits(d)
        BY <2>1 DEF Limits
    <2>3. stated[d].active
        BY <1>0 DEF Understood
    <2>4. LimitActive(since) => ~Expired(d, since)
        BY <1>0, NotExpired DEF LimitActive, TypeOK
    <2> QED
        BY <2>1, <2>2, <2>3, <2>4 DEF ActivatedAt, InForce, LimitActive
<1>8. CASE Tick
    <2>1. activated[d] \in Int /\ Oldest(d) \in Int
        BY EEBusAssumption DEF TypeOK, Ages, Oldest
    <2> QED
        BY <1>8, <2>1 DEF Tick, Older, InForce, LimitActive
<1> QED
    BY <1>1, <1>3, <1>4, <1>5, <1>6, <1>7, <1>8 DEF Next, Event, Run

-----------------------------------------------------------------------------
(* Failsafe.                                                               *)

\* In failsafe it is known what is in force, and a production limit that is in force
\* is configured: one that is written replaces another one.
FailsafeKnown ==
    status = "failsafe" =>
        /\ \A d \in Directions : activated[d] # Nil
        /\ InForce("production") => failsafe["production"] # NoLimit

\* Only run decides in failsafe what is in force, when it enters failsafe.
LEMMA FailsafeGoesOn ==
    ASSUME TypeOK, Next, status = "failsafe", status' = "failsafe"
    PROVE  \A d \in Directions :
               (InForce(d)' <=> InForce(d)) /\ (activated[d] # Nil => activated'[d] # Nil)
<1>1. CASE Connect
    BY <1>1 DEF Connect, InForce, LimitActive, Zero, Nil
<1>2. ASSUME NEW d \in Directions, WriteLimit(d) \/ UpdateLimit(d)
      PROVE  \A e \in Directions :
                 (InForce(e)' <=> InForce(e)) /\ (activated[e] # Nil => activated'[e] # Nil)
    <2>1. PICK limit : SetLimitData(d, limit)
        BY <1>2 DEF WriteLimit, UpdateLimit
    <2> QED
        BY <2>1 DEF SetLimitData, InForce, LimitActive, TypeOK
<1>3. ASSUME NEW d \in Directions, UpdateFailsafeLimit(d)
      PROVE  UNCHANGED activated
    BY <1>3 DEF UpdateFailsafeLimit
<1>4. CASE UpdateHeartbeat \/ StayInFailsafe
    BY <1>4 DEF UpdateHeartbeat, StayInFailsafe, InForce
<1>5. CASE EnterFailsafe
    BY <1>5 DEF EnterFailsafe
<1>6. CASE Operate
    BY <1>6 DEF Operate
<1>7. CASE Tick
    <2>1. TAKE d \in Directions
    <2>2. activated[d] \in Int /\ Oldest(d) \in Int
        BY EEBusAssumption DEF TypeOK, Ages, Oldest
    <2> QED
        BY <1>7, <2>2 DEF Tick, Older, InForce, LimitActive
<1> QED
    BY <1>1, <1>2, <1>3, <1>4, <1>5, <1>6, <1>7 DEF Next, Event, Run, InForce

\* What is in force when failsafe is entered.
LEMMA FailsafeEntered ==
    ASSUME TypeOK, Next, status # "failsafe", status' = "failsafe"
    PROVE  /\ \A d \in Directions : activated'[d] # Nil
           /\ InForce("consumption")' <=> failsafe'["consumption"] > 0
           /\ InForce("production")' <=> failsafe'["production"] # NoLimit
<1>1. EnterFailsafe
    BY DEF Next, Event, Run, Connect, WriteLimit, UpdateLimit, UpdateFailsafeLimit,
           UpdateHeartbeat, StayInFailsafe, Operate, Tick
<1>2. /\ activated'["consumption"] = ActivatedAt(failsafe["consumption"] > 0)
      /\ activated'["production"] = ActivatedAt(failsafe["production"] # NoLimit)
      /\ failsafe' = failsafe
    BY <1>1 DEF EnterFailsafe
<1> QED
    BY <1>2 DEF ActivatedAt, InForce, LimitActive, Directions, Zero, Nil

LEMMA FailsafeStaysKnown ==
    ASSUME TypeOK, FailsafeKnown, [Next]_eebusVars
    PROVE  FailsafeKnown'
<1>1. CASE UNCHANGED eebusVars
    BY <1>1 DEF eebusVars, FailsafeKnown, InForce
<1>2. CASE Next /\ status' # "failsafe"
    BY <1>2 DEF FailsafeKnown
<1>3. CASE Next /\ status # "failsafe" /\ status' = "failsafe"
    BY <1>3, FailsafeEntered DEF FailsafeKnown
<1>4. CASE Next /\ status = "failsafe" /\ status' = "failsafe"
    <2>1. \A d \in Directions :
              (InForce(d)' <=> InForce(d)) /\ (activated[d] # Nil => activated'[d] # Nil)
        BY <1>4, FailsafeGoesOn
    <2>2. failsafe["production"] # NoLimit => failsafe'["production"] # NoLimit
        <3>1. ASSUME NEW d \in Directions, UpdateFailsafeLimit(d)
              PROVE  failsafe'["production"] # NoLimit \/ failsafe'["production"] = failsafe["production"]
            <4>1. PICK limit \in FailsafeWrites[d] : failsafe' = [failsafe EXCEPT ![d] = limit]
                BY <3>1 DEF UpdateFailsafeLimit
            <4>2. limit # NoLimit
                BY EEBusAssumption
            <4> QED
                BY <4>1, <4>2 DEF TypeOK
        <3> QED
            BY <1>4, <3>1 DEF Next, Event, Run, Connect, WriteLimit, UpdateLimit, UpdateHeartbeat,
                              StayInFailsafe, EnterFailsafe, Operate, Tick
    <2>3. "production" \in Directions
        BY DEF Directions
    <2> QED
        BY <1>4, <2>1, <2>2, <2>3 DEF FailsafeKnown
<1> QED
    BY <1>1, <1>2, <1>3, <1>4

\* In failsafe, what is in force after a step is the failsafe limit as it is
\* configured; where none is configured, nothing in force is what has to be told.
LEMMA ConsumptionIsTold ==
    ASSUME TypeOK', FailsafeKnown', status' = "failsafe",
           InForce("consumption")' \/ failsafe'["consumption"] = 0
    PROVE  FailsafeTold("consumption")'
<1>1. failsafe'["consumption"] \in Nat /\ failsafe'["consumption"] # NoLimit
    BY EEBusAssumption DEF TypeOK
<1>2. activated'["consumption"] # Nil
    BY DEF FailsafeKnown, Directions
<1> QED
    BY <1>1, <1>2 DEF FailsafeTold, MaxConsumptionPower, EffectiveLimit

LEMMA ProductionIsTold ==
    ASSUME TypeOK', FailsafeKnown', status' = "failsafe",
           InForce("production")' \/ failsafe'["production"] = NoLimit
    PROVE  FailsafeTold("production")'
<1>1. activated'["production"] # Nil
    BY DEF FailsafeKnown, Directions
<1>2. InForce("production")' => failsafe'["production"] # NoLimit
    BY DEF FailsafeKnown
<1> QED
    BY <1>1, <1>2 DEF FailsafeTold, CurtailedPercent, EffectiveLimit

\* The condition of FailsafeHeld on a step.
FailsafeStep ==
    \A d \in Directions :
        status' = "failsafe" =>
            \/ FailsafeTold(d)'
            \/ status = "failsafe" /\ ~InForce(d) /\ ~InForce(d)'

LEMMA FailsafeStepHolds ==
    ASSUME TypeOK, TypeOK', FailsafeKnown', Next
    PROVE  FailsafeStep
<1> SUFFICES ASSUME status' = "failsafe", NEW d \in Directions
             PROVE  FailsafeTold(d)' \/ (status = "failsafe" /\ ~InForce(d) /\ ~InForce(d)')
    BY DEF FailsafeStep
<1>1. d = "consumption" \/ d = "production"
    BY DEF Directions
<1>2. CASE status = "failsafe"
    <2>1. InForce(d)' <=> InForce(d)
        BY <1>2, FailsafeGoesOn
    <2>2. CASE InForce(d)'
        BY <1>1, <2>2, ConsumptionIsTold, ProductionIsTold
    <2>3. CASE ~InForce(d)'
        BY <1>2, <2>1, <2>3
    <2> QED
        BY <2>2, <2>3
<1>3. CASE status # "failsafe"
    <2>1. /\ InForce("consumption")' <=> failsafe'["consumption"] > 0
          /\ InForce("production")' <=> failsafe'["production"] # NoLimit
        BY <1>3, FailsafeEntered
    <2>2. failsafe'["consumption"] \in Nat
        BY DEF TypeOK
    <2>3. InForce("consumption")' \/ failsafe'["consumption"] = 0
        BY <2>1, <2>2
    <2> QED
        BY <1>1, <2>1, <2>3, ConsumptionIsTold, ProductionIsTold
<1> QED
    BY <1>2, <1>3

-----------------------------------------------------------------------------
(* The driver, the site and restarts together.                             *)

\* For the driver, a restart is a start.
LEMMA GridStep == [GridNext]_vars => [Next]_eebusVars \/ Init'
<1>1. Driver => [Next]_eebusVars
    BY DEF Driver
<1>2. DimMeters \/ CurtailPV \/ UNCHANGED vars => UNCHANGED eebusVars
    BY DEF DimMeters, CurtailPV, vars, eebusVars
<1>3. Restart => Init'
    BY DEF Restart, Init
<1> QED
    BY <1>1, <1>2, <1>3 DEF GridNext

LEMMA DriverTypeCorrect == GridSpec => []TypeOK
<1>1. GridInit => Init
    BY DEF GridInit
<1>2. Init => TypeOK
    BY DriverStartsTyped
<1>3. TypeOK /\ [Next]_eebusVars => TypeOK'
    BY DriverTyped
<1>4. [GridNext]_vars => [Next]_eebusVars \/ Init'
    BY GridStep
<1> QED
    BY <1>1, <1>2, <1>3, <1>4, PTL DEF GridSpec

LEMMA TellsTyped ==
    ASSUME TypeOK
    PROVE  /\ Dimmed \in {Nil, 0, 1}
           /\ CurtailedPercent \in (0 .. 100) \cup {Nil}
<1>1. EffectiveLimit("production") \in Nat
    BY DEF TypeOK, EffectiveLimit
<1>2. PercentOf(EffectiveLimit("production")) \in 0 .. 100
    BY <1>1, Percentage
<1>3. CurtailedPercent \in (0 .. 100) \cup {Nil}
    BY <1>2 DEF CurtailedPercent
<1> QED
    BY <1>3 DEF Dimmed

SiteTypeOK ==
    /\ dimmed \in {Nil, 0, 1}
    /\ curtailPercent \in (0 .. 100) \cup {Nil}
    /\ meterDimmed \in [Meters -> {0, 1}]
    /\ curtailed \in [Curtailers -> 0 .. 100]
    /\ restarts \in 0 .. MaxRestarts

LEMMA SiteTyped == TypeOK /\ SiteTypeOK /\ [GridNext]_vars => SiteTypeOK'
<1> SUFFICES ASSUME TypeOK, SiteTypeOK, [GridNext]_vars
             PROVE  SiteTypeOK'
    OBVIOUS
<1>1. CASE Driver
    BY <1>1 DEF Driver, SiteTypeOK, siteVars
<1>2. CASE DimMeters
    <2>1. PICK outcome \in [Meters -> Outcomes] :
              /\ meterDimmed' = Told(meterDimmed, outcome, Dimmed)
              /\ dimmed' = Remembered(outcome, Dimmed)
        BY <1>2 DEF DimMeters
    <2>2. Dimmed \in {0, 1}
        BY <1>2, TellsTyped DEF DimMeters
    <2>3. meterDimmed' \in [Meters -> {0, 1}]
        BY <2>1, <2>2 DEF Told, SiteTypeOK
    <2>4. dimmed' \in {Nil, 0, 1}
        BY <2>1, <2>2 DEF Remembered
    <2> QED
        BY <1>2, <2>3, <2>4 DEF DimMeters, SiteTypeOK
<1>3. CASE CurtailPV
    <2>1. PICK outcome \in [Curtailers -> Outcomes] :
              /\ curtailed' = Told(curtailed, outcome, CurtailedPercent)
              /\ curtailPercent' = Remembered(outcome, CurtailedPercent)
        BY <1>3 DEF CurtailPV
    <2>2. CurtailedPercent \in 0 .. 100
        BY <1>3, TellsTyped DEF CurtailPV
    <2>3. curtailed' \in [Curtailers -> 0 .. 100]
        BY <2>1, <2>2 DEF Told, SiteTypeOK
    <2>4. curtailPercent' \in (0 .. 100) \cup {Nil}
        BY <2>1, <2>2 DEF Remembered
    <2> QED
        BY <1>3, <2>3, <2>4 DEF CurtailPV, SiteTypeOK
<1>4. CASE Restart
    BY <1>4, RestartsAssumption DEF Restart, SiteTypeOK
<1>5. CASE UNCHANGED vars
    BY <1>5 DEF vars, siteVars, SiteTypeOK
<1> QED
    BY <1>1, <1>2, <1>3, <1>4, <1>5 DEF GridNext

\* Type correctness of the driver and the site, with restarts.
THEOREM GridTypeCorrect == GridSpec => []GridTypeOK
<1>1. GridInit => SiteTypeOK
    BY RestartsAssumption DEF GridInit, SiteTypeOK
<1>2. TypeOK /\ SiteTypeOK /\ [GridNext]_vars => SiteTypeOK'
    BY SiteTyped
<1>3. TypeOK /\ SiteTypeOK => GridTypeOK
    BY DEF GridTypeOK, SiteTypeOK
<1> QED
    BY <1>1, <1>2, <1>3, DriverTypeCorrect, PTL DEF GridSpec

LEMMA GridUnderstood == GridSpec => []AllUnderstood
<1>1. GridInit => Init
    BY DEF GridInit
<1>2. Init => AllUnderstood
    BY DEF Init, AllUnderstood, Understood, Stands
<1>3. TypeOK /\ AllUnderstood /\ [Next]_eebusVars => AllUnderstood'
    BY StaysUnderstood
<1>4. [GridNext]_vars => [Next]_eebusVars \/ Init'
    BY GridStep
<1> QED
    BY <1>1, <1>2, <1>3, <1>4, DriverTypeCorrect, PTL DEF GridSpec

\* A limit of the Energy Guard that is in force stays in force as long as it
\* stands, for limits of any duration, stated anew at any time, with any number
\* of heartbeats lost: the driver's clock, which is set back whenever the rest of
\* the duration is stated, never ends the limit early.
THEOREM StandingLimitIsKept == GridSpec => StandingLimitKept
<1> DEFINE Kept(d) == /\ InForce(d)
                      /\ Stands(d) /\ Stands(d)' /\ Limits(d)'
                      /\ status' = "normal"
                      => InForce(d)'
<1>1. TypeOK /\ AllUnderstood /\ [GridNext]_vars => [\A d \in Directions : Kept(d)]_eebusVars
    <2> SUFFICES ASSUME TypeOK, AllUnderstood, [GridNext]_vars, NEW d \in Directions
                 PROVE  Kept(d)
        OBVIOUS
    <2>1. CASE [Next]_eebusVars
        BY <2>1, StandingStep
    <2>2. CASE Init'
        BY <2>2 DEF Init, Stands
    <2> QED
        BY <2>1, <2>2, GridStep
<1>2. [][\A d \in Directions : Kept(d)]_eebusVars => StandingLimitKept
    BY DEF StandingLimitKept
<1> QED
    BY <1>1, <1>2, DriverTypeCorrect, GridUnderstood, PTL DEF GridSpec

\* The driver enters failsafe with the failsafe limits and they are in force, as they
\* are configured, as long as it is in failsafe, whatever is stated, for any limits,
\* configured or not and written at any time (run, updateFailsafe...Limit): one that
\* was not configured when failsafe was entered stays without effect.
THEOREM FailsafeIsHeld == GridSpec => FailsafeHeld
<1>1. GridInit => Init
    BY DEF GridInit
<1>2. Init => FailsafeKnown
    BY DEF Init, FailsafeKnown
<1>3. TypeOK /\ FailsafeKnown /\ [Next]_eebusVars => FailsafeKnown'
    BY FailsafeStaysKnown
<1>4. [GridNext]_vars => [Next]_eebusVars \/ Init'
    BY GridStep
<1>5. GridSpec => []FailsafeKnown
    BY <1>1, <1>2, <1>3, <1>4, DriverTypeCorrect, PTL DEF GridSpec
<1>6. TypeOK /\ TypeOK' /\ FailsafeKnown' /\ [Next]_eebusVars => [FailsafeStep]_eebusVars
    BY FailsafeStepHolds
<1>7. Init' => FailsafeStep
    BY DEF Init, FailsafeStep
<1>8. FailsafeHeld <=> [][FailsafeStep]_eebusVars
    BY PTL DEF FailsafeHeld, FailsafeStep
<1> QED
    BY <1>4, <1>5, <1>6, <1>7, <1>8, DriverTypeCorrect, PTL DEF GridSpec
=============================================================================
