--------------------------------- MODULE EEBus ---------------------------------
(***************************************************************************)
(* The HEMS driver hems/eebus: it takes the limits that the grid operator's *)
(* Energy Guard states for consumption and production, and reports to the  *)
(* site what is in force.  Events arrive on goroutines of their own, run is *)
(* called every few seconds, and both hold the driver's mutex.  While no   *)
(* heartbeat comes the driver is in failsafe and applies limits of its own. *)
(*                                                                         *)
(* Time is counted in ticks.  Production limits, negative in the protocol,  *)
(* are positive here.                                                      *)
(***************************************************************************)
EXTENDS Integers

CONSTANTS
    Statements,         \* per direction, what the Energy Guard may state
    FailsafeLimits,     \* per direction, the failsafe limits configured at start
    FailsafeWrites,     \* per direction, those the Energy Guard may write later
    NoLimit,            \* no failsafe limit for production
    ProductionNominalMax,
    HeartbeatTimeout,   \* cache time of EEBus.heartbeat
    ReleaseTimeout,     \* failsafeReleaseTimeout
    MaxDuration         \* the longest duration of a limit

Directions == {"consumption", "production"}

Forever == -1

\* left: ticks until the limit ends, Forever for one without a duration.
Statement == [active : BOOLEAN, value : Int, left : (1 .. MaxDuration) \cup {Forever}]

ASSUME EEBusAssumption ==
    /\ MaxDuration \in Nat
    /\ Statements \in [Directions -> SUBSET Statement]
    /\ NoLimit \notin Nat
    /\ FailsafeLimits \in [consumption : SUBSET Nat, production : SUBSET (Nat \cup {NoLimit})]
    /\ FailsafeWrites \in [Directions -> SUBSET Nat]
    /\ ProductionNominalMax \in Nat \ {0}
    /\ HeartbeatTimeout \in Nat
    /\ ReleaseTimeout \in Nat

VARIABLES
    guard,          \* what the Energy Guard has stated last, and what is left of it
    stated,         \* consumptionLimit, productionLimit
    activated,      \* consumptionLimitActivated, productionLimitActivated
    failsafe,       \* failsafeConsumptionLimit, failsafeProductionLimit
    status,
    heartbeat,      \* ticks since the last heartbeat
    returned,       \* heartbeatReturned: ticks since then, or Zero
    following       \* limitReceived is not before statusUpdated

eebusVars == <<guard, stated, activated, failsafe, status, heartbeat, returned, following>>

\* A limit is activated some ticks ago, or Zero, or nil: nothing is known.
Zero == -1
Nil  == -2
Ages == 0 .. (MaxDuration + 1)

LimitActive(t) == t >= 0
ActivatedAt(active) == IF active THEN 0 ELSE Zero

\* Get returns an error.
HeartbeatLost == heartbeat > HeartbeatTimeout

\* The Energy Guard's limit, as long as it has not ended.
Stands(d) == guard[d].active /\ guard[d].left # 0

InForce(d) == LimitActive(activated[d])

TypeOK ==
    /\ guard \in [Directions -> [active : BOOLEAN, value : Nat,
                                 left : (0 .. MaxDuration) \cup {Forever}]]
    /\ stated \in [Directions -> [active : BOOLEAN, value : Nat, duration : 0 .. MaxDuration]]
    /\ activated \in [Directions -> Ages \cup {Zero, Nil}]
    /\ failsafe \in [consumption : Nat, production : Nat \cup {NoLimit}]
    /\ status \in {"normal", "failsafe"}
    /\ heartbeat \in 0 .. (HeartbeatTimeout + 1)
    /\ returned \in (0 .. ReleaseTimeout) \cup {Zero}
    /\ following \in BOOLEAN

Init ==
    /\ guard = [d \in Directions |-> [active |-> FALSE, value |-> 0, left |-> Forever]]
    /\ stated = [d \in Directions |-> [active |-> FALSE, value |-> 0, duration |-> 0]]
    /\ activated = [d \in Directions |-> Nil]
    /\ failsafe \in [consumption : FailsafeLimits["consumption"],
                    production : FailsafeLimits["production"]]
    /\ status = "normal"
    /\ heartbeat = HeartbeatTimeout + 1
    /\ returned = Zero
    /\ following = FALSE

-----------------------------------------------------------------------------
(* Events.                                                                 *)

\* The first connection: nothing is limited, and that is known.
Connect ==
    /\ \E d \in Directions : activated[d] = Nil
    /\ activated' = [d \in Directions |-> IF activated[d] = Nil THEN Zero ELSE activated[d]]
    /\ UNCHANGED <<guard, stated, failsafe, status, heartbeat, returned, following>>

\* Mutant: the clock of a limit in force goes on when it is stated again.
SetLimitDataGoesOn(d, limit) ==
    /\ stated' = [stated EXCEPT ![d] = limit]
    /\ following' = TRUE
    /\ activated' = activated

\* setConsumptionLimitData and setProductionLimitData: the duration of a limit
\* that is in force is counted anew.
SetLimitData(d, limit) ==
    /\ stated' = [stated EXCEPT ![d] = limit]
    /\ following' = TRUE
    /\ activated' = [activated EXCEPT ![d] = IF LimitActive(@) THEN 0 ELSE @]

\* The duration is what is left of the limit, zero for one that has none.
Received(l) ==
    [active |-> l.active, value |-> l.value, duration |-> IF l.left = Forever THEN 0 ELSE l.left]

\* Mutant: every limit is approved.
ApprovedAny(l) == l.value \in Int

Approved(l) == l.value >= 0

\* The Energy Guard writes a limit, which is stored if it is approved.
WriteLimit(d) ==
    /\ \E l \in Statements[d] :
          /\ Approved(l)
          /\ guard' = [guard EXCEPT ![d] = l]
          /\ SetLimitData(d, Received(l))
    /\ UNCHANGED <<failsafe, status, heartbeat, returned>>

\* The data of a limit that has been written before is notified again.
UpdateLimit(d) ==
    /\ guard[d].left # 0
    /\ SetLimitData(d, Received(guard[d]))
    /\ UNCHANGED <<guard, failsafe, status, heartbeat, returned>>

UpdateFailsafeLimit(d) ==
    /\ \E limit \in FailsafeWrites[d] :
          failsafe' = [failsafe EXCEPT ![d] = limit]
    /\ UNCHANGED <<guard, stated, activated, status, heartbeat, returned, following>>

UpdateHeartbeat ==
    /\ heartbeat' = 0
    /\ UNCHANGED <<guard, stated, activated, failsafe, status, returned, following>>

-----------------------------------------------------------------------------
(* The control loop: run is one of the following.                          *)

\* heartbeatReturned, as far as run has got.
Returning ==
    IF HeartbeatLost THEN Zero
    ELSE IF status = "failsafe" /\ returned = Zero THEN 0
    ELSE returned

\* Mutant: without a limit failsafe is not left.
ReleasingOnLimit == following

\* Failsafe is left on a limit received in failsafe, or after a time.
Releasing == following \/ Returning >= ReleaseTimeout

\* Mutant: a limit of the Energy Guard stays in force.
EnterFailsafeKeeps ==
    /\ HeartbeatLost /\ status = "normal"
    /\ status' = "failsafe"
    /\ following' = FALSE
    /\ returned' = Zero
    /\ UNCHANGED <<guard, stated, failsafe, heartbeat, activated>>

EnterFailsafe ==
    /\ HeartbeatLost /\ status = "normal"
    /\ status' = "failsafe"
    /\ following' = FALSE
    /\ returned' = Zero
    /\ activated' = [consumption |-> ActivatedAt(failsafe["consumption"] > 0),
                     production  |-> ActivatedAt(failsafe["production"] # NoLimit)]
    /\ UNCHANGED <<guard, stated, failsafe, heartbeat>>

StayInFailsafe ==
    /\ status = "failsafe"
    /\ HeartbeatLost \/ ~Releasing
    /\ returned' = Returning
    /\ UNCHANGED <<guard, stated, activated, failsafe, status, heartbeat, following>>

Expired(d, t) == stated[d].duration > 0 /\ t > stated[d].duration

\* The value that counts: a consumption limit of zero is none.
Limits(d) == d = "production" \/ stated[d].value > 0

\* Leaves failsafe first, if need be: nothing is in force then.  An inactive
\* limit that is stated as active is put in force, one in force is released when
\* it is no longer stated as active or when its duration is exceeded.
Operate ==
    /\ ~HeartbeatLost
    /\ status = "failsafe" => Releasing
    /\ LET since(d) == IF status = "failsafe" THEN Zero ELSE activated[d]
       IN  /\ activated' = [d \in Directions |->
                 IF ~LimitActive(since(d))
                 THEN IF stated[d].active THEN ActivatedAt(Limits(d)) ELSE since(d)
                 ELSE IF ~stated[d].active \/ Expired(d, since(d)) THEN Zero ELSE since(d)]
           /\ stated' = [d \in Directions |->
                 [stated[d] EXCEPT !.active = @ /\ ~(LimitActive(since(d)) /\ Expired(d, since(d)))]]
    /\ status' = "normal"
    /\ following' = (following /\ status = "normal")
    /\ returned' = Returning
    /\ UNCHANGED <<guard, failsafe, heartbeat>>

Run == EnterFailsafe \/ StayInFailsafe \/ Operate

-----------------------------------------------------------------------------
(* What the driver tells the site.                                         *)

\* effectiveConsumptionLimit and effectiveProductionLimit.
EffectiveLimit(d) ==
    IF status = "failsafe" /\ failsafe[d] # NoLimit THEN failsafe[d] ELSE stated[d].value

\* Nil, 0 for no limit, or the limit in force.
MaxConsumptionPower ==
    IF activated["consumption"] = Nil THEN Nil
    ELSE IF InForce("consumption") THEN EffectiveLimit("consumption")
    ELSE 0

\* The allowed percentage of the nominal power.
PercentOf(limit) ==
    IF limit >= ProductionNominalMax THEN 100 ELSE (limit * 100) \div ProductionNominalMax

CurtailedPercent ==
    IF activated["production"] = Nil THEN Nil
    ELSE IF InForce("production") THEN PercentOf(EffectiveLimit("production"))
    ELSE 100

-----------------------------------------------------------------------------

Older(age, last) == IF age \in 0 .. (last - 1) THEN age + 1 ELSE age

\* How far the age of a limit matters: it is only asked for to see whether the
\* duration is exceeded, and it is counted anew after failsafe.
Oldest(d) ==
    IF status = "failsafe" \/ stated[d].duration = 0 THEN 0 ELSE stated[d].duration + 1

Tick ==
    /\ guard' = [d \in Directions |->
                   [guard[d] EXCEPT !.left = IF @ > 0 THEN @ - 1 ELSE @]]
    /\ activated' = [d \in Directions |-> Older(activated[d], Oldest(d))]
    /\ heartbeat' = Older(heartbeat, HeartbeatTimeout + 1)
    /\ returned' = Older(returned, ReleaseTimeout)
    /\ UNCHANGED <<stated, failsafe, status, following>>

Event ==
    \/ Connect
    \/ \E d \in Directions : WriteLimit(d) \/ UpdateLimit(d) \/ UpdateFailsafeLimit(d)
    \/ UpdateHeartbeat

Next == Event \/ Run \/ Tick

-----------------------------------------------------------------------------
(* Properties.                                                             *)

\* The site is told the failsafe limit, as it is configured.
FailsafeTold(d) ==
    IF d = "consumption" THEN MaxConsumptionPower = failsafe[d]
    ELSE CurtailedPercent = IF failsafe[d] = NoLimit THEN 100 ELSE PercentOf(failsafe[d])

\* The driver enters failsafe with the failsafe limits, and as long as it is in
\* failsafe the site is told them as they are configured, whatever the Energy Guard
\* states or has stated, before or meanwhile.  (run returns early in failsafe, but
\* events do not.)  Only a failsafe limit that was not configured when failsafe was
\* entered, and is written in failsafe, stays without effect, and then nothing is
\* in force: that is decided when failsafe is entered, and not again.
FailsafeHeld ==
    [][\A d \in Directions :
           status' = "failsafe" =>
               \/ FailsafeTold(d)'
               \/ status = "failsafe" /\ ~InForce(d) /\ ~InForce(d)']_eebusVars

\* A limit that is in force and stands, stays in force: it is not taken for
\* expired, although its duration is stated anew, as what is left of it, while
\* the driver measures it from when it was put in force.  Leaving failsafe does
\* not interrupt it either.  (setConsumptionLimitData: "an already-active limit
\* must restart the clock".)
StandingLimitKept ==
    [][\A d \in Directions :
           /\ InForce(d)
           /\ Stands(d) /\ Stands(d)' /\ Limits(d)'
           /\ status' = "normal"
           => InForce(d)']_eebusVars
=============================================================================
