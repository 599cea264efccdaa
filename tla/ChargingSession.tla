---------------------------- MODULE ChargingSession ----------------------------
(***************************************************************************)
(* How a loadpoint counts and books the energy of a charging session:      *)
(* the charge rater (core/wrapper/chargerater.go), the energy metrics, the *)
(* session in memory (core/loadpoint_session.go) and its row in the        *)
(* database (core/session/db.go), driven by the charger's status events.   *)
(* The charger has no energy counter of its own: the charge meter counts,  *)
(* and its readings may fail.  The process may crash, be shut down and be  *)
(* started again while the vehicle goes on charging.                       *)
(***************************************************************************)
EXTENDS Integers, Sequences, Functions

CONSTANTS
    MaxMeter,           \* bound: the energy delivered in a behaviour
    MaxRows,            \* bound: no plug or restart beyond so many rows
    MaxFaults,          \* bound: failed readings in a behaviour
    Failing,            \* readings that may fail
    Garbled,            \* readings that may return register garbage
    MaxSessionEnergy,   \* maxSessionEnergy: above it a rating is garbage
    HasConnectionTimer, \* the charger is an api.ConnectionTimer
    NoReading,          \* a reading that failed, or a nil *float64
    NoSession           \* Loadpoint.session is nil

\* Where the code reads the charge meter, in the order of a cycle.
Reads == {"progress", "stop", "connect", "create", "start", "boot"}

ASSUME ReadAssumption == Failing \subseteq Reads /\ Garbled \subseteq Reads
ASSUME BoundAssumption ==
    /\ MaxMeter \in Nat /\ MaxRows \in Nat /\ MaxFaults \in Nat
    /\ MaxSessionEnergy \in Nat /\ MaxSessionEnergy >= MaxMeter
ASSUME TimerAssumption == HasConnectionTimer \in BOOLEAN
ASSUME NoReadingAssumption == NoReading \notin Int
OptReading == Int \cup {NoReading}
\* A session in memory and in the database.
Sessions ==
    [row : Nat, start : OptReading, created : BOOLEAN, finished : BOOLEAN, energy : Int]
Rows == [start : OptReading, finished : BOOLEAN, energy : Int]

ASSUME NoSessionAssumption == NoSession \notin Sessions

Statuses == {"none", "A", "B", "C"}
Notifications == {"none", "connect", "disconnect"}
\* What a loadpoint knows, with the memory of its charge rater and metrics.
Memory ==
    [up : BOOLEAN, updating : BOOLEAN, status : Statuses, charging : BOOLEAN,
     startEnergy : OptReading, charged : Int, total : Int,
     session : Sessions \cup {NoSession}, connectPending : BOOLEAN,
     notified : Notifications, repeated : BOOLEAN]

VARIABLES
    meter,          \* the charge meter's total
    plug,           \* the charger's status: A no vehicle, B connected, C charging
    replugged,      \* the vehicle was plugged in since the status was last read
    lp,             \* the loadpoint's memory
    db,             \* the loadpoint's sessions in the database, by id
    faults,         \* readings that failed so far
    observed,       \* energy delivered while the loadpoint knew of the charging
    clean           \* no failed reading, crash or shutdown so far

vars == <<meter, plug, replugged, lp, db, faults, observed, clean>>

FirstReading == 1
Garbage == FirstReading + MaxSessionEnergy + MaxMeter + 1

\* A loadpoint that has just been created.
Boot == [up |-> TRUE, updating |-> FALSE, status |-> "none", charging |-> FALSE,
         startEnergy |-> NoReading, charged |-> 0, total |-> 0,
         session |-> NoSession, connectPending |-> FALSE,
         notified |-> "none", repeated |-> FALSE]

\* The process is not running: its memory is lost.
Down == [Boot EXCEPT !.up = FALSE]

Init ==
    /\ meter = FirstReading
    /\ plug \in {"A", "B", "C"}
    /\ replugged = FALSE
    /\ lp = Boot
    /\ db = <<>>
    /\ faults = 0
    /\ observed = 0
    /\ clean = TRUE

-----------------------------------------------------------------------------
(* The charger and the vehicle.                                            *)

Plug ==
    /\ plug = "A"
    /\ Len(db) < MaxRows
    /\ plug' = "B"
    /\ replugged' = TRUE
    /\ UNCHANGED <<meter, lp, db, faults, observed, clean>>

Unplug ==
    /\ plug # "A"
    /\ plug' = "A"
    /\ UNCHANGED <<meter, replugged, lp, db, faults, observed, clean>>

\* The vehicle starts or stops drawing power.
Toggle ==
    /\ plug # "A"
    /\ plug' = IF plug = "B" THEN "C" ELSE "B"
    /\ UNCHANGED <<meter, replugged, lp, db, faults, observed, clean>>

Flow ==
    /\ plug = "C"
    /\ meter < FirstReading + MaxMeter
    /\ meter' = meter + 1
    /\ observed' = IF lp.up /\ lp.status = "C" THEN observed + 1 ELSE observed
    /\ UNCHANGED <<plug, replugged, lp, db, faults, clean>>

-----------------------------------------------------------------------------
(* Handlers.  Each takes and returns the loadpoint's memory m and the      *)
(* database d, as a record; reading gives the value of each meter reading. *)

\* Mutant: the id is not kept, every save inserts a row.
PersistAnew(s) ==
    LET rec == [start |-> s.m.session.start, finished |-> s.m.session.finished,
                energy |-> s.m.session.energy]
    IN  [m |-> s.m, d |-> Append(s.d, rec)]

\* DB.Persist: saving a session for the first time gives it an id.
Persist(s) ==
    LET new == s.m.session.row = 0
        row == IF new THEN Len(s.d) + 1 ELSE s.m.session.row
        rec == [start |-> s.m.session.start, finished |-> s.m.session.finished,
                energy |-> s.m.session.energy]
    IN  [m |-> [s.m EXCEPT !.session.row = row],
         d |-> IF new THEN Append(s.d, rec) ELSE [s.d EXCEPT ![row] = rec]]

\* EnergyMetrics.Update: a lower value is ignored.
UpdateMetrics(m, chargedKWh) ==
    [m EXCEPT !.total = IF chargedKWh > @ THEN chargedKWh ELSE @]

\* stopSession and finalizeSessionEnergy save the metrics' total.
SaveTotal(s) == Persist([s EXCEPT !.m.session.energy = s.m.total])

Booked(m) == m.session # NoSession /\ m.session.created

\* stopSession: nothing is saved before charging has started.
StopSession(s) ==
    IF Booked(s.m) THEN SaveTotal([s EXCEPT !.m.session.finished = TRUE]) ELSE s

\* createSession.
NewSession(reading) ==
    [row |-> 0, start |-> reading["create"], created |-> FALSE, finished |-> FALSE, energy |-> 0]

\* Mutant: the energy of the previous session is not reset.
VehicleConnectKept(s, reading) ==
    LET new == s.m.session = NoSession
    IN  [s EXCEPT !.m = [s.m EXCEPT
            !.startEnergy = reading["connect"],
            !.total = IF new THEN 0 ELSE s.m.total,
            !.session = IF new THEN NewSession(reading) ELSE s.m.session]]

\* evVehicleConnect: ChargeRater.StartCharge(false), then createSession.
VehicleConnect(s, reading) ==
    LET new == s.m.session = NoSession
    IN  [s EXCEPT !.m = [s.m EXCEPT
            !.startEnergy = reading["connect"],
            !.charged = 0,
            !.total = IF new THEN 0 ELSE s.m.total,
            !.session = IF new THEN NewSession(reading) ELSE s.m.session]]

\* evChargeStart: ChargeRater.StartCharge(true), and the first time the session
\* gets its creation date and is saved.
ChargeStart(s, reading) ==
    LET m == [s.m EXCEPT !.startEnergy = reading["start"], !.charging = TRUE]
    IN  IF m.session = NoSession THEN [s EXCEPT !.m = m]
        ELSE Persist([s EXCEPT !.m = [m EXCEPT !.session.created = TRUE]])

\* evChargeStop: ChargeRater.StopCharge, then stopSession.
ChargeStop(s, reading) ==
    LET known == reading["stop"] # NoReading /\ s.m.startEnergy # NoReading
    IN  StopSession([s EXCEPT !.m = [s.m EXCEPT
            !.charging = FALSE,
            !.charged = IF known THEN s.m.charged + reading["stop"] - s.m.startEnergy
                        ELSE s.m.charged]])

\* finalizeSessionEnergy: the rater has stopped and reads no meter.
FinalizeSessionEnergy(s) ==
    IF Booked(s.m) /\ s.m.charged > s.m.session.energy
    THEN SaveTotal([s EXCEPT !.m = UpdateMetrics(s.m, s.m.charged)])
    ELSE s

\* Mutant: the session is closed with what it had when charging stopped.
VehicleDisconnectAsIs(s) == [s EXCEPT !.m.session = NoSession]

\* evVehicleDisconnect.
VehicleDisconnect(s) == [FinalizeSessionEnergy(s) EXCEPT !.m.session = NoSession]

-----------------------------------------------------------------------------
(* Status changes.                                                         *)

Notify(m, event) ==
    [m EXCEPT !.notified = event, !.repeated = @ \/ m.notified = event]

\* Mutant: the notification stays pending when the vehicle has gone.
NotifyStatusKept(prev, status, s) ==
    IF prev = "none" THEN s
    ELSE IF status = "A" THEN
        IF s.m.connectPending THEN s ELSE [s EXCEPT !.m = Notify(s.m, "disconnect")]
    ELSE IF prev = "A" THEN [s EXCEPT !.m.connectPending = TRUE]
    ELSE s

\* Connecting is notified later, when the vehicle is known; a vehicle that
\* leaves before is not notified at all.  Nothing is notified at startup.
NotifyStatus(prev, status, s) ==
    IF prev = "none" THEN s
    ELSE IF status = "A" THEN
        IF s.m.connectPending THEN [s EXCEPT !.m.connectPending = FALSE]
        ELSE [s EXCEPT !.m = Notify(s.m, "disconnect")]
    ELSE IF prev = "A" THEN [s EXCEPT !.m.connectPending = TRUE]
    ELSE s

\* statusEvents and the handlers, for one status change, in order.
ChangeStatus(s, status, reading) ==
    LET prev == s.m.status
        s0 == [s EXCEPT !.m.status = status]
        s1 == IF prev = "A" \/ (status # "A" /\ prev = "none")
              THEN VehicleConnect(s0, reading) ELSE s0
        s2 == IF status = "C" THEN ChargeStart(s1, reading) ELSE s1
        s3 == IF prev = "C" THEN ChargeStop(s2, reading) ELSE s2
        s4 == IF status = "A" THEN VehicleDisconnect(s3) ELSE s3
    IN  NotifyStatus(prev, status, s4)

\* getStatusChanges: when the connection is younger than before, the vehicle has
\* been away in between.
Exchanged(ignore) ==
    HasConnectionTimer /\ replugged /\ ~ignore /\ plug # "A" /\ lp.status \notin {"A", "none"}

\* updateChargerStatus; an interruption while switching phases is ignored.
UpdateChargerStatus(s, ignore, reading) ==
    IF Exchanged(ignore) THEN ChangeStatus(ChangeStatus(s, "A", reading), plug, reading)
    ELSE IF ignore \/ plug = lp.status THEN s
    ELSE ChangeStatus(s, plug, reading)

-----------------------------------------------------------------------------
(* The loadpoint's cycle.                                                  *)

\* ChargeRater.ChargedEnergy: a start that could not be read is made up for.
LatchStart(m, reading) ==
    IF m.charging /\ m.startEnergy = NoReading THEN [m EXCEPT !.startEnergy = reading] ELSE m

\* Mutant: garbage is not ignored.
PublishChargeProgressAny(m, reading) ==
    IF ~m.charging THEN UpdateMetrics(m, m.charged)
    ELSE IF reading = NoReading THEN m
    ELSE LET l == LatchStart(m, reading)
         IN  UpdateMetrics(l, l.charged + reading - l.startEnergy)

\* publishChargeProgress: what the rater has counted, unless it is implausible.
PublishChargeProgress(m, reading) ==
    LET Plausible(n, f) == IF f > MaxSessionEnergy THEN n ELSE UpdateMetrics(n, f)
    IN  IF ~m.charging THEN Plausible(m, m.charged)
        ELSE IF reading = NoReading THEN m
        ELSE LET l == LatchStart(m, reading)
             IN  Plausible(l, l.charged + reading - l.startEnergy)

\* maybePushVehicleConnect.
MaybePushVehicleConnect(s, settled) ==
    IF s.m.connectPending /\ settled
    THEN [s EXCEPT !.m = Notify([s.m EXCEPT !.connectPending = FALSE], "connect")]
    ELSE s

\* The meter's readings of a step that makes the reads rs, at most one of which
\* is bad.
Readings(rs) ==
    LET good == [r \in Reads |-> meter]
    IN  {good}
        \cup (IF faults = MaxFaults THEN {}
              ELSE {[good EXCEPT ![r] = NoReading] : r \in Failing \cap rs}
                   \cup {[good EXCEPT ![r] = Garbage] : r \in Garbled \cap rs})

Fault(reading) == \E r \in Reads : reading[r] # meter

CountFaults(reading) ==
    /\ faults' = IF Fault(reading) THEN faults + 1 ELSE faults
    /\ clean' = (clean /\ ~Fault(reading))

\* Loadpoint.Update first reads the progress ...
UpdateProgress(reading) ==
    /\ lp.up
    /\ ~lp.updating
    /\ lp' = [PublishChargeProgress(lp, reading["progress"]) EXCEPT !.updating = TRUE]
    /\ CountFaults(reading)
    /\ UNCHANGED <<meter, plug, replugged, db, observed>>

\* ... then the status, with its events, and lastly notifies of the connection
\* if vehicle detection has settled.
UpdateStatus(reading, ignore, settled) ==
    LET s == MaybePushVehicleConnect(
                UpdateChargerStatus([m |-> lp, d |-> db], ignore, reading), settled)
    IN  /\ lp.up
        /\ lp.updating
        /\ ignore => plug = "B" /\ lp.status = "C"
        /\ lp' = [s.m EXCEPT !.updating = FALSE]
        /\ db' = s.d
        /\ replugged' = FALSE
        /\ CountFaults(reading)
        /\ UNCHANGED <<meter, plug, observed>>

\* Update returns before it reads the status: the charger is dimmed, or it
\* cannot be asked.
UpdateReturn ==
    /\ lp.up
    /\ lp.updating
    /\ lp' = [lp EXCEPT !.updating = FALSE]
    /\ UNCHANGED <<meter, plug, replugged, db, faults, observed, clean>>

-----------------------------------------------------------------------------
(* The process.                                                            *)

Crash ==
    /\ lp.up
    /\ lp' = Down
    /\ clean' = FALSE
    /\ UNCHANGED <<meter, plug, replugged, db, faults, observed>>

\* The shutdown function registered for the loadpoint is stopSession.
Shutdown ==
    LET s == StopSession([m |-> lp, d |-> db])
    IN  /\ lp.up
        /\ lp' = Down
        /\ db' = s.d
        /\ clean' = FALSE
        /\ UNCHANGED <<meter, plug, replugged, faults, observed>>

\* chargeMeterTotal: zero when the meter cannot be read.
ChargeMeterTotal(reading) == IF reading = NoReading THEN 0 ELSE reading

\* ClosePendingSessionsInHistory: a session that was never stopped ends where
\* the next one started or, when it is the last, at the meter's total.
ClosePendingSessionsInHistory(total) ==
    LET stop(i) == IF i = Len(db) THEN total ELSE db[i + 1].start
    IN  [i \in DOMAIN db |->
            IF ~db[i].finished /\ db[i].start # NoReading /\ stop(i) # NoReading
            THEN [db[i] EXCEPT !.energy = stop(i) - db[i].start]
            ELSE db[i]]

\* Site.prepare at startup.
Restart(reading) ==
    /\ ~lp.up
    /\ Len(db) < MaxRows
    /\ lp' = Boot
    /\ db' = ClosePendingSessionsInHistory(ChargeMeterTotal(reading["boot"]))
    /\ replugged' = FALSE
    /\ CountFaults(reading)
    /\ UNCHANGED <<meter, plug, observed>>

Next ==
    \/ Plug
    \/ Unplug
    \/ Toggle
    \/ Flow
    \/ \E reading \in Readings({"progress"}) : UpdateProgress(reading)
    \/ \E reading \in Readings({"stop", "connect", "create", "start"}), ignore, settled \in BOOLEAN :
           UpdateStatus(reading, ignore, settled)
    \/ UpdateReturn
    \/ Crash
    \/ Shutdown
    \/ \E reading \in Readings({"boot"}) : Restart(reading)

Spec == Init /\ [][Next]_vars

-----------------------------------------------------------------------------
(* Properties.                                                             *)

\* Types of the variables.
TypeOK ==
    /\ meter \in FirstReading .. FirstReading + MaxMeter
    /\ plug \in {"A", "B", "C"}
    /\ replugged \in BOOLEAN
    /\ lp \in Memory
    /\ db \in Seq(Rows) /\ Len(db) <= MaxRows + 1
    /\ faults \in 0 .. MaxFaults
    /\ observed \in Nat /\ clean \in BOOLEAN

\* No reading that fails while the process runs (Failing) and no garbage that is read
\* while charging (Garbled), in whatever order with restarts, stops and exchanged
\* vehicles, gives a session a negative energy, or more than the meter has counted.
\* A reading that fails at startup (Site.Boot takes it for zero) and garbage that is
\* read when charging stops (finalizeSessionEnergy books it) can: what is checked and
\* proved excludes them.
SessionsPlausible == \A i \in DOMAIN db : db[i].energy \in 0 .. meter - FirstReading

BookedEnergy == SumFunction([i \in DOMAIN db |-> db[i].energy])

\* The history as a whole, with the energy of its sessions and the meter's
\* counter as the abstract ledger: no restart, replugging or interruption, and no
\* reading that fails while the process runs or is garbled while charging, makes evcc
\* book energy twice or forget what it had booked.  As for SessionsPlausible, a failed
\* reading at startup and garbage when charging stops are excluded.
Ledger == INSTANCE SessionLedger WITH
    delivered <- meter - FirstReading, booked <- BookedEnergy

ImplementsLedger == Ledger!LedgerSpec

\* While nothing fails, the sessions hold exactly the energy that was delivered
\* while the loadpoint knew of the charging, once the vehicle has gone: what
\* flowed after the last reading before it stopped, and in every later leg, is
\* made up for on disconnect (finalizeSessionEnergy).
BooksWhatItSaw ==
    clean /\ lp.session = NoSession => BookedEnergy = observed

\* The user hears of a connection and of a disconnection in turn: a vehicle
\* that leaves before it was identified is not mentioned.
NotifiedInTurn == ~lp.repeated
=============================================================================
