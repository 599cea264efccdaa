------------------------- MODULE ChargingSessionProofs -------------------------
(***************************************************************************)
(* What ChargingSession guarantees for any meter and number of sessions.   *)
(* Types, notifications and the exactness of a clean history hold whatever *)
(* readings fail or are garbage (Steady, Ordered). The bounds on sums need *)
(* ReadingsGood: the meter can be read at startup, and only what is read   *)
(* while charging may be garbage.                                          *)
(*                                                                         *)
(* The sessions of the history lie one after the other: w[i] is what the   *)
(* meter had counted when the vehicle of the i-th session was connected,   *)
(* also when that reading failed and the code does not know it.            *)
(***************************************************************************)
EXTENDS ChargingSession, SumTheorems

ReadingsGood == "boot" \notin Failing /\ Garbled \subseteq {"progress"}

\* What a handler takes and returns.
State == [m : Memory, d : Seq(Rows)]

\* Where the session in memory is in the history, or will be.
Slot(s) == IF s.m.session.row = 0 THEN Len(s.d) + 1 ELSE s.m.session.row

\* What was counted from b before the reading x, or what garbage took away.
Countable(charged, x, b) == charged >= 0 \/ charged <= x + x - b - Garbage

\* The rater never counts what the meter has not since b, except that a start
\* read as garbage makes the count negative.
Rated(m, b) ==
    /\ m.charged <= meter - b
    /\ Countable(m.charged, meter, b)
    /\ m.total \in 0 .. meter - b
    /\ m.charging /\ m.startEnergy \notin {NoReading, Garbage} =>
          /\ m.startEnergy \in b .. meter
          /\ m.charged <= m.startEnergy - b
          /\ Countable(m.charged, m.startEnergy, b)

\* No session has energy that flowed before it began, or after the next began.
RowsKept(d, w) ==
    \A i \in 1 .. Len(d) :
        /\ w[i] \in FirstReading .. meter
        /\ d[i].energy \in Nat
        /\ d[i].start # NoReading => d[i].start = w[i]
        /\ w[i] + d[i].energy <= IF i = Len(d) THEN meter ELSE w[i + 1]

\* The session in memory is the last row, or will come after it.
SessionFits(s, w) ==
    s.m.session # NoSession =>
        /\ w[Slot(s)] \in FirstReading .. meter
        /\ s.m.session.energy \in 0 .. s.m.total
        /\ s.m.session.start # NoReading => s.m.session.start = w[Slot(s)]
        /\ s.m.session.row # 0 =>
              /\ s.m.session.row = Len(s.d)
              /\ s.d[Len(s.d)].start = s.m.session.start
              /\ s.d[Len(s.d)].energy <= s.m.session.energy
        /\ s.m.session.row = 0 /\ Len(s.d) # 0 =>
              w[Len(s.d)] + s.d[Len(s.d)].energy <= w[Len(s.d) + 1]

\* It is saved as soon as it has a creation date.
SavedOnce(s) ==
    s.m.session # NoSession => (s.m.session.created <=> s.m.session.row # 0)

Kept(s, w) ==
    /\ s \in State /\ w \in [Nat -> Int]
    /\ RowsKept(s.d, w) /\ SessionFits(s, w) /\ SavedOnce(s)
    /\ s.m.session # NoSession => Rated(s.m, w[Slot(s)])

-----------------------------------------------------------------------------
\* What the rater would count if it read the meter now.
Count(m) == m.charged + IF m.charging THEN meter - m.startEnergy ELSE 0

\* The energy of each row, and of all rows before the k-th.
Energies(d) == [i \in DOMAIN d |-> d[i].energy]
BookedBefore(d, k) == SumFunctionOnSet(Energies(d), 1 .. k - 1)

\* Nothing that the loadpoint saw flow is missing: what is not booked for
\* earlier sessions is what the rater counts for this one.
Exact(s) ==
    IF s.m.session = NoSession THEN observed = BookedBefore(s.d, Len(s.d) + 1)
    ELSE /\ s.m.charging => s.m.startEnergy \in Int
         /\ observed = BookedBefore(s.d, Slot(s)) + Count(s.m)
         /\ s.m.total <= Count(s.m)
         /\ s.m.session.row # 0 => s.d[Len(s.d)].energy = s.m.session.energy
         /\ s.m.session.row = 0 => s.m.charged = 0 /\ ~s.m.charging

\* Every reading shows what the meter has counted.
Clear(reading) == \A r \in Reads : reading[r] = meter

\* No session's energy shrinks, and none is removed.
Grows(d, e) == Len(d) <= Len(e) /\ \A i \in 1 .. Len(d) : d[i].energy <= e[i].energy

\* The k-th row, the last one or the next, gets the energy x.
Written(d, e, k, x) ==
    /\ k \in {Len(d), Len(d) + 1} /\ Len(e) = k /\ e[k].energy = x
    /\ \A i \in 1 .. Len(d) : i # k => e[i] = d[i]

-----------------------------------------------------------------------------
SameNotice(m, n) ==
    /\ n.status = m.status
    /\ n.connectPending = m.connectPending
    /\ n.notified = m.notified
    /\ n.repeated = m.repeated

SameCount(m, n) ==
    /\ n.charging = m.charging
    /\ n.startEnergy = m.startEnergy
    /\ n.charged = m.charged
    /\ n.total = m.total

\* The handler leaves all but the session alone.
SessionOnly(m, n) == SameNotice(m, n) /\ n.up = m.up /\ SameCount(m, n)

\* What the loadpoint knows agrees with the status it has seen ...
Agreed(m) ==
    /\ m.status = "C" <=> m.charging
    /\ m.session # NoSession <=> m.status \in {"B", "C"}

\* ... and so does what the user has heard.
Heard(status, m) ==
    /\ ~m.repeated
    /\ status = "none" => ~m.connectPending /\ m.notified = "none"
    /\ status = "A" => ~m.connectPending /\ m.notified # "connect"
    /\ status \in {"B", "C"} =>
          IF m.connectPending THEN m.notified # "connect" ELSE m.notified # "disconnect"

MeterOK == meter \in FirstReading .. FirstReading + MaxMeter

\* The readings of a handler that reads no garbage.
Sound(reading) == \A r \in Reads : reading[r] \in {meter, NoReading}

-----------------------------------------------------------------------------
(* The history.                                                            *)

LEMMA RowTypes ==
    ASSUME NEW d \in Seq(Rows)
    PROVE  /\ Len(d) \in Nat /\ DOMAIN d = 1 .. Len(d)
           /\ \A i \in 1 .. Len(d) : d[i] \in Rows /\ d[i].energy \in Int
  <1>1. \A i \in 1 .. Len(d) : d[i] \in Rows
    OBVIOUS
  <1>2. \A r \in Rows : r.energy \in Int
    BY DEF Rows
  <1> QED
    BY <1>1, <1>2

LEMMA RowsAre ==
    ASSUME NEW n \in Nat, NEW d \in [1 .. n -> Rows]
    PROVE  d \in Seq(Rows) /\ Len(d) = n
  OBVIOUS

LEMMA GrowsOn ==
    ASSUME NEW d \in Seq(Rows), NEW e \in Seq(Rows), NEW f \in Seq(Rows),
           Grows(d, e), Grows(e, f)
    PROVE  Grows(d, f)
  <1>1. /\ Len(d) \in Nat /\ Len(e) \in Nat /\ Len(f) \in Nat
        /\ \A i \in 1 .. Len(d) : d[i].energy \in Int
        /\ \A i \in 1 .. Len(e) : e[i].energy \in Int
        /\ \A i \in 1 .. Len(f) : f[i].energy \in Int
    BY RowTypes
  <1> QED
    BY <1>1 DEF Grows

LEMMA GrowsNot == \A d \in Seq(Rows) : Grows(d, d)
  BY RowTypes DEF Grows

\* The rows before k are as they were.
LEMMA BeforeKept ==
    ASSUME NEW d \in Seq(Rows), NEW e \in Seq(Rows), NEW k \in Nat,
           k <= Len(d) + 1, k <= Len(e) + 1,
           \A i \in 1 .. k - 1 : e[i].energy = d[i].energy
    PROVE  BookedBefore(e, k) = BookedBefore(d, k)
  <1> DEFINE I == 1 .. k - 1
  <1>1. IsFiniteSet(I)
    BY FS_Interval
  <1>2. I \subseteq 1 .. Len(d) /\ I \subseteq 1 .. Len(e)
    OBVIOUS
  <1>3. \A i \in I : Energies(d)[i] \in Int /\ Energies(e)[i] = Energies(d)[i]
    BY <1>2, RowTypes DEF Energies
  <1> HIDE DEF I
  <1>4. SumFunctionOnSet(Energies(e), I) = SumFunctionOnSet(Energies(d), I)
    BY <1>1, <1>3, SumAgree
  <1> QED
    BY <1>4 DEF I, BookedBefore

\* One row more.
LEMMA BeforeNext ==
    ASSUME NEW d \in Seq(Rows), NEW k \in 1 .. Len(d)
    PROVE  /\ BookedBefore(d, k + 1) = BookedBefore(d, k) + d[k].energy
           /\ BookedBefore(d, k) \in Int
  <1> DEFINE I == 1 .. k - 1
  <1>1. IsFiniteSet(I)
    BY FS_Interval
  <1>2. I \cup {k} = 1 .. k /\ k \notin I /\ (k + 1) - 1 = k
    OBVIOUS
  <1>3. \A i \in 1 .. k : Energies(d)[i] = d[i].energy /\ d[i].energy \in Int
    BY RowTypes DEF Energies
  <1> HIDE DEF I
  <1>4. \A i \in I \cup {k} : Energies(d)[i] \in Int
    BY <1>2, <1>3
  <1>5. SumFunctionOnSet(Energies(d), I \cup {k})
            = SumFunctionOnSet(Energies(d), I) + Energies(d)[k]
    BY <1>1, <1>2, <1>4, SumAdd
  <1>6. SumFunctionOnSet(Energies(d), I) \in Int
    BY <1>1, <1>4, SumInt
  <1>7. /\ BookedBefore(d, k) = SumFunctionOnSet(Energies(d), I)
        /\ BookedBefore(d, k + 1) = SumFunctionOnSet(Energies(d), I \cup {k})
    BY <1>2 DEF I, BookedBefore
  <1>8. Energies(d)[k] = d[k].energy
    BY <1>3
  <1> QED
    BY <1>5, <1>6, <1>7, <1>8

LEMMA BeforeInt ==
    ASSUME NEW d \in Seq(Rows), NEW k \in 1 .. Len(d) + 1
    PROVE  BookedBefore(d, k) \in Int
  <1> DEFINE I == 1 .. k - 1
  <1>1. IsFiniteSet(I)
    BY FS_Interval
  <1>2. \A i \in I : Energies(d)[i] \in Int
    BY RowTypes DEF Energies
  <1> HIDE DEF I
  <1>3. SumFunctionOnSet(Energies(d), I) \in Int
    BY <1>1, <1>2, SumInt
  <1> QED
    BY <1>3 DEF I, BookedBefore

-----------------------------------------------------------------------------
(* The handlers.                                                           *)

\* A field of the loadpoint's memory is changed.
LEMMA Stored ==
    ASSUME NEW m \in Memory
    PROVE  /\ \A x \in BOOLEAN : [m EXCEPT !.up = x] \in Memory
           /\ \A x \in Statuses : [m EXCEPT !.status = x] \in Memory
           /\ \A x \in BOOLEAN : [m EXCEPT !.updating = x] \in Memory
           /\ \A x \in BOOLEAN : [m EXCEPT !.charging = x] \in Memory
           /\ \A x \in OptReading : [m EXCEPT !.startEnergy = x] \in Memory
           /\ \A x \in Int : [m EXCEPT !.charged = x] \in Memory
           /\ \A x \in Int : [m EXCEPT !.total = x] \in Memory
           /\ \A x \in Sessions \cup {NoSession} : [m EXCEPT !.session = x] \in Memory
           /\ \A x \in BOOLEAN : [m EXCEPT !.connectPending = x] \in Memory
           /\ \A x \in Notifications : [m EXCEPT !.notified = x] \in Memory
           /\ \A x \in BOOLEAN : [m EXCEPT !.repeated = x] \in Memory
  BY DEF Memory

-----------------------------------------------------------------------------
(* What the handlers do whatever the meter reads.                          *)

Sane(s) == s \in State /\ SavedOnce(s)

\* Readings of any kind: right, failed or garbage.
Measured(reading) == \A r \in Reads : reading[r] \in OptReading

\* The handler leaves what is said to the user alone.
Follows(s, t) == Sane(t) /\ SameNotice(s.m, t.m) /\ t.m.up = s.m.up

LEMMA SaneIs ==
    ASSUME NEW s, Sane(s)
    PROVE  /\ s \in State /\ s.m \in Memory /\ s.d \in Seq(Rows) /\ Len(s.d) \in Nat
           /\ s.m.status \in Statuses /\ s.m.charging \in BOOLEAN
           /\ s.m.charged \in Int /\ s.m.total \in Int /\ s.m.startEnergy \in OptReading
           /\ s.m.session # NoSession => s.m.session \in Sessions /\ s.m.session.row \in Nat
  BY DEF Sane, State, Memory, Sessions

\* The memory is replaced by one with the same session.
LEMMA SaneStored ==
    ASSUME NEW s, Sane(s), NEW m \in Memory, m.session = s.m.session
    PROVE  LET t == [s EXCEPT !.m = m] IN Sane(t) /\ t.m = m /\ t.d = s.d
  <1> DEFINE t == [s EXCEPT !.m = m]
  <1>1. t \in State /\ t.m = m /\ t.d = s.d
    BY DEF Sane, State
  <1> HIDE DEF t
  <1> QED
    BY <1>1 DEF Sane, SavedOnce, t

\* The memory gets another session.
LEMMA SessionStored ==
    ASSUME NEW s, s \in State, NEW ses \in Sessions
    PROVE  LET t == [s EXCEPT !.m = [s.m EXCEPT !.session = ses]] IN
           t \in State /\ t.m.session = ses /\ t.d = s.d /\ SessionOnly(s.m, t.m)
  <1> DEFINE m == [s.m EXCEPT !.session = ses]
             t == [s EXCEPT !.m = m]
  <1>1. s.m \in Memory
    BY DEF State
  <1>2. m \in Memory /\ m.session = ses /\ SessionOnly(s.m, m)
    BY <1>1, Stored DEF Memory, SessionOnly, SameNotice, SameCount
  <1> HIDE DEF m
  <1>3. t \in State /\ t.m = m /\ t.d = s.d
    BY <1>2 DEF State
  <1> QED
    BY <1>2, <1>3 DEF m

LEMMA PersistedSane ==
    ASSUME NEW s \in State, s.m.session # NoSession
    PROVE  LET t == Persist(s)
               row == IF s.m.session.row = 0 THEN Len(s.d) + 1 ELSE s.m.session.row
           IN  /\ t \in State /\ SessionOnly(s.m, t.m)
               /\ t.m.session = [s.m.session EXCEPT !.row = row]
               /\ t.m.session \in Sessions /\ row \in Nat /\ row # 0
               /\ Len(t.d) = IF s.m.session.row = 0 THEN Len(s.d) + 1 ELSE Len(s.d)
  <1> DEFINE ses == s.m.session
             d == s.d
             row == IF ses.row = 0 THEN Len(d) + 1 ELSE ses.row
             rec == [start |-> ses.start, finished |-> ses.finished, energy |-> ses.energy]
             new == [ses EXCEPT !.row = row]
             t == Persist(s)
  <1>1. s.m \in Memory /\ d \in Seq(Rows) /\ ses \in Sessions /\ Len(d) \in Nat
    BY DEF State, Memory
  <1>2. rec \in Rows
    BY <1>1 DEF Sessions, Rows
  <1>3. row \in Nat /\ row # 0
    BY <1>1 DEF Sessions
  <1>4. t.m = [s.m EXCEPT !.session.row = row]
    BY DEF Persist
  <1>5. t = [m |-> t.m, d |-> t.d]
    BY DEF Persist
  <1>6. t.d \in Seq(Rows) /\ Len(t.d) = IF ses.row = 0 THEN Len(d) + 1 ELSE Len(d)
    <2>1. CASE ses.row = 0
      <3>1. t.d = Append(d, rec)
        BY <2>1 DEF Persist
      <3> HIDE DEF t, d, rec
      <3> QED
        BY <1>1, <1>2, <2>1, <3>1
    <2>2. CASE ses.row # 0
      <3>1. t.d = [d EXCEPT ![ses.row] = rec]
        BY <2>2 DEF Persist
      <3> HIDE DEF t, d, rec
      <3>2. DOMAIN d = 1 .. Len(d) /\ \A i \in 1 .. Len(d) : d[i] \in Rows
        BY <1>1
      <3>3. t.d \in [1 .. Len(d) -> Rows]
        BY <1>2, <3>1, <3>2
      <3> QED
        BY <1>1, <2>2, <3>3, RowsAre
    <2> QED
      BY <2>1, <2>2
  <1>7. new \in Sessions
    BY <1>1, <1>3 DEF Sessions
  <1> HIDE DEF row
  <1>8. t.m \in Memory /\ t.m.session = new /\ SessionOnly(s.m, t.m)
    BY <1>1, <1>4, <1>7 DEF Memory, SessionOnly, SameNotice, SameCount
  <1> HIDE DEF t
  <1>9. t \in State
    BY <1>5, <1>6, <1>8 DEF State
  <1> QED
    BY <1>3, <1>6, <1>7, <1>8, <1>9 DEF t, row

\* The session has a row, which is written again.
LEMMA SavedSane ==
    ASSUME NEW s, Sane(s), Booked(s.m)
    PROVE  LET t == SaveTotal(s) IN
           /\ Sane(t) /\ SessionOnly(s.m, t.m) /\ Len(t.d) = Len(s.d)
           /\ t.m.session # NoSession /\ t.m.session.row = s.m.session.row
  <1> USE NoSessionAssumption
  <1> DEFINE ses == [s.m.session EXCEPT !.energy = s.m.total]
             u == [s EXCEPT !.m = [s.m EXCEPT !.session = ses]]
             t == Persist(u)
  <1>1. /\ s \in State /\ s.m.session \in Sessions /\ s.m.total \in Int
        /\ s.m.session.created /\ s.m.session.row # 0
    BY SaneIs DEF Booked, Sane, SavedOnce
  <1>2. SaveTotal(s) = t
    BY DEF SaveTotal
  <1>3. ses \in Sessions /\ ses.row = s.m.session.row /\ ses.created
    BY <1>1 DEF Sessions
  <1> HIDE DEF ses
  <1>4. u \in State /\ u.m.session = ses /\ u.d = s.d /\ SessionOnly(s.m, u.m)
    BY <1>1, <1>3, SessionStored
  <1> HIDE DEF u
  <1>5. /\ t \in State /\ SessionOnly(u.m, t.m) /\ t.m.session = [ses EXCEPT !.row = ses.row]
        /\ t.m.session \in Sessions /\ Len(t.d) = Len(s.d)
    BY <1>1, <1>3, <1>4, PersistedSane
  <1> HIDE DEF t
  <1>6. t.m.session.row = ses.row /\ t.m.session.created
    BY <1>3, <1>5 DEF Sessions
  <1>7. SessionOnly(s.m, t.m)
    BY <1>4, <1>5 DEF SessionOnly, SameNotice, SameCount
  <1> QED
    BY <1>1, <1>2, <1>3, <1>5, <1>6, <1>7 DEF Sane, SavedOnce

\* stopSession saves a session that has a row, and no other.
LEMMA StoppedSane ==
    ASSUME NEW s, Sane(s)
    PROVE  LET t == StopSession(s) IN
           /\ Sane(t) /\ SessionOnly(s.m, t.m) /\ Len(t.d) = Len(s.d)
           /\ t.m.session # NoSession <=> s.m.session # NoSession
           /\ t.m.session # NoSession => t.m.session.row = s.m.session.row
  <1> USE NoSessionAssumption
  <1> DEFINE ses == [s.m.session EXCEPT !.finished = TRUE]
             u == [s EXCEPT !.m = [s.m EXCEPT !.session = ses]]
             t == SaveTotal(u)
  <1>1. CASE ~Booked(s.m)
    BY <1>1 DEF StopSession, SessionOnly, SameNotice, SameCount
  <1>2. CASE Booked(s.m)
    <2>1. StopSession(s) = t
      BY <1>2 DEF StopSession
    <2>2. /\ s \in State /\ s.m.session \in Sessions /\ s.m.session.created
          /\ s.m.session.row # 0
      BY <1>2, SaneIs DEF Booked, Sane, SavedOnce
    <2>3. ses \in Sessions /\ ses.row = s.m.session.row /\ ses.created
      BY <2>2 DEF Sessions
    <2> HIDE DEF ses
    <2>4. u \in State /\ u.m.session = ses /\ u.d = s.d /\ SessionOnly(s.m, u.m)
      BY <2>2, <2>3, SessionStored
    <2> HIDE DEF u
    <2>5. Sane(u) /\ Booked(u.m)
      BY <2>2, <2>3, <2>4 DEF Sane, SavedOnce, Booked
    <2>6. /\ Sane(t) /\ SessionOnly(u.m, t.m) /\ Len(t.d) = Len(s.d)
          /\ t.m.session # NoSession /\ t.m.session.row = s.m.session.row
      BY <2>3, <2>4, <2>5, SavedSane
    <2> HIDE DEF t
    <2> QED
      BY <2>1, <2>2, <2>4, <2>6 DEF SessionOnly, SameNotice, SameCount
  <1> QED
    BY <1>1, <1>2

LEMMA ChargeStopSane ==
    ASSUME NEW s, Sane(s), NEW reading, Measured(reading)
    PROVE  LET t == ChargeStop(s, reading) IN
           /\ Follows(s, t) /\ ~t.m.charging /\ Len(t.d) = Len(s.d)
           /\ t.m.session # NoSession <=> s.m.session # NoSession
           /\ t.m.session # NoSession => t.m.session.row = s.m.session.row
  <1> USE NoReadingAssumption
  <1> DEFINE stop == reading["stop"]
             known == stop # NoReading /\ s.m.startEnergy # NoReading
             charged == IF known THEN s.m.charged + stop - s.m.startEnergy ELSE s.m.charged
             m1 == [s.m EXCEPT !.charging = FALSE]
             m == [m1 EXCEPT !.charged = charged]
             u == [s EXCEPT !.m = m]
  <1>1. s.m \in Memory /\ s.m.charged \in Int /\ s.m.startEnergy \in OptReading
    BY SaneIs
  <1>2. charged \in Int
    <2>1. stop \in OptReading
      BY DEF Measured, Reads
    <2> QED
      BY <1>1, <2>1 DEF OptReading
  <1>3. ChargeStop(s, reading) = StopSession(u)
    BY DEF ChargeStop
  <1> HIDE DEF charged
  <1>4. m1 \in Memory /\ m1.session = s.m.session /\ ~m1.charging /\ m1.up = s.m.up
        /\ SameNotice(s.m, m1)
    <2>1. m1 \in Memory
      BY <1>1, Stored
    <2>2. m1.charging = FALSE
      BY <1>1 DEF Memory
    <2> QED
      BY <1>1, <2>1, <2>2 DEF Memory, SameNotice
  <1> HIDE DEF m1
  <1>5. m \in Memory /\ m.session = s.m.session /\ ~m.charging /\ m.up = s.m.up
        /\ SameNotice(s.m, m)
    BY <1>2, <1>4, Stored DEF Memory, SameNotice
  <1> HIDE DEF m
  <1>6. Sane(u) /\ u.m = m /\ u.d = s.d
    BY <1>5, SaneStored
  <1> HIDE DEF u
  <1> QED
    BY <1>3, <1>5, <1>6, StoppedSane DEF Follows, SessionOnly, SameNotice, SameCount

\* There is a session, which is not saved yet.
LEMMA VehicleConnectSane ==
    ASSUME NEW s, Sane(s), s.m.session = NoSession, NEW reading, Measured(reading)
    PROVE  LET t == VehicleConnect(s, reading) IN
           /\ Follows(s, t) /\ t.m.charging = s.m.charging /\ t.d = s.d
           /\ t.m.session # NoSession
  <1> USE NoSessionAssumption
  <1> DEFINE session == NewSession(reading)
             m1 == [s.m EXCEPT !.startEnergy = reading["connect"]]
             m2 == [m1 EXCEPT !.charged = 0]
             m3 == [m2 EXCEPT !.total = 0]
             m == [m3 EXCEPT !.session = session]
             t == [s EXCEPT !.m = m]
  <1>1. VehicleConnect(s, reading) = t
    BY DEF VehicleConnect
  <1>2. /\ s \in State /\ s.m \in Memory
        /\ reading["connect"] \in OptReading /\ reading["create"] \in OptReading
    BY SaneIs DEF Measured, Reads
  <1>3. session \in Sessions /\ session.row = 0 /\ ~session.created
    BY <1>2 DEF NewSession, Sessions
  <1> HIDE DEF session
  <1>4. m1 \in Memory /\ m1.charging = s.m.charging /\ m1.up = s.m.up /\ SameNotice(s.m, m1)
    BY <1>2, Stored DEF Memory, SameNotice
  <1> HIDE DEF m1
  <1>5. m2 \in Memory /\ m2.charging = s.m.charging /\ m2.up = s.m.up /\ SameNotice(s.m, m2)
    BY <1>4, Stored DEF Memory, SameNotice
  <1> HIDE DEF m2
  <1>6. m3 \in Memory /\ m3.charging = s.m.charging /\ m3.up = s.m.up /\ SameNotice(s.m, m3)
    BY <1>5, Stored DEF Memory, SameNotice
  <1> HIDE DEF m3
  <1>7. m \in Memory /\ m.charging = s.m.charging /\ m.up = s.m.up /\ SameNotice(s.m, m)
        /\ m.session = session
    BY <1>3, <1>6, Stored DEF Memory, SameNotice
  <1> HIDE DEF m
  <1>8. t \in State /\ t.m = m /\ t.d = s.d
    BY <1>2, <1>7 DEF State
  <1> HIDE DEF t
  <1> QED
    BY <1>1, <1>3, <1>7, <1>8 DEF Follows, Sane, SavedOnce

\* The session has a row from then on.
LEMMA ChargeStartSane ==
    ASSUME NEW s, Sane(s), s.m.session # NoSession, NEW reading, Measured(reading)
    PROVE  LET t == ChargeStart(s, reading) IN
           /\ Follows(s, t) /\ t.m.charging
           /\ t.m.session # NoSession /\ t.m.session.row # 0
           /\ Len(t.d) = IF s.m.session.row = 0 THEN Len(s.d) + 1 ELSE Len(s.d)
  <1> USE NoSessionAssumption
  <1> DEFINE m1 == [s.m EXCEPT !.startEnergy = reading["start"]]
             m == [m1 EXCEPT !.charging = TRUE]
             ses == [m.session EXCEPT !.created = TRUE]
             v == [s EXCEPT !.m = m]
             u == [v EXCEPT !.m = [v.m EXCEPT !.session = ses]]
             t == Persist(u)
  <1>1. s \in State /\ s.m \in Memory /\ s.m.session \in Sessions
        /\ reading["start"] \in OptReading
    BY SaneIs DEF Measured, Reads
  <1>2. m1 \in Memory /\ m1.session = s.m.session /\ m1.up = s.m.up /\ SameNotice(s.m, m1)
    BY <1>1, Stored DEF Memory, SameNotice
  <1>3. ChargeStart(s, reading) = t
    BY <1>1, <1>2 DEF ChargeStart, State, Memory
  <1> HIDE DEF m1
  <1>4. m \in Memory /\ m.session = s.m.session /\ m.up = s.m.up /\ SameNotice(s.m, m)
        /\ m.charging
    <2>1. m \in Memory
      BY <1>2, Stored
    <2>2. m.charging = TRUE
      BY <1>2 DEF Memory
    <2> QED
      BY <1>2, <2>1, <2>2 DEF Memory, SameNotice
  <1> HIDE DEF m
  <1>5. ses \in Sessions /\ ses.row = s.m.session.row /\ ses.created
    BY <1>1, <1>4 DEF Sessions
  <1> HIDE DEF ses
  <1>6. v \in State /\ v.m = m /\ v.d = s.d
    BY <1>4, SaneStored DEF Sane
  <1> HIDE DEF v
  <1>7. u \in State /\ u.m.session = ses /\ u.d = s.d /\ SessionOnly(m, u.m)
    BY <1>5, <1>6, SessionStored
  <1> HIDE DEF u
  <1> DEFINE row == IF ses.row = 0 THEN Len(s.d) + 1 ELSE ses.row
  <1>8. /\ t \in State /\ SessionOnly(u.m, t.m) /\ t.m.session = [ses EXCEPT !.row = row]
        /\ t.m.session \in Sessions /\ row # 0 /\ row \in Nat
        /\ Len(t.d) = IF ses.row = 0 THEN Len(s.d) + 1 ELSE Len(s.d)
    BY <1>5, <1>7, PersistedSane
  <1> HIDE DEF t, row
  <1>9. t.m.session.row = row /\ t.m.session.created
    BY <1>5, <1>8 DEF Sessions
  <1>10. Sane(t) /\ SameNotice(s.m, t.m) /\ t.m.up = s.m.up /\ t.m.charging
    BY <1>4, <1>7, <1>8, <1>9 DEF Sane, SavedOnce, SessionOnly, SameNotice, SameCount
  <1> QED
    BY <1>3, <1>5, <1>8, <1>9, <1>10 DEF Follows

LEMMA VehicleDisconnectSane ==
    ASSUME NEW s, Sane(s)
    PROVE  LET t == VehicleDisconnect(s) IN
           /\ Follows(s, t) /\ t.m.charging = s.m.charging /\ Len(t.d) = Len(s.d)
           /\ t.m.session = NoSession
  <1> DEFINE total == IF s.m.charged > s.m.total THEN s.m.charged ELSE s.m.total
             n == [s.m EXCEPT !.total = total]
             v == [s EXCEPT !.m = n]
             u == FinalizeSessionEnergy(s)
             m == [u.m EXCEPT !.session = NoSession]
             t == [u EXCEPT !.m = m]
  <1>1. VehicleDisconnect(s) = t
    BY DEF VehicleDisconnect
  <1>2. Follows(s, u) /\ u.m.charging = s.m.charging /\ Len(u.d) = Len(s.d)
    <2>1. CASE ~(Booked(s.m) /\ s.m.charged > s.m.session.energy)
      <3>1. u = s
        BY <2>1 DEF FinalizeSessionEnergy
      <3> HIDE DEF u
      <3> QED
        BY <3>1 DEF Follows, SameNotice
    <2>2. CASE Booked(s.m) /\ s.m.charged > s.m.session.energy
      <3>1. u = SaveTotal(v)
        BY <2>2 DEF FinalizeSessionEnergy, UpdateMetrics
      <3> HIDE DEF u
      <3>2. s.m \in Memory /\ total \in Int
        BY SaneIs
      <3> HIDE DEF total
      <3>3. /\ n \in Memory /\ n.session = s.m.session /\ n.up = s.m.up
            /\ n.charging = s.m.charging /\ SameNotice(s.m, n)
        BY <3>2, Stored DEF Memory, SameNotice
      <3> HIDE DEF n
      <3>4. Sane(v) /\ v.m = n /\ v.d = s.d
        BY <3>3, SaneStored
      <3> HIDE DEF v
      <3>5. Booked(v.m)
        BY <2>2, <3>3, <3>4 DEF Booked
      <3> QED
        BY <3>1, <3>3, <3>4, <3>5, SavedSane DEF Follows, SessionOnly, SameNotice, SameCount
    <2> QED
      BY <2>1, <2>2
  <1> HIDE DEF u
  <1>3. u \in State /\ u.m \in Memory
    BY <1>2, SaneIs DEF Follows
  <1>4. m \in Memory /\ m.session = NoSession /\ SessionOnly(u.m, m)
    BY <1>3, Stored DEF Memory, SessionOnly, SameNotice, SameCount
  <1> HIDE DEF m
  <1>5. t \in State /\ t.m = m /\ t.d = u.d
    BY <1>3, <1>4 DEF State
  <1> HIDE DEF t
  <1>6. Sane(t)
    BY <1>4, <1>5 DEF Sane, SavedOnce
  <1> QED
    BY <1>1, <1>2, <1>4, <1>5, <1>6 DEF Follows, SessionOnly, SameNotice, SameCount

\* An event that is not the last one the user has heard.
LEMMA Told ==
    ASSUME NEW m \in Memory, NEW event \in Notifications, m.notified # event, ~m.repeated
    PROVE  LET n == Notify(m, event) IN
           /\ n \in Memory /\ n.notified = event /\ ~n.repeated
           /\ n.connectPending = m.connectPending /\ n.status = m.status
           /\ n.session = m.session /\ SameCount(m, n) /\ n.up = m.up
  <1> DEFINE repeated == m.repeated \/ m.notified = event
             m1 == [m EXCEPT !.notified = event]
             n == [m1 EXCEPT !.repeated = FALSE]
  <1>1. repeated = FALSE
    BY DEF Memory
  <1>2. Notify(m, event) = n
    <2>1. Notify(m, event) = [m1 EXCEPT !.repeated = repeated]
      BY DEF Notify
    <2> HIDE DEF repeated, m1
    <2> QED
      BY <1>1, <2>1
  <1> HIDE DEF repeated
  <1>3. /\ m1 \in Memory /\ m1.notified = event
        /\ m1.connectPending = m.connectPending /\ m1.status = m.status
        /\ m1.session = m.session /\ m1.charging = m.charging /\ m1.up = m.up
        /\ m1.startEnergy = m.startEnergy /\ m1.charged = m.charged
        /\ m1.total = m.total
    BY Stored DEF Memory
  <1> HIDE DEF m1
  <1>4. /\ n \in Memory /\ n.notified = event /\ n.repeated = FALSE
        /\ n.connectPending = m.connectPending /\ n.status = m.status
        /\ n.session = m.session /\ n.charging = m.charging /\ n.up = m.up
        /\ n.startEnergy = m.startEnergy /\ n.charged = m.charged
        /\ n.total = m.total
    <2>1. n \in Memory
      BY <1>3, Stored
    <2> QED
      BY <1>3, <2>1 DEF Memory
  <1> QED
    BY <1>2, <1>4 DEF SameCount

\* Notifications come in turn with the status.
LEMMA StatusNotified ==
    ASSUME NEW s, Sane(s), NEW prev \in Statuses, NEW status \in {"A", "B", "C"},
           prev # status, s.m.status = status, Heard(prev, s.m)
    PROVE  LET t == NotifyStatus(prev, status, s) IN
           /\ Sane(t) /\ t = [s EXCEPT !.m = t.m] /\ t.m \in Memory /\ t.d = s.d
           /\ SameCount(s.m, t.m) /\ t.m.session = s.m.session
           /\ t.m.status = status /\ t.m.up = s.m.up
           /\ Heard(status, t.m)
  <1> DEFINE Pended(b) == [s.m EXCEPT !.connectPending = b]
             m2 == Notify(s.m, "disconnect")
             t == NotifyStatus(prev, status, s)
             Done == /\ Sane(t) /\ t = [s EXCEPT !.m = t.m] /\ t.m \in Memory /\ t.d = s.d
                     /\ SameCount(s.m, t.m) /\ t.m.session = s.m.session
                     /\ t.m.status = status /\ t.m.up = s.m.up
                     /\ Heard(status, t.m)
  <1> SUFFICES Done
    OBVIOUS
  <1>1. s \in State /\ s.m \in Memory
    BY SaneIs
  <1>2. ASSUME t = s, Heard(status, s.m)
        PROVE  Done
    <2> HIDE DEF t
    <2>1. s = [s EXCEPT !.m = s.m]
      BY <1>1 DEF State
    <2> QED
      BY <1>1, <1>2, <2>1 DEF SameCount
  <1>3. ASSUME NEW m \in Memory, t = [s EXCEPT !.m = m], SameCount(s.m, m),
               m.session = s.m.session, m.status = s.m.status, m.up = s.m.up,
               Heard(status, m)
        PROVE  Done
    <2> HIDE DEF t
    <2>1. Sane(t) /\ t.m = m /\ t.d = s.d
      BY <1>3, SaneStored
    <2> QED
      BY <1>3, <2>1
  <1>4. ASSUME NEW b \in BOOLEAN, t = [s EXCEPT !.m = Pended(b)], b <=> status # "A",
               s.m.notified # "connect", ~s.m.repeated
        PROVE  Done
    <2> HIDE DEF t, Done
    <2>1. /\ Pended(b) \in Memory /\ Pended(b).connectPending = b
          /\ Pended(b).status = s.m.status /\ Pended(b).session = s.m.session
          /\ Pended(b).charging = s.m.charging /\ Pended(b).up = s.m.up
          /\ Pended(b).startEnergy = s.m.startEnergy /\ Pended(b).charged = s.m.charged
          /\ Pended(b).total = s.m.total
          /\ Pended(b).notified = s.m.notified /\ Pended(b).repeated = s.m.repeated
      BY <1>1, Stored DEF Memory
    <2> HIDE DEF Pended
    <2>2. Heard(status, Pended(b))
      BY <1>4, <2>1 DEF Heard
    <2>3. SameCount(s.m, Pended(b))
      BY <2>1 DEF SameCount
    <2> QED
      BY <1>3, <1>4, <2>1, <2>2, <2>3
  <1>5. ~s.m.repeated
    BY DEF Heard
  <1>6. CASE prev = "none"
    BY <1>2, <1>6 DEF NotifyStatus, Heard
  <1>7. CASE prev = "A"
    <2>1. t = [s EXCEPT !.m = Pended(TRUE)]
      BY <1>7 DEF NotifyStatus
    <2>2. s.m.notified # "connect"
      BY <1>7 DEF Heard
    <2> HIDE DEF t, Done
    <2> QED
      BY <1>4, <1>5, <1>7, <2>1, <2>2
  <1>8. CASE prev \in {"B", "C"} /\ status # "A"
    BY <1>2, <1>8 DEF NotifyStatus, Heard
  <1>9. CASE prev \in {"B", "C"} /\ status = "A" /\ s.m.connectPending
    <2>1. t = [s EXCEPT !.m = Pended(FALSE)]
      BY <1>9 DEF NotifyStatus
    <2>2. s.m.notified # "connect"
      BY <1>9 DEF Heard
    <2> HIDE DEF t, Done
    <2> QED
      BY <1>4, <1>5, <1>9, <2>1, <2>2
  <1>10. CASE prev \in {"B", "C"} /\ status = "A" /\ ~s.m.connectPending
    <2>1. t = [s EXCEPT !.m = m2]
      BY <1>10 DEF NotifyStatus
    <2> HIDE DEF t, Done
    <2>2. s.m.notified # "disconnect"
      BY <1>10 DEF Heard
    <2>3. /\ m2 \in Memory /\ ~m2.connectPending
          /\ m2.status = s.m.status /\ m2.session = s.m.session
          /\ SameCount(s.m, m2) /\ m2.up = s.m.up
          /\ m2.notified = "disconnect" /\ ~m2.repeated
      BY <1>1, <1>5, <1>10, <2>2, Told DEF Notifications
    <2> HIDE DEF m2
    <2>4. Heard(status, m2)
      BY <1>10, <2>3 DEF Heard
    <2> QED
      BY <1>3, <2>1, <2>3, <2>4
  <1>11. prev \in {"none", "A", "B", "C"}
    BY DEF Statuses
  <1> HIDE DEF t, Done
  <1> QED
    BY <1>6, <1>7, <1>8, <1>9, <1>10, <1>11

\* A status change, with all its handlers.
LEMMA StatusChangesSane ==
    ASSUME NEW s, Sane(s), Agreed(s.m), Heard(s.m.status, s.m),
           NEW status \in {"A", "B", "C"}, status # s.m.status,
           NEW reading, Measured(reading)
    PROVE  LET t == ChangeStatus(s, status, reading) IN
           /\ Sane(t) /\ Agreed(t.m) /\ Heard(status, t.m)
           /\ t.m.status = status /\ t.m.up = s.m.up
           /\ Len(t.d) <= Len(s.d) + 1
           /\ Len(t.d) # Len(s.d) =>
                 status = "C" /\ (s.m.session = NoSession \/ s.m.session.row = 0)
           /\ status = "C" => t.m.session.row # 0
           /\ s.m.session # NoSession /\ s.m.session.row # 0 /\ status # "A" =>
                 t.m.session.row # 0
  <1> DEFINE prev == s.m.status
             m0 == [s.m EXCEPT !.status = status]
             s0 == [s EXCEPT !.m = m0]
             s1 == IF prev = "A" \/ (status # "A" /\ prev = "none")
                   THEN VehicleConnect(s0, reading) ELSE s0
             s2 == IF status = "C" THEN ChargeStart(s1, reading) ELSE s1
             s3 == IF prev = "C" THEN ChargeStop(s2, reading) ELSE s2
             s4 == IF status = "A" THEN VehicleDisconnect(s3) ELSE s3
             t == NotifyStatus(prev, status, s4)
  <1>1. ChangeStatus(s, status, reading) = t
    BY DEF ChangeStatus
  <1>2. /\ s \in State /\ s.m \in Memory /\ s.m.charging \in BOOLEAN
        /\ prev \in Statuses /\ Len(s.d) \in Nat
    BY SaneIs
  <1>3. /\ m0 \in Memory /\ m0.session = s.m.session /\ m0.charging = s.m.charging
        /\ m0.status = status /\ m0.up = s.m.up
        /\ m0.connectPending = s.m.connectPending
        /\ m0.notified = s.m.notified /\ m0.repeated = s.m.repeated
    <2>1. m0 \in Memory
      BY <1>2, Stored DEF Statuses
    <2> QED
      BY <1>2, <2>1 DEF Memory
  <1> HIDE DEF m0
  <1>4. Sane(s0) /\ s0.m = m0 /\ s0.d = s.d
    BY <1>3, SaneStored
  <1> HIDE DEF s0
  <1>5. /\ Follows(s0, s1) /\ s1.m.charging = s.m.charging /\ s1.d = s.d
        /\ s1.m.session # NoSession <=> ~(prev = "none" /\ status = "A")
        /\ s.m.session # NoSession => s1.m.session = s.m.session
    <2>1. CASE prev = "A" \/ (status # "A" /\ prev = "none")
      <3>1. s1 = VehicleConnect(s0, reading)
        BY <2>1
      <3>2. s.m.session = NoSession
        BY <1>2, <2>1 DEF Agreed
      <3> HIDE DEF s1
      <3> QED
        BY <1>3, <1>4, <2>1, <3>1, <3>2, VehicleConnectSane
    <2>2. CASE ~(prev = "A" \/ (status # "A" /\ prev = "none"))
      <3>1. s1 = s0
        BY <2>2
      <3> HIDE DEF s1
      <3>2. s.m.session # NoSession <=> ~(prev = "none" /\ status = "A")
        BY <1>2, <2>2 DEF Agreed, Statuses
      <3> QED
        BY <1>3, <1>4, <3>1, <3>2 DEF Follows, SameNotice
    <2> QED
      BY <2>1, <2>2
  <1> HIDE DEF s1
  <1>6. /\ Follows(s1, s2)
        /\ s2.m.session # NoSession <=> s1.m.session # NoSession
        /\ prev = "C" \/ status = "C" <=> s2.m.charging
        /\ Len(s2.d) = IF status = "C" /\ s1.m.session.row = 0 THEN Len(s.d) + 1
                       ELSE Len(s.d)
        /\ status = "C" => s2.m.session.row # 0
        /\ status # "C" => s2.m.session = s1.m.session
    <2>0. Sane(s1)
      BY <1>5 DEF Follows
    <2>1. CASE status = "C"
      <3>1. s2 = ChargeStart(s1, reading)
        BY <2>1
      <3> HIDE DEF s2
      <3> QED
        BY <1>5, <2>0, <2>1, <3>1, ChargeStartSane
    <2>2. CASE status # "C"
      <3>1. s2 = s1
        BY <2>2
      <3> HIDE DEF s2
      <3> QED
        BY <1>2, <1>5, <2>0, <2>2, <3>1 DEF Agreed, Follows, SameNotice
    <2> QED
      BY <2>1, <2>2
  <1> HIDE DEF s2
  <1>7. /\ Follows(s2, s3)
        /\ s3.m.session # NoSession <=> s1.m.session # NoSession
        /\ status = "C" <=> s3.m.charging
        /\ Len(s3.d) = Len(s2.d)
        /\ status = "C" => s3.m.session.row # 0
        /\ s1.m.session # NoSession /\ s1.m.session.row # 0 => s3.m.session.row # 0
    <2>0. Sane(s2)
      BY <1>6 DEF Follows
    <2>1. CASE prev = "C"
      <3>1. s3 = ChargeStop(s2, reading)
        BY <2>1
      <3> HIDE DEF s3
      <3> QED
        BY <1>6, <2>0, <2>1, <3>1, ChargeStopSane
    <2>2. CASE prev # "C"
      <3>1. s3 = s2
        BY <2>2
      <3> HIDE DEF s3
      <3> QED
        BY <1>6, <2>0, <2>2, <3>1 DEF Follows, SameNotice
    <2> QED
      BY <2>1, <2>2
  <1> HIDE DEF s3
  <1>8. /\ Follows(s3, s4)
        /\ status = "A" => s4.m.session = NoSession
        /\ status # "A" => s4.m.session = s3.m.session /\ s3.m.session # NoSession
        /\ status = "C" <=> s4.m.charging
        /\ Len(s4.d) = Len(s2.d)
    <2>0. Sane(s3)
      BY <1>7 DEF Follows
    <2>1. CASE status = "A"
      <3>1. s4 = VehicleDisconnect(s3)
        BY <2>1
      <3> HIDE DEF s4
      <3> QED
        BY <1>7, <2>0, <2>1, <3>1, VehicleDisconnectSane
    <2>2. CASE status # "A"
      <3>1. s4 = s3
        BY <2>2
      <3> HIDE DEF s4
      <3> QED
        BY <1>5, <1>7, <2>0, <2>2, <3>1 DEF Follows, SameNotice
    <2> QED
      BY <2>1, <2>2
  <1> HIDE DEF s4
  <1>9. Sane(s4) /\ s4.m.status = status /\ s4.m.up = s.m.up /\ Heard(prev, s4.m)
    BY <1>3, <1>4, <1>5, <1>6, <1>7, <1>8 DEF Follows, SameNotice, Heard
  <1>10. /\ Sane(t) /\ t.d = s4.d /\ SameCount(s4.m, t.m) /\ t.m.session = s4.m.session
         /\ t.m.status = status /\ t.m.up = s.m.up /\ Heard(status, t.m)
    BY <1>2, <1>9, StatusNotified
  <1> HIDE DEF t
  <1>11. Agreed(t.m)
    BY <1>8, <1>10 DEF Agreed, SameCount
  <1>12. /\ Len(t.d) <= Len(s.d) + 1
         /\ Len(t.d) # Len(s.d) =>
               status = "C" /\ (s.m.session = NoSession \/ s.m.session.row = 0)
    BY <1>2, <1>5, <1>6, <1>8, <1>10
  <1>13. /\ status = "C" => t.m.session.row # 0
         /\ s.m.session # NoSession /\ s.m.session.row # 0 /\ status # "A" =>
               t.m.session.row # 0
    BY <1>5, <1>6, <1>7, <1>8, <1>10
  <1> QED
    BY <1>1, <1>10, <1>11, <1>12, <1>13

\* updateChargerStatus: one status change, two of an exchanged vehicle, or none.
LEMMA ChargerStatusSane ==
    ASSUME NEW s, Sane(s), Agreed(s.m), Heard(s.m.status, s.m), s.m = lp,
           plug \in {"A", "B", "C"}, NEW ignore \in BOOLEAN,
           NEW reading, Measured(reading)
    PROVE  LET t == UpdateChargerStatus(s, ignore, reading) IN
           /\ Sane(t) /\ Agreed(t.m) /\ Heard(t.m.status, t.m) /\ t.m.up = s.m.up
           /\ t.m.status \in {plug, s.m.status}
           /\ t.m.status # plug => ignore /\ t = s
           /\ Len(t.d) <= Len(s.d) + 1
           /\ Len(t.d) # Len(s.d) =>
                 \/ plug # "A" /\ (replugged \/ s.m.status \in {"none", "A"})
                 \/ s.m.session # NoSession /\ s.m.session.row = 0
           /\ Len(t.d) # Len(s.d) => t.m.status = "C" /\ t.m.session.row # 0
           /\ t.m.session # NoSession /\ t.m.session.row = 0 =>
                 \/ plug # "A" /\ (replugged \/ s.m.status \in {"none", "A"})
                 \/ s.m.session # NoSession /\ s.m.session.row = 0
  <1> DEFINE t == UpdateChargerStatus(s, ignore, reading)
             once == ChangeStatus(s, plug, reading)
             gone == ChangeStatus(s, "A", reading)
             again == ChangeStatus(gone, plug, reading)
  <1>1. s.m.status \in Statuses /\ Len(s.d) \in Nat
    BY SaneIs
  <1>2. CASE Exchanged(ignore)
    <2>1. t = again
      BY <1>2 DEF UpdateChargerStatus
    <2>2. replugged /\ plug \in {"B", "C"} /\ s.m.status \in {"B", "C"}
      BY <1>1, <1>2 DEF Exchanged, Statuses
    <2>3. /\ Sane(gone) /\ Agreed(gone.m) /\ Heard("A", gone.m)
          /\ gone.m.status = "A" /\ gone.m.up = s.m.up /\ Len(gone.d) = Len(s.d)
      BY <2>2, StatusChangesSane
    <2> HIDE DEF gone
    <2>4. /\ Sane(again) /\ Agreed(again.m) /\ Heard(plug, again.m)
          /\ again.m.status = plug /\ again.m.up = gone.m.up
          /\ Len(again.d) <= Len(gone.d) + 1
          /\ Len(again.d) # Len(gone.d) => plug = "C"
          /\ plug = "C" => again.m.session.row # 0
      BY <2>2, <2>3, StatusChangesSane
    <2> HIDE DEF again, t
    <2>5. t.m.status = plug /\ t.m.up = s.m.up
      BY <2>1, <2>3, <2>4
    <2> QED
      BY <2>1, <2>2, <2>3, <2>4, <2>5 DEF t
  <1>3. CASE ~Exchanged(ignore) /\ (ignore \/ plug = s.m.status)
    <2>1. t = s
      BY <1>3 DEF UpdateChargerStatus
    <2> HIDE DEF t
    <2>2. t.m.status # plug => ignore
      BY <1>3, <2>1
    <2> QED
      BY <1>1, <2>1, <2>2 DEF t
  <1>4. CASE ~Exchanged(ignore) /\ ~(ignore \/ plug = s.m.status)
    <2>1. t = once
      BY <1>4 DEF UpdateChargerStatus
    <2>2. /\ Sane(once) /\ Agreed(once.m) /\ Heard(plug, once.m)
          /\ once.m.status = plug /\ once.m.up = s.m.up
          /\ Len(once.d) <= Len(s.d) + 1
          /\ Len(once.d) # Len(s.d) =>
                plug = "C" /\ (s.m.session = NoSession \/ s.m.session.row = 0)
          /\ plug = "C" => once.m.session.row # 0
          /\ s.m.session # NoSession /\ s.m.session.row # 0 /\ plug # "A" =>
                once.m.session.row # 0
      BY <1>4, StatusChangesSane
    <2>3. s.m.session = NoSession => s.m.status \in {"none", "A"}
      BY <1>1 DEF Agreed, Statuses
    <2>4. once.m.session # NoSession => plug # "A"
      BY <2>2 DEF Agreed
    <2> HIDE DEF once, t
    <2> QED
      BY <2>1, <2>2, <2>3, <2>4 DEF t
  <1> QED
    BY <1>2, <1>3, <1>4

\* maybePushVehicleConnect.
LEMMA ConnectPushed ==
    ASSUME NEW s, Sane(s), Heard(s.m.status, s.m), NEW settled \in BOOLEAN
    PROVE  LET t == MaybePushVehicleConnect(s, settled) IN
           /\ Sane(t) /\ t = [s EXCEPT !.m = t.m] /\ t.m \in Memory /\ t.d = s.d
           /\ SameCount(s.m, t.m) /\ t.m.session = s.m.session
           /\ t.m.status = s.m.status /\ t.m.up = s.m.up
           /\ Heard(t.m.status, t.m)
  <1> DEFINE m == [s.m EXCEPT !.connectPending = FALSE]
             n == Notify(m, "connect")
             t == MaybePushVehicleConnect(s, settled)
  <1>1. s \in State /\ s.m \in Memory /\ s.m.status \in Statuses
    BY SaneIs
  <1>2. CASE ~(s.m.connectPending /\ settled)
    <2>1. t = s /\ s = [s EXCEPT !.m = s.m]
      BY <1>1, <1>2 DEF MaybePushVehicleConnect, State
    <2> HIDE DEF t
    <2> QED
      BY <1>1, <2>1 DEF t, SameCount
  <1>3. CASE s.m.connectPending /\ settled
    <2>1. t = [s EXCEPT !.m = n]
      BY <1>3 DEF MaybePushVehicleConnect
    <2> HIDE DEF t
    <2>2. s.m.status \in {"B", "C"} /\ s.m.notified # "connect" /\ ~s.m.repeated
      BY <1>1, <1>3 DEF Heard, Statuses
    <2>3. m \in Memory
      BY <1>1, Stored
    <2>4. /\ m.notified # "connect" /\ ~m.repeated /\ ~m.connectPending
          /\ m.status = s.m.status /\ m.session = s.m.session
          /\ SameCount(s.m, m) /\ m.up = s.m.up
      BY <1>1, <2>2 DEF Memory, SameCount
    <2> HIDE DEF m
    <2>5. /\ n \in Memory /\ n.notified = "connect" /\ ~n.repeated /\ ~n.connectPending
          /\ n.status = s.m.status /\ n.session = s.m.session
          /\ SameCount(m, n) /\ n.up = s.m.up
      BY <2>3, <2>4, Told DEF Notifications
    <2> HIDE DEF n
    <2>6. SameCount(s.m, n)
      BY <2>4, <2>5 DEF SameCount
    <2>7. Sane(t) /\ t.m = n /\ t.d = s.d
      BY <2>1, <2>5, SaneStored
    <2>8. Heard(n.status, n)
      BY <2>2, <2>5 DEF Heard
    <2> QED
      BY <2>1, <2>5, <2>6, <2>7, <2>8 DEF t
  <1> QED
    BY <1>2, <1>3

\* publishChargeProgress changes what the rater and the metrics hold.
LEMMA ProgressSane ==
    ASSUME NEW m \in Memory, NEW reading \in OptReading
    PROVE  LET n == PublishChargeProgress(m, reading) IN
           /\ n \in Memory /\ SameNotice(m, n) /\ n.up = m.up
           /\ n.session = m.session /\ n.charging = m.charging
  <1> USE NoReadingAssumption
  <1> DEFINE Same(n) == /\ n \in Memory /\ SameNotice(m, n) /\ n.up = m.up
                        /\ n.session = m.session /\ n.charging = m.charging
             p == PublishChargeProgress(m, reading)
             l == LatchStart(m, reading)
             f == l.charged + reading - l.startEnergy
  <1>1. ASSUME NEW n, Same(n), NEW e \in Int
        PROVE  Same(UpdateMetrics(n, e))
    <2> DEFINE total == IF e > n.total THEN e ELSE n.total
               u == [n EXCEPT !.total = total]
    <2>1. UpdateMetrics(n, e) = u
      BY DEF UpdateMetrics
    <2>2. total \in Int
      BY <1>1 DEF Memory
    <2> HIDE DEF total
    <2>3. /\ u \in Memory /\ SameNotice(n, u) /\ u.up = n.up
          /\ u.session = n.session /\ u.charging = n.charging
      BY <1>1, <2>2, Stored DEF Memory, SameNotice
    <2> HIDE DEF u
    <2> QED
      BY <1>1, <2>1, <2>3 DEF SameNotice
  <1>2. Same(m)
    BY DEF SameNotice
  <1>3. CASE ~m.charging
    <2>1. p = IF m.charged > MaxSessionEnergy THEN m ELSE UpdateMetrics(m, m.charged)
      BY <1>3 DEF PublishChargeProgress
    <2>2. Same(UpdateMetrics(m, m.charged))
      <3>1. m.charged \in Int
        BY DEF Memory
      <3> HIDE DEF Same
      <3> QED
        BY <1>1, <1>2, <3>1
    <2> HIDE DEF p
    <2> QED
      BY <1>2, <2>1, <2>2 DEF p
  <1>4. CASE m.charging /\ reading = NoReading
    BY <1>2, <1>4 DEF PublishChargeProgress
  <1>5. CASE m.charging /\ reading # NoReading
    <2>1. p = IF f > MaxSessionEnergy THEN l ELSE UpdateMetrics(l, f)
      BY <1>5 DEF PublishChargeProgress
    <2>2. Same(l) /\ l.startEnergy # NoReading
      <3>1. CASE m.startEnergy # NoReading
        BY <1>2, <3>1 DEF LatchStart
      <3>2. CASE m.startEnergy = NoReading
        <4>1. l = [m EXCEPT !.startEnergy = reading]
          BY <1>5, <3>2 DEF LatchStart
        <4> HIDE DEF l
        <4>2. l \in Memory /\ l.startEnergy = reading
          BY <4>1, Stored DEF Memory
        <4> QED
          BY <1>5, <4>1, <4>2 DEF Memory, SameNotice
      <3> QED
        BY <3>1, <3>2
    <2> HIDE DEF l
    <2>3. f \in Int
      BY <1>5, <2>2 DEF Memory, OptReading
    <2>4. Same(UpdateMetrics(l, f))
      <3> HIDE DEF Same, f
      <3> QED
        BY <1>1, <2>2, <2>3
    <2> HIDE DEF p, f
    <2> QED
      BY <2>1, <2>2, <2>4 DEF p
  <1> QED
    BY <1>3, <1>4, <1>5

-----------------------------------------------------------------------------
(* What holds whatever the meter reads.                                    *)

Here == [m |-> lp, d |-> db]

\* Another row may yet come for the vehicle that is plugged in.
Pending ==
    /\ lp.up
    /\ \/ plug # "A" /\ (replugged \/ lp.status \in {"none", "A"})
       \/ lp.session # NoSession /\ lp.session.row = 0

Types ==
    /\ plug \in {"A", "B", "C"}
    /\ replugged \in BOOLEAN
    /\ faults \in 0 .. MaxFaults
    /\ observed \in Nat
    /\ clean \in BOOLEAN

FewRows ==
    /\ Len(db) <= MaxRows + 1
    /\ Pending => Len(db) <= MaxRows

Steady ==
    /\ MeterOK /\ Types
    /\ Sane(Here) /\ Agreed(lp) /\ Heard(lp.status, lp)
    /\ FewRows

LEMMA HereIs == Here.m = lp /\ Here.d = db
  BY DEF Here

LEMMA HereSteady ==
    ASSUME Steady
    PROVE  /\ lp \in Memory /\ db \in Seq(Rows) /\ Len(db) \in Nat /\ meter \in Int
           /\ Here \in State /\ Here.m = lp /\ Here.d = db
  BY HereIs, SaneIs DEF Steady, MeterOK, FirstReading

\* What a step leaves.
LEMMA SteadyAgain ==
    ASSUME NEW t, Sane(t), lp' = t.m, db' = t.d, Agreed(t.m), Heard(t.m.status, t.m),
           MeterOK', Types', FewRows'
    PROVE  Steady'
  <1>1. t = [m |-> t.m, d |-> t.d]
    BY DEF Sane, State
  <1>2. Here' = t
    BY <1>1 DEF Here
  <1>3. Sane(Here)'
    BY <1>2 DEF Sane, SavedOnce
  <1>4. Agreed(lp)' /\ Heard(lp.status, lp)'
    BY DEF Agreed, Heard
  <1> QED
    BY <1>3, <1>4 DEF Steady

\* The rows a handler leaves, and whether more may come.
LEMMA Bounded ==
    ASSUME Steady, Len(db') \in Nat, Len(db') <= Len(db) + 1,
           Len(db') # Len(db) => Pending /\ ~Pending',
           Pending' => Pending \/ Len(db) <= MaxRows
    PROVE  FewRows'
  <1>1. Len(db) \in Nat
    BY HereSteady
  <1>2. CASE Len(db') = Len(db)
    BY <1>1, <1>2, BoundAssumption DEF Steady, FewRows
  <1>3. CASE Len(db') # Len(db)
    BY <1>1, <1>3, BoundAssumption DEF Steady, FewRows
  <1> QED
    BY <1>2, <1>3

\* What a step may read.
LEMMA AnyReadings ==
    ASSUME MeterOK, Types, NEW rs, NEW reading \in Readings(rs), CountFaults(reading)
    PROVE  /\ Measured(reading)
           /\ \A r \in Reads : reading[r] \in {meter, NoReading, Garbage}
           /\ faults' \in 0 .. MaxFaults /\ clean' \in BOOLEAN
           /\ clean' => clean /\ Clear(reading)
  <1> USE BoundAssumption
  <1> DEFINE good == [r \in Reads |-> meter]
             Bad(r, x) == [good EXCEPT ![r] = x]
  <1>1. clean' \in BOOLEAN /\ (clean' => clean /\ Clear(reading))
    BY DEF CountFaults, Fault, Clear, Types
  <1>2. \A r \in Reads : reading[r] \in {meter, NoReading, Garbage}
    BY DEF Readings
  <1>3. Measured(reading)
    <2>1. {meter, NoReading, Garbage} \subseteq OptReading
      BY DEF OptReading, MeterOK, FirstReading, Garbage
    <2> QED
      BY <1>2, <2>1 DEF Measured
  <1>4. faults' \in 0 .. MaxFaults
    <2>1. CASE reading = good
      <3>1. ~Fault(reading)
        BY <2>1 DEF Fault
      <3> QED
        BY <3>1 DEF CountFaults, Types
    <2>2. CASE reading # good
      <3>1. faults # MaxFaults
        BY <2>2 DEF Readings
      <3> QED
        BY <3>1 DEF CountFaults, Types
    <2> QED
      BY <2>1, <2>2
  <1> QED
    BY <1>1, <1>2, <1>3, <1>4

\* ClosePendingSessionsInHistory changes energies only.
LEMMA HistoryTyped ==
    ASSUME db \in Seq(Rows), NEW total \in Int
    PROVE  LET e == ClosePendingSessionsInHistory(total) IN
           e \in Seq(Rows) /\ Len(e) = Len(db)
  <1> USE NoReadingAssumption
  <1> DEFINE stop(i) == IF i = Len(db) THEN total ELSE db[i + 1].start
             open(i) == ~db[i].finished /\ db[i].start # NoReading /\ stop(i) # NoReading
             energy(i) == stop(i) - db[i].start
             closed(i) == [db[i] EXCEPT !.energy = energy(i)]
             e == ClosePendingSessionsInHistory(total)
  <1>1. /\ Len(db) \in Nat /\ DOMAIN db = 1 .. Len(db)
        /\ \A i \in 1 .. Len(db) : db[i] \in Rows
    OBVIOUS
  <1>2. e = [i \in 1 .. Len(db) |-> IF open(i) THEN closed(i) ELSE db[i]]
    BY <1>1 DEF ClosePendingSessionsInHistory
  <1>3. ASSUME NEW i \in 1 .. Len(db), open(i)
        PROVE  closed(i) \in Rows
    <2>1. db[i].start \in Int
      BY <1>1, <1>3 DEF Rows, OptReading
    <2>2. stop(i) \in Int
      <3>1. CASE i = Len(db)
        BY <3>1
      <3>2. CASE i # Len(db)
        <4>0. Len(db) \in Nat /\ i # Len(db) /\ i \in 1 .. Len(db)
          BY <1>1, <3>2
        <4>1. i + 1 \in 1 .. Len(db)
          <5> HIDE DEF stop, open, energy, closed, e
          <5> QED
            BY <4>0
        <4> QED
          BY <1>1, <1>3, <3>2, <4>1 DEF Rows, OptReading
      <3> QED
        BY <3>1, <3>2
    <2>3. energy(i) \in Int
      BY <2>1, <2>2
    <2> HIDE DEF energy
    <2> QED
      BY <1>1, <2>3 DEF Rows
  <1>4. e \in [1 .. Len(db) -> Rows]
    <2> HIDE DEF open, closed, e
    <2> QED
      BY <1>1, <1>2, <1>3
  <1> HIDE DEF e
  <1> QED
    BY <1>1, <1>4, RowsAre DEF e

\* A loadpoint that has just been created, or is not running.
LEMMA CreatedSane ==
    ASSUME NEW m \in {Boot, Down}, NEW d \in Seq(Rows)
    PROVE  /\ Sane([m |-> m, d |-> d]) /\ Agreed(m) /\ Heard(m.status, m)
           /\ m.session = NoSession /\ m.status = "none" /\ (m = Down => ~m.up)
           /\ ~m.charging /\ m.charged = 0 /\ m.total = 0
  <1> USE NoSessionAssumption, NoReadingAssumption
  <1> DEFINE t == [m |-> m, d |-> d]
  <1>1. /\ Boot \in Memory /\ Boot.status = "none" /\ Boot.session = NoSession
        /\ ~Boot.charging /\ Boot.charged = 0 /\ Boot.total = 0
        /\ ~Boot.connectPending /\ Boot.notified = "none" /\ ~Boot.repeated
    <2>1. NoReading \in OptReading /\ NoSession \in Sessions \cup {NoSession}
          /\ "none" \in Statuses /\ "none" \in Notifications
      BY DEF OptReading, Statuses, Notifications
    <2>2. Boot \in Memory
      BY <2>1 DEF Boot, Memory
    <2> QED
      BY <2>2 DEF Boot
  <1>2. /\ Down \in Memory /\ Down.status = "none" /\ Down.session = NoSession
        /\ ~Down.charging /\ Down.charged = 0 /\ Down.total = 0 /\ ~Down.up
        /\ ~Down.connectPending /\ Down.notified = "none" /\ ~Down.repeated
    <2>1. Down \in Memory
      BY <1>1, Stored DEF Down
    <2>2. Down.up = FALSE
      BY <1>1 DEF Down, Memory
    <2> QED
      BY <1>1, <2>1, <2>2 DEF Down, Memory
  <1>3. /\ m \in Memory /\ m.status = "none" /\ m.session = NoSession
        /\ ~m.charging /\ m.charged = 0 /\ m.total = 0
        /\ ~m.connectPending /\ m.notified = "none" /\ ~m.repeated
        /\ m = Down => ~m.up
    BY <1>1, <1>2
  <1>4. t \in State /\ t.m = m /\ t.d = d
    BY <1>3 DEF State
  <1> HIDE DEF t
  <1>5. Sane(t)
    BY <1>3, <1>4 DEF Sane, SavedOnce
  <1> QED
    BY <1>3, <1>5 DEF Agreed, Heard, t

LEMMA InitiallySteady == Init => Steady
  <1> SUFFICES ASSUME Init PROVE Steady
    OBVIOUS
  <1> USE BoundAssumption
  <1>1. meter = 1 /\ plug \in {"A", "B", "C"} /\ replugged = FALSE /\ faults = 0
        /\ observed = 0 /\ clean = TRUE /\ lp = Boot /\ db = <<>>
    BY DEF Init, FirstReading
  <1>2. MeterOK
    BY <1>1 DEF MeterOK, FirstReading
  <1>3. Types
    <2>1. faults \in 0 .. MaxFaults /\ observed \in Nat
      BY <1>1
    <2>2. replugged \in BOOLEAN /\ clean \in BOOLEAN
      BY <1>1
    <2> QED
      BY <1>1, <2>1, <2>2 DEF Types
  <1>4. db \in Seq(Rows) /\ Len(db) = 0
    BY <1>1
  <1>5. Sane(Here) /\ Agreed(lp) /\ Heard(lp.status, lp)
    BY <1>1, <1>4, CreatedSane DEF Here
  <1>6. FewRows
    BY <1>4 DEF FewRows
  <1> QED
    BY <1>2, <1>3, <1>5, <1>6 DEF Steady

\* The vehicle and the charger leave the loadpoint alone.
LEMMA VehicleSteady ==
    ASSUME Steady, Plug \/ Unplug \/ Toggle \/ Flow \/ UNCHANGED vars
    PROVE  Steady' /\ clean' = clean
  <1> USE NoSessionAssumption, BoundAssumption
  <1>1. /\ lp' = lp /\ db' = db /\ MeterOK' /\ clean' = clean
    BY DEF Steady, Plug, Unplug, Toggle, Flow, vars, MeterOK, FirstReading
  <1>2. Types'
    <2>1. plug' \in {"A", "B", "C"} /\ replugged' \in BOOLEAN
      BY DEF Steady, Types, Plug, Unplug, Toggle, Flow, vars
    <2>2. faults' \in 0 .. MaxFaults /\ clean' \in BOOLEAN
      BY DEF Steady, Types, Plug, Unplug, Toggle, Flow, vars
    <2>3. observed' \in Nat
      BY DEF Steady, Types, Plug, Unplug, Toggle, Flow, vars
    <2> QED
      BY <2>1, <2>2, <2>3 DEF Types
  <1>3. FewRows'
    <2>1. Len(db) \in Nat
      BY HereSteady
    <2>2. CASE Plug
      BY <1>1, <2>1, <2>2 DEF Steady, FewRows, Plug
    <2>3. CASE Unplug \/ Toggle \/ Flow \/ UNCHANGED vars
      <3>1. Pending' => Pending
        BY <1>1, <2>3 DEF Pending, Unplug, Toggle, Flow, vars
      <3> QED
        BY <1>1, <3>1 DEF Steady, FewRows
    <2> QED
      BY <2>2, <2>3
  <1> QED
    BY <1>1, <1>2, <1>3, HereIs, SteadyAgain DEF Steady

\* Loadpoint.Update begins with the progress, or ends early.
LEMMA ProgressSteady ==
    ASSUME Steady,
           \/ \E reading \in Readings({"progress"}) : UpdateProgress(reading)
           \/ UpdateReturn
    PROVE  Steady' /\ (clean' => clean)
  <1>1. lp \in Memory /\ MeterOK /\ Types /\ Sane(Here) /\ Agreed(lp) /\ Heard(lp.status, lp)
    BY HereSteady DEF Steady
  <1>2. /\ meter' = meter /\ plug' = plug /\ replugged' = replugged /\ db' = db
        /\ observed' = observed /\ faults' \in 0 .. MaxFaults /\ clean' \in BOOLEAN
        /\ clean' => clean
    <2>1. CASE UpdateReturn
      BY <1>1, <2>1 DEF UpdateReturn, Types
    <2>2. CASE \E reading \in Readings({"progress"}) : UpdateProgress(reading)
      BY <1>1, <2>2, AnyReadings DEF UpdateProgress
    <2> QED
      BY <2>1, <2>2
  <1> DEFINE Same(n) == /\ n \in Memory /\ SameNotice(lp, n) /\ n.up = lp.up
                        /\ n.session = lp.session /\ n.charging = lp.charging
  <1>3. PICK n : Same(n) /\ \E b \in BOOLEAN : lp' = [n EXCEPT !.updating = b]
    <2>1. CASE UpdateReturn
      BY <1>1, <2>1 DEF UpdateReturn, SameNotice
    <2>2. CASE \E reading \in Readings({"progress"}) : UpdateProgress(reading)
      <3>1. PICK reading \in Readings({"progress"}) : UpdateProgress(reading)
        BY <2>2
      <3> DEFINE n == PublishChargeProgress(lp, reading["progress"])
      <3>2. lp' = [n EXCEPT !.updating = TRUE]
        BY <3>1 DEF UpdateProgress
      <3>3. reading["progress"] \in OptReading
        BY <1>1, <3>1, AnyReadings DEF UpdateProgress, Measured, Reads
      <3>4. Same(n)
        BY <1>1, <3>3, ProgressSane
      <3> HIDE DEF n
      <3> QED
        BY <3>2, <3>4
    <2> QED
      BY <2>1, <2>2
  <1>4. Same(lp')
    <2>1. PICK b \in BOOLEAN : lp' = [n EXCEPT !.updating = b]
      BY <1>3
    <2>2. lp' \in Memory
      BY <1>3, <2>1, Stored
    <2> QED
      BY <1>3, <2>1, <2>2 DEF Memory, SameNotice
  <1> DEFINE t == [Here EXCEPT !.m = lp']
  <1>5. Sane(t) /\ t.m = lp' /\ t.d = db
    <2> HIDE DEF Here
    <2> QED
      BY <1>1, <1>4, HereIs, SaneStored
  <1> HIDE DEF t
  <1>6. Agreed(t.m) /\ Heard(t.m.status, t.m)
    BY <1>1, <1>4, <1>5 DEF Agreed, Heard, SameNotice
  <1>7. MeterOK' /\ Types'
    BY <1>1, <1>2 DEF MeterOK, Types
  <1>8. FewRows'
    <2>1. Pending' <=> Pending
      BY <1>2, <1>4 DEF Pending, SameNotice
    <2> QED
      BY <1>2, <2>1 DEF Steady, FewRows
  <1> QED
    BY <1>2, <1>5, <1>6, <1>7, <1>8, SteadyAgain

\* Loadpoint.Update reads the status and notifies.
LEMMA StatusSteady ==
    ASSUME Steady, NEW ignore \in BOOLEAN, NEW settled \in BOOLEAN,
           NEW reading \in Readings({"stop", "connect", "create", "start"}),
           UpdateStatus(reading, ignore, settled)
    PROVE  Steady' /\ (clean' => clean)
  <1> USE NoSessionAssumption
  <1> DEFINE s1 == UpdateChargerStatus(Here, ignore, reading)
             s2 == MaybePushVehicleConnect(s1, settled)
             m == [s2.m EXCEPT !.updating = FALSE]
             t == [s2 EXCEPT !.m = m]
  <1>1. /\ lp.up /\ lp' = m /\ db' = s2.d
        /\ ignore => plug = "B" /\ lp.status = "C"
        /\ replugged' = FALSE /\ CountFaults(reading)
        /\ meter' = meter /\ plug' = plug /\ observed' = observed
    BY DEF UpdateStatus, Here
  <1>2. MeterOK /\ Types /\ Sane(Here) /\ Agreed(lp) /\ Heard(lp.status, lp)
    BY DEF Steady
  <1>3. /\ Measured(reading) /\ faults' \in 0 .. MaxFaults /\ clean' \in BOOLEAN
        /\ clean' => clean
    BY <1>1, <1>2, AnyReadings
  <1>4. /\ Sane(s1) /\ Agreed(s1.m) /\ Heard(s1.m.status, s1.m) /\ s1.m.up = lp.up
        /\ s1.m.status \in {plug, lp.status}
        /\ s1.m.status # plug => ignore /\ s1 = Here
        /\ Len(s1.d) <= Len(db) + 1
        /\ Len(s1.d) # Len(db) => Pending
        /\ Len(s1.d) # Len(db) => s1.m.status = "C" /\ s1.m.session.row # 0
        /\ s1.m.session # NoSession /\ s1.m.session.row = 0 => Pending
    <2>1. Agreed(Here.m) /\ Heard(Here.m.status, Here.m) /\ Here.m = lp /\ Here.d = db
      BY <1>2, HereIs
    <2>2. plug \in {"A", "B", "C"}
      BY <1>2 DEF Types
    <2>3. /\ Sane(s1) /\ Agreed(s1.m) /\ Heard(s1.m.status, s1.m) /\ s1.m.up = lp.up
          /\ s1.m.status \in {plug, lp.status}
          /\ s1.m.status # plug => ignore /\ s1 = Here
          /\ Len(s1.d) <= Len(db) + 1
          /\ Len(s1.d) # Len(db) =>
                \/ plug # "A" /\ (replugged \/ lp.status \in {"none", "A"})
                \/ lp.session # NoSession /\ lp.session.row = 0
          /\ Len(s1.d) # Len(db) => s1.m.status = "C" /\ s1.m.session.row # 0
          /\ s1.m.session # NoSession /\ s1.m.session.row = 0 =>
                \/ plug # "A" /\ (replugged \/ lp.status \in {"none", "A"})
                \/ lp.session # NoSession /\ lp.session.row = 0
      <3> HIDE DEF Here
      <3> QED
        BY <1>2, <1>3, <2>1, <2>2, ChargerStatusSane
    <2> HIDE DEF s1
    <2> QED
      BY <1>1, <2>3 DEF Pending
  <1> HIDE DEF s1
  <1>5. /\ Sane(s2) /\ s2.m \in Memory /\ s2.d = s1.d
        /\ SameCount(s1.m, s2.m) /\ s2.m.session = s1.m.session
        /\ s2.m.status = s1.m.status /\ s2.m.up = lp.up /\ Heard(s2.m.status, s2.m)
    BY <1>4, ConnectPushed
  <1> HIDE DEF s2
  <1>6. /\ m \in Memory /\ m.session = s2.m.session /\ m.charging = s2.m.charging
        /\ m.status = s2.m.status /\ m.up = s2.m.up
        /\ m.connectPending = s2.m.connectPending
        /\ m.notified = s2.m.notified /\ m.repeated = s2.m.repeated
    <2>1. m \in Memory
      BY <1>5, Stored
    <2> QED
      BY <1>5, <2>1 DEF Memory
  <1> HIDE DEF m
  <1>7. Sane(t) /\ t.m = m /\ t.d = s2.d
    BY <1>5, <1>6, SaneStored
  <1> HIDE DEF t
  <1>8. Agreed(t.m) /\ Heard(t.m.status, t.m)
    BY <1>4, <1>5, <1>6, <1>7 DEF Agreed, Heard, SameCount
  <1>9. MeterOK' /\ Types'
    BY <1>1, <1>2, <1>3 DEF MeterOK, Types
  <1>10. FewRows'
    <2>1. Len(db') \in Nat /\ Len(db') <= Len(db) + 1 /\ db' = s1.d
      BY <1>1, <1>4, <1>5, SaneIs
    <2>2. lp'.session = s1.m.session /\ lp'.status = s1.m.status
      BY <1>1, <1>5, <1>6
    <2>3. plug' # "A" => lp'.status \notin {"none", "A"}
      <3>1. CASE s1.m.status = plug
        BY <1>1, <1>2, <2>2, <3>1 DEF Types
      <3>2. CASE s1.m.status # plug
        BY <1>1, <1>4, <2>2, <3>2, HereIs
      <3> QED
        BY <3>1, <3>2
    <2>4. Pending' => Pending
      BY <1>1, <1>4, <2>2, <2>3 DEF Pending
    <2>5. Len(db') # Len(db) => Pending /\ ~Pending'
      BY <1>1, <1>4, <2>1, <2>2, <2>3 DEF Pending
    <2> QED
      BY <2>1, <2>4, <2>5, Bounded
  <1> QED
    BY <1>1, <1>3, <1>7, <1>8, <1>9, <1>10, SteadyAgain

\* The process ends, by itself or on request, and is started again.
LEMMA ProcessSteady ==
    ASSUME Steady,
           \/ Crash \/ Shutdown
           \/ \E reading \in Readings({"boot"}) : Restart(reading)
    PROVE  Steady' /\ (clean' => clean)
  <1> USE NoSessionAssumption, NoReadingAssumption
  <1>1. MeterOK /\ Types /\ db \in Seq(Rows) /\ Len(db) \in Nat /\ Sane(Here)
    BY HereSteady DEF Steady
  <1>2. /\ meter' = meter /\ plug' = plug /\ observed' = observed
        /\ replugged' \in {replugged, FALSE}
        /\ faults' \in 0 .. MaxFaults /\ clean' \in BOOLEAN
        /\ lp' \in {Boot, Down}
        /\ db' \in Seq(Rows) /\ Len(db') = Len(db)
        /\ clean' => clean
        /\ lp' = Down \/ Len(db) < MaxRows
    <2>1. CASE Crash
      BY <1>1, <2>1 DEF Crash, Types
    <2>2. CASE Shutdown
      <3>1. db' = StopSession(Here).d
        BY <2>2 DEF Shutdown, Here
      <3>2. db' \in Seq(Rows) /\ Len(db') = Len(db)
        <4> HIDE DEF Here
        <4> QED
          BY <1>1, <3>1, HereIs, StoppedSane, SaneIs
      <3> QED
        BY <1>1, <2>2, <3>2 DEF Shutdown, Types
    <2>3. CASE \E reading \in Readings({"boot"}) : Restart(reading)
      <3>1. PICK reading \in Readings({"boot"}) : Restart(reading)
        BY <2>3
      <3>2. /\ reading["boot"] \in OptReading /\ faults' \in 0 .. MaxFaults
            /\ clean' \in BOOLEAN /\ (clean' => clean)
        BY <1>1, <3>1, AnyReadings DEF Restart, Measured, Reads
      <3>3. ChargeMeterTotal(reading["boot"]) \in Int
        BY <3>2 DEF ChargeMeterTotal, OptReading
      <3>4. db' \in Seq(Rows) /\ Len(db') = Len(db)
        BY <1>1, <3>1, <3>3, HistoryTyped DEF Restart
      <3> QED
        BY <1>1, <3>1, <3>2, <3>4 DEF Restart
    <2> QED
      BY <2>1, <2>2, <2>3
  <1>3. MeterOK' /\ Types'
    BY <1>1, <1>2 DEF MeterOK, Types
  <1> DEFINE t == [m |-> lp', d |-> db']
  <1>4. /\ Sane(t) /\ Agreed(lp') /\ Heard(lp'.status, lp')
        /\ lp'.session = NoSession /\ (lp' = Down => ~lp'.up)
    BY <1>2, CreatedSane
  <1>5. t.m = lp' /\ t.d = db'
    OBVIOUS
  <1> HIDE DEF t
  <1>6. FewRows'
    <2>1. Pending' => Len(db) < MaxRows
      BY <1>2, <1>4 DEF Pending
    <2> QED
      BY <1>1, <1>2, <2>1, BoundAssumption DEF Steady, FewRows
  <1> QED
    BY <1>2, <1>3, <1>4, <1>5, <1>6, SteadyAgain

\* Every step keeps it, and what has failed stays failed.
LEMMA SteadyStep ==
    ASSUME Steady, [Next]_vars
    PROVE  Steady' /\ (clean' => clean)
  BY VehicleSteady, ProgressSteady, StatusSteady, ProcessSteady DEF Next

-----------------------------------------------------------------------------
(* What the handlers book.                                                 *)

\* The rows before the one written are not touched.
LEMMA ExactKept ==
    ASSUME NEW s \in State, NEW t \in State, Exact(s), s.m.session # NoSession,
           t.m.session # NoSession, t.m.session.row = Slot(s), Slot(s) # 0,
           Written(s.d, t.d, Slot(s), t.m.session.energy),
           t.m.charging => t.m.startEnergy \in Int,
           Count(t.m) = Count(s.m), t.m.total <= Count(t.m)
    PROVE  Exact(t)
  <1> DEFINE k == Slot(s)
  <1>1. s.d \in Seq(Rows) /\ t.d \in Seq(Rows)
    BY DEF State
  <1>2. /\ k \in {Len(s.d), Len(s.d) + 1} /\ Len(t.d) = k /\ t.d[k].energy = t.m.session.energy
        /\ \A i \in 1 .. Len(s.d) : i # k => t.d[i] = s.d[i]
    BY DEF Written
  <1>3. Slot(t) = k /\ k # 0
    BY DEF Slot
  <1> HIDE DEF k
  <1>4. k \in Nat /\ k <= Len(s.d) + 1 /\ k <= Len(t.d) + 1
    BY <1>1, <1>2, RowTypes
  <1>5. \A i \in 1 .. k - 1 : t.d[i].energy = s.d[i].energy
    BY <1>1, <1>2, <1>4, RowTypes
  <1>6. BookedBefore(t.d, k) = BookedBefore(s.d, k)
    BY <1>1, <1>4, <1>5, BeforeKept
  <1> QED
    BY <1>2, <1>3, <1>6 DEF Exact, k

\* Saving the session adds a row or updates the last one.
LEMMA Persisted ==
    ASSUME NEW s \in State, NEW w \in [Nat -> Int], s.m.session # NoSession,
           RowsKept(s.d, w), SessionFits(s, w), Rated(s.m, w[Slot(s)]), MeterOK
    PROVE  /\ Persist(s) \in State
           /\ SessionOnly(s.m, Persist(s).m)
           /\ Persist(s).m.session = [s.m.session EXCEPT !.row = Slot(s)]
           /\ Slot(s) \in Nat /\ Slot(s) # 0
           /\ Written(s.d, Persist(s).d, Slot(s), s.m.session.energy)
           /\ Grows(s.d, Persist(s).d)
           /\ RowsKept(Persist(s).d, w) /\ SessionFits(Persist(s), w)
  <1> DEFINE ses == s.m.session
             d == s.d
             row == IF ses.row = 0 THEN Len(d) + 1 ELSE ses.row
             rec == [start |-> ses.start, finished |-> ses.finished, energy |-> ses.energy]
             t == Persist(s)
  <1> USE NoSessionAssumption
  <1>1. s.m \in Memory /\ d \in Seq(Rows) /\ ses \in Sessions /\ meter \in Int
    BY DEF State, Memory, MeterOK, FirstReading
  <1>2. rec \in Rows
    BY <1>1 DEF Sessions, Rows
  <1>3. Len(d) \in Nat /\ ses.row \in Nat /\ row \in Nat \ {0} /\ row = Slot(s)
    BY <1>1 DEF Sessions, Slot
  <1>4. t.m = [s.m EXCEPT !.session.row = row]
    BY DEF Persist
  <1>5. t.m \in Memory /\ t.m.session = [ses EXCEPT !.row = row]
    <2>1. [ses EXCEPT !.row = row] \in Sessions
      BY <1>1, <1>3 DEF Sessions
    <2> QED
      BY <1>1, <1>4, <2>1 DEF Memory
  <1>12. SessionOnly(s.m, t.m)
    <2> HIDE DEF row
    <2> QED
      BY <1>1, <1>4 DEF Memory, SessionOnly, SameNotice, SameCount
  <1>6. /\ t.d \in Seq(Rows) /\ row = Len(t.d)
        /\ row \in {Len(d), Len(d) + 1}
        /\ t.d[row] = rec
        /\ \A i \in 1 .. Len(t.d) : i # row => i \in 1 .. Len(d) /\ t.d[i] = d[i]
        /\ \A i \in 1 .. Len(d) : i # row => t.d[i] = d[i]
    <2>1. CASE ses.row = 0
      <3>1. t.d = Append(d, rec)
        BY <2>1 DEF Persist
      <3>2. row = Len(d) + 1
        BY <2>1
      <3> HIDE DEF t, d, rec, row
      <3>3. /\ t.d \in Seq(Rows) /\ Len(t.d) = Len(d) + 1
            /\ t.d[Len(d) + 1] = rec /\ \A i \in 1 .. Len(d) : t.d[i] = d[i]
        BY <1>1, <1>2, <3>1
      <3>4. row = Len(t.d) /\ t.d[row] = rec
        BY <3>2, <3>3
      <3>5. \A i \in 1 .. Len(t.d) : i # row => i \in 1 .. Len(d)
        BY <1>3, <3>2, <3>3
      <3> QED
        BY <3>2, <3>3, <3>4, <3>5
    <2>2. CASE ses.row # 0
      <3>1. t.d = [d EXCEPT ![row] = rec]
        BY <2>2 DEF Persist
      <3>2. row = Len(d)
        BY <2>2 DEF SessionFits
      <3> QED
        BY <1>1, <1>2, <1>3, <2>2, <3>1, <3>2
    <2> QED
      BY <2>1, <2>2
  <1>7. t \in State
    <2>1. t = [m |-> t.m, d |-> t.d]
      BY DEF Persist
    <2> QED
      BY <1>5, <1>6, <2>1 DEF State
  <1>8. /\ rec.start = ses.start /\ rec.energy = ses.energy
        /\ w[row] \in FirstReading .. meter
        /\ rec.energy \in Nat /\ w[row] + rec.energy <= meter
        /\ rec.start # NoReading => rec.start = w[row]
    <2>1. /\ ses.energy \in 0 .. s.m.total /\ s.m.total \in 0 .. meter - w[row]
          /\ w[row] \in FirstReading .. meter
          /\ ses.start # NoReading => ses.start = w[row]
      BY <1>3 DEF SessionFits, Rated
    <2>2. rec.start = ses.start /\ rec.energy = ses.energy
      OBVIOUS
    <2> HIDE DEF rec, row, ses
    <2>3. w[row] \in Int /\ s.m.total \in Int /\ ses.energy \in Int
      BY <1>1, <2>1 DEF FirstReading
    <2> QED
      BY <1>1, <2>1, <2>2, <2>3
  <1>13. Written(d, t.d, row, ses.energy)
    BY <1>6, <1>8 DEF Written
  <1>14. Grows(d, t.d)
    <2>1. CASE row = Len(d)
      <3>1. ses.row # 0
        BY <1>3, <2>1
      <3>2. d[row].energy <= rec.energy
        BY <1>3, <1>8, <3>1, <2>1 DEF SessionFits
      <3>3. Len(d) <= Len(t.d)
        BY <1>3, <1>6, <2>1
      <3>4. ASSUME NEW i \in 1 .. Len(d)
            PROVE  d[i].energy <= t.d[i].energy
        <4>1. d[i].energy \in Int
          BY <1>1, RowTypes
        <4> HIDE DEF t, row, rec, ses
        <4>2. CASE i = row
          BY <1>6, <3>2, <4>2
        <4>3. CASE i # row
          <5>1. t.d[i] = d[i]
            BY <1>6, <4>3
          <5> QED
            BY <4>1, <5>1
        <4> QED
          BY <4>2, <4>3
      <3> HIDE DEF t, d
      <3> QED
        BY <3>3, <3>4 DEF Grows
    <2>2. CASE row # Len(d)
      <3>1. Len(d) <= Len(t.d)
        BY <1>3, <1>6, <2>2
      <3>5. row = Len(d) + 1
        <4> HIDE DEF t, row
        <4> QED
          BY <1>6, <2>2
      <3>2. ASSUME NEW i \in 1 .. Len(d)
            PROVE  d[i].energy <= t.d[i].energy
        <4>1. d[i].energy \in Int
          BY <1>1, RowTypes
        <4> HIDE DEF t, d, row
        <4>2. i # row
          BY <1>3, <3>5
        <4>3. t.d[i] = d[i]
          BY <1>6, <4>2
        <4> QED
          BY <4>1, <4>3
      <3> HIDE DEF t, d
      <3> QED
        BY <3>1, <3>2 DEF Grows
    <2> QED
      BY <2>1, <2>2
  <1>10. RowsKept(t.d, w)
    <2>1. ASSUME NEW i \in 1 .. Len(t.d)
          PROVE  /\ w[i] \in FirstReading .. meter
                 /\ t.d[i].energy \in Nat
                 /\ t.d[i].start # NoReading => t.d[i].start = w[i]
                 /\ w[i] + t.d[i].energy <= IF i = Len(t.d) THEN meter ELSE w[i + 1]
      <3>1. CASE i = row
        <4> HIDE DEF t, rec, row
        <4> QED
          BY <1>6, <1>8, <3>1
      <3>2. CASE i # row
        <4>1. i \in 1 .. Len(d) /\ t.d[i] = d[i] /\ i # Len(t.d)
          <5> HIDE DEF t, rec, row
          <5> QED
            BY <1>6, <3>2
        <4>2. w[i] + d[i].energy <= w[i + 1]
          <5>1. CASE i = Len(d)
            <6>1. ses.row = 0
              <7>1. ses.row # 0 => row = Len(d)
                BY DEF SessionFits
              <7> QED
                BY <3>2, <5>1, <7>1
            <6> QED
              BY <4>1, <5>1, <6>1 DEF SessionFits
          <5>2. CASE i # Len(d)
            BY <4>1, <5>2 DEF RowsKept
          <5> QED
            BY <5>1, <5>2
        <4> HIDE DEF t, rec, row, ses
        <4> QED
          BY <4>1, <4>2 DEF RowsKept
      <3> QED
        BY <3>1, <3>2
    <2> HIDE DEF t
    <2> QED
      BY <2>1 DEF RowsKept
  <1>11. SessionFits(t, w)
    <2>1. /\ t.m.session.row = row /\ t.m.session.energy = ses.energy
          /\ t.m.session.start = ses.start /\ t.m.total = s.m.total
      BY <1>1, <1>5, <1>12 DEF Sessions, SessionOnly, SameCount
    <2>2. Slot(t) = row
      BY <1>3, <2>1 DEF Slot
    <2>3. ses.energy \in 0 .. s.m.total
      BY DEF SessionFits
    <2> HIDE DEF t, row, rec, ses
    <2>4. ses.energy \in Int
      BY <1>1 DEF Sessions
    <2> QED
      BY <1>3, <1>6, <1>8, <2>1, <2>2, <2>3, <2>4 DEF SessionFits
  <1> QED
    BY <1>3, <1>5, <1>7, <1>10, <1>11, <1>12, <1>13, <1>14

\* The session is saved with the metrics' total.
LEMMA Saved ==
    ASSUME NEW s, NEW w, Kept(s, w), s.m.session # NoSession, s.m.session.row # 0, MeterOK
    PROVE  LET t == SaveTotal(s) IN
           /\ t \in State /\ Kept(t, w)
           /\ SessionOnly(s.m, t.m)
           /\ t.m.session = [s.m.session EXCEPT !.energy = s.m.total]
           /\ Len(t.d) = Len(s.d) /\ Grows(s.d, t.d)
           /\ Written(s.d, t.d, Slot(s), s.m.total)
  <1> USE NoSessionAssumption
  <1> DEFINE ses == [s.m.session EXCEPT !.energy = s.m.total]
             u == [s EXCEPT !.m = [s.m EXCEPT !.session = ses]]
             t == Persist(u)
  <1>1. /\ s \in State /\ w \in [Nat -> Int] /\ s.m \in Memory /\ s.d \in Seq(Rows)
        /\ s.m.session \in Sessions /\ s.m.total \in Int
    BY DEF Kept, State, Memory
  <1>2. ses \in Sessions
    BY <1>1 DEF Sessions
  <1>3. /\ ses.row = s.m.session.row /\ ses.start = s.m.session.start
        /\ ses.energy = s.m.total /\ ses.created = s.m.session.created
    BY <1>1 DEF Sessions
  <1>9. SaveTotal(s) = t
    BY DEF SaveTotal
  <1> HIDE DEF ses
  <1>4. u.m \in Memory /\ u.d = s.d /\ u.m.session = ses /\ SessionOnly(s.m, u.m)
    BY <1>1, <1>2 DEF State, Memory, SessionOnly, SameNotice, SameCount
  <1>5. u \in State
    BY <1>1, <1>4 DEF State
  <1> HIDE DEF u
  <1>10. Slot(u) = Slot(s) /\ Slot(s) = Len(s.d) /\ s.m.session.row = Slot(s)
    BY <1>3, <1>4 DEF Slot, Kept, SessionFits
  <1>11. s.m.total \in 0 .. meter - w[Slot(s)] /\ Rated(u.m, w[Slot(u)])
    BY <1>4, <1>10 DEF Kept, Rated, SessionOnly, SameCount
  <1>6. SessionFits(u, w) /\ u.m.session # NoSession
    <2>1. /\ w[Slot(s)] \in FirstReading .. meter
          /\ s.m.session.energy \in 0 .. s.m.total
          /\ s.m.session.start # NoReading => s.m.session.start = w[Slot(s)]
          /\ s.d[Len(s.d)].start = s.m.session.start
          /\ s.d[Len(s.d)].energy <= s.m.session.energy
      BY DEF Kept, SessionFits
    <2>2. s.d[Len(s.d)].energy <= s.m.total /\ s.m.total \in 0 .. s.m.total
      <3>1. Len(s.d) \in 1 .. Len(s.d)
        BY <1>1, <1>10, RowTypes
      <3>2. s.d[Len(s.d)].energy \in Int /\ s.m.session.energy \in Int
        BY <1>1, <3>1, RowTypes DEF Sessions
      <3> DEFINE saved == s.d[Len(s.d)].energy
                 known == s.m.session.energy
                 total == s.m.total
      <3>3. /\ saved \in Int /\ known \in Int /\ saved <= known
            /\ known \in 0 .. total /\ total \in Int
        <4>1. total \in Int
          BY <1>1 DEF Memory
        <4> QED
          BY <2>1, <3>2, <4>1
      <3> HIDE DEF saved, known, total
      <3>4. saved <= total /\ total \in 0 .. total
        BY <3>3
      <3> QED
        BY <3>4 DEF saved, total
    <2>3. u.m.total = s.m.total
      BY <1>4 DEF SessionOnly, SameCount
    <2> QED
      BY <1>2, <1>3, <1>4, <1>10, <2>1, <2>2, <2>3 DEF SessionFits
  <1>7. /\ t \in State /\ RowsKept(t.d, w) /\ SessionFits(t, w)
        /\ SessionOnly(u.m, t.m)
        /\ t.m.session = [ses EXCEPT !.row = Slot(u)]
        /\ Written(s.d, t.d, Slot(u), ses.energy)
        /\ Grows(s.d, t.d)
    <2>1. RowsKept(u.d, w)
      BY <1>4 DEF Kept
    <2> QED
      BY <1>1, <1>4, <1>5, <1>6, <1>11, <2>1, Persisted
  <1> HIDE DEF t
  <1>8. t.m.session = ses
    BY <1>2, <1>3, <1>7, <1>10 DEF Sessions
  <1>12. SessionOnly(s.m, t.m)
    BY <1>4, <1>7 DEF SessionOnly, SameNotice, SameCount
  <1>13. Written(s.d, t.d, Slot(s), s.m.total) /\ Len(t.d) = Len(s.d)
    BY <1>3, <1>7, <1>10 DEF Written
  <1>14. Rated(t.m, w[Slot(t)])
    <2>1. Slot(t) = Slot(s)
      BY <1>3, <1>8, <1>10 DEF Slot
    <2> QED
      BY <1>12, <2>1 DEF Kept, Rated, SessionOnly, SameCount
  <1>15. Kept(t, w)
    BY <1>1, <1>3, <1>7, <1>8, <1>14 DEF Kept, SavedOnce
  <1> QED
    BY <1>7, <1>8, <1>9, <1>12, <1>13, <1>15 DEF ses

\* evVehicleConnect: there is a session, which is not saved yet and begins here.
LEMMA VehicleConnects ==
    ASSUME NEW s, NEW w, Kept(s, w), s.m.session = NoSession, ~s.m.charging,
           NEW reading, Sound(reading), MeterOK
    PROVE  LET t == VehicleConnect(s, reading) IN
           /\ \E v : Kept(t, v)
           /\ SameNotice(s.m, t.m)
           /\ t.d = s.d
           /\ t.m.session # NoSession /\ t.m.up = s.m.up
           /\ ~t.m.charging
           /\ Exact(s) => Exact(t)
  <1> USE NoSessionAssumption, BoundAssumption
  <1> DEFINE start == reading["connect"]
             session == NewSession(reading)
             m == [s.m EXCEPT !.startEnergy = start, !.charged = 0,
                              !.total = 0, !.session = session]
             t == VehicleConnect(s, reading)
             k == Len(s.d) + 1
             v == [w EXCEPT ![k] = meter]
  <1>1. /\ s \in State /\ s.m \in Memory /\ s.d \in Seq(Rows) /\ w \in [Nat -> Int]
        /\ meter \in Int /\ meter \in FirstReading .. meter /\ k \in Nat
    BY DEF Kept, State, MeterOK, FirstReading
  <1>2. start \in {meter, NoReading} /\ reading["create"] \in {meter, NoReading}
    BY DEF Sound, Reads
  <1>3. start \in OptReading /\ session \in Sessions
    BY <1>1, <1>2 DEF Sessions, OptReading, NewSession
  <1>5. t = [s EXCEPT !.m = m]
    BY DEF VehicleConnect
  <1>6. m \in Memory /\ m.session = session /\ m.total = 0 /\ m.startEnergy = start
        /\ m.charged = 0 /\ SameNotice(s.m, m) /\ m.up = s.m.up /\ ~m.charging
    <2> HIDE DEF start, session
    <2>1. m \in Memory
      <3> DEFINE m1 == [s.m EXCEPT !.startEnergy = start]
                 m2 == [m1 EXCEPT !.charged = 0]
                 m3 == [m2 EXCEPT !.total = 0]
      <3>1. m1 \in Memory
        BY <1>1, <1>3, Stored
      <3>2. m2 \in Memory
        <4> HIDE DEF m1
        <4> QED
          BY <3>1, Stored
      <3>3. m3 \in Memory
        <4> HIDE DEF m2
        <4> QED
          BY <3>2, Stored
      <3>4. m = [m3 EXCEPT !.session = session]
        OBVIOUS
      <3> HIDE DEF m3
      <3> QED
        BY <1>3, <3>3, <3>4, Stored
    <2>2. /\ m.session = session /\ m.total = 0 /\ m.startEnergy = start
          /\ m.charged = 0 /\ ~m.charging
      BY <1>1 DEF Memory
    <2> QED
      BY <1>1, <2>1, <2>2 DEF Memory, SameNotice
  <1>7. t \in State /\ t.m = m /\ t.d = s.d
    <2> HIDE DEF m, t
    <2> QED
      BY <1>1, <1>5, <1>6 DEF State
  <1>8. /\ session.row = 0 /\ ~session.created /\ session.energy = 0
        /\ session.start = reading["create"]
    BY DEF NewSession
  <1> HIDE DEF m, t, session
  <1>9. Slot(t) = k /\ t.m.session # NoSession
    BY <1>3, <1>6, <1>7, <1>8 DEF Slot
  <1>10. /\ v \in [Nat -> Int] /\ v[k] = meter
         /\ \A i \in 1 .. Len(s.d) : v[i] = w[i]
         /\ \A i \in 1 .. Len(s.d) : i # Len(s.d) => v[i + 1] = w[i + 1]
    <2>1. k \in Nat /\ \A i \in 1 .. Len(s.d) : i # k /\ i \in Nat
      BY <1>1, RowTypes
    <2>2. \A i \in 1 .. Len(s.d) : i # Len(s.d) => i + 1 # k /\ i + 1 \in Nat
      BY <1>1, RowTypes
    <2> HIDE DEF k
    <2> QED
      BY <1>1, <2>1, <2>2
  <1> HIDE DEF v
  <1>11. RowsKept(t.d, v)
    <2>1. RowsKept(s.d, w)
      BY DEF Kept
    <2> QED
      BY <1>7, <1>10, <2>1 DEF RowsKept
  <1>12. SessionFits(t, v)
    <2>1. Len(s.d) # 0 => v[Len(s.d)] + s.d[Len(s.d)].energy <= v[Len(s.d) + 1]
      <3>1. ASSUME Len(s.d) # 0
            PROVE  v[Len(s.d)] + s.d[Len(s.d)].energy <= meter
        <4>1. Len(s.d) \in 1 .. Len(s.d)
          BY <1>1, <3>1, RowTypes
        <4> QED
          BY <1>7, <1>11, <4>1 DEF RowsKept
      <3> QED
        BY <1>10, <3>1
    <2>2. m.session.energy \in 0 .. m.total
      BY <1>6, <1>8
    <2> QED
      BY <1>1, <1>2, <1>6, <1>7, <1>8, <1>9, <1>10, <2>1, <2>2 DEF SessionFits
  <1>13. Rated(m, meter)
    BY <1>1, <1>6 DEF Rated, Countable
  <1>14. Kept(t, v)
    BY <1>6, <1>7, <1>8, <1>9, <1>10, <1>11, <1>12, <1>13 DEF Kept, SavedOnce
  <1>15. Exact(s) => Exact(t)
    <2>1. BookedBefore(s.d, k) \in Int
      BY <1>1, RowTypes, BeforeInt
    <2>2. Count(m) = 0 /\ m.total = 0
      BY <1>6 DEF Count
    <2> QED
      BY <1>6, <1>7, <1>8, <1>9, <2>1, <2>2 DEF Exact
  <1> QED
    BY <1>6, <1>7, <1>9, <1>14, <1>15 DEF t

\* evChargeStart: the session has a row from then on.
LEMMA ChargeStarts ==
    ASSUME NEW s, NEW w, Kept(s, w), s.m.session # NoSession, ~s.m.charging,
           NEW reading, Sound(reading), MeterOK
    PROVE  LET t == ChargeStart(s, reading) IN
           /\ Kept(t, w) /\ SameNotice(s.m, t.m) /\ t.m.up = s.m.up /\ t.m.charging
           /\ t.m.session # NoSession /\ t.m.session.row # 0
           /\ Len(t.d) = IF s.m.session.row = 0 THEN Len(s.d) + 1 ELSE Len(s.d)
           /\ Grows(s.d, t.d)
           /\ Exact(s) /\ Clear(reading) => Exact(t)
  <1> USE NoSessionAssumption
  <1> DEFINE start == reading["start"]
             m == [s.m EXCEPT !.startEnergy = start, !.charging = TRUE]
             ses == [m.session EXCEPT !.created = TRUE]
             n == [m EXCEPT !.session = ses]
             u == [s EXCEPT !.m = n]
             t == Persist(u)
  <1>1. /\ s \in State /\ s.m \in Memory /\ s.d \in Seq(Rows) /\ s.m.session \in Sessions
        /\ w \in [Nat -> Int] /\ s.m.charged \in Int /\ meter \in Int
    BY DEF Kept, State, Memory, MeterOK, FirstReading
  <1>2. start \in {meter, NoReading} /\ start \in OptReading
    BY <1>1 DEF Sound, Reads, OptReading
  <1>3. m.session = s.m.session
    BY <1>1 DEF Memory
  <1>4. ChargeStart(s, reading) = t
    BY <1>3 DEF ChargeStart
  <1>5. /\ SameNotice(s.m, m) /\ m.up = s.m.up /\ m.charging /\ m.startEnergy = start
        /\ m.charged = s.m.charged /\ m.total = s.m.total
    <2> HIDE DEF start
    <2> QED
      BY <1>1 DEF Memory, SameNotice
  <1>6. m \in Memory
    <2> DEFINE m1 == [s.m EXCEPT !.startEnergy = start]
    <2>1. m1 \in Memory
      BY <1>1, <1>2, Stored
    <2>2. m = [m1 EXCEPT !.charging = TRUE]
      OBVIOUS
    <2> HIDE DEF m1
    <2> QED
      BY <2>1, <2>2, Stored
  <1> HIDE DEF m
  <1>7. /\ ses \in Sessions /\ ses.created
        /\ ses.row = s.m.session.row /\ ses.start = s.m.session.start
        /\ ses.energy = s.m.session.energy
    BY <1>1, <1>3 DEF Sessions
  <1> HIDE DEF ses
  <1>8. n \in Memory /\ n.session = ses /\ SessionOnly(m, n)
    BY <1>6, <1>7, Stored DEF Memory, SessionOnly, SameNotice, SameCount
  <1> HIDE DEF n
  <1>9. u \in State /\ u.m = n /\ u.d = s.d
    BY <1>1, <1>8 DEF State
  <1> HIDE DEF u
  <1>10. SessionFits(u, w) /\ u.m.session # NoSession /\ Slot(u) = Slot(s)
    <2>1. Slot(u) = Slot(s) /\ u.m.total = s.m.total
      BY <1>5, <1>7, <1>8, <1>9 DEF Slot, SessionOnly, SameCount
    <2> QED
      BY <1>7, <1>8, <1>9, <2>1 DEF SessionFits, Kept
  <1>14. Rated(u.m, w[Slot(u)])
    <2>1. /\ u.m.charged = s.m.charged /\ u.m.total = s.m.total
          /\ u.m.charging /\ u.m.startEnergy = start
      BY <1>5, <1>8, <1>9 DEF SessionOnly, SameCount
    <2>2. Rated(s.m, w[Slot(s)]) /\ w[Slot(s)] \in FirstReading .. meter
      BY DEF Kept, SessionFits
    <2> QED
      BY <1>1, <1>2, <1>10, <2>1, <2>2 DEF Rated, FirstReading
  <1>11. /\ t \in State /\ RowsKept(t.d, w) /\ SessionFits(t, w) /\ SessionOnly(n, t.m)
         /\ t.m.session = [ses EXCEPT !.row = Slot(s)]
         /\ Slot(s) \in Nat /\ Slot(s) # 0
         /\ Written(s.d, t.d, Slot(s), s.m.session.energy)
         /\ Grows(s.d, t.d)
    <2>1. RowsKept(u.d, w)
      BY <1>9 DEF Kept
    <2> QED
      BY <1>1, <1>7, <1>8, <1>9, <1>10, <1>14, <2>1, Persisted
  <1>12. /\ t.m.session # NoSession /\ t.m.session.row = Slot(s) /\ t.m.session.created
         /\ t.m.session.energy = s.m.session.energy
    BY <1>7, <1>11 DEF Sessions
  <1> HIDE DEF t
  <1>13. Kept(t, w)
    <2>1. Rated(t.m, w[Slot(t)])
      <3>1. Slot(t) = Slot(u)
        BY <1>10, <1>11, <1>12 DEF Slot
      <3> QED
        BY <1>9, <1>11, <1>14, <3>1 DEF Rated, SessionOnly, SameCount
    <2> QED
      BY <1>1, <1>11, <1>12, <2>1 DEF Kept, SavedOnce
  <1>15. Len(t.d) = IF s.m.session.row = 0 THEN Len(s.d) + 1 ELSE Len(s.d)
    BY <1>11 DEF Written, Slot, Kept, SessionFits
  <1>16. ASSUME Exact(s), Clear(reading)
         PROVE  Exact(t)
    <2>1. /\ t.m.charged = s.m.charged /\ t.m.total = s.m.total
          /\ t.m.charging /\ t.m.startEnergy = meter
      <3>1. start = meter
        BY <1>16 DEF Clear, Reads
      <3> QED
        BY <1>5, <1>8, <1>11, <3>1 DEF SessionOnly, SameCount
    <2>2. Count(t.m) = Count(s.m) /\ t.m.total <= Count(t.m)
      BY <1>1, <1>16, <2>1 DEF Count, Exact
    <2> QED
      BY <1>1, <1>11, <1>12, <1>16, <2>1, <2>2, ExactKept
  <1> QED
    BY <1>4, <1>5, <1>8, <1>11, <1>12, <1>13, <1>15, <1>16
    DEF SessionOnly, SameNotice, SameCount

\* stopSession: a session that has a row is saved, and there is no other.
LEMMA SessionStops ==
    ASSUME NEW s, NEW w, Kept(s, w), MeterOK
    PROVE  LET t == StopSession(s) IN
           /\ Kept(t, w) /\ SessionOnly(s.m, t.m)
           /\ t.m.session # NoSession <=> s.m.session # NoSession
           /\ t.m.session # NoSession => t.m.session.row = s.m.session.row
           /\ Len(t.d) = Len(s.d) /\ Grows(s.d, t.d)
           /\ Exact(s) => Exact(t)
  <1> USE NoSessionAssumption
  <1> DEFINE ses == [s.m.session EXCEPT !.finished = TRUE]
             m == [s.m EXCEPT !.session = ses]
             u == [s EXCEPT !.m = m]
             t == SaveTotal(u)
  <1>1. s \in State /\ s.m \in Memory /\ s.d \in Seq(Rows) /\ w \in [Nat -> Int]
    BY DEF Kept, State
  <1>2. CASE ~Booked(s.m)
    BY <1>1, <1>2, GrowsNot DEF StopSession, SessionOnly, SameNotice, SameCount
  <1>3. CASE Booked(s.m)
    <2>1. StopSession(s) = t
      BY <1>3 DEF StopSession
    <2>2. s.m.session # NoSession /\ s.m.session \in Sessions /\ s.m.session.row # 0
      BY <1>1, <1>3 DEF Booked, Kept, SavedOnce, Memory
    <2>3. /\ ses \in Sessions /\ ses.created = s.m.session.created
          /\ ses.row = s.m.session.row /\ ses.start = s.m.session.start
          /\ ses.energy = s.m.session.energy
      BY <2>2 DEF Sessions
    <2> HIDE DEF ses
    <2>4. m \in Memory /\ m.session = ses /\ SessionOnly(s.m, m)
      BY <1>1, <2>3, Stored DEF Memory, SessionOnly, SameNotice, SameCount
    <2> HIDE DEF m
    <2>5. u \in State /\ u.m = m /\ u.d = s.d
      BY <1>1, <2>4 DEF State
    <2> HIDE DEF u
    <2>6. u.m.session # NoSession /\ u.m.session.row # 0 /\ Slot(u) = Slot(s)
      BY <2>2, <2>3, <2>4, <2>5 DEF Slot
    <2>7. Kept(u, w)
      <3>1. SessionFits(u, w) /\ SavedOnce(u)
        BY <2>2, <2>3, <2>4, <2>5, <2>6
        DEF SessionFits, SavedOnce, Kept, SessionOnly, SameCount
      <3>2. Rated(u.m, w[Slot(u)])
        BY <2>2, <2>4, <2>5, <2>6 DEF Rated, Kept, SessionOnly, SameCount
      <3> QED
        BY <1>1, <2>5, <3>1, <3>2 DEF Kept
    <2>8. /\ t \in State /\ Kept(t, w)
          /\ SessionOnly(m, t.m)
          /\ t.m.session = [ses EXCEPT !.energy = m.total]
          /\ Len(t.d) = Len(s.d) /\ Grows(s.d, t.d)
          /\ Written(s.d, t.d, Slot(s), m.total)
      BY <2>4, <2>5, <2>6, <2>7, Saved
    <2>9. t.m.session \in Sessions /\ t.m.session.row = ses.row
          /\ t.m.session.created = ses.created /\ t.m.session.energy = m.total
      <3>1. m.total \in Int
        BY <2>4 DEF Memory
      <3> QED
        BY <2>3, <2>8, <3>1 DEF Sessions
    <2> HIDE DEF t
    <2>10. SessionOnly(s.m, t.m)
      BY <2>4, <2>8 DEF SessionOnly, SameNotice, SameCount
    <2>11. ASSUME Exact(s)
           PROVE  Exact(t)
      <3>1. /\ t.m.charging => t.m.startEnergy \in Int
            /\ Count(t.m) = Count(s.m) /\ t.m.total <= Count(t.m)
        BY <2>2, <2>10, <2>11 DEF Exact, Count, SessionOnly, SameCount
      <3>2. t.m.session.row = Slot(s) /\ Slot(s) # 0
        BY <2>2, <2>3, <2>9 DEF Slot
      <3> QED
        BY <1>1, <2>2, <2>8, <2>9, <2>11, <3>1, <3>2, ExactKept
    <2> QED
      BY <2>1, <2>2, <2>3, <2>8, <2>9, <2>10, <2>11
  <1> QED
    BY <1>2, <1>3

\* evChargeStop: what was counted is what the meter has counted.
LEMMA ChargeStops ==
    ASSUME NEW s, NEW w, Kept(s, w), s.m.charging, s.m.session # NoSession,
           NEW reading, Sound(reading), MeterOK
    PROVE  LET t == ChargeStop(s, reading) IN
           /\ Kept(t, w) /\ SameNotice(s.m, t.m) /\ t.m.up = s.m.up /\ ~t.m.charging
           /\ t.m.session # NoSession /\ t.m.session.row = s.m.session.row
           /\ Len(t.d) = Len(s.d) /\ Grows(s.d, t.d)
           /\ Exact(s) /\ Clear(reading) => Exact(t)
  <1> USE BoundAssumption, NoReadingAssumption
  <1> DEFINE stop == reading["stop"]
             known == stop # NoReading /\ s.m.startEnergy # NoReading
             charged == IF known THEN s.m.charged + stop - s.m.startEnergy ELSE s.m.charged
             m == [s.m EXCEPT !.charging = FALSE, !.charged = charged]
             u == [s EXCEPT !.m = m]
             b == w[Slot(s)]
  <1>1. /\ s \in State /\ s.m \in Memory /\ s.m.charged \in Int
        /\ s.m.startEnergy \in OptReading /\ w \in [Nat -> Int]
    BY DEF Kept, State, Memory
  <1>2. stop \in {meter, NoReading} /\ meter \in Int
    BY DEF Sound, Reads, MeterOK, FirstReading
  <1>9. b \in FirstReading .. meter
    BY DEF Kept, SessionFits
  <1>3. ChargeStop(s, reading) = StopSession(u)
    BY DEF ChargeStop
  <1>4. /\ charged \in Int /\ charged <= meter - b /\ Countable(charged, meter, b)
    <2>1. /\ s.m.charged <= meter - b
          /\ Countable(s.m.charged, meter, b)
          /\ s.m.startEnergy \notin {NoReading, Garbage} =>
                /\ s.m.startEnergy \in b .. meter
                /\ s.m.charged <= s.m.startEnergy - b
                /\ Countable(s.m.charged, s.m.startEnergy, b)
      BY DEF Kept, Rated
    <2> HIDE DEF b
    <2>2. CASE ~known
      BY <1>1, <2>1, <2>2
    <2>3. CASE known /\ s.m.startEnergy = Garbage
      BY <1>1, <1>2, <1>9, <2>1, <2>3 DEF Countable, MeterOK, FirstReading, Garbage
    <2>4. CASE known /\ s.m.startEnergy # Garbage
      BY <1>1, <1>2, <1>9, <2>1, <2>4 DEF Countable, MeterOK, FirstReading, Garbage
    <2> QED
      BY <2>2, <2>3, <2>4
  <1>10. ASSUME Exact(s), Clear(reading)
         PROVE  charged = Count(s.m) /\ Count(s.m) \in Int
    <2>1. stop = meter /\ s.m.startEnergy \in Int
      BY <1>10 DEF Clear, Reads, Exact
    <2> QED
      BY <1>1, <1>2, <2>1 DEF Count
  <1> HIDE DEF charged
  <1>5. /\ m.session = s.m.session /\ m.charged = charged /\ ~m.charging
        /\ m.total = s.m.total /\ m.up = s.m.up /\ SameNotice(s.m, m)
    BY <1>1 DEF Memory, SameNotice
  <1>6. m \in Memory
    <2> DEFINE m1 == [s.m EXCEPT !.charging = FALSE]
    <2>1. m1 \in Memory
      BY <1>1, Stored
    <2>2. m = [m1 EXCEPT !.charged = charged]
      OBVIOUS
    <2> HIDE DEF m1
    <2> QED
      BY <1>4, <2>1, <2>2, Stored
  <1> HIDE DEF m
  <1>7. u \in State /\ u.m = m /\ u.d = s.d
    BY <1>1, <1>6 DEF State
  <1> HIDE DEF u
  <1>11. Slot(u) = Slot(s)
    BY <1>5, <1>7 DEF Slot
  <1>8. Kept(u, w)
    <2>1. Rated(m, b)
      BY <1>4, <1>5 DEF Rated, Kept
    <2>2. SessionFits(u, w) /\ SavedOnce(u)
      BY <1>5, <1>7, <1>11 DEF SessionFits, SavedOnce, Kept
    <2> QED
      BY <1>1, <1>7, <1>11, <2>1, <2>2 DEF Kept
  <1>12. ASSUME Exact(s), Clear(reading)
         PROVE  Exact(u)
    <2>1. Count(m) = Count(s.m) /\ s.m.session.row # 0
      BY <1>5, <1>10, <1>12 DEF Count, Exact
    <2> QED
      BY <1>5, <1>7, <1>11, <1>12, <2>1 DEF Exact
  <1> QED
    BY <1>3, <1>5, <1>7, <1>8, <1>12, SessionStops DEF SessionOnly, SameNotice, SameCount

\* finalizeSessionEnergy: the session is saved once more when more was counted.
LEMMA Finalized ==
    ASSUME NEW s, NEW w, Kept(s, w), MeterOK
    PROVE  LET t == FinalizeSessionEnergy(s) IN
           /\ Kept(t, w) /\ SameNotice(s.m, t.m) /\ t.m.up = s.m.up
           /\ t.m.charging = s.m.charging
           /\ Len(t.d) = Len(s.d) /\ Grows(s.d, t.d)
           /\ t.m.session # NoSession <=> s.m.session # NoSession
           /\ Exact(s) /\ ~s.m.charging =>
                 Exact(t) /\ (t.m.session # NoSession => t.m.session.energy = Count(t.m))
  <1> USE NoSessionAssumption
  <1> DEFINE total == IF s.m.charged > s.m.total THEN s.m.charged ELSE s.m.total
             m == UpdateMetrics(s.m, s.m.charged)
             u == [s EXCEPT !.m = m]
             t == SaveTotal(u)
  <1>1. /\ s \in State /\ s.m \in Memory /\ s.d \in Seq(Rows) /\ w \in [Nat -> Int]
        /\ s.m.charged \in Int /\ s.m.total \in Int
    BY DEF Kept, State, Memory
  <1>2. CASE ~(Booked(s.m) /\ s.m.charged > s.m.session.energy)
    <2>1. FinalizeSessionEnergy(s) = s
      BY <1>2 DEF FinalizeSessionEnergy
    <2>2. ASSUME Exact(s), ~s.m.charging, s.m.session # NoSession
          PROVE  s.m.session.energy = Count(s.m)
      <3>1. s.m.session \in Sessions /\ s.m.session.energy \in 0 .. s.m.total
        BY <1>1, <2>2 DEF Memory, Kept, SessionFits
      <3>2. s.m.session.energy \in Int /\ s.m.session.row \in Nat
        BY <3>1 DEF Sessions
      <3>3. Count(s.m) = s.m.charged /\ s.m.total <= s.m.charged
        BY <1>1, <2>2 DEF Count, Exact
      <3>4. s.m.session.row # 0 => s.m.charged <= s.m.session.energy
        BY <1>1, <1>2, <2>2, <3>2 DEF Booked, Kept, SavedOnce
      <3>5. s.m.session.row = 0 => s.m.charged = 0
        BY <2>2 DEF Exact
      <3> QED
        BY <1>1, <3>1, <3>2, <3>3, <3>4, <3>5
    <2> QED
      BY <1>1, <2>1, <2>2, GrowsNot DEF SameNotice
  <1>3. CASE Booked(s.m) /\ s.m.charged > s.m.session.energy
    <2>1. FinalizeSessionEnergy(s) = t
      BY <1>3 DEF FinalizeSessionEnergy
    <2>2. s.m.session # NoSession /\ s.m.session.row # 0 /\ s.m.session \in Sessions
      BY <1>1, <1>3 DEF Booked, Kept, SavedOnce, Memory
    <2>13. /\ s.m.charged <= meter - w[Slot(s)] /\ s.m.total \in 0 .. meter - w[Slot(s)]
           /\ w[Slot(s)] \in FirstReading .. meter
      BY <2>2 DEF Kept, Rated, SessionFits
    <2>3. total \in 0 .. meter - w[Slot(s)] /\ total \in Int /\ s.m.total <= total
      BY <1>1, <2>13 DEF MeterOK, FirstReading
    <2>4. m = [s.m EXCEPT !.total = total]
      BY DEF UpdateMetrics
    <2>14. ASSUME Exact(s), ~s.m.charging
           PROVE  total = Count(s.m) /\ Count(s.m) = s.m.charged
      <3>1. s.m.total <= Count(s.m)
        BY <2>2, <2>14 DEF Exact
      <3>2. Count(s.m) = s.m.charged
        BY <1>1, <2>14 DEF Count
      <3> QED
        BY <1>1, <3>1, <3>2
    <2> HIDE DEF total, m
    <2>5. /\ m \in Memory /\ m.session = s.m.session /\ m.total = total
          /\ m.charged = s.m.charged /\ m.charging = s.m.charging
          /\ m.startEnergy = s.m.startEnergy /\ m.up = s.m.up /\ SameNotice(s.m, m)
      BY <1>1, <2>3, <2>4, Stored DEF Memory, SameNotice
    <2>6. u \in State /\ u.m = m /\ u.d = s.d
      BY <1>1, <2>5 DEF State
    <2> HIDE DEF u
    <2>15. Slot(u) = Slot(s)
      BY <2>5, <2>6 DEF Slot
    <2>7. Rated(u.m, w[Slot(u)])
      BY <2>2, <2>3, <2>5, <2>6, <2>15 DEF Rated, Kept
    <2>8. SessionFits(u, w) /\ SavedOnce(u)
      <3>1. s.m.session.energy \in 0 .. total
        <4>1. s.m.session.energy \in 0 .. s.m.total
          BY <2>2 DEF Kept, SessionFits
        <4> QED
          BY <1>1, <2>3, <4>1
      <3> QED
        BY <2>5, <2>6, <2>15, <3>1 DEF SessionFits, SavedOnce, Kept
    <2>16. Kept(u, w)
      BY <1>1, <2>6, <2>7, <2>8 DEF Kept
    <2>9. /\ t \in State /\ Kept(t, w)
          /\ SessionOnly(m, t.m)
          /\ t.m.session = [s.m.session EXCEPT !.energy = total]
          /\ Len(t.d) = Len(s.d) /\ Grows(s.d, t.d)
          /\ Written(s.d, t.d, Slot(s), total)
      BY <2>2, <2>5, <2>6, <2>15, <2>16, Saved
    <2>10. /\ t.m.session.row = s.m.session.row /\ t.m.session.energy = total
           /\ t.m.session # NoSession
      BY <2>2, <2>3, <2>9 DEF Sessions
    <2> HIDE DEF t
    <2>11. ASSUME Exact(s), ~s.m.charging
           PROVE  Exact(t) /\ t.m.session.energy = Count(t.m)
      <3>1. ~t.m.charging /\ Count(t.m) = Count(s.m) /\ t.m.total <= Count(t.m)
        <4>1. ~t.m.charging /\ t.m.charged = s.m.charged /\ t.m.total = total
          BY <2>5, <2>9, <2>11 DEF SessionOnly, SameCount
        <4> QED
          BY <1>1, <2>3, <2>11, <2>14, <4>1 DEF Count
      <3>2. t.m.session.row = Slot(s) /\ Slot(s) # 0
        BY <2>2, <2>10 DEF Slot
      <3> QED
        BY <1>1, <2>2, <2>9, <2>10, <2>11, <2>14, <3>1, <3>2, ExactKept
    <2> QED
      BY <2>1, <2>2, <2>5, <2>9, <2>10, <2>11 DEF SessionOnly, SameNotice, SameCount
  <1> QED
    BY <1>2, <1>3

\* evVehicleDisconnect: there is no session any more, and its row has it all.
LEMMA VehicleDisconnects ==
    ASSUME NEW s, NEW w, Kept(s, w), ~s.m.charging, MeterOK
    PROVE  LET t == VehicleDisconnect(s) IN
           /\ Kept(t, w) /\ SameNotice(s.m, t.m) /\ t.m.up = s.m.up /\ ~t.m.charging
           /\ t.m.session = NoSession /\ Len(t.d) = Len(s.d) /\ Grows(s.d, t.d)
           /\ Exact(s) => Exact(t)
  <1> USE NoSessionAssumption
  <1> DEFINE u == FinalizeSessionEnergy(s)
             m == [u.m EXCEPT !.session = NoSession]
             t == [u EXCEPT !.m = m]
  <1>1. /\ Kept(u, w) /\ SameNotice(s.m, u.m) /\ u.m.up = s.m.up
        /\ ~u.m.charging /\ Len(u.d) = Len(s.d) /\ Grows(s.d, u.d)
        /\ Exact(s) => Exact(u) /\ (u.m.session # NoSession =>
                                       u.m.session.energy = Count(u.m))
    BY Finalized
  <1>2. VehicleDisconnect(s) = t
    BY DEF VehicleDisconnect
  <1> HIDE DEF u
  <1>3. u \in State /\ u.m \in Memory /\ u.d \in Seq(Rows) /\ w \in [Nat -> Int]
    BY <1>1 DEF Kept, State
  <1>4. m \in Memory /\ m.session = NoSession /\ SessionOnly(u.m, m)
    BY <1>3, Stored DEF Memory, SessionOnly, SameNotice, SameCount
  <1> HIDE DEF m
  <1>5. t \in State /\ t.m = m /\ t.d = u.d
    BY <1>3, <1>4 DEF State
  <1> HIDE DEF t
  <1>6. Kept(t, w)
    BY <1>1, <1>3, <1>4, <1>5 DEF Kept, SessionFits, SavedOnce
  <1>7. ASSUME Exact(s)
        PROVE  observed = BookedBefore(u.d, Len(u.d) + 1)
    <2>1. CASE u.m.session = NoSession
      BY <1>1, <1>7, <2>1 DEF Exact
    <2>2. CASE u.m.session # NoSession /\ u.m.session.row = 0
      <3>1. Count(u.m) = 0 /\ Slot(u) = Len(u.d) + 1
        BY <1>1, <1>7, <2>2 DEF Exact, Count, Slot
      <3>2. BookedBefore(u.d, Len(u.d) + 1) \in Int
        BY <1>3, RowTypes, BeforeInt
      <3> QED
        BY <1>1, <1>7, <2>2, <3>1, <3>2 DEF Exact
    <2>3. CASE u.m.session # NoSession /\ u.m.session.row # 0
      <3>1. u.m.session.row = Len(u.d) /\ Slot(u) = Len(u.d)
        BY <1>1, <2>3 DEF Kept, SessionFits, Slot
      <3>2. Len(u.d) \in 1 .. Len(u.d)
        BY <1>3, <2>3, <3>1, RowTypes
      <3>3. u.d[Len(u.d)].energy = Count(u.m)
        BY <1>1, <1>7, <2>3 DEF Exact
      <3>4. observed = BookedBefore(u.d, Len(u.d)) + Count(u.m)
        BY <1>1, <1>7, <2>3, <3>1 DEF Exact
      <3> QED
        BY <1>3, <3>2, <3>3, <3>4, BeforeNext
    <2> QED
      BY <2>1, <2>2, <2>3
  <1>8. Exact(s) => Exact(t)
    BY <1>4, <1>5, <1>7 DEF Exact
  <1> QED
    BY <1>1, <1>2, <1>4, <1>5, <1>6, <1>8 DEF SessionOnly, SameNotice, SameCount

\* A field that the session and the rater do not depend on.
LEMMA Untouched ==
    ASSUME NEW s, NEW w, Kept(s, w), NEW m \in Memory, m.session = s.m.session,
           SameCount(s.m, m)
    PROVE  LET t == [s EXCEPT !.m = m] IN
           Kept(t, w) /\ t.m = m /\ t.d = s.d /\ (Exact(s) => Exact(t))
  <1> DEFINE t == [s EXCEPT !.m = m]
  <1>1. s \in State
    BY DEF Kept
  <1>2. t \in State /\ t.m = m /\ t.d = s.d
    BY <1>1 DEF State
  <1> HIDE DEF t
  <1>3. Slot(t) = Slot(s)
    BY <1>2 DEF Slot
  <1>4. SessionFits(t, w) /\ SavedOnce(t)
    BY <1>2, <1>3 DEF SessionFits, SavedOnce, Kept, SameCount
  <1>5. s.m.session # NoSession => Rated(m, w[Slot(s)])
    BY DEF Rated, Kept, SameCount
  <1>6. Kept(t, w)
    BY <1>2, <1>3, <1>4, <1>5 DEF Kept
  <1>7. Exact(s) => Exact(t)
    BY <1>2, <1>3 DEF Exact, Count, SameCount
  <1> QED
    BY <1>2, <1>6, <1>7 DEF t

\* A status change, with all its handlers.
LEMMA StatusChanges ==
    ASSUME NEW s, NEW w, Kept(s, w), Agreed(s.m), Heard(s.m.status, s.m),
           NEW status \in {"A", "B", "C"}, status # s.m.status,
           NEW reading, Sound(reading), MeterOK
    PROVE  LET t == ChangeStatus(s, status, reading) IN
           /\ \E v : Kept(t, v)
           /\ Grows(s.d, t.d)
           /\ Exact(s) /\ Clear(reading) => Exact(t)
  <1> USE NoSessionAssumption
  <1> DEFINE prev == s.m.status
             m0 == [s.m EXCEPT !.status = status]
             s0 == [s EXCEPT !.m = m0]
             s1 == IF prev = "A" \/ (status # "A" /\ prev = "none")
                   THEN VehicleConnect(s0, reading) ELSE s0
             s2 == IF status = "C" THEN ChargeStart(s1, reading) ELSE s1
             s3 == IF prev = "C" THEN ChargeStop(s2, reading) ELSE s2
             s4 == IF status = "A" THEN VehicleDisconnect(s3) ELSE s3
             t == NotifyStatus(prev, status, s4)
             exact == Exact(s) /\ Clear(reading)
  <1>1. ChangeStatus(s, status, reading) = t
    BY DEF ChangeStatus
  <1>2. /\ s \in State /\ s.m \in Memory /\ s.d \in Seq(Rows)
        /\ prev \in Statuses /\ Len(s.d) \in Nat
    BY DEF Kept, State, Memory
  <1>3. /\ m0 \in Memory /\ m0.session = s.m.session /\ SameCount(s.m, m0)
        /\ m0.status = status /\ m0.up = s.m.up
        /\ m0.connectPending = s.m.connectPending
        /\ m0.notified = s.m.notified /\ m0.repeated = s.m.repeated
    <2>1. m0 \in Memory
      BY <1>2, Stored DEF Statuses
    <2> QED
      BY <1>2, <2>1 DEF Memory, SameCount
  <1> HIDE DEF m0
  <1>4. Kept(s0, w) /\ s0.m = m0 /\ s0.d = s.d /\ (exact => Exact(s0))
    BY <1>3, Untouched
  <1> HIDE DEF s0
  <1>5. /\ \E v : Kept(s1, v)
        /\ SameNotice(m0, s1.m) /\ s1.m.up = s.m.up
        /\ s1.m.charging = s.m.charging /\ s1.d = s.d
        /\ s1.m.session # NoSession <=> ~(prev = "none" /\ status = "A")
        /\ s.m.session # NoSession => s1.m.session = s.m.session
        /\ exact => Exact(s1)
    <2>1. CASE prev = "A" \/ (status # "A" /\ prev = "none")
      <3>1. s1 = VehicleConnect(s0, reading)
        BY <2>1
      <3>2. s.m.session = NoSession /\ s.m.charging = FALSE
        BY <1>2, <2>1 DEF Agreed, Memory
      <3> HIDE DEF s1
      <3>3. /\ \E v : Kept(s1, v)
            /\ SameNotice(m0, s1.m) /\ s1.m.up = m0.up
            /\ ~s1.m.charging /\ s1.d = s.d
            /\ s1.m.session # NoSession
            /\ Exact(s0) => Exact(s1)
        BY <1>3, <1>4, <3>1, <3>2, VehicleConnects DEF SameCount
      <3>4. s1.m.charging \in BOOLEAN
        BY <3>3 DEF Kept, State, Memory
      <3> QED
        BY <1>3, <1>4, <2>1, <3>2, <3>3, <3>4
    <2>2. CASE ~(prev = "A" \/ (status # "A" /\ prev = "none"))
      <3>1. s1 = s0
        BY <2>2
      <3>2. s.m.session # NoSession <=> ~(prev = "none" /\ status = "A")
        BY <1>2, <2>2 DEF Agreed, Statuses
      <3> QED
        BY <1>3, <1>4, <3>1, <3>2 DEF SameNotice, SameCount
    <2> QED
      BY <2>1, <2>2
  <1> HIDE DEF s1
  <1> PICK v : Kept(s1, v)
    BY <1>5
  <1>6. /\ Kept(s2, v) /\ SameNotice(m0, s2.m) /\ s2.m.up = s.m.up
        /\ s2.m.session # NoSession <=> s1.m.session # NoSession
        /\ prev = "C" \/ status = "C" <=> s2.m.charging
        /\ Len(s2.d) = IF status = "C" /\ s1.m.session.row = 0 THEN Len(s.d) + 1
                       ELSE Len(s.d)
        /\ status = "C" => s2.m.session.row # 0
        /\ status # "C" => s2.m.session = s1.m.session
        /\ Grows(s.d, s2.d)
        /\ exact => Exact(s2)
    <2>1. CASE status = "C"
      <3>1. s2 = ChargeStart(s1, reading)
        BY <2>1
      <3> HIDE DEF s2
      <3>2. s1.m.session # NoSession /\ ~s1.m.charging
        BY <1>5, <2>1 DEF Agreed
      <3> QED
        BY <1>5, <2>1, <3>1, <3>2, ChargeStarts DEF SameNotice
    <2>2. CASE status # "C"
      <3>1. s2 = s1
        BY <2>2
      <3> QED
        BY <1>2, <1>5, <2>2, <3>1, GrowsNot DEF Agreed
    <2> QED
      BY <2>1, <2>2
  <1> HIDE DEF s2
  <1>7. /\ Kept(s3, v) /\ SameNotice(m0, s3.m) /\ s3.m.up = s.m.up
        /\ s3.m.session # NoSession <=> s1.m.session # NoSession
        /\ status = "C" <=> s3.m.charging
        /\ Len(s3.d) = Len(s2.d)
        /\ status = "C" => s3.m.session.row # 0
        /\ s1.m.session # NoSession /\ s1.m.session.row # 0 => s3.m.session.row # 0
        /\ Grows(s2.d, s3.d)
        /\ exact => Exact(s3)
    <2>0. s2.d \in Seq(Rows)
      BY <1>6 DEF Kept, State
    <2>1. CASE prev = "C"
      <3>1. s3 = ChargeStop(s2, reading)
        BY <2>1
      <3> HIDE DEF s3
      <3>2. s2.m.charging /\ s2.m.session # NoSession /\ status # "C"
        BY <1>5, <1>6, <2>1
      <3> QED
        BY <1>6, <2>1, <3>1, <3>2, ChargeStops DEF SameNotice
    <2>2. CASE prev # "C"
      <3>1. s3 = s2
        BY <2>2
      <3> QED
        BY <1>6, <2>0, <2>2, <3>1, GrowsNot
    <2> QED
      BY <2>1, <2>2
  <1> HIDE DEF s3
  <1>8. /\ Kept(s4, v) /\ SameNotice(m0, s4.m) /\ s4.m.up = s.m.up
        /\ status = "A" => s4.m.session = NoSession
        /\ status # "A" => s4.m.session = s3.m.session /\ s3.m.session # NoSession
        /\ status = "C" <=> s4.m.charging
        /\ Len(s4.d) = Len(s2.d)
        /\ Grows(s3.d, s4.d)
        /\ exact => Exact(s4)
    <2>0. s3.d \in Seq(Rows)
      BY <1>7 DEF Kept, State
    <2>1. CASE status = "A"
      <3>1. s4 = VehicleDisconnect(s3)
        BY <2>1
      <3> HIDE DEF s4
      <3>2. ~s3.m.charging
        BY <1>7, <2>1
      <3> QED
        BY <1>7, <2>1, <3>1, <3>2, VehicleDisconnects DEF SameNotice
    <2>2. CASE status # "A"
      <3>1. s4 = s3
        BY <2>2
      <3> QED
        BY <1>5, <1>7, <2>0, <2>2, <3>1, GrowsNot
    <2> QED
      BY <2>1, <2>2
  <1> HIDE DEF s4
  <1>9. s4.m.status = status /\ Heard(prev, s4.m)
    BY <1>3, <1>8 DEF SameNotice, Heard
  <1>10. Kept(t, v) /\ t.d = s4.d /\ (exact => Exact(t))
    <2>0. Sane(s4)
      BY <1>8 DEF Kept, Sane
    <2>1. /\ t = [s4 EXCEPT !.m = t.m] /\ t.m \in Memory /\ t.d = s4.d
          /\ SameCount(s4.m, t.m) /\ t.m.session = s4.m.session
      BY <1>2, <1>9, <2>0, StatusNotified
    <2> HIDE DEF t
    <2> QED
      BY <1>8, <2>1, Untouched
  <1> HIDE DEF t
  <1>14. Grows(s.d, t.d)
    <2>1. s2.d \in Seq(Rows) /\ s3.d \in Seq(Rows) /\ s4.d \in Seq(Rows)
      BY <1>6, <1>7, <1>8 DEF Kept, State
    <2>2. Grows(s.d, s3.d)
      BY <1>2, <1>6, <1>7, <2>1, GrowsOn
    <2> QED
      BY <1>2, <1>8, <1>10, <2>1, <2>2, GrowsOn
  <1> QED
    BY <1>1, <1>10, <1>14

\* publishChargeProgress: the total never exceeds what the meter has counted.
LEMMA ProgressPublished ==
    ASSUME NEW s, NEW w, Kept(s, w), MeterOK, NEW reading \in {meter, NoReading, Garbage}
    PROVE  LET m == PublishChargeProgress(s.m, reading)
               t == [s EXCEPT !.m = m]
           IN  /\ m \in Memory /\ Kept(t, w) /\ t.m = m /\ t.d = s.d
               /\ SameNotice(s.m, m) /\ m.up = s.m.up /\ m.session = s.m.session
               /\ m.charging = s.m.charging
               /\ Exact(s) /\ reading = meter => Exact(t)
  <1> USE BoundAssumption, NoReadingAssumption
  <1> DEFINE m == PublishChargeProgress(s.m, reading)
             t == [s EXCEPT !.m = m]
             live == s.m.session # NoSession
             b == w[Slot(s)]
             Max(n, f) == IF f > n.total THEN f ELSE n.total
             Same(n) == /\ n \in Memory /\ (live => Rated(n, b))
                        /\ SameNotice(s.m, n) /\ n.up = s.m.up
                        /\ n.session = s.m.session /\ n.charging = s.m.charging
                        /\ n.charged = s.m.charged /\ s.m.total <= n.total
             \* No start was made up for, and the total is what was counted.
             Tallied(n) == /\ n.startEnergy = s.m.startEnergy
                           /\ live => n.total <= Count(s.m)
             exact == Exact(s) /\ reading = meter
  <1>1. /\ s \in State /\ s.m \in Memory /\ s.m.charged \in Int
        /\ s.m.startEnergy \in OptReading /\ s.m.total \in Int
        /\ w \in [Nat -> Int]
    BY DEF Kept, State, Memory
  <1>15. meter \in Int /\ Garbage \in Int
    BY DEF MeterOK, FirstReading, Garbage
  <1>7. Same(s.m) /\ (live => b \in FirstReading .. meter)
    BY <1>1, <1>15 DEF Kept, SameNotice, SessionFits
  <1>8. exact => Tallied(s.m)
    BY DEF Exact
  <1>9. exact /\ live => /\ Count(s.m) \in Int
                         /\ s.m.charging => s.m.startEnergy \in Int
    BY <1>1, <1>15 DEF Exact, Count
  <1> HIDE DEF b
  <1>2. ASSUME NEW n, Same(n), NEW f \in Int, live => f <= meter - b
        PROVE  /\ Same(UpdateMetrics(n, f))
               /\ exact /\ Tallied(n) /\ (live => f <= Count(s.m)) => Tallied(UpdateMetrics(n, f))
    <2> DEFINE total == Max(n, f)
               u == [n EXCEPT !.total = total]
    <2>1. UpdateMetrics(n, f) = u
      BY DEF UpdateMetrics
    <2>5. n.total \in Int /\ (live => b \in Int)
      BY <1>1, <1>15, <1>2, <1>7 DEF Memory, FirstReading
    <2>2. /\ total \in Int /\ n.total <= total /\ total \in {n.total, f}
          /\ live => total \in 0 .. meter - b
      <3>1. live => n.total \in 0 .. meter - b
        BY <1>2 DEF Rated
      <3> QED
        BY <1>1, <1>15, <1>2, <2>5, <3>1
    <2> HIDE DEF total
    <2>3. /\ u \in Memory /\ u.total = total /\ u.charged = n.charged
          /\ u.startEnergy = n.startEnergy /\ u.charging = n.charging
          /\ u.up = n.up /\ u.session = n.session /\ SameNotice(n, u)
      BY <1>2, <2>2, Stored DEF Memory, SameNotice
    <2> HIDE DEF u
    <2>4. live => Rated(u, b)
      BY <1>2, <2>2, <2>3 DEF Rated
    <2>6. s.m.total <= u.total
      BY <1>1, <1>15, <1>2, <2>2, <2>3, <2>5
    <2>7. Same(u)
      BY <1>2, <2>3, <2>4, <2>6 DEF SameNotice
    <2>8. exact /\ Tallied(n) /\ (live => f <= Count(s.m)) => Tallied(u)
      BY <2>2, <2>3
    <2> QED
      BY <2>1, <2>7, <2>8
  <1>3. ASSUME ~s.m.charging
        PROVE  Same(m) /\ (exact /\ live => Tallied(m))
    <2>1. live => s.m.charged <= meter - b
      BY <1>7 DEF Rated
    <2>2. exact /\ live => s.m.charged <= Count(s.m)
      BY <1>1, <1>15, <1>3 DEF Count
    <2>3. m = IF s.m.charged > MaxSessionEnergy THEN s.m ELSE UpdateMetrics(s.m, s.m.charged)
      BY <1>3 DEF PublishChargeProgress
    <2>4. Same(m) /\ (exact => Tallied(m))
      <3> HIDE DEF m, Same, Tallied, exact
      <3>1. Same(UpdateMetrics(s.m, s.m.charged))
        BY <1>1, <1>15, <1>2, <1>7, <2>1
      <3>2. exact => Tallied(UpdateMetrics(s.m, s.m.charged))
        BY <1>1, <1>15, <1>2, <1>7, <1>8, <2>1, <2>2
      <3> QED
        BY <1>7, <1>8, <2>3, <3>1, <3>2
    <2> QED
      BY <2>4
  <1>4. ASSUME s.m.charging, reading = NoReading
        PROVE  Same(m) /\ (exact /\ live => Tallied(m))
    <2>1. m = s.m
      BY <1>4 DEF PublishChargeProgress
    <2> HIDE DEF m
    <2> QED
      BY <1>7, <1>8, <2>1
  <1>5. ASSUME s.m.charging, reading # NoReading
        PROVE  Same(m) /\ (exact /\ live => Tallied(m))
    <2> DEFINE l == LatchStart(s.m, reading)
               f == l.charged + reading - l.startEnergy
    <2>1. m = IF f > MaxSessionEnergy THEN l ELSE UpdateMetrics(l, f)
      BY <1>5 DEF PublishChargeProgress
    <2>6. exact => l = s.m \/ ~live
      <3>1. exact /\ live => s.m.startEnergy # NoReading
        BY <1>5, <1>9
      <3> QED
        BY <3>1 DEF LatchStart
    <2>2. Same(l) /\ l.startEnergy # NoReading
      <3>1. CASE s.m.startEnergy # NoReading
        BY <1>1, <1>15, <1>7, <3>1 DEF LatchStart
      <3>2. CASE s.m.startEnergy = NoReading
        <4>1. l = [s.m EXCEPT !.startEnergy = reading]
          BY <1>5, <3>2 DEF LatchStart
        <4> HIDE DEF l
        <4>2. reading \in OptReading
          BY <1>1, <1>15 DEF OptReading
        <4>3. /\ l \in Memory /\ l.startEnergy = reading /\ l.charged = s.m.charged
              /\ l.total = s.m.total /\ l.charging = s.m.charging
              /\ l.up = s.m.up /\ l.session = s.m.session /\ SameNotice(s.m, l)
          BY <1>1, <1>15, <4>1, <4>2, Stored DEF Memory, SameNotice
        <4>4. live => Rated(l, b)
          BY <1>1, <1>15, <1>5, <1>7, <4>3 DEF Rated, MeterOK, FirstReading
        <4> QED
          BY <1>1, <1>15, <1>5, <4>3, <4>4
      <3> QED
        BY <3>1, <3>2
    <2>7. exact => Tallied(l) \/ ~live
      BY <1>8, <2>6
    <2> HIDE DEF l
    <2>3. /\ l.startEnergy \in Int /\ l.charged \in Int /\ l.charging
          /\ reading \in {meter, Garbage}
      BY <1>1, <1>15, <1>5, <2>2 DEF Memory, OptReading
    <2>4. f \in Int
      BY <1>1, <1>15, <2>3
    <2>5. live => f > MaxSessionEnergy \/ f <= meter - b
      <3> SUFFICES ASSUME live PROVE f > MaxSessionEnergy \/ f <= meter - b
        OBVIOUS
      <3>1. /\ l.charged <= meter - b
            /\ l.startEnergy # Garbage =>
                  /\ l.startEnergy \in b .. meter
                  /\ l.charged <= l.startEnergy - b
                  /\ Countable(l.charged, l.startEnergy, b)
        BY <2>2, <2>3 DEF Rated
      <3>4. b \in FirstReading .. meter /\ b \in Int
        BY <1>1, <1>15, <1>7 DEF FirstReading
      <3>2. CASE l.startEnergy = Garbage
        BY <1>1, <1>15, <2>3, <3>1, <3>2, <3>4 DEF MeterOK, FirstReading, Garbage
      <3>3. CASE l.startEnergy # Garbage
        BY <1>1, <1>15, <2>3, <3>1, <3>3, <3>4 DEF MeterOK, FirstReading, Garbage, Countable
      <3> QED
        BY <3>2, <3>3
    <2>8. exact /\ live => f <= Count(s.m)
      BY <1>1, <1>15, <1>5, <1>9, <2>6 DEF Count
    <2>9. Same(m) /\ (exact /\ live => Tallied(m))
      <3> HIDE DEF f, m, Same, Tallied, exact
      <3>1. f <= MaxSessionEnergy => Same(UpdateMetrics(l, f))
        BY <1>2, <2>2, <2>4, <2>5
      <3>2. f <= MaxSessionEnergy /\ exact /\ live => Tallied(UpdateMetrics(l, f))
        BY <1>2, <2>2, <2>4, <2>5, <2>7, <2>8
      <3> QED
        BY <2>1, <2>2, <2>4, <2>7, <3>1, <3>2
    <2> QED
      BY <2>9
  <1>6. Same(m) /\ (exact /\ live => Tallied(m))
    BY <1>3, <1>4, <1>5
  <1> HIDE DEF m
  <1>10. t \in State /\ t.m = m /\ t.d = s.d
    BY <1>1, <1>15, <1>6 DEF State
  <1> HIDE DEF t
  <1>11. Slot(t) = Slot(s)
    BY <1>6, <1>10 DEF Slot
  <1>12. SessionFits(t, w) /\ SavedOnce(t)
    <2>1. live => m.session.energy \in 0 .. m.total
      <3>1. live => /\ m.session.energy \in 0 .. s.m.total /\ m.total \in Int
                    /\ m.session.energy \in Int
        BY <1>6 DEF Kept, SessionFits, Memory, Sessions
      <3> QED
        BY <1>1, <1>15, <1>6, <3>1
    <2> QED
      BY <1>6, <1>10, <1>11, <2>1 DEF SessionFits, SavedOnce, Kept
  <1>13. Kept(t, w)
    BY <1>1, <1>15, <1>6, <1>10, <1>11, <1>12 DEF Kept, b
  <1>14. exact => Exact(t)
    <2>1. CASE ~live
      BY <1>6, <1>10, <2>1 DEF Exact
    <2>2. CASE live
      <3>1. exact => Count(m) = Count(s.m)
        BY <1>6, <2>2 DEF Count
      <3> QED
        BY <1>6, <1>10, <1>11, <2>2, <3>1 DEF Exact
    <2> QED
      BY <2>1, <2>2
  <1> QED
    BY <1>6, <1>10, <1>13, <1>14 DEF t, m

\* updateChargerStatus: one status change, two of an exchanged vehicle, or none.
LEMMA ChargerStatusUpdated ==
    ASSUME NEW s, NEW w, Kept(s, w), Agreed(s.m), Heard(s.m.status, s.m), s.m = lp,
           plug \in {"A", "B", "C"}, NEW ignore \in BOOLEAN,
           NEW reading, Sound(reading), MeterOK
    PROVE  LET t == UpdateChargerStatus(s, ignore, reading) IN
           /\ \E v : Kept(t, v)
           /\ Grows(s.d, t.d)
           /\ Exact(s) /\ Clear(reading) => Exact(t)
  <1> DEFINE t == UpdateChargerStatus(s, ignore, reading)
             once == ChangeStatus(s, plug, reading)
             gone == ChangeStatus(s, "A", reading)
             again == ChangeStatus(gone, plug, reading)
             exact == Exact(s) /\ Clear(reading)
  <1>1. s.m.status \in Statuses /\ s.d \in Seq(Rows) /\ Sane(s) /\ Measured(reading)
    BY DEF Kept, State, Memory, Sane, Measured, Sound, MeterOK, FirstReading, OptReading
  <1>2. CASE Exchanged(ignore)
    <2>1. t = again
      BY <1>2 DEF UpdateChargerStatus
    <2>2. plug # "A" /\ plug \in {"B", "C"} /\ s.m.status # "A"
      BY <1>2 DEF Exchanged
    <2>3. /\ \E v : Kept(gone, v)
          /\ Agreed(gone.m) /\ Heard("A", gone.m) /\ gone.m.status = "A"
          /\ Grows(s.d, gone.d)
          /\ exact => Exact(gone)
      BY <1>1, <2>2, StatusChanges, StatusChangesSane
    <2> HIDE DEF gone
    <2> PICK u : Kept(gone, u)
      BY <2>3
    <2>4. /\ \E v : Kept(again, v)
          /\ Grows(gone.d, again.d)
          /\ exact => Exact(again)
      BY <2>2, <2>3, StatusChanges
    <2> HIDE DEF again, t
    <2>5. Grows(s.d, t.d)
      <3>1. gone.d \in Seq(Rows) /\ again.d \in Seq(Rows)
        BY <2>4 DEF Kept, State
      <3> QED
        BY <1>1, <2>1, <2>3, <2>4, <3>1, GrowsOn
    <2> QED
      BY <2>1, <2>4, <2>5 DEF t
  <1>3. CASE ~Exchanged(ignore) /\ (ignore \/ plug = s.m.status)
    <2>1. t = s
      BY <1>3 DEF UpdateChargerStatus
    <2> HIDE DEF t
    <2>2. Grows(s.d, t.d) /\ Kept(t, w)
      BY <1>1, <2>1, GrowsNot
    <2> QED
      BY <2>1, <2>2 DEF t
  <1>4. CASE ~Exchanged(ignore) /\ ~(ignore \/ plug = s.m.status)
    <2>1. t = once
      BY <1>4 DEF UpdateChargerStatus
    <2>2. /\ \E v : Kept(once, v)
          /\ Grows(s.d, once.d)
          /\ exact => Exact(once)
      BY <1>4, StatusChanges
    <2> HIDE DEF once, t
    <2> QED
      BY <2>1, <2>2 DEF t
  <1> QED
    BY <1>2, <1>3, <1>4

-----------------------------------------------------------------------------
(* The invariant.                                                          *)

\* While nothing has failed, the process runs and has missed nothing.
Unfailing == clean => lp.up /\ Exact(Here)

Inv == Steady /\ (\E w : Kept(Here, w)) /\ Unfailing

\* A step leaves the rows or adds to them.
Recorded ==
    /\ Grows(db, db')
    /\ meter' \in Int
    /\ meter' # meter => meter' > meter /\ db' = db

LEMMA HereKept ==
    ASSUME Inv
    PROVE  /\ lp \in Memory /\ db \in Seq(Rows) /\ Len(db) \in Nat
           /\ Here \in State /\ meter \in Int
  BY HereSteady DEF Inv

\* What holds of a handler's outcome holds while more energy flows.
LEMMA Carried ==
    ASSUME NEW t, NEW w, Kept(t, w), MeterOK, meter' \in Int, meter' >= meter,
           lp' = t.m, db' = t.d
    PROVE  (\E v : Kept(Here, v))'
  <1>1. /\ t \in State /\ t = [m |-> t.m, d |-> t.d] /\ meter \in Int
        /\ t.m.charged \in Int /\ t.m.total \in Int /\ t.d \in Seq(Rows)
        /\ w \in [Nat -> Int] /\ Len(t.d) \in Nat
    BY DEF Kept, State, Memory, MeterOK, FirstReading
  <1>2. Here' = t
    BY <1>1 DEF Here
  <1>3. (t.m.session # NoSession => Rated(t.m, w[Slot(t)]))'
    <2> SUFFICES ASSUME t.m.session # NoSession
                 PROVE  Rated(t.m, w[Slot(t)])'
      OBVIOUS
    <2> DEFINE b == w[Slot(t)]
    <2>1. Rated(t.m, b) /\ b \in FirstReading .. meter
      BY DEF Kept, SessionFits
    <2> HIDE DEF b
    <2>5. b \in Int
      BY <1>1, <2>1 DEF FirstReading
    <2>2. t.m.charged <= meter' - b /\ t.m.total \in 0 .. meter' - b
      <3> DEFINE charged == t.m.charged
                 total == t.m.total
      <3>1. /\ charged <= meter - b /\ total \in 0 .. meter - b
            /\ charged \in Int /\ total \in Int
        BY <1>1, <2>1 DEF Rated
      <3> HIDE DEF charged, total
      <3>2. charged <= meter' - b /\ total \in 0 .. meter' - b
        BY <1>1, <2>5, <3>1
      <3> QED
        BY <3>2 DEF charged, total
    <2>3. Countable(t.m.charged, meter', b)
      <3>1. Garbage \in Int
        BY BoundAssumption DEF Garbage, FirstReading
      <3>2. Countable(t.m.charged, meter, b)
        BY <2>1 DEF Rated
      <3> QED
        BY <1>1, <2>5, <3>1, <3>2 DEF Countable
    <2>4. t.m.charging /\ t.m.startEnergy \notin {NoReading, Garbage} =>
            /\ t.m.startEnergy \in b .. meter'
            /\ t.m.charged <= t.m.startEnergy - b
            /\ Countable(t.m.charged, t.m.startEnergy, b)
      BY <1>1, <2>1, <2>5 DEF Rated
    <2> QED
      BY <2>2, <2>3, <2>4 DEF Rated, Countable, Slot, b
  <1>4. RowsKept(t.d, w)'
    <2>1. RowsKept(t.d, w) /\ \A i \in 1 .. Len(t.d) : t.d[i].energy \in Int /\ i \in Nat
      BY <1>1, RowTypes DEF Kept
    <2>2. ASSUME NEW i \in 1 .. Len(t.d)
          PROVE  /\ w[i] \in FirstReading .. meter'
                 /\ i = Len(t.d) => w[i] + t.d[i].energy <= meter'
      BY <1>1, <2>1 DEF RowsKept, FirstReading
    <2>3. ASSUME NEW i \in 1 .. Len(t.d)
          PROVE  /\ t.d[i].energy \in Nat
                 /\ t.d[i].start # NoReading => t.d[i].start = w[i]
                 /\ i # Len(t.d) => w[i] + t.d[i].energy <= w[i + 1]
      BY <2>1 DEF RowsKept
    <2> QED
      BY <2>2, <2>3 DEF RowsKept
  <1>5. SessionFits(t, w)'
    BY <1>1 DEF Kept, SessionFits, FirstReading, Slot
  <1>6. SavedOnce(t)'
    BY DEF Kept, SavedOnce
  <1>7. Kept(t, w)'
    BY <1>1, <1>3, <1>4, <1>5, <1>6 DEF Kept
  <1> QED
    BY <1>2, <1>7

\* ... and nothing is missing when no energy flows.
LEMMA CarriedExactly ==
    ASSUME NEW t \in State, Exact(t), meter' = meter, observed' = observed,
           lp' = t.m, db' = t.d
    PROVE  Exact(Here)'
  <1>1. Here' = t
    <2>1. t = [m |-> t.m, d |-> t.d]
      BY DEF State
    <2> QED
      BY <2>1 DEF Here
  <1>2. Exact(t)'
    BY DEF Exact, Count, BookedBefore, Energies, Slot
  <1> QED
    BY <1>1, <1>2

\* What flows while the loadpoint knows of the charging is counted.
LEMMA FlowCounted ==
    ASSUME Inv, Flow, clean
    PROVE  Exact(Here)'
  <1> USE NoReadingAssumption
  <1>1. /\ lp' = lp /\ db' = db /\ meter' = meter + 1
        /\ observed' = IF lp.up /\ lp.status = "C" THEN observed + 1 ELSE observed
    BY DEF Flow
  <1>2. lp.up /\ Exact(Here) /\ Agreed(lp) /\ observed \in Int
    BY DEF Inv, Steady, Unfailing, Types
  <1>3. Here' = Here /\ Here.m = lp /\ Here.d = db /\ Slot(Here)' = Slot(Here)
    BY <1>1 DEF Here, Slot
  <1>4. \A k : BookedBefore(db, k)' = BookedBefore(db, k)
    BY <1>1 DEF BookedBefore, Energies
  <1>5. /\ lp.charged \in Int /\ lp.total \in Int
        /\ lp.session # NoSession => lp.session.row \in Nat
        /\ db \in Seq(Rows) /\ meter \in Int
    BY HereKept DEF Memory, Sessions
  <1>6. CASE lp.session = NoSession
    <2>1. lp.status # "C"
      BY <1>2, <1>6 DEF Agreed
    <2> QED
      BY <1>1, <1>2, <1>3, <1>4, <1>6, <2>1 DEF Exact
  <1>7. CASE lp.session # NoSession
    <2>1. /\ lp.charging => lp.startEnergy \in Int
          /\ observed = BookedBefore(db, Slot(Here)) + Count(lp)
          /\ lp.total <= Count(lp)
          /\ lp.session.row # 0 => db[Len(db)].energy = lp.session.energy
          /\ lp.session.row = 0 => lp.charged = 0 /\ ~lp.charging
      BY <1>2, <1>3, <1>7 DEF Exact
    <2>2. BookedBefore(db, Slot(Here)) \in Int
      <3>1. Slot(Here) \in 1 .. Len(db) + 1
        <4>1. PICK w : Kept(Here, w)
          BY DEF Inv
        <4>2. lp.session.row # 0 => lp.session.row = Len(db)
          BY <1>3, <1>7, <4>1 DEF Kept, SessionFits
        <4>3. Len(db) \in Nat
          BY <1>5
        <4> QED
          BY <1>3, <1>5, <1>7, <4>2, <4>3 DEF Slot
      <3> QED
        BY <1>5, <3>1, BeforeInt
    <2>3. /\ Count(lp) \in Int
          /\ Count(lp)' = IF lp.charging THEN Count(lp) + 1 ELSE Count(lp)
      BY <1>1, <1>5, <2>1 DEF Count
    <2>4. lp.charging <=> lp.status = "C"
      BY <1>2 DEF Agreed
    <2>5. /\ observed' = BookedBefore(db, Slot(Here)) + Count(lp)'
          /\ lp.total <= Count(lp)'
      BY <1>1, <1>2, <1>5, <2>1, <2>2, <2>3, <2>4
    <2> QED
      BY <1>1, <1>3, <1>4, <1>7, <2>1, <2>5 DEF Exact, Count
  <1> QED
    BY <1>6, <1>7

\* What is read while the process runs and at startup.
LEMMA GoodReadings ==
    ASSUME ReadingsGood \/ clean', MeterOK, Types, NEW rs \in SUBSET Reads,
           NEW reading \in Readings(rs), CountFaults(reading)
    PROVE  /\ "progress" \notin rs => Sound(reading)
           /\ reading["progress"] \in {meter, NoReading, Garbage}
           /\ reading["boot"] = meter
           /\ clean' => clean /\ Clear(reading)
  <1> DEFINE good == [r \in Reads |-> meter]
             Bad(r, x) == [good EXCEPT ![r] = x]
  <1>1. /\ reading["progress"] \in {meter, NoReading, Garbage}
        /\ clean' => clean /\ Clear(reading)
    BY AnyReadings DEF Reads
  <1>2. CASE reading = good \/ clean'
    BY <1>1, <1>2 DEF Sound, Clear, Reads
  <1>3. CASE ReadingsGood /\ \E r \in Failing \cap rs : reading = Bad(r, NoReading)
    <2>1. PICK r \in Failing \cap rs : reading = Bad(r, NoReading)
      BY <1>3
    <2>2. r # "boot"
      BY <1>3, <2>1 DEF ReadingsGood
    <2>3. \A q \in Reads : reading[q] = IF q = r THEN NoReading ELSE meter
      BY <2>1
    <2> QED
      BY <1>1, <2>2, <2>3 DEF Sound, Reads
  <1>4. CASE ReadingsGood /\ \E r \in Garbled \cap rs : reading = Bad(r, Garbage)
    <2>1. PICK r \in Garbled \cap rs : reading = Bad(r, Garbage)
      BY <1>4
    <2>2. r = "progress" /\ "progress" \in rs
      BY <1>4, <2>1 DEF ReadingsGood
    <2>3. \A q \in Reads : reading[q] = IF q = r THEN Garbage ELSE meter
      BY <2>1
    <2> QED
      BY <1>1, <2>2, <2>3 DEF Reads
  <1> QED
    BY <1>2, <1>3, <1>4 DEF Readings

\* ClosePendingSessionsInHistory: a pending session ends where the next began.
LEMMA HistoryClosed ==
    ASSUME NEW d, d = db, d \in Seq(Rows), NEW w \in [Nat -> Int], RowsKept(d, w), MeterOK
    PROVE  LET e == ClosePendingSessionsInHistory(meter) IN
           e \in Seq(Rows) /\ RowsKept(e, w) /\ Len(e) = Len(d) /\ Grows(d, e)
  <1> USE NoReadingAssumption
  <1> DEFINE stop(i) == IF i = Len(db) THEN meter ELSE db[i + 1].start
             closed(i) == [db[i] EXCEPT !.energy = stop(i) - db[i].start]
             open(i) == ~db[i].finished /\ db[i].start # NoReading /\ stop(i) # NoReading
             next(i) == IF i = Len(d) THEN meter ELSE w[i + 1]
             e == ClosePendingSessionsInHistory(meter)
  <1>1. /\ Len(d) \in Nat /\ DOMAIN d = 1 .. Len(d) /\ meter \in Int
        /\ \A i \in 1 .. Len(d) : d[i] \in Rows
    BY DEF MeterOK, FirstReading
  <1>2. e = [i \in 1 .. Len(d) |-> IF open(i) THEN closed(i) ELSE db[i]]
    BY <1>1 DEF ClosePendingSessionsInHistory
  <1>3. ASSUME NEW i \in 1 .. Len(d)
        PROVE  /\ e[i] \in Rows /\ e[i].start = d[i].start
               /\ e[i].energy \in Nat /\ d[i].energy <= e[i].energy
               /\ w[i] + e[i].energy <= next(i)
    <2>1. /\ d[i] \in Rows /\ d[i].energy \in Nat /\ w[i] \in Int /\ next(i) \in Int
          /\ w[i] + d[i].energy <= next(i)
          /\ d[i].start # NoReading => d[i].start = w[i]
      <3> HIDE DEF e, stop, open, closed
      <3>1. i \in Nat /\ i + 1 \in Nat /\ meter \in Int
        BY <1>1
      <3>2. w[i] \in Int /\ w[i + 1] \in Int
        BY <3>1
      <3> QED
        BY <1>1, <3>1, <3>2 DEF RowsKept
    <2>2. CASE ~open(i)
      <3>1. e[i] = d[i]
        BY <1>2, <2>2
      <3> HIDE DEF e, next
      <3> QED
        BY <2>1, <3>1
    <2>3. CASE open(i)
      <3>1. e[i] = closed(i)
        BY <1>2, <1>3, <2>3
      <3>2. d[i].start = w[i]
        BY <2>1, <2>3
      <3>3. stop(i) = next(i)
        <4>1. CASE i = Len(d)
          BY <4>1
        <4>2. CASE i # Len(d)
          <5>1. i + 1 \in 1 .. Len(d)
            <6>1. Len(d) \in Nat /\ i # Len(d)
              BY <1>1, <4>2
            <6> HIDE DEF e, stop, open, closed, next
            <6> QED
              BY <6>1
          <5>2. stop(i) = d[i + 1].start /\ d[i + 1].start # NoReading
            BY <2>3, <4>2
          <5>3. d[i + 1].start = w[i + 1]
            BY <5>1, <5>2 DEF RowsKept
          <5> QED
            BY <4>2, <5>2, <5>3
        <4> QED
          BY <4>1, <4>2
      <3> DEFINE energy == next(i) - w[i]
      <3>4. energy \in Nat /\ d[i].energy <= energy /\ w[i] + energy <= next(i)
        <4> HIDE DEF e, next
        <4> QED
          BY <2>1
      <3>5. e[i] = [d[i] EXCEPT !.energy = energy]
        <4>1. e[i] = [d[i] EXCEPT !.energy = stop(i) - d[i].start]
          BY <3>1
        <4> HIDE DEF e, stop, next
        <4> QED
          BY <3>2, <3>3, <4>1
      <3>6. energy \in Int
        <4> HIDE DEF e, next
        <4> QED
          BY <2>1
      <3> HIDE DEF energy, e, next, stop, open, closed
      <3>7. e[i] \in Rows /\ e[i].start = d[i].start /\ e[i].energy = energy
        BY <2>1, <3>5, <3>6 DEF Rows
      <3> QED
        BY <3>4, <3>7
    <2> QED
      BY <2>2, <2>3
  <1>4. e \in Seq(Rows) /\ Len(e) = Len(d)
    <2>1. e = [i \in 1 .. Len(d) |-> e[i]]
      BY <1>2
    <2> HIDE DEF e
    <2>2. e \in [1 .. Len(d) -> Rows]
      BY <1>3, <2>1
    <2> QED
      BY <1>1, <2>2, RowsAre
  <1> HIDE DEF e
  <1>5. RowsKept(e, w) /\ Grows(d, e)
    <2> HIDE DEF stop, open, closed
    <2>1. \A i \in 1 .. Len(d) : w[i] \in FirstReading .. meter
      BY DEF RowsKept
    <2>2. RowsKept(e, w)
      BY <1>3, <1>4, <2>1 DEF RowsKept
    <2>3. Len(d) <= Len(e)
      BY <1>1, <1>4
    <2> QED
      BY <1>3, <2>2, <2>3 DEF Grows
  <1> QED
    BY <1>4, <1>5 DEF e

-----------------------------------------------------------------------------
(* The invariant holds initially and is kept by every step.                *)

\* A loadpoint that has just been created, or is not running, has no session.
LEMMA Created ==
    ASSUME NEW m \in {Boot, Down}, NEW d \in Seq(Rows),
           NEW w \in [Nat -> Int], RowsKept(d, w)
    PROVE  Kept([m |-> m, d |-> d], w)
  <1> DEFINE t == [m |-> m, d |-> d]
  <1>1. Sane(t) /\ t.m = m /\ t.d = d /\ m.session = NoSession
    BY CreatedSane
  <1> HIDE DEF t
  <1> QED
    BY <1>1 DEF Kept, Sane, SessionFits, t

LEMMA Initially == Init => Inv
  <1> SUFFICES ASSUME Init PROVE Inv
    OBVIOUS
  <1>1. lp = Boot /\ db \in Seq(Rows) /\ Len(db) = 0 /\ observed = 0
    BY DEF Init
  <1> DEFINE w == [i \in Nat |-> 0]
  <1>2. RowsKept(db, w) /\ w \in [Nat -> Int]
    BY <1>1 DEF RowsKept
  <1> HIDE DEF w
  <1>3. Kept(Here, w)
    BY <1>1, <1>2, Created DEF Here
  <1>4. Unfailing
    <2>1. lp.up /\ lp.session = NoSession
      BY <1>1 DEF Boot
    <2>2. 1 .. (Len(db) + 1) - 1 = {}
      BY <1>1
    <2>3. BookedBefore(db, Len(db) + 1) = 0
      BY <2>2, SumEmpty DEF BookedBefore
    <2> QED
      BY <1>1, <2>1, <2>3, HereIs DEF Unfailing, Exact
  <1> QED
    BY <1>3, <1>4, InitiallySteady DEF Inv

\* Loadpoint.Update reads the status and notifies.
LEMMA StatusUpdated ==
    ASSUME ReadingsGood \/ clean', Inv, NEW ignore \in BOOLEAN, NEW settled \in BOOLEAN,
           NEW reading \in Readings({"stop", "connect", "create", "start"}),
           UpdateStatus(reading, ignore, settled)
    PROVE  Inv' /\ Recorded
  <1> DEFINE s1 == UpdateChargerStatus(Here, ignore, reading)
             s2 == MaybePushVehicleConnect(s1, settled)
             m == [s2.m EXCEPT !.updating = FALSE]
             t == [s2 EXCEPT !.m = m]
  <1>1. /\ lp.up /\ lp' = m /\ db' = s2.d /\ CountFaults(reading)
        /\ meter' = meter /\ observed' = observed
    BY DEF UpdateStatus, Here
  <1>2. /\ MeterOK /\ Types /\ Agreed(lp) /\ Heard(lp.status, lp)
        /\ \E w : Kept(Here, w)
        /\ clean => Exact(Here)
    BY DEF Inv, Steady, Unfailing
  <1> PICK w : Kept(Here, w)
    BY <1>2
  <1>3. Sound(reading) /\ (clean' => clean /\ Clear(reading))
    BY <1>1, <1>2, GoodReadings DEF Reads
  <1>4. /\ \E v : Kept(s1, v)
        /\ Heard(s1.m.status, s1.m) /\ s1.m.up = lp.up
        /\ Grows(db, s1.d)
        /\ clean' => Exact(s1)
    <2>1. /\ Agreed(Here.m) /\ Heard(Here.m.status, Here.m) /\ Here.m = lp /\ Here.d = db
          /\ Sane(Here) /\ plug \in {"A", "B", "C"}
      BY <1>2, HereIs DEF Inv, Steady, Types
    <2>2. Measured(reading)
      BY <1>1, <1>2, AnyReadings
    <2> HIDE DEF Here
    <2> QED
      BY <1>2, <1>3, <2>1, <2>2, ChargerStatusUpdated, ChargerStatusSane
  <1> HIDE DEF s1
  <1> PICK v : Kept(s1, v)
    BY <1>4
  <1>5. Kept(s2, v) /\ s2.m.up = lp.up /\ s2.d = s1.d /\ (clean' => Exact(s2))
    <2>1. Sane(s1)
      BY DEF Kept, Sane
    <2>2. /\ s2 = [s1 EXCEPT !.m = s2.m] /\ s2.m \in Memory /\ s2.d = s1.d
          /\ SameCount(s1.m, s2.m) /\ s2.m.session = s1.m.session /\ s2.m.up = s1.m.up
      BY <1>4, <2>1, ConnectPushed
    <2> HIDE DEF s2
    <2> QED
      BY <1>4, <2>2, Untouched
  <1> HIDE DEF s2
  <1>6. /\ m \in Memory /\ m.session = s2.m.session /\ SameCount(s2.m, m)
        /\ m.up = s2.m.up
    <2>1. s2.m \in Memory
      BY <1>5 DEF Kept, State
    <2>2. m \in Memory
      BY <2>1, Stored
    <2> QED
      BY <2>1, <2>2 DEF Memory, SameCount
  <1> HIDE DEF m
  <1>7. Kept(t, v) /\ t.m = m /\ t.d = s2.d /\ (clean' => Exact(t))
    BY <1>5, <1>6, Untouched
  <1> HIDE DEF t
  <1>8. (\E x : Kept(Here, x))'
    <2>1. meter' \in Int /\ meter' >= meter
      BY <1>1, <1>2 DEF MeterOK, FirstReading
    <2> QED
      BY <1>1, <1>2, <1>7, <2>1, Carried
  <1>9. Unfailing'
    <2>1. ASSUME clean'
          PROVE  Exact(Here)'
      <3>1. t \in State /\ Exact(t)
        BY <1>7, <2>1 DEF Kept
      <3> QED
        BY <1>1, <1>7, <3>1, CarriedExactly
    <2> QED
      BY <1>1, <1>5, <1>6, <2>1 DEF Unfailing
  <1>10. Recorded
    BY <1>1, <1>2, <1>4, <1>5 DEF Recorded, MeterOK, FirstReading
  <1> QED
    BY <1>8, <1>9, <1>10, StatusSteady DEF Inv

\* The vehicle and the charger leave the loadpoint alone.
LEMMA VehicleActs ==
    ASSUME Inv, Plug \/ Unplug \/ Toggle \/ Flow \/ UNCHANGED vars
    PROVE  Inv' /\ Recorded
  <1>1. /\ meter' \in {meter, meter + 1} /\ lp' = lp /\ db' = db
        /\ meter \in Int /\ meter' \in Int
    BY DEF Inv, Steady, Plug, Unplug, Toggle, Flow, vars, MeterOK, FirstReading
  <1>2. (\E v : Kept(Here, v))'
    <2> PICK w : Kept(Here, w)
      BY DEF Inv
    <2>1. meter' >= meter /\ MeterOK /\ lp' = Here.m /\ db' = Here.d
      BY <1>1, HereIs DEF Inv, Steady
    <2> HIDE DEF Here
    <2> QED
      BY <1>1, <2>1, Carried
  <1>3. Unfailing'
    <2>1. clean' = clean
      BY DEF Plug, Unplug, Toggle, Flow, vars
    <2>2. CASE Flow
      BY <1>1, <2>1, <2>2, FlowCounted DEF Inv, Unfailing
    <2>3. CASE ~Flow
      <3>1. meter' = meter /\ observed' = observed
        BY <2>3 DEF Plug, Unplug, Toggle, vars
      <3>2. ASSUME Exact(Here)
            PROVE  Exact(Here)'
        BY <1>1, <3>1, <3>2, HereIs, HereKept, CarriedExactly
      <3> QED
        BY <1>1, <2>1, <3>2 DEF Inv, Unfailing
    <2> QED
      BY <2>2, <2>3
  <1>4. Recorded
    <2>1. Grows(db, db')
      BY <1>1, HereKept, GrowsNot
    <2> QED
      BY <1>1, <2>1 DEF Recorded
  <1> QED
    BY <1>2, <1>3, <1>4, VehicleSteady DEF Inv

\* Loadpoint.Update begins with the progress, or ends early.
LEMMA ProgressUpdated ==
    ASSUME ReadingsGood \/ clean', Inv,
           \/ \E reading \in Readings({"progress"}) : UpdateProgress(reading)
           \/ UpdateReturn
    PROVE  Inv' /\ Recorded
  <1>1. /\ MeterOK /\ Types /\ \E w : Kept(Here, w)
        /\ clean => lp.up /\ Exact(Here)
    BY DEF Inv, Steady, Unfailing
  <1> PICK w : Kept(Here, w)
    BY <1>1
  <1> DEFINE Kin(n, s) == /\ n \in Memory /\ s.m = n /\ s.d = db /\ Kept(s, w)
                          /\ n.up = lp.up /\ (clean' => Exact(s))
  <1>2. \E n, s : /\ \E b \in BOOLEAN : lp' = [n EXCEPT !.updating = b]
                  /\ Kin(n, s)
    <2>1. CASE UpdateReturn
      <3>1. lp' = [lp EXCEPT !.updating = FALSE] /\ clean' = clean
        BY <2>1 DEF UpdateReturn
      <3>2. Kin(lp, Here)
        BY <1>1, <3>1, HereIs, HereKept
      <3> QED
        BY <3>1, <3>2
    <2>2. CASE \E reading \in Readings({"progress"}) : UpdateProgress(reading)
      <3>1. PICK reading \in Readings({"progress"}) : UpdateProgress(reading)
        BY <2>2
      <3> DEFINE n == PublishChargeProgress(lp, reading["progress"])
                 s == [Here EXCEPT !.m = n]
      <3>2. lp' = [n EXCEPT !.updating = TRUE]
        BY <3>1 DEF UpdateProgress
      <3>3. /\ reading["progress"] \in {meter, NoReading, Garbage}
            /\ clean' => clean /\ Clear(reading)
        BY <1>1, <3>1, GoodReadings DEF UpdateProgress, Reads
      <3>4. /\ n \in Memory /\ Kept(s, w) /\ s.m = n /\ s.d = db /\ n.up = lp.up
            /\ Exact(Here) /\ reading["progress"] = meter => Exact(s)
        <4> DEFINE r == reading["progress"]
        <4> HIDE DEF Here, r
        <4>1. r \in {meter, NoReading, Garbage}
          BY <3>3 DEF r
        <4>2. LET p == PublishChargeProgress(Here.m, r)
                  q == [Here EXCEPT !.m = p]
              IN  /\ p \in Memory /\ Kept(q, w) /\ q.m = p /\ q.d = Here.d
                  /\ p.up = Here.m.up
                  /\ Exact(Here) /\ r = meter => Exact(q)
          BY <1>1, <4>1, ProgressPublished
        <4> QED
          BY <4>2, HereIs DEF r
      <3>5. Clear(reading) => reading["progress"] = meter
        BY DEF Clear, Reads
      <3> HIDE DEF n, s
      <3>6. Kin(n, s)
        BY <1>1, <3>3, <3>4, <3>5
      <3> QED
        BY <3>2, <3>6
    <2> QED
      BY <2>1, <2>2
  <1>3. PICK n, s : /\ \E b \in BOOLEAN : lp' = [n EXCEPT !.updating = b]
                    /\ Kin(n, s)
    BY <1>2
  <1>4. PICK b \in BOOLEAN : lp' = [n EXCEPT !.updating = b]
    BY <1>3
  <1> DEFINE m == [n EXCEPT !.updating = b]
             t == [s EXCEPT !.m = m]
  <1>5. m \in Memory /\ m.session = n.session /\ m.up = lp.up /\ SameCount(n, m)
    <2>1. n \in Memory /\ n.up = lp.up
      BY <1>3
    <2>2. m \in Memory
      BY <2>1, Stored
    <2> QED
      BY <2>1, <2>2 DEF Memory, SameCount
  <1>6. lp' = m
    BY <1>4
  <1> HIDE DEF m
  <1>7. Kept(t, w) /\ t.m = m /\ t.d = db /\ (clean' => Exact(t))
    BY <1>3, <1>5, Untouched
  <1> HIDE DEF t, Kin
  <1>8. /\ meter' = meter /\ db' = db /\ observed' = observed
        /\ meter' \in Int /\ meter' >= meter
    BY <1>1 DEF UpdateReturn, UpdateProgress, MeterOK, FirstReading
  <1>9. clean' => clean
    BY ProgressSteady DEF Inv
  <1>10. (\E v : Kept(Here, v))'
    BY <1>1, <1>6, <1>7, <1>8, Carried
  <1>11. Unfailing'
    <2>1. ASSUME clean'
          PROVE  Exact(Here)'
      <3>1. t \in State /\ Exact(t)
        BY <1>7, <2>1 DEF Kept
      <3> QED
        BY <1>6, <1>7, <1>8, <3>1, CarriedExactly
    <2> QED
      BY <1>1, <1>5, <1>6, <1>9, <2>1 DEF Unfailing
  <1>12. Recorded
    <2>1. Grows(db, db')
      BY <1>8, HereKept, GrowsNot
    <2> QED
      BY <1>8, <2>1 DEF Recorded
  <1> QED
    BY <1>10, <1>11, <1>12, ProgressSteady DEF Inv

\* The process ends, by itself or on request, and is started again.
LEMMA ProcessActs ==
    ASSUME ReadingsGood \/ clean', Inv,
           \/ Crash \/ Shutdown
           \/ \E reading \in Readings({"boot"}) : Restart(reading)
    PROVE  Inv' /\ Recorded
  <1> PICK w : Kept(Here, w)
    BY DEF Inv
  <1>1. /\ MeterOK /\ Types /\ db \in Seq(Rows) /\ RowsKept(db, w) /\ w \in [Nat -> Int]
    BY HereIs, HereKept DEF Inv, Kept, Steady, Steady
  <1>2. /\ meter' = meter /\ lp' \in {Boot, Down}
        /\ db' \in Seq(Rows) /\ RowsKept(db', w) /\ Grows(db, db')
        /\ clean' => clean /\ lp.up = FALSE
    <2>1. CASE Crash
      BY <1>1, <2>1, GrowsNot DEF Crash
    <2>2. CASE Shutdown
      <3>1. db' = StopSession(Here).d
        BY <2>2 DEF Shutdown, Here
      <3>2. Kept(StopSession(Here), w) /\ Grows(db, StopSession(Here).d)
        <4> HIDE DEF Here
        <4> QED
          BY <1>1, HereIs, SessionStops
      <3>3. db' \in Seq(Rows) /\ RowsKept(db', w) /\ Grows(db, db')
        BY <3>1, <3>2 DEF Kept, State
      <3> QED
        BY <2>2, <3>3 DEF Shutdown
    <2>3. CASE \E reading \in Readings({"boot"}) : Restart(reading)
      <3>1. PICK reading \in Readings({"boot"}) : Restart(reading)
        BY <2>3
      <3>2. reading["boot"] = meter /\ (clean' => clean)
        BY <1>1, <3>1, GoodReadings DEF Restart, Reads
      <3>3. ChargeMeterTotal(reading["boot"]) = meter
        BY <1>1, <3>2, NoReadingAssumption DEF ChargeMeterTotal, MeterOK, FirstReading
      <3>4. db' \in Seq(Rows) /\ RowsKept(db', w) /\ Grows(db, db')
        <4>1. db' = ClosePendingSessionsInHistory(meter)
          BY <3>1, <3>3 DEF Restart
        <4> QED
          BY <1>1, <4>1, HistoryClosed
      <3> QED
        BY <3>1, <3>2, <3>4, HereKept DEF Restart, Memory
    <2> QED
      BY <2>1, <2>2, <2>3
  <1> DEFINE t == [m |-> lp', d |-> db']
  <1>3. Kept(t, w)
    BY <1>1, <1>2, Created
  <1>4. (\E v : Kept(Here, v))'
    <2>1. t.m = lp' /\ t.d = db'
      OBVIOUS
    <2> HIDE DEF t
    <2>2. meter' \in Int /\ meter' >= meter
      BY <1>1, <1>2 DEF MeterOK, FirstReading
    <2> QED
      BY <1>1, <1>3, <2>1, <2>2, Carried
  <1>5. Unfailing' /\ Recorded
    <2>1. ~clean'
      BY <1>2 DEF Inv, Unfailing
    <2> QED
      BY <1>1, <1>2, <2>1 DEF Unfailing, Recorded, MeterOK, FirstReading
  <1> QED
    BY <1>4, <1>5, ProcessSteady DEF Inv

LEMMA Step ==
    ASSUME ReadingsGood \/ clean', Inv, [Next]_vars
    PROVE  Inv' /\ Recorded
  BY VehicleActs, ProgressUpdated, StatusUpdated, ProcessActs DEF Next

-----------------------------------------------------------------------------
(* The history as a whole.                                                 *)

LEMMA BookedIs ==
    ASSUME db \in Seq(Rows)
    PROVE  BookedEnergy = BookedBefore(db, Len(db) + 1)
  <1>1. DOMAIN Energies(db) = 1 .. Len(db)
    BY RowTypes DEF Energies
  <1>2. BookedEnergy = SumFunctionOnSet(Energies(db), 1 .. Len(db))
    BY <1>1 DEF BookedEnergy, SumFunction, Energies
  <1>3. (Len(db) + 1) - 1 = Len(db)
    BY RowTypes
  <1> QED
    BY <1>2, <1>3 DEF BookedBefore

\* The sessions lie one after the other, so that all of them together have no
\* more than what has flowed since the first began.
LEMMA BookedFits ==
    ASSUME NEW d \in Seq(Rows), NEW w \in [Nat -> Int], RowsKept(d, w), MeterOK
    PROVE  BookedBefore(d, Len(d) + 1) \in 0 .. meter - FirstReading
  <1> DEFINE Next1(k) == IF k = Len(d) THEN meter ELSE w[k + 1]
             Good == {k \in Nat : k \in 1 .. Len(d) =>
                         BookedBefore(d, k + 1) \in 0 .. Next1(k) - FirstReading}
  <1>1. /\ Len(d) \in Nat /\ meter \in Int /\ FirstReading \in Int /\ meter >= FirstReading
        /\ \A k \in 1 .. Len(d) : k \in Nat /\ w[k] \in Int /\ d[k].energy \in Int
    BY RowTypes DEF MeterOK, FirstReading
  <1>2. \A k \in 1 .. Len(d) : /\ w[k] \in FirstReading .. meter /\ d[k].energy \in Nat
                               /\ w[k] + d[k].energy <= Next1(k)
    BY DEF RowsKept
  <1>3. BookedBefore(d, 1) = 0
    <2>1. 1 .. 1 - 1 = {}
      OBVIOUS
    <2> QED
      BY <2>1, SumEmpty DEF BookedBefore
  <1>4. \A k \in 1 .. Len(d) : Next1(k) \in Int
    BY <1>1
  <1>5. 0 \in Good
    OBVIOUS
  <1>6. ASSUME NEW k \in Nat, k \in Good
        PROVE  k + 1 \in Good
    <2> SUFFICES ASSUME k + 1 \in 1 .. Len(d)
                 PROVE  BookedBefore(d, (k + 1) + 1) \in 0 .. Next1(k + 1) - FirstReading
      OBVIOUS
    <2> DEFINE before == BookedBefore(d, k + 1)
               energy == d[k + 1].energy
    <2>1. BookedBefore(d, (k + 1) + 1) = before + energy
      BY BeforeNext
    <2>2. before \in 0 .. w[k + 1] - FirstReading
      <3>1. CASE k = 0
        <4>1. before = 0 /\ w[1] \in FirstReading .. meter /\ k + 1 = 1
          BY <1>1, <1>2, <1>3, <3>1
        <4> QED
          BY <1>1, <3>1, <4>1
      <3>2. CASE k # 0
        <4>1. k \in 1 .. Len(d) /\ k # Len(d)
          BY <1>1, <3>2
        <4> QED
          BY <1>6, <4>1
      <3> QED
        BY <3>1, <3>2
    <2>3. energy \in Nat /\ w[k + 1] \in Int /\ w[k + 1] + energy <= Next1(k + 1)
      BY <1>1, <1>2
    <2>4. Next1(k + 1) \in Int
      BY <1>4
    <2> DEFINE start == w[k + 1]
               end == Next1(k + 1)
    <2>5. /\ before \in 0 .. start - FirstReading /\ energy \in Nat /\ start \in Int
          /\ start + energy <= end /\ end \in Int /\ FirstReading \in Int
      BY <1>1, <2>2, <2>3, <2>4
    <2> HIDE DEF before, energy, start, end, Next1, Good
    <2>6. before + energy \in 0 .. end - FirstReading
      BY <2>5
    <2> QED
      BY <2>1, <2>6 DEF end
  <1>7. \A k \in Nat : k \in Good
    <2> HIDE DEF Good
    <2> QED
      BY <1>5, <1>6, NatSetInduction
  <1>8. CASE Len(d) = 0
    BY <1>1, <1>3, <1>8
  <1>9. CASE Len(d) # 0
    <2>1. Len(d) \in 1 .. Len(d) /\ Next1(Len(d)) = meter
      BY <1>1, <1>9
    <2>2. Len(d) \in Good
      BY <1>1, <1>7
    <2> QED
      BY <2>1, <2>2
  <1> QED
    BY <1>8, <1>9

\* What is added to the history is added to the sum.
LEMMA BookedGrows ==
    ASSUME NEW d \in Seq(Rows), NEW e \in Seq(Rows), Grows(d, e),
           \A i \in 1 .. Len(e) : e[i].energy \in Nat
    PROVE  BookedBefore(d, Len(d) + 1) <= BookedBefore(e, Len(e) + 1)
  <1> DEFINE I == 1 .. Len(d)
             J == (Len(d) + 1) .. Len(e)
  <1>1. /\ Len(d) \in Nat /\ Len(e) \in Nat /\ Len(d) <= Len(e)
        /\ (Len(d) + 1) - 1 = Len(d) /\ (Len(e) + 1) - 1 = Len(e)
    BY RowTypes DEF Grows
  <1>2. IsFiniteSet(I) /\ IsFiniteSet(J)
    BY <1>1, FS_Interval
  <1>3. I \cup J = 1 .. Len(e) /\ I \cap J = {}
    BY <1>1
  <1>4. /\ \A i \in I \cup J : Energies(e)[i] \in Nat /\ Energies(e)[i] \in Int
        /\ \A i \in I : /\ Energies(d)[i] \in Int
                        /\ Energies(d)[i] <= Energies(e)[i]
    BY <1>3, RowTypes DEF Energies, Grows
  <1> HIDE DEF I, J
  <1>5. SumFunctionOnSet(Energies(d), I) <= SumFunctionOnSet(Energies(e), I)
    BY <1>2, <1>4, SumMonotonic
  <1>6. SumFunctionOnSet(Energies(e), I \cup J)
            = SumFunctionOnSet(Energies(e), I) + SumFunctionOnSet(Energies(e), J)
    BY <1>2, <1>3, <1>4, SumUnion
  <1>7. SumFunctionOnSet(Energies(e), J) \in Nat
    BY <1>2, <1>4, SumNat
  <1>8. SumFunctionOnSet(Energies(e), I) \in Int /\ SumFunctionOnSet(Energies(d), I) \in Int
    BY <1>2, <1>4, SumInt
  <1>9. /\ BookedBefore(d, Len(d) + 1) = SumFunctionOnSet(Energies(d), I)
        /\ BookedBefore(e, Len(e) + 1) = SumFunctionOnSet(Energies(e), I \cup J)
    BY <1>1, <1>3 DEF BookedBefore, I
  <1> QED
    BY <1>5, <1>6, <1>7, <1>8, <1>9

\* What is booked never exceeds what was delivered.
LEMMA BookedHere ==
    ASSUME Inv
    PROVE  /\ BookedEnergy \in 0 .. meter - FirstReading
           /\ BookedEnergy = BookedBefore(db, Len(db) + 1)
           /\ db \in Seq(Rows) /\ \A i \in 1 .. Len(db) : db[i].energy \in Nat
  <1> PICK w : Kept(Here, w)
    BY DEF Inv
  <1>1. RowsKept(db, w) /\ w \in [Nat -> Int] /\ db \in Seq(Rows) /\ MeterOK
    BY HereIs, HereKept DEF Inv, Kept, Steady
  <1> QED
    BY <1>1, BookedIs, BookedFits DEF RowsKept

\* A step of the loadpoint is one of the ledger.
LEMMA LedgerStep ==
    ASSUME Inv, Inv', Recorded
    PROVE  Ledger!LedgerNext
  <1>1. meter \in Int /\ meter' \in Int /\ FirstReading \in Int
    BY HereKept DEF Recorded, FirstReading
  <1>2. /\ BookedEnergy \in 0 .. meter - FirstReading
        /\ BookedEnergy = BookedBefore(db, Len(db) + 1) /\ db \in Seq(Rows)
    BY BookedHere
  <1>3. /\ BookedEnergy' \in 0 .. meter' - FirstReading
        /\ BookedEnergy' = BookedBefore(db', Len(db') + 1)
        /\ db' \in Seq(Rows) /\ \A i \in 1 .. Len(db') : db'[i].energy \in Nat
    <2>1. /\ (BookedEnergy \in 0 .. meter - FirstReading)'
          /\ (BookedEnergy = BookedBefore(db, Len(db) + 1))'
          /\ (db \in Seq(Rows) /\ \A i \in 1 .. Len(db) : db[i].energy \in Nat)'
      BY BookedHere, PTL
    <2> QED
      BY <2>1 DEF FirstReading, BookedBefore, Energies
  <1>4. CASE meter' # meter
    <2>1. meter' > meter /\ db' = db
      BY <1>4 DEF Recorded
    <2>2. BookedEnergy' = BookedEnergy
      BY <2>1 DEF BookedEnergy
    <2>3. (meter - FirstReading)' > meter - FirstReading
      <3>1. (meter - FirstReading)' = meter' - FirstReading
        BY DEF FirstReading
      <3>2. meter' - FirstReading > meter - FirstReading
        <4> DEFINE now == meter
                   then == meter'
                   first == FirstReading
        <4>1. now \in Int /\ then \in Int /\ first \in Int /\ then > now
          BY <1>1, <2>1
        <4> HIDE DEF now, then, first
        <4>2. then - first > now - first
          BY <4>1
        <4> QED
          BY <4>2 DEF now, then, first
      <3> QED
        BY <3>1, <3>2
    <2> QED
      BY <2>2, <2>3 DEF Ledger!LedgerNext, Ledger!Deliver
  <1>5. CASE meter' = meter
    <2>1. BookedEnergy <= BookedEnergy'
      BY <1>2, <1>3, BookedGrows DEF Recorded
    <2> QED
      BY <1>1, <1>2, <1>3, <1>5, <2>1 DEF Ledger!LedgerNext, Ledger!Book, FirstReading
  <1> QED
    BY <1>4, <1>5

-----------------------------------------------------------------------------
(* What follows.                                                           *)

LEMMA AlwaysSteady == Spec => []Steady
  <1>1. Init => Steady
    BY InitiallySteady
  <1>2. Steady /\ [Next]_vars => Steady'
    BY SteadyStep
  <1> QED
    BY <1>1, <1>2, PTL DEF Spec

\* Every variable keeps its type, and the history ends with at most one row more
\* than the bound on plugs and restarts: no handler saves a session twice. That
\* holds whichever readings fail or are garbage.
THEOREM SessionTypeCorrect == Spec => []TypeOK
  <1>1. Steady => TypeOK
    BY HereSteady DEF Steady, MeterOK, Types, FewRows, TypeOK
  <1> QED
    BY <1>1, AlwaysSteady, PTL

\* The user is never told twice in a row that a vehicle has come, or has gone.
THEOREM NotificationsTakeTurns == Spec => []NotifiedInTurn
  <1>1. Steady => NotifiedInTurn
    BY DEF Steady, Heard, NotifiedInTurn
  <1> QED
    BY <1>1, AlwaysSteady, PTL

\* The history is in order if readings are good, or as long as none was bad.
Ordered == ReadingsGood \/ clean => Inv

LEMMA AlwaysOrdered == Spec => []Ordered
  <1>1. Init => Ordered
    BY Initially DEF Ordered
  <1>2. Steady /\ Ordered /\ [Next]_vars => Ordered'
    <2> SUFFICES ASSUME Steady, Ordered, [Next]_vars, ReadingsGood \/ clean'
                 PROVE  Inv'
      BY DEF Ordered, ReadingsGood
    <2>1. clean' => clean
      BY SteadyStep
    <2>2. Inv
      BY <2>1 DEF Ordered
    <2> QED
      BY <2>2, Step
  <1> QED
    BY <1>1, <1>2, AlwaysSteady, PTL DEF Spec

\* As long as nothing fails, the sessions hold exactly what was delivered while
\* the loadpoint knew of the charging, once the vehicle has gone.
THEOREM NothingSeenIsLost == Spec => []BooksWhatItSaw
  <1>1. Ordered => BooksWhatItSaw
    BY BookedHere, HereIs DEF Ordered, Inv, Unfailing, Exact, BooksWhatItSaw
  <1> QED
    BY <1>1, AlwaysOrdered, PTL

LEMMA AlwaysInv == ASSUME ReadingsGood PROVE Spec => []Inv
  <1>1. Ordered => Inv
    BY DEF Ordered
  <1> QED
    BY <1>1, AlwaysOrdered, PTL

\* No session has a negative energy or more than the meter has counted, however
\* many readings fail while the process runs or are garbage while charging, and
\* however often the process is stopped, crashes and closes pending sessions when it
\* starts again.  ReadingsGood excludes that the meter cannot be read at startup
\* (core/site.go:251) and garbage when charging stops (core/loadpoint_session.go:154).
THEOREM SessionsArePlausible == ASSUME ReadingsGood PROVE Spec => []SessionsPlausible
  <1>1. Inv => SessionsPlausible
    <2> SUFFICES ASSUME Inv PROVE SessionsPlausible
      OBVIOUS
    <2> PICK w : Kept(Here, w)
      BY DEF Inv
    <2>0. meter \in Int /\ Len(db) \in Nat
      BY HereIs, HereKept, RowTypes DEF Kept
    <2>1. /\ RowsKept(db, w) /\ w \in [Nat -> Int] /\ db \in Seq(Rows)
          /\ DOMAIN db = 1 .. Len(db)
      BY HereIs, HereKept, RowTypes DEF Kept
    <2>2. ASSUME NEW i \in 1 .. Len(db)
          PROVE  db[i].energy \in 0 .. meter - FirstReading
      <3>1. /\ w[i] \in FirstReading .. meter /\ db[i].energy \in Nat
            /\ w[i] + db[i].energy <= IF i = Len(db) THEN meter ELSE w[i + 1]
        BY <2>1 DEF RowsKept
      <3>2. i # Len(db) => w[i + 1] \in FirstReading .. meter
        <4>1. i # Len(db) => i + 1 \in 1 .. Len(db)
          BY <2>0
        <4> QED
          BY <2>1, <4>1 DEF RowsKept
      <3> DEFINE energy == db[i].energy
                 next == w[i + 1]
                 here == w[i]
      <3>3. /\ here \in FirstReading .. meter /\ energy \in Nat
            /\ i = Len(db) => here + energy <= meter
            /\ i # Len(db) => here + energy <= next /\ next \in FirstReading .. meter
        BY <3>1, <3>2
      <3> HIDE DEF energy, next, here
      <3>4. energy \in 0 .. meter - FirstReading
        BY <2>0, <3>3 DEF FirstReading
      <3> QED
        BY <3>4 DEF energy
    <2> QED
      BY <2>1, <2>2 DEF SessionsPlausible
  <1> QED
    BY <1>1, AlwaysInv, PTL

\* The history with the meter is a ledger: what is booked never shrinks and is never
\* more than what was delivered, with crashes and restarts, readings that fail while
\* the process runs and garbage while charging.  It is not one when the meter cannot
\* be read at startup (core/site.go:251) or reads garbage when charging stops
\* (core/loadpoint_session.go:154): that is what ReadingsGood excludes.
THEOREM HistoryIsLedger == ASSUME ReadingsGood PROVE Spec => ImplementsLedger
  <1>1. Init => Ledger!LedgerInit
    <2> SUFFICES ASSUME Init PROVE Ledger!LedgerInit
      OBVIOUS
    <2>1. meter = FirstReading /\ Inv
      BY Initially DEF Init
    <2>2. BookedEnergy \in 0 .. meter - FirstReading
      BY <2>1, BookedHere
    <2> QED
      BY <2>1, <2>2 DEF Ledger!LedgerInit, FirstReading
  <1>2. Inv /\ Inv' /\ [Next]_vars => [Ledger!LedgerNext]_(Ledger!ledgerVars)
    BY Step, LedgerStep
  <1> QED
    BY <1>1, <1>2, AlwaysInv, PTL DEF Spec, ImplementsLedger, Ledger!LedgerSpec
=============================================================================
