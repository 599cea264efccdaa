----------------------------- MODULE VehicleProofs -----------------------------
(***************************************************************************)
(* What VehicleCoordinator guarantees for any number of loadpoints,        *)
(* vehicles and goroutines; and that VehicleDetection implements it, so    *)
(* that whatever holds for every user of the coordinator holds for the     *)
(* loadpoints' loops, too.                                                 *)
(***************************************************************************)
EXTENDS VehicleDetection, FiniteSetTheorems, TLAPS

\* The call stands between vmu.Lock and vmu.Unlock of setActiveVehicle.
Critical(c) == frame[c].pc \in {"release", "acquire", "assign"}

\* vmu names exactly the call that is inside the critical section.
LockInv ==
    \A lp \in Loadpoints, c \in Calls :
        vmu[lp] = c <=> frame[c].lp = lp /\ Critical(c)

\* An eviction only removes, and runs while its caller waits in Assign or, for
\* Delete, while its caller has no call of its own.
EvictInv ==
    /\ \A c \in Calls : frame[c].pc = "acquire" => frame[c].v # NoVehicle
    /\ \A p \in Procs :
          /\ frame[<<p, "evict">>].v = NoVehicle
          /\ frame[<<p, "evict">>].pc # "idle" =>
                frame[<<p, "caller">>].pc \in {"idle", "assign"}

\* A loadpoint the table names has that vehicle, or is about to have it: until
\* it has released its old vehicle the entry is for that one, from then on for
\* the one it is assigning.
TrackedInv ==
    \A w \in Vehicles : tracked[w] # NoLoadpoint =>
        LET lp == tracked[w] IN
        IF vmu[lp] = NoCall \/ frame[vmu[lp]].pc = "release"
        THEN vehicle[lp] = w
        ELSE frame[vmu[lp]].pc = "assign" /\ frame[vmu[lp]].v = w

Inv == TypeOK /\ LockInv /\ EvictInv /\ TrackedInv

-----------------------------------------------------------------------------
LEMMA InitInv == Init => Inv
  <1> SUFFICES ASSUME Init PROVE Inv
    OBVIOUS
  <1> USE DistinctNils DEF Init
  <1>1. TypeOK
    BY DEF TypeOK, IdleFrame, Frame, Places, Thens, OptLoadpoint, OptVehicle
  <1>2. LockInv
    BY DEF LockInv, Critical, IdleFrame
  <1>3. EvictInv
    BY DEF EvictInv, IdleFrame, Calls
  <1>4. TrackedInv
    BY DEF TrackedInv
  <1> QED
    BY <1>1, <1>2, <1>3, <1>4 DEF Inv

LEMMA NextInv == Inv /\ [Next]_vars => Inv'
  <1> SUFFICES ASSUME Inv, [Next]_vars PROVE Inv'
    OBVIOUS
  <1> USE DistinctNils DEF Inv, Calls
  <1>1. ASSUME NEW p \in Procs, NEW lp \in Loadpoints, NEW v \in OptVehicle,
               NEW then \in Thens, Idle(p),
               frame' = [frame EXCEPT ![<<p, "caller">>] = Entered(lp, v, then)],
               vehicleDetect' \in [Loadpoints -> BOOLEAN],
               UNCHANGED <<vehicles, unseen, tracked, vehicle, vmu>>
        PROVE  Inv'
    <2> DEFINE c0 == <<p, "caller">>
    <2>0. /\ frame'[c0] = [pc |-> "lock", lp |-> lp, v |-> v, then |-> then]
          /\ \A d \in Calls : d # c0 => frame'[d] = frame[d]
      BY <1>1 DEF TypeOK, Entered
    <2>0a. frame[<<p, "caller">>].pc = "idle" /\ frame[<<p, "evict">>].pc = "idle"
      BY <1>1 DEF Idle
    <2>1. TypeOK'
      BY <1>1, <2>0 DEF TypeOK, Entered, Frame, Places, OptLoadpoint
    <2>2. LockInv'
      BY <1>1, <2>0, <2>0a DEF LockInv, Critical
    <2>3. EvictInv'
      BY <1>1, <2>0, <2>0a DEF EvictInv
    <2>4. TrackedInv'
      BY <1>1, <2>0, <2>0a DEF TrackedInv, TypeOK, LockInv, Critical, OptLoadpoint
    <2> QED
      BY <2>1, <2>2, <2>3, <2>4
  <1>2. ASSUME NEW p \in Procs,
               vehicles' \subseteq Vehicles, unseen' \subseteq Vehicles,
               vehicleDetect' \in [Loadpoints -> BOOLEAN],
               UNCHANGED <<tracked, vehicle, vmu, frame>>
        PROVE  Inv'
    <2>1. TypeOK'
      BY <1>2 DEF TypeOK
    <2>2. LockInv' /\ EvictInv' /\ TrackedInv'
      BY <1>2 DEF LockInv, Critical, EvictInv, TrackedInv
    <2> QED
      BY <2>1, <2>2
  <1>3. ASSUME NEW p \in Procs, NEW v \in Vehicles, Delete(p, v)
        PROVE  Inv'
    <2> DEFINE e == <<p, "evict">>
    <2>0. /\ frame[<<p, "caller">>].pc = "idle" /\ frame[e].pc = "idle"
          /\ tracked' = [tracked EXCEPT ![v] = NoLoadpoint]
          /\ vehicles' \subseteq Vehicles
          /\ UNCHANGED <<unseen, vehicle, vmu, vehicleDetect>>
      BY <1>3 DEF Delete, Idle, TypeOK
    <2>1. CASE tracked[v] = NoLoadpoint
      <3>1. frame' = frame
        BY <1>3, <2>1 DEF Delete
      <3>2. TypeOK'
        BY <2>0, <3>1 DEF TypeOK, OptLoadpoint
      <3>3. LockInv' /\ EvictInv'
        BY <2>0, <3>1 DEF LockInv, Critical, EvictInv
      <3>4. TrackedInv'
        BY <2>0, <3>1 DEF TrackedInv, TypeOK, OptLoadpoint
      <3> QED
        BY <3>2, <3>3, <3>4
    <2>2. CASE tracked[v] # NoLoadpoint
      <3> DEFINE o == tracked[v]
      <3>0. o \in Loadpoints
        BY <2>2 DEF TypeOK, OptLoadpoint
      <3>1. /\ frame'[e] = [pc |-> "lock", lp |-> o, v |-> NoVehicle, then |-> "stop"]
            /\ \A d \in Calls : d # e => frame'[d] = frame[d]
            /\ frame' = [frame EXCEPT ![e] = Entered(o, NoVehicle, "stop")]
        BY <1>3, <2>2 DEF Delete, Entered, TypeOK
      <3>2. TypeOK'
        BY <2>0, <3>0, <3>1
        DEF TypeOK, Entered, Frame, Places, Thens, OptLoadpoint, OptVehicle
      <3>3. LockInv'
        BY <2>0, <3>1 DEF LockInv, Critical
      <3>4. EvictInv'
        BY <2>0, <3>1 DEF EvictInv
      <3>5. TrackedInv'
        BY <2>0, <3>1 DEF TrackedInv, TypeOK, OptLoadpoint, LockInv, Critical
      <3> QED
        BY <3>2, <3>3, <3>4, <3>5
    <2> QED
      BY <2>1, <2>2
  <1>4. ASSUME NEW c \in Calls, Lock(c)
        PROVE  Inv'
    <2> DEFINE lp == frame[c].lp
    <2>0. /\ frame[c].pc = "lock" /\ lp \in Loadpoints /\ vmu[lp] = NoCall
          /\ vmu' = [vmu EXCEPT ![lp] = c]
          /\ frame' = [frame EXCEPT ![c].pc = "release"]
          /\ UNCHANGED <<vehicles, unseen, tracked, vehicle, vehicleDetect>>
      BY <1>4 DEF Lock, Goto, TypeOK
    <2>1. /\ frame'[c] = [frame[c] EXCEPT !.pc = "release"]
          /\ \A d \in Calls : d # c => frame'[d] = frame[d]
      BY <2>0 DEF TypeOK
    <2>2. TypeOK'
      BY <2>0 DEF TypeOK, Frame, Places
    <2>3. LockInv'
      BY <2>0, <2>1 DEF LockInv, Critical, TypeOK, Frame
    <2>4. EvictInv'
      BY <2>0, <2>1 DEF EvictInv, TypeOK, Frame
    <2>5. TrackedInv'
      BY <2>0, <2>1 DEF TrackedInv, TypeOK, OptLoadpoint, Frame, LockInv, Critical
    <2> QED
      BY <2>2, <2>3, <2>4, <2>5
  <1>5. ASSUME NEW c \in Calls, Release(c)
        PROVE  Inv'
    <2> DEFINE lp == frame[c].lp
               pc == IF frame[c].v = NoVehicle THEN "assign" ELSE "acquire"
    <2>0. /\ frame[c].pc = "release" /\ lp \in Loadpoints /\ vmu[lp] = c
          /\ tracked' = IF vehicle[lp] = NoVehicle THEN tracked
                        ELSE [tracked EXCEPT ![vehicle[lp]] = NoLoadpoint]
          /\ frame' = [frame EXCEPT ![c].pc = pc]
          /\ UNCHANGED <<vehicles, unseen, vehicle, vmu, vehicleDetect>>
      BY <1>5 DEF Release, Goto, TypeOK, LockInv, Critical
    <2>1. /\ frame'[c] = [frame[c] EXCEPT !.pc = pc]
          /\ \A d \in Calls : d # c => frame'[d] = frame[d]
      BY <2>0 DEF TypeOK
    <2>2. TypeOK'
      <3>1. tracked' \in [Vehicles -> OptLoadpoint]
        BY <2>0 DEF TypeOK, OptLoadpoint
      <3>2. frame' \in [Calls -> Frame]
        BY <2>0 DEF TypeOK, Frame, Places
      <3>3. \A d \in Calls : frame'[d].pc # "idle" => frame'[d].lp \in Loadpoints
        BY <2>0, <2>1 DEF TypeOK, Frame
      <3> QED
        BY <2>0, <3>1, <3>2, <3>3 DEF TypeOK
    <2>3. LockInv'
      BY <2>0, <2>1 DEF LockInv, Critical, TypeOK, Frame
    <2>4. EvictInv'
      BY <2>0, <2>1 DEF EvictInv, TypeOK, Frame
    <2>5. TrackedInv'
      <3> SUFFICES ASSUME NEW w \in Vehicles, tracked'[w] # NoLoadpoint
                   PROVE  LET o == tracked'[w] IN
                          IF vmu'[o] = NoCall \/ frame'[vmu'[o]].pc = "release"
                          THEN vehicle'[o] = w
                          ELSE frame'[vmu'[o]].pc = "assign" /\ frame'[vmu'[o]].v = w
        BY DEF TrackedInv
      <3>1. tracked'[w] = tracked[w] /\ w # vehicle[lp]
        BY <2>0 DEF TypeOK, OptLoadpoint
      <3>2. tracked[w] # lp
        BY <2>0, <3>1 DEF TrackedInv
      <3>3. tracked[w] \in Loadpoints /\ vmu[tracked[w]] # c
        BY <2>0, <3>1, <3>2 DEF LockInv, TypeOK, OptLoadpoint
      <3>4. vmu[tracked[w]] \in Calls \cup {NoCall}
        BY <3>3 DEF TypeOK
      <3> QED
        BY <2>0, <2>1, <3>1, <3>3, <3>4 DEF TrackedInv
    <2> QED
      BY <2>2, <2>3, <2>4, <2>5
  <1>6. ASSUME NEW c \in Calls, Acquire(c)
        PROVE  Inv'
    <2> DEFINE lp == frame[c].lp
               v  == frame[c].v
               o  == tracked[v]
               e  == Callee(c)
    <2>0. /\ frame[c].pc = "acquire" /\ lp \in Loadpoints /\ vmu[lp] = c
          /\ v \in Vehicles
          /\ tracked' = [tracked EXCEPT ![v] = lp]
          /\ UNCHANGED <<vehicles, unseen, vehicle, vmu, vehicleDetect>>
      BY <1>6 DEF Acquire, TypeOK, LockInv, Critical, EvictInv, Frame, OptVehicle
    <2>a. PICK p \in Procs : c = <<p, "caller">>
      <3>1. PICK p \in Procs, l \in {"caller", "evict"} : c = <<p, l>>
        BY <1>6
      <3>2. l # "evict"
        BY <2>0, <3>1 DEF EvictInv
      <3> QED
        BY <3>1, <3>2
    <2>b. e = <<p, "evict">>
      BY <2>a DEF Callee
    <2>1. /\ e \in Calls /\ e # c
          /\ frame[e].pc = "idle"
      BY <2>0, <2>a, <2>b DEF EvictInv, TypeOK
    <2>2. /\ frame' \in [Calls -> Frame]
          /\ frame'[c] = [frame[c] EXCEPT !.pc = "assign"]
          /\ \A d \in Calls : d \notin {c, e} => frame'[d] = frame[d]
          /\ \/ frame'[e] = frame[e]
             \/ frame'[e].pc = "lock" /\ frame'[e].lp \in Loadpoints
                /\ frame'[e].v = NoVehicle
      <3>1. o \in OptLoadpoint /\ frame[c] \in Frame
        BY <2>0 DEF TypeOK
      <3>2. [frame[c] EXCEPT !.pc = "assign"] \in Frame
        BY <3>1 DEF Frame, Places
      <3>3. CASE o \in {NoLoadpoint, lp}
        <4>1. frame' = [frame EXCEPT ![c].pc = "assign"]
          BY <1>6, <3>3 DEF Acquire
        <4> QED
          BY <4>1, <3>2, <2>1 DEF TypeOK
      <3>4. CASE o \notin {NoLoadpoint, lp}
        <4>1. frame' = [frame EXCEPT ![c].pc = "assign",
                                     ![e] = Entered(o, NoVehicle, "stop")]
          BY <1>6, <3>4 DEF Acquire
        <4>2. Entered(o, NoVehicle, "stop") \in Frame
          BY <3>1 DEF Entered, Frame, Places, Thens, OptVehicle
        <4>3. o \in Loadpoints
          BY <3>1, <3>4 DEF OptLoadpoint
        <4> QED
          BY <4>1, <4>2, <4>3, <3>2, <2>1 DEF TypeOK, Entered
      <3> QED
        BY <3>3, <3>4
    <2>c. /\ frame'[c].pc = "assign" /\ frame'[c].lp = lp /\ frame'[c].v = v
          /\ frame'[e].v = NoVehicle
          /\ frame'[e].pc # "idle" => frame'[e].lp \in Loadpoints
      <3>1. frame[c] \in Frame
        BY DEF TypeOK
      <3>2. /\ frame'[c].pc = "assign" /\ frame'[c].lp = lp /\ frame'[c].v = v
        BY <2>2, <3>1 DEF Frame
      <3>3. frame[e].v = NoVehicle
        BY <2>b DEF EvictInv
      <3> QED
        BY <2>1, <2>2, <3>2, <3>3
    <2>3. TypeOK'
      <3>1. tracked' \in [Vehicles -> OptLoadpoint]
        BY <2>0 DEF TypeOK, OptLoadpoint
      <3>2. \A d \in Calls : frame'[d].pc # "idle" => frame'[d].lp \in Loadpoints
        BY <2>0, <2>2, <2>c DEF TypeOK
      <3> QED
        BY <2>0, <2>2, <3>1, <3>2 DEF TypeOK
    <2>4. LockInv'
      BY <2>0, <2>1, <2>2 DEF LockInv, Critical, TypeOK, Frame
    <2>5. EvictInv'
      <3>1. ASSUME NEW d \in Calls, frame'[d].pc = "acquire"
            PROVE  frame'[d].v # NoVehicle
        BY <2>1, <2>2, <3>1 DEF EvictInv, TypeOK, Frame
      <3>2. ASSUME NEW q \in Procs
            PROVE  /\ frame'[<<q, "evict">>].v = NoVehicle
                   /\ frame'[<<q, "evict">>].pc # "idle" =>
                         frame'[<<q, "caller">>].pc \in {"idle", "assign"}
        <4>1. CASE q = p
          BY <2>a, <2>b, <2>c, <4>1
        <4>2. CASE q # p
          <5>1. /\ <<q, "evict">> \in Calls /\ <<q, "evict">> \notin {c, e}
                /\ <<q, "caller">> \in Calls /\ <<q, "caller">> \notin {c, e}
            BY <4>2, <2>a, <2>b
          <5> QED
            BY <5>1, <2>2 DEF EvictInv
        <4> QED
          BY <4>1, <4>2
      <3> QED
        BY <3>1, <3>2 DEF EvictInv
    <2>6. TrackedInv'
      <3> SUFFICES ASSUME NEW w \in Vehicles, tracked'[w] # NoLoadpoint
                   PROVE  LET a == tracked'[w] IN
                          IF vmu'[a] = NoCall \/ frame'[vmu'[a]].pc = "release"
                          THEN vehicle'[a] = w
                          ELSE frame'[vmu'[a]].pc = "assign" /\ frame'[vmu'[a]].v = w
        BY DEF TrackedInv
      <3>1. CASE w = v
        BY <2>0, <2>2, <3>1 DEF TypeOK, Frame
      <3>2. CASE w # v
        <4>1. tracked'[w] = tracked[w]
          BY <2>0, <3>2 DEF TypeOK
        <4>2. tracked[w] # lp
          BY <2>0, <4>1 DEF TrackedInv
        <4>3. tracked[w] \in Loadpoints /\ vmu[tracked[w]] # c
          BY <2>0, <4>1, <4>2 DEF LockInv, TypeOK, OptLoadpoint
        <4>4. vmu[tracked[w]] \in Calls \cup {NoCall} /\ vmu[tracked[w]] # e
          BY <4>3, <2>1 DEF TypeOK, LockInv, Critical
        <4> QED
          BY <2>0, <2>2, <4>1, <4>3, <4>4 DEF TrackedInv
      <3> QED
        BY <3>1, <3>2
    <2> QED
      BY <2>3, <2>4, <2>5, <2>6
  <1>7. ASSUME NEW c \in Calls, Assign(c)
        PROVE  Inv'
    <2> DEFINE lp == frame[c].lp
               v  == frame[c].v
    <2>0. /\ frame[c].pc = "assign" /\ lp \in Loadpoints /\ vmu[lp] = c
          /\ v \in OptVehicle
          /\ c[2] = "caller" => frame[Callee(c)].pc = "idle"
          /\ vehicle' = [vehicle EXCEPT ![lp] = v]
          /\ vmu' = [vmu EXCEPT ![lp] = NoCall]
          /\ UNCHANGED <<vehicles, unseen, tracked, vehicleDetect>>
      BY <1>7 DEF Assign, TypeOK, LockInv, Critical, Frame
    <2>1. /\ frame' \in [Calls -> Frame]
          /\ \/ frame'[c] = IdleFrame
             \/ frame'[c] = [frame[c] EXCEPT !.pc = "detect"]
          /\ \A d \in Calls : d # c => frame'[d] = frame[d]
      BY <1>7 DEF Assign, Goto, Return, TypeOK, IdleFrame, Frame, Places, Thens,
                  OptLoadpoint, OptVehicle
    <2>2. /\ frame'[c].pc \in {"idle", "detect"}
          /\ frame'[c].pc # "idle" => frame'[c].lp = lp
          /\ frame'[c].v \in {v, NoVehicle}
      BY <2>1 DEF IdleFrame, TypeOK, Frame
    <2>3. TypeOK'
      BY <2>0, <2>1, <2>2 DEF TypeOK
    <2>4. LockInv'
      BY <2>0, <2>1, <2>2 DEF LockInv, Critical, TypeOK
    <2>5. EvictInv'
      <3>1. ASSUME NEW q \in Procs
            PROVE  /\ frame'[<<q, "evict">>].v = NoVehicle
                   /\ frame'[<<q, "evict">>].pc # "idle" =>
                         frame'[<<q, "caller">>].pc \in {"idle", "assign"}
        BY <2>0, <2>1, <2>2 DEF EvictInv, Callee
      <3> QED
        BY <3>1, <2>1, <2>2 DEF EvictInv
    <2>6. TrackedInv'
      <3> SUFFICES ASSUME NEW w \in Vehicles, tracked[w] # NoLoadpoint
                   PROVE  LET a == tracked[w] IN
                          IF vmu'[a] = NoCall \/ frame'[vmu'[a]].pc = "release"
                          THEN vehicle'[a] = w
                          ELSE frame'[vmu'[a]].pc = "assign" /\ frame'[vmu'[a]].v = w
        BY <2>0 DEF TrackedInv
      <3>1. tracked[w] \in Loadpoints /\ vmu[tracked[w]] \in Calls \cup {NoCall}
        BY DEF TypeOK, OptLoadpoint
      <3>2. CASE tracked[w] = lp
        BY <2>0, <3>2 DEF TrackedInv, TypeOK
      <3>3. CASE tracked[w] # lp
        BY <2>0, <2>1, <3>1, <3>3 DEF TrackedInv, TypeOK, LockInv
      <3> QED
        BY <3>2, <3>3
    <2> QED
      BY <2>3, <2>4, <2>5, <2>6
  <1>8. ASSUME NEW c \in Calls, Detection(c)
        PROVE  Inv'
    <2>0. /\ frame[c].pc = "detect" /\ frame[c].lp \in Loadpoints
          /\ vehicleDetect' \in [Loadpoints -> BOOLEAN]
          /\ frame' = [frame EXCEPT ![c] = IdleFrame]
          /\ UNCHANGED <<vehicles, unseen, tracked, vehicle, vmu>>
      BY <1>8 DEF Detection, Return, TypeOK
    <2>1. /\ frame'[c] = IdleFrame
          /\ \A d \in Calls : d # c => frame'[d] = frame[d]
      BY <2>0 DEF TypeOK
    <2>2. TypeOK'
      BY <2>0, <2>1 DEF TypeOK, IdleFrame, Frame, Places, Thens, OptLoadpoint, OptVehicle
    <2>3. LockInv'
      BY <2>0, <2>1 DEF LockInv, Critical, IdleFrame
    <2>4. EvictInv'
      BY <2>0, <2>1 DEF EvictInv, IdleFrame
    <2>5. TrackedInv'
      BY <2>0, <2>1 DEF TrackedInv, TypeOK, OptLoadpoint, LockInv, Critical
    <2> QED
      BY <2>2, <2>3, <2>4, <2>5
  <1>9. CASE UNCHANGED vars
    BY <1>9 DEF vars, TypeOK, LockInv, Critical, EvictInv, TrackedInv
  <1>10. ASSUME NEW p \in Procs, Start(p)
         PROVE  Inv'
    <2>1. ASSUME NEW lp \in Loadpoints, StartVehicleDetection(p, lp)
          PROVE  Inv'
      BY <2>1, <1>1 DEF StartVehicleDetection, Enter, TypeOK, Thens, OptVehicle
    <2>2. ASSUME NEW lp \in Loadpoints, SwitchDetection(p, lp)
          PROVE  Inv'
      BY <2>2, <1>2 DEF SwitchDetection, TypeOK
    <2>3. ASSUME NEW lp \in Loadpoints, NEW v \in OptVehicle, SetVehicle(p, lp, v)
          PROVE  Inv'
      BY <2>3, <1>1 DEF SetVehicle, Enter, TypeOK, Thens
    <2>4. ASSUME NEW lp \in Loadpoints, NEW v \in OptVehicle, SetActiveVehicle(p, lp, v)
          PROVE  Inv'
      <3>1. vehicleDetect' \in [Loadpoints -> BOOLEAN]
        BY <2>4 DEF SetActiveVehicle, TypeOK
      <3> QED
        BY <2>4, <3>1, <1>1 DEF SetActiveVehicle, Thens
    <2>5. ASSUME NEW v \in Vehicles, Add(p, v)
          PROVE  Inv'
      BY <2>5, <1>2 DEF Add, TypeOK
    <2>6. ASSUME NEW v \in Vehicles, Delete(p, v)
          PROVE  Inv'
      BY <2>6, <1>3
    <2> QED
      BY <1>10, <2>1, <2>2, <2>3, <2>4, <2>5, <2>6 DEF Start
  <1> QED
    BY <1>4, <1>5, <1>6, <1>7, <1>8, <1>9, <1>10 DEF Next, Step

THEOREM Invariance == Spec => []Inv
  BY InitInv, NextInv, PTL DEF Spec

\* Type correctness.
THEOREM TypeCorrect == Spec => []TypeOK
  <1>1. Inv => TypeOK
    BY DEF Inv
  <1> QED
    BY <1>1, Invariance, PTL

\* The coordinator's table never names a loadpoint that does not have the
\* vehicle or is not just assigning it, however the site's loop, the user and
\* the configuration interleave.
THEOREM TrackedSound == Spec => []TrackedIsHeld
  <1>1. Inv => TrackedIsHeld
    <2> SUFFICES ASSUME Inv, NEW v \in Vehicles, tracked[v] # NoLoadpoint,
                        vehicle[tracked[v]] # v
                 PROVE  \E c \in Calls : /\ frame[c].pc = "assign"
                                         /\ frame[c].lp = tracked[v]
                                         /\ frame[c].v = v
      BY DEF TrackedIsHeld
    <2>1. tracked[v] \in Loadpoints
      BY DEF Inv, TypeOK, OptLoadpoint
    <2>2. PICK c \in Calls : vmu[tracked[v]] = c
      BY <2>1 DEF Inv, TypeOK, TrackedInv
    <2>3. frame[c].pc = "assign" /\ frame[c].v = v
      BY <2>1, <2>2, DistinctNils DEF Inv, TrackedInv
    <2>4. frame[c].lp = tracked[v]
      BY <2>1, <2>2 DEF Inv, LockInv
    <2> QED
      BY <2>3, <2>4
  <1> QED
    BY <1>1, Invariance, PTL

-----------------------------------------------------------------------------
(***************************************************************************)
(* Deadlock freedom.  X is evicting Y while X's setActiveVehicle waits for *)
(* Y's SetVehicle(nil).  The loadpoints that can be reached this way from  *)
(* the owner of a vehicle all have that vehicle, not yet released, or are  *)
(* taking it.  A loadpoint about to acquire the vehicle has released its   *)
(* own, so it is not among them, and its eviction closes no cycle.         *)
(***************************************************************************)
Evicting(X, Y) ==
    \E p \in Procs : /\ vmu[X] = <<p, "caller">>
                     /\ frame[<<p, "caller">>].pc = "assign"
                     /\ frame[<<p, "evict">>].pc # "idle"
                     /\ frame[<<p, "evict">>].lp = Y

Keeps(X, v) == /\ vehicle[X] = v
               /\ vmu[X] = NoCall \/ frame[vmu[X]].pc = "release"

Takes(X, v) == /\ vmu[X] # NoCall
               /\ frame[vmu[X]].pc = "assign"
               /\ frame[vmu[X]].v = v

Chain(v, S) ==
    /\ tracked[v] \in S
    /\ \A X \in S : Keeps(X, v) \/ Takes(X, v)
    /\ \A X \in S, Y \in Loadpoints : Evicting(X, Y) => Y \in S

ChainInv ==
    \A v \in Vehicles : tracked[v] # NoLoadpoint =>
        \E S \in SUBSET Loadpoints : Chain(v, S)

NoEvictCycle ==
    \A S \in SUBSET Loadpoints :
        S # {} => \E X \in S : \A Y \in S : ~Evicting(X, Y)

DInv == Inv /\ ChainInv /\ NoEvictCycle

\* No eviction begins in this step.
NoNewEviction == \A X, Y \in Loadpoints : Evicting(X, Y)' => Evicting(X, Y)

\* Vehicles that stay owned keep their owner and everyone who has them.
ChainsStand ==
    \A v \in Vehicles : tracked'[v] # NoLoadpoint =>
        /\ tracked'[v] = tracked[v]
        /\ \A X \in Loadpoints :
              Keeps(X, v) \/ Takes(X, v) => (Keeps(X, v) \/ Takes(X, v))'

LEMMA NoNewEdges ==
    ASSUME ChainInv, NoEvictCycle, NoNewEviction, ChainsStand
    PROVE  ChainInv' /\ NoEvictCycle'
  <1>1. ChainInv'
    <2> SUFFICES ASSUME NEW v \in Vehicles, tracked'[v] # NoLoadpoint
                 PROVE  \E S \in SUBSET Loadpoints : Chain(v, S)'
      BY DEF ChainInv
    <2>1. tracked'[v] = tracked[v]
      BY DEF ChainsStand
    <2>2. PICK S \in SUBSET Loadpoints : Chain(v, S)
      BY <2>1 DEF ChainInv
    <2>3. \A X \in S : (Keeps(X, v) \/ Takes(X, v))'
      BY <2>2 DEF Chain, ChainsStand
    <2>4. \A X \in S, Y \in Loadpoints : Evicting(X, Y)' => Y \in S
      BY <2>2 DEF Chain, NoNewEviction
    <2>5. Chain(v, S)'
      BY <2>1, <2>2, <2>3, <2>4 DEF Chain
    <2> QED
      BY <2>5
  <1>2. NoEvictCycle'
    BY DEF NoEvictCycle, NoNewEviction
  <1> QED
    BY <1>1, <1>2

\* Acquire(c) lets only its own loadpoint evict, and only the old owner.
LEMMA AcquireEdge ==
    ASSUME NEW c \in Calls, Inv, ChainInv, NoEvictCycle, Acquire(c)
    PROVE  ChainInv' /\ NoEvictCycle'
  <1> DEFINE e == Callee(c)
  <1> USE DistinctNils DEF Calls
  <1>0. PICK lp \in Loadpoints, w \in Vehicles, o \in OptLoadpoint :
            /\ frame[c].lp = lp /\ frame[c].v = w /\ tracked[w] = o
            /\ frame[c].pc = "acquire" /\ vmu[lp] = c
            /\ tracked' = [tracked EXCEPT ![w] = lp]
            /\ UNCHANGED <<vehicle, vmu>>
    <2>1. /\ frame[c].lp \in Loadpoints /\ frame[c].v \in Vehicles
          /\ frame[c].pc = "acquire" /\ vmu[frame[c].lp] = c
      BY DEF Acquire, Inv, TypeOK, LockInv, Critical, EvictInv, Frame, OptVehicle
    <2>2. tracked[frame[c].v] \in OptLoadpoint
      BY <2>1 DEF Inv, TypeOK
    <2> QED
      BY <2>1, <2>2 DEF Acquire
  <1>1. PICK p \in Procs : c = <<p, "caller">>
    <2>1. PICK p \in Procs, l \in {"caller", "evict"} : c = <<p, l>>
      OBVIOUS
    <2>2. l # "evict"
      BY <1>0, <2>1 DEF Inv, EvictInv
    <2> QED
      BY <2>1, <2>2
  <1>2. e = <<p, "evict">> /\ frame[e].pc = "idle" /\ e # c
    BY <1>0, <1>1 DEF Callee, Inv, EvictInv
  <1>3. /\ frame'[c].pc = "assign" /\ frame'[c].v = w
        /\ \A d \in Calls : d \notin {c, e} => frame'[d] = frame[d]
        /\ IF o \in {NoLoadpoint, lp} THEN frame'[e] = frame[e] ELSE frame'[e].lp = o
    <2>1. CASE o \in {NoLoadpoint, lp}
      <3>1. frame' = [frame EXCEPT ![c].pc = "assign"]
        BY <1>0, <2>1 DEF Acquire
      <3> QED
        BY <1>0, <3>1, <2>1, <1>2 DEF Inv, TypeOK, Frame
    <2>2. CASE o \notin {NoLoadpoint, lp}
      <3>1. frame' = [frame EXCEPT ![c].pc = "assign",
                                   ![e] = Entered(o, NoVehicle, "stop")]
        BY <1>0, <2>2 DEF Acquire
      <3>2. frame \in [Calls -> Frame] /\ e \in Calls
        BY <1>1, <1>2 DEF Inv, TypeOK
      <3>3. /\ frame'[c] = [frame[c] EXCEPT !.pc = "assign"]
            /\ frame'[e] = Entered(o, NoVehicle, "stop")
            /\ \A d \in Calls : d \notin {c, e} => frame'[d] = frame[d]
        BY <3>1, <3>2, <1>2
      <3>4. frame'[c].pc = "assign" /\ frame'[c].v = w
        BY <1>0, <3>2, <3>3 DEF Frame
      <3> QED
        BY <2>2, <3>3, <3>4 DEF Entered
    <2> QED
      BY <2>1, <2>2
  <1>4. \A X \in Loadpoints : X # lp =>
            /\ vmu[X] # c /\ vmu[X] # e
            /\ vmu[X] \in Calls \cup {NoCall}
    BY <1>0, <1>1, <1>2 DEF Inv, TypeOK, LockInv, Critical
  <1>5. \A X, Y \in Loadpoints : X # lp /\ Evicting(X, Y)' => Evicting(X, Y)
    <2> SUFFICES ASSUME NEW X \in Loadpoints, NEW Y \in Loadpoints,
                        X # lp, Evicting(X, Y)'
                 PROVE  Evicting(X, Y)
      OBVIOUS
    <2>1. PICK q \in Procs : /\ vmu'[X] = <<q, "caller">>
                             /\ frame'[<<q, "caller">>].pc = "assign"
                             /\ frame'[<<q, "evict">>].pc # "idle"
                             /\ frame'[<<q, "evict">>].lp = Y
      BY DEF Evicting
    <2>2. q # p
      BY <1>0, <1>1, <1>4, <2>1
    <2>3. /\ frame'[<<q, "caller">>] = frame[<<q, "caller">>]
          /\ frame'[<<q, "evict">>] = frame[<<q, "evict">>]
      BY <1>1, <1>2, <1>3, <2>2
    <2> QED
      BY <1>0, <2>1, <2>3 DEF Evicting
  <1>6. \A Y \in Loadpoints : Evicting(lp, Y)' => Y = o /\ o \notin {NoLoadpoint, lp}
    <2> SUFFICES ASSUME NEW Y \in Loadpoints, Evicting(lp, Y)'
                 PROVE  Y = o /\ o \notin {NoLoadpoint, lp}
      OBVIOUS
    <2>1. PICK q \in Procs : /\ vmu'[lp] = <<q, "caller">>
                             /\ frame'[<<q, "evict">>].pc # "idle"
                             /\ frame'[<<q, "evict">>].lp = Y
      BY DEF Evicting
    <2>2. q = p
      BY <1>0, <1>1, <2>1
    <2> QED
      BY <1>2, <1>3, <2>1, <2>2
  <1>7. \A X \in Loadpoints, v \in Vehicles : X # lp =>
            (Keeps(X, v) \/ Takes(X, v) => (Keeps(X, v) \/ Takes(X, v))')
    BY <1>0, <1>3, <1>4 DEF Keeps, Takes
  <1>8. \A v \in Vehicles : ~Keeps(lp, v) /\ ~Takes(lp, v)
    BY <1>0 DEF Keeps, Takes
  <1>9. ASSUME NEW v \in Vehicles, NEW S \in SUBSET Loadpoints, Chain(v, S)
        PROVE  /\ lp \notin S
               /\ \A X \in S : (Keeps(X, v) \/ Takes(X, v))'
               /\ \A X \in S, Y \in Loadpoints : Evicting(X, Y)' => Y \in S
    <2>1. lp \notin S
      BY <1>8, <1>9 DEF Chain
    <2> QED
      BY <1>5, <1>7, <1>9, <2>1 DEF Chain
  <1>10. ChainInv'
    <2> SUFFICES ASSUME NEW v \in Vehicles, tracked'[v] # NoLoadpoint
                 PROVE  \E S \in SUBSET Loadpoints : Chain(v, S)'
      BY DEF ChainInv
    <2>1. CASE v # w
      <3>1. tracked'[v] = tracked[v]
        BY <1>0, <2>1 DEF Inv, TypeOK
      <3>2. PICK S \in SUBSET Loadpoints : Chain(v, S)
        BY <3>1 DEF ChainInv
      <3>3. Chain(v, S)'
        BY <1>9, <3>1, <3>2 DEF Chain
      <3> QED
        BY <3>3
    <2>2. CASE v = w
      <3>1. tracked'[v] = lp
        BY <1>0, <2>2 DEF Inv, TypeOK
      <3>2. Takes(lp, v)'
        BY <1>0, <1>1, <1>3, <2>2 DEF Takes
      <3>3. CASE o \in {NoLoadpoint, lp}
        <4>1. Chain(v, {lp})'
          BY <1>0, <1>6, <3>1, <3>2, <3>3 DEF Chain
        <4> QED
          BY <4>1, <1>0
      <3>4. CASE o \notin {NoLoadpoint, lp}
        <4>1. PICK S \in SUBSET Loadpoints : Chain(w, S)
          BY <1>0, <3>4 DEF ChainInv
        <4>2. o \in S
          BY <1>0, <4>1 DEF Chain
        <4>3. Chain(v, S \cup {lp})'
          BY <1>0, <1>6, <1>9, <2>2, <3>1, <3>2, <4>1, <4>2 DEF Chain
        <4> QED
          BY <4>3, <1>0
      <3> QED
        BY <3>3, <3>4
    <2> QED
      BY <2>1, <2>2
  <1>11. NoEvictCycle'
    <2> SUFFICES ASSUME NEW T \in SUBSET Loadpoints, T # {},
                        \A X \in T : \E Y \in T : Evicting(X, Y)'
                 PROVE  FALSE
      BY DEF NoEvictCycle
    <2>1. CASE lp \notin T
      BY <1>5, <2>1 DEF NoEvictCycle
    <2>2. CASE lp \in T
      <3>1. o \in T /\ o \notin {NoLoadpoint, lp}
        BY <1>6, <2>2
      <3>2. PICK S \in SUBSET Loadpoints : Chain(w, S)
        BY <1>0, <3>1 DEF ChainInv
      <3>3. lp \notin S
        BY <1>0, <1>9, <3>2
      <3>4. o \in S \cap T /\ S \cap T \in SUBSET Loadpoints
        BY <1>0, <3>1, <3>2 DEF Chain
      <3>5. \A X \in S \cap T : \E Y \in S \cap T : Evicting(X, Y)
        <4> SUFFICES ASSUME NEW X \in S \cap T
                     PROVE  \E Y \in S \cap T : Evicting(X, Y)
          OBVIOUS
        <4>1. PICK Y \in T : Evicting(X, Y)'
          OBVIOUS
        <4>2. Evicting(X, Y)
          BY <1>5, <3>3, <4>1
        <4> QED
          BY <3>2, <4>1, <4>2 DEF Chain
      <3> QED
        BY <3>4, <3>5 DEF NoEvictCycle
    <2> QED
      BY <2>1, <2>2
  <1> QED
    BY <1>10, <1>11

LEMMA NextDInv == DInv /\ [Next]_vars => DInv'
  <1> SUFFICES ASSUME DInv, [Next]_vars PROVE DInv'
    OBVIOUS
  <1> USE DistinctNils DEF Calls
  <1>1. Inv'
    BY NextInv DEF DInv
  <1>2. SUFFICES ChainInv' /\ NoEvictCycle'
    BY <1>1 DEF DInv
  <1>3. ASSUME NEW p \in Procs, Start(p)
        PROVE  NoNewEviction /\ ChainsStand
    <2>1. /\ frame[<<p, "caller">>].pc = "idle" /\ frame[<<p, "evict">>].pc = "idle"
          /\ UNCHANGED <<vehicle, vmu>>
      BY <1>3 DEF Start, StartVehicleDetection, SwitchDetection, SetVehicle,
                  SetActiveVehicle, Enter, Add, Delete, Idle
    <2>2. \A v \in Vehicles : tracked'[v] \in {tracked[v], NoLoadpoint}
      BY <1>3 DEF Start, StartVehicleDetection, SwitchDetection, SetVehicle,
                  SetActiveVehicle, Enter, Add, Delete, DInv, Inv, TypeOK
    <2>3. /\ \A d \in Calls : d \notin {<<p, "caller">>, <<p, "evict">>} =>
                 frame'[d] = frame[d]
          /\ frame'[<<p, "caller">>].pc # "assign"
      <3>1. \/ frame' = frame
            \/ \E l \in {"caller", "evict"}, lp \in OptLoadpoint, v \in OptVehicle,
                  then \in Thens :
                  frame' = [frame EXCEPT ![<<p, l>>] = Entered(lp, v, then)]
        <4>1. CASE \E v \in Vehicles : Add(p, v) \/ Delete(p, v)
          BY <4>1 DEF Add, Delete, DInv, Inv, TypeOK, OptVehicle, Thens
        <4>2. CASE \E lp \in Loadpoints :
                      \/ StartVehicleDetection(p, lp) \/ SwitchDetection(p, lp)
                      \/ \E v \in OptVehicle : SetVehicle(p, lp, v) \/ SetActiveVehicle(p, lp, v)
          BY <4>2 DEF StartVehicleDetection, SwitchDetection, SetVehicle,
                      SetActiveVehicle, Enter, OptLoadpoint, OptVehicle, Thens
        <4> QED
          BY <1>3, <4>1, <4>2 DEF Start
      <3>2. frame \in [Calls -> Frame]
        BY DEF DInv, Inv, TypeOK
      <3>3. CASE frame' = frame
        BY <2>1, <3>3
      <3>4. ASSUME NEW l \in {"caller", "evict"}, NEW lp, NEW v, NEW then,
                   frame' = [frame EXCEPT ![<<p, l>>] = Entered(lp, v, then)]
            PROVE  /\ \A d \in Calls : d \notin {<<p, "caller">>, <<p, "evict">>} =>
                          frame'[d] = frame[d]
                   /\ frame'[<<p, "caller">>].pc # "assign"
        BY <2>1, <3>2, <3>4 DEF Entered
      <3> QED
        BY <3>1, <3>3, <3>4
    <2>4. NoNewEviction
      BY <2>1, <2>3 DEF NoNewEviction, Evicting
    <2>5. \A X \in Loadpoints : /\ vmu[X] \notin {<<p, "caller">>, <<p, "evict">>}
                                /\ vmu[X] \in Calls \cup {NoCall}
      BY <2>1 DEF DInv, Inv, LockInv, Critical, TypeOK
    <2>6. ChainsStand
      BY <2>1, <2>2, <2>3, <2>5 DEF ChainsStand, Keeps, Takes
    <2> QED
      BY <2>4, <2>6
  <1>4. ASSUME NEW c \in Calls, Lock(c)
        PROVE  NoNewEviction /\ ChainsStand
    <2>0. PICK lp \in Loadpoints : 
             /\ frame[c].lp = lp /\ frame[c].pc = "lock" /\ vmu[lp] = NoCall
             /\ vmu' = [vmu EXCEPT ![lp] = c]
             /\ UNCHANGED <<tracked, vehicle>>
      BY <1>4 DEF Lock, DInv, Inv, TypeOK
    <2>1. /\ frame'[c].pc = "release" /\ frame'[c].lp = lp
          /\ \A d \in Calls : d # c => frame'[d] = frame[d]
      BY <1>4, <2>0 DEF Lock, Goto, DInv, Inv, TypeOK, Frame
    <2>2. vmu'[lp] = c /\ \A X \in Loadpoints : X # lp => vmu'[X] = vmu[X]
      BY <2>0 DEF DInv, Inv, TypeOK
    <2>3. \A X \in Loadpoints : vmu[X] # c /\ vmu[X] \in Calls \cup {NoCall}
      BY <2>0 DEF DInv, Inv, LockInv, Critical, TypeOK
    <2>4. NoNewEviction
      BY <2>0, <2>1, <2>2 DEF NoNewEviction, Evicting
    <2>5. ChainsStand
      BY <2>0, <2>1, <2>2, <2>3 DEF ChainsStand, Keeps, Takes
    <2> QED
      BY <2>4, <2>5
  <1>5. ASSUME NEW c \in Calls, Release(c)
        PROVE  NoNewEviction /\ ChainsStand
    <2>0. PICK lp \in Loadpoints :
             /\ frame[c].lp = lp /\ frame[c].pc = "release" /\ vmu[lp] = c
             /\ tracked' = IF vehicle[lp] = NoVehicle THEN tracked
                           ELSE [tracked EXCEPT ![vehicle[lp]] = NoLoadpoint]
             /\ UNCHANGED <<vehicle, vmu>>
      <3>1. frame[c].lp \in Loadpoints /\ frame[c].pc = "release" /\ vmu[frame[c].lp] = c
        BY <1>5 DEF Release, DInv, Inv, TypeOK, LockInv, Critical
      <3> QED
        BY <1>5, <3>1 DEF Release
    <2>1. /\ frame'[c].pc \in {"assign", "acquire"} /\ frame'[c].lp = lp
          /\ \A d \in Calls : d # c => frame'[d] = frame[d]
      BY <1>5, <2>0 DEF Release, Goto, DInv, Inv, TypeOK, Frame
    <2>2. \A X \in Loadpoints : X # lp => vmu[X] # c /\ vmu[X] \in Calls \cup {NoCall}
      BY <2>0 DEF DInv, Inv, LockInv, TypeOK
    <2>3. NoNewEviction
      <3> SUFFICES ASSUME NEW X \in Loadpoints, NEW Y \in Loadpoints, Evicting(X, Y)'
                   PROVE  Evicting(X, Y)
        BY DEF NoNewEviction
      <3>1. PICK q \in Procs : /\ vmu'[X] = <<q, "caller">>
                               /\ frame'[<<q, "caller">>].pc = "assign"
                               /\ frame'[<<q, "evict">>].pc # "idle"
                               /\ frame'[<<q, "evict">>].lp = Y
        BY DEF Evicting
      <3>2. c # <<q, "caller">>
        BY <2>0, <2>1, <3>1 DEF DInv, Inv, EvictInv
      <3> QED
        BY <2>0, <2>1, <3>1, <3>2 DEF Evicting
    <2>4. ASSUME NEW v \in Vehicles, tracked'[v] # NoLoadpoint
          PROVE  tracked'[v] = tracked[v] /\ v # vehicle[lp]
      BY <2>0, <2>4 DEF DInv, Inv, TypeOK, OptVehicle
    <2>5. ChainsStand
      BY <2>0, <2>1, <2>2, <2>4 DEF ChainsStand, Keeps, Takes
    <2> QED
      BY <2>3, <2>5
  <1>6. ASSUME NEW c \in Calls, Assign(c)
        PROVE  NoNewEviction /\ ChainsStand
    <2>0. PICK lp \in Loadpoints :
             /\ frame[c].lp = lp /\ frame[c].pc = "assign" /\ vmu[lp] = c
             /\ vehicle' = [vehicle EXCEPT ![lp] = frame[c].v]
             /\ vmu' = [vmu EXCEPT ![lp] = NoCall]
             /\ tracked' = tracked
      <3>1. frame[c].lp \in Loadpoints /\ frame[c].pc = "assign" /\ vmu[frame[c].lp] = c
        BY <1>6 DEF Assign, DInv, Inv, TypeOK, LockInv, Critical
      <3> QED
        BY <1>6, <3>1 DEF Assign
    <2>1. /\ frame'[c].pc \in {"idle", "detect"}
          /\ frame'[c].pc # "idle" => frame'[c].lp = lp
          /\ \A d \in Calls : d # c => frame'[d] = frame[d]
      BY <1>6, <2>0 DEF Assign, Goto, Return, IdleFrame, DInv, Inv, TypeOK, Frame
    <2>2. /\ vmu'[lp] = NoCall /\ vehicle'[lp] = frame[c].v
          /\ \A X \in Loadpoints : X # lp => /\ vmu'[X] = vmu[X] /\ vmu[X] # c
                                              /\ vmu[X] \in Calls \cup {NoCall}
                                              /\ vehicle'[X] = vehicle[X]
      BY <2>0 DEF DInv, Inv, LockInv, TypeOK
    <2>3. NoNewEviction
      <3> SUFFICES ASSUME NEW X \in Loadpoints, NEW Y \in Loadpoints, Evicting(X, Y)'
                   PROVE  Evicting(X, Y)
        BY DEF NoNewEviction
      <3>1. PICK q \in Procs : /\ vmu'[X] = <<q, "caller">>
                               /\ frame'[<<q, "caller">>].pc = "assign"
                               /\ frame'[<<q, "evict">>].pc # "idle"
                               /\ frame'[<<q, "evict">>].lp = Y
        BY DEF Evicting
      <3>2. X # lp /\ vmu[X] = <<q, "caller">> /\ c # <<q, "caller">>
        BY <2>1, <2>2, <3>1
      <3> QED
        BY <2>0, <2>1, <3>1, <3>2 DEF Evicting
    <2>4. ChainsStand
      BY <2>0, <2>1, <2>2 DEF ChainsStand, Keeps, Takes
    <2> QED
      BY <2>3, <2>4
  <1>7. ASSUME NEW c \in Calls, Detection(c)
        PROVE  NoNewEviction /\ ChainsStand
    <2>0. frame[c].pc = "detect" /\ UNCHANGED <<tracked, vehicle, vmu>>
      BY <1>7 DEF Detection
    <2>1. /\ frame'[c].pc = "idle"
          /\ \A d \in Calls : d # c => frame'[d] = frame[d]
      BY <1>7 DEF Detection, Return, IdleFrame, DInv, Inv, TypeOK
    <2>2. \A X \in Loadpoints : vmu[X] # c /\ vmu[X] \in Calls \cup {NoCall}
      BY <2>0 DEF DInv, Inv, LockInv, Critical, TypeOK
    <2>3. NoNewEviction
      BY <2>0, <2>1 DEF NoNewEviction, Evicting
    <2>4. ChainsStand
      BY <2>0, <2>1, <2>2 DEF ChainsStand, Keeps, Takes
    <2> QED
      BY <2>3, <2>4
  <1>8. CASE UNCHANGED vars
    <2>1. NoNewEviction /\ ChainsStand
      BY <1>8 DEF vars, NoNewEviction, ChainsStand, Keeps, Takes, Evicting
    <2> QED
      BY <2>1, NoNewEdges DEF DInv
  <1>9. ASSUME NEW c \in Calls, Acquire(c)
        PROVE  ChainInv' /\ NoEvictCycle'
    BY <1>9, AcquireEdge DEF DInv
  <1> QED
    BY <1>3, <1>4, <1>5, <1>6, <1>7, <1>8, <1>9, NoNewEdges DEF Next, Step, DInv

\* Nested SetVehicle calls cannot deadlock, whatever the number of loadpoints
\* and goroutines: no loadpoints wait for each other's vmu in a cycle.
THEOREM DeadlockFree == Spec => []NoLockCycle
  <1>1. Init => DInv
    <2> SUFFICES ASSUME Init PROVE DInv
      OBVIOUS
    <2>1. ChainInv
      BY DEF Init, ChainInv
    <2>2. NoEvictCycle
      <3>1. \A X, Y \in Loadpoints : ~Evicting(X, Y)
        <4>1. \A X \in Loadpoints : vmu[X] \notin Calls
          BY DistinctNils DEF Init
        <4>2. \A p \in Procs : <<p, "caller">> \in Calls
          BY DEF Calls
        <4> QED
          BY <4>1, <4>2 DEF Evicting
      <3> QED
        BY <3>1 DEF NoEvictCycle
    <2> QED
      BY <2>1, <2>2, InitInv DEF DInv
  <1>2. DInv => NoLockCycle
    <2> SUFFICES ASSUME DInv, NEW S \in SUBSET Loadpoints, S # {},
                        \A lp \in S : \E other \in S : WaitsFor(lp, other)
                 PROVE  FALSE
      BY DEF NoLockCycle
    <2>1. ASSUME NEW X \in Loadpoints, NEW Y \in Loadpoints, WaitsFor(X, Y)
          PROVE  Evicting(X, Y)
      <3>1. PICK p \in Procs : /\ vmu[X] = <<p, "caller">>
                               /\ frame[<<p, "evict">>].pc \in {"lock", "detect"}
                               /\ frame[<<p, "evict">>].lp = Y
        BY <2>1 DEF WaitsFor
      <3>2. frame[<<p, "caller">>].pc = "assign"
        BY <3>1 DEF DInv, Inv, EvictInv, LockInv, Critical, Calls
      <3> QED
        BY <3>1, <3>2 DEF Evicting
    <2> QED
      BY <2>1 DEF DInv, NoEvictCycle
  <1> QED
    BY <1>1, <1>2, NextDInv, PTL DEF Spec

-----------------------------------------------------------------------------
(* The loops.                                                              *)

\* The loop assigns no vehicle the configuration has not created yet.
SeenInv ==
    /\ vehicles \cap unseen = {}
    /\ \A lp \in Loadpoints : DefaultVehicle[lp] \notin unseen
    /\ match.v \notin unseen

\* DetectionTypeOK without what Inv says.
DetectionTypes ==
    /\ prepared \subseteq Loadpoints
    /\ connected \in [Loadpoints -> BOOLEAN]
    /\ identifier \in [Loadpoints -> OptVehicle]
    /\ match \in [lp : OptLoadpoint, v : OptVehicle]
    /\ match # NoMatch => match.lp \in Loadpoints

DetectionInv == Inv /\ DetectionTypes /\ SeenInv

\* What the status query finds is among the vehicles it asks, or nothing.
LEMMA IdentifiedIsAvailable ==
    ASSUME NEW available, NEW status, NEW lpStatus
    PROVE  IdentifyVehicleByStatus(available, status, lpStatus) \in available \cup {NoVehicle}
  <1> DEFINE plugged == {v \in available : status[v] \in {"B", "C"}}
             exact == {v \in plugged : status[v] = lpStatus}
             best == IF exact = {} THEN plugged ELSE exact
  <1>1. best \subseteq available
    OBVIOUS
  <1>2. Cardinality(best) = 1 => best # {}
    BY FS_EmptySet
  <1>3. Cardinality(best) = 1 => (CHOOSE v \in best : TRUE) \in available
    BY <1>1, <1>2
  <1> QED
    BY <1>3 DEF IdentifyVehicleByStatus

LEMMA InitDetection == DetectionInit => Init /\ DetectionInv
  <1> SUFFICES ASSUME DetectionInit PROVE Init /\ DetectionInv
    OBVIOUS
  <1>1. Init /\ Inv
    BY InitInv DEF DetectionInit
  <1>2. DetectionTypes
    BY DEF DetectionInit, DetectionTypes, NoMatch, OptVehicle, OptLoadpoint
  <1>3. SeenInv
    BY <1>1, DistinctNils DEF DetectionInit, Init, SeenInv, NoMatch
  <1> QED
    BY <1>1, <1>2, <1>3 DEF DetectionInv

\* A step of the loop, of the user or of the configuration is a step of the
\* coordinator's users, or changes nothing of the coordinator.
LEMMA StepSimulation == DetectionInv /\ [DetectionNext]_detectionVars => [Next]_vars
  <1> SUFFICES ASSUME DetectionInv, [DetectionNext]_detectionVars PROVE Next \/ UNCHANGED vars
    OBVIOUS
  <1> USE DEF DetectionInv
  <1>t. /\ vehicleDetect \in [Loadpoints -> BOOLEAN]
        /\ vehicles \subseteq Vehicles
        /\ Loop \in Procs
        /\ DefaultVehicle \in [Loadpoints -> OptVehicle]
    BY LoopIsProc, Defaults DEF Inv, TypeOK
  <1>s. ASSUME NEW lp \in Loadpoints, NEW v \in OptVehicle, SetActiveVehicle(Loop, lp, v)
        PROVE  Next
    BY <1>s, <1>t DEF Next, Start
  <1>d. ASSUME NEW lp \in Loadpoints, Idle(Loop),
               \/ vehicleDetect' = [vehicleDetect EXCEPT ![lp] = FALSE]
               \/ vehicleDetect' = [vehicleDetect EXCEPT ![lp] = TRUE],
               UNCHANGED <<vehicles, unseen, tracked, vehicle, vmu, frame>>
        PROVE  Next \/ UNCHANGED vars
    <2>1. CASE vehicleDetect' = vehicleDetect
      BY <1>d, <2>1 DEF vars
    <2>2. CASE vehicleDetect' # vehicleDetect
      <3>1. vehicleDetect' = [vehicleDetect EXCEPT ![lp] = ~@]
        BY <1>d, <1>t, <2>2
      <3>2. SwitchDetection(Loop, lp)
        BY <1>d, <3>1 DEF SwitchDetection
      <3> QED
        BY <3>2, <1>t DEF Next, Start
    <2> QED
      BY <2>1, <2>2
  <1>1. ASSUME NEW lp \in Loadpoints, Prepare(lp) PROVE Next \/ UNCHANGED vars
    <2>1. DefaultVehicle[lp] # NoVehicle => SetActiveVehicle(Loop, lp, DefaultVehicle[lp])
      BY <1>1 DEF Prepare, Enter, SetActiveVehicle, SeenInv
    <2> QED
      BY <1>1, <1>s, <1>t, <2>1 DEF Prepare
  <1>2. ASSUME NEW lp \in Loadpoints, VehicleConnect(lp) PROVE Next \/ UNCHANGED vars
    <2>1. CASE DefaultVehicle[lp] # NoVehicle
      <3>1. SetActiveVehicle(Loop, lp, DefaultVehicle[lp])
        BY <1>2, <2>1 DEF VehicleConnect, Enter, SetActiveVehicle, SeenInv
      <3> QED
        BY <1>s, <1>t, <3>1
    <2>2. CASE DefaultVehicle[lp] = NoVehicle
      <3>1. \/ vehicleDetect' = [vehicleDetect EXCEPT ![lp] = FALSE]
            \/ vehicleDetect' = [vehicleDetect EXCEPT ![lp] = TRUE]
        BY <1>2, <1>t, <2>2 DEF VehicleConnect
      <3> QED
        BY <1>2, <1>d, <2>2, <3>1 DEF VehicleConnect, LoopIdle
    <2> QED
      BY <2>1, <2>2
  <1>3. ASSUME NEW lp \in Loadpoints, VehicleDisconnect(lp) PROVE Next \/ UNCHANGED vars
    <2>1. SetActiveVehicle(Loop, lp, DefaultVehicle[lp])
      BY <1>3 DEF VehicleDisconnect, SetActiveVehicle, SeenInv, LoopIdle, Controller
    <2> QED
      BY <1>s, <1>t, <2>1
  <1>4. ASSUME NEW lp \in Loadpoints, NEW v \in Vehicles, IdentifyVehicle(lp, v)
        PROVE  Next \/ UNCHANGED vars
    <2>1. CASE vehicle[lp] = v
      BY <1>4, <1>d, <2>1 DEF IdentifyVehicle, LoopIdle
    <2>2. CASE vehicle[lp] # v
      <3>1. SetActiveVehicle(Loop, lp, v)
        BY <1>4, <2>2 DEF IdentifyVehicle, SetActiveVehicle, SeenInv, LoopIdle, Controller
      <3> QED
        BY <1>s, <3>1 DEF OptVehicle
    <2> QED
      BY <2>1, <2>2
  <1>5. ASSUME NEW lp \in Loadpoints, IdentifyNothing(lp) \/ QueryStatus(lp) PROVE UNCHANGED vars
    BY <1>5 DEF IdentifyNothing, QueryStatus
  <1>6. ASSUME NEW lp \in Loadpoints, DetectionTimeout(lp) PROVE Next \/ UNCHANGED vars
    BY <1>6, <1>d DEF DetectionTimeout, LoopIdle
  <1>7. CASE ApplyMatch
    <2>1. CASE match.v = NoVehicle \/ vehicle[match.lp] # NoVehicle
      BY <1>7, <2>1 DEF ApplyMatch, vars
    <2>2. CASE ~(match.v = NoVehicle \/ vehicle[match.lp] # NoVehicle)
      <3>1. match.lp \in Loadpoints /\ match.v \in OptVehicle
        BY <1>7 DEF ApplyMatch, DetectionTypes
      <3>2. SetActiveVehicle(Loop, match.lp, match.v)
        BY <1>7, <2>2 DEF ApplyMatch, SetActiveVehicle, SeenInv, Controller
      <3> QED
        BY <1>s, <3>1, <3>2
    <2> QED
      BY <2>1, <2>2
  <1>8. ASSUME NEW p \in Procs \ {Loop}, Request(p) PROVE Next
    BY <1>8 DEF Request, Next, Start
  <1>9. ASSUME NEW c \in Calls, CallStep(c) PROVE Next
    BY <1>9 DEF CallStep, Next
  <1>10. CASE UNCHANGED detectionVars
    BY <1>10 DEF detectionVars
  <1> QED
    BY <1>1, <1>2, <1>3, <1>4, <1>5, <1>6, <1>7, <1>8, <1>9, <1>10
       DEF DetectionNext, Handler

\* No step makes a vehicle unseen again.
LEMMA UnseenShrinks ==
    ASSUME Inv, [Next]_vars
    PROVE  unseen' \subseteq unseen /\ (vehicles \cap unseen = {} => vehicles' \cap unseen' = {})
  <1>1. ASSUME NEW p \in Procs, NEW v \in Vehicles, Add(p, v) \/ Delete(p, v)
        PROVE  /\ unseen' \subseteq unseen
               /\ vehicles \cap unseen = {} => vehicles' \cap unseen' = {}
    BY <1>1 DEF Add, Delete
  <1>2. ASSUME NEW p \in Procs, NEW lp \in Loadpoints, NEW v \in OptVehicle,
               \/ StartVehicleDetection(p, lp) \/ SwitchDetection(p, lp)
               \/ SetVehicle(p, lp, v) \/ SetActiveVehicle(p, lp, v)
        PROVE  UNCHANGED <<vehicles, unseen>>
    BY <1>2 DEF StartVehicleDetection, SwitchDetection, SetVehicle, SetActiveVehicle, Enter
  <1>3. ASSUME NEW c \in Calls, Step(c) PROVE UNCHANGED <<vehicles, unseen>>
    BY <1>3 DEF Step, Lock, Release, Acquire, Assign, Detection
  <1>4. CASE UNCHANGED vars
    BY <1>4 DEF vars
  <1> QED
    BY <1>1, <1>2, <1>3, <1>4 DEF Next, Start, OptVehicle

LEMMA NextDetection == DetectionInv /\ [DetectionNext]_detectionVars => DetectionInv'
  <1> SUFFICES ASSUME DetectionInv, [DetectionNext]_detectionVars PROVE DetectionInv'
    OBVIOUS
  <1> USE DEF DetectionInv
  <1>1. [Next]_vars /\ Inv'
    BY StepSimulation, NextInv
  <1> SUFFICES DetectionTypes' /\ SeenInv'
    BY <1>1
  <1>2. /\ unseen' \subseteq unseen
        /\ vehicles \cap unseen = {} => vehicles' \cap unseen' = {}
    BY <1>1, UnseenShrinks
  <1>3. UNCHANGED match => SeenInv'
    BY <1>2 DEF SeenInv
  <1>n. match' = NoMatch => SeenInv'
    BY <1>2, DistinctNils, <1>1 DEF SeenInv, NoMatch, Inv, TypeOK
  <1> USE DEF DetectionTypes, OptVehicle, OptLoadpoint, NoMatch
  <1>4. ASSUME NEW lp \in Loadpoints, Handler(lp) PROVE DetectionTypes' /\ SeenInv'
    <2>1. CASE Prepare(lp)
      BY <2>1, <1>3 DEF Prepare
    <2>2. CASE VehicleConnect(lp) \/ VehicleDisconnect(lp)
      BY <2>2, <1>3 DEF VehicleConnect, VehicleDisconnect
    <2>3. CASE IdentifyNothing(lp) \/ DetectionTimeout(lp)
      BY <2>3, <1>3 DEF IdentifyNothing, DetectionTimeout
    <2>4. ASSUME NEW v \in Vehicles, IdentifyVehicle(lp, v) PROVE DetectionTypes' /\ SeenInv'
      BY <2>4, <1>3 DEF IdentifyVehicle
    <2>5. CASE QueryStatus(lp)
      <3>1. PICK lpStatus \in {"B", "C"}, status \in [Vehicles -> Statuses] :
               match' = [lp |-> lp,
                         v  |-> IdentifyVehicleByStatus(AvailableDetectibleVehicles(lp),
                                                        status, lpStatus)]
        BY <2>5 DEF QueryStatus
      <3>2. AvailableDetectibleVehicles(lp) \subseteq vehicles
        BY DEF AvailableDetectibleVehicles
      <3>3. match'.v \in vehicles \cup {NoVehicle}
        BY <3>1, <3>2, IdentifiedIsAvailable
      <3>4. vehicles \subseteq Vehicles /\ unseen \subseteq Vehicles
        BY DEF Inv, TypeOK
      <3>5. match' \in [lp : OptLoadpoint, v : OptVehicle] /\ match'.lp \in Loadpoints
        BY <3>1, <3>3, <3>4
      <3>6. DetectionTypes'
        BY <2>5, <3>5 DEF QueryStatus
      <3>7. match'.v \notin unseen
        BY <3>3, <3>4, DistinctNils DEF SeenInv
      <3> QED
        BY <3>6, <3>7, <1>2 DEF SeenInv
    <2> QED
      BY <1>4, <2>1, <2>2, <2>3, <2>4, <2>5 DEF Handler
  <1>5. CASE ApplyMatch
    BY <1>5, <1>3, <1>n DEF ApplyMatch
  <1>6. ASSUME NEW p \in Procs \ {Loop}, Request(p) PROVE DetectionTypes' /\ SeenInv'
    BY <1>6, <1>3 DEF Request
  <1>7. ASSUME NEW c \in Calls, CallStep(c) PROVE DetectionTypes' /\ SeenInv'
    BY <1>7, <1>3, <1>n DEF CallStep
  <1>8. CASE UNCHANGED detectionVars
    BY <1>8, <1>3 DEF detectionVars
  <1> QED
    BY <1>1, <1>4, <1>5, <1>6, <1>7, <1>8 DEF DetectionNext

-----------------------------------------------------------------------------
\* Type correctness: in particular a status query that is not over names a
\* loadpoint.
THEOREM DetectionTypeCorrect == DetectionSpec => []DetectionTypeOK
  <1>1. DetectionInv => DetectionTypeOK
    BY DEF DetectionInv, DetectionTypes, DetectionTypeOK, Inv
  <1> QED
    BY <1>1, InitDetection, NextDetection, PTL DEF DetectionSpec

\* The loop's handlers and the requests implement VehicleCoordinator: whatever
\* they do to lp.vehicle and the table goes through setActiveVehicle.
THEOREM Implementation == DetectionSpec => ImplementsCoordinator
  <1>1. DetectionInit => Init
    BY InitDetection
  <1> QED
    BY <1>1, InitDetection, NextDetection, StepSimulation, PTL
       DEF DetectionSpec, ImplementsCoordinator, Spec

\* The coordinator's table never names a loadpoint without the vehicle, however
\* the loop, the user and the configuration interleave.
THEOREM DetectionTracked == DetectionSpec => []TrackedIsHeld
  BY Implementation, TrackedSound, PTL DEF ImplementsCoordinator

\* The loop and the requests never wait for each other's vmu in a cycle.
THEOREM DetectionDeadlockFree == DetectionSpec => []NoLockCycle
  BY Implementation, DeadlockFree, PTL DEF ImplementsCoordinator
=============================================================================
