------------------------- MODULE SchedulerLeaseProofs -------------------------
(***************************************************************************)
(* Mutual exclusion of the scheduler lease, for any set of workers, any    *)
(* lease length and any bounds.  The strengthening says which row a worker *)
(* that could still believe in its leadership must find in the table.      *)
(***************************************************************************)
EXTENDS SchedulerLease, TLAPS

(* Every `now` handed to an acquire was read in the past. *)
SnapshotPast == \A w \in Worker : snapshot[w] <= clock

(* A worker that has not started has no cycle and no heartbeat. *)
OffIsBlank ==
    \A w \in Worker : mode[w] = "off" =>
        heartbeat[w] = Never /\ \A j \in Job : pc[w][j] = "idle"

(* Only its owner writes an unexpired row.  A worker that has not released *)
(* the lease, or that took it again while stopping, and whose heartbeat is *)
(* fresh, owns the row, and the row expires a TTL after that heartbeat.    *)
FreshOwns ==
    \A w \in Worker :
        ((isLeader[w] \/ mode[w] = "up") /\ Fresh(w)) =>
            /\ Owns(w)
            /\ lease.expires = heartbeat[w] + TTL

LeaseInv == TypeOK /\ SnapshotPast /\ OffIsBlank /\ FreshOwns

(***************************************************************************)
(* Type correctness.                                                       *)
(***************************************************************************)

(* Init establishes, and every step keeps, the ranges of all variables. *)
THEOREM TypeCorrect == Spec => []TypeOK
<1> USE TTLAssumption, BoundAssumption
<1>1. Init => TypeOK
  BY DEF Init, TypeOK, Mode, Stage, Quiet
<1>2. TypeOK /\ [Next]_vars => TypeOK'
  <2> SUFFICES ASSUME TypeOK, [Next]_vars PROVE TypeOK'
    OBVIOUS
  <2> USE DEF TypeOK, Mode, Stage, Lease, SetStage
  <2>1. CASE Tick
    BY <2>1 DEF Tick
  <2>2. ASSUME NEW w \in Worker, WorkerStep(w) PROVE TypeOK'
    <3>1. CASE Start(w)
      BY <3>1 DEF Start
    <3>2. CASE StopRequest(w)
      BY <3>2 DEF StopRequest
    <3>3. CASE Release(w)
      BY <3>3 DEF Release
    <3>4. CASE ReleaseFault(w)
      BY <3>4 DEF ReleaseFault
    <3>5. CASE Crash(w)
      BY <3>5 DEF Crash, Quiet
    <3> QED
      BY <2>2, <3>1, <3>2, <3>3, <3>4, <3>5 DEF WorkerStep
  <2>3. ASSUME NEW w \in Worker, NEW j \in Job, JobStep(w, j) PROVE TypeOK'
    <3>1. CASE BeginCycle(w, j)
      BY <3>1 DEF BeginCycle
    <3>2. CASE EnterAcquire(w, j)
      BY <3>2 DEF EnterAcquire
    <3>3. CASE AcquireWin(w, j)
      BY <3>3 DEF AcquireWin
    <3>4. CASE AcquireLose(w, j)
      BY <3>4 DEF AcquireLose
    <3>5. CASE AcquireFault(w, j)
      BY <3>5 DEF AcquireFault
    <3>6. CASE EndCycle(w, j)
      BY <3>6 DEF EndCycle
    <3> QED
      BY <2>3, <3>1, <3>2, <3>3, <3>4, <3>5, <3>6 DEF JobStep
  <2>4. CASE UNCHANGED vars
    BY <2>4 DEF vars
  <2> QED
    BY <2>1, <2>2, <2>3, <2>4 DEF Next
<1> QED
  BY <1>1, <1>2, PTL DEF Spec

(***************************************************************************)
(* The strengthened invariant, one lemma per named part.                   *)
(***************************************************************************)

(* The clock never runs backwards and snapshots are copies of it. *)
LEMMA SnapshotPastStep ==
    ASSUME TypeOK, SnapshotPast, [Next]_vars
    PROVE  SnapshotPast'
<1> USE BoundAssumption DEF TypeOK, SnapshotPast
<1>1. CASE Tick
  BY <1>1 DEF Tick
<1>2. ASSUME NEW w \in Worker, WorkerStep(w) PROVE SnapshotPast'
  BY <1>2 DEF WorkerStep, Start, StopRequest, Release, ReleaseFault, Crash
<1>3. ASSUME NEW w \in Worker, NEW j \in Job, JobStep(w, j)
      PROVE  SnapshotPast'
  BY <1>3 DEF JobStep, BeginCycle, EnterAcquire, AcquireWin, AcquireLose,
              AcquireFault, EndCycle
<1>4. CASE UNCHANGED vars
  BY <1>4 DEF vars
<1> QED
  BY <1>1, <1>2, <1>3, <1>4 DEF Next

(* No cycle runs before start(), so nothing touches an unstarted worker. *)
LEMMA OffIsBlankStep ==
    ASSUME TypeOK, OffIsBlank, [Next]_vars
    PROVE  OffIsBlank'
<1> USE DEF TypeOK, OffIsBlank, Mode, Stage, SetStage
<1>1. CASE Tick
  BY <1>1 DEF Tick
<1>2. ASSUME NEW w \in Worker, WorkerStep(w) PROVE OffIsBlank'
  BY <1>2 DEF WorkerStep, Start, StopRequest, Release, ReleaseFault, Crash
<1>3. ASSUME NEW w \in Worker, NEW j \in Job, JobStep(w, j)
      PROVE  OffIsBlank'
  <2>1. mode' = mode /\ mode[w] # "off"
    BY <1>3 DEF JobStep, BeginCycle, EnterAcquire, AcquireWin, AcquireLose,
                AcquireFault, EndCycle
  <2>2. \A v \in Worker : v # w => heartbeat'[v] = heartbeat[v] /\ pc'[v] = pc[v]
    BY <1>3 DEF JobStep, BeginCycle, EnterAcquire, AcquireWin, AcquireLose,
                AcquireFault, EndCycle
  <2> QED
    BY <2>1, <2>2
<1>4. CASE UNCHANGED vars
  BY <1>4 DEF vars
<1> QED
  BY <1>1, <1>2, <1>3, <1>4 DEF Next

(* The step that could break FreshOwns is another worker's AcquireWin; it  *)
(* needs an expiry in the past of its stale `now`, hence in the real past, *)
(* and then the former owner is no longer fresh.                           *)
LEMMA FreshOwnsStep ==
    ASSUME TypeOK, SnapshotPast, OffIsBlank, FreshOwns, [Next]_vars
    PROVE  FreshOwns'
<1> USE TTLAssumption, BoundAssumption DEF TypeOK
<1> SUFFICES ASSUME NEW v \in Worker,
                    (isLeader[v] \/ mode[v] = "up")',
                    Fresh(v)'
             PROVE  (Owns(v) /\ lease.expires = heartbeat[v] + TTL)'
  BY DEF FreshOwns
<1> DEFINE Kept == /\ Owns(v) 
                   /\ lease.expires = heartbeat[v] + TTL
<1>0. ASSUME isLeader[v] \/ mode[v] = "up", Fresh(v) PROVE Kept
  BY <1>0 DEF FreshOwns
<1>1. CASE Tick
  <2>1. Fresh(v)
    BY <1>1 DEF Tick, Fresh
  <2> QED
    BY <1>0, <1>1, <2>1 DEF Tick, Owns
<1>2. ASSUME NEW w \in Worker, WorkerStep(w)
      PROVE  Kept'
  <2>1. UNCHANGED <<clock, heartbeat>> /\ Fresh(v)
    BY <1>2 DEF WorkerStep, Start, StopRequest, Release, ReleaseFault, Crash, Fresh
  <2>2. isLeader'[v] => isLeader[v]
    BY <1>2, Zenon DEF WorkerStep, Start, StopRequest, Release, ReleaseFault, Crash
  <2>3. CASE Start(w)
    <3>1. v # w
      BY <2>1, <2>3 DEF Start, OffIsBlank, Fresh
    <3> QED
      BY <1>0, <2>1, <2>2, <2>3, <3>1 DEF Start, Owns
  <2>4. CASE StopRequest(w)
    BY <1>0, <2>1, <2>2, <2>4 DEF StopRequest, Owns
  <2>5. CASE Release(w)
    <3>1. v # w
      BY <2>5 DEF Release
    <3>2. Kept
      BY <1>0, <2>1, <2>2, <2>5, <3>1 DEF Release
    <3> QED
      BY <2>1, <2>5, <3>1, <3>2 DEF Release, Owns
  <2>6. CASE ReleaseFault(w)
    BY <1>0, <2>1, <2>2, <2>6 DEF ReleaseFault, Owns
  <2>7. CASE Crash(w)
    BY <1>0, <2>1, <2>2, <2>7 DEF Crash, Owns
  <2> QED
    BY <1>2, <2>3, <2>4, <2>5, <2>6, <2>7 DEF WorkerStep
<1>3. ASSUME NEW w \in Worker, NEW j \in Job, JobStep(w, j)
      PROVE  Kept'
  <2>1. CASE BeginCycle(w, j) \/ EnterAcquire(w, j) \/ EndCycle(w, j)
    BY <1>0, <2>1 DEF BeginCycle, EnterAcquire, EndCycle, Fresh, Owns
  <2>2. CASE AcquireLose(w, j) \/ AcquireFault(w, j)
    <3>1. UNCHANGED <<clock, heartbeat, lease, mode>> /\ Fresh(v)
      BY <2>2 DEF AcquireLose, AcquireFault, Fresh
    <3>2. isLeader'[v] => isLeader[v]
      BY <2>2, Zenon DEF AcquireLose, AcquireFault
    <3> QED
      BY <1>0, <3>1, <3>2 DEF Owns
  <2>3. CASE AcquireWin(w, j)
    <3>1. CASE v = w
      <4>1. lease' = [owner |-> w, expires |-> snapshot[w] + TTL]
        BY <2>3 DEF AcquireWin
      <4>2. heartbeat'[w] = snapshot[w]
        BY <2>3 DEF AcquireWin
      <4>3. lease' # NoLease
        BY <4>1, SentinelAssumption DEF Lease
      <4> QED
        BY <3>1, <4>1, <4>2, <4>3 DEF Owns
    <3>2. CASE v # w
      <4>1. UNCHANGED <<clock, mode>> /\ heartbeat'[v] = heartbeat[v] /\ Fresh(v)
        BY <2>3, <3>2 DEF AcquireWin, Fresh
      <4>2. isLeader'[v] => isLeader[v]
        BY <2>3, <3>2, Zenon DEF AcquireWin
      <4>3. Kept
        BY <1>0, <4>1, <4>2
      <4>4. lease.expires <= clock
        BY <2>3, <3>2, <4>3 DEF AcquireWin, LeaseAvailable, Owns, SnapshotPast, Lease
      <4> QED
        BY <4>1, <4>3, <4>4 DEF Fresh
    <3> QED
      BY <3>1, <3>2
  <2> QED
    BY <1>3, <2>1, <2>2, <2>3 DEF JobStep
<1>4. CASE UNCHANGED vars
  BY <1>0, <1>4 DEF vars, Fresh, Owns
<1> QED
  BY <1>1, <1>2, <1>3, <1>4 DEF Next

(* The strengthened invariant holds in every reachable state. *)
THEOREM LeaseInvHolds == Spec => []LeaseInv
<1>1. Init => SnapshotPast /\ OffIsBlank /\ FreshOwns
  BY DEF Init, SnapshotPast, OffIsBlank, FreshOwns, Fresh, Quiet
<1>2. LeaseInv /\ TypeOK' /\ [Next]_vars => LeaseInv'
  BY SnapshotPastStep, OffIsBlankStep, FreshOwnsStep DEF LeaseInv
<1> QED
  BY <1>1, <1>2, TypeCorrect, PTL DEF Spec, LeaseInv

(***************************************************************************)
(* What the lease promises.                                                *)
(***************************************************************************)

(* At most one worker leads with a fresh heartbeat: two such workers would *)
(* both own the single row of the lease table.                             *)
THEOREM MutualExclusion == Spec => []AtMostOneFreshLeader
<1>1. LeaseInv => AtMostOneFreshLeader
  BY DEF LeaseInv, FreshOwns, AtMostOneFreshLeader, Owns
<1> QED
  BY <1>1, LeaseInvHolds, PTL

(* Cycles of two running workers overlap only past a lease. *)
THEOREM OverlapBound == Spec => []OverlapOnlyPastLease
<1>1. LeaseInv => OverlapOnlyPastLease
  BY DEF LeaseInv, FreshOwns, OverlapOnlyPastLease, Owns
<1> QED
  BY <1>1, LeaseInvHolds, PTL

(* A live lease changes hands only at its expiry or at its owner's stop(). *)
THEOREM NoTheft == Spec => LeaseNeverStolen
<1> DEFINE Step ==
      /\ (lease # NoLease /\ lease' # NoLease /\ lease'.owner # lease.owner)
           => lease.expires <= clock
      /\ (lease # NoLease /\ lease' = NoLease)
           => mode[lease.owner] = "stopping"
<1>1. LeaseInv /\ [Next]_vars => [Step]_vars
  <2> SUFFICES ASSUME LeaseInv, Next PROVE Step
    BY DEF vars
  <2> USE BoundAssumption, TTLAssumption DEF LeaseInv, TypeOK
  <2>1. CASE UNCHANGED lease
    BY <2>1
  <2>2. ASSUME NEW w \in Worker, Release(w) PROVE Step
    BY <2>2 DEF Release
  <2>3. ASSUME NEW w \in Worker, NEW j \in Job, AcquireWin(w, j) PROVE Step
    <3>1. lease' = [owner |-> w, expires |-> snapshot[w] + TTL]
      BY <2>3 DEF AcquireWin
    <3>2. lease' # NoLease /\ lease'.owner = w
      BY <3>1, SentinelAssumption DEF Lease
    <3>3. (lease # NoLease /\ lease.owner # w) => lease.expires <= clock
      BY <2>3 DEF AcquireWin, LeaseAvailable, SnapshotPast, Lease
    <3> QED
      BY <3>2, <3>3
  <2> QED
    BY <2>1, <2>2, <2>3 DEF Next, WorkerStep, JobStep, Tick, Start, StopRequest,
       ReleaseFault, Crash, BeginCycle, EnterAcquire, AcquireLose,
       AcquireFault, EndCycle
<1> QED
  BY <1>1, LeaseInvHolds, PTL DEF Spec, LeaseNeverStolen

(***************************************************************************)
(* The lease implements an election (LeaderReign).                         *)
(***************************************************************************)

(* A worker's next renewal never carries an older time than its last one:  *)
(* the clock is read under the mutex that orders the acquires.             *)
HeartbeatPast ==
    \A w \in Worker : heartbeat[w] # Never => heartbeat[w] <= snapshot[w]

(* Acquires of one worker carry increasing times. *)
LEMMA HeartbeatPastHolds == Spec => []HeartbeatPast
<1>1. Init => HeartbeatPast
  BY DEF Init, HeartbeatPast
<1>2. LeaseInv /\ HeartbeatPast /\ [Next]_vars => HeartbeatPast'
  <2> SUFFICES ASSUME LeaseInv, HeartbeatPast, [Next]_vars PROVE HeartbeatPast'
    OBVIOUS
  <2> USE BoundAssumption, SentinelAssumption
      DEF LeaseInv, TypeOK, SnapshotPast, HeartbeatPast
  <2>1. CASE Tick
    BY <2>1 DEF Tick
  <2>2. ASSUME NEW w \in Worker, WorkerStep(w) PROVE HeartbeatPast'
    BY <2>2 DEF WorkerStep, Start, StopRequest, Release, ReleaseFault, Crash
  <2>3. ASSUME NEW w \in Worker, NEW j \in Job, JobStep(w, j)
        PROVE  HeartbeatPast'
    <3>1. CASE EnterAcquire(w, j)
      BY <3>1 DEF EnterAcquire
    <3>2. CASE AcquireWin(w, j)
      BY <3>2 DEF AcquireWin
    <3>3. CASE UNCHANGED <<heartbeat, snapshot>>
      BY <3>3
    <3> QED
      BY <2>3, <3>1, <3>2, <3>3
      DEF JobStep, BeginCycle, AcquireLose, AcquireFault, EndCycle
  <2>4. CASE UNCHANGED vars
    BY <2>4 DEF vars
  <2> QED
    BY <2>1, <2>2, <2>3, <2>4 DEF Next
<1> QED
  BY <1>1, <1>2, LeaseInvHolds, PTL DEF Spec

(* The set of reigning workers has at most one member, whose renewal is a  *)
(* time not after the snapshot.                                            *)
LEMMA ReignIsSingle ==
    ASSUME LeaseInv
    PROVE  \A v, w \in Reigning : v = w
BY DEF LeaseInv, FreshOwns, Reigning, Owns

(* A step that keeps clock and heartbeats and makes nobody leader maps to  *)
(* a stutter or to the end of the reign.                                   *)
LEMMA QuietStepMaps ==
    ASSUME LeaseInv, UNCHANGED <<clock, heartbeat>>,
           \A w \in Worker : isLeader'[w] => isLeader[w]
    PROVE  [Reign!ReignNext]_(Reign!reignVars)
<1> DEFINE R == [w \in Reigning |-> heartbeat[w] + TTL]
<1>1. Reigning' \subseteq Reigning
  BY DEF Reigning, Fresh
<1>2. CASE Reigning' = Reigning
  <2>1. R' = R
    BY <1>2
  <2> QED
    BY <2>1 DEF Reign!reignVars
<1>3. CASE Reigning' # Reigning
  <2>1. PICK v \in Worker : v \in Reigning
    BY <1>1, <1>3 DEF Reigning
  <2>2. Reigning = {v} /\ Reigning' = {}
    BY <1>1, <1>3, <2>1, ReignIsSingle
  <2>3. DOMAIN R = {v}
    BY <2>2
  <2>4. R' = Reign!Nobody
    BY <2>2 DEF Reign!Nobody
  <2>5. Reign!Depose(v)
    BY <2>3, <2>4 DEF Reign!Depose
  <2> QED
    BY <2>1, <2>5 DEF Reign!ReignNext
<1> QED
  BY <1>2, <1>3

(* A successful acquire begins a reign, prolongs one, or was so late that  *)
(* its lease had already run out when it was written.                      *)
LEMMA WinMaps ==
    ASSUME LeaseInv, HeartbeatPast, NEW w \in Worker, NEW j \in Job,
           AcquireWin(w, j)
    PROVE  [Reign!ReignNext]_(Reign!reignVars)
<1> DEFINE R == [v \in Reigning |-> heartbeat[v] + TTL]
           End == snapshot[w] + TTL
<1> USE TTLAssumption, BoundAssumption, SentinelAssumption
<1>1. /\ clock' = clock /\ clock \in Int /\ snapshot[w] \in Int
      /\ snapshot[w] <= clock
      /\ isLeader'[w] /\ heartbeat'[w] = snapshot[w]
      /\ heartbeat[w] \in Int \cup {Never}
  BY DEF AcquireWin, LeaseInv, TypeOK, SnapshotPast
<1>2. \A v \in Worker : v # w => /\ isLeader'[v] = isLeader[v]
                                /\ heartbeat'[v] = heartbeat[v]
  BY DEF AcquireWin, LeaseInv, TypeOK
<1>3. Reigning \subseteq {w}
  <2> SUFFICES ASSUME NEW v \in Worker, isLeader[v], Fresh(v), v # w PROVE FALSE
    BY DEF Reigning
  <2>1. Owns(v) /\ lease.expires = heartbeat[v] + TTL
    BY DEF LeaseInv, FreshOwns
  <2>2. heartbeat[v] \in Int /\ clock < heartbeat[v] + TTL
    BY DEF Fresh, LeaseInv, TypeOK
  <2>3. lease.expires <= snapshot[w]
    BY <2>1 DEF AcquireWin, LeaseAvailable, Owns
  <2> QED
    BY <1>1, <2>1, <2>2, <2>3
<1>4. \A v \in Worker : v # w => ~(isLeader'[v] /\ Fresh(v)')
  BY <1>1, <1>2, <1>3 DEF Reigning, Fresh
<1>5. Fresh(w)' <=> clock < End
  BY <1>1 DEF Fresh
<1>6. Reigning' = IF clock < End THEN {w} ELSE {}
  BY <1>1, <1>4, <1>5 DEF Reigning
<1>7. CASE clock < End
  <2>1. R' = [v \in {w} |-> End]
    BY <1>1, <1>6, <1>7
  <2>2. CASE w \in Reigning
    <3>1. DOMAIN R = {w} /\ R[w] = heartbeat[w] + TTL
      BY <1>3, <2>2
    <3>2. heartbeat[w] \in Int /\ heartbeat[w] <= snapshot[w]
      BY <1>1, <2>2 DEF Reigning, Fresh, HeartbeatPast
    <3>3. End \in R[w]..(clock + TTL)
      BY <1>1, <3>1, <3>2
    <3>4. Reign!Renew(w)
      BY <1>1, <2>1, <3>1, <3>3 DEF Reign!Renew
    <3> QED
      BY <3>4 DEF Reign!ReignNext
  <2>3. CASE w \notin Reigning
    <3>1. DOMAIN R = {}
      BY <1>3, <2>3
    <3>2. End \in (clock + 1)..(clock + TTL)
      BY <1>1, <1>7
    <3>3. Reign!Elect(w)
      BY <1>1, <2>1, <3>1, <3>2 DEF Reign!Elect
    <3> QED
      BY <3>3 DEF Reign!ReignNext
  <2> QED
    BY <2>2, <2>3
<1>8. CASE ~(clock < End)
  <2>1. w \notin Reigning
    BY <1>1, <1>8 DEF Reigning, Fresh, HeartbeatPast
  <2>2. Reigning = {} /\ Reigning' = {}
    BY <1>3, <1>6, <1>8, <2>1
  <2>3. R' = R
    BY <2>2
  <2> QED
    BY <1>1, <2>3 DEF Reign!reignVars
<1> QED
  BY <1>7, <1>8

(* The passing of time ends a reign and changes nothing else. *)
LEMMA TickMaps ==
    ASSUME LeaseInv, Tick
    PROVE  Reign!ReignNext
<1> DEFINE R == [w \in Reigning |-> heartbeat[w] + TTL]
<1> USE TTLAssumption, BoundAssumption, SentinelAssumption
<1>1. UNCHANGED <<isLeader, heartbeat>> /\ clock' = clock + 1 /\ clock \in Int
  BY DEF Tick, LeaseInv, TypeOK
<1>2. \A w \in Reigning : heartbeat[w] \in Int
  BY DEF Reigning, Fresh, LeaseInv, TypeOK
<1>3. Reigning' = {v \in Reigning : heartbeat[v] + TTL > clock'}
  BY <1>1, <1>2 DEF Reigning, Fresh, LeaseInv, TypeOK
<1>4. R' = [w \in {v \in DOMAIN R : R[v] > clock'} |-> R[w]]
  BY <1>1, <1>3
<1> QED
  BY <1>1, <1>4 DEF Reign!ReignNext, Reign!Advance

(* The lease protocol implements the election: every behaviour of the      *)
(* detailed specification is one of the abstract specification.            *)
THEOREM Refinement == Spec => ImplementsReign
<1>1. Init => Reign!ReignInit
  <2> SUFFICES ASSUME Init PROVE Reign!ReignInit
    OBVIOUS
  <2>1. Reigning = {}
    BY DEF Init, Reigning
  <2> QED
    BY <2>1 DEF Init, Reign!ReignInit, Reign!Nobody
<1>2. LeaseInv /\ HeartbeatPast /\ [Next]_vars =>
        [Reign!ReignNext]_(Reign!reignVars)
  <2> SUFFICES ASSUME LeaseInv, HeartbeatPast, [Next]_vars
               PROVE  [Reign!ReignNext]_(Reign!reignVars)
    OBVIOUS
  <2>1. CASE Tick
    BY <2>1, TickMaps
  <2>2. ASSUME NEW w \in Worker, WorkerStep(w)
        PROVE  [Reign!ReignNext]_(Reign!reignVars)
    <3>1. UNCHANGED <<clock, heartbeat>>
      BY <2>2 DEF WorkerStep, Start, StopRequest, Release, ReleaseFault, Crash
    <3>2. \A v \in Worker : isLeader'[v] => isLeader[v]
      BY <2>2, Zenon DEF WorkerStep, Start, StopRequest, Release, ReleaseFault,
                         Crash, LeaseInv, TypeOK
    <3> QED
      BY <3>1, <3>2, QuietStepMaps
  <2>3. ASSUME NEW w \in Worker, NEW j \in Job, JobStep(w, j)
        PROVE  [Reign!ReignNext]_(Reign!reignVars)
    <3>1. CASE AcquireWin(w, j)
      BY <3>1, WinMaps
    <3>2. CASE BeginCycle(w, j) \/ EnterAcquire(w, j) \/ AcquireLose(w, j)
               \/ AcquireFault(w, j) \/ EndCycle(w, j)
      <4>1. UNCHANGED <<clock, heartbeat>>
        BY <3>2 DEF BeginCycle, EnterAcquire, AcquireLose, AcquireFault, EndCycle
      <4>2. \A v \in Worker : isLeader'[v] => isLeader[v]
        BY <3>2, Zenon DEF BeginCycle, EnterAcquire, AcquireLose, AcquireFault,
                           EndCycle, LeaseInv, TypeOK
      <4> QED
        BY <4>1, <4>2, QuietStepMaps
    <3> QED
      BY <2>3, <3>1, <3>2 DEF JobStep
  <2>4. CASE UNCHANGED vars
    <3>1. UNCHANGED <<clock, heartbeat>> /\ isLeader' = isLeader
      BY <2>4 DEF vars
    <3> QED
      BY <3>1, QuietStepMaps
  <2> QED
    BY <2>1, <2>2, <2>3, <2>4 DEF Next
<1> QED
  BY <1>1, <1>2, LeaseInvHolds, HeartbeatPastHolds, PTL
  DEF Spec, ImplementsReign, Reign!ReignSpec
=============================================================================
