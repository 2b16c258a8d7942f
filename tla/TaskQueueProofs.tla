--------------------------- MODULE TaskQueueProofs ---------------------------
(***************************************************************************)
(* Proofs about TaskQueue, for every set of processes, tasks and request   *)
(* threads and any number of deaths and failing database calls.            *)
(*                                                                         *)
(* The safety properties speak of one task at a time, and so does the      *)
(* inductive invariant: Sound(t) relates where the thread of t is to its   *)
(* row, to its owner's memory and to its heartbeat.  Most steps touch one  *)
(* task (Local), so that LocalStep leaves only Sound(t)' of that task to   *)
(* show.                                                                   *)
(***************************************************************************)
EXTENDS TaskQueue, TLAPS

Submitting == {"up", "stopping", "closed"}

(* A task gets its owner and its row when it is submitted, never by a      *)
(* process that is still starting.                                         *)
Owned(t) ==
    IF pos[t] = "new"
    THEN /\ owner[t] = None /\ db[t] = None /\ t \notin beating \cup revoked
         /\ \A p \in Process : mem[p][t] = None
    ELSE owner[t] \in Process /\ mode[owner[t]] \notin {"off", "starting"}

RevokedIsOver(t) == t \in revoked => pos[t] = "done"

Beats(t) ==
    t \in beating => \/ pos[t] \in {"registered", "waiting", "running"}
                      \/ mode[owner[t]] \in {"stopping", "closed"}

Recorded(t) == faults = 0 /\ pos[t] = "done" => Status(t) \in Terminal

Agrees(t) ==
    owner[t] \in Alive /\ t \notin foreign /\ faults = 0 => mem[owner[t]][t] = Status(t)

(* Only a finished thread has a result, and its owner knows that the task  *)
(* is over, if nothing outside the lock told it otherwise.                 *)
Result(t) ==
    Status(t) = "COMPLETED" =>
        /\ pos[t] = "done" /\ t \notin revoked
        /\ owner[t] \in Alive /\ t \notin foreign => mem[owner[t]][t] \in Terminal

Sound(t) ==
    Owned(t) /\ RevokedIsOver(t) /\ Beats(t) /\ Recorded(t) /\ Agrees(t) /\ Result(t)

(* shutdown() has listed tasks of its own, recovery tasks that have rows.  *)
Listed ==
    \A p \in Process :
        /\ \A t \in pending[p] : owner[t] = p
        /\ recovery[p] # None => \A t \in recovery[p].ids : db[t] # None

(* Requests are about submitted tasks and run in processes that serve, or  *)
(* did until shutdown() began.                                             *)
Asked ==
    \A r \in Reader : request[r] # None => /\ mode[request[r].process] \in Submitting
                                         /\ pos[request[r].task] # "new"

IInv == TypeOK /\ Listed /\ Asked /\ \A t \in Task : Sound(t)

-----------------------------------------------------------------------------
LEMMA Statuses ==
    /\ {"QUEUED", "RUNNING", "COMPLETED", "FAILED", "CANCELLED"} \subseteq Active \cup Terminal
    /\ {"COMPLETED", "FAILED", "CANCELLED"} \subseteq Terminal
    /\ Active \cap Terminal = {}
    /\ None \notin Active \cup Terminal
  BY NoneAssumption DEF Active, Terminal

(* What _persist writes. *)
LEMMA RowFacts ==
    ASSUME NEW p \in Process, NEW s \in Active \cup Terminal
    PROVE  Row(p, s) \in Record /\ Row(p, s) # None /\ Row(p, s).status = s
<1>1. Row(p, s) \in Record /\ Row(p, s).status = s
  BY DEF Row, Record
<1>2. QED
  BY <1>1, NoneAssumption

LEMMA RecordFacts ==
    ASSUME NEW x \in Record
    PROVE  /\ x # None /\ x.status \in Active \cup Terminal
           /\ \A s \in Active \cup Terminal :
                /\ [x EXCEPT !.status = s] \in Record
                /\ [x EXCEPT !.status = s].status = s
           /\ \A l \in {"live", "expired", "none"} :
                /\ [x EXCEPT !.lease = l] \in Record
                /\ [x EXCEPT !.lease = l].status = x.status
  BY NoneAssumption DEF Record

LEMMA StatusType ==
    ASSUME TypeOK, NEW t \in Task
    PROVE  /\ Status(t) \in Active \cup Terminal \cup {None}
           /\ Status(t) = None <=> db[t] = None
<1>1. db[t] \in Record \cup {None}
  BY DEF TypeOK
<1>2. CASE db[t] = None
  BY <1>2 DEF Status
<1>3. CASE db[t] \in Record
  <2>1. db[t] # None /\ db[t].status \in Active \cup Terminal
    BY <1>3, RecordFacts
  <2>2. QED
    BY <2>1, Statuses DEF Status
<1>4. QED
  BY <1>1, <1>2, <1>3

(* Only the entry of t in the memory of p changes, and the row of t. *)
MemOf(p, t, s) ==
    /\ mem' \in [Process -> [Task -> Active \cup Terminal \cup {None}]]
    /\ mem'[p][t] = s
    /\ \A q \in Process, u \in Task : q # p \/ u # t => mem'[q][u] = mem[q][u]

DbOf(t) ==
    /\ db' \in [Task -> Record \cup {None}]
    /\ \A u \in Task : u # t => db'[u] = db[u]

LEMMA MemFacts ==
    ASSUME TypeOK, NEW p \in Process, NEW t \in Task, NEW s \in Active \cup Terminal,
           mem' = [mem EXCEPT ![p][t] = s]
    PROVE  MemOf(p, t, s)
  BY DEF TypeOK, MemOf

LEMMA SaveFacts ==
    ASSUME TypeOK, NEW p \in Process, NEW t \in Task, NEW s \in Active \cup Terminal,
           Save(p, t, s)
    PROVE  MemOf(p, t, s) /\ DbOf(t) /\ Status(t)' = s /\ db'[t] # None
<1>1. db'[t] = Row(p, s)
  BY DEF Save, TypeOK
<1>2. DbOf(t)
  BY <1>1, RowFacts DEF Save, TypeOK, DbOf
<1>3. QED
  BY <1>1, <1>2, RowFacts, MemFacts DEF Save, Status

LEMMA SaveFailsFacts ==
    ASSUME TypeOK, NEW p \in Process, NEW t \in Task, NEW s \in Active \cup Terminal,
           SaveFails(p, t, s)
    PROVE  /\ MemOf(p, t, s) /\ DbOf(t) /\ UNCHANGED db
           /\ faults' \in 1..MaxFaults
<1>1. faults' \in 1..MaxFaults
  BY BoundAssumption DEF SaveFails, TypeOK
<1>2. QED
  BY <1>1, MemFacts DEF SaveFails, TypeOK, DbOf

-----------------------------------------------------------------------------
(* A step about one task t of process p: the others keep everything Sound  *)
(* speaks of.                                                              *)
Local(p, t) ==
    /\ owner'[t] = p /\ pos'[t] # "new"
    /\ DbOf(t)
    /\ mem' \in [Process -> [Task -> Active \cup Terminal \cup {None}]]
    /\ \A q \in Process, u \in Task : q # p \/ u # t => mem'[q][u] = mem[q][u]
    /\ \A u \in Task : u # t =>
         /\ pos'[u] = pos[u] /\ owner'[u] = owner[u]
         /\ (u \in beating' <=> u \in beating) /\ (u \in revoked' <=> u \in revoked)
    /\ faults' = 0 => faults = 0
    /\ UNCHANGED <<mode, foreign>>

LEMMA LocalStep ==
    ASSUME TypeOK, NEW p \in Process, NEW t \in Task, Local(p, t),
           \A u \in Task : Sound(u),
           Sound(t)'
    PROVE  \A u \in Task : Sound(u)'
<1> SUFFICES ASSUME NEW u \in Task, u # t PROVE Sound(u)'
  OBVIOUS
<1>1. /\ pos'[u] = pos[u] /\ owner'[u] = owner[u] /\ db'[u] = db[u]
      /\ (u \in beating' <=> u \in beating) /\ (u \in revoked' <=> u \in revoked)
      /\ faults' = 0 => faults = 0
      /\ UNCHANGED <<mode, foreign>>
      /\ \A q \in Process : mem'[q][u] = mem[q][u]
  BY DEF Local, DbOf
<1>2. Status(u)' = Status(u)
  BY <1>1 DEF Status
<1>3. Alive' = Alive /\ Alive \subseteq Process
  BY <1>1 DEF Alive
<1>4. Owned(u)' /\ RevokedIsOver(u)' /\ Beats(u)' /\ Recorded(u)'
  BY <1>1, <1>2 DEF Sound, Owned, RevokedIsOver, Beats, Recorded
<1>5. Agrees(u)' /\ Result(u)'
  BY <1>1, <1>2, <1>3 DEF Sound, Agrees, Result
<1>6. QED
  BY <1>4, <1>5 DEF Sound

-----------------------------------------------------------------------------
(* What the typed parts of IInv say about one task. *)
LEMMA TaskTypes ==
    ASSUME TypeOK, NEW t \in Task, Owned(t)
    PROVE  /\ pos[t] \in Position /\ owner[t] \in Process \cup {None}
           /\ pos[t] # "new" => owner[t] \in Process
  BY DEF TypeOK, Owned

LEMMA InitInv == Init => IInv
  BY BoundAssumption, NoneAssumption
     DEF Init, IInv, TypeOK, Mode, Position, Listed, Asked, Sound, Owned, RevokedIsOver,
         Beats, Recorded, Agrees, Result, Status, Alive, Active, Terminal

-----------------------------------------------------------------------------
(* Steps of one task that persist it: what Sound(t)' takes from them. *)
LEMMA Persisted ==
    ASSUME TypeOK, NEW p \in Process, NEW t \in Task, NEW s \in Active \cup Terminal,
           Save(p, t, s), owner'[t] = p,
           mode[p] \notin {"off", "starting"}, UNCHANGED mode,
           pos'[t] \in Position \ {"new"},
           t \in revoked' => pos'[t] = "done",
           t \in beating' => \/ pos'[t] \in {"registered", "waiting", "running"}
                              \/ mode[p] \in {"stopping", "closed"},
           pos'[t] = "done" => s \in Terminal,
           s = "COMPLETED" => pos'[t] = "done" /\ t \notin revoked'
    PROVE  Sound(t)'
<1>1. Status(t)' = s /\ mem'[p][t] = s
  BY SaveFacts DEF MemOf
<1>2. Owned(t)' /\ RevokedIsOver(t)' /\ Beats(t)'
  BY DEF Owned, RevokedIsOver, Beats
<1>3. Recorded(t)' /\ Agrees(t)' /\ Result(t)'
  BY <1>1, Statuses DEF Recorded, Agrees, Result
<1>4. QED
  BY <1>2, <1>3 DEF Sound

(* The other parts of IInv after a step of one task. *)
LEMMA OneTask ==
    ASSUME IInv, TypeOK', NEW p \in Process, NEW t \in Task, Local(p, t), Sound(t)',
           owner[t] \in {None, p},
           db[t] # None => db'[t] # None,
           \A q \in Process : pending'[q] \subseteq pending[q],
           UNCHANGED <<recovery, request>>
    PROVE  IInv'
<1>1. \A u \in Task : Sound(u)'
  BY LocalStep DEF IInv
<1>2. \A u \in Task : db[u] # None => db'[u] # None
  BY DEF Local, DbOf
<1>3. \A u \in Task : owner[u] # None => owner'[u] = owner[u]
  BY NoneAssumption DEF Local
<1>4. Listed'
  <2>1. ASSUME NEW q \in Process, NEW u \in pending'[q] PROVE owner'[u] = q
    <3>1. owner[u] = q /\ u \in Task
      BY <2>1 DEF IInv, Listed, TypeOK
    <3>2. QED
      BY <1>3, <3>1, NoneAssumption
  <2>2. ASSUME NEW q \in Process, recovery'[q] # None, NEW u \in recovery'[q].ids
        PROVE  db'[u] # None
    <3>1. recovery[q] \in Recovery /\ u \in recovery[q].ids
      BY <2>2 DEF IInv, TypeOK
    <3>2. u \in Task /\ db[u] # None
      BY <2>2, <3>1 DEF IInv, Listed, Recovery
    <3>3. QED
      BY <1>2, <3>2
  <2>3. QED
    BY <2>1, <2>2 DEF Listed
<1>5. Asked'
  <2>1. \A u \in Task : pos[u] # "new" => pos'[u] # "new"
    BY DEF Local
  <2>2. \A r \in Reader : request[r] # None => request[r].task \in Task
    BY DEF IInv, TypeOK, Request
  <2>3. QED
    BY <2>1, <2>2 DEF IInv, Asked, Local
<1>6. QED
  BY <1>1, <1>4, <1>5 DEF IInv

(* submit() *)
LEMMA SubmitStep ==
    ASSUME IInv, NEW p \in Process, NEW t \in Task,
           Submit(p, t) \/ SubmitFault(p, t)
    PROVE  IInv'
<1>1. /\ TypeOK /\ Sound(t) /\ owner[t] = None /\ pos[t] = "new"
      /\ t \notin beating \cup revoked /\ mode[p] \in Submitting
  BY DEF IInv, Sound, Owned, Submit, SubmitFault, Submitting
<1>2. CASE Submit(p, t)
  <2>1. /\ MemOf(p, t, "QUEUED") /\ DbOf(t) /\ db'[t] # None
    BY <1>1, <1>2, SaveFacts, Statuses DEF Submit
  <2>2. TypeOK'
    BY <1>1, <1>2, <2>1 DEF Submit, TypeOK, MemOf, DbOf, Position, procs
  <2>3. Local(p, t)
    BY <1>1, <1>2, <2>1 DEF Submit, TypeOK, MemOf, Local, procs
  <2>4. /\ Save(p, t, "QUEUED") /\ owner'[t] = p /\ pos'[t] = "registered"
        /\ t \notin revoked' /\ UNCHANGED mode
    BY <1>1, <1>2 DEF Submit, TypeOK, procs
  <2>5. Sound(t)'
    BY <1>1, <2>4, Persisted, Statuses DEF Position, Submitting
  <2>6. QED
    BY <1>1, <1>2, <2>1, <2>2, <2>3, <2>5, OneTask DEF Submit, procs
<1>3. CASE SubmitFault(p, t)
  <2>1. /\ MemOf(p, t, "QUEUED") /\ DbOf(t) /\ UNCHANGED db /\ faults' \in 1..MaxFaults
    BY <1>1, <1>3, SaveFailsFacts, Statuses DEF SubmitFault
  <2>2. TypeOK'
    BY <1>1, <1>3, <2>1, BoundAssumption
       DEF SubmitFault, TypeOK, MemOf, DbOf, Position, procs
  <2>3. Local(p, t)
    BY <1>1, <1>3, <2>1 DEF SubmitFault, TypeOK, MemOf, Local, procs
  <2>4. /\ owner'[t] = p /\ pos'[t] = "done" /\ UNCHANGED <<mode, db, beating, revoked>>
        /\ faults' # 0
    BY <1>1, <1>3, <2>1 DEF SubmitFault, TypeOK, procs
  <2>5. Status(t) # "COMPLETED"
    BY <1>1 DEF Sound, Result
  <2>6. Sound(t)'
    BY <1>1, <2>4, <2>5 DEF Sound, Owned, RevokedIsOver, Beats, Recorded, Agrees, Result,
                            Status, Submitting
  <2>7. QED
    BY <1>1, <1>3, <2>1, <2>2, <2>3, <2>6, OneTask DEF SubmitFault, procs
<1>4. QED
  BY <1>2, <1>3

(* A task that was submitted. *)
LEMMA Submitted ==
    ASSUME IInv, NEW t \in Task, pos[t] # "new"
    PROVE  /\ TypeOK /\ Sound(t) /\ owner[t] \in Process
           /\ mode[owner[t]] \notin {"off", "starting"}
  BY DEF IInv, Sound, Owned

(* The steps of a task's thread and submission that persist the task. *)
LEMMA SavingStep ==
    ASSUME IInv, NEW t \in Task,
           \/ Begin(t) \/ BeginStopped(t) \/ Progress(t) \/ Finish(t)
           \/ (Reject(t) /\ Save(owner[t], t, "FAILED") /\ UNCHANGED faults)
    PROVE  IInv'
<1> DEFINE p == owner[t]
<1>1. pos[t] \in {"registered", "waiting", "running"}
  BY DEF Begin, BeginStopped, Progress, Finish, Reject
<1>2. /\ TypeOK /\ Sound(t) /\ p \in Process
      /\ mode[p] \notin {"off", "starting"}
  BY <1>1, Submitted
<1>3. PICK s \in {"RUNNING", "FAILED", "COMPLETED"} :
        /\ Save(p, t, s)
        /\ s = "RUNNING" => pos[t] \in {"waiting", "running"} /\ pos'[t] = "running"
                            /\ UNCHANGED beating
        /\ s # "RUNNING" => pos'[t] = "done" /\ beating' = beating \ {t}
  <2>1. CASE Begin(t) \/ Progress(t)
    <3>1. /\ Save(p, t, "RUNNING") /\ pos[t] \in {"waiting", "running"}
          /\ pos'[t] = "running" /\ UNCHANGED beating
      BY <1>2, <2>1 DEF Begin, Progress, TypeOK, threads
    <3>2. QED
      BY <3>1
  <2>2. CASE BeginStopped(t) \/ (Reject(t) /\ Save(owner[t], t, "FAILED") /\ UNCHANGED faults)
    <3>1. Save(p, t, "FAILED") /\ pos'[t] = "done" /\ beating' = beating \ {t}
      BY <1>2, <2>2 DEF BeginStopped, Reject, Ends, TypeOK
    <3>2. QED
      BY <3>1
  <2>3. CASE Finish(t)
    <3>1. /\ Save(p, t, "COMPLETED") \/ Save(p, t, "FAILED")
          /\ pos'[t] = "done" /\ beating' = beating \ {t}
      BY <1>2, <2>3 DEF Finish, Ends, TypeOK
    <3>2. QED
      BY <3>1
  <2>4. QED
    BY <2>1, <2>2, <2>3, Zenon
<1>4. /\ UNCHANGED <<mode, recovery, pending, owner, tracked, revoked, request,
                    deaths, faults, foreign>>
      /\ \/ pos' = [pos EXCEPT ![t] = "running"] \/ pos' = [pos EXCEPT ![t] = "done"]
         \/ UNCHANGED pos
  BY DEF Begin, BeginStopped, Progress, Finish, Reject, Ends, procs, threads
<1> HIDE DEF p
<1>5. MemOf(p, t, s) /\ DbOf(t) /\ db'[t] # None
  BY <1>2, <1>3, SaveFacts, Statuses
<1>6. TypeOK'
  BY <1>2, <1>3, <1>4, <1>5 DEF TypeOK, MemOf, DbOf, Position
<1>7. Local(p, t)
  BY <1>2, <1>3, <1>4, <1>5 DEF TypeOK, MemOf, Local, p
<1>8. Sound(t)'
  <2>1. t \notin revoked'
    BY <1>1, <1>2, <1>4 DEF Sound, RevokedIsOver
  <2>2. /\ pos'[t] \in Position \ {"new"}
        /\ t \in beating' => pos'[t] \in {"registered", "waiting", "running"}
        /\ pos'[t] = "done" => s \in Terminal
        /\ s = "COMPLETED" => pos'[t] = "done"
    BY <1>3, Statuses DEF Position
  <2>3. s \in Active \cup Terminal /\ owner'[t] = p
    BY <1>4, Statuses DEF p
  <2>4. QED
    BY <1>2, <1>3, <1>4, <2>1, <2>2, <2>3, Persisted
<1>9. QED
  BY <1>2, <1>4, <1>5, <1>6, <1>7, <1>8, OneTask DEF p

(* The same steps when the database call raises. *)
LEMMA FailingStep ==
    ASSUME IInv, NEW t \in Task,
           ThreadFault(t) \/ (Reject(t) /\ SaveFails(owner[t], t, "FAILED"))
    PROVE  IInv'
<1> DEFINE p == owner[t]
<1>1. pos[t] \in {"registered", "waiting", "running"}
  BY DEF ThreadFault, Reject
<1>2. /\ TypeOK /\ Sound(t) /\ p \in Process
      /\ mode[p] \notin {"off", "starting"}
  BY <1>1, Submitted
<1>3. /\ SaveFails(p, t, "FAILED")
      /\ pos' = [pos EXCEPT ![t] = "done"]
      /\ \/ beating' = beating \ {t}
         \/ beating' = beating /\ mode[p] = "stopping"
      /\ UNCHANGED <<mode, recovery, pending, owner, tracked, revoked, request,
                     deaths, foreign>>
  BY DEF ThreadFault, Reject, Ends, procs
<1> HIDE DEF p
<1>4. /\ MemOf(p, t, "FAILED") /\ DbOf(t) /\ UNCHANGED db
      /\ faults' \in 1..MaxFaults
  BY <1>2, <1>3, SaveFailsFacts, Statuses
<1>5. TypeOK'
  BY <1>2, <1>3, <1>4, BoundAssumption DEF TypeOK, MemOf, DbOf, Position
<1>6. Local(p, t)
  BY <1>2, <1>3, <1>4 DEF TypeOK, MemOf, Local, p
<1>7. Sound(t)'
  <2>1. Status(t)' # "COMPLETED"
    BY <1>1, <1>2, <1>4 DEF Sound, Result, Status
  <2>2. pos'[t] = "done" /\ owner'[t] = p /\ mode'[p] = mode[p] /\ faults' # 0
    BY <1>2, <1>3, <1>4 DEF TypeOK, p
  <2>3. QED
    BY <1>2, <1>3, <2>1, <2>2
       DEF Sound, Owned, RevokedIsOver, Beats, Recorded, Agrees, Result
<1>8. QED
  BY <1>2, <1>3, <1>4, <1>5, <1>6, <1>7, OneTask DEF p

(* Steps of one task that leave its status alone. *)
LEMMA QuietTaskStep ==
    ASSUME IInv, NEW t \in Task,
           Enqueue(t) \/ Track(t) \/ Heartbeat(t) \/ Lapse(t)
    PROVE  IInv'
<1> DEFINE p == owner[t]
<1>1. pos[t] # "new"
  BY DEF IInv, Sound, Owned, Enqueue, Track, Heartbeat, Lapse
<1>2. /\ TypeOK /\ Sound(t) /\ p \in Process
      /\ mode[p] \notin {"off", "starting"}
  BY <1>1, Submitted
<1>3. /\ DbOf(t) /\ Status(t)' = Status(t) /\ (db[t] # None => db'[t] # None)
      /\ faults' \in 0..MaxFaults /\ (faults' = 0 => faults = 0)
  <2>1. CASE Enqueue(t) \/ Track(t)
    BY <1>2, <2>1 DEF Enqueue, Track, TypeOK, DbOf, Status
  <2>2. CASE Heartbeat(t) \/ Lapse(t)
    <3>1. /\ db[t] \in Record
          /\ \E l \in {"live", "expired"} : db' = [db EXCEPT ![t] = [db[t] EXCEPT !.lease = l]]
      BY <1>2, <2>2 DEF Heartbeat, Lapse, TypeOK
    <3>2. PICK l \in {"live", "expired"} : db' = [db EXCEPT ![t] = [db[t] EXCEPT !.lease = l]]
      BY <3>1
    <3>3. /\ db'[t] = [db[t] EXCEPT !.lease = l]
          /\ \A u \in Task : u # t => db'[u] = db[u]
      BY <1>2, <3>2 DEF TypeOK
    <3>4. db'[t] \in Record /\ db'[t] # None /\ db'[t].status = db[t].status
      <4>1. db'[t] \in Record /\ db'[t].status = db[t].status
        BY <3>1, <3>3 DEF Record
      <4>2. QED
        BY <4>1, RecordFacts
    <3>5. db' \in [Task -> Record \cup {None}]
      BY <1>2, <3>2, <3>3, <3>4 DEF TypeOK
    <3>6. faults' \in 0..MaxFaults /\ (faults' = 0 => faults = 0)
      BY <1>2, <2>2, BoundAssumption DEF Heartbeat, Lapse, TypeOK
    <3>7. db[t] # None
      BY <3>1, RecordFacts
    <3>8. QED
      BY <3>3, <3>4, <3>5, <3>6, <3>7 DEF DbOf, Status
  <2>3. QED
    BY <2>1, <2>2
<1>4. /\ UNCHANGED <<mem, mode, recovery, pending, owner, revoked, beating, request,
                    deaths, foreign>>
      /\ \/ UNCHANGED pos
         \/ pos[t] = "registered" /\ pos' = [pos EXCEPT ![t] = "waiting"]
      /\ tracked' \subseteq Task
  BY <1>2 DEF Enqueue, Track, Heartbeat, Lapse, procs, threads, TypeOK
<1> HIDE DEF p
<1>5. TypeOK'
  BY <1>2, <1>3, <1>4 DEF TypeOK, DbOf, Position
<1>6. Local(p, t)
  BY <1>1, <1>2, <1>3, <1>4 DEF TypeOK, Local, p
<1>7. Sound(t)'
  <2>1. /\ (pos'[t] = "done" <=> pos[t] = "done") /\ pos'[t] # "new"
        /\ pos[t] \in {"registered", "waiting", "running"} =>
             pos'[t] \in {"registered", "waiting", "running"}
    BY <1>1, <1>2, <1>4 DEF TypeOK
  <2>2. Alive' = Alive
    BY <1>4 DEF Alive
  <2>3. QED
    BY <1>1, <1>2, <1>3, <1>4, <2>1, <2>2
       DEF Sound, Owned, RevokedIsOver, Beats, Recorded, Agrees, Result
<1>8. QED
  BY <1>2, <1>3, <1>4, <1>5, <1>6, <1>7, OneTask DEF p

(* shutdown() ends the tasks it has listed. *)
LEMMA StopTaskStep ==
    ASSUME IInv, NEW p \in Process, NEW t \in Task, StopTask(p, t)
    PROVE  IInv'
<1>1. TypeOK /\ Sound(t) /\ owner[t] = p /\ mode[p] = "stopping"
  BY DEF IInv, Listed, StopTask
<1>2. pos[t] # "new" /\ mode[p] \notin {"off", "starting"}
  BY <1>1, NoneAssumption DEF Sound, Owned
<1>3. /\ UNCHANGED <<mode, recovery, owner, tracked, request, deaths, faults, foreign>>
      /\ pending' = [pending EXCEPT ![p] = @ \ {t}]
  BY DEF StopTask
<1>4. CASE pos[t] = "waiting" \/ t \in revoked
  <2>1. /\ Save(p, t, "FAILED") /\ pos' = [pos EXCEPT ![t] = "done"]
        /\ beating' = beating \ {t} /\ revoked' = revoked \cup {t}
    BY <1>4 DEF StopTask, Ends
  <2>2. MemOf(p, t, "FAILED") /\ DbOf(t) /\ db'[t] # None
    BY <1>1, <2>1, SaveFacts, Statuses
  <2>3. TypeOK'
    BY <1>1, <1>3, <2>1, <2>2 DEF TypeOK, MemOf, DbOf, Position
  <2>4. Local(p, t)
    BY <1>1, <1>3, <2>1, <2>2 DEF TypeOK, MemOf, Local
  <2>5. pos'[t] = "done" /\ owner'[t] = p /\ t \notin beating'
    BY <1>1, <1>3, <2>1 DEF TypeOK
  <2>6. Sound(t)'
    BY <1>1, <1>2, <1>3, <2>1, <2>5, Persisted, Statuses DEF Position
  <2>7. \A q \in Process : pending'[q] \subseteq pending[q]
    BY <1>1, <1>3 DEF TypeOK
  <2>8. QED
    BY <1>1, <1>3, <2>2, <2>3, <2>4, <2>6, <2>7, OneTask
<1>5. CASE ~ (pos[t] = "waiting" \/ t \in revoked)
  <2>1. UNCHANGED <<db, mem, pos, beating, revoked>>
    BY <1>5 DEF StopTask
  <2>2. TypeOK'
    BY <1>1, <1>3, <2>1 DEF TypeOK
  <2>3. Local(p, t)
    BY <1>1, <1>2, <1>3, <2>1 DEF TypeOK, Local, DbOf
  <2>4. Sound(t)'
    BY <1>1, <1>3, <2>1 DEF Sound, Owned, RevokedIsOver, Beats, Recorded, Agrees, Result,
                            Status, Alive
  <2>5. \A q \in Process : pending'[q] \subseteq pending[q]
    BY <1>1, <1>3 DEF TypeOK
  <2>6. QED
    BY <1>1, <1>3, <2>1, <2>2, <2>3, <2>4, <2>5, OneTask
<1>6. QED
  BY <1>4, <1>5

-----------------------------------------------------------------------------
(* Steps that keep every task's thread and row, and at most make more of   *)
(* them foreign. *)
LEMMA KeptTasks ==
    ASSUME IInv, UNCHANGED <<db, mem, mode, owner, pos, revoked, beating, faults, foreign>>
    PROVE  \A t \in Task : Sound(t)'
  BY DEF IInv, Sound, Owned, RevokedIsOver, Beats, Recorded, Agrees, Result, Status, Alive

LEMMA AbandonedTypes ==
    ASSUME TypeOK, NEW p \in Process
    PROVE  /\ [stage |-> "selected", ids |-> Abandoned(p)] \in Recovery
           /\ \A t \in Abandoned(p) : db[t] # None
  BY DEF Abandoned, Recovery

(* recover_crashed_tasks selects, in a new process or a serving one. *)
LEMMA SelectStep ==
    ASSUME IInv, NEW p \in Process, Start(p) \/ RecoverSelect(p)
    PROVE  IInv'
<1> DEFINE found == [stage |-> "selected", ids |-> Abandoned(p)]
<1>1. /\ TypeOK /\ Listed /\ Asked
      /\ \/ UNCHANGED mode
         \/ mode[p] = "off" /\ mode' = [mode EXCEPT ![p] = "starting"]
      /\ recovery' = [recovery EXCEPT ![p] = found]
      /\ UNCHANGED <<db, mem, pending, owner, pos, tracked, revoked, beating, request,
                     deaths, faults, foreign>>
  BY DEF IInv, Start, RecoverSelect, threads
<1>2. found \in Recovery /\ found.ids = Abandoned(p)
      /\ \A t \in Abandoned(p) : db[t] # None
  BY <1>1, AbandonedTypes
<1> HIDE DEF found
<1>3. TypeOK'
  BY <1>1, <1>2 DEF TypeOK, Mode
<1>4. Listed'
  BY <1>1, <1>2 DEF TypeOK, Listed
<1>5. Asked'
  <2>1. \A q \in Process : mode[q] \in Submitting => mode'[q] = mode[q]
    BY <1>1 DEF TypeOK, Submitting
  <2>2. \A r \in Reader : request[r] # None => request[r].process \in Process
    BY <1>1 DEF TypeOK, Request
  <2>3. QED
    BY <1>1, <2>1, <2>2 DEF Asked
<1>6. ASSUME NEW t \in Task PROVE Sound(t)'
  <2>1. Sound(t) /\ Status(t)' = Status(t)
    BY <1>1 DEF IInv, Status
  <2>2. CASE pos[t] = "new"
    <3>1. owner[t] = None /\ None \notin Process /\ Status(t) # "COMPLETED"
      BY <2>1, <2>2, NoneAssumption, Statuses DEF Sound, Owned, Status
    <3>2. owner[t] \notin Alive'
      BY <3>1 DEF Alive
    <3>3. QED
      BY <1>1, <2>1, <2>2, <3>1, <3>2
         DEF Sound, Owned, RevokedIsOver, Beats, Recorded, Agrees, Result
  <2>3. CASE pos[t] # "new"
    <3>1. /\ owner[t] \in Process /\ mode'[owner[t]] = mode[owner[t]]
          /\ mode[owner[t]] \notin {"off", "starting"}
      BY <1>1, <2>1, <2>3 DEF Sound, Owned, TypeOK
    <3>2. owner[t] \in Alive' <=> owner[t] \in Alive
      BY <3>1 DEF Alive
    <3>3. QED
      BY <1>1, <2>1, <2>3, <3>1, <3>2
         DEF Sound, Owned, RevokedIsOver, Beats, Recorded, Agrees, Result
  <2>4. QED
    BY <2>2, <2>3
<1>7. QED
  BY <1>3, <1>4, <1>5, <1>6 DEF IInv

(* recover_crashed_tasks writes. *)
LEMMA RecoverWriteStep ==
    ASSUME IInv, NEW p \in Process, RecoverWrite(p)
    PROVE  IInv'
<1> DEFINE ids == recovery[p].ids
<1>1. /\ TypeOK /\ Listed /\ Asked
      /\ recovery[p] \in Recovery /\ ids \subseteq Task /\ \A t \in ids : db[t] # None
  BY DEF IInv, TypeOK, Listed, Recovery, RecoverWrite
<1>2. /\ db' = [t \in Task |-> IF t \in ids THEN [db[t] EXCEPT !.status = "FAILED"] ELSE db[t]]
      /\ recovery' = [recovery EXCEPT ![p].stage = "written"]
      /\ foreign' = foreign \cup ids
      /\ UNCHANGED <<mem, mode, pending, owner, pos, tracked, revoked, beating, request,
                     deaths, faults>>
  BY DEF RecoverWrite, threads
<1> HIDE DEF ids
<1>3. \A t \in Task \ ids : db'[t] = db[t]
  BY <1>2
<1>4. ASSUME NEW t \in ids PROVE /\ db'[t] \in Record /\ db'[t].status = "FAILED"
                                 /\ db'[t] # None
  <2>1. db[t] \in Record /\ db'[t] = [db[t] EXCEPT !.status = "FAILED"]
    BY <1>1, <1>2 DEF TypeOK
  <2>2. db'[t] \in Record /\ db'[t].status = "FAILED"
    BY <2>1, Statuses DEF Record
  <2>3. QED
    BY <2>2, RecordFacts
<1>5. db' \in [Task -> Record \cup {None}]
  BY <1>1, <1>2, <1>4 DEF TypeOK
<1>6. recovery'[p] \in Recovery /\ recovery'[p].ids = ids
  BY <1>1, <1>2 DEF TypeOK, Recovery, ids
<1>7. TypeOK'
  BY <1>1, <1>2, <1>5, <1>6 DEF TypeOK
<1>8. Listed'
  <2>1. \A q \in Process : q # p => recovery'[q] = recovery[q]
    BY <1>1, <1>2 DEF TypeOK
  <2>2. \A q \in Process : recovery[q] # None => recovery[q].ids \subseteq Task
    BY <1>1 DEF TypeOK, Recovery
  <2>3. \A t \in Task : db[t] # None => db'[t] # None
    BY <1>3, <1>4
  <2>4. QED
    BY <1>1, <1>2, <1>6, <2>1, <2>2, <2>3 DEF Listed
<1>9. Asked'
  BY <1>1, <1>2 DEF Asked
<1>10. ASSUME NEW t \in Task PROVE Sound(t)'
  <2>1. Sound(t) /\ Alive' = Alive
    BY <1>2 DEF IInv, Alive
  <2>2. CASE t \in ids
    <3>1. Status(t)' = "FAILED" /\ t \in foreign' /\ pos[t] # "new"
      BY <1>1, <1>2, <1>4, <2>1, <2>2 DEF Status, Sound, Owned
    <3>2. QED
      BY <1>2, <2>1, <3>1, Statuses
         DEF Sound, Owned, RevokedIsOver, Beats, Recorded, Agrees, Result
  <2>3. CASE t \notin ids
    <3>1. Status(t)' = Status(t) /\ db'[t] = db[t]
      BY <1>3, <2>3 DEF Status
    <3>2. QED
      BY <1>2, <2>1, <2>3, <3>1
         DEF Sound, Owned, RevokedIsOver, Beats, Recorded, Agrees, Result
  <2>4. QED
    BY <2>2, <2>3
<1>11. QED
  BY <1>7, <1>8, <1>9, <1>10 DEF IInv

(* recover_crashed_tasks updates the memory, or a new process loads it. *)
LEMMA RecoverRememberStep ==
    ASSUME IInv, NEW p \in Process, RecoverRemember(p)
    PROVE  IInv'
<1>1. /\ TypeOK /\ Listed /\ Asked
      /\ recovery[p] # None /\ recovery[p] \in Recovery
  BY DEF IInv, TypeOK, RecoverRemember
<1>2. /\ mem' = [mem EXCEPT ![p] = [t \in Task |->
                   IF mode[p] = "starting" THEN Status(t)
                   ELSE IF t \in recovery[p].ids /\ mem[p][t] # None THEN "FAILED"
                   ELSE mem[p][t]]]
      /\ mode' = [mode EXCEPT ![p] = IF @ = "starting" THEN "up" ELSE @]
      /\ recovery' = [recovery EXCEPT ![p] = None]
      /\ foreign' = foreign \cup recovery[p].ids
      /\ UNCHANGED <<db, pending, owner, pos, tracked, revoked, beating, request,
                     deaths, faults>>
  BY DEF RecoverRemember, threads
<1>3. \A t \in Task :
        mem'[p][t] = IF mode[p] = "starting" THEN Status(t)
                     ELSE IF t \in recovery[p].ids /\ mem[p][t] # None THEN "FAILED"
                     ELSE mem[p][t]
  BY <1>1, <1>2 DEF TypeOK
<1>4. \A q \in Process \ {p} : mem'[q] = mem[q]
  BY <1>1, <1>2 DEF TypeOK
<1>5. TypeOK'
  <2>1. \A t \in Task : mem'[p][t] \in Active \cup Terminal \cup {None}
    BY <1>1, <1>3, StatusType, Statuses DEF TypeOK
  <2>2. mem' \in [Process -> [Task -> Active \cup Terminal \cup {None}]]
    <3>1. \A t \in Task :
            (IF mode[p] = "starting" THEN Status(t)
             ELSE IF t \in recovery[p].ids /\ mem[p][t] # None THEN "FAILED"
             ELSE mem[p][t]) \in Active \cup Terminal \cup {None}
      BY <1>3, <2>1
    <3>2. QED
      BY <1>1, <1>2, <3>1 DEF TypeOK
  <2>3. mode' \in [Process -> Mode]
    BY <1>1, <1>2 DEF TypeOK, Mode
  <2>4. recovery[p].ids \subseteq Task
    BY <1>1 DEF Recovery
  <2>5. QED
    BY <1>1, <1>2, <2>2, <2>3, <2>4 DEF TypeOK
<1>6. Listed'
  BY <1>1, <1>2 DEF TypeOK, Listed
<1>7. Asked'
  <2>1. \A q \in Process : mode[q] \in Submitting => mode'[q] = mode[q]
    BY <1>1, <1>2 DEF TypeOK, Submitting
  <2>2. \A r \in Reader : request[r] # None => request[r].process \in Process
    BY <1>1 DEF TypeOK, Request
  <2>3. QED
    BY <1>1, <1>2, <2>1, <2>2 DEF Asked
<1>8. ASSUME NEW t \in Task PROVE Sound(t)'
  <2>1. Sound(t) /\ Status(t)' = Status(t)
    BY <1>2 DEF IInv, Status
  <2>2. CASE pos[t] = "new"
    <3>1. owner[t] = None /\ None \notin Process /\ Status(t) # "COMPLETED"
      BY <2>1, <2>2, NoneAssumption, Statuses DEF Sound, Owned, Status
    <3>2. owner[t] \notin Alive'
      BY <3>1 DEF Alive
    <3>3. \A q \in Process : mem'[q][t] = None
      BY <1>3, <1>4, <2>1, <2>2 DEF Sound, Owned, Status
    <3>4. QED
      BY <1>2, <2>1, <2>2, <3>1, <3>2, <3>3
         DEF Sound, Owned, RevokedIsOver, Beats, Recorded, Agrees, Result
  <2>3. CASE pos[t] # "new"
    <3>1. /\ owner[t] \in Process /\ mode'[owner[t]] = mode[owner[t]]
          /\ mode[owner[t]] \notin {"off", "starting"}
      BY <1>1, <1>2, <2>1, <2>3 DEF Sound, Owned, TypeOK
    <3>2. owner[t] \in Alive' <=> owner[t] \in Alive
      BY <3>1 DEF Alive
    <3>3. t \notin foreign' => t \notin foreign /\ mem'[owner[t]][t] = mem[owner[t]][t]
      BY <1>2, <1>3, <1>4, <3>1
    <3>4. QED
      BY <1>2, <2>1, <2>3, <3>1, <3>2, <3>3
         DEF Sound, Owned, RevokedIsOver, Beats, Recorded, Agrees, Result
  <2>4. QED
    BY <2>2, <2>3
<1>9. QED
  BY <1>5, <1>6, <1>7, <1>8 DEF IInv

-----------------------------------------------------------------------------
(* get_task *)
LEMMA ReadStep ==
    ASSUME IInv, NEW r \in Reader, NEW p \in Process, NEW t \in Task, Read(r, p, t)
    PROVE  IInv'
<1>1. PICK i \in {"view", "cancel"} :
        request' = [request EXCEPT ![r] = [process |-> p, task |-> t, intent |-> i,
                                           seen |-> Status(t)]]
  BY DEF Read
<1>2. /\ TypeOK /\ Listed /\ Asked /\ mode[p] = "up"
      /\ UNCHANGED <<db, mem, mode, recovery, pending, owner, pos, tracked, revoked, beating,
                     deaths, faults, foreign>>
  BY DEF IInv, Read, Serving, procs, threads
<1>3. request'[r] \in Request /\ request'[r].process = p
  BY <1>1, <1>2, StatusType DEF TypeOK, Request
<1>4. TypeOK'
  BY <1>1, <1>2, <1>3 DEF TypeOK
<1>5. Listed' /\ Asked'
  <2>1. pos[t] # "new" /\ request'[r].task = t
    BY <1>1, <1>2 DEF IInv, Sound, Owned, Read, TypeOK
  <2>2. QED
    BY <1>1, <1>2, <1>3, <2>1 DEF TypeOK, Listed, Asked, Submitting
<1>6. QED
  BY <1>2, <1>4, <1>5, KeptTasks DEF IInv

(* _load_one overwrites the memory. *)
LEMMA LoadStep ==
    ASSUME IInv, NEW r \in Reader, Load(r)
    PROVE  IInv'
<1> DEFINE q == request[r]
<1>1. /\ TypeOK /\ Listed /\ Asked /\ q \in Request /\ q.seen # None
      /\ q.process \in Process /\ q.task \in Task /\ q.seen \in Active \cup Terminal
      /\ pos[q.task] # "new"
  BY DEF IInv, TypeOK, Load, Request, Asked
<1>2. /\ mem' = [mem EXCEPT ![q.process][q.task] = q.seen]
      /\ request' = [request EXCEPT ![r] =
                       IF q.intent = "view" THEN None ELSE [q EXCEPT !.seen = None]]
      /\ foreign' = IF q.seen # Status(q.task) THEN foreign \cup {q.task} ELSE foreign
      /\ UNCHANGED <<db, mode, recovery, pending, owner, pos, tracked, revoked, beating,
                     deaths, faults>>
  BY DEF Load, procs, threads
<1>3. /\ [q EXCEPT !.seen = None] \in Request
      /\ [q EXCEPT !.seen = None].process = q.process /\ [q EXCEPT !.seen = None].task = q.task
  BY <1>1 DEF Request
<1>4. MemOf(q.process, q.task, q.seen)
  BY <1>1, <1>2, MemFacts
<1>5. TypeOK'
  <2>1. request' \in [Reader -> Request \cup {None}]
    BY <1>1, <1>2, <1>3 DEF TypeOK
  <2>2. foreign' \subseteq Task
    BY <1>1, <1>2 DEF TypeOK
  <2>3. QED
    BY <1>1, <1>2, <1>4, <2>1, <2>2 DEF TypeOK, MemOf
<1>6. Listed' /\ Asked'
  <2>1. request'[r] # None => request'[r].process = q.process /\ request'[r].task = q.task
    BY <1>1, <1>2, <1>3 DEF TypeOK
  <2>2. \A o \in Reader : o # r => request'[o] = request[o]
    BY <1>1, <1>2 DEF TypeOK
  <2>3. q # None
    BY DEF Load
  <2>4. QED
    BY <1>1, <1>2, <2>1, <2>2, <2>3 DEF Listed, Asked
<1> HIDE DEF q
<1>7. ASSUME NEW t \in Task PROVE Sound(t)'
  <2>1. /\ Sound(t) /\ Status(t)' = Status(t) /\ Alive' = Alive
        /\ owner[t] \in Alive => owner[t] \in Process
    BY <1>2 DEF IInv, Status, Alive
  <2>2. CASE t = q.task
    <3>1. t \notin foreign' => q.seen = Status(t) /\ t \notin foreign
      BY <1>2, <2>2
    <3>2. /\ mem'[q.process][t] = q.seen
          /\ \A p \in Process : p # q.process => mem'[p][t] = mem[p][t]
      BY <1>4, <2>2 DEF MemOf
    <3>3. QED
      BY <1>1, <1>2, <2>1, <3>1, <3>2, Statuses
         DEF Sound, Owned, RevokedIsOver, Beats, Recorded, Agrees, Result
  <2>3. CASE t # q.task
    <3>1. t \in foreign' <=> t \in foreign
      BY <1>2, <2>3
    <3>2. \A p \in Process : mem'[p][t] = mem[p][t]
      BY <1>4, <2>3 DEF MemOf
    <3>3. QED
      BY <1>2, <2>1, <3>1, <3>2
         DEF Sound, Owned, RevokedIsOver, Beats, Recorded, Agrees, Result
  <2>4. QED
    BY <2>2, <2>3
<1>8. QED
  BY <1>5, <1>6, <1>7 DEF IInv

(* What cancel_task does to the task, whether _persist raises or not. *)
LEMMA CancelFacts ==
    ASSUME IInv, NEW r \in Reader, Cancel(r), NEW p \in Process, NEW t \in Task,
           p = request[r].process, t = request[r].task
    PROVE  /\ MemOf(p, t, "CANCELLED") /\ DbOf(t)
           /\ Status(t)' \in {"CANCELLED", Status(t)} /\ (db[t] # None => db'[t] # None)
           /\ faults' \in 0..MaxFaults
           /\ faults' = 0 => faults = 0 /\ Status(t)' = "CANCELLED"
<1>1. TypeOK /\ Update(p, t, "CANCELLED")
  BY DEF IInv, Cancel
<1>2. CASE Save(p, t, "CANCELLED") /\ UNCHANGED faults
  BY <1>1, <1>2, SaveFacts, Statuses DEF TypeOK
<1>3. CASE SaveFails(p, t, "CANCELLED")
  <2>1. MemOf(p, t, "CANCELLED") /\ DbOf(t) /\ UNCHANGED db /\ faults' \in 1..MaxFaults
    BY <1>1, <1>3, SaveFailsFacts, Statuses
  <2>2. Status(t)' = Status(t)
    BY <2>1 DEF Status
  <2>3. QED
    BY <1>1, <2>1, <2>2, BoundAssumption
<1>4. QED
  BY <1>1, <1>2, <1>3 DEF Update

(* cancel_task *)
LEMMA CancelStep ==
    ASSUME IInv, NEW r \in Reader, Cancel(r)
    PROVE  IInv'
<1>1. PICK p \in Process, t \in Task :
        p = request[r].process /\ t = request[r].task
  BY DEF IInv, TypeOK, Cancel, Cancellable, Request
<1>2. /\ TypeOK /\ Listed /\ Asked
      /\ pos[t] # "new" /\ mode[p] \in Submitting
      /\ owner[t] \in Process /\ mode[owner[t]] \notin {"off", "starting"}
  BY <1>1, Submitted DEF IInv, Asked, Cancel, Cancellable
<1>3. /\ MemOf(p, t, "CANCELLED") /\ DbOf(t)
      /\ Status(t)' \in {"CANCELLED", Status(t)} /\ (db[t] # None => db'[t] # None)
      /\ faults' \in 0..MaxFaults
      /\ faults' = 0 => faults = 0 /\ Status(t)' = "CANCELLED"
  BY <1>1, CancelFacts
<1>4. /\ \/ /\ p = owner[t] /\ pos[t] = "waiting"
            /\ pos' = [pos EXCEPT ![t] = "done"] /\ revoked' = revoked \cup {t}
            /\ foreign' = foreign /\ beating' = beating \ {t}
         \/ /\ UNCHANGED <<pos, revoked>>
            /\ p = owner[t] => foreign' = foreign /\ beating' = beating \ {t}
            /\ p # owner[t] => foreign' = foreign \cup {t} /\ beating' = beating
      /\ request' = [request EXCEPT ![r] = None]
      /\ UNCHANGED <<mode, recovery, pending, owner, tracked, deaths>>
  BY <1>1 DEF Cancel, Revoke, procs
<1>5. TypeOK'
  BY <1>2, <1>3, <1>4 DEF TypeOK, MemOf, DbOf, Position
<1>6. Listed'
  <2>1. \A u \in Task : db[u] # None => db'[u] # None
    BY <1>3 DEF DbOf
  <2>2. \A q \in Process : recovery[q] # None => recovery[q].ids \subseteq Task
    BY <1>2 DEF TypeOK, Recovery
  <2>3. QED
    BY <1>2, <1>4, <2>1, <2>2 DEF Listed
<1>7. Asked'
  <2>1. \A u \in Task : pos[u] # "new" => pos'[u] # "new"
    BY <1>2, <1>4 DEF TypeOK
  <2>2. \A o \in Reader : request[o] # None => request[o].task \in Task
    BY <1>2 DEF TypeOK, Request
  <2>3. QED
    BY <1>2, <1>4, <2>1, <2>2 DEF Asked, TypeOK
<1>8. ASSUME NEW u \in Task, u # t PROVE Sound(u)'
  <2>1. Sound(u) /\ Alive' = Alive /\ (owner[u] \in Alive => owner[u] \in Process)
    BY <1>4 DEF IInv, Alive
  <2>2. /\ pos'[u] = pos[u] /\ (u \in revoked' <=> u \in revoked)
        /\ (u \in beating' <=> u \in beating) /\ (u \in foreign' <=> u \in foreign)
    BY <1>2, <1>4, <1>8 DEF TypeOK
  <2>3. /\ \A q \in Process : mem'[q][u] = mem[q][u]
        /\ db'[u] = db[u] /\ Status(u)' = Status(u)
    BY <1>3, <1>8 DEF MemOf, DbOf, Status
  <2>4. QED
    BY <1>3, <1>4, <2>1, <2>2, <2>3
       DEF Sound, Owned, RevokedIsOver, Beats, Recorded, Agrees, Result
<1>9. Sound(t)'
  <2>1. Sound(t)
    BY DEF IInv
  <2>2. /\ mode' = mode /\ owner' = owner /\ pos'[t] # "new"
        /\ pos'[t] = pos[t] \/ (pos'[t] = "done" /\ t \notin beating')
        /\ t \in beating' => t \in beating
        /\ t \in revoked' => pos'[t] = "done"
    <3>1. CASE UNCHANGED <<pos, revoked>>
      BY <1>2, <1>4, <2>1, <3>1 DEF Sound, RevokedIsOver
    <3>2. CASE pos' = [pos EXCEPT ![t] = "done"]
      BY <1>2, <1>4, <3>2 DEF TypeOK
    <3>3. QED
      BY <1>4, <3>1, <3>2
  <2>3. Owned(t)' /\ RevokedIsOver(t)' /\ Beats(t)'
    BY <1>2, <2>1, <2>2 DEF Sound, Owned, RevokedIsOver, Beats
  <2>4. Recorded(t)'
    BY <1>3, Statuses DEF Recorded
  <2>5. mem'[p][t] = "CANCELLED" /\ (owner[t] # p => t \in foreign')
    BY <1>3, <1>4 DEF MemOf
  <2>6. Agrees(t)'
    BY <1>3, <2>2, <2>5 DEF Agrees
  <2>7. ASSUME Status(t)' = "COMPLETED"
        PROVE  /\ pos'[t] = "done" /\ t \notin revoked'
               /\ owner[t] \in Alive' /\ t \notin foreign' => mem'[owner[t]][t] \in Terminal
    <3>1. Status(t) = "COMPLETED"
      BY <1>3, <2>7
    <3>2. pos[t] = "done" /\ t \notin revoked
      BY <2>1, <3>1 DEF Sound, Result
    <3>3. pos'[t] = "done" /\ t \notin revoked'
      BY <1>4, <3>2
    <3>4. QED
      BY <2>5, <3>3, Statuses
  <2>8. Result(t)'
    BY <2>2, <2>7 DEF Result
  <2>9. QED
    BY <2>3, <2>4, <2>6, <2>8 DEF Sound
<1>10. QED
  BY <1>5, <1>6, <1>7, <1>8, <1>9 DEF IInv

(* cancel_task refuses an ended task. *)
LEMMA RefusedStep ==
    ASSUME IInv, NEW r \in Reader, CancelRefused(r)
    PROVE  IInv'
<1>1. /\ request' = [request EXCEPT ![r] = None]
      /\ UNCHANGED <<db, mem, mode, recovery, pending, owner, pos, tracked, revoked, beating,
                     deaths, faults, foreign>>
  BY DEF CancelRefused, procs, threads
<1>2. TypeOK' /\ Listed' /\ Asked'
  BY <1>1 DEF IInv, TypeOK, Listed, Asked
<1>3. QED
  BY <1>1, <1>2, KeptTasks DEF IInv

-----------------------------------------------------------------------------
(* shutdown() begins: the process stays alive. *)
LEMMA StopStep ==
    ASSUME IInv, NEW p \in Process, Stop(p)
    PROVE  IInv'
<1>1. /\ TypeOK /\ Listed /\ Asked /\ mode[p] = "up"
      /\ mode' = [mode EXCEPT ![p] = "stopping"]
      /\ pending' = [pending EXCEPT ![p] = {t \in tracked : owner[t] = p}]
      /\ deaths' \in 0..MaxDeaths
      /\ UNCHANGED <<db, mem, recovery, owner, pos, tracked, revoked, beating, request,
                     faults, foreign>>
  BY BoundAssumption DEF IInv, TypeOK, Stop, threads
<1>2. TypeOK' /\ Listed'
  BY <1>1 DEF TypeOK, Mode, Listed
<1>3. Asked'
  BY <1>1 DEF Asked, TypeOK, Submitting
<1>4. Alive' = Alive
  BY <1>1 DEF Alive, TypeOK
<1>5. ASSUME NEW t \in Task PROVE Sound(t)'
  <2>1. Sound(t) /\ Status(t)' = Status(t)
    BY <1>1 DEF IInv, Status
  <2>2. /\ pos[t] # "new" => /\ owner[t] \in Process
                             /\ mode[owner[t]] \notin {"off", "starting"}
                             /\ mode'[owner[t]] \notin {"off", "starting"}
                             /\ mode[owner[t]] \in {"stopping", "closed"}
                                  => mode'[owner[t]] = mode[owner[t]]
        /\ pos[t] = "new" => t \notin beating
    BY <1>1, <2>1 DEF Sound, Owned, TypeOK
  <2>3. Owned(t)' /\ RevokedIsOver(t)' /\ Beats(t)' /\ Recorded(t)'
    BY <1>1, <2>1, <2>2 DEF Sound, Owned, RevokedIsOver, Beats, Recorded
  <2>4. Agrees(t)' /\ Result(t)'
    BY <1>1, <1>4, <2>1 DEF Sound, Agrees, Result
  <2>5. QED
    BY <2>3, <2>4 DEF Sound
<1>6. QED
  BY <1>2, <1>3, <1>5 DEF IInv

(* The executor is shut: its waiting tasks are dropped. *)
LEMMA CloseStep ==
    ASSUME IInv, NEW p \in Process, Close(p)
    PROVE  IInv'
<1>1. /\ TypeOK /\ Listed /\ Asked /\ mode[p] = "stopping"
      /\ mode' = [mode EXCEPT ![p] = "closed"]
      /\ pos' = [t \in Task |-> IF owner[t] = p /\ pos[t] = "waiting"
                                THEN "dropped" ELSE pos[t]]
      /\ UNCHANGED <<db, mem, recovery, pending, owner, tracked, revoked, beating, request,
                     deaths, faults, foreign>>
  BY DEF IInv, Close
<1>2. TypeOK' /\ Listed'
  BY <1>1 DEF TypeOK, Mode, Position, Listed
<1>3. Asked'
  BY <1>1 DEF Asked, TypeOK, Submitting, Request
<1>4. Alive' = Alive
  BY <1>1 DEF Alive, TypeOK
<1>5. ASSUME NEW t \in Task PROVE Sound(t)'
  <2>1. Sound(t) /\ Status(t)' = Status(t)
    BY <1>1 DEF IInv, Status
  <2>2. /\ pos[t] # "new" => /\ owner[t] \in Process
                             /\ mode[owner[t]] \notin {"off", "starting"}
                             /\ mode'[owner[t]] \notin {"off", "starting"}
                             /\ mode[owner[t]] \in {"stopping", "closed"}
                                  => mode'[owner[t]] \in {"stopping", "closed"}
        /\ pos[t] = "new" => t \notin beating
        /\ pos'[t] = pos[t] \/ /\ pos[t] = "waiting" /\ pos'[t] = "dropped"
                               /\ mode'[owner[t]] = "closed"
    BY <1>1, <2>1 DEF Sound, Owned, TypeOK
  <2>3. Owned(t)' /\ RevokedIsOver(t)' /\ Beats(t)' /\ Recorded(t)'
    BY <1>1, <2>1, <2>2 DEF Sound, Owned, RevokedIsOver, Beats, Recorded
  <2>4. Agrees(t)' /\ Result(t)'
    BY <1>1, <1>4, <2>1, <2>2 DEF Sound, Agrees, Result
  <2>5. QED
    BY <2>3, <2>4 DEF Sound
<1>6. QED
  BY <1>2, <1>3, <1>5 DEF IInv

(* A process is gone: its tasks are lost, unless they had ended. *)
LEMMA DieStep ==
    ASSUME IInv, NEW p \in Process, Crash(p) \/ Exit(p)
    PROVE  IInv'
<1>1. TypeOK /\ Listed /\ Asked /\ Die(p) /\ deaths' \in 0..MaxDeaths
      /\ mode[p] # "off"
  BY BoundAssumption DEF IInv, TypeOK, Crash, Exit
<1>2. /\ mode' = [mode EXCEPT ![p] = "dead"]
      /\ recovery' = [recovery EXCEPT ![p] = None]
      /\ pending' = [pending EXCEPT ![p] = {}]
      /\ mem' = [mem EXCEPT ![p] = [t \in Task |-> None]]
      /\ pos' = [t \in Task |-> IF owner[t] = p /\ pos[t] # "done" THEN "lost" ELSE pos[t]]
      /\ beating' = {t \in beating : owner[t] # p}
      /\ request' = [r \in Reader |->
                       IF request[r] # None /\ request[r].process = p THEN None ELSE request[r]]
      /\ UNCHANGED <<db, owner, tracked, revoked, faults, foreign>>
  BY <1>1 DEF Die
<1>3. TypeOK'
  <2>1. [t \in Task |-> None] \in [Task -> Active \cup Terminal \cup {None}]
    OBVIOUS
  <2>2. mem' \in [Process -> [Task -> Active \cup Terminal \cup {None}]]
    BY <1>1, <1>2, <2>1 DEF TypeOK
  <2>3. QED
    BY <1>1, <1>2, <2>2 DEF TypeOK, Mode, Position
<1>4. Listed'
  BY <1>1, <1>2 DEF TypeOK, Listed
<1>5. Asked'
  <2> SUFFICES ASSUME NEW r \in Reader, request'[r] # None
               PROVE  /\ mode'[request'[r].process] \in Submitting
                      /\ pos'[request'[r].task] # "new"
    BY DEF Asked
  <2>1. request'[r] = request[r] /\ request[r] # None /\ request[r].process # p
    BY <1>2
  <2>2. /\ request[r].process \in Process /\ request[r].task \in Task
        /\ mode[request[r].process] \in Submitting
        /\ pos[request[r].task] # "new"
    BY <1>1, <2>1 DEF TypeOK, Request, Asked
  <2>3. QED
    BY <1>1, <1>2, <2>1, <2>2 DEF TypeOK
<1>6. ASSUME NEW t \in Task PROVE Sound(t)'
  <2>1. Sound(t) /\ Status(t)' = Status(t)
    BY <1>2 DEF IInv, Status
  <2>2. /\ \A q \in Process : q # p => mem'[q][t] = mem[q][t] /\ mode'[q] = mode[q]
        /\ mem'[p][t] = None /\ mode'[p] = "dead"
    BY <1>1, <1>2 DEF TypeOK
  <2>3. CASE owner[t] = p
    <3>1. /\ pos[t] # "new" /\ pos'[t] # "new" /\ t \notin beating'
          /\ pos'[t] = "done" <=> pos[t] = "done"
          /\ p \notin Alive'
      BY <1>2, <2>1, <2>2, <2>3, NoneAssumption DEF Sound, Owned, Alive
    <3>2. QED
      BY <1>2, <2>1, <2>2, <2>3, <3>1
         DEF Sound, Owned, RevokedIsOver, Beats, Recorded, Agrees, Result
  <2>4. CASE owner[t] # p
    <3>1. /\ pos'[t] = pos[t] /\ (t \in beating' <=> t \in beating)
          /\ owner[t] \in Alive' <=> owner[t] \in Alive
          /\ owner[t] \in Alive => owner[t] \in Process
      BY <1>2, <2>2, <2>4 DEF Alive
    <3>2. Owned(t)'
      BY <1>2, <2>1, <2>2, <2>4, <3>1 DEF Sound, Owned
    <3>3. Beats(t)'
      BY <1>2, <2>1, <2>2, <2>4, <3>1 DEF Sound, Owned, Beats
    <3>4. QED
      BY <1>2, <2>1, <2>2, <2>4, <3>1, <3>2, <3>3
         DEF Sound, RevokedIsOver, Recorded, Agrees, Result
  <2>5. QED
    BY <2>3, <2>4
<1>7. QED
  BY <1>3, <1>4, <1>5, <1>6 DEF IInv

-----------------------------------------------------------------------------
(* IInv is inductive. *)
LEMMA InvStep == IInv /\ [Next]_vars => IInv'
<1> SUFFICES ASSUME IInv, [Next]_vars PROVE IInv'
  OBVIOUS
<1>1. CASE UNCHANGED vars
  <2>1. UNCHANGED <<db, mem, mode, recovery, pending, owner, pos, tracked, revoked, beating,
                    request, deaths, faults, foreign>>
    BY <1>1 DEF vars, procs, threads
  <2>2. TypeOK' /\ Listed' /\ Asked'
    BY <2>1 DEF IInv, TypeOK, Listed, Asked
  <2>3. QED
    BY <2>1, <2>2, KeptTasks DEF IInv
<1>2. ASSUME NEW p \in Process,
             \/ Start(p) \/ RecoverSelect(p) \/ Recover(p) \/ Stop(p) \/ Shutdown(p) \/ Crash(p)
             \/ \E t \in Task : Submit(p, t) \/ SubmitFault(p, t)
      PROVE  IInv'
  BY <1>2, SelectStep, RecoverWriteStep, RecoverRememberStep, StopStep, StopTaskStep, CloseStep,
     DieStep, SubmitStep DEF Recover, Shutdown
<1>3. ASSUME NEW t \in Task,
             \/ Thread(t) \/ Track(t) \/ Progress(t) \/ ThreadFault(t)
             \/ Heartbeat(t) \/ Lapse(t)
      PROVE  IInv'
  <2>1. CASE Reject(t)
    BY <2>1, SavingStep, FailingStep DEF Reject, Update
  <2>2. QED
    BY <1>3, <2>1, SavingStep, FailingStep, QuietTaskStep DEF Thread
<1>4. ASSUME NEW r \in Reader,
             \/ Load(r) \/ Cancel(r) \/ CancelRefused(r)
             \/ \E p \in Process, t \in Task : Read(r, p, t)
      PROVE  IInv'
  BY <1>4, LoadStep, CancelStep, RefusedStep, ReadStep
<1>5. QED
  BY <1>1, <1>2, <1>3, <1>4 DEF Next

(* The inductive invariant holds in every reachable state. *)
THEOREM IInvHolds == Spec => []IInv
  BY InitInv, InvStep, PTL DEF Spec

(* Rows, memories, threads and requests keep to their ranges. *)
THEOREM TypeCorrect == Spec => []TypeOK
<1>1. IInv => TypeOK
  BY DEF IInv
<1>2. QED
  BY <1>1, IInvHolds, PTL

(* While the database answers, an ended task has a terminal row. *)
THEOREM Recording == Spec => []EndedIsRecorded
<1>1. IInv => EndedIsRecorded
  BY DEF IInv, Sound, Recorded, EndedIsRecorded
<1>2. QED
  BY <1>1, IInvHolds, PTL

(* The owner's memory is its rows, but for foreign steps and failing calls. *)
THEOREM CacheCoherence == Spec => []CacheAgrees
<1>1. IInv => CacheAgrees
  BY DEF IInv, Sound, Agrees, CacheAgrees
<1>2. QED
  BY <1>1, IInvHolds, PTL

(* Heartbeats belong to tasks with a thread or to stopping processes. *)
THEOREM HeartbeatsEnd == Spec => []BeatsForWork
<1>1. ASSUME IInv, NEW t \in beating
      PROVE  \/ pos[t] \in {"registered", "waiting", "running"}
             \/ mode[owner[t]] \in {"stopping", "closed"}
  <2>1. t \in Task
    BY <1>1 DEF IInv, TypeOK
  <2>2. QED
    BY <1>1, <2>1 DEF IInv, Sound, Beats
<1>2. IInv => BeatsForWork
  BY <1>1 DEF BeatsForWork
<1>3. QED
  BY <1>2, IInvHolds, PTL

-----------------------------------------------------------------------------
(* Who changes the status of a row whose task has left its thread.         *)
LEMMA RowWriters ==
    ASSUME IInv, Next, NEW t \in Task,
           pos[t] \notin {"new", "registered", "waiting", "running"}
    PROVE  \/ Status(t)' = Status(t)
           \/ Status(t)' = "FAILED" /\ (t \in revoked \/ t \in foreign')
           \/ /\ Status(t)' = "CANCELLED"
              /\ \E r \in Reader : Cancel(r) /\ request[r].task = t
<1>1. TypeOK /\ Sound(t)
  BY DEF IInv
<1>2. ASSUME NEW u \in Task, u # t, DbOf(u) PROVE Status(t)' = Status(t)
  BY <1>2 DEF DbOf, Status
<1>3. ASSUME UNCHANGED db PROVE Status(t)' = Status(t)
  BY <1>3 DEF Status
<1>4. ASSUME NEW p \in Process, NEW u \in Task, NEW s \in Active \cup Terminal,
             u # t, Save(p, u, s)
      PROVE  Status(t)' = Status(t)
  BY <1>1, <1>2, <1>4, SaveFacts
<1>5. ASSUME NEW p \in Process, NEW u \in Task, Submit(p, u) \/ SubmitFault(p, u)
      PROVE  Status(t)' = Status(t)
  <2>1. u # t
    BY <1>5 DEF Submit, SubmitFault
  <2>2. QED
    BY <1>3, <1>4, <1>5, <2>1, Statuses DEF Submit, SubmitFault, SaveFails
<1>6. ASSUME NEW u \in Task, Thread(u) \/ Progress(u) \/ ThreadFault(u) \/ Track(u)
      PROVE  Status(t)' = Status(t)
  <2>1. CASE Enqueue(u) \/ Track(u)
    BY <1>3, <2>1 DEF Enqueue, Track
  <2>2. CASE Reject(u) \/ Begin(u) \/ BeginStopped(u) \/ Finish(u) \/ Progress(u) \/ ThreadFault(u)
    <3>1. pos[u] \in {"registered", "waiting", "running"}
      BY <2>2 DEF Reject, Begin, BeginStopped, Finish, Progress, ThreadFault
    <3>2. owner[u] \in Process /\ u # t
      BY <3>1, Submitted
    <3>3. \/ \E s \in {"RUNNING", "COMPLETED", "FAILED"} : Save(owner[u], u, s)
          \/ UNCHANGED db
      BY <2>2 DEF Reject, Begin, BeginStopped, Finish, Progress, ThreadFault, Update, SaveFails
    <3>4. QED
      BY <1>3, <1>4, <3>2, <3>3, Statuses
  <2>3. QED
    BY <1>6, <2>1, <2>2 DEF Thread
<1>7. ASSUME NEW u \in Task, Heartbeat(u) \/ Lapse(u)
      PROVE  Status(t)' = Status(t)
  <2>1. PICK l \in {"live", "expired"} : db' = [db EXCEPT ![u] = [db[u] EXCEPT !.lease = l]]
    BY <1>7 DEF Heartbeat, Lapse
  <2>2. CASE u # t
    BY <1>1, <2>1, <2>2 DEF TypeOK, Status
  <2>3. CASE u = t
    <3>1. db[t] \in Record /\ db'[t] = [db[t] EXCEPT !.lease = l]
      BY <1>1, <1>7, <2>1, <2>3 DEF Heartbeat, Lapse, TypeOK
    <3>2. db'[t] \in Record /\ db'[t].status = db[t].status
      BY <3>1 DEF Record
    <3>3. QED
      BY <3>1, <3>2, RecordFacts DEF Status
  <2>4. QED
    BY <2>2, <2>3
<1>8. ASSUME NEW p \in Process, RecoverWrite(p)
      PROVE  \/ Status(t)' = Status(t)
             \/ Status(t)' = "FAILED" /\ t \in foreign'
  <2>1. CASE t \notin recovery[p].ids
    BY <1>8, <2>1 DEF RecoverWrite, Status
  <2>2. CASE t \in recovery[p].ids
    <3>1. db[t] # None
      BY <1>8, <2>2 DEF IInv, Listed, RecoverWrite
    <3>2. db[t] \in Record /\ db'[t] = [db[t] EXCEPT !.status = "FAILED"]
      BY <1>1, <1>8, <2>2, <3>1 DEF RecoverWrite, TypeOK
    <3>3. db'[t] \in Record /\ db'[t].status = "FAILED"
      BY <3>2, Statuses DEF Record
    <3>4. QED
      BY <1>8, <2>2, <3>3, RecordFacts DEF RecoverWrite, Status
  <2>3. QED
    BY <2>1, <2>2
<1>9. ASSUME NEW p \in Process, NEW u \in Task, StopTask(p, u)
      PROVE  \/ Status(t)' = Status(t)
             \/ Status(t)' = "FAILED" /\ t \in revoked
  <2>1. CASE u # t
    BY <1>3, <1>4, <1>9, <2>1, Statuses DEF StopTask
  <2>2. CASE u = t
    BY <1>1, <1>3, <1>9, <2>2, SaveFacts, Statuses DEF StopTask
  <2>3. QED
    BY <2>1, <2>2
<1>10. ASSUME NEW r \in Reader, Cancel(r)
       PROVE  \/ Status(t)' = Status(t)
              \/ Status(t)' = "CANCELLED" /\ request[r].task = t
  <2>1. PICK p \in Process, u \in Task : p = request[r].process /\ u = request[r].task
    BY <1>10 DEF IInv, TypeOK, Cancel, Cancellable, Request
  <2>2. DbOf(u) /\ Status(u)' \in {"CANCELLED", Status(u)}
    BY <1>10, <2>1, CancelFacts
  <2>3. QED
    BY <1>2, <2>1, <2>2
<1>11. ASSUME NEW p \in Process,
              Start(p) \/ RecoverSelect(p) \/ RecoverRemember(p) \/ Stop(p) \/ Close(p)
                \/ Exit(p) \/ Crash(p)
       PROVE  Status(t)' = Status(t)
  BY <1>3, <1>11 DEF Start, RecoverSelect, RecoverRemember, Stop, Close, Exit, Crash, Die
<1>12. ASSUME NEW r \in Reader,
              Load(r) \/ CancelRefused(r) \/ \E p \in Process, u \in Task : Read(r, p, u)
       PROVE  Status(t)' = Status(t)
  BY <1>3, <1>12 DEF Load, CancelRefused, Read
<1>13. QED
  BY <1>5, <1>6, <1>7, <1>8, <1>9, <1>10, <1>11, <1>12 DEF Next, Recover, Shutdown

(* Ended and lost tasks do not come back. *)
THEOREM NoReturn == Spec => NoResurrection
<1>1. ASSUME IInv, [Next]_vars, NEW t \in Task,
             pos[t] \in {"done", "dropped", "lost"}, Status(t) \in Terminal
      PROVE  Status(t)' \in Terminal
  <2>1. CASE Next
    BY <1>1, <2>1, RowWriters, Statuses
  <2>2. CASE UNCHANGED vars
    BY <1>1, <2>2 DEF vars, Status
  <2>3. QED
    BY <1>1, <2>1, <2>2
<1>2. IInv /\ [Next]_vars =>
        [\A t \in Task : pos[t] \in {"done", "dropped", "lost"} /\ Status(t) \in Terminal
                            => Status(t)' \in Terminal]_vars
  BY <1>1
<1>3. QED
  BY <1>2, IInvHolds, PTL DEF Spec, NoResurrection

(* A result goes only to an intruder from outside the owner's lock. *)
THEOREM ResultsStay == Spec => ResultKept
<1>1. ASSUME IInv, Next, NEW t \in Task, Status(t) = "COMPLETED"
      PROVE  Status(t)' = "COMPLETED" \/ t \in foreign'
  <2>1. /\ pos[t] = "done" /\ t \notin revoked
        /\ owner[t] \in Alive /\ t \notin foreign => mem[owner[t]][t] \in Terminal
    BY <1>1 DEF IInv, Sound, Result
  <2>2. ASSUME NEW r \in Reader, Cancel(r), request[r].task = t
        PROVE  t \in foreign'
    <3>1. PICK p \in Process : p = request[r].process
      BY <1>1, <2>2 DEF IInv, TypeOK, Cancel, Cancellable, Request
    <3>2. mode[p] \in Submitting /\ mem[p][t] \in Active
      BY <1>1, <2>2, <3>1 DEF IInv, Asked, Cancel, Cancellable
    <3>3. CASE p = owner[t]
      <4>1. owner[t] \in Alive
        BY <3>2, <3>3 DEF Alive, Submitting
      <4>2. t \in foreign
        BY <2>1, <3>2, <3>3, <4>1, Statuses
      <4>3. QED
        BY <2>2, <3>1, <3>3, <4>2 DEF Cancel
    <3>4. CASE p # owner[t]
      BY <2>2, <3>1, <3>4 DEF Cancel
    <3>5. QED
      BY <3>3, <3>4
  <2>3. QED
    BY <1>1, <2>1, <2>2, RowWriters
<1>2. ASSUME IInv, [Next]_vars, NEW t \in Task, Status(t) = "COMPLETED"
      PROVE  (Status(t)' = "COMPLETED" \/ t \in foreign') \/ UNCHANGED vars
  BY <1>1, <1>2
<1>3. IInv /\ [Next]_vars =>
        [\A t \in Task : Status(t) = "COMPLETED"
                            => Status(t)' = "COMPLETED" \/ t \in foreign']_vars
  BY <1>2
<1>4. QED
  BY <1>3, IInvHolds, PTL DEF Spec, ResultKept
=============================================================================
