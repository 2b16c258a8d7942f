-------------------------- MODULE PostPassJobsProofs --------------------------
(***************************************************************************)
(* Proofs about PostPassJobs, for every set of jobs, workers, monitors and *)
(* clients and every lease, backoff and wait window.                       *)
(*                                                                         *)
(* ClaimHeld is not inductive alone: that nobody else can claim a held job *)
(* follows from its status, which the row keeps only while it exists, and  *)
(* the worker's stage must say which jobs it holds.  IInv adds both.       *)
(***************************************************************************)
EXTENDS PostPassJobs, TLAPS

Working == {"searching", "ingesting", "created", "failing"}

(* What the stage of a worker says about its batch. *)
Control ==
    \A w \in Worker :
        /\ at[w] \in {"idle", "called"} => batch[w] = {}
        /\ at[w] \in Working => current[w] \in batch[w]

(* Rows vanish only with their AOI, and then for good. *)
RowsGone ==
    /\ \A j \in aoiGone : row[j] = None
    /\ \A w \in Worker : \A j \in batch[w] : row[j] = None => j \in aoiGone

(* A row that carries a claim shows it. *)
ClaimShows ==
    \A j \in Job \ aoiGone :
        claimant[j] = None \/ (row[j] # None /\ row[j].status \in Claimed)

IInv == TypeOK /\ Control /\ RowsGone /\ ClaimShows /\ ClaimHeld

-----------------------------------------------------------------------------
(* Updates of single columns. *)

LEMMA FieldTypes ==
    ASSUME NEW r \in Row
    PROVE  /\ r # None
           /\ r.status \in Active \cup Terminal /\ r.deleted \in BOOLEAN
           /\ r.polled \in Nat \cup {None} /\ r.next \in Nat \cup {None}
  BY NoneAssumption DEF Row

(* An update of the status alone. *)
LEMMA SetStatus ==
    ASSUME NEW r \in Row, NEW s \in Active \cup Terminal
    PROVE  /\ [r EXCEPT !.status = s] \in Row
           /\ [r EXCEPT !.status = s].status = s
           /\ [r EXCEPT !.status = s].polled = r.polled
  BY DEF Row

(* An update of deleted_at alone. *)
LEMMA SetDeleted ==
    ASSUME NEW r \in Row, NEW d \in BOOLEAN
    PROVE  /\ [r EXCEPT !.deleted = d] \in Row
           /\ [r EXCEPT !.deleted = d].status = r.status
           /\ [r EXCEPT !.deleted = d].polled = r.polled
  BY DEF Row

(* The statuses, as far as the steps tell them apart. *)
LEMMA Statuses ==
    /\ {"PENDING_PASS", "POLLING_CATALOG", "QUERYING_CATALOG", "INGESTING",
        "COMPLETED", "TIMED_OUT"} \subseteq Active \cup Terminal
    /\ "QUERYING_CATALOG" \in Claimed /\ "INGESTING" \in Claimed
    /\ \A s \in Waiting \cup Terminal : s \notin Claimed
    /\ "PENDING_PASS" \in Waiting /\ "POLLING_CATALOG" \in Waiting
    /\ "TIMED_OUT" \in Terminal /\ "COMPLETED" \in Terminal
  BY DEF Active, Terminal, Claimed, Waiting

-----------------------------------------------------------------------------
(* What the bulk updates do to one row. *)

LEMMA ExpiredRow ==
    ASSUME TypeOK, NEW j \in Job
    PROVE  /\ Expired(row)[j] \in Row \cup {None}
           /\ \/ Expired(row)[j] = row[j]
              \/ /\ row[j] # None /\ row[j].status \in Waiting
                 /\ Expired(row)[j] # None /\ Expired(row)[j].status = "TIMED_OUT"
<1>1. row[j] \in Row \cup {None}
  BY DEF TypeOK
<1>2. CASE /\ row[j] # None /\ ~row[j].deleted
           /\ row[j].status \in Waiting
           /\ Expected[j] + MaxWait <= clock
  <2>1. Expired(row)[j] = [row[j] EXCEPT !.status = "TIMED_OUT", !.next = None]
    BY <1>2 DEF Expired
  <2>2. row[j] \in Row
    BY <1>1, <1>2
  <2>3. /\ Expired(row)[j] \in Row
        /\ Expired(row)[j].status = "TIMED_OUT"
    BY <2>1, <2>2, Statuses DEF Row
  <2>4. QED
    BY <1>2, <2>3, FieldTypes
<1>3. CASE ~ (/\ row[j] # None /\ ~row[j].deleted
              /\ row[j].status \in Waiting
              /\ Expected[j] + MaxWait <= clock)
  BY <1>1, <1>3 DEF Expired
<1>4. QED
  BY <1>2, <1>3

(* The due query starts the polling of a pending row or leaves it. *)
LEMMA PassEndedRow ==
    ASSUME NEW rows \in [Job -> Row \cup {None}], NEW j \in Job
    PROVE  /\ PassEnded(rows)[j] \in Row \cup {None}
           /\ \/ PassEnded(rows)[j] = rows[j]
              \/ /\ rows[j] # None /\ rows[j].status = "PENDING_PASS"
                 /\ PassEnded(rows)[j] # None
                 /\ PassEnded(rows)[j].status = "POLLING_CATALOG"
<1>1. rows[j] \in Row \cup {None}
  OBVIOUS
<1>2. CASE /\ rows[j] # None /\ ~rows[j].deleted
           /\ rows[j].status = "PENDING_PASS" /\ PollTimeReached(rows[j])
  <2>1. PassEnded(rows)[j] = [rows[j] EXCEPT !.status = "POLLING_CATALOG"]
    BY <1>2 DEF PassEnded
  <2>2. QED
    BY <1>1, <1>2, <2>1, FieldTypes, SetStatus, Statuses
<1>3. CASE ~ (/\ rows[j] # None /\ ~rows[j].deleted
              /\ rows[j].status = "PENDING_PASS" /\ PollTimeReached(rows[j]))
  BY <1>1, <1>3 DEF PassEnded
<1>4. QED
  BY <1>2, <1>3

(* Recovery reopens exactly the rows with an abandoned claim. *)
LEMMA RecoveredRow ==
    ASSUME TypeOK, NEW j \in Job
    PROVE  /\ Recovered[j] \in Row \cup {None}
           /\ ~Stale(j) => Recovered[j] = row[j]
           /\ Stale(j) => /\ row[j] # None /\ row[j].status \in Claimed
                          /\ row[j].polled + ClaimLease <= clock
                          /\ Recovered[j] # None
                          /\ Recovered[j].status = "POLLING_CATALOG"
<1>1. row[j] \in Row \cup {None} /\ clock \in Nat
  BY BoundAssumption DEF TypeOK
<1>2. CASE Stale(j)
  <2>1. Recovered[j] = [row[j] EXCEPT !.status = "POLLING_CATALOG", !.next = clock]
    BY <1>2 DEF Recovered
  <2>2. /\ row[j] # None /\ row[j].status \in Claimed
        /\ row[j].polled + ClaimLease <= clock
    BY <1>2 DEF Stale, HasStatus, Visible
  <2>3. row[j] \in Row
    BY <1>1, <2>2
  <2>4. /\ Recovered[j] \in Row
        /\ Recovered[j].status = "POLLING_CATALOG"
    BY <1>1, <2>1, <2>3, Statuses DEF Row
  <2>5. QED
    BY <1>2, <2>2, <2>4, FieldTypes
<1>3. CASE ~Stale(j)
  BY <1>1, <1>3 DEF Recovered
<1>4. QED
  BY <1>2, <1>3

-----------------------------------------------------------------------------
(* Type correctness needs Control: Write touches the row of current[w]. *)

LEMMA InitInv == Init => IInv
  BY NoneAssumption, BoundAssumption, TimeAssumption
     DEF Init, IInv, TypeOK, Control, RowsGone, ClaimShows, ClaimHeld, Stage, Working

(* Web requests and read steps keep the types. *)
LEMMA RequestTypes ==
    ASSUME TypeOK, NEW j \in Job, JobRequest(j)
    PROVE  TypeOK'
<1>1. clock \in Nat /\ Expected[j] \in Nat /\ row[j] \in Row \cup {None}
  BY BoundAssumption, TimeAssumption DEF TypeOK
<1>2. ASSUME NEW immediate \in BOOLEAN, Add(j, immediate) PROVE TypeOK'
  <2>1. row'[j] \in Row \cup {None}
    <3>1. CASE row[j] = None
      BY <1>1, <1>2, <3>1, Statuses DEF Add, TypeOK, Row
    <3>2. CASE row[j] # None
      BY <1>1, <1>2, <3>2, Statuses DEF Add, TypeOK, Row
    <3>3. QED
      BY <3>1, <3>2
  <2>2. row' \in [Job -> Row \cup {None}]
    BY <1>2, <2>1 DEF Add, TypeOK
  <2>3. QED
    BY <1>2, <2>2 DEF Add, TypeOK, workers
<1>3. ASSUME Retry(j) PROVE TypeOK'
  <2>1. row' \in [Job -> Row \cup {None}]
    BY <1>1, <1>3, Statuses DEF Retry, TypeOK, Row
  <2>2. QED
    BY <1>3, <2>1 DEF Retry, TypeOK, workers
<1>4. ASSUME RequestPoll(j) \/ LosePoll(j) PROVE TypeOK'
  BY <1>4 DEF RequestPoll, LosePoll, TypeOK, workers
<1>5. ASSUME DeleteAoi(j) PROVE TypeOK'
  BY <1>5 DEF DeleteAoi, TypeOK, workers
<1>6. ASSUME NEW c \in Client, DeleteCheck(c, j) PROVE TypeOK'
  BY <1>6 DEF DeleteCheck, TypeOK, workers
<1>7. ASSUME NEW m \in Monitor, MonitorFind(m, j) PROVE TypeOK'
  BY <1>7 DEF MonitorFind, TypeOK, workers
<1>8. QED
  BY <1>2, <1>3, <1>4, <1>5, <1>6, <1>7 DEF JobRequest

(* update() of the worker's job yields a row with its claim's time. *)
LEMMA WriteTypes ==
    ASSUME TypeOK, Control, NEW w \in Worker, at[w] \in Working,
           NEW s \in Active \cup Terminal, NEW n \in Nat \cup {None}, Write(w, s, n)
    PROVE  /\ current[w] \in batch[w] /\ current[w] \in Job
           /\ row' \in [Job -> Row \cup {None}]
           /\ row'[current[w]] \in Row
           /\ row'[current[w]].status = s /\ row'[current[w]].polled = now[w]
           /\ claimant' \in [Job -> Worker \cup {None}]
           /\ clobbered' \subseteq Job
<1>1. current[w] \in batch[w] /\ current[w] \in Job
  BY DEF TypeOK, Control
<1>2. row[current[w]] \in Row /\ now[w] \in Nat
  BY <1>1, BoundAssumption DEF Write, TypeOK
<1>3. /\ row'[current[w]] = [row[current[w]] EXCEPT !.status = s, !.polled = now[w], !.next = n]
      /\ row' = [row EXCEPT ![current[w]] = row'[current[w]]]
  BY <1>1 DEF Write, TypeOK
<1>4. /\ row'[current[w]] \in Row
      /\ row'[current[w]].status = s /\ row'[current[w]].polled = now[w]
  BY <1>2, <1>3 DEF Row
<1>5. row' \in [Job -> Row \cup {None}]
  BY <1>3, <1>4 DEF TypeOK
<1>6. /\ claimant' \in [Job -> Worker \cup {None}]
      /\ clobbered' \subseteq Job
  BY <1>1 DEF Write, TypeOK
<1>7. QED
  BY <1>1, <1>4, <1>5, <1>6

(* The steps of execute() keep the types. *)
LEMMA WorkerTypes ==
    ASSUME TypeOK, Control, NEW w \in Worker, WorkerStep(w)
    PROVE  TypeOK'
<1>1. /\ \A j \in Job : Recovered[j] \in Row \cup {None}
      /\ Recovered \in [Job -> Row \cup {None}]
      /\ clock \in Nat /\ now[w] \in Nat /\ Backoff \in Nat
  <2>1. \A j \in Job : Recovered[j] \in Row \cup {None}
    BY RecoveredRow
  <2>2. Recovered \in [Job -> Row \cup {None}]
    BY <2>1 DEF Recovered
  <2>3. QED
    BY <2>1, <2>2, BoundAssumption, TimeAssumption DEF TypeOK
<1>2. ASSUME ClaimDue(w) PROVE TypeOK'
  <2>1. \A j \in Job : PassEnded(Recovered)[j] \in Row \cup {None}
    BY <1>1, PassEndedRow
  <2>2. PICK mine \in SUBSET Due(PassEnded(Recovered)) :
          /\ row' = [j \in Job |-> IF j \in mine THEN ClaimRow(PassEnded(Recovered)[j])
                                   ELSE PassEnded(Recovered)[j]]
          /\ claimant' = [j \in Job |-> IF j \in mine THEN w
                                        ELSE IF Stale(j) THEN None ELSE claimant[j]]
          /\ batch' = [batch EXCEPT ![w] = mine]
          /\ at' = [at EXCEPT ![w] = IF mine = {} THEN "idle" ELSE "claimed"]
    BY <1>2 DEF ClaimDue
  <2>3. \A j \in mine : PassEnded(Recovered)[j] \in Row
    BY <2>1 DEF Due
  <2>4. \A j \in Job : row'[j] \in Row \cup {None}
    BY <1>1, <2>1, <2>2, <2>3, Statuses DEF ClaimRow, Row
  <2>5. row' \in [Job -> Row \cup {None}]
    BY <2>2, <2>4
  <2>6. mine \subseteq Job
    BY DEF Due
  <2>7. QED
    BY <1>2, <2>2, <2>5, <2>6 DEF ClaimDue, TypeOK, Stage, rest
<1>3. ASSUME NEW j \in Job, ClaimOne(w, j) PROVE TypeOK'
  <2>1. ASSUME Recovered[j] # None PROVE ClaimRow(Recovered[j]) \in Row
    BY <1>1, <2>1, Statuses DEF ClaimRow, Row
  <2>2. row' \in [Job -> Row \cup {None}]
    BY <1>1, <1>3, <2>1 DEF ClaimOne
  <2>3. QED
    BY <1>3, <2>2 DEF ClaimOne, TypeOK, Stage
<1>4. ASSUME NEW j \in Job, TakeJob(w, j) PROVE TypeOK'
  BY <1>4 DEF TakeJob, TypeOK, Stage, rest
<1>5. ASSUME Abort(w), UNCHANGED <<clock, row, now, claimant, clobbered>>,
             UNCHANGED <<aoiGone, asked, dispatcher, monitor, client, scans>>,
             faults' \in 0..MaxFaults, crashes' \in 0..MaxCrashes
      PROVE  TypeOK'
  BY <1>5 DEF Abort, TypeOK, Stage
<1>6. ASSUME NEW j \in Job, AoiMissing(w, j) PROVE TypeOK'
  BY <1>5, <1>6 DEF AoiMissing, rest, TypeOK
<1>7. ASSUME RowGone(w) \/ HandlerFault(w) \/ Crash(w) PROVE TypeOK'
  <2>1. faults' \in 0..MaxFaults /\ crashes' \in 0..MaxCrashes
    BY <1>7, BoundAssumption DEF RowGone, HandlerFault, Crash, rest, TypeOK
  <2>2. QED
    BY <1>5, <1>7, <2>1 DEF RowGone, HandlerFault, Crash, rest
<1>8. ASSUME Match(w) PROVE TypeOK'
  BY <1>8, WriteTypes, Statuses DEF Match, Working, TypeOK, Stage, rest
<1>9. ASSUME CreateScan(w) PROVE TypeOK'
  <2>1. current[w] \in Job /\ scans[current[w]] \in 0..MaxScans
    BY <1>9 DEF CreateScan, Control, Working, TypeOK
  <2>2. scans' \in [Job -> 0..MaxScans]
    BY <1>9, <2>1, BoundAssumption DEF CreateScan, TypeOK
  <2>3. QED
    BY <1>9, <2>2 DEF CreateScan, TypeOK, Stage
<1>10. ASSUME NextInBatch(w), UNCHANGED <<clock, now, rest>>,
              row' \in [Job -> Row \cup {None}],
              claimant' \in [Job -> Worker \cup {None}], clobbered' \subseteq Job
       PROVE  TypeOK'
  BY <1>10 DEF NextInBatch, TypeOK, Stage, rest
<1>11. ASSUME Complete(w) PROVE TypeOK'
  BY <1>10, <1>11, WriteTypes, Statuses DEF Complete, Working
<1>12. ASSUME GiveBack(w) PROVE TypeOK'
  <2>1. at[w] \in Working
    BY <1>12 DEF GiveBack, Working
  <2>2. now[w] + Backoff \in Nat \cup {None}
    BY <1>1
  <2>3. \/ Write(w, "TIMED_OUT", None)
        \/ Write(w, "POLLING_CATALOG", now[w] + Backoff)
    BY <1>12 DEF GiveBack
  <2>4. /\ row' \in [Job -> Row \cup {None}]
        /\ claimant' \in [Job -> Worker \cup {None}] /\ clobbered' \subseteq Job
    BY <2>1, <2>2, <2>3, WriteTypes, Statuses
  <2>5. QED
    BY <1>10, <1>12, <2>4 DEF GiveBack
<1>13. ASSUME UpdateFault(w) PROVE TypeOK'
  BY <1>13, BoundAssumption DEF UpdateFault, TypeOK, Stage
<1>14. ASSUME CallWorker(w) PROVE TypeOK'
  BY <1>14 DEF CallWorker, TypeOK, Stage, rest
<1>15. QED
  BY <1>2, <1>3, <1>4, <1>6, <1>7, <1>8, <1>9, <1>11, <1>12, <1>13, <1>14
     DEF WorkerStep, Execute

(* Clock, dispatcher, listing, deletion and hand-over keep the types. *)
LEMMA OtherTypes ==
    ASSUME TypeOK,
           \/ Tick \/ Dispatch \/ ListJobs
           \/ \E c \in Client : DeleteWrite(c)
           \/ \E m \in Monitor : MonitorWrite(m)
    PROVE  TypeOK'
<1>1. /\ Expired(row) \in [Job -> Row \cup {None}]
      /\ PassEnded(row) \in [Job -> Row \cup {None}]
  <2>1. \A j \in Job : Expired(row)[j] \in Row \cup {None}
    BY ExpiredRow
  <2>2. \A j \in Job : PassEnded(row)[j] \in Row \cup {None}
    BY PassEndedRow DEF TypeOK
  <2>3. QED
    BY <2>1, <2>2 DEF Expired, PassEnded
<1>2. ASSUME Tick PROVE TypeOK'
  BY <1>2, BoundAssumption DEF Tick, TypeOK, workers, rest
<1>3. ASSUME DispatchExpire PROVE TypeOK'
  BY <1>1, <1>3 DEF DispatchExpire, TypeOK, workers
<1>4. ASSUME DispatchDue PROVE TypeOK'
  BY <1>1, <1>4 DEF DispatchDue, TypeOK, Stage
<1>5. ASSUME ListJobs PROVE TypeOK'
  BY <1>1, <1>5 DEF ListJobs, TypeOK, workers, rest
<1>6. ASSUME NEW c \in Client, DeleteWrite(c) PROVE TypeOK'
  <2>1. /\ client[c] \in Job
        /\ row[client[c]] # None => [row[client[c]] EXCEPT !.deleted = TRUE] \in Row
    BY <1>6, SetDeleted DEF DeleteWrite, TypeOK
  <2>2. row' \in [Job -> Row \cup {None}]
    BY <1>6, <2>1 DEF DeleteWrite, TypeOK
  <2>3. QED
    BY <1>6, <2>2 DEF DeleteWrite, TypeOK, workers
<1>7. ASSUME NEW m \in Monitor, MonitorWrite(m) PROVE TypeOK'
  <2> DEFINE j == monitor[m].job
  <2>0. monitor[m] \in [job : Job, time : 0..MaxClock]
    BY <1>7 DEF MonitorWrite, TypeOK
  <2>1. j \in Job /\ monitor[m].time \in Nat
    BY <2>0, BoundAssumption
  <2>2. CASE row[j] = None
    <3>1. row' \in [Job -> Row \cup {None}] /\ clobbered' \subseteq Job
      BY <1>7, <2>1, <2>2 DEF MonitorWrite, TypeOK
    <3>2. QED
      BY <1>7, <2>1, <3>1 DEF MonitorWrite, TypeOK, workers
  <2>3. CASE row[j] # None
    <3>1. row[j] \in Row
      BY <2>1, <2>3 DEF TypeOK
    <3>2. [row[j] EXCEPT !.status = "POLLING_CATALOG", !.polled = None,
                         !.next = monitor[m].time] \in Row
      BY <2>1, <3>1, Statuses DEF Row
    <3>3. row' = [row EXCEPT ![j] = [row[j] EXCEPT !.status = "POLLING_CATALOG",
                                                   !.polled = None,
                                                   !.next = monitor[m].time]]
      BY <1>7, <2>1, <2>3 DEF MonitorWrite, TypeOK
    <3>4. row' \in [Job -> Row \cup {None}]
      BY <3>2, <3>3 DEF TypeOK
    <3>5. clobbered' \subseteq Job /\ claimant' \in [Job -> Worker \cup {None}]
      <4>1. /\ claimant' = [claimant EXCEPT ![j] = None]
            /\ clobbered' \subseteq clobbered \cup {j}
        BY <1>7, Zenon DEF MonitorWrite
      <4>2. QED
        BY <2>1, <4>1 DEF TypeOK
    <3>6. monitor' \in [Monitor -> [job : Job, time : 0..MaxClock] \cup {None}]
      BY <1>7 DEF MonitorWrite, TypeOK
    <3>7. UNCHANGED <<clock, at, batch, current, now, aoiGone, asked, dispatcher,
                      client, scans, faults, crashes>>
      BY <1>7 DEF MonitorWrite, workers
    <3>8. QED
      BY <3>4, <3>5, <3>6, <3>7 DEF TypeOK
  <2>4. QED
    BY <2>2, <2>3
<1>8. QED
  BY <1>2, <1>3, <1>4, <1>5, <1>6, <1>7 DEF Dispatch

(* Every step keeps the types. *)
LEMMA TypeStep == TypeOK /\ Control /\ [Next]_vars => TypeOK'
<1> SUFFICES ASSUME TypeOK, Control, [Next]_vars PROVE TypeOK'
  OBVIOUS
<1>1. CASE UNCHANGED vars
  BY <1>1 DEF TypeOK, vars, workers, rest
<1>2. CASE Next
  BY <1>2, RequestTypes, WorkerTypes, OtherTypes DEF Next
<1>3. QED
  BY <1>1, <1>2

(* Only a worker's own steps and the dispatcher's call change its stage. *)
LEMMA ControlStep == TypeOK /\ Control /\ [Next]_vars => Control'
<1> SUFFICES ASSUME TypeOK, Control, [Next]_vars PROVE Control'
  OBVIOUS
<1>1. ASSUME UNCHANGED workers PROVE Control'
  BY <1>1 DEF Control, workers
<1>2. CASE UNCHANGED vars
  BY <1>1, <1>2 DEF vars
<1>3. ASSUME NEW j \in Job, JobRequest(j) PROVE UNCHANGED workers
  BY <1>3 DEF JobRequest, Add, Retry, RequestPoll, LosePoll, DeleteAoi,
              DeleteCheck, MonitorFind
<1>4. ASSUME \/ Tick \/ DispatchExpire \/ ListJobs
             \/ \E c \in Client : DeleteWrite(c)
             \/ \E m \in Monitor : MonitorWrite(m)
      PROVE UNCHANGED workers
  BY <1>4 DEF Tick, DispatchExpire, ListJobs, DeleteWrite, MonitorWrite
<1>5. CASE DispatchDue
  BY <1>5 DEF DispatchDue, Control, Working, TypeOK
<1>6. ASSUME NEW w \in Worker, WorkerStep(w) PROVE Control'
  <2>1. CASE ClaimDue(w)
    BY <2>1 DEF ClaimDue, Control, Working, TypeOK
  <2>2. CASE \E j \in Job : ClaimOne(w, j)
    BY <2>2 DEF ClaimOne, Control, Working, TypeOK
  <2>3. CASE \E j \in Job : TakeJob(w, j)
    BY <2>3 DEF TakeJob, Control, Working, TypeOK
  <2>4. CASE Abort(w)
    BY <2>4 DEF Abort, Control, Working, TypeOK
  <2>5. CASE Match(w) \/ CreateScan(w) \/ UpdateFault(w) \/ CallWorker(w)
    BY <2>5 DEF Match, CreateScan, UpdateFault, CallWorker, Control, Working, TypeOK
  <2>6. CASE NextInBatch(w)
    BY <2>6 DEF NextInBatch, Control, Working, TypeOK
  <2>7. QED
    BY <1>6, <2>1, <2>2, <2>3, <2>4, <2>5, <2>6
       DEF WorkerStep, Execute, AoiMissing, Complete, GiveBack, RowGone, HandlerFault, Crash
<1>7. QED
  BY <1>1, <1>2, <1>3, <1>4, <1>5, <1>6 DEF Next, Dispatch

-----------------------------------------------------------------------------
(* The claims.  Three kinds of steps: those that take no job and write no  *)
(* claimed row, the claims, and a worker's update of its own job.          *)

Claims == RowsGone /\ ClaimShows /\ ClaimHeld

(* Bystanders: no job is taken and no unclobbered claim is written. *)
LEMMA BystanderStep ==
    ASSUME IInv, TypeOK',
           clock' \in {clock, clock + 1}, now' = now,
           \A w \in Worker : batch'[w] \subseteq batch[w],
           aoiGone \subseteq aoiGone', clobbered \subseteq clobbered',
           \A j \in aoiGone' : row'[j] = None,
           \A j \in Job : row'[j] = None => row[j] = None \/ j \in aoiGone',
           \A j \in Job \ aoiGone' : \/ claimant'[j] = None
                                     \/ row'[j] # None /\ row'[j].status \in Claimed,
           \A j \in Job \ clobbered' :
              row[j] # None /\ row'[j] # None /\ row[j].status \in Claimed =>
                 /\ row'[j].status \in Claimed
                 /\ row'[j].polled = row[j].polled
                 /\ claimant'[j] = claimant[j]
    PROVE  Claims'
<1>1. RowsGone'
  BY DEF IInv, RowsGone, TypeOK
<1>2. ClaimShows'
  BY DEF ClaimShows
<1>3. ASSUME NEW w \in Worker, NEW j \in batch'[w],
             ~Late(w)', j \notin clobbered', row'[j] # None
      PROVE  claimant'[j] = w /\ row'[j].status \in Claimed /\ row'[j].polled = now'[w]
  <2>1. j \in batch[w] /\ j \in Job /\ now[w] \in Nat /\ clock \in Nat
    BY <1>3, BoundAssumption DEF IInv, TypeOK
  <2>2. ~Late(w)
    BY <1>3, <2>1, TimeAssumption DEF Late
  <2>3. row[j] # None
    BY <1>3, <2>1 DEF IInv, RowsGone
  <2>4. claimant[j] = w /\ row[j].status \in Claimed /\ row[j].polled = now[w]
    BY <1>3, <2>1, <2>2, <2>3 DEF IInv, ClaimHeld
  <2>5. QED
    BY <1>3, <2>1, <2>3, <2>4
<1>4. ClaimHeld'
  BY <1>3 DEF ClaimHeld
<1>5. QED
  BY <1>1, <1>2, <1>4 DEF Claims

(* A worker with an empty batch claims rows nobody holds in time. *)
LEMMA ClaimStep ==
    ASSUME IInv, TypeOK', NEW w \in Worker, batch[w] = {}, NEW mine \in SUBSET Job,
           batch' = [batch EXCEPT ![w] = mine], now' = [now EXCEPT ![w] = clock],
           UNCHANGED <<clock, aoiGone, clobbered>>,
           \A j \in mine :
              /\ row[j] # None /\ (Stale(j) \/ row[j].status \notin Claimed)
              /\ row'[j] # None /\ row'[j].status = "QUERYING_CATALOG"
              /\ row'[j].polled = clock /\ claimant'[j] = w,
           \A j \in Job \ mine :
              \/ /\ Stale(j) /\ row'[j] # None /\ claimant'[j] = None
              \/ /\ claimant'[j] = claimant[j]
                 /\ \/ row'[j] = row[j]
                    \/ /\ row[j] # None /\ row'[j] # None
                       /\ row[j].status \notin Claimed
    PROVE  Claims'
<1>1. \A j \in Job : Stale(j) => row[j] # None
  BY DEF Stale, HasStatus, Visible
<1>2. \A j \in Job : row'[j] = None <=> row[j] = None
  BY <1>1
<1>3. RowsGone'
  <2>1. \A j \in aoiGone' : row'[j] = None
    BY <1>2 DEF IInv, RowsGone, TypeOK
  <2>2. ASSUME NEW v \in Worker, NEW j \in batch'[v], row'[j] = None
        PROVE  j \in aoiGone'
    <3>1. j \in Job
      BY <2>2 DEF TypeOK
    <3>2. row[j] = None
      BY <1>2, <2>2, <3>1
    <3>3. j \in batch[v]
      BY <2>2, <3>2 DEF IInv, TypeOK
    <3>4. QED
      BY <3>2, <3>3 DEF IInv, RowsGone
  <2>3. QED
    BY <2>1, <2>2 DEF RowsGone
<1>4. ClaimShows'
  <2>1. ASSUME NEW j \in Job \ aoiGone'
        PROVE  claimant'[j] = None \/ (row'[j] # None /\ row'[j].status \in Claimed)
    <3>1. CASE j \in mine
      BY <3>1, Statuses
    <3>2. CASE j \notin mine
      BY <3>2 DEF IInv, ClaimShows
    <3>3. QED
      BY <3>1, <3>2
  <2>2. QED
    BY <2>1 DEF ClaimShows
<1>5. ASSUME NEW v \in Worker, NEW j \in batch'[v],
             ~Late(v)', j \notin clobbered', row'[j] # None
      PROVE  claimant'[j] = v /\ row'[j].status \in Claimed /\ row'[j].polled = now'[v]
  <2>1. CASE v = w
    BY <1>5, <2>1, Statuses DEF IInv, TypeOK
  <2>2. CASE v # w
    <3>1. j \in batch[v] /\ now'[v] = now[v] /\ ~Late(v) /\ j \in Job
      BY <1>5, <2>2 DEF IInv, TypeOK, Late
    <3>2. claimant[j] = v /\ row[j].status \in Claimed /\ row[j].polled = now[v]
      BY <1>2, <1>5, <3>1 DEF IInv, ClaimHeld
    <3>3. ~Stale(j)
      BY <3>1, <3>2, BoundAssumption, TimeAssumption DEF Stale, Late, IInv, TypeOK
    <3>4. j \notin mine
      BY <3>2, <3>3
    <3>5. QED
      BY <3>1, <3>2, <3>3, <3>4
  <2>3. QED
    BY <2>1, <2>2
<1>6. ClaimHeld'
  BY <1>5 DEF ClaimHeld
<1>7. QED
  BY <1>3, <1>4, <1>6 DEF Claims

(* A worker updates its current job. *)
LEMMA WriteStep ==
    ASSUME IInv, TypeOK', NEW w \in Worker, at[w] \in Working,
           NEW s \in Active \cup Terminal, NEW n \in Nat \cup {None}, Write(w, s, n),
           UNCHANGED <<clock, now, aoiGone>>,
           \A v \in Worker : batch'[v] \subseteq batch[v],
           s \in Claimed \/ current[w] \notin batch'[w]
    PROVE  Claims'
<1> DEFINE k == current[w]
<1>1. k \in batch[w] /\ k \in Job /\ row'[k] \in Row
      /\ row'[k].status = s /\ row'[k].polled = now[w]
  BY WriteTypes DEF IInv
<1>2. /\ row[k] # None /\ row'[k] # None
      /\ claimant'[k] = IF s \in Claimed THEN w ELSE None
      /\ clobbered' = IF claimant[k] = w THEN clobbered ELSE clobbered \cup {k}
      /\ \A j \in Job \ {k} : row'[j] = row[j] /\ claimant'[j] = claimant[j]
  BY <1>1, FieldTypes DEF Write, IInv, TypeOK
<1>3. RowsGone'
  BY <1>1, <1>2 DEF IInv, RowsGone, TypeOK
<1>4. ClaimShows'
  BY <1>1, <1>2 DEF IInv, ClaimShows
<1>5. ASSUME NEW v \in Worker, NEW j \in batch'[v],
             ~Late(v)', j \notin clobbered', row'[j] # None
      PROVE  claimant'[j] = v /\ row'[j].status \in Claimed /\ row'[j].polled = now'[v]
  <2>1. j \in batch[v] /\ j \in Job /\ ~Late(v) /\ j \notin clobbered
    BY <1>2, <1>5 DEF IInv, TypeOK, Late
  <2>2. row[j] # None
    BY <1>2, <1>5, <2>1
  <2>3. claimant[j] = v /\ row[j].status \in Claimed /\ row[j].polled = now[v]
    BY <2>1, <2>2 DEF IInv, ClaimHeld
  <2>4. CASE j # k
    BY <1>2, <2>1, <2>3, <2>4
  <2>5. CASE j = k
    <3>1. v = w
      BY <1>2, <1>5, <2>3, <2>5
    <3>2. s \in Claimed
      BY <1>5, <2>5, <3>1
    <3>3. QED
      BY <1>1, <1>2, <2>5, <3>1, <3>2
  <2>6. QED
    BY <2>4, <2>5
<1>6. ClaimHeld'
  BY <1>5 DEF ClaimHeld
<1>7. QED
  BY <1>3, <1>4, <1>6 DEF Claims

(* Steps that write no row leave the claims alone, also when they drop a batch. *)
LEMMA QuietStep ==
    ASSUME IInv, TypeOK', UNCHANGED <<now, row, aoiGone, claimant, clobbered>>,
           clock' \in {clock, clock + 1}, \A w \in Worker : batch'[w] \subseteq batch[w]
    PROVE  Claims'
  BY BystanderStep DEF IInv, RowsGone, ClaimShows, TypeOK

(* The bulk updates of waiting jobs write no claimed row. *)
LEMMA SweepStep ==
    ASSUME IInv, TypeOK',
           UNCHANGED <<clock, batch, now, aoiGone, claimant, clobbered>>,
           \A j \in Job : \/ row'[j] = row[j]
                          \/ /\ row[j] # None /\ row[j].status \in Waiting
                             /\ row'[j] # None
    PROVE  Claims'
<1>1. \A j \in Job : row'[j] = None <=> row[j] = None
  OBVIOUS
<1>2. \A j \in Job : row[j] # None /\ row[j].status \in Claimed => row'[j] = row[j]
  BY Statuses
<1>3. /\ \A j \in aoiGone' : row'[j] = None
      /\ \A j \in Job \ aoiGone' : \/ claimant'[j] = None
                                   \/ row'[j] # None /\ row'[j].status \in Claimed
  BY <1>1, <1>2 DEF IInv, RowsGone, ClaimShows, TypeOK
<1>4. QED
  BY <1>1, <1>2, <1>3, BystanderStep DEF IInv, TypeOK

(* The upsert of add() leaves a claimed row's claim alone. *)
LEMMA AddStep ==
    ASSUME IInv, TypeOK', NEW k \in Job, NEW immediate \in BOOLEAN, Add(k, immediate)
    PROVE  Claims'
<1>1. /\ k \notin aoiGone
      /\ UNCHANGED <<clock, batch, now, aoiGone, claimant, clobbered>>
      /\ \A j \in Job \ {k} : row'[j] = row[j]
  BY DEF Add, IInv, TypeOK, workers
<1>2. clock \in Nat /\ Expected[k] \in Nat /\ row[k] \in Row \cup {None}
  BY BoundAssumption, TimeAssumption DEF IInv, TypeOK
<1>3. row'[k] \in Row
  <2>1. CASE row[k] = None
    BY <1>2, <2>1, Statuses DEF Add, IInv, TypeOK, Row
  <2>2. CASE row[k] # None
    BY <1>2, <2>2, Statuses DEF Add, IInv, TypeOK, Row
  <2>3. QED
    BY <2>1, <2>2
<1>4. ASSUME row[k] # None, row[k].status \in Claimed
      PROVE  row'[k].status = row[k].status /\ row'[k].polled = row[k].polled
  BY <1>2, <1>4 DEF Add, IInv, TypeOK, Row, Claimed
<1>5. /\ \A j \in aoiGone' : row'[j] = None
      /\ \A j \in Job \ aoiGone' : \/ claimant'[j] = None
                                   \/ row'[j] # None /\ row'[j].status \in Claimed
  BY <1>1, <1>3, <1>4, FieldTypes DEF IInv, RowsGone, ClaimShows, TypeOK
<1>6. QED
  BY <1>1, <1>3, <1>4, <1>5, FieldTypes, BystanderStep DEF IInv, TypeOK

(* No web request disturbs a claim. *)
LEMMA RequestStep ==
    ASSUME IInv, TypeOK', NEW k \in Job, JobRequest(k)
    PROVE  Claims'
<1>1. UNCHANGED <<clock, batch, now, clobbered>>
  BY DEF JobRequest, Add, Retry, RequestPoll, LosePoll, DeleteAoi, DeleteCheck,
         MonitorFind, workers
<1>2. CASE UNCHANGED <<row, aoiGone, claimant>>
  BY <1>1, <1>2, QuietStep
<1>3. CASE \E immediate \in BOOLEAN : Add(k, immediate)
  BY <1>3, AddStep
<1>4. CASE Retry(k)
  <2>1. /\ row[k] # None /\ row[k].status = "TIMED_OUT"
        /\ row'[k] = [status |-> "POLLING_CATALOG", deleted |-> FALSE,
                      polled |-> None, next |-> clock]
        /\ \A j \in Job \ {k} : row'[j] = row[j]
        /\ UNCHANGED <<aoiGone, claimant>>
    BY <1>4 DEF Retry, HasStatus, Visible, IInv, TypeOK
  <2>2. row'[k] # None
    <3>1. clock \in Nat
      BY BoundAssumption DEF IInv, TypeOK
    <3>2. row'[k] \in Row
      BY <2>1, <3>1, Statuses DEF Row
    <3>3. QED
      BY <3>2, FieldTypes
  <2>3. row[k].status \notin Claimed
    BY <2>1, Statuses
  <2>4. /\ \A j \in aoiGone' : row'[j] = None
        /\ \A j \in Job \ aoiGone' : \/ claimant'[j] = None
                                     \/ row'[j] # None /\ row'[j].status \in Claimed
    BY <2>1, <2>3 DEF IInv, RowsGone, ClaimShows, TypeOK
  <2>5. QED
    BY <1>1, <2>1, <2>2, <2>3, <2>4, BystanderStep
<1>5. CASE DeleteAoi(k)
  <2>1. /\ row'[k] = None /\ aoiGone' = aoiGone \cup {k} /\ claimant' = claimant
        /\ \A j \in Job \ {k} : row'[j] = row[j]
    BY <1>5 DEF DeleteAoi, IInv, TypeOK
  <2>2. /\ \A j \in aoiGone' : row'[j] = None
        /\ \A j \in Job \ aoiGone' : \/ claimant'[j] = None
                                     \/ row'[j] # None /\ row'[j].status \in Claimed
    BY <2>1 DEF IInv, RowsGone, ClaimShows, TypeOK
  <2>3. QED
    BY <1>1, <2>1, <2>2, BystanderStep
<1>6. QED
  BY <1>2, <1>3, <1>4, <1>5
     DEF JobRequest, RequestPoll, LosePoll, DeleteCheck, MonitorFind

(* Neither do sweeps, deletions and hand-overs, or they clobber. *)
LEMMA OtherStep ==
    ASSUME IInv, TypeOK',
           \/ Tick \/ Dispatch \/ ListJobs
           \/ \E c \in Client : DeleteWrite(c)
           \/ \E m \in Monitor : MonitorWrite(m)
    PROVE  Claims'
<1>1. CASE Tick
  BY <1>1, QuietStep DEF Tick, workers, rest
<1>2. CASE DispatchExpire \/ ListJobs
  <2>1. \A j \in Job : \/ Expired(row)[j] = row[j]
                       \/ /\ row[j] # None /\ row[j].status \in Waiting
                          /\ Expired(row)[j] # None
    BY ExpiredRow DEF IInv
  <2>2. row' = Expired(row) /\ UNCHANGED <<clock, batch, now, aoiGone, claimant, clobbered>>
    BY <1>2 DEF DispatchExpire, ListJobs, workers, rest
  <2>3. QED
    BY <2>1, <2>2, SweepStep
<1>3. CASE DispatchDue
  <2>1. \A j \in Job : \/ PassEnded(row)[j] = row[j]
                       \/ /\ row[j] # None /\ row[j].status \in Waiting
                          /\ PassEnded(row)[j] # None
    BY PassEndedRow, Statuses DEF IInv, TypeOK
  <2>2. row' = PassEnded(row) /\ UNCHANGED <<clock, batch, now, aoiGone, claimant, clobbered>>
    BY <1>3 DEF DispatchDue
  <2>3. QED
    BY <2>1, <2>2, SweepStep
<1>4. ASSUME NEW c \in Client, DeleteWrite(c) PROVE Claims'
  <2> DEFINE k == client[c]
  <2>1. /\ k \in Job
        /\ UNCHANGED <<clock, batch, now, aoiGone, claimant, clobbered>>
        /\ \A j \in Job \ {k} : row'[j] = row[j]
        /\ row'[k] = IF row[k] = None THEN None ELSE [row[k] EXCEPT !.deleted = TRUE]
    BY <1>4 DEF DeleteWrite, IInv, TypeOK, workers
  <2>2. row[k] # None => /\ row'[k] # None /\ row'[k].status = row[k].status
                         /\ row'[k].polled = row[k].polled
    <3>1. SUFFICES ASSUME row[k] \in Row
                   PROVE  /\ row'[k] # None /\ row'[k].status = row[k].status
                          /\ row'[k].polled = row[k].polled
      BY <2>1 DEF IInv, TypeOK
    <3>2. row'[k] = [row[k] EXCEPT !.deleted = TRUE]
      BY <2>1, <3>1, FieldTypes
    <3>3. QED
      BY <3>1, <3>2, SetDeleted, FieldTypes
  <2>3. /\ \A j \in aoiGone' : row'[j] = None
        /\ \A j \in Job \ aoiGone' : \/ claimant'[j] = None
                                     \/ row'[j] # None /\ row'[j].status \in Claimed
    BY <2>1, <2>2 DEF IInv, RowsGone, ClaimShows, TypeOK
  <2>4. QED
    BY <2>1, <2>2, <2>3, BystanderStep
<1>5. ASSUME NEW m \in Monitor, MonitorWrite(m) PROVE Claims'
  <2> DEFINE k == monitor[m].job
             reopened == [row[k] EXCEPT !.status = "POLLING_CATALOG", !.polled = None,
                                        !.next = monitor[m].time]
  <2>1. /\ k \in Job /\ monitor[m].time \in Nat
        /\ row[k] # None => reopened # None
    <3>1. monitor[m] # None
      BY <1>5 DEF MonitorWrite
    <3>2. monitor[m] \in [job : Job, time : 0..MaxClock]
      BY <3>1 DEF IInv, TypeOK
    <3>3. k \in Job /\ monitor[m].time \in Nat
      BY <3>2, BoundAssumption
    <3>4. row[k] # None => row[k] \in Row
      BY <3>3 DEF IInv, TypeOK
    <3>5. row[k] \in Row => reopened \in Row
      BY <3>3, Statuses DEF Row
    <3>6. QED
      BY <3>3, <3>4, <3>5, FieldTypes
  <2>2. /\ row' = [row EXCEPT ![k] = IF row[k] = None THEN None ELSE reopened]
        /\ claimant' = [claimant EXCEPT ![k] = None]
        /\ clobbered' = IF row[k] # None /\ row[k].status # "PENDING_PASS"
                        THEN clobbered \cup {k} ELSE clobbered
        /\ UNCHANGED <<clock, batch, now, aoiGone>>
    BY <1>5, Zenon DEF MonitorWrite, workers
  <2> HIDE DEF reopened
  <2>3. /\ \A j \in Job \ {k} : row'[j] = row[j] /\ claimant'[j] = claimant[j]
        /\ row'[k] = None <=> row[k] = None
        /\ claimant'[k] = None
        /\ clobbered \subseteq clobbered'
        /\ row[k] # None /\ row[k].status # "PENDING_PASS" => k \in clobbered'
    BY <2>1, <2>2 DEF IInv, TypeOK
  <2>4. /\ \A j \in aoiGone' : row'[j] = None
        /\ \A j \in Job \ aoiGone' : \/ claimant'[j] = None
                                     \/ row'[j] # None /\ row'[j].status \in Claimed
    BY <2>1, <2>2, <2>3 DEF IInv, RowsGone, ClaimShows, TypeOK
  <2>5. "PENDING_PASS" \notin Claimed
    BY Statuses
  <2>6. QED
    BY <2>1, <2>2, <2>3, <2>4, <2>5, BystanderStep
<1>6. QED
  BY <1>1, <1>2, <1>3, <1>4, <1>5 DEF Dispatch

(* What a claim sees: abandoned claims recovered and finished passes polling. *)
LEMMA ReadyRow ==
    ASSUME IInv, NEW j \in Job, NEW rows \in {Recovered, PassEnded(Recovered)}
    PROVE  /\ rows[j] \in Row \cup {None}
           /\ \/ Stale(j) /\ rows[j] # None /\ row[j] # None
              \/ /\ ~Stale(j)
                 /\ \/ rows[j] = row[j]
                    \/ /\ row[j] # None /\ rows[j] # None
                       /\ row[j].status \notin Claimed
<1>1. Recovered \in [Job -> Row \cup {None}]
  <2>1. \A i \in Job : Recovered[i] \in Row \cup {None}
    BY RecoveredRow DEF IInv
  <2>2. QED
    BY <2>1 DEF Recovered
<1>2. /\ Recovered[j] \in Row \cup {None}
      /\ ~Stale(j) => Recovered[j] = row[j]
      /\ Stale(j) => row[j] # None /\ Recovered[j] # None
  BY RecoveredRow DEF IInv
<1>3. /\ PassEnded(Recovered)[j] \in Row \cup {None}
      /\ \/ PassEnded(Recovered)[j] = Recovered[j]
         \/ /\ Recovered[j] # None /\ Recovered[j].status = "PENDING_PASS"
            /\ PassEnded(Recovered)[j] # None
  BY <1>1, PassEndedRow
<1>4. "PENDING_PASS" \notin Claimed
  BY Statuses
<1>5. QED
  BY <1>2, <1>3, <1>4

(* A claimed row shows the claim and its time. *)
LEMMA ClaimedRow ==
    ASSUME IInv, NEW r \in Row
    PROVE  /\ ClaimRow(r) # None /\ ClaimRow(r).status = "QUERYING_CATALOG"
           /\ ClaimRow(r).polled = clock
<1>1. clock \in Nat
  BY BoundAssumption DEF IInv, TypeOK
<1>2. ClaimRow(r) \in Row
  BY <1>1, Statuses DEF ClaimRow, Row
<1>3. ClaimRow(r).status = "QUERYING_CATALOG" /\ ClaimRow(r).polled = clock
  BY DEF ClaimRow, Row
<1>4. QED
  BY <1>2, <1>3, FieldTypes

(* claim_jobs_due_for_poll is a claim in the sense of ClaimStep. *)
LEMMA ClaimDueStep ==
    ASSUME IInv, TypeOK', NEW w \in Worker, ClaimDue(w)
    PROVE  Claims'
<1> DEFINE ready == PassEnded(Recovered)
<1>1. PICK mine \in SUBSET Due(ready) :
        /\ row' = [j \in Job |-> IF j \in mine THEN ClaimRow(ready[j]) ELSE ready[j]]
        /\ claimant' = [j \in Job |-> IF j \in mine THEN w
                                      ELSE IF Stale(j) THEN None ELSE claimant[j]]
        /\ batch' = [batch EXCEPT ![w] = mine]
  BY DEF ClaimDue
<1>2. /\ batch[w] = {} /\ now' = [now EXCEPT ![w] = clock]
      /\ UNCHANGED <<clock, aoiGone, clobbered>>
  BY DEF ClaimDue, IInv, Control, rest
<1>3. mine \subseteq Job
  BY DEF Due
<1>4. \A j \in mine : ready[j] # None /\ ready[j].status = "POLLING_CATALOG"
  BY DEF Due
<1>5. \A j \in Job : /\ ready[j] \in Row \cup {None}
                     /\ \/ Stale(j) /\ ready[j] # None /\ row[j] # None
                        \/ /\ ~Stale(j)
                           /\ \/ ready[j] = row[j]
                              \/ /\ row[j] # None /\ ready[j] # None
                                 /\ row[j].status \notin Claimed
  BY ReadyRow
<1>6. \A j \in mine : /\ row[j] # None /\ (Stale(j) \/ row[j].status \notin Claimed)
                      /\ row'[j] # None /\ row'[j].status = "QUERYING_CATALOG"
                      /\ row'[j].polled = clock /\ claimant'[j] = w
  <2> SUFFICES ASSUME NEW j \in mine
               PROVE  /\ row[j] # None /\ (Stale(j) \/ row[j].status \notin Claimed)
                      /\ row'[j] # None /\ row'[j].status = "QUERYING_CATALOG"
                      /\ row'[j].polled = clock /\ claimant'[j] = w
    OBVIOUS
  <2> HIDE DEF ready
  <2>1. j \in Job /\ ready[j] \in Row
    BY <1>3, <1>4, <1>5
  <2>2. row'[j] = ClaimRow(ready[j]) /\ claimant'[j] = w
    BY <1>1, <2>1
  <2>3. row[j] # None /\ (Stale(j) \/ row[j].status \notin Claimed)
    BY <1>4, <1>5, <2>1, Statuses
  <2>4. QED
    BY <2>1, <2>2, <2>3, ClaimedRow
<1> HIDE DEF ready
<1>7. \A j \in Job \ mine : row'[j] = ready[j]
                            /\ claimant'[j] = IF Stale(j) THEN None ELSE claimant[j]
  BY <1>1
<1>8. \A j \in Job \ mine :
         \/ /\ Stale(j) /\ row'[j] # None /\ claimant'[j] = None
         \/ /\ claimant'[j] = claimant[j]
            /\ \/ row'[j] = row[j]
               \/ /\ row[j] # None /\ row'[j] # None
                  /\ row[j].status \notin Claimed
  BY <1>5, <1>7
<1>9. QED
  BY <1>1, <1>2, <1>3, <1>6, <1>8, ClaimStep

(* So is claim_job, whether it wins or not. *)
LEMMA ClaimOneStep ==
    ASSUME IInv, TypeOK', NEW w \in Worker, NEW k \in Job, ClaimOne(w, k)
    PROVE  Claims'
<1> DEFINE won == /\ Recovered[k] # None /\ ~Recovered[k].deleted
                  /\ Recovered[k].status = "POLLING_CATALOG"
           mine == IF won THEN {k} ELSE {}
<1>1. /\ row' = IF won THEN [Recovered EXCEPT ![k] = ClaimRow(Recovered[k])] ELSE Recovered
      /\ claimant' = [j \in Job |-> IF won /\ j = k THEN w
                                    ELSE IF Stale(j) THEN None ELSE claimant[j]]
      /\ batch' = [batch EXCEPT ![w] = mine]
  BY DEF ClaimOne
<1>2. /\ batch[w] = {} /\ now' = [now EXCEPT ![w] = clock]
      /\ UNCHANGED <<clock, aoiGone, clobbered>>
  BY DEF ClaimOne, IInv, Control
<1>3. \A j \in Job : /\ Recovered[j] \in Row \cup {None}
                     /\ \/ Stale(j) /\ Recovered[j] # None /\ row[j] # None
                        \/ /\ ~Stale(j)
                           /\ \/ Recovered[j] = row[j]
                              \/ /\ row[j] # None /\ Recovered[j] # None
                                 /\ row[j].status \notin Claimed
  BY ReadyRow
<1>4. ASSUME won
      PROVE  /\ row[k] # None /\ (Stale(k) \/ row[k].status \notin Claimed)
             /\ row'[k] # None /\ row'[k].status = "QUERYING_CATALOG"
             /\ row'[k].polled = clock /\ claimant'[k] = w
  <2>1. Recovered[k] \in Row
    BY <1>3, <1>4
  <2>2. row'[k] = ClaimRow(Recovered[k]) /\ claimant'[k] = w
    BY <1>1, <1>4 DEF Recovered
  <2>3. row[k] # None /\ (Stale(k) \/ row[k].status \notin Claimed)
    BY <1>3, <1>4, Statuses
  <2>4. QED
    BY <2>1, <2>2, <2>3, ClaimedRow
<1>5. \A j \in Job \ mine : row'[j] = Recovered[j]
                            /\ claimant'[j] = IF Stale(j) THEN None ELSE claimant[j]
  BY <1>1 DEF Recovered
<1>6. \A j \in Job \ mine :
         \/ /\ Stale(j) /\ row'[j] # None /\ claimant'[j] = None
         \/ /\ claimant'[j] = claimant[j]
            /\ \/ row'[j] = row[j]
               \/ /\ row[j] # None /\ row'[j] # None
                  /\ row[j].status \notin Claimed
  BY <1>3, <1>5
<1>7. mine \in SUBSET Job
  OBVIOUS
<1>8. \A j \in mine : j = k /\ won
  OBVIOUS
<1> HIDE DEF won, mine
<1>9. \A j \in mine : /\ row[j] # None /\ (Stale(j) \/ row[j].status \notin Claimed)
                      /\ row'[j] # None /\ row'[j].status = "QUERYING_CATALOG"
                      /\ row'[j].polled = clock /\ claimant'[j] = w
  BY <1>4, <1>8
<1>10. QED
  BY <1>1, <1>2, <1>6, <1>7, <1>9, ClaimStep

(* The steps of execute() keep the claims. *)
LEMMA WorkerClaims ==
    ASSUME IInv, TypeOK', NEW w \in Worker, WorkerStep(w)
    PROVE  Claims'
<1>1. CASE ClaimDue(w)
  BY <1>1, ClaimDueStep
<1>2. CASE \E j \in Job : ClaimOne(w, j)
  BY <1>2, ClaimOneStep
<1>3. CASE \E j \in Job : TakeJob(w, j)
  BY <1>3, QuietStep DEF TakeJob, rest
<1>4. CASE \/ \E j \in Job : AoiMissing(w, j)
           \/ RowGone(w) \/ HandlerFault(w) \/ Crash(w)
  <2>1. Abort(w) /\ UNCHANGED <<clock, row, now, aoiGone, claimant, clobbered>>
    BY <1>4 DEF AoiMissing, RowGone, HandlerFault, Crash, rest
  <2>2. \A v \in Worker : batch'[v] \subseteq batch[v]
    BY <2>1 DEF Abort, IInv, TypeOK
  <2>3. QED
    BY <2>1, <2>2, QuietStep
<1>5. CASE Match(w)
  <2>1. at[w] \in Working /\ Write(w, "INGESTING", None)
        /\ UNCHANGED <<clock, now, aoiGone, batch>>
    BY <1>5 DEF Match, Working, rest
  <2>2. QED
    BY <2>1, WriteStep, Statuses
<1>6. CASE CreateScan(w) \/ UpdateFault(w) \/ CallWorker(w)
  BY <1>6, QuietStep DEF CreateScan, UpdateFault, CallWorker, rest
<1>7. CASE Complete(w) \/ GiveBack(w)
  <2>1. /\ at[w] \in Working /\ NextInBatch(w)
        /\ UNCHANGED <<clock, now, aoiGone>>
    BY <1>7 DEF Complete, GiveBack, Working, rest
  <2>2. /\ \A v \in Worker : batch'[v] \subseteq batch[v]
        /\ current[w] \notin batch'[w]
    BY <2>1 DEF NextInBatch, IInv, TypeOK
  <2>3. now[w] + Backoff \in Nat \cup {None}
    BY BoundAssumption, TimeAssumption DEF IInv, TypeOK
  <2>4. \/ Write(w, "COMPLETED", None)
        \/ Write(w, "TIMED_OUT", None)
        \/ Write(w, "POLLING_CATALOG", now[w] + Backoff)
    BY <1>7 DEF Complete, GiveBack
  <2>5. QED
    BY <2>1, <2>2, <2>3, <2>4, WriteStep, Statuses
<1>8. QED
  BY <1>1, <1>2, <1>3, <1>4, <1>5, <1>6, <1>7 DEF WorkerStep, Execute

(* IInv is inductive. *)
LEMMA InvStep == IInv /\ [Next]_vars => IInv'
<1> SUFFICES ASSUME IInv, [Next]_vars PROVE IInv'
  OBVIOUS
<1>1. TypeOK' /\ Control'
  BY TypeStep, ControlStep DEF IInv
<1>2. CASE UNCHANGED vars
  BY <1>1, <1>2, QuietStep DEF vars, workers, rest, IInv, Claims
<1>3. CASE Next
  BY <1>1, <1>3, RequestStep, OtherStep, WorkerClaims DEF Next, IInv, Claims
<1>4. QED
  BY <1>2, <1>3

-----------------------------------------------------------------------------
(* The rows, workers and requests keep to their ranges. *)
THEOREM TypeCorrect == Spec => []TypeOK
<1>1. Init => IInv
  BY InitInv
<1>2. IInv /\ [Next]_vars => IInv'
  BY InvStep
<1>3. IInv => TypeOK
  BY DEF IInv
<1>4. QED
  BY <1>1, <1>2, <1>3, PTL DEF Spec

(* The inductive invariant holds in every reachable state. *)
THEOREM IInvHolds == Spec => []IInv
  BY InitInv, InvStep, PTL DEF Spec

(* A claimed job stays its worker's for ClaimLease, unless overwritten. *)
THEOREM ClaimsHold == Spec => []ClaimHeld
<1>1. IInv => ClaimHeld
  BY DEF IInv
<1>2. QED
  BY <1>1, IInvHolds, PTL

(* No two workers on one job, but for late claims and overwritten rows. *)
THEOREM Exclusion == Spec => []ExclusiveWork
<1>1. ASSUME IInv PROVE ExclusiveWork
  <2>1. ASSUME NEW j \in Job, NEW w \in Worker, NEW v \in Worker, w # v,
               j \in batch[w] \cap batch[v],
               j \notin clobbered \cup aoiGone, ~Late(w), ~Late(v)
        PROVE  FALSE
    <3>1. row[j] # None
      BY <1>1, <2>1 DEF IInv, RowsGone
    <3>2. QED
      BY <1>1, <2>1, <3>1 DEF IInv, ClaimHeld
  <2>2. QED
    BY <2>1 DEF ExclusiveWork
<1>2. QED
  BY <1>1, IInvHolds, PTL

(* Nobody writes over a claim that is still good, except a monitor. *)
LEMMA WriteClobbers ==
    ASSUME IInv, NEW w \in Worker, at[w] \in Working, NEW s, NEW n, Write(w, s, n),
           NEW j \in clobbered' \ clobbered
    PROVE  current[w] = j /\ Late(w)
<1>1. current[w] \in batch[w] /\ row[current[w]] # None
  BY DEF Write, IInv, Control
<1>2. current[w] = j /\ claimant[j] # w
  BY DEF Write
<1>3. QED
  BY <1>1, <1>2 DEF IInv, ClaimHeld

(* The first writer over a foreign job is a late worker or a monitor. *)
THEOREM OnlyLateWorkersClobber == Spec => FirstClobberIsLate
<1>1. ASSUME IInv, [Next]_vars, NEW j \in clobbered' \ clobbered
      PROVE  \/ \E w \in Worker : current[w] = j /\ Late(w)
             \/ \E m \in Monitor : monitor[m] # None /\ monitor[m].job = j
  <2>1. ~UNCHANGED clobbered
    BY <1>1
  <2>2. \/ \E w \in Worker : Match(w) \/ Complete(w) \/ GiveBack(w)
        \/ \E m \in Monitor : MonitorWrite(m)
    BY <1>1, <2>1, ZenonT(60)
       DEF Next, Tick, Dispatch, DispatchExpire, DispatchDue, ListJobs, JobRequest, Add,
           Retry, RequestPoll, LosePoll, DeleteAoi, DeleteCheck, MonitorFind, DeleteWrite,
           WorkerStep, Execute, ClaimDue, ClaimOne, TakeJob, AoiMissing, CreateScan,
           RowGone, UpdateFault, HandlerFault, Crash, CallWorker, vars
  <2>3. ASSUME NEW m \in Monitor, MonitorWrite(m)
        PROVE  monitor[m] # None /\ monitor[m].job = j
    BY <1>1, <2>3, Zenon DEF MonitorWrite
  <2>4. ASSUME NEW w \in Worker, Match(w) \/ Complete(w) \/ GiveBack(w)
        PROVE  current[w] = j /\ Late(w)
    <3>1. at[w] \in Working
      BY <2>4 DEF Match, Complete, GiveBack, Working
    <3>2. \E s, n : Write(w, s, n)
      BY <2>4 DEF Match, Complete, GiveBack
    <3>3. QED
      BY <1>1, <3>1, <3>2, WriteClobbers
  <2>5. QED
    BY <2>2, <2>3, <2>4
<1>2. IInv /\ [Next]_vars =>
        [\A j \in clobbered' \ clobbered :
            \/ \E w \in Worker : current[w] = j /\ Late(w)
            \/ \E m \in Monitor : monitor[m] # None /\ monitor[m].job = j]_vars
  BY <1>1
<1>3. QED
  BY <1>2, IInvHolds, PTL DEF Spec, FirstClobberIsLate

(* A completed job carries no claim, so whoever overwrites it clobbers it, *)
(* and its row stays unless its AOI goes.                                  *)
LEMMA CompletedStep ==
    ASSUME IInv, Next, NEW j \in Job, row[j] # None, row[j].status = "COMPLETED"
    PROVE  \/ j \in aoiGone' \/ j \in clobbered'
           \/ row'[j] # None /\ row'[j].status = "COMPLETED"
<1>1. row[j] \in Row /\ row[j] # None /\ row[j].status = "COMPLETED"
  BY DEF IInv, TypeOK
<1>2. /\ "COMPLETED" \notin Claimed /\ "COMPLETED" \notin Waiting
      /\ "COMPLETED" # "PENDING_PASS"
  BY DEF Claimed, Waiting
<1>3. claimant[j] = None
  BY <1>1, <1>2 DEF IInv, RowsGone, ClaimShows
<1>4. ASSUME row'[j] = row[j] PROVE row'[j] # None /\ row'[j].status = "COMPLETED"
  BY <1>1, <1>4
<1>5. CASE \E k \in Job : JobRequest(k)
  <2>1. PICK k \in Job : JobRequest(k)
    BY <1>5
  <2>2. CASE \E immediate \in BOOLEAN : Add(k, immediate)
    <3>1. PICK immediate \in BOOLEAN : Add(k, immediate)
      BY <2>2
    <3>2. clock \in Nat /\ Expected[k] \in Nat
      BY BoundAssumption, TimeAssumption DEF IInv, TypeOK
    <3>3. row'[j] \in Row /\ row'[j].status = "COMPLETED"
      BY <1>1, <3>1, <3>2, Statuses DEF Add, IInv, TypeOK, Row
    <3>4. QED
      BY <3>3, FieldTypes
  <2>3. CASE Retry(k)
    BY <1>1, <2>3 DEF Retry, HasStatus, IInv, TypeOK
  <2>4. CASE DeleteAoi(k)
    BY <1>1, <2>4, <1>4 DEF DeleteAoi, IInv, TypeOK
  <2>5. QED
    BY <1>4, <2>1, <2>2, <2>3, <2>4
       DEF JobRequest, RequestPoll, LosePoll, DeleteCheck, MonitorFind
<1>6. CASE Tick
  BY <1>4, <1>6 DEF Tick
<1>7. CASE Dispatch \/ ListJobs
  <2>1. Expired(row)[j] = row[j] /\ PassEnded(row)[j] = row[j]
    BY <1>1, <1>2, ExpiredRow, PassEndedRow DEF IInv, TypeOK
  <2>2. QED
    BY <1>1, <1>7, <2>1 DEF Dispatch, DispatchExpire, DispatchDue, ListJobs
<1>8. ASSUME NEW c \in Client, DeleteWrite(c)
      PROVE  row'[j] # None /\ row'[j].status = "COMPLETED"
  <2>1. row'[j] = row[j] \/ row'[j] = [row[j] EXCEPT !.deleted = TRUE]
    BY <1>1, <1>8 DEF DeleteWrite, IInv, TypeOK
  <2>2. QED
    BY <1>1, <2>1, SetDeleted, FieldTypes
<1>9. ASSUME NEW m \in Monitor, MonitorWrite(m)
      PROVE  (row'[j] # None /\ row'[j].status = "COMPLETED") \/ j \in clobbered'
  <2>1. CASE monitor[m].job = j
    BY <1>1, <1>2, <1>9, <2>1, Zenon DEF MonitorWrite
  <2>2. CASE monitor[m].job # j
    BY <1>1, <1>9, <2>2 DEF MonitorWrite, IInv, TypeOK
  <2>3. QED
    BY <2>1, <2>2
<1>10. ASSUME NEW w \in Worker, WorkerStep(w)
       PROVE  (row'[j] # None /\ row'[j].status = "COMPLETED") \/ j \in clobbered'
  <2>1. Recovered[j] = row[j] /\ PassEnded(Recovered)[j] = row[j]
    <3>1. ~Stale(j)
      BY <1>1, <1>2 DEF Stale, HasStatus
    <3>2. Recovered[j] = row[j]
      BY <3>1, RecoveredRow DEF IInv
    <3>3. PassEnded(Recovered)[j] = Recovered[j]
      BY <1>1, <1>2, <3>2 DEF PassEnded
    <3>4. QED
      BY <3>2, <3>3
  <2>2. CASE ClaimDue(w)
    <3>1. j \notin Due(PassEnded(Recovered))
      BY <1>1, <2>1 DEF Due
    <3>2. row'[j] = row[j]
      BY <2>1, <2>2, <3>1 DEF ClaimDue
    <3>3. QED
      BY <1>1, <3>2
  <2>3. CASE \E k \in Job : ClaimOne(w, k)
    <3>1. PICK k \in Job : ClaimOne(w, k)
      BY <2>3
    <3>2. row'[j] = row[j]
      <4>1. \/ row' = Recovered
            \/ /\ Recovered[k].status = "POLLING_CATALOG"
               /\ row' = [Recovered EXCEPT ![k] = ClaimRow(Recovered[k])]
        BY <3>1, Zenon DEF ClaimOne
      <4>2. Recovered[k].status = "POLLING_CATALOG" => k # j
        BY <1>1, <2>1
      <4>3. QED
        BY <2>1, <4>1, <4>2 DEF Recovered
    <3>3. QED
      BY <1>1, <3>2
  <2>4. CASE Match(w) \/ Complete(w) \/ GiveBack(w)
    <3>1. \E s, n : Write(w, s, n)
      BY <2>4 DEF Match, Complete, GiveBack
    <3>2. CASE current[w] = j
      BY <1>3, <3>1, <3>2, NoneAssumption DEF Write
    <3>3. CASE current[w] # j
      BY <1>1, <3>1, <3>3 DEF Write, IInv, TypeOK
    <3>4. QED
      BY <3>2, <3>3
  <2>5. QED
    BY <1>4, <1>10, <2>2, <2>3, <2>4
       DEF WorkerStep, Execute, TakeJob, AoiMissing, CreateScan, RowGone, UpdateFault,
           HandlerFault, Crash, CallWorker
<1>11. QED
  BY <1>5, <1>6, <1>7, <1>8, <1>9, <1>10 DEF Next

(* COMPLETED is left only with the AOI or by a clobbering writer. *)
THEOREM CompletedStays == Spec => CompletedIsFinal
<1>1. IInv /\ [Next]_vars =>
        [\A j \in Job : HasStatus(j, {"COMPLETED"}) =>
            \/ row'[j] = None
            \/ row'[j].status = "COMPLETED"
            \/ j \in clobbered']_vars
  <2>1. ASSUME IInv, Next, IInv', NEW j \in Job, HasStatus(j, {"COMPLETED"})
        PROVE  \/ row'[j] = None
               \/ row'[j].status = "COMPLETED"
               \/ j \in clobbered'
    BY <2>1, CompletedStep DEF HasStatus, Visible, IInv, RowsGone
  <2>2. QED
    BY <2>1, InvStep
<1>2. QED
  BY <1>1, IInvHolds, PTL DEF Spec, CompletedIsFinal

-----------------------------------------------------------------------------
(***************************************************************************)
(* What becomes of a claim and of a scan, on top of the claims:            *)
(* ClaimsHaveHolders and ScannedOnce.                                      *)
(***************************************************************************)
Mishap == faults + crashes > 0

(* A claimed row, deleted or not, is in somebody's batch. *)
Held ==
    \A j \in Job :
        row[j] # None /\ row[j].status \in Claimed =>
            (\E w \in Worker : j \in batch[w]) \/ Mishap \/ aoiGone # {}

(* Every scan of a job is one its worker has still to record, or the one   *)
(* the COMPLETED row records.                                              *)
Finished(j) == row[j] # None /\ row[j].status = "COMPLETED"
Scanner(w, j) == at[w] = "created" /\ current[w] = j
Excused(j) == Mishap \/ j \in clobbered \cup aoiGone
Once(j) == scans[j] = 1 /\ (Finished(j) \/ \E w \in Worker : Scanner(w, j))
Twice(j) ==
    \E w \in Worker : /\ Scanner(w, j)
                      /\ Finished(j) \/ \E v \in Worker \ {w} : Scanner(v, j)
Accounted(j) == Excused(j) \/ scans[j] = 0 \/ Once(j) \/ Twice(j)

OutcomeInv == IInv /\ Held /\ \A j \in Job : Accounted(j)

-----------------------------------------------------------------------------
(* Mishaps, deleted AOIs and overwritten jobs are never forgotten. *)
LEMMA Monotone ==
    ASSUME IInv, [Next]_vars
    PROVE  /\ Mishap => Mishap'
           /\ aoiGone \subseteq aoiGone'
           /\ clobbered \subseteq clobbered'
<1>1. faults \in Nat /\ crashes \in Nat
  BY BoundAssumption DEF IInv, TypeOK
<1>2. CASE UNCHANGED vars
  BY <1>2 DEF vars, rest, Mishap
<1>3. CASE \E k \in Job : JobRequest(k)
  BY <1>3 DEF JobRequest, Add, Retry, RequestPoll, LosePoll, DeleteAoi, DeleteCheck,
              MonitorFind, Mishap
<1>4. CASE Tick \/ Dispatch \/ ListJobs
  BY <1>4 DEF Tick, Dispatch, DispatchExpire, DispatchDue, ListJobs, rest, Mishap
<1>5. CASE \E c \in Client : DeleteWrite(c)
  BY <1>5 DEF DeleteWrite, Mishap
<1>6. CASE \E m \in Monitor : MonitorWrite(m)
  <2>1. UNCHANGED <<faults, crashes, aoiGone>> /\ clobbered \subseteq clobbered'
    BY <1>6, Zenon DEF MonitorWrite
  <2>2. QED
    BY <2>1 DEF Mishap
<1>7. ASSUME NEW w \in Worker, WorkerStep(w)
      PROVE  /\ faults' \in {faults, faults + 1} /\ crashes' \in {crashes, crashes + 1}
             /\ aoiGone' = aoiGone /\ clobbered \subseteq clobbered'
  <2>1. CASE ClaimDue(w) \/ \E j \in Job : ClaimOne(w, j) \/ TakeJob(w, j) \/ AoiMissing(w, j)
    BY <2>1 DEF ClaimDue, ClaimOne, TakeJob, AoiMissing, rest
  <2>2. CASE Match(w) \/ Complete(w) \/ GiveBack(w)
    <3>1. /\ UNCHANGED <<faults, crashes, aoiGone>>
          /\ \E s, n : Write(w, s, n)
      BY <2>2 DEF Match, Complete, GiveBack, rest
    <3>2. QED
      BY <3>1 DEF Write
  <2>3. CASE CreateScan(w) \/ RowGone(w) \/ CallWorker(w)
    BY <2>3 DEF CreateScan, RowGone, CallWorker, rest
  <2>4. CASE UpdateFault(w) \/ HandlerFault(w) \/ Crash(w)
    BY <2>4 DEF UpdateFault, HandlerFault, Crash
  <2>5. QED
    BY <1>7, <2>1, <2>2, <2>3, <2>4 DEF WorkerStep, Execute
<1>8. QED
  BY <1>1, <1>2, <1>3, <1>4, <1>5, <1>6, <1>7 DEF Next, Mishap

(* A worker at a job is at one of its batch, so its row is there or gone   *)
(* with the AOI.                                                           *)
LEMMA AtWork ==
    ASSUME IInv, NEW w \in Worker, at[w] \in Working
    PROVE  /\ current[w] \in batch[w] /\ current[w] \in Job
           /\ row[current[w]] = None => current[w] \in aoiGone
  BY DEF IInv, Control, RowsGone, TypeOK

-----------------------------------------------------------------------------
(* Claims and their holders. *)

(* Requests, sweeps, deletions and hand-overs claim nothing. *)
LEMMA NoNewClaim ==
    ASSUME IInv, NEW j \in Job, row'[j] # None, row'[j].status \in Claimed,
           \/ Tick \/ Dispatch \/ ListJobs
           \/ \E k \in Job : JobRequest(k)
           \/ \E c \in Client : DeleteWrite(c)
           \/ \E m \in Monitor : MonitorWrite(m)
    PROVE  row[j] # None /\ row[j].status \in Claimed
<1>1. /\ row[j] \in Row \cup {None} /\ clock \in Nat
      /\ "POLLING_CATALOG" \notin Claimed /\ "PENDING_PASS" \notin Claimed
      /\ "TIMED_OUT" \notin Claimed
  BY BoundAssumption, Statuses DEF IInv, TypeOK
<1>2. CASE row'[j] = row[j]
  BY <1>2
<1>3. CASE \E k \in Job : JobRequest(k)
  <2>1. PICK k \in Job : JobRequest(k)
    BY <1>3
  <2>2. CASE k # j
    BY <1>2, <2>1, <2>2
       DEF JobRequest, Add, Retry, RequestPoll, LosePoll, DeleteAoi, DeleteCheck,
           MonitorFind, IInv, TypeOK
  <2>3. CASE k = j
    <3>1. CASE \E immediate \in BOOLEAN : Add(j, immediate)
      <4>1. CASE row[j] = None
        BY <1>1, <3>1, <4>1 DEF Add, IInv, TypeOK
      <4>2. CASE row[j] # None
        <5>1. row[j] \in Row
          BY <1>1, <4>2
        <5>2. row'[j].status \in {row[j].status, "POLLING_CATALOG"}
          BY <1>1, <3>1, <4>2, <5>1 DEF Add, IInv, TypeOK, Row
        <5>3. QED
          BY <1>1, <4>2, <5>2
      <4>3. QED
        BY <4>1, <4>2
    <3>2. CASE Retry(j)
      BY <1>1, <3>2 DEF Retry, IInv, TypeOK
    <3>3. CASE DeleteAoi(j)
      BY <3>3 DEF DeleteAoi, IInv, TypeOK
    <3>4. QED
      BY <1>2, <2>1, <2>3, <3>1, <3>2, <3>3
         DEF JobRequest, RequestPoll, LosePoll, DeleteCheck, MonitorFind
  <2>4. QED
    BY <2>2, <2>3
<1>4. CASE Tick
  BY <1>2, <1>4 DEF Tick
<1>5. CASE Dispatch \/ ListJobs
  <2>1. row' = Expired(row) \/ row' = PassEnded(row)
    BY <1>5 DEF Dispatch, DispatchExpire, DispatchDue, ListJobs
  <2>2. /\ Expired(row)[j] = row[j] \/ Expired(row)[j].status = "TIMED_OUT"
        /\ PassEnded(row)[j] = row[j] \/ PassEnded(row)[j].status = "POLLING_CATALOG"
    BY ExpiredRow, PassEndedRow DEF IInv, TypeOK
  <2>3. QED
    BY <1>1, <1>2, <2>1, <2>2
<1>6. ASSUME NEW c \in Client, DeleteWrite(c)
      PROVE  row[j] # None /\ row[j].status \in Claimed
  <2>1. \/ row'[j] = row[j]
        \/ row[j] # None /\ row'[j] = [row[j] EXCEPT !.deleted = TRUE]
    BY <1>6 DEF DeleteWrite, IInv, TypeOK
  <2>2. QED
    BY <1>1, <1>2, <2>1, SetDeleted
<1>7. ASSUME NEW m \in Monitor, MonitorWrite(m)
      PROVE  row[j] # None /\ row[j].status \in Claimed
  <2>1. row' = [row EXCEPT ![monitor[m].job] =
                  IF row[monitor[m].job] = None THEN None
                  ELSE [row[monitor[m].job] EXCEPT !.status = "POLLING_CATALOG",
                            !.polled = None, !.next = monitor[m].time]]
    BY <1>7, Zenon DEF MonitorWrite
  <2>2. CASE monitor[m].job # j
    BY <1>2, <2>1, <2>2 DEF IInv, TypeOK
  <2>3. CASE monitor[m].job = j
    <3>1. /\ row[j] \in Row
          /\ row'[j] = [row[j] EXCEPT !.status = "POLLING_CATALOG",
                            !.polled = None, !.next = monitor[m].time]
      BY <1>1, <2>1, <2>3 DEF IInv, TypeOK
    <3>2. row'[j].status = "POLLING_CATALOG"
      BY <3>1 DEF Row
    <3>3. QED
      BY <1>1, <3>2
  <2>4. QED
    BY <2>2, <2>3
<1>8. QED
  BY <1>3, <1>4, <1>5, <1>6, <1>7

(* Neither does what a claim does before it claims. *)
LEMMA ReadyUnclaimed ==
    ASSUME IInv, NEW j \in Job, NEW rows \in {Recovered, PassEnded(Recovered)},
           rows[j] # None, rows[j].status \in Claimed
    PROVE  row[j] # None /\ row[j].status \in Claimed
<1>1. "POLLING_CATALOG" \notin Claimed
  BY Statuses
<1>2. Recovered[j] = row[j] \/ Recovered[j].status = "POLLING_CATALOG"
  BY RecoveredRow DEF IInv
<1>3. Recovered \in [Job -> Row \cup {None}]
  <2>1. \A i \in Job : Recovered[i] \in Row \cup {None}
    BY RecoveredRow DEF IInv
  <2>2. QED
    BY <2>1 DEF Recovered
<1>4. \/ PassEnded(Recovered)[j] = Recovered[j]
      \/ PassEnded(Recovered)[j].status = "POLLING_CATALOG"
  BY <1>3, PassEndedRow
<1>5. QED
  BY <1>1, <1>2, <1>4

(* Every step leaves claimed rows with a holder, or is a mishap. *)
LEMMA HeldStep ==
    ASSUME IInv, Held, TypeOK', [Next]_vars
    PROVE  Held'
<1> SUFFICES ASSUME NEW j \in Job, row'[j] # None, row'[j].status \in Claimed,
                    ~Mishap', aoiGone' = {}
             PROVE  \E w \in Worker : j \in batch'[w]
  BY DEF Held
<1>1. ~Mishap /\ aoiGone = {}
  BY Monotone
<1>2. ASSUME row[j] # None, row[j].status \in Claimed,
             \A v \in Worker : j \in batch[v] => j \in batch'[v]
      PROVE  \E w \in Worker : j \in batch'[w]
  BY <1>1, <1>2 DEF Held
<1>3. CASE UNCHANGED vars
  BY <1>2, <1>3 DEF vars, workers
<1>4. CASE \/ Tick \/ Dispatch \/ ListJobs
           \/ \E k \in Job : JobRequest(k)
           \/ \E c \in Client : DeleteWrite(c)
           \/ \E m \in Monitor : MonitorWrite(m)
  <2>1. UNCHANGED batch
    BY <1>4 DEF Tick, Dispatch, DispatchExpire, DispatchDue, ListJobs, JobRequest, Add,
                Retry, RequestPoll, LosePoll, DeleteAoi, DeleteCheck, MonitorFind,
                DeleteWrite, MonitorWrite, workers
  <2>2. QED
    BY <1>2, <1>4, <2>1, NoNewClaim
<1>5. ASSUME NEW w \in Worker, WorkerStep(w)
      PROVE  \E v \in Worker : j \in batch'[v]
  <2>1. CASE ClaimDue(w)
    <3> DEFINE ready == PassEnded(Recovered)
    <3>1. PICK mine \in SUBSET Due(ready) :
            /\ row' = [i \in Job |-> IF i \in mine THEN ClaimRow(ready[i]) ELSE ready[i]]
            /\ batch' = [batch EXCEPT ![w] = mine]
      BY <2>1 DEF ClaimDue
    <3>2. batch[w] = {}
      BY <2>1 DEF ClaimDue, IInv, Control
    <3>3. CASE j \in mine
      BY <3>1, <3>3 DEF IInv, TypeOK
    <3>4. CASE j \notin mine
      <4>1. row'[j] = ready[j]
        BY <3>1, <3>4
      <4>2. row[j] # None /\ row[j].status \in Claimed
        BY <4>1, ReadyUnclaimed
      <4>3. \A v \in Worker : j \in batch[v] => j \in batch'[v]
        BY <3>1, <3>2 DEF IInv, TypeOK
      <4>4. QED
        BY <1>2, <4>2, <4>3
    <3>5. QED
      BY <3>3, <3>4
  <2>2. ASSUME NEW k \in Job, ClaimOne(w, k)
        PROVE  \E v \in Worker : j \in batch'[v]
    <3> DEFINE won == /\ Recovered[k] # None /\ ~Recovered[k].deleted
                      /\ Recovered[k].status = "POLLING_CATALOG"
    <3>1. /\ row' = IF won THEN [Recovered EXCEPT ![k] = ClaimRow(Recovered[k])] ELSE Recovered
          /\ batch' = [batch EXCEPT ![w] = IF won THEN {k} ELSE {}]
      BY <2>2 DEF ClaimOne
    <3>2. batch[w] = {}
      BY <2>2 DEF ClaimOne, IInv, Control
    <3>3. CASE won /\ j = k
      BY <3>1, <3>3 DEF IInv, TypeOK
    <3>4. CASE ~(won /\ j = k)
      <4>1. row'[j] = Recovered[j]
        BY <3>1, <3>4 DEF Recovered
      <4>2. row[j] # None /\ row[j].status \in Claimed
        BY <4>1, ReadyUnclaimed
      <4>3. \A v \in Worker : j \in batch[v] => j \in batch'[v]
        BY <3>1, <3>2 DEF IInv, TypeOK
      <4>4. QED
        BY <1>2, <4>2, <4>3
    <3>5. QED
      BY <3>3, <3>4
  <2>3. CASE CreateScan(w) \/ CallWorker(w) \/ \E k \in Job : TakeJob(w, k)
    BY <1>2, <2>3 DEF CreateScan, CallWorker, TakeJob
  <2>4. CASE UpdateFault(w) \/ HandlerFault(w) \/ Crash(w)
    <3>1. faults \in Nat /\ crashes \in Nat
      BY BoundAssumption DEF IInv, TypeOK
    <3>2. Mishap'
      BY <2>4, <3>1 DEF UpdateFault, HandlerFault, Crash, Mishap
    <3>3. QED
      BY <3>2
  <2>5. CASE RowGone(w) \/ \E k \in Job : AoiMissing(w, k)
    BY <1>1, <2>5, AtWork DEF RowGone, AoiMissing, Working
  <2>6. CASE Match(w)
    <3>1. at[w] \in Working /\ Write(w, "INGESTING", None) /\ UNCHANGED batch
      BY <2>6 DEF Match, Working
    <3>2. CASE j = current[w]
      BY <3>1, <3>2, AtWork
    <3>3. CASE j # current[w]
      BY <1>2, <3>1, <3>3 DEF Write, IInv, TypeOK
    <3>4. QED
      BY <3>2, <3>3
  <2>7. CASE Complete(w) \/ GiveBack(w)
    <3>1. at[w] \in Working /\ NextInBatch(w)
      BY <2>7 DEF Complete, GiveBack, Working
    <3>2. now[w] + Backoff \in Nat \cup {None}
      BY BoundAssumption, TimeAssumption DEF IInv, TypeOK
    <3>3. \/ Write(w, "COMPLETED", None)
          \/ Write(w, "TIMED_OUT", None)
          \/ Write(w, "POLLING_CATALOG", now[w] + Backoff)
      BY <2>7 DEF Complete, GiveBack
    <3>4. row'[current[w]].status \in {"COMPLETED", "TIMED_OUT", "POLLING_CATALOG"}
      <4>1. CASE Write(w, "COMPLETED", None)
        BY <3>1, <4>1, WriteTypes, Statuses DEF IInv
      <4>2. CASE Write(w, "TIMED_OUT", None)
        BY <3>1, <4>2, WriteTypes, Statuses DEF IInv
      <4>3. CASE Write(w, "POLLING_CATALOG", now[w] + Backoff)
        BY <3>1, <3>2, <4>3, WriteTypes, Statuses DEF IInv
      <4>4. QED
        BY <3>3, <4>1, <4>2, <4>3
    <3>5. j # current[w]
      BY <3>4, Statuses
    <3>6. row'[j] = row[j]
      BY <3>3, <3>5 DEF Write, IInv, TypeOK
    <3>7. \A v \in Worker : j \in batch[v] => j \in batch'[v]
      BY <3>1, <3>5 DEF NextInBatch, IInv, TypeOK
    <3>8. QED
      BY <1>2, <3>6, <3>7
  <2>8. QED
    BY <1>5, <2>1, <2>2, <2>3, <2>4, <2>5, <2>6, <2>7 DEF WorkerStep, Execute
<1>6. QED
  BY <1>3, <1>4, <1>5 DEF Next

-----------------------------------------------------------------------------
(* Scans and their records. *)

(* A recorded scan stays recorded, or the job is excused. *)
LEMMA FinishedStays ==
    ASSUME IInv, [Next]_vars, NEW j \in Job, Finished(j)
    PROVE  Finished(j)' \/ Excused(j)'
<1>1. CASE Next
  BY <1>1, CompletedStep DEF Finished, Excused
<1>2. CASE UNCHANGED vars
  BY <1>2 DEF vars, Finished
<1>3. QED
  BY <1>1, <1>2

(* Steps that make no scan and drop none keep the account. *)
LEMMA AccountKept ==
    ASSUME IInv, [Next]_vars, NEW j \in Job, Accounted(j), scans'[j] = scans[j],
           \A w \in Worker : Scanner(w, j) => Scanner(w, j)' \/ Excused(j)'
    PROVE  Accounted(j)'
<1>1. Excused(j) => Excused(j)'
  BY Monotone DEF Excused
<1>2. Finished(j) => Finished(j)' \/ Excused(j)'
  BY FinishedStays
<1>3. Once(j) => Once(j)' \/ Excused(j)'
  BY <1>2 DEF Once
<1>4. Twice(j) => Twice(j)' \/ Excused(j)'
  BY <1>2 DEF Twice
<1>5. QED
  BY <1>1, <1>3, <1>4 DEF Accounted

(* A new scan is one more to record. *)
LEMMA ScanAccounted ==
    ASSUME IInv, [Next]_vars, NEW j \in Job, Accounted(j),
           NEW w \in Worker, CreateScan(w), current[w] = j
    PROVE  Accounted(j)'
<1>1. scans[j] \in Nat
  BY BoundAssumption DEF IInv, TypeOK
<1>2. /\ scans'[j] = scans[j] + 1
      /\ Scanner(w, j)' /\ ~Scanner(w, j)
      /\ \A v \in Worker \ {w} : Scanner(v, j) => Scanner(v, j)'
  BY <1>1 DEF CreateScan, Scanner, IInv, TypeOK
<1>3. Excused(j) => Excused(j)'
  BY Monotone DEF Excused
<1>4. Finished(j) => Finished(j)' \/ Excused(j)'
  BY FinishedStays
<1>5. CASE scans[j] = 0
  BY <1>2, <1>5 DEF Accounted, Once
<1>6. CASE Once(j) \/ Twice(j)
  <2>1. Finished(j) \/ \E v \in Worker \ {w} : Scanner(v, j)
    BY <1>2, <1>6 DEF Once, Twice
  <2>2. Twice(j)' \/ Excused(j)'
    BY <1>2, <1>4, <2>1 DEF Twice
  <2>3. QED
    BY <2>2 DEF Accounted
<1>7. QED
  BY <1>3, <1>5, <1>6 DEF Accounted

(* A worker that records its scan is the row's claimant, or clobbers it. *)
LEMMA RecordAccounted ==
    ASSUME IInv, [Next]_vars, NEW j \in Job, Accounted(j),
           NEW w \in Worker, Complete(w), current[w] = j
    PROVE  Accounted(j)'
<1>1. at[w] = "created" /\ Write(w, "COMPLETED", None) /\ NextInBatch(w) /\ scans' = scans
  BY DEF Complete, rest
<1>3. Excused(j) => Excused(j)'
  BY Monotone DEF Excused
<1>4. CASE claimant[j] # w
  BY <1>1, <1>4 DEF Write, Excused, Accounted
<1>5. CASE claimant[j] = w /\ ~Excused(j)
  <2>1. Finished(j)'
    BY <1>1, WriteTypes, Statuses, FieldTypes DEF Finished, Working, IInv
  <2>2. ~Finished(j)
    <3>1. claimant[j] # None /\ j \notin aoiGone
      BY <1>5, NoneAssumption DEF Excused
    <3>2. row[j].status \in Claimed
      BY <3>1 DEF IInv, ClaimShows
    <3>3. QED
      BY <3>2, Statuses DEF Finished
  <2>3. \A v \in Worker \ {w} : Scanner(v, j) => Scanner(v, j)'
    BY <1>1 DEF NextInBatch, Scanner, IInv, TypeOK
  <2>4. CASE scans[j] = 0
    BY <1>1, <2>4 DEF Accounted
  <2>5. CASE Once(j)
    BY <1>1, <2>1, <2>5 DEF Once, Accounted
  <2>6. CASE Twice(j)
    <3>1. \E v \in Worker \ {w} : Scanner(v, j)
      BY <2>2, <2>6 DEF Twice
    <3>2. Twice(j)'
      BY <2>1, <2>3, <3>1 DEF Twice
    <3>3. QED
      BY <3>2 DEF Accounted
  <2>7. QED
    BY <1>5, <2>4, <2>5, <2>6 DEF Accounted
<1>6. QED
  BY <1>3, <1>4, <1>5 DEF Accounted

(* Every step keeps the account of every job. *)
LEMMA AccountStep ==
    ASSUME IInv, [Next]_vars, NEW j \in Job, Accounted(j)
    PROVE  Accounted(j)'
<1>1. ASSUME UNCHANGED <<at, current, scans>> PROVE Accounted(j)'
  BY <1>1, AccountKept DEF Scanner
<1>2. CASE UNCHANGED vars
  BY <1>1, <1>2 DEF vars, workers, rest
<1>3. CASE \/ Tick \/ DispatchExpire \/ ListJobs
           \/ \E k \in Job : JobRequest(k)
           \/ \E c \in Client : DeleteWrite(c)
           \/ \E m \in Monitor : MonitorWrite(m)
  <2>1. UNCHANGED <<at, current, scans>>
    BY <1>3 DEF Tick, DispatchExpire, ListJobs, JobRequest, Add, Retry, RequestPoll,
                LosePoll, DeleteAoi, DeleteCheck, MonitorFind, DeleteWrite, MonitorWrite,
                workers, rest
  <2>2. QED
    BY <1>1, <2>1
<1>4. CASE DispatchDue
  <2>1. \A w \in Worker : Scanner(w, j) => Scanner(w, j)'
    BY <1>4 DEF DispatchDue, Scanner, IInv, TypeOK
  <2>2. scans' = scans
    BY <1>4 DEF DispatchDue
  <2>3. QED
    BY <2>1, <2>2, AccountKept
<1>5. ASSUME NEW w \in Worker, WorkerStep(w) PROVE Accounted(j)'
  <2>1. CASE CreateScan(w)
    <3>1. CASE current[w] = j
      BY <2>1, <3>1, ScanAccounted
    <3>2. CASE current[w] # j
      <4>1. scans'[j] = scans[j]
        BY <2>1, <3>2 DEF CreateScan, IInv, TypeOK
      <4>2. \A v \in Worker : Scanner(v, j) => Scanner(v, j)'
        BY <2>1, <3>2 DEF CreateScan, Scanner, IInv, TypeOK
      <4>3. QED
        BY <4>1, <4>2, AccountKept
    <3>3. QED
      BY <3>1, <3>2
  <2>2. CASE Complete(w)
    <3>1. CASE current[w] = j
      BY <2>2, <3>1, RecordAccounted
    <3>2. CASE current[w] # j
      <4>1. scans' = scans
        BY <2>2 DEF Complete, rest
      <4>2. \A v \in Worker : Scanner(v, j) => Scanner(v, j)'
        BY <2>2, <3>2 DEF Complete, NextInBatch, Scanner, IInv, TypeOK
      <4>3. QED
        BY <4>1, <4>2, AccountKept
    <3>3. QED
      BY <3>1, <3>2
  <2>3. CASE UpdateFault(w) \/ HandlerFault(w) \/ Crash(w)
    <3>1. faults \in Nat /\ crashes \in Nat
      BY BoundAssumption DEF IInv, TypeOK
    <3>2. Excused(j)'
      BY <2>3, <3>1 DEF UpdateFault, HandlerFault, Crash, Mishap, Excused
    <3>3. QED
      BY <3>2 DEF Accounted
  <2>4. CASE RowGone(w)
    <3>1. scans' = scans /\ aoiGone' = aoiGone /\ row[current[w]] = None
          /\ at[w] \in Working
      BY <2>4 DEF RowGone, Working, rest
    <3>2. Scanner(w, j) => Excused(j)'
      BY <3>1, AtWork DEF Scanner, Excused
    <3>3. \A v \in Worker \ {w} : Scanner(v, j) => Scanner(v, j)'
      BY <2>4 DEF RowGone, Abort, Scanner, IInv, TypeOK
    <3>4. QED
      BY <3>1, <3>2, <3>3, AccountKept
  <2>5. CASE \/ ClaimDue(w) \/ CallWorker(w) \/ Match(w) \/ GiveBack(w)
             \/ \E k \in Job : ClaimOne(w, k) \/ TakeJob(w, k) \/ AoiMissing(w, k)
    <3>1. scans' = scans /\ at[w] # "created"
      BY <2>5 DEF ClaimDue, CallWorker, Match, GiveBack, ClaimOne, TakeJob, AoiMissing, rest
    <3>2. \A v \in Worker \ {w} : at'[v] = at[v] /\ current'[v] = current[v]
      BY <2>5 DEF ClaimDue, CallWorker, Match, GiveBack, NextInBatch, ClaimOne, TakeJob,
                  AoiMissing, Abort, IInv, TypeOK
    <3>3. \A v \in Worker : Scanner(v, j) => Scanner(v, j)'
      BY <3>1, <3>2 DEF Scanner
    <3>4. QED
      BY <3>1, <3>3, AccountKept
  <2>6. QED
    BY <1>5, <2>1, <2>2, <2>3, <2>4, <2>5 DEF WorkerStep, Execute
<1>6. QED
  BY <1>2, <1>3, <1>4, <1>5 DEF Next, Dispatch

-----------------------------------------------------------------------------
LEMMA OutcomeInit == Init => OutcomeInv
<1>1. Init => IInv
  BY InitInv
<1>2. Init => Held /\ \A j \in Job : Accounted(j)
  BY DEF Init, Held, Accounted
<1>3. QED
  BY <1>1, <1>2 DEF OutcomeInv

LEMMA OutcomeStep == OutcomeInv /\ [Next]_vars => OutcomeInv'
<1> SUFFICES ASSUME OutcomeInv, [Next]_vars PROVE OutcomeInv'
  OBVIOUS
<1>1. IInv'
  BY InvStep DEF OutcomeInv
<1>2. Held'
  BY <1>1, HeldStep DEF OutcomeInv, IInv
<1>3. \A j \in Job : Accounted(j)'
  BY AccountStep DEF OutcomeInv
<1>4. QED
  BY <1>1, <1>2, <1>3 DEF OutcomeInv

(* No ordinary path of execute() leaks a claim, for any number of jobs and *)
(* workers and any batch.                                                  *)
THEOREM ClaimsAreHeld == Spec => []ClaimsHaveHolders
<1>1. OutcomeInv => ClaimsHaveHolders
  BY DEF OutcomeInv, Held, ClaimsHaveHolders, HasStatus, Visible, Mishap
<1>2. QED
  BY <1>1, OutcomeInit, OutcomeStep, PTL DEF Spec

(* A pass is scanned once, but for mishaps, late workers and overwriting:  *)
(* of two unrecorded scans of a job one is a late worker's, since only one *)
(* worker holds the claim, and so is an unrecorded scan of a finished job. *)
THEOREM OneScanPerPass == Spec => []ScannedOnce
<1>1. ASSUME OutcomeInv PROVE ScannedOnce
  <2>1. SUFFICES ASSUME NEW j \in Job, ~(scans[j] <= 1), ~Excused(j)
                 PROVE  \E w \in Worker : j \in batch[w] /\ Late(w)
    BY DEF ScannedOnce, Excused, Mishap
  <2>2. scans[j] \in Nat
    BY <1>1, BoundAssumption DEF OutcomeInv, IInv, TypeOK
  <2>3. Twice(j)
    BY <1>1, <2>1, <2>2 DEF OutcomeInv, Accounted, Once
  <2>4. ASSUME NEW w \in Worker, Scanner(w, j)
        PROVE  j \in batch[w] /\ (Late(w) \/ (claimant[j] = w /\ row[j].status \in Claimed))
    <3>1. j \in batch[w] /\ row[j] # None
      BY <1>1, <2>1, <2>4, AtWork DEF Scanner, Working, OutcomeInv, Excused
    <3>2. QED
      BY <1>1, <2>1, <3>1 DEF OutcomeInv, IInv, ClaimHeld, Excused
  <2>5. QED
    BY <2>3, <2>4, Statuses DEF Twice, Finished
<1>2. QED
  BY <1>1, OutcomeInit, OutcomeStep, PTL DEF Spec
=============================================================================
