--------------------------- MODULE PassMonitorProofs ---------------------------
(***************************************************************************)
(* For any number of processes, entries and minutes: a minute is scraped   *)
(* by one thread at a time, and the job is handed over before the window   *)
(* has ended only by a process that is shutting down.                      *)
(*                                                                         *)
(* The first rests on the row of the minute: it is RUNNING for as long as  *)
(* somebody scrapes it (Claimed), and only a minute that is not RUNNING is *)
(* claimed.  The second rests on why a thread left its loop (Leaving): the *)
(* reason stays, because a flag raised stays raised, an event set stays    *)
(* set, whichever entry replaces the thread's own (Linked), and the clock  *)
(* does not go back.                                                       *)
(***************************************************************************)
EXTENDS PassMonitor, SequenceTheorems, TLAPS

(* A thread has captured an entry of its process's registry. *)
Linked ==
    \A p \in Proc, g \in Entry :
        thread[p][g].at # "none" => thread[p][g].entry \in 1..Len(entries[p])

(* A thread that has left its loop still has the reason. *)
Leaving ==
    \A p \in Proc, g \in Entry :
        thread[p][g].at \in {"exiting", "leaving"} =>
            phase[p] # "up" \/ Cancelled(p, g) \/ clock > Closes

(* The row of a minute that is being scraped says so. *)
Claimed ==
    \A p \in Proc, g \in Entry :
        thread[p][g].at = "scraping" => run[thread[p][g].tick] = "RUNNING"

MonitorInv == TypeOK /\ Linked /\ Leaving /\ Claimed /\ OneScrapePerMinute

(* No entry is lost and no cancel event is taken back. *)
EntriesKept ==
    \A p \in Proc :
        /\ Len(entries[p]) \in Nat /\ Len(entries'[p]) \in Nat
        /\ Len(entries'[p]) >= Len(entries[p])
        /\ \A i \in 1..Len(entries[p]) :
               entries[p][i].cancelled => entries'[p][i].cancelled

JobState == {"none", "PENDING_PASS", "later"}

EntriesType ==
    entries \in [Proc -> Seq(MonitorEntry)] /\ \A p \in Proc : Len(entries[p]) <= MaxEntries

-----------------------------------------------------------------------------
LEMMA Bounds ==
    /\ MaxClock \in Nat /\ MaxEntries \in Nat /\ 0 \in Minute /\ 0 \in 0..MaxEntries
    /\ NoThread \in Thread /\ NoThread.at = "none"
<1>1. MaxClock \in Nat /\ MaxEntries \in Nat
  BY BoundAssumption
<1>2. 0 \in Minute /\ 0 \in 0..MaxEntries
  BY <1>1 DEF Minute
<1> QED
  BY <1>1, <1>2 DEF NoThread, Thread

LEMMA MonitorInitially == Init => MonitorInv
<1> SUFFICES ASSUME Init PROVE MonitorInv
  OBVIOUS
<1>1. TypeOK
  <2>1. thread \in [Proc -> [Entry -> Thread]]
    BY Bounds DEF Init
  <2>2. entries \in [Proc -> Seq(MonitorEntry)] /\ \A p \in Proc : Len(entries[p]) <= MaxEntries
    BY Bounds DEF Init
  <2>3. 0 \in 0..MaxRequests /\ 0 \in 0..MaxFaults /\ 0 \in 0..MaxCrashes
    BY BoundAssumption
  <2> QED
    BY <2>1, <2>2, <2>3, Bounds DEF Init, TypeOK
<1>2. \A p \in Proc, g \in Entry : thread[p][g].at = "none"
  BY Bounds DEF Init
<1> QED
  BY <1>1, <1>2, Zenon DEF MonitorInv, Linked, Leaving, Claimed, OneScrapePerMinute

(* An entry is replaced by one whose event is still set if it was. *)
LEMMA EntryChanges ==
    ASSUME TypeOK, NEW p \in Proc, NEW i \in 1..Len(entries[p]), NEW e \in MonitorEntry,
           entries[p][i].cancelled => e.cancelled,
           entries' = [entries EXCEPT ![p][i] = e]
    PROVE  EntriesType' /\ EntriesKept
<1>1. entries \in [Proc -> Seq(MonitorEntry)] /\ entries[p] \in Seq(MonitorEntry)
      /\ \A q \in Proc : Len(entries[q]) <= MaxEntries /\ Len(entries[q]) \in Nat
  BY DEF TypeOK
<1> DEFINE s == [entries[p] EXCEPT ![i] = e]
<1>2. /\ s \in Seq(MonitorEntry) /\ Len(s) = Len(entries[p])
      /\ \A j \in 1..Len(entries[p]) : s[j] = IF j = i THEN e ELSE entries[p][j]
  BY <1>1, ExceptSeq
<1>3. entries' = [entries EXCEPT ![p] = s]
  OBVIOUS
<1> HIDE DEF s
<1>4. entries' \in [Proc -> Seq(MonitorEntry)] /\ entries'[p] = s
      /\ \A q \in Proc : q # p => entries'[q] = entries[q]
  BY <1>1, <1>2, <1>3
<1>5. EntriesType'
  BY <1>1, <1>2, <1>4 DEF EntriesType
<1>6. EntriesKept
  <2> SUFFICES ASSUME NEW q \in Proc
               PROVE  /\ Len(entries[q]) \in Nat /\ Len(entries'[q]) \in Nat
                      /\ Len(entries'[q]) >= Len(entries[q])
                      /\ \A j \in 1..Len(entries[q]) :
                             entries[q][j].cancelled => entries'[q][j].cancelled
    BY DEF EntriesKept
  <2>1. CASE q # p
    BY <1>1, <1>4, <2>1
  <2>2. CASE q = p
    BY <1>1, <1>2, <1>4, <2>2
  <2> QED
    BY <2>1, <2>2
<1> QED
  BY <1>5, <1>6

LEMMA EntriesSame ==
    ASSUME TypeOK, UNCHANGED entries
    PROVE  EntriesType' /\ EntriesKept
BY DEF TypeOK, EntriesType, EntriesKept

LEMMA EntryType ==
    ASSUME TypeOK, NEW p \in Proc, NEW i \in 1..Len(entries[p])
    PROVE  /\ entries[p][i] \in MonitorEntry
           /\ entries[p][i].cancelled \in BOOLEAN
           /\ Len(entries[p]) \in Nat
<1>1. entries[p] \in Seq(MonitorEntry)
  BY DEF TypeOK
<1>2. entries[p][i] \in MonitorEntry /\ Len(entries[p]) \in Nat
  BY <1>1
<1> QED
  BY <1>2 DEF MonitorEntry

LEMMA CancelChanges ==
    ASSUME TypeOK, NEW p \in Proc, CancelCurrent(p)
    PROVE  EntriesType' /\ EntriesKept
<1>1. CASE Current(p) > 0
  <2>1. Len(entries[p]) \in 1..Len(entries[p])
    BY <1>1 DEF Current, TypeOK
  <2> DEFINE e == entries[p][Len(entries[p])]
  <2>2. e \in MonitorEntry
    BY <2>1, EntryType
  <2>3. Cancel(e) \in MonitorEntry /\ Cancel(e).cancelled
    BY <2>2 DEF Cancel, MonitorEntry
  <2>4. entries' = [entries EXCEPT ![p][Len(entries[p])] = Cancel(e)]
    BY <1>1, <2>1 DEF CancelCurrent, Current, TypeOK
  <2> HIDE DEF e
  <2> QED
    BY <2>1, <2>3, <2>4, EntryChanges
<1>2. CASE ~(Current(p) > 0)
  BY <1>2, EntriesSame DEF CancelCurrent
<1> QED
  BY <1>1, <1>2

-----------------------------------------------------------------------------
(* Steps that leave threads and claims alone. *)
LEMMA ThreadsLeftAlone ==
    ASSUME MonitorInv, TypeOK', EntriesKept, UNCHANGED <<thread, run>>,
           clock' >= clock,
           \A p \in Proc : phase[p] # "up" => phase'[p] # "up"
    PROVE  MonitorInv'
<1>1. \A p \in Proc, g \in Entry :
         thread[p][g].at # "none" =>
             /\ thread[p][g].entry \in 1..Len(entries[p])
             /\ thread[p][g].entry \in 1..Len(entries'[p])
             /\ Cancelled(p, g) => entries'[p][thread[p][g].entry].cancelled
  BY DEF MonitorInv, Linked, EntriesKept, Cancelled
<1>2. Linked'
  BY <1>1 DEF Linked
<1>3. clock \in Int /\ clock' \in Int /\ Closes \in Int
  BY WindowAssumption, Bounds DEF MonitorInv, TypeOK, Minute
<1>4. Leaving'
  BY <1>1, <1>3 DEF MonitorInv, Leaving, Cancelled
<1>5. Claimed' /\ OneScrapePerMinute'
  BY DEF MonitorInv, Claimed, OneScrapePerMinute
<1> QED
  BY <1>2, <1>4, <1>5 DEF MonitorInv

(* A thread moves on without claiming a minute; the row that may change is *)
(* the one of the minute it has scraped.                                   *)
LEMMA ThreadMoves ==
    ASSUME MonitorInv, TypeOK', EntriesKept, NEW p \in Proc, NEW g \in Entry,
           NEW t \in Thread,
           thread' = [thread EXCEPT ![p][g] = t],
           UNCHANGED <<clock, phase>>,
           t.at # "scraping",
           t.at # "none" => t.entry \in 1..Len(entries'[p]),
           t.at \in {"exiting", "leaving"} =>
               phase[p] # "up" \/ entries'[p][t.entry].cancelled \/ clock > Closes,
           \A m \in Minute :
               run'[m] # run[m] => thread[p][g].at = "scraping" /\ thread[p][g].tick = m
    PROVE  MonitorInv'
<1>1. /\ thread \in [Proc -> [Entry -> Thread]]
      /\ thread'[p][g] = t
      /\ \A q \in Proc, h \in Entry : q # p \/ h # g => thread'[q][h] = thread[q][h]
  BY DEF MonitorInv, TypeOK
<1>2. \A q \in Proc, h \in Entry :
         thread[q][h].at # "none" =>
             /\ thread[q][h].entry \in 1..Len(entries'[q])
             /\ Cancelled(q, h) => entries'[q][thread[q][h].entry].cancelled
  BY DEF MonitorInv, Linked, EntriesKept, Cancelled
<1>3. Linked'
  BY <1>1, <1>2 DEF Linked
<1>4. Leaving'
  <2> SUFFICES ASSUME NEW q \in Proc, NEW h \in Entry,
                      thread'[q][h].at \in {"exiting", "leaving"}
               PROVE  phase[q] # "up" \/ entries'[q][thread'[q][h].entry].cancelled
                      \/ clock > Closes
    BY DEF Leaving, Cancelled
  <2>1. CASE q = p /\ h = g
    BY <1>1, <2>1
  <2>2. CASE q # p \/ h # g
    BY <1>1, <1>2, <2>2 DEF MonitorInv, Leaving
  <2> QED
    BY <2>1, <2>2
<1>5. Claimed'
  <2> SUFFICES ASSUME NEW q \in Proc, NEW h \in Entry, thread'[q][h].at = "scraping"
               PROVE  run'[thread'[q][h].tick] = "RUNNING"
    BY DEF Claimed
  <2>1. (q # p \/ h # g) /\ thread'[q][h] = thread[q][h]
    BY <1>1
  <2>2. thread[q][h].tick \in Minute /\ run[thread[q][h].tick] = "RUNNING"
    BY <1>1, <2>1 DEF MonitorInv, Claimed, Thread
  <2>3. ~(thread[p][g].at = "scraping" /\ thread[p][g].tick = thread[q][h].tick)
    BY <2>1 DEF MonitorInv, OneScrapePerMinute
  <2> QED
    BY <2>1, <2>2, <2>3
<1>6. OneScrapePerMinute'
  BY <1>1 DEF MonitorInv, OneScrapePerMinute
<1> QED
  BY <1>3, <1>4, <1>5, <1>6 DEF MonitorInv

(* Everything a step of a thread may rely on. *)
LEMMA ThreadFacts ==
    ASSUME MonitorInv, NEW p \in Proc, NEW g \in Entry
    PROVE  /\ TypeOK
           /\ thread \in [Proc -> [Entry -> Thread]] /\ thread[p] \in [Entry -> Thread]
           /\ thread[p][g] \in Thread /\ thread[p][g].tick \in Minute
           /\ clock \in Minute
           /\ run \in [Minute -> {"none", "RUNNING", "FAILED", "COMPLETED"}]
           /\ thread[p][g].at # "none" => thread[p][g].entry \in 1..Len(entries[p])
BY DEF MonitorInv, TypeOK, Linked, Thread

LEMMA ThreadType ==
    ASSUME TypeOK, NEW p \in Proc, NEW g \in Entry, NEW t \in Thread
    PROVE  [thread EXCEPT ![p][g] = t] \in [Proc -> [Entry -> Thread]]
BY DEF TypeOK

(* A thread goes to another place of its loop. *)
LEMMA MoveIs ==
    ASSUME MonitorInv, NEW p \in Proc, NEW g \in Entry,
           NEW at \in {"top", "claiming", "scraping", "waiting", "exiting", "leaving", "ended",
                    "lost"}
    PROVE  LET t == [thread[p][g] EXCEPT !.at = at]
           IN  /\ t \in Thread /\ t.at = at /\ t.entry = thread[p][g].entry
               /\ t.tick = thread[p][g].tick
               /\ Move(p, g, at) => thread' = [thread EXCEPT ![p][g] = t]
BY ThreadFacts DEF Thread, Move

(* The entries and the threads are typed; so is everything else. *)
LEMMA TypeFromParts ==
    ASSUME TypeOK, EntriesType', thread' \in [Proc -> [Entry -> Thread]],
           run' \in [Minute -> {"none", "RUNNING", "FAILED", "COMPLETED"}],
           job' \in JobState, faults' \in 0..MaxFaults, handed' \subseteq Minute,
           UNCHANGED <<clock, aoi, phase, cycle, request, requests, crashes>>
    PROVE  TypeOK'
BY DEF TypeOK, EntriesType, JobState

LEMMA StartThreadKeeps ==
    ASSUME MonitorInv, NEW p \in Proc, NEW g \in Entry, StartThread(p, g)
    PROVE  MonitorInv'
<1> DEFINE c == Len(entries[p])
           done == [entries EXCEPT ![p][g].timer = "done"]
<1>1. /\ g \in 1..c /\ c \in 1..c /\ c \in Nat /\ c \in 1..MaxEntries
      /\ entries[p][g] \in MonitorEntry /\ entries[p][c] \in MonitorEntry
      /\ entries \in [Proc -> Seq(MonitorEntry)]
  <2>1. g <= c /\ g \in Nat /\ g >= 1 /\ c \in Nat /\ c <= MaxEntries
        /\ entries \in [Proc -> Seq(MonitorEntry)]
    BY Bounds DEF StartThread, Current, Entry, MonitorInv, TypeOK
  <2>2. g \in 1..c /\ c \in 1..c /\ c \in 1..MaxEntries
    BY <2>1, Bounds
  <2> QED
    BY <2>1, <2>2, EntryType DEF MonitorInv
<1>2. UNCHANGED <<clock, aoi, phase, cycle, run, job, request, requests, faults, crashes, handed>>
  BY DEF StartThread
<1>3. CASE phase[p] = "up" /\ ~entries[p][c].cancelled
  <2> DEFINE t == [NoThread EXCEPT !.at = "top", !.entry = c]
  <2>1. /\ entries' = [done EXCEPT ![p][c].status = "ACTIVE"]
        /\ thread' = [thread EXCEPT ![p][g] = t]
    BY <1>3 DEF StartThread, Current
  <2>2. t \in Thread /\ t.at = "top" /\ t.entry = c
    <3>1. c \in 0..MaxEntries
      BY <1>1
    <3>2. NoThread \in Thread
      BY Bounds
    <3> HIDE DEF c
    <3> QED
      BY <3>1, <3>2 DEF Thread
  <2>3. EntriesType' /\ EntriesKept
    <3> DEFINE d == [entries[p][g] EXCEPT !.timer = "done"]
               s == [entries[p] EXCEPT ![g] = d]
               e == [s[c] EXCEPT !.status = "ACTIVE"]
    <3>1. d \in MonitorEntry /\ d.cancelled = entries[p][g].cancelled
      BY <1>1 DEF MonitorEntry
    <3>2. /\ s \in Seq(MonitorEntry) /\ Len(s) = c
          /\ \A j \in 1..c : s[j] = IF j = g THEN d ELSE entries[p][j]
      BY <1>1, <3>1, ExceptSeq
    <3>3. e \in MonitorEntry /\ e.cancelled = s[c].cancelled
      BY <1>1, <3>1, <3>2 DEF MonitorEntry
    <3> DEFINE u == [s EXCEPT ![c] = e]
    <3>4. /\ u \in Seq(MonitorEntry) /\ Len(u) = c
          /\ \A j \in 1..c : u[j] = IF j = c THEN e ELSE s[j]
      <4> HIDE DEF s, e
      <4> QED
        BY <1>1, <3>2, <3>3, ExceptSeq
    <3>5. entries' = [entries EXCEPT ![p] = u]
      BY <1>1, <2>1
    <3> HIDE DEF d, s, e, u
    <3>6. entries' \in [Proc -> Seq(MonitorEntry)] /\ entries'[p] = u
          /\ \A q \in Proc : q # p => entries'[q] = entries[q]
      BY <1>1, <3>4, <3>5
    <3>7. EntriesType'
      BY <1>1, <3>4, <3>6 DEF EntriesType, MonitorInv, TypeOK
    <3>8. \A j \in 1..c : entries[p][j].cancelled => u[j].cancelled
      BY <1>1, <3>1, <3>2, <3>3, <3>4
    <3>9. EntriesKept
      <4> SUFFICES ASSUME NEW q \in Proc
                   PROVE  /\ Len(entries[q]) \in Nat /\ Len(entries'[q]) \in Nat
                          /\ Len(entries'[q]) >= Len(entries[q])
                          /\ \A j \in 1..Len(entries[q]) :
                                 entries[q][j].cancelled => entries'[q][j].cancelled
        BY DEF EntriesKept
      <4>1. CASE q # p
        BY <1>1, <3>6, <4>1
      <4>2. CASE q = p
        BY <1>1, <3>4, <3>6, <3>8, <4>2
      <4> QED
        BY <4>1, <4>2
    <3> QED
      BY <3>7, <3>9
  <2>4. c \in 1..Len(entries'[p])
    BY <1>1, <2>3 DEF EntriesKept
  <2> HIDE DEF t, c
  <2>5. TypeOK'
    <3>1. thread' \in [Proc -> [Entry -> Thread]]
      BY <2>1, <2>2, ThreadType DEF MonitorInv
    <3> QED
      BY <1>2, <2>3, <3>1, TypeFromParts DEF MonitorInv, TypeOK, JobState
  <2> QED
    BY <1>2, <2>1, <2>2, <2>3, <2>4, <2>5, ThreadMoves
<1>4. CASE ~(phase[p] = "up" /\ ~entries[p][c].cancelled)
  <2> DEFINE e == [entries[p][g] EXCEPT !.timer = "done"]
  <2>1. e \in MonitorEntry /\ e.cancelled = entries[p][g].cancelled
    BY <1>1 DEF MonitorEntry
  <2>2. entries' = [entries EXCEPT ![p][g] = e] /\ thread' = thread
    BY <1>1, <1>4 DEF StartThread, Current
  <2> HIDE DEF e
  <2>3. EntriesType' /\ EntriesKept
    BY <1>1, <2>1, <2>2, EntryChanges DEF MonitorInv
  <2>4. TypeOK'
    BY <1>2, <2>2, <2>3, TypeFromParts DEF MonitorInv, TypeOK, JobState
  <2>5. clock' >= clock
    BY <1>2, Bounds DEF MonitorInv, TypeOK, Minute
  <2> QED
    BY <1>2, <2>2, <2>3, <2>4, <2>5, ThreadsLeftAlone
<1> QED
  BY <1>3, <1>4

(* The minute is claimed: nobody was scraping it. *)
LEMMA ClaimKeeps ==
    ASSUME MonitorInv, NEW p \in Proc, NEW g \in Entry, ClaimMinute(p, g)
    PROVE  MonitorInv'
<1> DEFINE x == thread[p][g]
<1>1. /\ UNCHANGED <<clock, aoi, phase, cycle, entries, request, requests, crashes, handed>>
      /\ x.at = "claiming" /\ x \in Thread /\ x.tick \in Minute
      /\ x.entry \in 1..Len(entries[p])
  BY ThreadFacts DEF ClaimMinute
<1>2. job' \in JobState /\ faults' \in 0..MaxFaults
  BY BoundAssumption DEF ClaimMinute, MonitorInv, TypeOK, JobState, Registered, Fault
<1>3. \/ /\ Claimable(x.tick)
         /\ run' = [run EXCEPT ![x.tick] = "RUNNING"] /\ Move(p, g, "scraping")
      \/ run' = run /\ Move(p, g, "waiting")
  BY DEF ClaimMinute
<1>4. EntriesType' /\ EntriesKept
  BY <1>1, EntriesSame DEF MonitorInv
<1>5. CASE /\ Claimable(x.tick)
           /\ run' = [run EXCEPT ![x.tick] = "RUNNING"] /\ Move(p, g, "scraping")
  <2> DEFINE t == [x EXCEPT !.at = "scraping"]
  <2>1. /\ run' = [run EXCEPT ![x.tick] = "RUNNING"]
        /\ thread' = [thread EXCEPT ![p][g] = t]
        /\ t \in Thread /\ t.at = "scraping" /\ t.entry = x.entry /\ t.tick = x.tick
    BY <1>5, MoveIs, ZenonT(60)
  <2> HIDE DEF t, x
  <2>2. TypeOK'
    <3>1. thread' \in [Proc -> [Entry -> Thread]]
      BY <2>1, ThreadType DEF MonitorInv
    <3>2. run' \in [Minute -> {"none", "RUNNING", "FAILED", "COMPLETED"}]
      BY <2>1, ThreadFacts
    <3> QED
      BY <1>1, <1>4, <1>2, <3>1, <3>2, TypeFromParts DEF MonitorInv, TypeOK, JobState
  <2>3. /\ thread'[p][g] = t
        /\ \A q \in Proc, h \in Entry : q # p \/ h # g => thread'[q][h] = thread[q][h]
    BY <2>1, ThreadFacts
  <2>4. run'[x.tick] = "RUNNING" /\ \A m \in Minute : m # x.tick => run'[m] = run[m]
    BY <1>1, <2>1, ThreadFacts
  <2>5. Linked'
    BY <1>1, <2>1, <2>3 DEF MonitorInv, Linked
  <2>6. Leaving'
    BY <1>1, <2>1, <2>3 DEF MonitorInv, Leaving, Cancelled
  <2>7. ASSUME NEW q \in Proc, NEW h \in Entry, q # p \/ h # g,
               thread[q][h].at = "scraping"
        PROVE  thread[q][h].tick # x.tick
    <3>1. run[thread[q][h].tick] = "RUNNING"
      BY <2>7 DEF MonitorInv, Claimed
    <3>2. run[x.tick] # "RUNNING"
      BY <1>5 DEF Claimable
    <3> QED
      BY <3>1, <3>2
  <2>8. Claimed'
    <3> SUFFICES ASSUME NEW q \in Proc, NEW h \in Entry, thread'[q][h].at = "scraping"
                 PROVE  run'[thread'[q][h].tick] = "RUNNING"
      BY DEF Claimed
    <3>1. CASE q = p /\ h = g
      BY <2>1, <2>3, <2>4, <3>1
    <3>2. CASE q # p \/ h # g
      <4>1. thread'[q][h] = thread[q][h] /\ thread[q][h].tick \in Minute
        BY <2>3, <3>2, ThreadFacts
      <4> QED
        BY <2>4, <2>7, <3>2, <4>1 DEF MonitorInv, Claimed
    <3> QED
      BY <3>1, <3>2
  <2>9. OneScrapePerMinute'
    <3> SUFFICES ASSUME NEW q \in Proc, NEW r \in Proc, NEW h \in Entry, NEW k \in Entry,
                        thread'[q][h].at = "scraping", thread'[r][k].at = "scraping",
                        thread'[q][h].tick = thread'[r][k].tick
                 PROVE  q = r /\ h = k
      BY DEF OneScrapePerMinute
    <3>1. CASE q = p /\ h = g /\ ~(r = p /\ k = g)
      BY <2>1, <2>3, <2>7, <3>1
    <3>2. CASE r = p /\ k = g /\ ~(q = p /\ h = g)
      BY <2>1, <2>3, <2>7, <3>2
    <3>3. CASE ~(q = p /\ h = g) /\ ~(r = p /\ k = g)
      BY <2>3, <3>3 DEF MonitorInv, OneScrapePerMinute
    <3> QED
      BY <3>1, <3>2, <3>3
  <2> QED
    BY <2>2, <2>5, <2>6, <2>8, <2>9 DEF MonitorInv
<1>6. CASE run' = run /\ Move(p, g, "waiting")
  <2> DEFINE t == [x EXCEPT !.at = "waiting"]
  <2>1. /\ run' = run /\ thread' = [thread EXCEPT ![p][g] = t]
        /\ t \in Thread /\ t.at = "waiting" /\ t.entry = x.entry
    BY <1>6, MoveIs, ZenonT(60)
  <2> HIDE DEF t, x
  <2>2. TypeOK'
    <3>1. thread' \in [Proc -> [Entry -> Thread]]
      BY <2>1, ThreadType DEF MonitorInv
    <3> QED
      BY <1>1, <1>4, <1>2, <2>1, <3>1, TypeFromParts DEF MonitorInv, TypeOK, JobState
  <2> QED
    BY <1>1, <1>4, <2>1, <2>2, ThreadMoves
<1> QED
  BY <1>5, <1>6, <1>3

LEMMA ThreadKeeps ==
    ASSUME MonitorInv, NEW p \in Proc, NEW g \in Entry, ThreadStep(p, g)
    PROVE  MonitorInv'
<1> DEFINE x == thread[p][g]
<1>1. /\ x \in Thread /\ x.tick \in Minute /\ clock \in Minute /\ TypeOK
      /\ (x.at # "none" => x.entry \in 1..Len(entries[p]))
  BY ThreadFacts
<1>2. CASE LoopTop(p, g)
  <2>1. UNCHANGED <<clock, aoi, phase, cycle, entries, run, job, request, requests, faults,
                    crashes, handed>> /\ x.at = "top"
    BY <1>2 DEF LoopTop
  <2>2. EntriesType' /\ EntriesKept
    BY <2>1, EntriesSame DEF MonitorInv
  <2>3. CASE phase[p] # "up" \/ Cancelled(p, g) \/ clock > Closes
    <3> DEFINE t == [x EXCEPT !.at = "exiting"]
    <3>1. /\ thread' = [thread EXCEPT ![p][g] = t]
          /\ t \in Thread /\ t.at = "exiting" /\ t.entry = x.entry
      BY <1>2, <2>3, MoveIs, ZenonT(60) DEF LoopTop
    <3>2. phase[p] # "up" \/ entries'[p][t.entry].cancelled \/ clock > Closes
      BY <2>1, <2>3, <3>1 DEF Cancelled
    <3> HIDE DEF t, x
    <3>3. thread' \in [Proc -> [Entry -> Thread]]
      BY <3>1, ThreadType DEF MonitorInv
    <3>4. TypeOK'
      BY <2>1, <2>2, <3>3, TypeFromParts DEF MonitorInv, TypeOK, JobState
    <3> QED
      BY <1>1, <2>1, <2>2, <3>1, <3>2, <3>4, ThreadMoves
  <2>4. CASE ~(phase[p] # "up" \/ Cancelled(p, g) \/ clock > Closes)
    <3> DEFINE t == [x EXCEPT !.at = "claiming", !.tick = clock]
    <3>1. /\ thread' = [thread EXCEPT ![p][g] = t]
          /\ t \in Thread /\ t.at = "claiming" /\ t.entry = x.entry
      BY <1>1, <1>2, <2>4, ThreadFacts, ZenonT(60) DEF LoopTop, Thread
    <3> HIDE DEF t, x
    <3>2. thread' \in [Proc -> [Entry -> Thread]]
      BY <3>1, ThreadType DEF MonitorInv
    <3>3. TypeOK'
      BY <2>1, <2>2, <3>2, TypeFromParts DEF MonitorInv, TypeOK, JobState
    <3> QED
      BY <1>1, <2>1, <2>2, <3>1, <3>3, ThreadMoves
  <2> QED
    BY <2>3, <2>4
<1>3. CASE ClaimMinute(p, g)
  BY <1>3, ClaimKeeps
<1>4. CASE ScrapeDone(p, g) \/ ScrapeFails(p, g)
  <2>1. /\ UNCHANGED <<clock, aoi, phase, cycle, entries, request, requests, crashes, handed>>
        /\ job' = job /\ x.at = "scraping" /\ faults' \in 0..MaxFaults
    BY <1>1, <1>4, BoundAssumption DEF ScrapeDone, ScrapeFails, Fault, TypeOK
  <2>2. PICK outcome \in {"FAILED", "COMPLETED", "RUNNING"} :
            run' = [run EXCEPT ![x.tick] = outcome]
    BY <1>4 DEF ScrapeDone, ScrapeFails
  <2> DEFINE t == [x EXCEPT !.at = "waiting"]
  <2>3. /\ thread' = [thread EXCEPT ![p][g] = t]
        /\ t \in Thread /\ t.at = "waiting" /\ t.entry = x.entry
    BY <1>4, MoveIs, ZenonT(60) DEF ScrapeDone, ScrapeFails
  <2>4. EntriesType' /\ EntriesKept
    BY <2>1, EntriesSame DEF MonitorInv
  <2>5. /\ run' \in [Minute -> {"none", "RUNNING", "FAILED", "COMPLETED"}]
        /\ \A m \in Minute : run'[m] # run[m] => x.tick = m
    BY <1>1, <2>2, ThreadFacts
  <2> HIDE DEF t, x
  <2>6. thread' \in [Proc -> [Entry -> Thread]]
    BY <2>3, ThreadType DEF MonitorInv
  <2>7. TypeOK'
    BY <2>1, <2>4, <2>5, <2>6, TypeFromParts DEF MonitorInv, TypeOK, JobState
  <2> QED
    BY <1>1, <2>1, <2>3, <2>4, <2>5, <2>7, ThreadMoves DEF x
<1>5. CASE WakeUp(p, g)
  <2>1. UNCHANGED <<clock, aoi, phase, cycle, entries, run, job, request, requests, faults,
                    crashes, handed>> /\ x.at = "waiting"
    BY <1>5 DEF WakeUp
  <2> DEFINE at == IF phase[p] = "stopped" \/ Cancelled(p, g) THEN "exiting" ELSE "top"
             t == [x EXCEPT !.tick = 0, !.at = at]
  <2>2. /\ at \in {"exiting", "top"}
        /\ at = "exiting" => phase[p] = "stopped" \/ Cancelled(p, g)
    OBVIOUS
  <2>3. /\ thread' = [thread EXCEPT ![p][g] = t]
        /\ t \in Thread /\ t.at = at /\ t.entry = x.entry
    <3>0. 0 \in Minute
      BY BoundAssumption DEF Minute
    <3>1. t \in Thread /\ t.at = at /\ t.entry = x.entry
      BY <1>1, <2>2, <3>0 DEF Thread
    <3>2. thread' = [thread EXCEPT ![p][g].tick = 0, ![p][g].at = at]
      BY <1>5 DEF WakeUp
    <3> QED
      BY <3>1, <3>2, ThreadFacts
  <2>4. EntriesType' /\ EntriesKept
    BY <2>1, EntriesSame DEF MonitorInv
  <2>5. at = "exiting" => phase[p] # "up" \/ entries'[p][x.entry].cancelled
    BY <2>1, <2>2 DEF Cancelled
  <2> HIDE DEF t, at, x
  <2>6. thread' \in [Proc -> [Entry -> Thread]]
    BY <2>3, ThreadType DEF MonitorInv
  <2>7. TypeOK'
    BY <2>1, <2>4, <2>6, TypeFromParts DEF MonitorInv, TypeOK, JobState
  <2> QED
    BY <1>1, <2>1, <2>2, <2>3, <2>4, <2>5, <2>7, ThreadMoves
<1>6. CASE RecordEnd(p, g)
  <2> DEFINE st == IF phase[p] = "stopped" \/ Cancelled(p, g) THEN "CANCELLED" ELSE "COMPLETED"
             c == Len(entries[p])
             e == [entries[p][c] EXCEPT !.status = st]
             t == [x EXCEPT !.at = "leaving"]
  <2>1. /\ UNCHANGED <<clock, aoi, phase, cycle, run, job, request, requests, faults, crashes, handed>>
        /\ x.at = "exiting" /\ entries' = [entries EXCEPT ![p][c].status = st]
    BY <1>6 DEF RecordEnd, Current
  <2>2. /\ thread' = [thread EXCEPT ![p][g] = t]
        /\ t \in Thread /\ t.at = "leaving" /\ t.entry = x.entry
    BY <1>6, MoveIs DEF RecordEnd
  <2>3. c \in 1..c /\ entries[p][c] \in MonitorEntry /\ x.entry \in 1..c
    <3>1. x.entry \in 1..c /\ c \in Nat
      BY <1>1, <2>1 DEF TypeOK
    <3>2. c \in 1..c
      BY <3>1
    <3> QED
      BY <1>1, <3>1, <3>2, EntryType
  <2>4. e \in MonitorEntry /\ e.cancelled = entries[p][c].cancelled
    BY <2>3 DEF MonitorEntry
  <2>5. entries' = [entries EXCEPT ![p][c] = e]
    BY <1>1, <2>1, <2>3 DEF TypeOK
  <2>6. EntriesType' /\ EntriesKept
    <3> HIDE DEF e
    <3> QED
      BY <1>1, <2>3, <2>4, <2>5, EntryChanges
  <2>7. phase[p] # "up" \/ entries'[p][x.entry].cancelled \/ clock > Closes
    BY <2>1, <2>3, <2>6 DEF MonitorInv, Leaving, Cancelled, EntriesKept
  <2>8. x.entry \in 1..Len(entries'[p])
    BY <2>3, <2>6 DEF EntriesKept
  <2> HIDE DEF st, e, t, x, c
  <2>9. thread' \in [Proc -> [Entry -> Thread]]
    BY <2>2, ThreadType DEF MonitorInv
  <2>10. TypeOK'
    BY <2>1, <2>6, <2>9, TypeFromParts DEF MonitorInv, TypeOK, JobState
  <2> QED
    BY <2>1, <2>2, <2>6, <2>7, <2>8, <2>10, ThreadMoves
<1>7. CASE HandOver(p, g)
  <2>1. /\ UNCHANGED <<clock, aoi, phase, cycle, entries, run, request, requests, crashes>>
        /\ x.at = "leaving"
    BY <1>7 DEF HandOver
  <2>2. /\ handed' \subseteq Minute /\ job' \in JobState /\ faults' \in 0..MaxFaults
    BY <1>1, <1>7, BoundAssumption DEF HandOver, TypeOK, JobState, Fault
  <2>3. PICK at \in {"ended", "lost"} : Move(p, g, at)
    BY <1>7 DEF HandOver
  <2> DEFINE t == [x EXCEPT !.at = at]
  <2>4. /\ thread' = [thread EXCEPT ![p][g] = t]
        /\ t \in Thread /\ t.at = at /\ t.entry = x.entry
    <3>1. t \in Thread /\ t.at = at /\ t.entry = x.entry
      BY <1>1 DEF Thread
    <3> QED
      BY <2>3, <3>1, ThreadFacts DEF Move
  <2>5. EntriesType' /\ EntriesKept
    BY <2>1, EntriesSame DEF MonitorInv
  <2> HIDE DEF t, x
  <2>6. thread' \in [Proc -> [Entry -> Thread]]
    BY <2>4, ThreadType DEF MonitorInv
  <2>7. TypeOK'
    BY <2>1, <2>2, <2>5, <2>6, TypeFromParts DEF MonitorInv, TypeOK
  <2> QED
    BY <1>1, <2>1, <2>3, <2>4, <2>5, <2>7, ThreadMoves
<1> QED
  BY <1>2, <1>3, <1>4, <1>5, <1>6, <1>7 DEF ThreadStep

-----------------------------------------------------------------------------
(* What a step of the registry, a request or a shutdown may change. *)
LEMMA RegistryMoves ==
    ASSUME MonitorInv, EntriesType', EntriesKept, UNCHANGED <<clock, thread, run, faults, handed>>,
           job' \in JobState,
           aoi' \in {"on", "off", "gone"}, phase' \in [Proc -> {"up", "closing", "stopped"}],
           \A p \in Proc : phase[p] # "up" => phase'[p] # "up",
           cycle' \in [Proc -> {"idle", "loaded"}],
           request' \in [Proc -> {"none", "disabling", "deleting"}],
           requests' \in 0..MaxRequests, crashes' \in 0..MaxCrashes
    PROVE  MonitorInv'
<1>1. TypeOK'
  BY DEF MonitorInv, TypeOK, EntriesType, JobState
<1>2. clock' >= clock
  BY Bounds DEF MonitorInv, TypeOK, Minute
<1> QED
  BY <1>1, <1>2, ThreadsLeftAlone

LEMMA ScheduleKeeps ==
    ASSUME MonitorInv, NEW p \in Proc, ScheduleMonitor(p)
    PROVE  MonitorInv'
<1> DEFINE e == [status |-> "SCHEDULED", cancelled |-> FALSE,
                 timer |-> IF clock >= Opens THEN "starting" ELSE "arming"]
           s == Append(entries[p], e)
<1>1. e \in MonitorEntry
  BY DEF MonitorEntry
<1>2. /\ entries \in [Proc -> Seq(MonitorEntry)] /\ entries[p] \in Seq(MonitorEntry)
      /\ Len(entries[p]) \in Nat /\ Len(entries[p]) < MaxEntries
      /\ \A q \in Proc : Len(entries[q]) <= MaxEntries /\ Len(entries[q]) \in Nat
  BY DEF MonitorInv, TypeOK, ScheduleMonitor, Current
<1>3. /\ s \in Seq(MonitorEntry) /\ Len(s) = Len(entries[p]) + 1
      /\ \A i \in 1..Len(entries[p]) : s[i] = entries[p][i]
  <2> HIDE DEF e
  <2> QED
    BY <1>1, <1>2
<1>4. /\ entries' = [entries EXCEPT ![p] = s] /\ cycle' = [cycle EXCEPT ![p] = "idle"]
      /\ UNCHANGED <<clock, aoi, phase, thread, run, job, request, requests, faults, crashes, handed>>
  BY DEF ScheduleMonitor
<1> HIDE DEF s, e
<1>5. entries' \in [Proc -> Seq(MonitorEntry)] /\ entries'[p] = s
      /\ \A q \in Proc : q # p => entries'[q] = entries[q]
  BY <1>2, <1>3, <1>4
<1>6. EntriesType'
  <2>1. Len(s) <= MaxEntries
    BY <1>2, <1>3, Bounds
  <2> QED
    BY <1>2, <1>5, <2>1 DEF EntriesType
<1>7. EntriesKept
  <2> SUFFICES ASSUME NEW q \in Proc
               PROVE  /\ Len(entries[q]) \in Nat /\ Len(entries'[q]) \in Nat
                      /\ Len(entries'[q]) >= Len(entries[q])
                      /\ \A j \in 1..Len(entries[q]) :
                             entries[q][j].cancelled => entries'[q][j].cancelled
    BY DEF EntriesKept
  <2>1. CASE q # p
    BY <1>2, <1>5, <2>1
  <2>2. CASE q = p
    BY <1>2, <1>3, <1>5, <2>2
  <2> QED
    BY <2>1, <2>2
<1>8. cycle' \in [Proc -> {"idle", "loaded"}]
  BY <1>4 DEF MonitorInv, TypeOK
<1> QED
  BY <1>4, <1>6, <1>7, <1>8, RegistryMoves DEF MonitorInv, TypeOK, JobState

LEMMA TimerKeeps ==
    ASSUME MonitorInv, NEW p \in Proc, NEW g \in Entry, ArmTimer(p, g) \/ TimerFires(p, g)
    PROVE  MonitorInv'
<1>1. g \in 1..Len(entries[p]) /\ entries[p][g] \in MonitorEntry
      /\ entries \in [Proc -> Seq(MonitorEntry)]
  <2>1. g <= Len(entries[p]) /\ g \in Nat /\ g >= 1 /\ Len(entries[p]) \in Nat
        /\ entries \in [Proc -> Seq(MonitorEntry)]
    BY Bounds DEF ArmTimer, TimerFires, Current, Entry, MonitorInv, TypeOK
  <2>2. g \in 1..Len(entries[p])
    BY <2>1
  <2> QED
    BY <2>1, <2>2, EntryType DEF MonitorInv
<1>2. PICK to \in {"armed", "starting"} : entries' = [entries EXCEPT ![p][g].timer = to]
  BY DEF ArmTimer, TimerFires
<1> DEFINE e == [entries[p][g] EXCEPT !.timer = to]
<1>3. e \in MonitorEntry /\ e.cancelled = entries[p][g].cancelled
  BY <1>1 DEF MonitorEntry
<1>4. entries' = [entries EXCEPT ![p][g] = e]
  BY <1>1, <1>2
<1> HIDE DEF e
<1>5. EntriesType' /\ EntriesKept
  BY <1>1, <1>3, <1>4, EntryChanges DEF MonitorInv
<1>6. UNCHANGED <<clock, aoi, phase, cycle, thread, run, job, request, requests, faults, crashes, handed>>
  BY DEF ArmTimer, TimerFires
<1> QED
  BY <1>5, <1>6, RegistryMoves DEF MonitorInv, TypeOK, JobState

(* A process dies with its threads: only the rows it claimed remain. *)
LEMMA CrashKeeps ==
    ASSUME MonitorInv, NEW p \in Proc, Crash(p)
    PROVE  MonitorInv'
<1>1. /\ crashes' \in 0..MaxCrashes
      /\ phase' = [phase EXCEPT ![p] = "up"] /\ cycle' = [cycle EXCEPT ![p] = "idle"]
      /\ entries' = [entries EXCEPT ![p] = <<>>]
      /\ thread' = [thread EXCEPT ![p] = [g \in Entry |-> NoThread]]
      /\ request' = [request EXCEPT ![p] = "none"]
      /\ UNCHANGED <<clock, aoi, run, job, requests, faults, handed>>
  BY BoundAssumption DEF Crash, MonitorInv, TypeOK
<1>2. /\ thread' \in [Proc -> [Entry -> Thread]]
      /\ \A g \in Entry : thread'[p][g].at = "none"
      /\ \A q \in Proc : q # p => thread'[q] = thread[q]
  BY <1>1, Bounds DEF MonitorInv, TypeOK
<1>3. /\ entries' \in [Proc -> Seq(MonitorEntry)]
      /\ \A q \in Proc : Len(entries'[q]) <= MaxEntries
      /\ \A q \in Proc : q # p => entries'[q] = entries[q] /\ phase'[q] = phase[q]
  BY <1>1, Bounds DEF MonitorInv, TypeOK
<1>4. TypeOK'
  BY <1>1, <1>2, <1>3 DEF MonitorInv, TypeOK
<1>5. Linked'
  BY <1>2, <1>3 DEF MonitorInv, Linked
<1>6. Leaving'
  BY <1>1, <1>2, <1>3 DEF MonitorInv, Leaving, Cancelled
<1>7. Claimed'
  BY <1>1, <1>2 DEF MonitorInv, Claimed
<1>8. OneScrapePerMinute'
  BY <1>1, <1>2 DEF MonitorInv, OneScrapePerMinute
<1> QED
  BY <1>4, <1>5, <1>6, <1>7, <1>8 DEF MonitorInv

LEMMA ProcessKeeps ==
    ASSUME MonitorInv, NEW p \in Proc, CycleStep(p) \/ RequestStep(p) \/ ProcessStep(p)
    PROVE  MonitorInv'
<1>1. /\ TypeOK /\ aoi \in {"on", "off", "gone"} /\ phase \in [Proc -> {"up", "closing", "stopped"}]
      /\ cycle \in [Proc -> {"idle", "loaded"}]
      /\ request \in [Proc -> {"none", "disabling", "deleting"}]
      /\ requests \in 0..MaxRequests /\ crashes \in 0..MaxCrashes /\ job \in JobState
  BY DEF MonitorInv, TypeOK, JobState
<1>2. NewRequest => requests' \in 0..MaxRequests
  BY <1>1, BoundAssumption DEF NewRequest
<1>3. CASE LoadAois(p) \/ ScheduleNothing(p)
  <2>1. UNCHANGED <<clock, aoi, phase, entries, thread, run, job, request, requests, faults,
                    crashes, handed>> /\ cycle' \in [Proc -> {"idle", "loaded"}]
    BY <1>1, <1>3 DEF LoadAois, ScheduleNothing
  <2> QED
    BY <1>1, <2>1, EntriesSame, RegistryMoves
<1>4. CASE ScheduleMonitor(p)
  BY <1>4, ScheduleKeeps
<1>5. CASE Disable(p) \/ Enable(p) \/ Delete(p)
  <2>1. /\ UNCHANGED <<clock, phase, cycle, entries, thread, run, faults, crashes, handed>>
        /\ aoi' \in {"on", "off", "gone"} /\ job' \in JobState
        /\ request' \in [Proc -> {"none", "disabling", "deleting"}]
        /\ requests' \in 0..MaxRequests
    BY <1>1, <1>2, <1>5 DEF Disable, Enable, Delete, JobState
  <2> QED
    BY <1>1, <2>1, EntriesSame, RegistryMoves
<1>6. CASE DisableStops(p) \/ DeleteStops(p) \/ DisableSatellite(p)
  <2>1. /\ UNCHANGED <<clock, aoi, phase, cycle, thread, run, job, faults, crashes, handed>>
        /\ request' \in [Proc -> {"none", "disabling", "deleting"}]
        /\ requests' \in 0..MaxRequests /\ CancelCurrent(p)
    BY <1>1, <1>2, <1>6 DEF DisableStops, DeleteStops, DisableSatellite
  <2> QED
    BY <1>1, <2>1, CancelChanges, RegistryMoves
<1>7. CASE BeginShutdown(p)
  <2>1. /\ UNCHANGED <<clock, aoi, cycle, entries, thread, run, job, request, requests, faults,
                       crashes, handed>>
        /\ phase' = [phase EXCEPT ![p] = "closing"]
    BY <1>7 DEF BeginShutdown
  <2>2. /\ phase' \in [Proc -> {"up", "closing", "stopped"}]
        /\ \A q \in Proc : phase[q] # "up" => phase'[q] # "up"
    BY <1>1, <2>1
  <2> QED
    BY <1>1, <2>1, <2>2, EntriesSame, RegistryMoves
<1>8. CASE StopAll(p)
  <2>1. /\ UNCHANGED <<clock, aoi, cycle, thread, run, job, request, requests, faults, crashes, handed>>
        /\ phase' = [phase EXCEPT ![p] = "stopped"] /\ CancelCurrent(p)
    BY <1>8 DEF StopAll
  <2>2. /\ phase' \in [Proc -> {"up", "closing", "stopped"}]
        /\ \A q \in Proc : phase[q] # "up" => phase'[q] # "up"
    BY <1>1, <2>1
  <2> QED
    BY <1>1, <2>1, <2>2, CancelChanges, RegistryMoves
<1>9. CASE Crash(p)
  BY <1>9, CrashKeeps
<1> QED
  BY <1>3, <1>4, <1>5, <1>6, <1>7, <1>8, <1>9 DEF CycleStep, RequestStep, ProcessStep

LEMMA MonitorStep == MonitorInv /\ [Next]_vars => MonitorInv'
<1> SUFFICES ASSUME MonitorInv, [Next]_vars PROVE MonitorInv'
  OBVIOUS
<1>1. CASE Tick
  <2>1. /\ UNCHANGED <<aoi, phase, cycle, entries, thread, run, job, request, requests, faults,
                       crashes, handed>>
        /\ clock' \in Minute /\ clock' >= clock
    BY <1>1, Bounds DEF Tick, MonitorInv, TypeOK, Minute
  <2>2. TypeOK'
    BY <2>1 DEF MonitorInv, TypeOK
  <2>3. EntriesKept
    BY <2>1, EntriesSame DEF MonitorInv
  <2> QED
    BY <2>1, <2>2, <2>3, ThreadsLeftAlone
<1>2. ASSUME NEW p \in Proc, CycleStep(p) \/ RequestStep(p) \/ ProcessStep(p) PROVE MonitorInv'
  BY <1>2, ProcessKeeps
<1>3. ASSUME NEW p \in Proc, NEW g \in Entry, TimerStep(p, g) \/ ThreadStep(p, g)
      PROVE  MonitorInv'
  BY <1>3, TimerKeeps, StartThreadKeeps, ThreadKeeps DEF TimerStep
<1>4. CASE FormRegisters \/ PollTakes
  <2>1. /\ UNCHANGED <<clock, aoi, phase, cycle, entries, thread, run, request, faults,
                       crashes, handed>>
        /\ job' \in JobState /\ requests' \in 0..MaxRequests
    BY <1>4, BoundAssumption DEF FormRegisters, PollTakes, NewRequest, JobState, MonitorInv, TypeOK
  <2>2. EntriesType' /\ EntriesKept
    BY <2>1, EntriesSame DEF MonitorInv
  <2> QED
    BY <2>1, <2>2, RegistryMoves DEF MonitorInv, TypeOK
<1>5. CASE UNCHANGED vars
  <2>1. UNCHANGED <<clock, aoi, phase, cycle, entries, thread, run, job, request, requests, faults,
                    crashes, handed>>
    BY <1>5 DEF vars
  <2>2. EntriesType' /\ EntriesKept
    BY <2>1, EntriesSame DEF MonitorInv
  <2> QED
    BY <2>1, <2>2, RegistryMoves DEF MonitorInv, TypeOK, JobState
<1> QED
  BY <1>1, <1>2, <1>3, <1>4, <1>5 DEF Next

(* Every variable stays in its range. *)
THEOREM MonitorTypeCorrect == Spec => []TypeOK
<1>1. MonitorInv => TypeOK
  BY DEF MonitorInv
<1> QED
  BY <1>1, MonitorInitially, MonitorStep, PTL DEF Spec

(* However many processes and threads monitor the pass, a minute is        *)
(* scraped by at most one of them at a time (sqlite_post_pass.py:665).     *)
THEOREM AlwaysOneScrapePerMinute == Spec => []OneScrapePerMinute
<1>1. MonitorInv => OneScrapePerMinute
  BY DEF MonitorInv
<1> QED
  BY <1>1, MonitorInitially, MonitorStep, PTL DEF Spec

(* The job is handed over before its window has ended only by a process    *)
(* that is shutting down (pass_monitor.py:196-217).                        *)
THEOREM HandOverNeverEarly == Spec => EarlyHandOverOnlyClosing
<1>1. ASSUME MonitorInv, [Next]_vars
      PROVE  (handed' # handed /\ clock <= Closes) => \E p \in Proc : phase[p] = "closing"
  <2> SUFFICES ASSUME handed' # handed, clock <= Closes
               PROVE  \E p \in Proc : phase[p] = "closing"
    OBVIOUS
  <2>1. PICK p \in Proc, g \in Entry : HandOver(p, g)
    <3>1. \A p \in Proc : ~CycleStep(p) /\ ~RequestStep(p) /\ ~ProcessStep(p)
      BY DEF CycleStep, RequestStep, ProcessStep, LoadAois, ScheduleMonitor, ScheduleNothing,
         Disable, DisableStops, Enable, DeleteStops, Delete, DisableSatellite,
         BeginShutdown, StopAll, Crash
    <3>2. \A p \in Proc, g \in Entry : ~TimerStep(p, g)
      BY DEF TimerStep, ArmTimer, TimerFires, StartThread
    <3>3. \A p \in Proc, g \in Entry : ThreadStep(p, g) => HandOver(p, g)
      BY DEF ThreadStep, LoopTop, ClaimMinute, ScrapeDone, ScrapeFails, WakeUp, RecordEnd
    <3> QED
      BY <1>1, <3>1, <3>2, <3>3 DEF Next, vars, Tick, FormRegisters, PollTakes
  <2>2. thread[p][g].at = "leaving" /\ phase[p] # "stopped" /\ ~Cancelled(p, g)
    BY <2>1 DEF HandOver, HandsOver
  <2>3. phase[p] # "up"
    <3>1. clock \in Int /\ Closes \in Int
      BY <1>1, WindowAssumption, Bounds DEF MonitorInv, TypeOK, Minute
    <3> QED
      BY <1>1, <2>2, <3>1 DEF MonitorInv, Leaving
  <2>4. phase[p] \in {"up", "closing", "stopped"}
    BY <1>1 DEF MonitorInv, TypeOK
  <2> QED
    BY <2>2, <2>3, <2>4
<1> QED
  BY <1>1, MonitorInitially, MonitorStep, PTL DEF Spec, EarlyHandOverOnlyClosing
=============================================================================
