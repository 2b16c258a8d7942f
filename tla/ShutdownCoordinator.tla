------------------------- MODULE ShutdownCoordinator -------------------------
(***************************************************************************)
(* The end of the development server (app.py): the coordinator of          *)
(* application/shutdown.py, its signal handler and its watchdog, and the   *)
(* clean-up of the container.  Python runs a signal handler on the main    *)
(* thread, between any two steps of what that thread does, another         *)
(* handler included: the thread is a stack of frames, the program at the   *)
(* bottom and one frame per handler in progress.  A Lock of the module     *)
(* threading, and so the inside of an Event, is not reentrant: a frame can *)
(* wait for a lock that a frame below it holds.                            *)
(* Under gunicorn no handler is installed and nothing here runs.           *)
(***************************************************************************)
EXTENDS Naturals, Sequences

CONSTANT MaxSignals     \* bound: termination signals the process receives

ASSUME SignalAssumption == MaxSignals \in Nat

VARIABLES
    stack,              \* the frames of the main thread: what each does next
    requested,          \* _shutdown_event
    started,            \* _watchdog_started
    watchdog,           \* the watchdog thread sleeps until the deadline
    holder,             \* per lock, the frame that holds it, 0: none
    cleanedUp,          \* container.shutdown has run to its end
    busy,               \* a thread of the task pool still works
    signals,            \* signals received
    interrupted         \* one came in the middle of Arming (history)

shutdownVars == <<stack, requested, started, watchdog, holder, cleanedUp, busy,
                  signals, interrupted>>

(* _shutdown_event, the coordinator's own, and the callback's: it takes    *)
(* those of the scheduler's and the pass monitor's stop events, of the     *)
(* monitor's registry and of the task queue one after the other.  A        *)
(* handler that arrives while any of them is held waits for its own        *)
(* thread; one that arrives between them finds them free, as it does       *)
(* before the first.  So one lock, "queue", stands for all.                *)
Lock == {"event", "coordinator", "queue"}

(* The steps of request_shutdown; serve, direct, stopAgain and exit are the *)
(* program's own: serving, container.shutdown once more, interpreter exit.  *)
HandlerSteps == {"flag", "set", "enterStart", "mark", "spawn", "enterCopy", "copy",
                 "clean", "stopQueue", "over"}
ProgramSteps == HandlerSteps \cup {"serve", "direct", "stopAgain", "exit", "ended", "killed"}

(* Between these steps and the next the deadline is being armed. *)
Arming == {"set", "mark", "spawn"}

Depth == Len(stack)
Top == stack[Depth]
Continue(next) == stack' = [stack EXCEPT ![Depth] = next]
Alive == stack \notin {<<"ended">>, <<"killed">>}

ShutdownTypeOK ==
    /\ stack \in Seq(ProgramSteps) /\ Depth \in 1..(MaxSignals + 1)
    /\ \A d \in 2..Depth : stack[d] \in HandlerSteps
    /\ {requested, started, watchdog, cleanedUp, busy, interrupted} \subseteq BOOLEAN
    /\ holder \in [Lock -> 0..Depth]
    /\ signals \in 0..MaxSignals

ShutdownInit ==
    /\ stack = <<"serve">>
    /\ requested = FALSE /\ started = FALSE /\ watchdog = FALSE
    /\ holder = [l \in Lock |-> 0]
    /\ cleanedUp = FALSE
    /\ busy \in BOOLEAN
    /\ signals = 0 /\ interrupted = FALSE

(***************************************************************************)
(* A signal: the handler begins on top of whatever the main thread does.   *)
(* It interrupts a wait for a lock too.                                    *)
(***************************************************************************)
Signal ==
    /\ Alive /\ signals < MaxSignals
    /\ signals' = signals + 1
    /\ stack' = Append(stack, "flag")
    /\ interrupted' = (interrupted \/ Top \in Arming)
    /\ UNCHANGED <<requested, started, watchdog, holder, cleanedUp, busy>>

(* app.run returns or raises: the finally block of app.py. *)
ServerStops ==
    /\ Top = "serve"
    /\ Continue("flag")
    /\ UNCHANGED <<requested, started, watchdog, holder, cleanedUp, busy, signals, interrupted>>

(* `with lock:` up to its first step inside, and its end. *)
Acquire(lock, before, inside) ==
    /\ Top = before
    /\ holder[lock] = 0
    /\ holder' = [holder EXCEPT ![lock] = Depth]
    /\ Continue(inside)

Release(lock, next) ==
    /\ holder' = [holder EXCEPT ![lock] = 0]
    /\ Continue(next)

(* Slip: a shutdown that is already requested is left to the first caller. *)
IsRequestedDone ==
    /\ Top = "flag" /\ requested
    /\ Continue("over")
    /\ UNCHANGED <<requested, started, watchdog, holder, cleanedUp, busy, signals, interrupted>>

(* The flag is tested without a lock, and set under the event's. *)
IsRequested ==
    /\ Top = "flag" /\ requested
    /\ Continue("enterStart")
    /\ UNCHANGED <<requested, started, watchdog, holder, cleanedUp, busy, signals, interrupted>>

EnterSet ==
    /\ ~requested
    /\ Acquire("event", "flag", "set")
    /\ UNCHANGED <<requested, started, watchdog, cleanedUp, busy, signals, interrupted>>

SetFlag ==
    /\ Top = "set"
    /\ requested' = TRUE
    /\ Release("event", "enterStart")
    /\ UNCHANGED <<started, watchdog, cleanedUp, busy, signals, interrupted>>

EnterStart ==
    /\ Acquire("coordinator", "enterStart", "mark")
    /\ UNCHANGED <<requested, started, watchdog, cleanedUp, busy, signals, interrupted>>

(* Slip: the shutdown flag stands for the watchdog's own. *)
MarkByRequest ==
    /\ Top = "mark"
    /\ started' = TRUE
    /\ Release("coordinator", IF requested THEN "enterCopy" ELSE "spawn")
    /\ UNCHANGED <<requested, watchdog, cleanedUp, busy, signals, interrupted>>

(* The first caller marks the watchdog as started; it starts it below, when *)
(* the lock is free again.                                                  *)
Mark ==
    /\ Top = "mark"
    /\ started' = TRUE
    /\ Release("coordinator", IF started THEN "enterCopy" ELSE "spawn")
    /\ UNCHANGED <<requested, watchdog, cleanedUp, busy, signals, interrupted>>

Spawn ==
    /\ Top = "spawn"
    /\ watchdog' = TRUE
    /\ Continue("enterCopy")
    /\ UNCHANGED <<requested, started, holder, cleanedUp, busy, signals, interrupted>>

EnterCopy ==
    /\ Acquire("coordinator", "enterCopy", "copy")
    /\ UNCHANGED <<requested, started, watchdog, cleanedUp, busy, signals, interrupted>>

Copy ==
    /\ Top = "copy"
    /\ Release("coordinator", "clean")
    /\ UNCHANGED <<requested, started, watchdog, cleanedUp, busy, signals, interrupted>>

(***************************************************************************)
(* The callback, container.shutdown: scheduler and pass monitor, the task  *)
(* queue, the plugins; the first three under locks (see Lock).  Each part  *)
(* runs in a `try` of its own, so a part that fails changes nothing here.  *)
(* app.py calls it once more when the coordinator is done with it.         *)
(***************************************************************************)
CleanUp ==
    /\ \/ Acquire("queue", "clean", "stopQueue")
       \/ Acquire("queue", "direct", "stopAgain")
    /\ UNCHANGED <<requested, started, watchdog, cleanedUp, busy, signals, interrupted>>

EndCleanUp ==
    /\ \/ Top = "stopQueue" /\ Release("queue", "over")
       \/ Top = "stopAgain" /\ Release("queue", "exit")
    /\ cleanedUp' = TRUE
    /\ UNCHANGED <<requested, started, watchdog, busy, signals, interrupted>>

(***************************************************************************)
(* The handler ends by raising KeyboardInterrupt or SystemExit.  Neither   *)
(* is an Exception: the `except` around a callback lets it through, so it  *)
(* abandons every handler below, frees their locks, and reaches the        *)
(* program, which enters its finally block from the server and leaves it   *)
(* from any later step; at the wait for the threads it ends the wait.      *)
(***************************************************************************)
Landing == [step \in ProgramSteps |-> IF step = "serve" THEN "flag"
                                      ELSE IF step = "exit" THEN "ended" ELSE "exit"]

Raise ==
    /\ Top = "over" /\ Depth > 1
    /\ stack' = <<Landing[stack[1]]>>
    /\ holder' = [l \in Lock |-> 0]
    /\ UNCHANGED <<requested, started, watchdog, cleanedUp, busy, signals, interrupted>>

(* request_shutdown returns to the finally block. *)
Return ==
    /\ Top = "over" /\ Depth = 1
    /\ Continue("direct")
    /\ UNCHANGED <<requested, started, watchdog, holder, cleanedUp, busy, signals, interrupted>>

(* The interpreter waits for the threads of the task pool; _on_atexit, which *)
(* comes after, finds the shutdown requested and does nothing.              *)
Exit ==
    /\ Top = "exit" /\ ~busy
    /\ Continue("ended")
    /\ UNCHANGED <<requested, started, watchdog, holder, cleanedUp, busy, signals, interrupted>>

WorkEnds ==
    /\ busy /\ Alive
    /\ busy' = FALSE
    /\ UNCHANGED <<stack, requested, started, watchdog, holder, cleanedUp, signals, interrupted>>

(* os._exit after the deadline, wherever the main thread is. *)
Fire ==
    /\ watchdog /\ Alive
    /\ stack' = <<"killed">>
    /\ holder' = [l \in Lock |-> 0]
    /\ UNCHANGED <<requested, started, watchdog, cleanedUp, busy, signals, interrupted>>

MainStep ==
    \/ IsRequested \/ EnterSet \/ SetFlag
    \/ EnterStart \/ Mark \/ Spawn
    \/ EnterCopy \/ Copy
    \/ CleanUp \/ EndCleanUp
    \/ Raise \/ Return \/ Exit

ShutdownNext == Signal \/ ServerStops \/ MainStep \/ WorkEnds \/ Fire

(* The main thread runs unless it waits, a thread that sleeps wakes up, and *)
(* tasks end; signals need not come.                                        *)
ShutdownSpec ==
    /\ ShutdownInit /\ [][ShutdownNext]_shutdownVars
    /\ WF_shutdownVars(MainStep) /\ WF_shutdownVars(Fire) /\ WF_shutdownVars(WorkEnds)

-----------------------------------------------------------------------------
(* The main thread waits for a lock that it holds itself, further down. *)
WaitsForItself ==
    \/ Top = "flag" /\ ~requested /\ holder["event"] # 0
    \/ Top \in {"enterStart", "enterCopy"} /\ holder["coordinator"] # 0
    \/ Top \in {"clean", "direct"} /\ holder["queue"] # 0

(* The deadline of application/shutdown.py:118: from the first step of a    *)
(* shutdown on, the main thread is on its way to the watchdog or the        *)
(* watchdog runs, even if further signals make the thread wait for itself;  *)
(* the one exception is a signal that came while the deadline was armed.    *)
HardDeadline ==
    Alive /\ ~interrupted =>
        \/ watchdog
        \/ Top \in {"serve", "flag", "enterStart"} \cup Arming /\ ~WaitsForItself

(* A process that ends by itself has cleaned up, however many handlers      *)
(* abandoned each other's clean-up on the way (app.py:15-22,                *)
(* application/shutdown.py:106-125).                                        *)
ExitIsClean == stack = <<"ended">> => cleanedUp

(* SYSTEM_ARCHITECTURE_REPORT.md:314: the watchdog "guarantees termination" *)
(* (application/shutdown.py:55-78).  Refuted by a second signal inside      *)
(* Arming.                                                                  *)
DeadlineEnds == requested ~> ~Alive
=============================================================================
