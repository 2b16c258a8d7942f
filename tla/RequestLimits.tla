----------------------------- MODULE RequestLimits -----------------------------
(***************************************************************************)
(* What a request for the API passes before its view runs: the sliding     *)
(* window of its client and the API key (interfaces/web/security.py).      *)
(* Times are whole ticks.  The window belongs to a process: the model is   *)
(* one client of one process, with a thread for each request under way.    *)
(***************************************************************************)
EXTENDS Integers, Sequences, FiniteSets

CONSTANTS
    RequestThread,
    Limit,            \* rate_limit_per_minute
    Window,           \* window_seconds
    MaxLockLag,       \* ticks between reading the clock and holding the lock
    MaxRequestClock   \* bounds the clock

ASSUME LimitAssumption ==
    /\ Limit \in Nat \ {0}
    /\ Window \in Nat \ {0}
    /\ MaxLockLag \in Nat /\ MaxLockLag < Window
    /\ MaxRequestClock \in Nat

VARIABLES
    requestClock,
    caller,       \* of each thread: where it is, its `now`, whether its key is good
    allowed,       \* the `now` of every request that was allowed, in their order
    kept           \* _requests[client_id]: which of these it still holds

limitVars == <<requestClock, caller, allowed, kept>>

NotCalling == [at |-> "none", now |-> 0, key |-> FALSE]

LimitTypeOK ==
    /\ requestClock \in 0..MaxRequestClock
    /\ caller \in [RequestThread -> [at : {"none", "checking", "key", "view"},
                                      now : 0..MaxRequestClock, key : BOOLEAN]]
    /\ allowed \in Seq(0..MaxRequestClock)
    /\ kept \subseteq DOMAIN allowed

LimitInit ==
    /\ requestClock = 0
    /\ caller = [t \in RequestThread |-> NotCalling]
    /\ allowed = <<>> /\ kept = {}

-----------------------------------------------------------------------------
(* check_security reaches rate_limiter.check: `now` is read, the lock is   *)
(* not held yet.  Preflight requests, probes, static files and public      *)
(* views never come here.                                                  *)
Arrive(t) ==
    /\ caller[t].at = "none"
    /\ \E good \in BOOLEAN :
           caller' = [caller EXCEPT ![t] = [at |-> "checking", now |-> requestClock,
                                              key |-> good]]
    /\ UNCHANGED <<requestClock, allowed, kept>>

(* Slip: what has just left the window is dropped a tick early. *)
InWindowEarly(now) == {i \in kept : allowed[i] > now - Window + 1}

(* The timestamps a request keeps: by its own `now`, which another thread  *)
(* that came later may have overtaken.                                     *)
InWindow(now) == {i \in kept : allowed[i] > now - Window}

Allow(t) ==
    /\ caller[t].at = "checking"
    /\ Cardinality(InWindow(caller[t].now)) < Limit
    /\ kept' = InWindow(caller[t].now) \cup {Len(allowed) + 1}
    /\ allowed' = Append(allowed, caller[t].now)
    /\ caller' = [caller EXCEPT ![t].at = "key"]
    /\ UNCHANGED requestClock

(* 429: what has left the window is forgotten all the same. *)
Refuse(t) ==
    /\ caller[t].at = "checking"
    /\ Cardinality(InWindow(caller[t].now)) >= Limit
    /\ kept' = InWindow(caller[t].now)
    /\ caller' = [caller EXCEPT ![t] = NotCalling]
    /\ UNCHANGED <<requestClock, allowed>>

(* The key is looked at after the window: a bad one has used its place. *)
CheckKey(t) ==
    /\ caller[t].at = "key"
    /\ caller' = [caller EXCEPT ![t] = IF caller[t].key
                                         THEN [caller[t] EXCEPT !.at = "view"]
                                         ELSE NotCalling]
    /\ UNCHANGED <<requestClock, allowed, kept>>

Answer(t) ==
    /\ caller[t].at = "view"
    /\ caller' = [caller EXCEPT ![t] = NotCalling]
    /\ UNCHANGED <<requestClock, allowed, kept>>

(* A thread holds the lock within MaxLockLag of reading the clock. *)
RequestTick ==
    /\ requestClock < MaxRequestClock
    /\ \A t \in RequestThread :
           caller[t].at = "checking" => requestClock - caller[t].now < MaxLockLag
    /\ requestClock' = requestClock + 1
    /\ UNCHANGED <<caller, allowed, kept>>

LimitNext ==
    \/ RequestTick
    \/ \E t \in RequestThread :
           Arrive(t) \/ Allow(t) \/ Refuse(t) \/ CheckKey(t) \/ Answer(t)

LimitSpec == LimitInit /\ [][LimitNext]_limitVars

-----------------------------------------------------------------------------
Within(width, last) ==
    {i \in DOMAIN allowed : allowed[i] > last - width /\ allowed[i] <= last}

(* No stretch of time as long as the window, less the time a thread may    *)
(* wait for the lock, has more than the limit of allowed requests,         *)
(* although the clock is read outside the lock and the timestamps are      *)
(* neither sorted nor evicted by one clock (interfaces/web/security.py:28, *)
(* 34, 42).                                                                *)
WindowHeld ==
    \A last \in 0..MaxRequestClock : Cardinality(Within(Window - MaxLockLag, last)) <= Limit

(* "sliding window rate limiter" (interfaces/web/security.py:15): the same *)
(* for the whole window.  TLC refutes it: two threads that overtake each   *)
(* other between clock and lock let one request too many through.          *)
WholeWindowHeld ==
    \A last \in 0..MaxRequestClock : Cardinality(Within(Window, last)) <= Limit
=============================================================================
