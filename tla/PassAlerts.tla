------------------------------ MODULE PassAlerts ------------------------------
(***************************************************************************)
(* EvaluatePassAlerts: a request looks over the post-pass jobs and the pass *)
(* monitors, turns a missed pass or a late ingestion it has not met before  *)
(* into an alert, and dispatches the new alerts to the webhooks.           *)
(*                                                                         *)
(* What it has met is a set in the memory of the process.  Two requests     *)
(* may be inside execute() on two threads, and GET                         *)
(* /api/alerts/pass-monitoring runs it without dispatching.                *)
(*                                                                         *)
(* Abstracted: the jobs and monitors (an event is a deduplication key that *)
(* holds of one of them), the texts of the alerts, and the webhooks: a      *)
(* dispatch posts to those enabled for the severity, each once, and a post *)
(* that fails is logged and not repeated.                                  *)
(***************************************************************************)
EXTENDS Naturals, FiniteSets

CONSTANTS
    Call,          \* requests that evaluate the alerts
    Event,         \* deduplication keys
    MaxCalls,      \* bound on the calls
    MaxRestarts,   \* bound on the restarts of the process
    MaxHookFaults  \* bound on failing webhook queries

ASSUME AlertAssumption == {MaxCalls, MaxRestarts, MaxHookFaults} \subseteq Nat

VARIABLES
    present,       \* events that hold of a job or monitor now
    known,         \* _alerted_keys
    call,          \* the local state of each request
    calls, restarts, hookFaults,   \* counters for the bounds
    tries,         \* history: dispatches of an event since the last restart
    twice,         \* history: events two requests found new at once
    silenced,      \* history: events noted by a request that sent nothing
    lost           \* history: events whose webhooks could not be read

alertVars == <<present, known, call, calls, restarts, hookFaults,
               tries, twice, silenced, lost>>

Unasked == [pc |-> "idle", send |-> FALSE, todo |-> {}, fresh |-> {}, new |-> {}]

AlertInit ==
    /\ present = {} /\ known = {}
    /\ call = [c \in Call |-> Unasked]
    /\ calls = 0 /\ restarts = 0 /\ hookFaults = 0
    /\ tries = [e \in Event |-> 0]
    /\ twice = {} /\ silenced = {} /\ lost = {}

(* A job times out, fails or is late, or recovers by a retry. *)
JobChanges ==
    /\ \E e \in Event : present' = (present \ {e}) \cup ({e} \ present)
    /\ UNCHANGED <<known, call, calls, restarts, hookFaults, tries, twice, silenced, lost>>

(* A request starts with the jobs as they are: POST dispatches unless asked *)
(* not to, GET never does.                                                 *)
StartEvaluation(c) ==
    /\ call[c].pc = "idle"
    /\ calls < MaxCalls
    /\ calls' = calls + 1
    /\ \E send \in BOOLEAN :
        call' = [call EXCEPT ![c] = [Unasked EXCEPT !.pc = "look", !.send = send, !.todo = present]]
    /\ UNCHANGED <<present, known, restarts, hookFaults, tries, twice, silenced, lost>>

(* The next job: whether its alert is new is read before the alert is made. *)
Look(c) ==
    /\ call[c].pc = "look"
    /\ \E e \in call[c].todo :
        call' = [call EXCEPT ![c].pc = "note", ![c].fresh = {e} \ known,
                             ![c].todo = @ \ {e}]
    /\ UNCHANGED <<present, known, calls, restarts, hookFaults, tries, twice, silenced, lost>>

(* Slip: a new event is noted only when it was dispatched, so never here. *)
NoteForgets(c) ==
    /\ call[c].pc = "note"
    /\ call' = [call EXCEPT ![c].pc = "look", ![c].new = @ \cup call[c].fresh, ![c].fresh = {}]
    /\ twice' = twice \cup (call[c].fresh \cap known)
    /\ UNCHANGED <<present, known, calls, restarts, hookFaults, tries, silenced, lost>>

(* A new event is noted, before anything is sent, and kept for dispatch. *)
Note(c) ==
    /\ call[c].pc = "note"
    /\ call' = [call EXCEPT ![c].pc = "look", ![c].new = @ \cup call[c].fresh, ![c].fresh = {}]
    /\ known' = known \cup call[c].fresh
    /\ twice' = twice \cup (call[c].fresh \cap known)
    /\ UNCHANGED <<present, calls, restarts, hookFaults, tries, silenced, lost>>

EndLook(c) ==
    /\ call[c].pc = "look"
    /\ call[c].todo = {}
    /\ call' = [call EXCEPT ![c] = IF call[c].send /\ call[c].new # {}
                                   THEN [@ EXCEPT !.pc = "send"] ELSE Unasked]
    /\ silenced' = IF call[c].send THEN silenced ELSE silenced \cup call[c].new
    /\ UNCHANGED <<present, known, calls, restarts, hookFaults, tries, twice, lost>>

(* The next new alert goes to the webhooks; a failing query is logged and   *)
(* the alert dropped.                                                      *)
Send(c) ==
    /\ call[c].pc = "send"
    /\ \E e \in call[c].new :
        /\ call' = [call EXCEPT ![c] = IF call[c].new = {e} THEN Unasked
                                           ELSE [call[c] EXCEPT !.new = @ \ {e}]]
        /\ \/ tries' = [tries EXCEPT ![e] = @ + 1] /\ UNCHANGED <<hookFaults, lost>>
           \/ /\ hookFaults < MaxHookFaults
              /\ hookFaults' = hookFaults + 1
              /\ lost' = lost \cup {e}
              /\ UNCHANGED tries
    /\ UNCHANGED <<present, known, calls, restarts, twice, silenced>>

(* The process restarts with nothing known: what still holds is new again. *)
Restart ==
    /\ restarts < MaxRestarts
    /\ restarts' = restarts + 1
    /\ known' = {}
    /\ call' = [c \in Call |-> Unasked]
    /\ tries' = [e \in Event |-> 0]
    /\ twice' = {} /\ silenced' = {} /\ lost' = {}
    /\ UNCHANGED <<present, calls, hookFaults>>

AlertNext ==
    \/ JobChanges \/ Restart
    \/ \E c \in Call : StartEvaluation(c) \/ Look(c) \/ Note(c) \/ EndLook(c) \/ Send(c)

AlertSpec == AlertInit /\ [][AlertNext]_alertVars

-----------------------------------------------------------------------------
(* The events, requests and counters stay in their ranges. *)
AlertTypeOK ==
    /\ present \subseteq Event /\ known \subseteq Event
    /\ call \in [Call -> [pc : {"idle", "look", "note", "send"}, send : BOOLEAN,
                          todo : SUBSET Event, fresh : SUBSET Event, new : SUBSET Event]]
    /\ calls \in 0..MaxCalls /\ restarts \in 0..MaxRestarts
    /\ hookFaults \in 0..MaxHookFaults
    /\ tries \in [Event -> 0..MaxCalls]
    /\ twice \subseteq Event /\ silenced \subseteq Event /\ lost \subseteq Event

(* A request is still about to send the event. *)
Held(e) == \E c \in Call : e \in call[c].fresh \cup call[c].new

(* An event the process has met was dispatched exactly once since it        *)
(* started, unless two requests found it new at once, its webhooks could    *)
(* not be read, or the request that met it first did not dispatch: a look   *)
(* at the alerts uses them up.                                             *)
SentOnce ==
    \A e \in Event \ (twice \cup silenced \cup lost) :
        ~Held(e) => tries[e] = (IF e \in known THEN 1 ELSE 0)

(* "Evaluate pass and ingestion telemetry and dispatch new alerts to        *)
(* webhooks." (interfaces/web/alerts.py, evaluate_pass_monitoring_alerts): *)
(* what a dispatching request leaves known has been dispatched.  TLC        *)
(* refutes it: a GET before it made the event known and sent nothing.      *)
NewAlertsDispatched ==
    \A e \in (present \cap known) \ (twice \cup lost) :
        calls = MaxCalls /\ (\A c \in Call : call[c].pc = "idle") => tries[e] > 0
=============================================================================
