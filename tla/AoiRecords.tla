------------------------------- MODULE AoiRecords -------------------------------
(***************************************************************************)
(* One area of interest: its row with the operations policy and the budget *)
(* (persistence/sqlite_aois.py), its cached forecast, the requests that    *)
(* edit them (use_cases/manage_aois.py) and the scheduling checks that act *)
(* on them (use_cases/schedule_aois.py).                                   *)
(*                                                                         *)
(* An edit of the policy reads the row, merges and writes all five policy  *)
(* columns back by id; an expenditure reads it once more before that.      *)
(* `paid` and `raced` observe: what an exact budget would show, and        *)
(* whether some write fell between a read and the write based on it.       *)
(***************************************************************************)
EXTENDS Integers, FiniteSets

CONSTANTS
    AoiRequest,   \* concurrent requests
    Check,        \* scheduling checks, of several processes
    Budget,       \* values of collection_budget_usd; 0: no budget
    PassTime,     \* times of predicted passes
    ForecastTTL,  \* lifetime of a cached forecast
    MaxAoiClock,  \* bound: the clock stops here
    MaxSpent,     \* bound: money is counted up to here
    MaxEdits,     \* bound: policy edits and expenditures
    NoAoi,        \* the area is deleted
    NoForecast

ASSUME AoiAssumption ==
    /\ Budget \subseteq Nat /\ Budget # {} /\ PassTime \subseteq Nat \ {0}
    /\ ForecastTTL \in Nat \ {0}
    /\ MaxAoiClock \in Nat /\ MaxSpent \in Nat /\ MaxEdits \in Nat

VARIABLES
    aoiClock,
    aoi,       \* the row, or NoAoi
    forecast,  \* its row of aoi_forecasts, or NoForecast
    request,   \* per request: where it is and what it has read
    check,     \* per check: where it is and what it has read
    edits,
    paid,      \* observes the sum of what was set and spent
    raced      \* observes a policy written from an outdated read

aoiVars == <<aoiClock, aoi, forecast, request, check, edits, paid, raced>>

(* next: next_scan, 0 for NULL. *)
Aoi == [budget : Budget, spent : 0..MaxSpent, capture : BOOLEAN,
        next : PassTime \cup {0}]

(* A row that is there is told from one that is not. *)
ASSUME NoAoiAssumption == NoAoi \notin Aoi

Forecast == [passes : SUBSET PassTime, expires : Nat]

(* looked: record_expenditure has read the row; merging: the policy edit   *)
(* has read it and holds the policy it will write; predicting: the         *)
(* predictors run; predicted: they have answered.                          *)
Request == [at : {"idle", "looked", "merging", "predicting", "predicted"},
            read : 0..MaxSpent,           \* budget_spent_usd as read
            spent : 0..MaxSpent,          \* to write
            budget : Budget,              \* to write
            cost : 0..MaxSpent,           \* what the request adds
            set : BOOLEAN,                \* it sets budget_spent_usd itself
            passes : SUBSET PassTime]

NoRequest == [at |-> "idle", read |-> 0, spent |-> 0,
              budget |-> CHOOSE b \in Budget : TRUE, cost |-> 0,
              set |-> FALSE, passes |-> {}]

(* listed: the areas are listed; cached / uncached: the forecast was or    *)
(* was not found; predicted: the passes are known; monitoring: next_scan   *)
(* is written.                                                             *)
CheckRun == [at : {"idle", "listed", "cached", "uncached", "predicted",
                   "monitoring"},
             row : Aoi \cup {NoAoi}, passes : SUBSET PassTime]

NoCheck == [at |-> "idle", row |-> NoAoi, passes |-> {}]

AoiTypeOK ==
    /\ aoiClock \in 0..MaxAoiClock
    /\ aoi \in Aoi \cup {NoAoi}
    /\ forecast \in Forecast \cup {NoForecast}
    /\ request \in [AoiRequest -> Request]
    /\ check \in [Check -> CheckRun]
    /\ edits \in 0..MaxEdits
    /\ paid \in 0..MaxSpent
    /\ raced \in BOOLEAN

AoiInit ==
    /\ aoiClock = 0
    /\ aoi \in [budget : Budget, spent : {0}, capture : {TRUE}, next : {0}]
    /\ forecast = NoForecast
    /\ request = [q \in AoiRequest |-> NoRequest]
    /\ check = [c \in Check |-> NoCheck]
    /\ edits = 0
    /\ paid = 0
    /\ raced = FALSE

-----------------------------------------------------------------------------
(* Policy and budget.                                                      *)

Edit == edits < MaxEdits /\ edits' = edits + 1

(* record_expenditure: the row is read for the first time.  Without a row  *)
(* it raises LookupError.                                                  *)
SpendRead(q, cost) ==
    /\ request[q].at = "idle"
    /\ aoi # NoAoi
    /\ aoi.spent + cost <= MaxSpent
    /\ Edit
    /\ request' = [request EXCEPT ![q] = [NoRequest EXCEPT
                      !.at = "looked", !.read = aoi.spent, !.cost = cost]]
    /\ UNCHANGED <<aoiClock, aoi, forecast, check, paid, raced>>

(* Slip: what was spent is overwritten by the new cost alone. *)
SpendMergeCost(q) ==
    /\ request[q].at = "looked"
    /\ aoi # NoAoi
    /\ request' = [request EXCEPT
          ![q].at = "merging", ![q].read = aoi.spent, ![q].budget = aoi.budget,
          ![q].spent = request[q].cost]
    /\ raced' = (raced \/ aoi.spent # request[q].read)
    /\ UNCHANGED <<aoiClock, aoi, forecast, check, edits, paid>>

(* update_operations_policy, called with the sum of the first read, reads  *)
(* the row again for the columns it is not given.                          *)
SpendMerge(q) ==
    /\ request[q].at = "looked"
    /\ aoi # NoAoi
    /\ request' = [request EXCEPT
          ![q].at = "merging", ![q].read = aoi.spent, ![q].budget = aoi.budget,
          ![q].spent = request[q].read + request[q].cost]
    /\ raced' = (raced \/ aoi.spent # request[q].read)
    /\ UNCHANGED <<aoiClock, aoi, forecast, check, edits, paid>>

(* update_operations_policy with a budget and perhaps an amount spent. *)
PolicyMerge(q, budget, spent, set) ==
    /\ request[q].at = "idle"
    /\ aoi # NoAoi
    /\ Edit
    /\ request' = [request EXCEPT ![q] = [NoRequest EXCEPT
          !.at = "merging", !.read = aoi.spent, !.budget = budget, !.set = set,
          !.spent = IF set THEN spent ELSE aoi.spent]]
    /\ UNCHANGED <<aoiClock, aoi, forecast, check, paid, raced>>

(* UPDATE ... WHERE id: of a row deleted meanwhile it changes nothing, and *)
(* the request still answers with the merged record.                       *)
PolicyWrite(q) ==
    /\ request[q].at = "merging"
    /\ aoi' = IF aoi = NoAoi THEN NoAoi
              ELSE [aoi EXCEPT !.budget = request[q].budget,
                               !.spent = request[q].spent]
    /\ paid' = IF request[q].set THEN request[q].spent
               ELSE IF paid + request[q].cost > MaxSpent THEN MaxSpent
               ELSE paid + request[q].cost
    /\ raced' = (raced \/ (aoi # NoAoi /\ aoi.spent # request[q].read))
    /\ request' = [request EXCEPT ![q] = NoRequest]
    /\ UNCHANGED <<aoiClock, forecast, check, edits>>

(* The row is gone at the second read: LookupError. *)
SpendRefused(q) ==
    /\ request[q].at = "looked"
    /\ aoi = NoAoi
    /\ request' = [request EXCEPT ![q] = NoRequest]
    /\ UNCHANGED <<aoiClock, aoi, forecast, check, edits, paid, raced>>

-----------------------------------------------------------------------------
(* Forecasts.                                                              *)

(* get_cached_forecast: nothing once it has expired, else its passes that  *)
(* are not over.                                                           *)
Served(passes) ==
    IF aoiClock > forecast.expires THEN {} ELSE {t \in passes : t >= aoiClock}

Hit == forecast # NoForecast /\ aoiClock <= forecast.expires

(* execute_with_analysis: answered from the cache, or predicted anew. *)
ForecastRequest(q, refresh) ==
    /\ request[q].at = "idle"
    /\ aoi # NoAoi
    /\ refresh \/ ~Hit
    /\ request' = [request EXCEPT ![q] = [NoRequest EXCEPT !.at = "predicting"]]
    /\ UNCHANGED <<aoiClock, aoi, forecast, check, edits, paid, raced>>

(* The predictors answer; update_prediction raises LookupError for a row   *)
(* that is gone, which ends the request.                                   *)
PassesPredicted(q, passes) ==
    /\ request[q].at = "predicting"
    /\ IF passes = {}
       THEN /\ request' = [request EXCEPT ![q].at = "predicted"]
            /\ UNCHANGED aoi
       ELSE IF aoi = NoAoi
       THEN request' = [request EXCEPT ![q] = NoRequest] /\ UNCHANGED aoi
       ELSE /\ aoi' = [aoi EXCEPT !.next = CHOOSE t \in passes :
                                              \A u \in passes : t <= u]
            /\ request' = [request EXCEPT ![q].at = "predicted",
                                          ![q].passes = passes]
    /\ UNCHANGED <<aoiClock, forecast, check, edits, paid, raced>>

(* Slip: no foreign key holds the forecast back. *)
NewForecastUnchecked(passes) ==
    [passes |-> passes, expires |-> aoiClock + ForecastTTL]

(* The row of a forecast; its foreign key refuses one without an area,     *)
(* which is swallowed.                                                     *)
NewForecast(passes) ==
    IF aoi = NoAoi THEN NoForecast
    ELSE [passes |-> passes, expires |-> aoiClock + ForecastTTL]

(* save_cached_forecast, an upsert. *)
SaveForecast(q) ==
    /\ request[q].at = "predicted"
    /\ forecast' = NewForecast(request[q].passes)
    /\ request' = [request EXCEPT ![q] = NoRequest]
    /\ UNCHANGED <<aoiClock, aoi, check, edits, paid, raced>>

-----------------------------------------------------------------------------
(* A scheduling check.                                                     *)

ListAois(c) ==
    /\ check[c].at = "idle"
    /\ aoi # NoAoi
    /\ check' = [check EXCEPT ![c] = [NoCheck EXCEPT !.at = "listed",
                                                     !.row = aoi]]
    /\ UNCHANGED <<aoiClock, aoi, forecast, request, edits, paid, raced>>

OverBudget(row) == row.budget > 0 /\ row.spent >= row.budget

(* Not captured automatically, or its budget is reached. *)
SkipAoi(c) ==
    /\ check[c].at = "listed"
    /\ ~check[c].row.capture \/ OverBudget(check[c].row)
    /\ check' = [check EXCEPT ![c] = NoCheck]
    /\ UNCHANGED <<aoiClock, aoi, forecast, request, edits, paid, raced>>

ReadForecast(c) ==
    /\ check[c].at = "listed"
    /\ check[c].row.capture /\ ~OverBudget(check[c].row)
    /\ check' = [check EXCEPT
          ![c].at = IF Hit THEN "cached" ELSE "uncached",
          ![c].passes = IF forecast = NoForecast THEN {}
                        ELSE Served(forecast.passes)]
    /\ UNCHANGED <<aoiClock, aoi, forecast, request, edits, paid, raced>>

(* The predictor answers, with the historical passes of the cache when it  *)
(* was hit, else with new ones, which are cached.                          *)
PredictCached(c) ==
    /\ check[c].at = "cached"
    /\ check' = [check EXCEPT ![c].at = "predicted"]
    /\ UNCHANGED <<aoiClock, aoi, forecast, request, edits, paid, raced>>

PredictAnew(c, passes) ==
    /\ check[c].at = "uncached"
    /\ check' = [check EXCEPT ![c].at = "predicted", ![c].passes = passes]
    /\ forecast' = NewForecast(passes)
    /\ UNCHANGED <<aoiClock, aoi, request, edits, paid, raced>>

Upcoming(c) == {t \in check[c].passes : t >= aoiClock}

(* update_prediction, before the monitor is told; LookupError ends the     *)
(* check of an area that is gone.                                          *)
WriteNextScan(c) ==
    /\ check[c].at = "predicted"
    /\ IF Upcoming(c) = {} \/ aoi = NoAoi
       THEN check' = [check EXCEPT ![c] = NoCheck] /\ UNCHANGED aoi
       ELSE /\ aoi' = [aoi EXCEPT !.next = CHOOSE t \in Upcoming(c) :
                                             \A u \in Upcoming(c) : t <= u]
            /\ check' = [check EXCEPT ![c].at = "monitoring"]
    /\ UNCHANGED <<aoiClock, forecast, request, edits, paid, raced>>

(* schedule_or_start of the pass monitor. *)
MonitorPass(c) ==
    /\ check[c].at = "monitoring"
    /\ check' = [check EXCEPT ![c] = NoCheck]
    /\ UNCHANGED <<aoiClock, aoi, forecast, request, edits, paid, raced>>

-----------------------------------------------------------------------------
ToggleCapture(enabled) ==
    /\ aoi # NoAoi
    /\ aoi' = [aoi EXCEPT !.capture = enabled]
    /\ UNCHANGED <<aoiClock, forecast, request, check, edits, paid, raced>>

(* One transaction: the forecast, the jobs and the row. *)
DeleteAoi ==
    /\ aoi # NoAoi
    /\ aoi' = NoAoi
    /\ forecast' = NoForecast
    /\ UNCHANGED <<aoiClock, request, check, edits, paid, raced>>

AoiTick ==
    /\ aoiClock < MaxAoiClock
    /\ aoiClock' = aoiClock + 1
    /\ UNCHANGED <<aoi, forecast, request, check, edits, paid, raced>>

AoiNext ==
    \/ \E q \in AoiRequest :
         \/ \E cost \in 1..MaxSpent : SpendRead(q, cost)
         \/ SpendMerge(q) \/ SpendRefused(q)
         \/ \E b \in Budget, s \in 0..MaxSpent, set \in BOOLEAN :
               PolicyMerge(q, b, s, set)
         \/ PolicyWrite(q)
         \/ \E refresh \in BOOLEAN : ForecastRequest(q, refresh)
         \/ \E passes \in SUBSET PassTime : PassesPredicted(q, passes)
         \/ SaveForecast(q)
    \/ \E c \in Check :
         \/ ListAois(c) \/ SkipAoi(c) \/ ReadForecast(c) \/ PredictCached(c)
         \/ \E passes \in SUBSET PassTime : PredictAnew(c, passes)
         \/ WriteNextScan(c) \/ MonitorPass(c)
    \/ \E enabled \in BOOLEAN : ToggleCapture(enabled)
    \/ DeleteAoi
    \/ AoiTick

AoiSpec == AoiInit /\ [][AoiNext]_aoiVars

-----------------------------------------------------------------------------
(* The budget counts every expenditure once: the amount spent differs from *)
(* what was paid only after a write fell between the read of another       *)
(* request and the write based on it (sqlite_aois.py:98-159).              *)
SpendingExact == aoi # NoAoi /\ ~raced => aoi.spent = paid

(* An area leaves no forecast behind, whatever request or check is still   *)
(* about to write one (sqlite_aois.py:241-303).                            *)
NoOrphanForecast == aoi = NoAoi => forecast = NoForecast

=============================================================================
