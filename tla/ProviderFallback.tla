---------------------------- MODULE ProviderFallback ----------------------------
(***************************************************************************)
(* Dispatch of an acquisition along a chain of imagery providers           *)
(* (use_cases/acquire_with_fallback.py), with the health and quota rows    *)
(* that steer it (persistence/sqlite_provider_health.py) and the operator  *)
(* requests that edit them (use_cases/get_provider_health.py).             *)
(*                                                                         *)
(* Health and quota are read, changed in memory and written back whole,    *)
(* without a transaction around the two: each is two steps here.  A        *)
(* dispatch creates a scan (create_scan), so one that succeeds is not      *)
(* undone when the bookkeeping after it raises.                            *)
(***************************************************************************)
EXTENDS Integers, Sequences, FiniteSets

CONSTANTS
    Dispatch,       \* concurrent requests
    Provider,
    Chain,          \* the fallback chain of the modality
    Commercial,     \* providers that need authorisation and a budget
    DailyLimit,     \* daily_request_limit, the same for every provider
    MaxUsed,        \* bound: daily_requests_used is counted up to here
    MaxStoreFaults, \* bound: repository calls that raise
    MaxOperator     \* bound: operator requests

ASSUME ChainAssumption ==
    /\ Chain \in Seq(Provider) /\ Commercial \subseteq Provider
    /\ IsFiniteSet(Dispatch)
    /\ DailyLimit \in Nat \ {0}   \* a limit of 0 is read as 1000
    /\ MaxUsed \in Nat
    /\ MaxStoreFaults \in Nat /\ MaxOperator \in Nat

VARIABLES
    failures,  \* per provider: consecutive_failures, 3 standing for more
    status,    \* per provider
    used,      \* per provider: daily_requests_used
    budget,    \* the AOI has budget available
    disp,      \* per request: where execute_dispatch is
    quotaEdit, \* <<provider, count read>> of an operator's edit, or <<>>
    acquired,  \* per request: providers whose dispatcher returned a result
    miscounted, \* observes providers whose count was written from an outdated
                \* read since it was last reset
    storeFaults, operator

fallbackVars == <<failures, status, used, budget, disp, quotaEdit, acquired,
                  miscounted, storeFaults, operator>>

(* DOWN stands for MAINTENANCE too. *)
Status == {"HEALTHY", "DEGRADED", "DOWN"}

(* idle; choosing: the next candidate is due; dispatching: its dispatcher  *)
(* runs; recording: it returned; healthy: health is read; charging: health *)
(* is written; counted: quota is read; failing: it raised; worse: health   *)
(* is read; done: a result is returned; exhausted.                         *)
Attempt == [at : {"idle", "choosing", "dispatching", "recording", "healthy",
                  "charging", "counted", "failing", "worse", "done",
                  "exhausted"},
            rest : {SubSeq(Chain, i, Len(Chain)) : i \in 1..(Len(Chain) + 1)},
            commercial : BOOLEAN,    \* allow_commercial and the AOI's budget
            read : 0..MaxUsed + 3]   \* the counter read last

FallbackTypeOK ==
    /\ failures \in [Provider -> 0..3]
    /\ status \in [Provider -> Status]
    /\ used \in [Provider -> 0..MaxUsed]
    /\ budget \in BOOLEAN
    /\ disp \in [Dispatch -> Attempt]
    /\ quotaEdit \in {<<>>} \cup (Provider \X (0..MaxUsed))
    /\ acquired \in [Dispatch -> SUBSET Provider]
    /\ miscounted \in SUBSET Provider
    /\ storeFaults \in 0..MaxStoreFaults
    /\ operator \in 0..MaxOperator

FallbackInit ==
    /\ failures = [p \in Provider |-> 0]
    /\ status = [p \in Provider |-> "HEALTHY"]
    /\ used = [p \in Provider |-> 0]
    /\ budget = TRUE
    /\ disp = [d \in Dispatch |-> [at |-> "idle", rest |-> Chain,
                                   commercial |-> FALSE, read |-> 0]]
    /\ quotaEdit = <<>>
    /\ acquired = [d \in Dispatch |-> {}]
    /\ miscounted = {}
    /\ storeFaults = 0
    /\ operator = 0

-----------------------------------------------------------------------------
Candidate(d) == Head(disp[d].rest)

Go(d, at) == disp' = [disp EXCEPT ![d].at = at]

(* The candidate is given up. *)
NextCandidate(d) ==
    disp' = [disp EXCEPT ![d].at = "choosing", ![d].rest = Tail(@)]

(* execute_dispatch reads the AOI once, before the chain. *)
BeginDispatch(d, allowed) ==
    /\ disp[d].at = "idle"
    /\ disp' = [disp EXCEPT ![d].at = "choosing",
                            ![d].commercial = allowed /\ budget]
    /\ UNCHANGED <<failures, status, used, budget, acquired, quotaEdit,
                   miscounted, storeFaults, operator>>

(* is_available *)
Available(p) == status[p] # "DOWN"

(* Slip: one request more than the limit. *)
QuotaLeftLate(p) == used[p] <= DailyLimit

(* has_quota_available *)
QuotaLeft(p) == used[p] < DailyLimit

Eligible(d) ==
    /\ Available(Candidate(d))
    /\ QuotaLeft(Candidate(d))
    /\ Candidate(d) \in Commercial => disp[d].commercial

SkipCandidate(d) ==
    /\ disp[d].at = "choosing" /\ disp[d].rest # <<>>
    /\ ~Eligible(d)
    /\ NextCandidate(d)
    /\ UNCHANGED <<failures, status, used, budget, acquired, quotaEdit,
                   miscounted, storeFaults, operator>>

CallDispatcher(d) ==
    /\ disp[d].at = "choosing" /\ disp[d].rest # <<>>
    /\ Eligible(d)
    /\ Go(d, "dispatching")
    /\ UNCHANGED <<failures, status, used, budget, acquired, quotaEdit,
                   miscounted, storeFaults, operator>>

(* AllProvidersExhaustedError *)
Exhausted(d) ==
    /\ disp[d].at = "choosing" /\ disp[d].rest = <<>>
    /\ Go(d, "exhausted")
    /\ UNCHANGED <<failures, status, used, budget, acquired, quotaEdit,
                   miscounted, storeFaults, operator>>

DispatcherReturns(d) ==
    /\ disp[d].at = "dispatching"
    /\ acquired' = [acquired EXCEPT ![d] = @ \cup {Candidate(d)}]
    /\ Go(d, "recording")
    /\ UNCHANGED <<failures, status, used, budget, quotaEdit, miscounted,
                   storeFaults, operator>>

DispatcherRaises(d) ==
    /\ disp[d].at = "dispatching"
    /\ Go(d, "failing")
    /\ UNCHANGED <<failures, status, used, budget, acquired, quotaEdit,
                   miscounted, storeFaults, operator>>

(* record_health_event: the row is read... *)
ReadHealth(d) ==
    /\ disp[d].at \in {"recording", "failing"}
    /\ disp' = [disp EXCEPT
          ![d].at = IF @ = "recording" THEN "healthy" ELSE "worse",
          ![d].read = failures[Candidate(d)]]
    /\ UNCHANGED <<failures, status, used, budget, acquired, quotaEdit,
                   miscounted, storeFaults, operator>>

(* ...and written back: whatever the status was, it is HEALTHY. *)
WriteHealthy(d) ==
    /\ disp[d].at = "healthy"
    /\ failures' = [failures EXCEPT ![Candidate(d)] = 0]
    /\ status' = [status EXCEPT ![Candidate(d)] = "HEALTHY"]
    /\ Go(d, "charging")
    /\ UNCHANGED <<used, budget, acquired, quotaEdit, miscounted,
                   storeFaults, operator>>

(* A failure adds one to the count as read, and the status follows that    *)
(* count.  The next candidate is tried.                                    *)
WriteWorse(d) ==
    /\ disp[d].at = "worse"
    /\ LET count == IF disp[d].read < 3 THEN disp[d].read + 1 ELSE 3
       IN /\ failures' = [failures EXCEPT ![Candidate(d)] = count]
          /\ status' = [status EXCEPT
                ![Candidate(d)] = IF count = 3 THEN "DOWN" ELSE "DEGRADED"]
    /\ NextCandidate(d)
    /\ UNCHANGED <<used, budget, acquired, quotaEdit, miscounted,
                   storeFaults, operator>>

(* record_quota_consumption: read... *)
ReadQuota(d) ==
    /\ disp[d].at = "charging"
    /\ disp' = [disp EXCEPT ![d].at = "counted", ![d].read = used[Candidate(d)]]
    /\ UNCHANGED <<failures, status, used, budget, acquired, quotaEdit,
                   miscounted, storeFaults, operator>>

(* A count written from an outdated read is off until it is reset. *)
MiscountedBy(p, outdated) == IF outdated THEN miscounted \cup {p} ELSE miscounted

(* Slip: the request goes on to the next provider after a success. *)
ChargeAndGoOn(d) ==
    /\ disp[d].at = "counted"
    /\ used' = [used EXCEPT ![Candidate(d)] =
                   IF disp[d].read < MaxUsed THEN disp[d].read + 1 ELSE MaxUsed]
    /\ miscounted' = MiscountedBy(Candidate(d), used[Candidate(d)] # disp[d].read)
    /\ NextCandidate(d)
    /\ UNCHANGED <<failures, status, budget, acquired, quotaEdit,
                   storeFaults, operator>>

(* ...and write one more; the result is returned. *)
Charge(d) ==
    /\ disp[d].at = "counted"
    /\ used' = [used EXCEPT ![Candidate(d)] =
                   IF disp[d].read < MaxUsed THEN disp[d].read + 1 ELSE MaxUsed]
    /\ miscounted' = MiscountedBy(Candidate(d), used[Candidate(d)] # disp[d].read)
    /\ Go(d, "done")
    /\ UNCHANGED <<failures, status, budget, acquired, quotaEdit,
                   storeFaults, operator>>

(* A repository call after a success raises inside the dispatcher's try:   *)
(* the acquisition counts as this provider's failure and the chain goes on *)
(* to the next one.                                                        *)
BookkeepingRaises(d) ==
    /\ disp[d].at \in {"recording", "healthy", "charging", "counted"}
    /\ storeFaults < MaxStoreFaults
    /\ storeFaults' = storeFaults + 1
    /\ Go(d, "failing")
    /\ UNCHANGED <<failures, status, used, budget, acquired, quotaEdit,
                   operator, miscounted>>

(* Raising while a failure is recorded leaves execute_dispatch: 400. *)
FailureRecordRaises(d) ==
    /\ disp[d].at \in {"failing", "worse"}
    /\ storeFaults < MaxStoreFaults
    /\ storeFaults' = storeFaults + 1
    /\ Go(d, "exhausted")
    /\ UNCHANGED <<failures, status, used, budget, acquired, quotaEdit,
                   operator, miscounted>>

-----------------------------------------------------------------------------
Operate == operator < MaxOperator /\ operator' = operator + 1

(* CheckProviderHealth: a status is forced, or the provider probed, which  *)
(* always succeeds.  A DEGRADED that is forced counts three failures and   *)
(* still is available.                                                     *)
SetStatus(p, to) ==
    /\ Operate
    /\ status' = [status EXCEPT ![p] = to]
    /\ failures' = [failures EXCEPT ![p] = IF to = "HEALTHY" THEN 0 ELSE 3]
    /\ UNCHANGED <<used, budget, disp, acquired, quotaEdit, miscounted,
                   storeFaults>>

(* UpdateProviderQuota reads the row... *)
ReadForEdit(p) ==
    /\ quotaEdit = <<>>
    /\ Operate
    /\ quotaEdit' = <<p, used[p]>>
    /\ UNCHANGED <<failures, status, used, budget, disp, acquired,
                   miscounted, storeFaults>>

(* ...and writes all of it: the count as read, or 0 when it is to be reset *)
(* (nothing else ever resets it).                                          *)
WriteEdit(reset) ==
    /\ quotaEdit # <<>>
    /\ used' = [used EXCEPT ![quotaEdit[1]] = IF reset THEN 0 ELSE quotaEdit[2]]
    /\ miscounted' = IF reset THEN miscounted \ {quotaEdit[1]}
                     ELSE MiscountedBy(quotaEdit[1], used[quotaEdit[1]] # quotaEdit[2])
    /\ quotaEdit' = <<>>
    /\ UNCHANGED <<failures, status, budget, disp, acquired, storeFaults, operator>>

(* The AOI's row after an expenditure or an edit of its policy: budget for *)
(* another commercial collection is left, or not (module AoiRecords).      *)
SpendBudget ==
    /\ Operate
    /\ budget' = ~budget
    /\ UNCHANGED <<failures, status, used, disp, acquired, quotaEdit,
                   miscounted, storeFaults>>

DispatchStep(d) ==
    \/ \E allowed \in BOOLEAN : BeginDispatch(d, allowed)
    \/ SkipCandidate(d) \/ CallDispatcher(d) \/ Exhausted(d)
    \/ DispatcherReturns(d) \/ DispatcherRaises(d)
    \/ ReadHealth(d) \/ WriteHealthy(d) \/ WriteWorse(d)
    \/ ReadQuota(d) \/ Charge(d)
    \/ BookkeepingRaises(d) \/ FailureRecordRaises(d)

(* A request handler is free for the next request. *)
NextRequest(d) ==
    /\ disp[d].at \in {"done", "exhausted"}
    /\ disp' = [disp EXCEPT ![d] = [at |-> "idle", rest |-> Chain,
                                    commercial |-> FALSE, read |-> 0]]
    /\ acquired' = [acquired EXCEPT ![d] = {}]
    /\ UNCHANGED <<failures, status, used, budget, quotaEdit, miscounted,
                   storeFaults, operator>>

FallbackNext ==
    \/ \E d \in Dispatch : DispatchStep(d) \/ NextRequest(d)
    \/ \E p \in Provider : (\E to \in Status : SetStatus(p, to)) \/ ReadForEdit(p)
    \/ \E reset \in BOOLEAN : WriteEdit(reset)
    \/ SpendBudget

FallbackSpec == FallbackInit /\ [][FallbackNext]_fallbackVars

-----------------------------------------------------------------------------
(* A provider's recorded use exceeds its limit by less than the number of  *)
(* requests in flight, although the quota is tested before a dispatch and  *)
(* charged after it, as long as no count is written from an outdated read: *)
(* a charge that is lost lets the count fall below the limit again while   *)
(* higher counts are still to be written, and nothing bounds the overrun   *)
(* by the requests in flight then (acquire_with_fallback.py:110-120,       *)
(* sqlite_provider_health.py:272-300).                                     *)
OverrunBounded ==
    \A p \in Provider \ miscounted : used[p] < DailyLimit + Cardinality(Dispatch)

(* One request acquires from one provider, unless the bookkeeping after a  *)
(* successful acquisition raised: each such fault may cost one acquisition *)
(* more, and one that ends exhausted has then acquired all the same        *)
(* (acquire_with_fallback.py:179-229).                                     *)
OneAcquisition ==
    \A d \in Dispatch :
        /\ Cardinality(acquired[d]) <= 1 + storeFaults
        /\ disp[d].at = "exhausted" /\ storeFaults = 0 => acquired[d] = {}
=============================================================================
