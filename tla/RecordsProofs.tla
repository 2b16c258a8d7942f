----------------------------- MODULE RecordsProofs -----------------------------
(***************************************************************************)
(* What the components that keep records hold on to, for any number of     *)
(* requests, workers, reviews and scans.  The components share no state;   *)
(* each part below speaks of one of them.                                  *)
(***************************************************************************)
EXTENDS RequestLimits, AoiRecords, Startup, ReviewCases, ScanStore, PassSeries,
        VesselRegistry, FiniteSetTheorems, FunctionTheorems, SequenceTheorems,
        WellFoundedInduction, TLAPS

-----------------------------------------------------------------------------
(***************************************************************************)
(* The sliding window of allowed requests.                                 *)
(*                                                                         *)
(* Two facts carry it. A request that is about to take the lock has read   *)
(* the clock at most MaxLockLag ago (Timely), and what the limiter has     *)
(* forgotten is older than a window by now (Forgotten): whoever evicted it *)
(* had a `now' that is not in the future. So everything that was allowed   *)
(* within a window less MaxLockLag before the request is still kept, by    *)
(* the limiter and by the request itself, and is counted.                  *)
(***************************************************************************)

Timely ==
    \A t \in RequestThread :
        caller[t].at = "checking" =>
            requestClock >= caller[t].now /\ requestClock <= caller[t].now + MaxLockLag

Forgotten ==
    \A i \in DOMAIN allowed \ kept : allowed[i] <= requestClock - Window

LimitInv == LimitTypeOK /\ Timely /\ Forgotten /\ WindowHeld

-----------------------------------------------------------------------------
(* The domain of a sequence, and so each part of it, is finite. *)
LEMMA PartFinite ==
    ASSUME NEW S, NEW s \in Seq(S), NEW P \in SUBSET (DOMAIN s)
    PROVE  IsFiniteSet(P)
<1>1. Len(s) \in Nat /\ DOMAIN s = 1..Len(s)
  BY SMT
<1>2. 1 \in Int /\ Len(s) \in Int
  BY <1>1, SMT
<1>3. IsFiniteSet(1..Len(s))
  BY <1>2, FS_Interval, Zenon
<1>4. P \subseteq 1..Len(s)
  BY <1>1, Zenon
<1> QED
  BY <1>3, <1>4, FS_Subset, Zenon

(* A set is no larger than the limit if all of it but one element lies in  *)
(* a smaller set.                                                          *)
LEMMA OneMore ==
    ASSUME NEW A, NEW B, NEW x, IsFiniteSet(B), A \subseteq B \cup {x},
           NEW n \in Nat, Cardinality(B) < n
    PROVE  Cardinality(A) <= n
<1>1. IsFiniteSet(B \cup {x}) /\ Cardinality(B \cup {x}) \in Nat
      /\ Cardinality(B) \in Nat
      /\ Cardinality(B \cup {x}) <= Cardinality(B) + 1
  <2>1. IsFiniteSet(B \cup {x})
        /\ Cardinality(B \cup {x}) = IF x \in B THEN Cardinality(B) ELSE Cardinality(B) + 1
    BY FS_AddElement, Zenon
  <2>2. Cardinality(B) \in Nat /\ Cardinality(B \cup {x}) \in Nat
    BY <2>1, FS_CardinalityType, Zenon
  <2> QED
    BY <2>1, <2>2, SMT
<1>2. Cardinality(A) \in Nat /\ Cardinality(A) <= Cardinality(B \cup {x})
  <2>1. IsFiniteSet(A) /\ Cardinality(A) <= Cardinality(B \cup {x})
    BY <1>1, FS_Subset, Zenon
  <2> QED
    BY <2>1, FS_CardinalityType, Zenon
<1> QED
  BY <1>1, <1>2, SMT

LEMMA LimitInitially == LimitInit => LimitInv
<1> SUFFICES ASSUME LimitInit PROVE LimitInv
  OBVIOUS
<1> USE LimitAssumption DEF LimitInit
<1>1. LimitTypeOK
  BY DEF LimitTypeOK, NotCalling
<1>2. Timely
  BY DEF Timely, NotCalling
<1>3. Forgotten
  BY DEF Forgotten
<1>4. WindowHeld
  <2> SUFFICES ASSUME NEW last \in 0..MaxRequestClock
               PROVE  Cardinality(Within(Window - MaxLockLag, last)) <= Limit
    BY DEF WindowHeld
  <2>1. Within(Window - MaxLockLag, last) = {}
    BY DEF Within
  <2>2. Cardinality({}) = 0
    BY FS_EmptySet, Zenon
  <2>3. Cardinality(Within(Window - MaxLockLag, last)) = 0
    BY <2>1, <2>2, Zenon
  <2> QED
    BY <2>3
<1> QED
  BY <1>1, <1>2, <1>3, <1>4 DEF LimitInv

(* A request is allowed: what it finds in its window is all that can count *)
(* against it.                                                             *)
LEMMA AllowHolds ==
    ASSUME LimitInv, NEW t \in RequestThread, Allow(t)
    PROVE  LimitInv'
<1> DEFINE now == caller[t].now
           n == Len(allowed)
<1> USE LimitAssumption
<1>1. /\ now \in 0..MaxRequestClock /\ requestClock \in 0..MaxRequestClock
      /\ now <= requestClock /\ requestClock <= now + MaxLockLag
      /\ allowed \in Seq(0..MaxRequestClock) /\ kept \subseteq DOMAIN allowed
      /\ n \in Nat /\ DOMAIN allowed = 1..n
  BY DEF LimitInv, LimitTypeOK, Timely, Allow
<1>2. /\ allowed' \in Seq(0..MaxRequestClock)
      /\ DOMAIN allowed' = 1..(n + 1)
      /\ allowed'[n + 1] = now
      /\ \A i \in 1..n : allowed'[i] = allowed[i]
      /\ requestClock' = requestClock
      /\ kept' = InWindow(now) \cup {n + 1}
  BY <1>1 DEF Allow
<1>3. LimitTypeOK'
  <2>1. caller' \in [RequestThread -> [at : {"none", "checking", "key", "view"},
                                        now : 0..MaxRequestClock, key : BOOLEAN]]
    BY DEF LimitInv, LimitTypeOK, Allow
  <2>2. kept' \subseteq DOMAIN allowed'
    BY <1>1, <1>2 DEF InWindow
  <2> QED
    BY <1>1, <1>2, <2>1, <2>2 DEF LimitTypeOK
<1>4. Timely'
  <2>1. \A u \in RequestThread : caller'[u].at = "checking" => caller'[u] = caller[u]
    BY DEF LimitInv, LimitTypeOK, Allow
  <2> QED
    BY <1>2, <2>1 DEF Timely, LimitInv
<1>5. Forgotten'
  <2> SUFFICES ASSUME NEW i \in DOMAIN allowed' \ kept'
               PROVE  allowed'[i] <= requestClock' - Window
    BY DEF Forgotten
  <2>1. i \in 1..n /\ allowed'[i] = allowed[i] /\ i \notin InWindow(now)
    BY <1>1, <1>2
  <2>2. allowed[i] \in Int
    BY <1>1, <2>1
  <2>3. CASE i \in kept
    BY <1>1, <1>2, <2>1, <2>2, <2>3, SMTT(30) DEF InWindow
  <2>4. CASE i \notin kept
    BY <1>1, <1>2, <2>1, <2>4 DEF LimitInv, Forgotten
  <2> QED
    BY <2>3, <2>4
<1>6. WindowHeld'
  <2> SUFFICES ASSUME NEW last \in 0..MaxRequestClock
               PROVE  Cardinality(Within(Window - MaxLockLag, last)') <= Limit
    BY DEF WindowHeld
  <2> DEFINE W == Within(Window - MaxLockLag, last)
             X == Within(Window - MaxLockLag, last)'
             near == InWindow(now)
  <2>1. X = {i \in 1..(n + 1) : allowed'[i] > last - (Window - MaxLockLag)
                                 /\ allowed'[i] <= last}
    BY <1>2 DEF Within
  <2>2. W = {i \in 1..n : allowed[i] > last - (Window - MaxLockLag) /\ allowed[i] <= last}
    BY <1>1 DEF Within
  <2>3. CASE n + 1 \notin X
    <3>1. ASSUME NEW i PROVE i \in X <=> i \in W
      <4>1. CASE i \in 1..n
        BY <1>1, <1>2, <2>1, <2>2, <4>1, SMTT(30)
      <4>2. CASE i \notin 1..n
        BY <1>1, <2>1, <2>2, <2>3, <4>2
      <4> QED
        BY <4>1, <4>2
    <3>2. X = W
      BY <3>1, Zenon
    <3>3. Cardinality(W) <= Limit
      BY DEF LimitInv, WindowHeld
    <3> QED
      BY <3>2, <3>3
  <2>4. CASE n + 1 \in X
    <3>1. now > last - (Window - MaxLockLag) /\ now <= last
      BY <1>1, <1>2, <2>1, <2>4
    <3>2. X \subseteq near \cup {n + 1}
      <4> SUFFICES ASSUME NEW i \in X, i # n + 1 PROVE i \in near
        BY Zenon
      <4>0. i \in 1..(n + 1) /\ allowed'[i] > last - (Window - MaxLockLag)
        BY <2>1
      <4>a. i \in 1..n
        BY <1>1, <4>0
      <4>1. i \in 1..n /\ allowed[i] \in Int /\ allowed[i] > last - (Window - MaxLockLag)
        BY <1>1, <1>2, <4>0, <4>a
      <4>2. allowed[i] > requestClock - Window /\ allowed[i] > now - Window
        BY <1>1, <3>1, <4>1, SMTT(30)
      <4>3. i \in kept
        <5> SUFFICES ASSUME i \notin kept PROVE FALSE
          OBVIOUS
        <5>1. i \in DOMAIN allowed \ kept
          BY <1>1, <4>1
        <5>2. allowed[i] <= requestClock - Window
          BY <5>1 DEF LimitInv, Forgotten
        <5> QED
          BY <1>1, <4>1, <4>2, <5>2
      <4> QED
        BY <4>2, <4>3 DEF InWindow
    <3>3. near \in SUBSET (DOMAIN allowed)
      BY <1>1 DEF InWindow
    <3>4. IsFiniteSet(near)
      BY <1>1, <3>3, PartFinite, Zenon
    <3>5. Cardinality(near) < Limit /\ Limit \in Nat
      BY DEF Allow
    <3>6. Cardinality(X) <= Limit
      <4> HIDE DEF X, near, n
      <4> QED
        BY <3>2, <3>4, <3>5, OneMore, Zenon
    <3> QED
      BY <3>6
  <2> QED
    BY <2>3, <2>4
<1> QED
  BY <1>3, <1>4, <1>5, <1>6 DEF LimitInv

(* Every other step leaves what was allowed alone. *)
LEMMA LimitStep == LimitInv /\ [LimitNext]_limitVars => LimitInv'
<1> SUFFICES ASSUME LimitInv, [LimitNext]_limitVars PROVE LimitInv'
  OBVIOUS
<1> USE LimitAssumption
<1>1. ASSUME UNCHANGED allowed PROVE WindowHeld'
  <2>1. \A width, last : Within(width, last)' = Within(width, last)
    BY <1>1 DEF Within
  <2> QED
    BY <2>1 DEF LimitInv, WindowHeld
<1>2. CASE RequestTick
  <2>1. UNCHANGED <<allowed, kept, caller>> /\ requestClock' = requestClock + 1
    BY <1>2 DEF RequestTick
  <2>2. LimitTypeOK'
    BY <1>2, <2>1 DEF LimitInv, LimitTypeOK, RequestTick
  <2>3. Timely'
    <3> SUFFICES ASSUME NEW t \in RequestThread, caller[t].at = "checking"
                 PROVE  requestClock + 1 >= caller[t].now
                        /\ requestClock + 1 <= caller[t].now + MaxLockLag
      BY <2>1 DEF Timely
    <3>1. requestClock - caller[t].now < MaxLockLag
      BY <1>2 DEF RequestTick
    <3>2. caller[t].now \in Int /\ requestClock \in Int /\ requestClock >= caller[t].now
      BY DEF LimitInv, LimitTypeOK, Timely
    <3> QED
      BY <3>1, <3>2
  <2>4. Forgotten'
    <3>1. ASSUME NEW i \in DOMAIN allowed \ kept
          PROVE  allowed[i] <= (requestClock + 1) - Window
      <4>1. allowed[i] \in Int /\ requestClock \in Int /\ allowed[i] <= requestClock - Window
        BY DEF LimitInv, LimitTypeOK, Forgotten
      <4> QED
        BY <4>1
    <3>2. allowed' = allowed /\ kept' = kept /\ requestClock' = requestClock + 1
      BY <2>1
    <3> QED
      BY <3>1, <3>2, Zenon DEF Forgotten
  <2> QED
    BY <1>1, <2>1, <2>2, <2>3, <2>4 DEF LimitInv
<1>3. ASSUME NEW t \in RequestThread, Arrive(t) PROVE LimitInv'
  <2>1. UNCHANGED <<allowed, kept, requestClock>>
    BY <1>3 DEF Arrive
  <2>2. LimitTypeOK'
    BY <1>3 DEF LimitInv, LimitTypeOK, Arrive
  <2>3. Timely'
    BY <1>3, <2>1 DEF LimitInv, LimitTypeOK, Timely, Arrive
  <2>4. Forgotten'
    BY <2>1 DEF LimitInv, Forgotten
  <2> QED
    BY <1>1, <2>1, <2>2, <2>3, <2>4 DEF LimitInv
<1>4. ASSUME NEW t \in RequestThread, Refuse(t) PROVE LimitInv'
  <2>1. UNCHANGED <<allowed, requestClock>> /\ kept' = InWindow(caller[t].now)
    BY <1>4 DEF Refuse
  <2>2. caller[t].now \in Int /\ caller[t].now <= requestClock
    BY <1>4 DEF LimitInv, LimitTypeOK, Timely, Refuse
  <2>3. LimitTypeOK'
    <3>1. caller' \in [RequestThread -> [at : {"none", "checking", "key", "view"},
                                          now : 0..MaxRequestClock, key : BOOLEAN]]
      BY <1>4 DEF LimitInv, LimitTypeOK, Refuse, NotCalling
    <3> QED
      BY <2>1, <3>1 DEF LimitInv, LimitTypeOK, InWindow
  <2>4. Timely'
    BY <1>4, <2>1 DEF LimitInv, LimitTypeOK, Timely, Refuse, NotCalling
  <2>5. Forgotten'
    <3> SUFFICES ASSUME NEW i \in DOMAIN allowed \ kept'
                 PROVE  allowed[i] <= requestClock - Window
      BY <2>1 DEF Forgotten
    <3>1. allowed[i] \in Int /\ requestClock \in Int
      BY DEF LimitInv, LimitTypeOK
    <3>2. CASE i \in kept
      BY <2>1, <2>2, <3>1, <3>2 DEF InWindow
    <3>3. CASE i \notin kept
      BY <3>3 DEF LimitInv, Forgotten
    <3> QED
      BY <3>2, <3>3
  <2> QED
    BY <1>1, <2>1, <2>3, <2>4, <2>5 DEF LimitInv
<1>5. ASSUME NEW t \in RequestThread, CheckKey(t) \/ Answer(t) PROVE LimitInv'
  <2>1. UNCHANGED <<allowed, kept, requestClock>>
    BY <1>5 DEF CheckKey, Answer
  <2>2. LimitTypeOK'
    <3>1. caller \in [RequestThread -> [at : {"none", "checking", "key", "view"},
                                         now : 0..MaxRequestClock, key : BOOLEAN]]
      BY DEF LimitInv, LimitTypeOK
    <3>2. NotCalling \in [at : {"none", "checking", "key", "view"},
                         now : 0..MaxRequestClock, key : BOOLEAN]
      BY DEF NotCalling
    <3>3. CASE CheckKey(t) /\ caller[t].key
      BY <2>1, <3>1, <3>3 DEF LimitInv, LimitTypeOK, CheckKey
    <3>4. CASE CheckKey(t) /\ ~caller[t].key
      BY <2>1, <3>1, <3>2, <3>4 DEF LimitInv, LimitTypeOK, CheckKey
    <3>5. CASE Answer(t)
      BY <2>1, <3>1, <3>2, <3>5 DEF LimitInv, LimitTypeOK, Answer
    <3> QED
      BY <1>5, <3>3, <3>4, <3>5
  <2>3. Timely'
    BY <1>5, <2>1 DEF LimitInv, LimitTypeOK, Timely, CheckKey, Answer, NotCalling
  <2>4. Forgotten'
    BY <2>1 DEF LimitInv, Forgotten
  <2> QED
    BY <1>1, <2>1, <2>2, <2>3, <2>4 DEF LimitInv
<1>6. CASE UNCHANGED limitVars
  <2>1. UNCHANGED <<allowed, kept, requestClock, caller>>
    BY <1>6 DEF limitVars
  <2> QED
    BY <1>1, <2>1 DEF LimitInv, LimitTypeOK, Timely, Forgotten
<1> QED
  BY <1>2, <1>3, <1>4, <1>5, <1>6, AllowHolds DEF LimitNext

(* No stretch of a window less the time a thread may wait for the lock has *)
(* more allowed requests than the limit, whatever the threads do           *)
(* (interfaces/web/security.py:19-49).                                     *)
THEOREM WindowAlwaysHeld == LimitSpec => []WindowHeld
<1>1. LimitInv => WindowHeld
  BY DEF LimitInv
<1> QED
  BY <1>1, LimitInitially, LimitStep, PTL DEF LimitSpec

-----------------------------------------------------------------------------
(***************************************************************************)
(* The budget of the areas and their forecasts.                            *)
(***************************************************************************)

(* What a request is about to write goes with what it has read. *)
Priced(q) ==
    /\ request[q].at = "looked" =>
           ~request[q].set /\ request[q].read + request[q].cost <= MaxSpent
    /\ request[q].at = "merging" /\ ~request[q].set /\ ~raced =>
           request[q].spent = request[q].read + request[q].cost

AoiInv ==
    /\ AoiTypeOK
    /\ \A q \in AoiRequest : Priced(q)
    /\ SpendingExact
    /\ NoOrphanForecast

-----------------------------------------------------------------------------
(* A set of numbers that is not empty has a least element. *)
LEMMA LeastOf ==
    ASSUME NEW T \in SUBSET Nat, T # {}
    PROVE  \E t \in T : \A u \in T : t <= u
<1>1. PICK t \in T : \A u \in T : ~(<<u, t>> \in OpToRel(<, Nat))
  BY WFMin, NatLessThanWellFounded, Zenon
<1>2. \A u \in T : ~(u < t)
  BY <1>1 DEF OpToRel
<1>3. \A u \in T : u \in Nat /\ t \in Nat
  OBVIOUS
<1> QED
  BY <1>2, <1>3, SMT

(* The next pass that update_prediction writes is one of the passes. *)
LEMMA NextIsAPass ==
    ASSUME NEW T \in SUBSET PassTime, T # {}
    PROVE  (CHOOSE t \in T : \A u \in T : t <= u) \in PassTime
<1>1. T \in SUBSET Nat
  BY AoiAssumption
<1>2. \E t \in T : \A u \in T : t <= u
  BY <1>1, LeastOf
<1> QED
  BY <1>2

LEMMA NoRequestType ==
    NoRequest \in Request /\ NoRequest.at = "idle" /\ ~NoRequest.set /\ NoRequest.cost = 0
<1>1. (CHOOSE b \in Budget : TRUE) \in Budget
  BY AoiAssumption
<1>2. 0 \in 0..MaxSpent
  BY AoiAssumption
<1> QED
  BY <1>1, <1>2 DEF NoRequest, Request

LEMMA AoiInitially == AoiInit => AoiInv
<1> SUFFICES ASSUME AoiInit PROVE AoiInv
  OBVIOUS
<1> USE AoiAssumption, NoRequestType DEF AoiInit
<1>1. AoiTypeOK
  <2>1. aoi \in Aoi
    <3>1. 0 \in 0..MaxSpent /\ 0 \in PassTime \cup {0} /\ TRUE \in BOOLEAN
      OBVIOUS
    <3>2. PICK b \in Budget : aoi = [budget |-> b, spent |-> 0, capture |-> TRUE, next |-> 0]
      <4> HIDE NoRequestType
      <4> QED
        OBVIOUS
    <3> QED
      BY <3>1, <3>2, Zenon DEF Aoi
  <2>2. check \in [Check -> CheckRun]
    BY DEF NoCheck, CheckRun
  <2>3. request \in [AoiRequest -> Request]
    OBVIOUS
  <2>4. 0 \in 0..MaxAoiClock /\ 0 \in 0..MaxEdits /\ 0 \in 0..MaxSpent
    BY AoiAssumption
  <2> QED
    BY <2>1, <2>2, <2>3, <2>4, Zenon DEF AoiTypeOK
<1>2. \A q \in AoiRequest : Priced(q)
  BY DEF Priced
<1>3. SpendingExact
  BY DEF SpendingExact
<1>4. NoOrphanForecast
  BY DEF NoOrphanForecast
<1> QED
  BY <1>1, <1>2, <1>3, <1>4 DEF AoiInv

(* A request that only reads: its new record fits, the row stays. *)
LEMMA RequestOnly ==
    ASSUME AoiInv, NEW q \in AoiRequest, NEW r \in Request,
           request' = [request EXCEPT ![q] = r],
           UNCHANGED <<aoiClock, aoi, forecast, check, paid>>,
           edits' \in 0..MaxEdits, raced' \in BOOLEAN, raced => raced',
           r.at = "looked" => ~r.set /\ r.read + r.cost <= MaxSpent,
           r.at = "merging" /\ ~r.set /\ ~raced' => r.spent = r.read + r.cost
    PROVE  AoiInv'
<1>1. request' \in [AoiRequest -> Request] /\ request'[q] = r
      /\ \A p \in AoiRequest : p # q => request'[p] = request[p]
  BY DEF AoiInv, AoiTypeOK
<1>2. AoiTypeOK'
  BY <1>1 DEF AoiInv, AoiTypeOK
<1>3. \A p \in AoiRequest : Priced(p)'
  BY <1>1 DEF AoiInv, Priced
<1>4. SpendingExact' /\ NoOrphanForecast'
  BY DEF AoiInv, SpendingExact, NoOrphanForecast
<1> QED
  BY <1>2, <1>3, <1>4 DEF AoiInv

(* A step that changes the row, but neither what was spent nor a request. *)
LEMMA RowOnly ==
    ASSUME AoiInv, UNCHANGED <<paid, raced, edits>>,
           aoiClock' \in 0..MaxAoiClock,
           request' \in [AoiRequest -> Request],
           \A q \in AoiRequest :
               request'[q].at \in {"looked", "merging"} => request'[q] = request[q],
           check' \in [Check -> CheckRun],
           forecast' \in Forecast \cup {NoForecast},
           aoi' \in Aoi \cup {NoAoi},
           aoi' # NoAoi => aoi # NoAoi /\ aoi'.spent = aoi.spent,
           aoi' = NoAoi => forecast' = NoForecast
    PROVE  AoiInv'
<1>1. AoiTypeOK'
  BY DEF AoiInv, AoiTypeOK
<1>2. \A q \in AoiRequest : Priced(q)'
  BY DEF AoiInv, Priced
<1>3. SpendingExact' /\ NoOrphanForecast'
  BY DEF AoiInv, SpendingExact, NoOrphanForecast
<1> QED
  BY <1>1, <1>2, <1>3 DEF AoiInv

LEMMA ForecastType ==
    ASSUME AoiInv, NEW passes \in SUBSET PassTime
    PROVE  /\ NewForecast(passes) \in Forecast \cup {NoForecast}
           /\ aoi = NoAoi => NewForecast(passes) = NoForecast
BY AoiAssumption DEF NewForecast, Forecast, AoiInv, AoiTypeOK

(* The five columns are written back. *)
LEMMA PolicyWriteKeeps ==
    ASSUME AoiInv, NEW q \in AoiRequest, PolicyWrite(q)
    PROVE  AoiInv'
<1> USE AoiAssumption
<1> DEFINE r == request[q]
<1>1. r \in Request /\ r.at = "merging" /\ Priced(q)
      /\ UNCHANGED <<aoiClock, forecast, check, edits>>
  BY DEF AoiInv, AoiTypeOK, PolicyWrite
<1>2. request' \in [AoiRequest -> Request] /\ request'[q] = NoRequest
      /\ \A p \in AoiRequest : p # q => request'[p] = request[p]
  BY NoRequestType DEF AoiInv, AoiTypeOK, PolicyWrite
<1>3. paid' \in 0..MaxSpent /\ raced' \in BOOLEAN
  <2>1. r.cost \in 0..MaxSpent /\ r.spent \in 0..MaxSpent /\ paid \in 0..MaxSpent
        /\ raced \in BOOLEAN
    BY <1>1 DEF Request, AoiInv, AoiTypeOK
  <2>2. CASE r.set
    BY <2>1, <2>2 DEF PolicyWrite
  <2>3. CASE ~r.set /\ paid + r.cost > MaxSpent
    BY <2>1, <2>3 DEF PolicyWrite
  <2>4. CASE ~r.set /\ ~(paid + r.cost > MaxSpent)
    BY <2>1, <2>4 DEF PolicyWrite
  <2> QED
    BY <2>2, <2>3, <2>4
<1>4. CASE aoi = NoAoi
  <2>1. aoi' = NoAoi
    BY <1>4 DEF PolicyWrite
  <2>2. AoiTypeOK'
    BY <1>1, <1>2, <1>3, <2>1 DEF AoiInv, AoiTypeOK
  <2>3. \A p \in AoiRequest : Priced(p)'
    BY <1>2, NoRequestType DEF AoiInv, Priced, PolicyWrite
  <2>4. SpendingExact' /\ NoOrphanForecast'
    BY <1>1, <1>4, <2>1 DEF AoiInv, SpendingExact, NoOrphanForecast
  <2> QED
    BY <2>2, <2>3, <2>4 DEF AoiInv
<1>5. CASE aoi # NoAoi
  <2>1. /\ aoi' = [aoi EXCEPT !.budget = r.budget, !.spent = r.spent]
        /\ aoi \in Aoi
    BY <1>5 DEF PolicyWrite, AoiInv, AoiTypeOK
  <2>2. aoi' \in Aoi /\ aoi'.spent = r.spent
    BY <1>1, <2>1 DEF Aoi, Request
  <2>3. aoi' # NoAoi
    BY <2>2, NoAoiAssumption
  <2>4. AoiTypeOK'
    BY <1>1, <1>2, <1>3, <2>2 DEF AoiInv, AoiTypeOK
  <2>5. \A p \in AoiRequest : Priced(p)'
    BY <1>2, NoRequestType DEF AoiInv, Priced, PolicyWrite
  <2>6. SpendingExact'
    <3> SUFFICES ASSUME ~raced' PROVE aoi'.spent = paid'
      BY DEF SpendingExact
    <3>1. ~raced /\ aoi.spent = r.read /\ aoi.spent = paid
      BY <1>5 DEF PolicyWrite, AoiInv, SpendingExact
    <3>2. CASE r.set
      BY <2>2, <3>2 DEF PolicyWrite
    <3>3. CASE ~r.set
      <4>1. /\ r.spent = r.read + r.cost /\ r.spent \in 0..MaxSpent
            /\ r.read \in 0..MaxSpent /\ r.cost \in 0..MaxSpent
        BY <1>1, <3>1, <3>3 DEF Priced, Request
      <4>2. ~(paid + r.cost > MaxSpent)
        <5>1. paid = r.read /\ MaxSpent \in Nat
          BY <3>1, Zenon DEF AoiAssumption
        <5>2. paid + r.cost = r.spent
          BY <4>1, <5>1, Zenon
        <5>3. ~(r.spent > MaxSpent)
          BY <4>1, <5>1, SMT
        <5> QED
          BY <5>2, <5>3, Zenon
      <4> QED
        BY <2>2, <3>1, <3>3, <4>1, <4>2 DEF PolicyWrite
    <3> QED
      BY <3>2, <3>3
  <2>7. NoOrphanForecast'
    BY <2>3 DEF NoOrphanForecast
  <2> QED
    BY <2>4, <2>5, <2>6, <2>7 DEF AoiInv
<1> QED
  BY <1>4, <1>5

(* Policies, expenditures and forecasts asked for. *)
LEMMA RequestKeeps ==
    ASSUME AoiInv, NEW q \in AoiRequest,
           \/ \E cost \in 1..MaxSpent : SpendRead(q, cost)
           \/ SpendMerge(q) \/ SpendRefused(q)
           \/ \E b \in Budget, s \in 0..MaxSpent, set \in BOOLEAN :
                 PolicyMerge(q, b, s, set)
           \/ PolicyWrite(q)
           \/ \E refresh \in BOOLEAN : ForecastRequest(q, refresh)
           \/ \E passes \in SUBSET PassTime : PassesPredicted(q, passes)
           \/ SaveForecast(q)
    PROVE  AoiInv'
<1> USE AoiAssumption
<1> DEFINE r == request[q]
<1>1. /\ request \in [AoiRequest -> Request] /\ r \in Request /\ Priced(q)
      /\ edits \in 0..MaxEdits /\ raced \in BOOLEAN
      /\ (aoi # NoAoi => aoi \in Aoi)
  BY DEF AoiInv, AoiTypeOK
<1>2. aoi # NoAoi => aoi.spent \in 0..MaxSpent /\ aoi.budget \in Budget
  BY <1>1 DEF Aoi
<1>3. ASSUME NEW cost \in 1..MaxSpent, SpendRead(q, cost) PROVE AoiInv'
  <2> DEFINE n == [NoRequest EXCEPT !.at = "looked", !.read = aoi.spent, !.cost = cost]
  <2>0. /\ aoi.spent \in 0..MaxSpent /\ aoi.spent + cost <= MaxSpent
        /\ edits < MaxEdits /\ edits' = edits + 1
    BY <1>2, <1>3 DEF SpendRead, Edit
  <2>1. n \in Request /\ n.at = "looked" /\ ~n.set /\ n.read = aoi.spent /\ n.cost = cost
    <3>1. NoRequest \in Request /\ ~NoRequest.set
      BY NoRequestType
    <3>2. cost \in 0..MaxSpent
      OBVIOUS
    <3> QED
      BY <2>0, <3>1, <3>2 DEF Request
  <2>2. request' = [request EXCEPT ![q] = n]
    BY <1>3 DEF SpendRead
  <2>3. n.read + n.cost <= MaxSpent /\ edits' \in 0..MaxEdits
    <3> HIDE DEF n
    <3> QED
      BY <1>1, <2>0, <2>1
  <2>4. UNCHANGED <<aoiClock, aoi, forecast, check, paid, raced>>
    BY <1>3 DEF SpendRead
  <2> HIDE DEF n
  <2> QED
    BY <1>1, <2>1, <2>2, <2>3, <2>4, RequestOnly
<1>4. CASE SpendMerge(q)
  <2> DEFINE n == [r EXCEPT !.at = "merging", !.read = aoi.spent,
                            !.budget = aoi.budget, !.spent = r.read + r.cost]
  <2>1. r.read + r.cost \in 0..MaxSpent /\ ~r.set
    BY <1>1, <1>4 DEF SpendMerge, Priced, Request
  <2>2. /\ n \in Request /\ n.at = "merging" /\ n.cost = r.cost
        /\ n.read = aoi.spent /\ n.spent = r.read + r.cost
    BY <1>1, <1>2, <1>4, <2>1 DEF SpendMerge, Request
  <2>3. request' = [request EXCEPT ![q] = n]
    BY <1>1, <1>4 DEF SpendMerge
  <2>4. /\ raced' = (raced \/ aoi.spent # r.read)
        /\ UNCHANGED <<aoiClock, aoi, forecast, check, edits, paid>>
    BY <1>4 DEF SpendMerge
  <2>5. ~raced' => n.spent = n.read + n.cost
    BY <2>2, <2>4
  <2>6. raced' \in BOOLEAN /\ (raced => raced')
    BY <2>4
  <2> HIDE DEF n
  <2> QED
    BY <1>1, <2>2, <2>3, <2>4, <2>5, <2>6, RequestOnly
<1>5. CASE SpendRefused(q)
  BY <1>1, <1>5, NoRequestType, RequestOnly DEF SpendRefused
<1>6. ASSUME NEW b \in Budget, NEW s \in 0..MaxSpent, NEW set \in BOOLEAN,
             PolicyMerge(q, b, s, set)
      PROVE  AoiInv'
  <2> DEFINE n == [NoRequest EXCEPT
          !.at = "merging", !.read = aoi.spent, !.budget = b, !.set = set,
          !.spent = IF set THEN s ELSE aoi.spent]
  <2>1. /\ n \in Request /\ n.at = "merging" /\ n.set = set /\ n.read = aoi.spent
        /\ n.cost = 0 /\ (~set => n.spent = aoi.spent)
    BY <1>2, <1>6, NoRequestType DEF PolicyMerge, Request
  <2>2. request' = [request EXCEPT ![q] = n]
    BY <1>6 DEF PolicyMerge
  <2>3. /\ edits' \in 0..MaxEdits
        /\ UNCHANGED <<aoiClock, aoi, forecast, check, paid, raced>>
    <3>1. /\ edits < MaxEdits /\ edits' = edits + 1
          /\ UNCHANGED <<aoiClock, aoi, forecast, check, paid, raced>>
      BY <1>6 DEF PolicyMerge, Edit
    <3> QED
      BY <1>1, <3>1
  <2> HIDE DEF n
  <2>4. ~n.set => n.spent = n.read + n.cost
    <3>1. aoi.spent \in 0..MaxSpent
      BY <1>2, <1>6 DEF PolicyMerge
    <3> QED
      BY <2>1, <3>1
  <2> QED
    BY <1>1, <2>1, <2>2, <2>3, <2>4, RequestOnly
<1>7. CASE PolicyWrite(q)
  BY <1>7, PolicyWriteKeeps
<1>8. ASSUME NEW refresh \in BOOLEAN, ForecastRequest(q, refresh) PROVE AoiInv'
  <2> DEFINE n == [NoRequest EXCEPT !.at = "predicting"]
  <2>1. n \in Request /\ n.at = "predicting"
    BY NoRequestType DEF Request
  <2>2. /\ request' = [request EXCEPT ![q] = n]
        /\ UNCHANGED <<aoiClock, aoi, forecast, check, edits, paid, raced>>
    BY <1>8 DEF ForecastRequest
  <2> HIDE DEF n
  <2> QED
    BY <1>1, <2>1, <2>2, RequestOnly
<1>9. ASSUME NEW passes \in SUBSET PassTime, PassesPredicted(q, passes) PROVE AoiInv'
  <2>1. UNCHANGED <<aoiClock, forecast, check, edits, paid, raced>> /\ r.at = "predicting"
    BY <1>9 DEF PassesPredicted
  <2>2. CASE passes = {}
    <3> DEFINE n == [r EXCEPT !.at = "predicted"]
    <3>1. n \in Request /\ n.at = "predicted"
      BY <1>1 DEF Request
    <3>2. request' = [request EXCEPT ![q] = n] /\ UNCHANGED aoi
      BY <1>1, <1>9, <2>2 DEF PassesPredicted
    <3> HIDE DEF n
    <3> QED
      BY <1>1, <2>1, <3>1, <3>2, RequestOnly
  <2>3. CASE passes # {} /\ aoi = NoAoi
    BY <1>1, <1>9, <2>1, <2>3, NoRequestType, RequestOnly DEF PassesPredicted
  <2>4. CASE passes # {} /\ aoi # NoAoi
    <3> DEFINE next == CHOOSE t \in passes : \A u \in passes : t <= u
               n == [r EXCEPT !.at = "predicted", !.passes = passes]
    <3>1. aoi' = [aoi EXCEPT !.next = next] /\ request' = [request EXCEPT ![q] = n]
      BY <1>1, <1>9, <2>4 DEF PassesPredicted
    <3>2. next \in PassTime
      BY <2>4, NextIsAPass
    <3>3. n \in Request /\ n.at = "predicted"
      BY <1>1 DEF Request
    <3> HIDE DEF next, n
    <3>4. aoi' \in Aoi /\ aoi'.spent = aoi.spent
      BY <1>1, <2>4, <3>1, <3>2 DEF Aoi
    <3>5. request' \in [AoiRequest -> Request]
          /\ \A p \in AoiRequest :
                 request'[p].at \in {"looked", "merging"} => request'[p] = request[p]
      BY <1>1, <3>1, <3>3
    <3> QED
      BY <2>1, <2>4, <3>4, <3>5, RowOnly, NoAoiAssumption DEF AoiInv, AoiTypeOK
  <2> QED
    BY <2>2, <2>3, <2>4
<1>10. CASE SaveForecast(q)
  <2>1. /\ forecast' = NewForecast(r.passes) /\ r.passes \in SUBSET PassTime
        /\ UNCHANGED <<aoiClock, aoi, check, edits, paid, raced>>
    BY <1>1, <1>10 DEF SaveForecast, Request
  <2>2. request' \in [AoiRequest -> Request]
        /\ \A p \in AoiRequest :
               request'[p].at \in {"looked", "merging"} => request'[p] = request[p]
    BY <1>1, <1>10, NoRequestType DEF SaveForecast
  <2>3. forecast' \in Forecast \cup {NoForecast} /\ (aoi = NoAoi => forecast' = NoForecast)
    BY <2>1, ForecastType
  <2> QED
    BY <2>1, <2>2, <2>3, RowOnly DEF AoiInv, AoiTypeOK
<1> QED
  BY <1>3, <1>4, <1>5, <1>6, <1>7, <1>8, <1>9, <1>10

(* A scheduling check. *)
LEMMA CheckKeeps ==
    ASSUME AoiInv, NEW c \in Check,
           \/ ListAois(c) \/ SkipAoi(c) \/ ReadForecast(c) \/ PredictCached(c)
           \/ \E passes \in SUBSET PassTime : PredictAnew(c, passes)
           \/ WriteNextScan(c) \/ MonitorPass(c)
    PROVE  AoiInv'
<1> USE AoiAssumption
<1>1. /\ check \in [Check -> CheckRun] /\ check[c] \in CheckRun
      /\ (aoi # NoAoi => aoi \in Aoi) /\ aoi \in Aoi \cup {NoAoi}
      /\ aoiClock \in 0..MaxAoiClock /\ request \in [AoiRequest -> Request]
      /\ forecast \in Forecast \cup {NoForecast}
      /\ (aoi = NoAoi => forecast = NoForecast)
  BY DEF AoiInv, AoiTypeOK, NoOrphanForecast
<1>2. NoCheck \in CheckRun
  BY DEF NoCheck, CheckRun
<1>3. UNCHANGED <<aoiClock, request, edits, paid, raced>>
  BY DEF ListAois, SkipAoi, ReadForecast, PredictCached, PredictAnew, WriteNextScan,
         MonitorPass
<1>4. ASSUME UNCHANGED <<aoi, forecast>>, check' \in [Check -> CheckRun] PROVE AoiInv'
  BY <1>1, <1>3, <1>4, RowOnly
<1>5. CASE ListAois(c)
  <2>1. [NoCheck EXCEPT !.at = "listed", !.row = aoi] \in CheckRun
    BY <1>1 DEF NoCheck, CheckRun
  <2> QED
    BY <1>1, <1>4, <1>5, <2>1 DEF ListAois
<1>6. CASE SkipAoi(c)
  BY <1>1, <1>2, <1>4, <1>6 DEF SkipAoi
<1>7. CASE ReadForecast(c)
  <2>1. (IF forecast = NoForecast THEN {} ELSE Served(forecast.passes)) \in SUBSET PassTime
    BY <1>1 DEF Served, Forecast
  <2>2. check' \in [Check -> CheckRun]
    BY <1>1, <1>7, <2>1 DEF ReadForecast, CheckRun
  <2> QED
    BY <1>4, <1>7, <2>2 DEF ReadForecast
<1>8. CASE PredictCached(c)
  <2>1. check' \in [Check -> CheckRun]
    BY <1>1, <1>8 DEF PredictCached, CheckRun
  <2> QED
    BY <1>4, <1>8, <2>1 DEF PredictCached
<1>9. ASSUME NEW passes \in SUBSET PassTime, PredictAnew(c, passes) PROVE AoiInv'
  <2>1. check' \in [Check -> CheckRun]
    BY <1>1, <1>9 DEF PredictAnew, CheckRun
  <2>2. forecast' = NewForecast(passes) /\ UNCHANGED aoi
    BY <1>9 DEF PredictAnew
  <2>3. forecast' \in Forecast \cup {NoForecast} /\ (aoi = NoAoi => forecast' = NoForecast)
    BY <2>2, ForecastType
  <2> QED
    BY <1>1, <1>3, <2>1, <2>2, <2>3, RowOnly
<1>10. CASE WriteNextScan(c)
  <2>1. CASE Upcoming(c) = {} \/ aoi = NoAoi
    BY <1>1, <1>2, <1>4, <1>10, <2>1 DEF WriteNextScan
  <2>2. CASE ~(Upcoming(c) = {} \/ aoi = NoAoi)
    <3> DEFINE next == CHOOSE t \in Upcoming(c) : \A u \in Upcoming(c) : t <= u
    <3>1. /\ aoi' = [aoi EXCEPT !.next = next] /\ UNCHANGED forecast
          /\ check' = [check EXCEPT ![c].at = "monitoring"]
      BY <1>10, <2>2 DEF WriteNextScan
    <3>2. Upcoming(c) \in SUBSET PassTime
      BY <1>1 DEF Upcoming, CheckRun
    <3>3. next \in PassTime
      BY <2>2, <3>2, NextIsAPass
    <3> HIDE DEF next
    <3>4. aoi' \in Aoi /\ aoi'.spent = aoi.spent
      BY <1>1, <2>2, <3>1, <3>3 DEF Aoi
    <3>5. check' \in [Check -> CheckRun]
      BY <1>1, <3>1 DEF CheckRun
    <3> QED
      BY <1>1, <1>3, <2>2, <3>1, <3>4, <3>5, RowOnly, NoAoiAssumption
  <2> QED
    BY <2>1, <2>2
<1>11. CASE MonitorPass(c)
  BY <1>1, <1>2, <1>4, <1>11 DEF MonitorPass
<1> QED
  BY <1>5, <1>6, <1>7, <1>8, <1>9, <1>10, <1>11

LEMMA AoiStep == AoiInv /\ [AoiNext]_aoiVars => AoiInv'
<1> SUFFICES ASSUME AoiInv, [AoiNext]_aoiVars PROVE AoiInv'
  OBVIOUS
<1>1. /\ check \in [Check -> CheckRun] /\ aoi \in Aoi \cup {NoAoi}
      /\ (aoi # NoAoi => aoi \in Aoi)
      /\ aoiClock \in 0..MaxAoiClock /\ request \in [AoiRequest -> Request]
      /\ forecast \in Forecast \cup {NoForecast}
      /\ (aoi = NoAoi => forecast = NoForecast)
  BY DEF AoiInv, AoiTypeOK, NoOrphanForecast
<1>2. ASSUME NEW enabled \in BOOLEAN, ToggleCapture(enabled) PROVE AoiInv'
  <2>1. aoi' \in Aoi /\ aoi'.spent = aoi.spent
    BY <1>1, <1>2 DEF ToggleCapture, Aoi
  <2> QED
    BY <1>1, <1>2, <2>1, RowOnly, NoAoiAssumption DEF ToggleCapture
<1>3. CASE DeleteAoi
  BY <1>1, <1>3, RowOnly DEF DeleteAoi
<1>4. CASE AoiTick
  <2>1. aoiClock' \in 0..MaxAoiClock
    BY <1>1, <1>4, AoiAssumption DEF AoiTick
  <2> QED
    BY <1>1, <1>4, <2>1, RowOnly DEF AoiTick
<1>5. CASE UNCHANGED aoiVars
  BY <1>1, <1>5, RowOnly DEF aoiVars
<1> QED
  BY <1>2, <1>3, <1>4, <1>5, RequestKeeps, CheckKeeps DEF AoiNext

(* The amount spent differs from what was paid only after a write fell     *)
(* between the read of another request and the write based on it           *)
(* (persistence/sqlite_aois.py:98-159).                                    *)
THEOREM SpendingAlwaysExact == AoiSpec => []SpendingExact
<1>1. AoiInv => SpendingExact
  BY DEF AoiInv
<1> QED
  BY <1>1, AoiInitially, AoiStep, PTL DEF AoiSpec

(* A deleted area has no forecast, whatever was about to write one         *)
(* (persistence/sqlite_aois.py:241-303).                                   *)
THEOREM NeverAnOrphanForecast == AoiSpec => []NoOrphanForecast
<1>1. AoiInv => NoOrphanForecast
  BY DEF AoiInv
<1> QED
  BY <1>1, AoiInitially, AoiStep, PTL DEF AoiSpec

-----------------------------------------------------------------------------
(***************************************************************************)
(* The start of worker processes: migrations.                              *)
(***************************************************************************)

(* A script whose statements have all taken effect. *)
Whole(s, tables) == {<<s, 1>>, <<s, 2>>} \subseteq tables

(* Versions, committed or not, are recorded of whole scripts only, and a   *)
(* process has behind it only scripts that are whole.                      *)
Migrated ==
    /\ schema \subseteq Statement
    /\ worker \in [Worker -> Process]
    /\ \A s \in versions : Whole(s, schema)
    /\ \A w \in Worker :
          /\ \A s \in worker[w].stamped \cup worker[w].known : Whole(s, schema)
          /\ worker[w].at \in {"migrating", "altering", "stamping"} =>
                \A s \in 1..(worker[w].script - 1) : Whole(s, schema)
          /\ worker[w].at \in {"altering", "stamping"} =>
                worker[w].script \in Script /\ <<worker[w].script, 1>> \in schema
          /\ worker[w].at = "stamping" => Whole(worker[w].script, schema)

MigrationInv == Migrated /\ ServesWholeSchema

(* What Migrated asks of the record of one process. *)
Fine(p, tables) ==
    /\ p \in Process
    /\ \A s \in p.stamped \cup p.known : Whole(s, tables)
    /\ p.at \in {"migrating", "altering", "stamping"} =>
          \A s \in 1..(p.script - 1) : Whole(s, tables)
    /\ p.at \in {"altering", "stamping"} => p.script \in Script /\ <<p.script, 1>> \in tables
    /\ p.at = "stamping" => Whole(p.script, tables)
    /\ p.at \in {"seeding", "seeded", "up", "resetting", "reseeding"} => tables = Statement

LEMMA MigrationParts ==
    MigrationInv <=>
        /\ schema \subseteq Statement
        /\ worker \in [Worker -> Process]
        /\ \A s \in versions : Whole(s, schema)
        /\ \A w \in Worker : Fine(worker[w], schema)
<1>1. worker \in [Worker -> Process] => \A w \in Worker : worker[w] \in Process
  OBVIOUS
<1> QED
  BY <1>1, Zenon DEF MigrationInv, Migrated, Fine, ServesWholeSchema, Serving

(* The schema only grows, so nobody else is disturbed. *)
LEMMA OneMoves ==
    ASSUME MigrationInv, NEW w \in Worker, NEW p,
           worker' = [worker EXCEPT ![w] = p],
           schema \subseteq schema', schema' \subseteq Statement,
           Fine(p, schema'), \A s \in versions' : Whole(s, schema')
    PROVE  MigrationInv'
<1>1. worker \in [Worker -> Process] /\ \A v \in Worker : Fine(worker[v], schema)
  BY MigrationParts
<1>2. p \in Process  BY DEF Fine
<1>3. worker' \in [Worker -> Process] /\ \A v \in Worker : worker'[v] = (IF v = w THEN p ELSE worker[v])
  BY <1>1, <1>2
<1>4. ASSUME NEW v \in Worker \ {w} PROVE Fine(worker'[v], schema')
  <2>1. Fine(worker[v], schema) /\ worker'[v] = worker[v]  BY <1>1, <1>3
  <2>2. schema = Statement => schema' = Statement  OBVIOUS
  <2>3. \A s : Whole(s, schema) => Whole(s, schema')  BY DEF Whole
  <2> HIDE DEF Whole
  <2> QED  BY <2>1, <2>2, <2>3 DEF Fine
<1>5. Fine(worker'[w], schema')  BY <1>3
<1>6. \A v \in Worker : Fine(worker'[v], schema')  BY <1>4, <1>5
<1>7. Migrated'
  BY <1>3, <1>6, Zenon DEF Migrated, Fine
<1>8. ServesWholeSchema'
  BY <1>6, Zenon DEF ServesWholeSchema, Serving, Fine, Statement, Script
<1> QED  BY <1>7, <1>8 DEF MigrationInv

LEMMA DownFine == Fine(Down, schema)
<1>1. NScripts \in Nat  BY StartupAssumption
<1> QED  BY <1>1 DEF Fine, Down, Process, Script

LEMMA MigrationInitially == StartupInit => MigrationInv
<1> SUFFICES ASSUME StartupInit PROVE MigrationInv
  OBVIOUS
<1>1. worker = [w \in Worker |-> Down] /\ schema = {} /\ versions = {}
  BY DEF StartupInit
<1>2. worker \in [Worker -> Process]  BY <1>1, DownFine DEF Fine
<1> QED  BY <1>1, <1>2, DownFine, MigrationParts

LEMMA MigrationStep == MigrationInv /\ [StartupNext]_startupVars => MigrationInv'
<1> SUFFICES ASSUME MigrationInv, [StartupNext]_startupVars PROVE MigrationInv'
  OBVIOUS
<1>0. /\ schema \subseteq Statement
      /\ worker \in [Worker -> Process]
      /\ \A s \in versions : Whole(s, schema)
      /\ \A w \in Worker : Fine(worker[w], schema) /\ worker[w] \in Process
  BY MigrationParts DEF Fine
<1>N. NScripts \in Nat /\ Script = 1..NScripts  BY StartupAssumption DEF Script
<1>D. UNCHANGED schema => Fine(Down, schema')  BY DownFine DEF Fine, Whole
<1>1. ASSUME NEW w \in Worker, StartWorker(w) PROVE MigrationInv'
  <2> DEFINE p == [Down EXCEPT !.at = "migrating", !.known = versions]
  <2>1. worker' = [worker EXCEPT ![w] = p] /\ UNCHANGED <<schema, versions>>
    BY <1>1 DEF StartWorker
  <2>2. versions \subseteq Script
    <3>1. \A s \in versions : <<s, 1>> \in Script \X {1, 2}  BY <1>0 DEF Whole, Statement
    <3> QED  BY <3>1
  <2>3. p \in Process /\ p.at = "migrating" /\ p.known = versions /\ p.stamped = {} /\ p.script = 1
    <3>1. 1 \in 1..(NScripts + 1)  BY <1>N
    <3> QED  BY <2>2, <3>1 DEF Down, Process
  <2> HIDE DEF p
  <2>4. Fine(p, schema')  BY <1>0, <2>1, <2>3 DEF Fine, Whole
  <2>5. \A s \in versions' : Whole(s, schema')  BY <1>0, <2>1 DEF Whole
  <2> QED  BY <1>0, <2>1, <2>4, <2>5, OneMoves
<1>2. ASSUME NEW w \in Worker, SkipScript(w) PROVE MigrationInv'
  <2> DEFINE p == [worker[w] EXCEPT !.script = @ + 1]
             n == worker[w].script
  <2>1. /\ worker' = [worker EXCEPT ![w] = p] /\ UNCHANGED <<schema, versions>>
        /\ worker[w].at = "migrating" /\ n \in worker[w].known
    BY <1>2 DEF SkipScript
  <2>2. n \in Script /\ Whole(n, schema)
    BY <1>0, <2>1 DEF Fine, Process
  <2>3. /\ p \in Process /\ p.at = "migrating" /\ p.script = n + 1
        /\ p.known = worker[w].known /\ p.stamped = worker[w].stamped
    BY <1>0, <1>N, <2>1, <2>2 DEF Process
  <2>4. \A s \in 1..(n + 1 - 1) : Whole(s, schema)
    <3>1. \A s \in 1..(n - 1) : Whole(s, schema)  BY <1>0, <2>1 DEF Fine
    <3>2. n \in Nat  BY <2>2, <1>N
    <3>3. \A s \in 1..(n + 1 - 1) : s = n \/ s \in 1..(n - 1)  BY <3>2
    <3> QED  BY <3>1, <3>3, <2>2
  <2>5. \A s \in worker[w].stamped \cup worker[w].known : Whole(s, schema)  BY <1>0 DEF Fine
  <2> HIDE DEF p
  <2>6. Fine(p, schema')
    <3>0. n \in Int  BY <2>2, <1>N
    <3>1. p.script - 1 = n + 1 - 1  BY <2>3, <3>0
    <3>2. \A s \in 1..(p.script - 1) : Whole(s, schema)  BY <2>4, <3>1, Zenon
    <3> QED  BY <2>1, <2>3, <2>5, <3>2 DEF Fine
  <2>7. \A s \in versions' : Whole(s, schema')  BY <1>0, <2>1 DEF Whole
  <2> QED  BY <1>0, <2>1, <2>6, <2>7, OneMoves
<1>3. ASSUME NEW w \in Worker, RunCreate(w) PROVE MigrationInv'
  <2> DEFINE q == worker[w]
             p == [worker[w] EXCEPT !.at = "altering", !.stamped = {}]
  <2>1. /\ worker' = [worker EXCEPT ![w] = p]
        /\ versions' = versions \cup q.stamped
        /\ schema' = schema \cup {<<q.script, 1>>}
        /\ q.at = "migrating" /\ q.script \in Script
    BY <1>3 DEF RunCreate
  <2>2. /\ p \in Process /\ p.at = "altering" /\ p.script = q.script
        /\ p.known = q.known /\ p.stamped = {}
    BY <1>0 DEF Process
  <2>3. Fine(q, schema)  BY <1>0
  <2> HIDE DEF p, q
  <2>4. schema \subseteq schema' /\ schema' \subseteq Statement
    BY <1>0, <2>1 DEF Statement
  <2>5. \A s : Whole(s, schema) => Whole(s, schema')  BY <2>4 DEF Whole
  <2>6. Fine(p, schema')  BY <2>1, <2>2, <2>3, <2>5 DEF Fine
  <2>7. \A s \in versions' : Whole(s, schema')  BY <1>0, <2>1, <2>3, <2>5 DEF Fine
  <2> QED  BY <2>1, <2>4, <2>6, <2>7, OneMoves
<1>4. ASSUME NEW w \in Worker, RunAlter(w) PROVE MigrationInv'
  <2> DEFINE q == worker[w]
             p == IF <<q.script, 2>> \in schema THEN Down ELSE [q EXCEPT !.at = "stamping"]
  <2>1. /\ worker' = [worker EXCEPT ![w] = p]
        /\ versions' = versions
        /\ schema' = schema \cup {<<q.script, 2>>}
        /\ q.at = "altering"
    BY <1>4 DEF RunAlter
  <2>2. Fine(q, schema) /\ q.script \in Script /\ <<q.script, 1>> \in schema
    BY <1>0, <2>1 DEF Fine
  <2>4. schema \subseteq schema' /\ schema' \subseteq Statement
    BY <1>0, <2>1, <2>2 DEF Statement
  <2>5. \A s : Whole(s, schema) => Whole(s, schema')  BY <2>4 DEF Whole
  <2>6. Fine(p, schema')
    <3>1. CASE <<q.script, 2>> \in schema
      <4>1. p = Down /\ schema' = schema  BY <3>1, <2>1
      <4> QED  BY <4>1, <1>D
    <3>2. CASE <<q.script, 2>> \notin schema
      <4>1. p = [q EXCEPT !.at = "stamping"]  BY <3>2
      <4>2. /\ p \in Process /\ p.at = "stamping" /\ p.script = q.script
            /\ p.known = q.known /\ p.stamped = q.stamped
        BY <1>0, <4>1 DEF Process
      <4>3. Whole(q.script, schema')  BY <2>1, <2>2 DEF Whole
      <4>4. <<q.script, 1>> \in schema'  BY <2>2, <2>4
      <4> HIDE DEF p, q
      <4> QED  BY <2>1, <2>2, <2>5, <4>2, <4>3, <4>4 DEF Fine
    <3> QED  BY <3>1, <3>2
  <2>7. \A s \in versions' : Whole(s, schema')  BY <1>0, <2>1, <2>5
  <2> HIDE DEF p
  <2> QED  BY <2>1, <2>4, <2>6, <2>7, OneMoves
<1>5. ASSUME NEW w \in Worker, Stamp(w) PROVE MigrationInv'
  <2> DEFINE q == worker[w]
             p == IF q.script \in versions THEN Down
                  ELSE [q EXCEPT !.at = "migrating", !.script = q.script + 1,
                                 !.stamped = {q.script}]
  <2>1. worker' = [worker EXCEPT ![w] = p] /\ UNCHANGED <<schema, versions>> /\ q.at = "stamping"
    BY <1>5 DEF Stamp
  <2>2. Fine(q, schema) /\ q.script \in Script /\ Whole(q.script, schema)
    BY <1>0, <2>1 DEF Fine
  <2>3. Fine(p, schema')
    <3>1. CASE q.script \in versions
      <4>1. p = Down  BY <3>1
      <4> QED  BY <4>1, <2>1, <1>D
    <3>2. CASE q.script \notin versions
      <4>1. p = [q EXCEPT !.at = "migrating", !.script = q.script + 1, !.stamped = {q.script}]
        BY <3>2
      <4>2. /\ p \in Process /\ p.at = "migrating" /\ p.script = q.script + 1
            /\ p.known = q.known /\ p.stamped = {q.script}
        <5>1. q \in Process  BY <1>0
        <5>2. q.script + 1 \in 1..(NScripts + 1) /\ {q.script} \subseteq Script
          BY <1>N, <2>2
        <5>3. p = [at |-> "migrating", known |-> q.known, script |-> q.script + 1,
                   stamped |-> {q.script}, keys |-> q.keys]
          BY <4>1, <5>1 DEF Process
        <5> HIDE DEF p, q
        <5> QED  BY <5>1, <5>2, <5>3 DEF Process
      <4>3. \A s \in 1..(q.script + 1 - 1) : Whole(s, schema)
        <5>1. \A s \in 1..(q.script - 1) : Whole(s, schema)  BY <2>1, <2>2 DEF Fine
        <5>2. q.script \in Nat  BY <2>2, <1>N
        <5>3. \A s \in 1..(q.script + 1 - 1) : s = q.script \/ s \in 1..(q.script - 1)  BY <5>2
        <5> QED  BY <5>1, <5>3, <2>2
      <4> HIDE DEF p, q
      <4>0. q.script \in Int  BY <2>2, <1>N
      <4>4. p.script - 1 = q.script + 1 - 1  BY <4>0, <4>2
      <4>5. \A s \in 1..(p.script - 1) : Whole(s, schema)  BY <4>3, <4>4, Zenon
      <4> QED  BY <2>1, <2>2, <4>2, <4>5 DEF Fine
    <3> QED  BY <3>1, <3>2
  <2>4. \A s \in versions' : Whole(s, schema')  BY <1>0, <2>1 DEF Whole
  <2> HIDE DEF p
  <2> QED  BY <1>0, <2>1, <2>3, <2>4, OneMoves
<1>6. ASSUME NEW w \in Worker, EndMigrations(w) PROVE MigrationInv'
  <2> DEFINE q == worker[w]
             p == [worker[w] EXCEPT !.at = "seeding", !.stamped = {}]
  <2>1. /\ worker' = [worker EXCEPT ![w] = p]
        /\ versions' = versions \cup q.stamped /\ schema' = schema
        /\ q.at = "migrating" /\ q.script > NScripts
    BY <1>6 DEF EndMigrations
  <2>2. Fine(q, schema) /\ q.script \in 1..(NScripts + 1)  BY <1>0 DEF Process
  <2>3. p \in Process /\ p.at = "seeding" /\ p.known = q.known /\ p.stamped = {}
    BY <1>0 DEF Process
  <2>4. schema = Statement
    <3>1. q.script - 1 = NScripts  BY <1>N, <2>1, <2>2
    <3>2. \A s \in Script : Whole(s, schema)  BY <1>N, <2>1, <2>2, <3>1 DEF Fine
    <3>3. \A t \in Statement : t \in schema
      <4> TAKE t \in Statement
      <4>1. PICK s \in Script, n \in {1, 2} : t = <<s, n>>  BY DEF Statement
      <4>2. <<s, 1>> \in schema /\ <<s, 2>> \in schema  BY <3>2 DEF Whole
      <4> QED  BY <4>1, <4>2
    <3> QED  BY <1>0, <3>3
  <2> HIDE DEF p, q
  <2>5. Fine(p, schema')  BY <2>1, <2>2, <2>3, <2>4 DEF Fine, Whole, Statement, Script
  <2>6. \A s \in versions' : Whole(s, schema')  BY <1>0, <2>1, <2>2 DEF Fine, Whole
  <2> QED  BY <1>0, <2>1, <2>5, <2>6, OneMoves
<1>7. ASSUME NEW w \in Worker,
             SeedRead(w) \/ SeedWrite(w) \/ ResetSettings(w) \/ WorkerDies(w)
      PROVE  MigrationInv'
  <2>1. UNCHANGED <<schema, versions>>
    BY <1>7 DEF SeedRead, SeedWrite, ResetSettings, WorkerDies
  <2> DEFINE q == worker[w]
  <2>2. Fine(q, schema) /\ q \in Process  BY <1>0
  <2>3. \E p : worker' = [worker EXCEPT ![w] = p] /\ Fine(p, schema)
    <3>1. CASE SeedRead(w)
      <4> DEFINE p == [q EXCEPT !.at = IF @ = "seeding" THEN "seeded" ELSE "reseeding",
                                !.keys = {k \in Key : setting[k] = Absent}]
      <4>1. worker' = [worker EXCEPT ![w] = p] /\ q.at \in {"seeding", "resetting"}
        BY <3>1 DEF SeedRead
      <4>2. /\ p \in Process /\ p.at \in {"seeded", "reseeding"}
            /\ p.known = q.known /\ p.stamped = q.stamped
        BY <2>2 DEF Process
      <4> HIDE DEF p
      <4>3. Fine(p, schema)  BY <2>2, <4>1, <4>2 DEF Fine
      <4> QED  BY <4>1, <4>3
    <3>2. CASE SeedWrite(w)
      <4>1. q.at \in {"seeded", "reseeding"}
            /\ \/ worker' = [worker EXCEPT ![w] = Down]
               \/ worker' = [worker EXCEPT ![w] = [Down EXCEPT !.at = "up"]]
        BY <3>2 DEF SeedWrite
      <4>2. Fine([Down EXCEPT !.at = "up"], schema)
        <5>1. 1 \in 1..(NScripts + 1)  BY <1>N
        <5> QED  BY <2>2, <4>1, <5>1 DEF Fine, Down, Process
      <4> QED  BY <4>1, <4>2, DownFine
    <3>3. CASE ResetSettings(w)
      <4> DEFINE p == [q EXCEPT !.at = "resetting"]
      <4>1. worker' = [worker EXCEPT ![w] = p] /\ q.at = "up"
        BY <3>3 DEF ResetSettings
      <4>2. /\ p \in Process /\ p.at = "resetting"
            /\ p.known = q.known /\ p.stamped = q.stamped
        BY <2>2 DEF Process
      <4> HIDE DEF p
      <4>3. Fine(p, schema)  BY <2>2, <4>1, <4>2 DEF Fine
      <4> QED  BY <4>1, <4>3
    <3>4. CASE WorkerDies(w)
      BY <3>4, DownFine DEF WorkerDies
    <3> QED  BY <1>7, <3>1, <3>2, <3>3, <3>4
  <2>4. \A s \in versions' : Whole(s, schema')  BY <1>0, <2>1 DEF Whole
  <2>5. PICK p : worker' = [worker EXCEPT ![w] = p] /\ Fine(p, schema)  BY <2>3
  <2> QED  BY <1>0, <2>1, <2>4, <2>5, OneMoves
<1>8. ASSUME NEW w \in Worker, \E k \in Key, v \in Value : UpdateSetting(w, k, v)
      PROVE  MigrationInv'
  <2>1. UNCHANGED <<schema, versions, worker>>  BY <1>8 DEF UpdateSetting
  <2> QED  BY <2>1 DEF MigrationInv, Migrated, Whole, ServesWholeSchema, Serving
<1>9. CASE UNCHANGED startupVars
  BY <1>9 DEF startupVars, MigrationInv, Migrated, Whole, ServesWholeSchema, Serving
<1> QED
  BY <1>1, <1>2, <1>3, <1>4, <1>5, <1>6, <1>7, <1>8, <1>9 DEF StartupNext

(* For any number of processes and scripts: a process past its migrations  *)
(* has the whole schema under it, whatever raced and whatever died         *)
(* (runner.py:19-60).                                                      *)
THEOREM AlwaysServesWholeSchema == StartupSpec => []ServesWholeSchema
<1>1. StartupInit => MigrationInv  BY MigrationInitially
<1>2. MigrationInv /\ [StartupNext]_startupVars => MigrationInv'  BY MigrationStep
<1>3. MigrationInv => ServesWholeSchema  BY DEF MigrationInv
<1> QED  BY <1>1, <1>2, <1>3, PTL DEF StartupSpec

-----------------------------------------------------------------------------
(***************************************************************************)
(* The start of worker processes: settings.                                *)
(***************************************************************************)

Missing(rows) == {k \in Key : rows[k] = Absent}

(* A stored value is what was asked for last, and only a default is missing. *)
Honest ==
    /\ setting \in [Key -> Value \cup {Default, Absent}]
    /\ chosen \in [Key -> Value \cup {Default}]
    /\ \A k \in Key : /\ setting[k] \in {chosen[k], Absent}
                      /\ setting[k] = Absent => chosen[k] = Default

(* A process that will insert whatever is missing: the rows a reset has     *)
(* deleted only become fewer until the next reset.                         *)
Mends(p, missing) ==
    \/ p.at = "resetting"
    \/ p.at = "reseeding" /\ missing \subseteq p.keys

(* A process as there are before the first is up. *)
Early(p, missing) ==
    /\ p.at \notin {"up", "resetting", "reseeding"}
    /\ p.at = "seeded" => missing \subseteq p.keys

Mended ==
    \/ troubled
    \/ Missing(setting) = {}
    \/ \E w \in Worker : Mends(worker[w], Missing(setting))
    \/ \A w \in Worker : Early(worker[w], Missing(setting))

SettingsInv == MigrationInv /\ Honest /\ Mended

LEMMA SettingsFollow == SettingsInv => SettingsKept
<1> SUFFICES ASSUME SettingsInv, NEW k \in Key
             PROVE  /\ setting[k] \in {chosen[k], Absent}
                    /\ setting[k] = Absent =>
                          \/ chosen[k] = Default /\ troubled
                          \/ \A w \in Worker : worker[w].at # "up"
                          \/ \E w \in Worker : worker[w].at \in {"resetting", "reseeding"}
  BY DEF SettingsKept
<1>1. setting[k] \in {chosen[k], Absent} /\ (setting[k] = Absent => chosen[k] = Default)
  BY DEF SettingsInv, Honest
<1>2. setting[k] = Absent => Missing(setting) # {}  BY DEF Missing
<1>3. CASE troubled  BY <1>1, <1>3
<1>4. CASE Missing(setting) = {}  BY <1>1, <1>2, <1>4
<1>5. CASE \E w \in Worker : Mends(worker[w], Missing(setting))
  BY <1>1, <1>5 DEF Mends
<1>6. CASE \A w \in Worker : Early(worker[w], Missing(setting))
  BY <1>1, <1>6 DEF Early
<1> QED  BY <1>3, <1>4, <1>5, <1>6 DEF SettingsInv, Mended

LEMMA SettingsInitially == StartupInit => Honest /\ Mended
  BY DEF StartupInit, Honest, Mended, Early, Down

(* A process moves on and the settings stay as they are. *)
LEMMA ProcessMoves ==
    ASSUME MigrationInv, Mended, NEW w \in Worker, NEW p,
           worker' = [worker EXCEPT ![w] = p],
           setting' = setting, troubled => troubled',
           Mends(worker[w], Missing(setting)) => Mends(p, Missing(setting)) \/ troubled',
           Early(worker[w], Missing(setting)) => Early(p, Missing(setting))
    PROVE  Mended'
<1>1. worker \in [Worker -> Process]  BY MigrationParts
<1>2. \A v \in Worker : worker'[v] = (IF v = w THEN p ELSE worker[v])  BY <1>1
<1>3. Missing(setting') = Missing(setting)  OBVIOUS
<1>4. CASE troubled  BY <1>4 DEF Mended
<1>5. CASE Missing(setting) = {}  BY <1>3, <1>5 DEF Mended
<1>6. CASE \E v \in Worker : Mends(worker[v], Missing(setting))
  <2>1. PICK v \in Worker : Mends(worker[v], Missing(setting))  BY <1>6
  <2>2. troubled' \/ Mends(worker'[v], Missing(setting'))  BY <1>2, <1>3, <2>1
  <2> QED  BY <2>2 DEF Mended
<1>7. CASE \A v \in Worker : Early(worker[v], Missing(setting))
  <2>1. \A v \in Worker : Early(worker'[v], Missing(setting'))  BY <1>2, <1>3, <1>7
  <2> QED  BY <2>1 DEF Mended
<1> QED  BY <1>4, <1>5, <1>6, <1>7 DEF Mended

LEMMA SettingsStep ==
    SettingsInv /\ MigrationInv' /\ [StartupNext]_startupVars => SettingsInv'
<1> SUFFICES ASSUME SettingsInv, [StartupNext]_startupVars
             PROVE  Honest' /\ Mended'
  BY DEF SettingsInv
<1>0. MigrationInv /\ Honest /\ Mended /\ worker \in [Worker -> Process]
  BY MigrationParts DEF SettingsInv
<1>1. ASSUME NEW w \in Worker,
             \/ StartWorker(w) \/ SkipScript(w) \/ RunCreate(w) \/ RunAlter(w)
             \/ Stamp(w) \/ EndMigrations(w)
      PROVE  Honest' /\ Mended'
  <2>1. UNCHANGED <<setting, chosen, troubled>>
    BY <1>1 DEF StartWorker, SkipScript, RunCreate, RunAlter, Stamp, EndMigrations
  <2>2. worker[w].at \in {"down", "migrating", "altering", "stamping"}
    BY <1>1 DEF StartWorker, SkipScript, RunCreate, RunAlter, Stamp, EndMigrations
  <2>3. \E p : /\ worker' = [worker EXCEPT ![w] = p]
               /\ p.at \in {"down", "migrating", "altering", "stamping", "seeding"}
    <3> DEFINE q == worker[w]
               Moved(p) == worker' = [worker EXCEPT ![w] = p]
    <3>1. q \in Process  BY <1>0
    <3>2. CASE StartWorker(w)
      <4>1. Moved([Down EXCEPT !.at = "migrating", !.known = versions])
        BY <3>2 DEF StartWorker
      <4>2. [Down EXCEPT !.at = "migrating", !.known = versions].at = "migrating"
        BY DEF Down
      <4> QED  BY <4>1, <4>2
    <3>3. CASE SkipScript(w)
      <4>1. Moved([q EXCEPT !.script = @ + 1])  BY <3>3 DEF SkipScript
      <4>2. [q EXCEPT !.script = @ + 1].at = q.at  BY <3>1 DEF Process
      <4> QED  BY <2>2, <4>1, <4>2
    <3>4. CASE RunCreate(w)
      <4>1. Moved([q EXCEPT !.at = "altering", !.stamped = {}])  BY <3>4 DEF RunCreate
      <4>2. [q EXCEPT !.at = "altering", !.stamped = {}].at = "altering"
        BY <3>1 DEF Process
      <4> QED  BY <4>1, <4>2
    <3>5. CASE RunAlter(w)
      <4>1. Moved(Down) \/ Moved([q EXCEPT !.at = "stamping"])  BY <3>5 DEF RunAlter
      <4>2. Down.at = "down" /\ [q EXCEPT !.at = "stamping"].at = "stamping"
        BY <3>1 DEF Process, Down
      <4> QED  BY <4>1, <4>2
    <3>6. CASE Stamp(w)
      <4> DEFINE p == [q EXCEPT !.at = "migrating", !.script = q.script + 1,
                                !.stamped = {q.script}]
      <4>1. Moved(Down) \/ Moved(p)  BY <3>6 DEF Stamp
      <4>2. Down.at = "down" /\ p.at = "migrating"  BY <3>1 DEF Process, Down
      <4> HIDE DEF p
      <4> QED  BY <4>1, <4>2
    <3>7. CASE EndMigrations(w)
      <4>1. Moved([q EXCEPT !.at = "seeding", !.stamped = {}])  BY <3>7 DEF EndMigrations
      <4>2. [q EXCEPT !.at = "seeding", !.stamped = {}].at = "seeding"
        BY <3>1 DEF Process
      <4> QED  BY <4>1, <4>2
    <3> QED  BY <1>1, <3>2, <3>3, <3>4, <3>5, <3>6, <3>7
  <2>4. PICK p : /\ worker' = [worker EXCEPT ![w] = p]
                 /\ p.at \in {"down", "migrating", "altering", "stamping", "seeding"}
    BY <2>3
  <2>5. Mended'
    BY <1>0, <2>1, <2>2, <2>4, ProcessMoves DEF Mends, Early
  <2>6. Honest'  BY <1>0, <2>1 DEF Honest
  <2> QED  BY <2>5, <2>6
<1>2. ASSUME NEW w \in Worker, SeedRead(w) PROVE Honest' /\ Mended'
  <2> DEFINE q == worker[w]
             p == [q EXCEPT !.at = IF @ = "seeding" THEN "seeded" ELSE "reseeding",
                            !.keys = {k \in Key : setting[k] = Absent}]
  <2>1. /\ worker' = [worker EXCEPT ![w] = p] /\ q.at \in {"seeding", "resetting"}
        /\ UNCHANGED <<setting, chosen, troubled>>
    BY <1>2 DEF SeedRead
  <2>2. /\ p.at = IF q.at = "seeding" THEN "seeded" ELSE "reseeding"
        /\ p.keys = Missing(setting)
    <3>1. q \in Process  BY <1>0
    <3> QED  BY <3>1 DEF Process, Missing
  <2> HIDE DEF p
  <2>3. PICK r : r = p  OBVIOUS
  <2>4. /\ Mends(q, Missing(setting)) => Mends(r, Missing(setting))
        /\ Early(q, Missing(setting)) => Early(r, Missing(setting))
    BY <2>1, <2>2, <2>3 DEF Mends, Early
  <2>5. Mended'
    BY <1>0, <2>1, <2>3, <2>4, ProcessMoves
  <2>6. Honest'  BY <1>0, <2>1 DEF Honest
  <2> QED  BY <2>5, <2>6
<1>3. ASSUME NEW w \in Worker, SeedWrite(w) PROVE Honest' /\ Mended'
  <2> DEFINE q == worker[w]
             clash == \E k \in q.keys : setting[k] # Absent
  <2>1. /\ q.at \in {"seeded", "reseeding"} /\ q.keys \subseteq Key
        /\ setting' = IF clash THEN setting
                      ELSE [k \in Key |-> IF k \in q.keys THEN Default ELSE setting[k]]
        /\ worker' = [worker EXCEPT ![w] =
              IF clash /\ q.at = "seeded" THEN Down ELSE [Down EXCEPT !.at = "up"]]
        /\ troubled' = (troubled \/ (clash /\ q.at = "reseeding"))
        /\ chosen' = chosen
    BY <1>0, <1>3 DEF SeedWrite, Process
  <2>2. CASE clash
    <3>1. setting' = setting  BY <2>1, <2>2
    <3>2. Honest'  BY <1>0, <2>1, <3>1 DEF Honest
    <3>3. CASE q.at = "seeded"
      <4>1. worker' = [worker EXCEPT ![w] = Down] /\ (troubled => troubled')
        BY <2>1, <2>2, <3>3
      <4>2. ~Mends(q, Missing(setting)) /\ Early(Down, Missing(setting))
        BY <3>3 DEF Mends, Early, Down
      <4>3. Mended'  BY <1>0, <3>1, <4>1, <4>2, ProcessMoves
      <4> QED  BY <3>2, <4>3
    <3>4. CASE q.at = "reseeding"
      BY <2>1, <2>2, <3>2, <3>4 DEF Mended
    <3> QED  BY <2>1, <3>3, <3>4
  <2>3. CASE ~clash
    <3>1. setting' = [k \in Key |-> IF k \in q.keys THEN Default ELSE setting[k]]
      BY <2>1, <2>3
    <3>2. \A k \in q.keys : setting[k] = Absent  BY <2>3
    <3>3. Honest'  BY <1>0, <2>1, <3>1, <3>2, StartupAssumption DEF Honest
    <3>4. Missing(setting') = Missing(setting) \ q.keys
      BY <3>1, StartupAssumption DEF Missing
    <3>5. CASE Missing(setting) \subseteq q.keys
      BY <3>3, <3>4, <3>5 DEF Mended
    <3>6. CASE troubled  BY <2>1, <3>3, <3>6 DEF Mended
    <3>7. CASE /\ ~(Missing(setting) \subseteq q.keys)
               /\ \E v \in Worker : Mends(worker[v], Missing(setting))
      <4>1. PICK v \in Worker : Mends(worker[v], Missing(setting))  BY <3>7
      <4>2. v # w  BY <2>1, <3>7, <4>1 DEF Mends
      <4>3. worker'[v] = worker[v]  BY <1>0, <2>1, <4>2
      <4>4. Mends(worker'[v], Missing(setting'))
        BY <3>4, <4>1, <4>3 DEF Mends
      <4> QED  BY <3>3, <4>4 DEF Mended
    <3>8. ASSUME \A v \in Worker : Early(worker[v], Missing(setting))
          PROVE  Missing(setting) \subseteq q.keys
      BY <2>1, <3>8 DEF Early
    <3>9. Missing(setting) = {} => Missing(setting) \subseteq q.keys  OBVIOUS
    <3> HIDE DEF q, clash
    <3> QED  BY <1>0, <3>5, <3>6, <3>7, <3>8, <3>9, Zenon DEF Mended
  <2> QED  BY <2>2, <2>3
<1>4. ASSUME NEW w \in Worker, NEW k \in Key, NEW v \in Value, UpdateSetting(w, k, v)
      PROVE  Honest' /\ Mended'
  <2>1. /\ setting' = [setting EXCEPT ![k] = v] /\ chosen' = [chosen EXCEPT ![k] = v]
        /\ UNCHANGED <<worker, troubled>> /\ worker[w].at = "up"
    BY <1>4 DEF UpdateSetting
  <2>2. Honest'  BY <1>0, <2>1, StartupAssumption DEF Honest
  <2>3. Missing(setting') \subseteq Missing(setting)
    BY <1>0, <2>1, StartupAssumption DEF Missing, Honest
  <2>4. ~Early(worker[w], Missing(setting))  BY <2>1 DEF Early
  <2>5. CASE troubled \/ Missing(setting) = {}  BY <2>1, <2>2, <2>3, <2>5 DEF Mended
  <2>6. CASE \E u \in Worker : Mends(worker[u], Missing(setting))
    <3>1. PICK u \in Worker : Mends(worker[u], Missing(setting))  BY <2>6
    <3>2. Mends(worker'[u], Missing(setting'))  BY <2>1, <2>3, <3>1 DEF Mends
    <3> QED  BY <2>2, <3>2 DEF Mended
  <2> QED  BY <1>0, <2>4, <2>5, <2>6 DEF Mended
<1>5. ASSUME NEW w \in Worker, ResetSettings(w) PROVE Honest' /\ Mended'
  <2>1. /\ setting' = [k \in Key |-> Absent] /\ chosen' = [k \in Key |-> Default]
        /\ worker' = [worker EXCEPT ![w].at = "resetting"]
    BY <1>5 DEF ResetSettings
  <2>2. Honest'  BY <2>1 DEF Honest
  <2>3. worker'[w].at = "resetting"  BY <1>0, <2>1 DEF Process
  <2>4. Mends(worker'[w], Missing(setting'))  BY <2>3 DEF Mends
  <2> QED  BY <2>2, <2>4 DEF Mended
<1>6. ASSUME NEW w \in Worker, WorkerDies(w) PROVE Honest' /\ Mended'
  <2>1. /\ worker' = [worker EXCEPT ![w] = Down] /\ UNCHANGED <<setting, chosen>>
        /\ troubled' = (troubled \/ worker[w].at \in {"resetting", "reseeding"})
    BY <1>6 DEF WorkerDies
  <2>2. /\ Mends(worker[w], Missing(setting)) => troubled'
        /\ Early(Down, Missing(setting))
    BY <2>1 DEF Mends, Early, Down
  <2>3. Mended'  BY <1>0, <2>1, <2>2, ProcessMoves
  <2>4. Honest'  BY <1>0, <2>1 DEF Honest
  <2> QED  BY <2>3, <2>4
<1>7. CASE UNCHANGED startupVars
  <2>1. UNCHANGED <<setting, chosen, worker, troubled>>  BY <1>7 DEF startupVars
  <2>2. Honest'  BY <1>0, <2>1 DEF Honest
  <2>3. Mended'  BY <1>0, <2>1, Zenon DEF Mended
  <2> QED  BY <2>2, <2>3
<1> QED
  BY <1>1, <1>2, <1>3, <1>4, <1>5, <1>6, <1>7 DEF StartupNext

(* For any number of processes and settings: seeding never overwrites what *)
(* a user has set, and a default is missing only while a reset puts it     *)
(* back, or for good after one that failed (sqlite_settings.py:523-554).   *)
THEOREM SettingsAlwaysKept == StartupSpec => []SettingsKept
<1>1. StartupInit => SettingsInv
  BY MigrationInitially, SettingsInitially DEF SettingsInv
<1>2. SettingsInv /\ [StartupNext]_startupVars => SettingsInv'
  BY MigrationStep, SettingsStep DEF SettingsInv
<1>3. SettingsInv => SettingsKept  BY SettingsFollow
<1> QED  BY <1>1, <1>2, <1>3, PTL DEF StartupSpec

-----------------------------------------------------------------------------
(***************************************************************************)
(* Reviews and their trail.                                                *)
(***************************************************************************)

(* A request past its upsert of the review i. *)
Past(p, i) == p.at \in {"saved", "empty", "audited"} /\ p.idx = i

(* An entry tells of the disposition d, or a request is bound to write one. *)
Told(entries, d) == \E k \in DOMAIN entries : entries[k].disposition = d
WillTell(p, i, d) ==
    Past(p, i) /\ p.record.disposition = d /\ (p.submit \/ p.at = "empty")

(* Nobody is bound, but a synchronisation has yet to look at an empty       *)
(* history, and whoever may fill it before has a pending review to tell of. *)
Pending(requests, entries, i, d) ==
    /\ d = "pending" /\ entries = <<>>
    /\ \E w \in Writer : Past(requests[w], i) /\ requests[w].at = "saved"
    /\ \A w \in Writer : Past(requests[w], i) => requests[w].record.disposition = "pending"

Explained(requests, entries, i, d) ==
    \/ Told(entries, d)
    \/ \E w \in Writer : WillTell(requests[w], i, d)
    \/ Pending(requests, entries, i, d)

Traced(requests, row, entries, i, excused) ==
    /\ row = NoReview => entries = <<>> /\ \A w \in Writer : ~Past(requests[w], i)
    /\ row # NoReview => excused \/ Explained(requests, entries, i, row.disposition)

ReviewShape ==
    /\ detected \in [Index -> Detection \cup {NoDetection}]
    /\ review \in [Index -> Review \cup {NoReview}]
    /\ trail \in [Index -> Seq(Entry)]
    /\ writer \in [Writer -> Writing \cup {NoWriting}]
    /\ deaths \in Nat

(* What a request brings: a review, a pending one if it synchronises. *)
Bearing(p) ==
    p.at # "idle" =>
        p \in Writing /\ p.record \in Review /\ (p.submit \/ p.record.disposition = "pending")

ReviewInv ==
    /\ ReviewShape
    /\ \A w \in Writer : Bearing(writer[w])
    /\ \A i \in Index : Traced(writer, review[i], trail[i], i, deaths > 0 \/ i \in undone)

LEMMA TrailFollows == ReviewInv => TrailExplains
<1> SUFFICES ASSUME ReviewInv, NEW i \in Index, review[i] # NoReview,
                    \A w \in Writer : writer[w].at = "idle" \/ writer[w].idx # i,
                    deaths = 0
             PROVE  \/ \E k \in DOMAIN trail[i] :
                          trail[i][k].disposition = review[i].disposition
                    \/ i \in undone
  BY DEF TrailExplains
<1>1. \A w \in Writer : ~Past(writer[w], i)  BY DEF Past
<1>2. i \in undone \/ Explained(writer, trail[i], i, review[i].disposition)
  BY DEF ReviewInv, Traced
<1> QED  BY <1>1, <1>2 DEF Explained, Told, WillTell, Pending

LEMMA NoWritingIdle == NoWriting.at = "idle"
  BY DEF NoWriting

LEMMA ReviewInitially == ReviewInit => ReviewInv
<1> SUFFICES ASSUME ReviewInit PROVE ReviewInv
  OBVIOUS
<1>1. ReviewShape  BY DEF ReviewInit, ReviewShape
<1>2. \A w \in Writer : writer[w].at = "idle"  BY NoWritingIdle DEF ReviewInit
<1>3. \A i \in Index : Traced(writer, review[i], trail[i], i, deaths > 0 \/ i \in undone)
  BY <1>2 DEF ReviewInit, Traced, Past
<1> QED  BY <1>1, <1>2, <1>3 DEF ReviewInv, Bearing

(* A request that is not past its upsert of i, before and after, does       *)
(* nothing to what is traced of i.                                         *)
LEMMA ElsewhereTraced ==
    ASSUME NEW old \in [Writer -> Writing \cup {NoWriting}],
           NEW w \in Writer, NEW p \in Writing \cup {NoWriting},
           NEW i, NEW row, NEW entries, NEW excused, NEW later,
           Traced(old, row, entries, i, excused), excused => later,
           ~Past(old[w], i), ~Past(p, i)
    PROVE  Traced([old EXCEPT ![w] = p], row, entries, i, later)
<1> DEFINE new == [old EXCEPT ![w] = p]
<1>1. \A v \in Writer : v # w => new[v] = old[v]  OBVIOUS
<1>2. new[w] = p  OBVIOUS
<1> HIDE DEF new
<1>3. \A v \in Writer : Past(new[v], i) => new[v] = old[v] /\ Past(old[v], i)
  BY <1>1, <1>2
<1>4. \A v \in Writer : Past(old[v], i) => new[v] = old[v]
  BY <1>1
<1>5. Explained(old, entries, i, row.disposition) => Explained(new, entries, i, row.disposition)
  <2>1. CASE Told(entries, row.disposition)  BY <2>1 DEF Explained
  <2>2. ASSUME NEW v \in Writer, WillTell(old[v], i, row.disposition)
        PROVE  Explained(new, entries, i, row.disposition)
    <3>1. WillTell(new[v], i, row.disposition)  BY <1>4, <2>2 DEF WillTell
    <3> QED  BY <3>1 DEF Explained
  <2>3. CASE Pending(old, entries, i, row.disposition)
    <3>1. Pending(new, entries, i, row.disposition)  BY <1>3, <1>4, <2>3 DEF Pending
    <3> QED  BY <3>1 DEF Explained
  <2> QED  BY <2>1, <2>2, <2>3 DEF Explained
<1>6. Traced(new, row, entries, i, later)
  BY <1>3, <1>5 DEF Traced
<1> QED  BY <1>6 DEF new

(* What an entry more tells: what was told, and what the writer was bound  *)
(* to tell.                                                                *)
LEMMA EntryTells ==
    ASSUME NEW entries \in Seq(Entry), NEW e \in Entry
    PROVE  LET more == Append(entries, e)
           IN  /\ more \in Seq(Entry) /\ more # <<>>
               /\ \A d : Told(entries, d) \/ e.disposition = d => Told(more, d)
<1> DEFINE more == Append(entries, e)
<1>1. more \in Seq(Entry) /\ Len(more) = Len(entries) + 1
      /\ (\A k \in 1..Len(entries) : more[k] = entries[k]) /\ more[Len(entries) + 1] = e
  BY AppendProperties
<1>2. Len(entries) \in Nat /\ DOMAIN entries = 1..Len(entries)
      /\ DOMAIN more = 1..(Len(entries) + 1)
  BY <1>1, LenProperties
<1>3. more # <<>>  BY <1>1, <1>2, EmptySeq
<1>4. \A k \in DOMAIN entries : k \in DOMAIN more /\ more[k] = entries[k]
  BY <1>1, <1>2
<1>5. Len(entries) + 1 \in DOMAIN more /\ more[Len(entries) + 1] = e
  BY <1>1, <1>2
<1> HIDE DEF more
<1>6. \A d : Told(entries, d) \/ e.disposition = d => Told(more, d)
  BY <1>4, <1>5 DEF Told
<1> QED  BY <1>1, <1>3, <1>6 DEF more

(* A step of one request that tells, if it writes, of its own record:      *)
(* afterwards it is bound as before, or has told.                          *)
LEMMA TellerTraced ==
    ASSUME NEW old \in [Writer -> Writing \cup {NoWriting}],
           NEW w \in Writer, NEW p \in Writing \cup {NoWriting},
           NEW i, NEW row, NEW entries, NEW more, NEW excused, NEW later,
           Traced(old, row, entries, i, excused), excused => later,
           Past(old[w], i),
           Past(p, i) \/ p.at = "idle",
           Past(p, i) => p.record = old[w].record,
           \A d : Told(entries, d) => Told(more, d),
           \A d : WillTell(old[w], i, d) => WillTell(p, i, d) \/ Told(more, d),
           more = entries \/ Told(more, old[w].record.disposition),
           old[w].at = "saved" /\ entries = <<>> => p.at = "empty"
    PROVE  Traced([old EXCEPT ![w] = p], row, more, i, later)
<1> DEFINE new == [old EXCEPT ![w] = p]
           d == row.disposition
<1>1. \A v \in Writer : v # w => new[v] = old[v]  OBVIOUS
<1>2. new[w] = p  OBVIOUS
<1> HIDE DEF new
<1>3. row # NoReview  BY DEF Traced
<1>4. Explained(old, entries, i, d) => Explained(new, more, i, d)
  <2>1. CASE Told(entries, d)  BY <2>1 DEF Explained
  <2>2. ASSUME NEW v \in Writer, WillTell(old[v], i, d) PROVE Explained(new, more, i, d)
    <3>1. CASE v = w
      <4>1. WillTell(new[w], i, d) \/ Told(more, d)  BY <1>2, <2>2, <3>1
      <4> QED  BY <4>1 DEF Explained
    <3>2. CASE v # w
      <4>1. WillTell(new[v], i, d)  BY <1>1, <2>2, <3>2
      <4> QED  BY <4>1 DEF Explained
    <3> QED  BY <3>1, <3>2
  <2>3. CASE Pending(old, entries, i, d)
    <3>1. d = "pending" /\ entries = <<>> /\ old[w].record.disposition = "pending"
      BY <2>3 DEF Pending
    <3>2. CASE more # entries
      <4>1. Told(more, d)  BY <3>1, <3>2
      <4> QED  BY <4>1 DEF Explained
    <3>3. CASE more = entries /\ old[w].at = "saved"
      <4>1. p.at = "empty"  BY <3>1, <3>3
      <4>2. Past(p, i)  BY <4>1
      <4>3. WillTell(new[w], i, d)  BY <1>2, <3>1, <4>1, <4>2 DEF WillTell
      <4> QED  BY <4>3 DEF Explained
    <3>4. CASE more = entries /\ old[w].at # "saved"
      <4>1. PICK v \in Writer : Past(old[v], i) /\ old[v].at = "saved"  BY <2>3 DEF Pending
      <4>2. v # w /\ new[v] = old[v]  BY <1>1, <3>4, <4>1
      <4>3. \A u \in Writer : Past(new[u], i) => new[u].record.disposition = "pending"
        <5>1. ASSUME NEW u \in Writer, u = w, Past(new[u], i)
              PROVE  new[u].record.disposition = "pending"
          BY <1>2, <3>1, <5>1
        <5>2. ASSUME NEW u \in Writer, u # w, Past(new[u], i)
              PROVE  new[u].record.disposition = "pending"
          BY <1>1, <2>3, <5>2 DEF Pending
        <5> QED  BY <5>1, <5>2
      <4>4. Pending(new, more, i, d)  BY <3>1, <3>4, <4>1, <4>2, <4>3 DEF Pending
      <4> QED  BY <4>4 DEF Explained
    <3> QED  BY <3>2, <3>3, <3>4
  <2> QED  BY <2>1, <2>2, <2>3 DEF Explained
<1>5. Traced(new, row, more, i, later)  BY <1>3, <1>4 DEF Traced
<1> QED  BY <1>5 DEF new

(* A request saves: a submission is bound to tell of what it saved, a       *)
(* synchronisation saves a pending review over none or a pending one, or   *)
(* undoes a submission.                                                    *)
LEMMA SaveTraced ==
    ASSUME NEW old \in [Writer -> Writing \cup {NoWriting}],
           NEW w \in Writer, NEW p \in Writing,
           NEW i, NEW row, NEW record, NEW entries, NEW excused, NEW later,
           Traced(old, row, entries, i, excused),
           record # NoReview, p.record = record, p.idx = i, p.at = "saved",
           old[w].at = "read",
           p.submit \/ record.disposition = "pending",
           ~p.submit /\ excused => later,
           ~p.submit /\ row # NoReview /\ row.disposition # "pending" => later
    PROVE  Traced([old EXCEPT ![w] = p], record, entries, i, later)
<1> DEFINE new == [old EXCEPT ![w] = p]
           d == record.disposition
<1>1. \A v \in Writer : v # w => new[v] = old[v]  OBVIOUS
<1>2. new[w] = p  OBVIOUS
<1> HIDE DEF new
<1>3. Past(p, i) /\ ~Past(old[w], i)  BY DEF Past
<1>4. later \/ Explained(new, entries, i, d)
  <2>1. CASE p.submit
    <3>1. WillTell(new[w], i, d)  BY <1>2, <1>3, <2>1 DEF WillTell
    <3> QED  BY <3>1 DEF Explained
  <2>2. CASE ~p.submit /\ row = NoReview
    <3>1. entries = <<>> /\ \A v \in Writer : ~Past(old[v], i)  BY <2>2 DEF Traced
    <3>2. \A v \in Writer : Past(new[v], i) => v = w  BY <1>1, <3>1
    <3>3. Past(new[w], i) /\ new[w].at = "saved" /\ new[w].record.disposition = "pending"
      BY <1>2, <1>3, <2>2
    <3>4. Pending(new, entries, i, d)  BY <2>2, <3>1, <3>2, <3>3 DEF Pending
    <3> QED  BY <3>4 DEF Explained
  <2>3. CASE ~p.submit /\ row # NoReview /\ row.disposition = "pending"
    <3>0. d = "pending"  BY <2>3
    <3>1. later \/ Explained(old, entries, i, d)  BY <2>3, <3>0 DEF Traced
    <3>2. CASE Told(entries, d)  BY <3>2 DEF Explained
    <3>3. ASSUME NEW v \in Writer, WillTell(old[v], i, d) PROVE Explained(new, entries, i, d)
      <4>1. v # w  BY <1>3, <3>3 DEF WillTell
      <4>2. WillTell(new[v], i, d)  BY <1>1, <3>3, <4>1
      <4> QED  BY <4>2 DEF Explained
    <3>4. CASE Pending(old, entries, i, d)
      <4>1. \A v \in Writer : Past(new[v], i) => new[v].record.disposition = "pending"
        <5>1. ASSUME NEW v \in Writer, v = w PROVE new[v].record.disposition = "pending"
          BY <1>2, <3>0, <5>1
        <5>2. ASSUME NEW v \in Writer, v # w, Past(new[v], i)
              PROVE  new[v].record.disposition = "pending"
          BY <1>1, <3>4, <5>2 DEF Pending
        <5> QED  BY <5>1, <5>2
      <4>2. Past(new[w], i) /\ new[w].at = "saved"  BY <1>2, <1>3
      <4>3. Pending(new, entries, i, d)  BY <3>0, <3>4, <4>1, <4>2 DEF Pending
      <4> QED  BY <4>3 DEF Explained
    <3> QED  BY <3>1, <3>2, <3>3, <3>4 DEF Explained
  <2> QED  BY <2>1, <2>2, <2>3
<1>5. Traced(new, record, entries, i, later)  BY <1>4 DEF Traced
<1> QED  BY <1>5 DEF new

LEMMA OneBears ==
    ASSUME writer \in [Writer -> Writing \cup {NoWriting}],
           \A v \in Writer : Bearing(writer[v]),
           NEW w \in Writer, NEW p \in Writing \cup {NoWriting}, Bearing(p),
           writer' = [writer EXCEPT ![w] = p]
    PROVE  /\ writer' \in [Writer -> Writing \cup {NoWriting}]
           /\ \A v \in Writer : Bearing(writer'[v])
<1>1. \A v \in Writer : writer'[v] = (IF v = w THEN p ELSE writer[v])  OBVIOUS
<1> QED  BY <1>1

LEMMA ReviewStep == ReviewInv /\ [ReviewNext]_reviewVars => ReviewInv'
<1> SUFFICES ASSUME ReviewInv, [ReviewNext]_reviewVars PROVE ReviewInv'
  OBVIOUS
<1>0. /\ ReviewShape
      /\ \A w \in Writer : Bearing(writer[w])
      /\ \A i \in Index : Traced(writer, review[i], trail[i], i, deaths > 0 \/ i \in undone)
  BY DEF ReviewInv
<1>W. writer \in [Writer -> Writing \cup {NoWriting}]  BY <1>0 DEF ReviewShape
<1>1. ASSUME NEW w \in Writer, NEW p \in Writing, Bearing(p), p.at = "read",
             writer[w].at = "idle", writer' = [writer EXCEPT ![w] = p],
             UNCHANGED <<detected, review, trail, deaths, undone>>
      PROVE  ReviewInv'
  <2>1. ReviewShape' /\ \A v \in Writer : Bearing(writer'[v])
    BY <1>0, <1>1, OneBears DEF ReviewShape
  <2>2. ASSUME NEW i \in Index
        PROVE  Traced(writer', review[i], trail[i], i, deaths > 0 \/ i \in undone)
    <3>1. ~Past(writer[w], i) /\ ~Past(p, i)  BY <1>1 DEF Past
    <3> QED  BY <1>0, <1>W, <1>1, <3>1, ElsewhereTraced
  <2> QED  BY <1>1, <2>1, <2>2 DEF ReviewInv
<1>2. ASSUME NEW w \in Writer, NEW i \in Index, NEW disposition \in Disposition,
             NEW corrects \in BOOLEAN, SubmitReads(w, i, disposition, corrects)
      PROVE  ReviewInv'
  <2>1. PICK old : old = review[i]  OBVIOUS
  <2>2. PICK box : box = IF old # NoReview THEN old.original ELSE detected[i]  OBVIOUS
  <2>4. PICK record : record = [disposition |-> disposition, original |-> box]
    OBVIOUS
  <2>5. PICK p : p = [at |-> "read", submit |-> TRUE, corrects |-> corrects, idx |-> i,
                      before |-> old, record |-> record]
    OBVIOUS
  <2>6. old \in Review \cup {NoReview}  BY <1>0, <2>1 DEF ReviewShape
  <2>7. box \in Detection \cup {NoDetection}
    BY <1>0, <2>2, <2>6 DEF ReviewShape, Review
  <2>9. record \in Review  BY <2>4, <2>7 DEF Review
  <2>10. p \in Writing /\ p.at = "read" /\ p.record = record /\ p.submit = TRUE
    BY <2>5, <2>6, <2>9 DEF Writing
  <2>11. Bearing(p)  BY <2>9, <2>10 DEF Bearing
  <2>12. writer' = [writer EXCEPT ![w] = p]
    BY <1>2, <2>1, <2>2, <2>4, <2>5 DEF SubmitReads
  <2>13. writer[w].at = "idle" /\ UNCHANGED <<detected, review, trail, deaths, undone>>
    BY <1>2 DEF SubmitReads
  <2> QED  BY <1>1, <2>10, <2>11, <2>12, <2>13
<1>3. ASSUME NEW w \in Writer, NEW i \in Index, SyncReads(w, i) PROVE ReviewInv'
  <2>1. PICK record : record = [disposition |-> "pending", original |-> detected[i]]
    OBVIOUS
  <2>2. PICK p : p = [at |-> "read", submit |-> FALSE, corrects |-> FALSE, idx |-> i,
                      before |-> NoReview, record |-> record]
    OBVIOUS
  <2>3. record \in Review /\ record.disposition = "pending"
    BY <1>0, <2>1 DEF ReviewShape, Review, Disposition
  <2>4. p \in Writing /\ p.at = "read" /\ p.record = record
    BY <2>2, <2>3 DEF Writing
  <2>5. Bearing(p)  BY <2>3, <2>4 DEF Bearing
  <2>6. /\ writer' = [writer EXCEPT ![w] = p]
        /\ writer[w].at = "idle" /\ UNCHANGED <<detected, review, trail, deaths, undone>>
    BY <1>3, <2>1, <2>2 DEF SyncReads
  <2> QED  BY <1>1, <2>4, <2>5, <2>6
<1>4. ASSUME NEW w \in Writer, SaveReview(w) PROVE ReviewInv'
  <2>1. PICK q : q = writer[w]  OBVIOUS
  <2>2. PICK i : i = q.idx  OBVIOUS
  <2>3. PICK record : record = q.record  OBVIOUS
  <2>4. PICK p : p = [q EXCEPT !.at = "saved"]  OBVIOUS
  <2>5. /\ q.at = "read" /\ writer' = [writer EXCEPT ![w] = p]
        /\ review' = [review EXCEPT ![i] = record]
        /\ undone' = IF q.submit THEN undone \ {i}
                     ELSE IF review[i] # NoReview /\ review[i].disposition \in Reviewed
                     THEN undone \cup {i} ELSE undone
        /\ UNCHANGED <<detected, trail, deaths>>
    BY <1>4, <2>1, <2>2, <2>3, <2>4 DEF SaveReview
  <2>6. q \in Writing /\ record \in Review /\ (q.submit \/ record.disposition = "pending")
    BY <1>0, <2>1, <2>3, <2>5 DEF Bearing
  <2>7. /\ p \in Writing /\ p.at = "saved" /\ p.idx = i /\ p.record = record
        /\ p.submit = q.submit /\ i \in Index /\ q.submit \in BOOLEAN
    BY <2>2, <2>3, <2>4, <2>6 DEF Writing
  <2>8. Bearing(p)  BY <2>6, <2>7 DEF Bearing
  <2>9. ReviewShape' /\ \A v \in Writer : Bearing(writer'[v])
    BY <1>0, <2>5, <2>6, <2>7, <2>8, OneBears DEF ReviewShape
  <2>10. ASSUME NEW j \in Index
         PROVE  Traced(writer', review'[j], trail[j], j, deaths > 0 \/ j \in undone')
    <3>1. CASE j = i
      <4>1. review[i] \in Review \cup {NoReview} /\ review'[i] = record
        BY <1>0, <2>5, <2>7 DEF ReviewShape
      <4>2. record # NoReview  BY <2>6, NoReviewAssumption
      <4>3. ~p.submit /\ (deaths > 0 \/ i \in undone) => deaths > 0 \/ i \in undone'
        BY <2>5, <2>7
      <4>4. ~p.submit /\ review[i] # NoReview /\ review[i].disposition # "pending"
            => deaths > 0 \/ i \in undone'
        BY <2>5, <2>7, <4>1 DEF Review, Reviewed
      <4>5. Traced([writer EXCEPT ![w] = p], record, trail[i], i, deaths > 0 \/ i \in undone')
        BY <1>0, <1>W, <2>1, <2>5, <2>6, <2>7, <4>2, <4>3, <4>4, SaveTraced
      <4> QED  BY <2>5, <3>1, <4>1, <4>5
    <3>2. CASE j # i
      <4>1. review'[j] = review[j] /\ (j \in undone => j \in undone')
        BY <1>0, <2>5, <2>7, <3>2 DEF ReviewShape
      <4>2. ~Past(writer[w], j) /\ ~Past(p, j)
        BY <2>1, <2>5, <2>7, <3>2 DEF Past
      <4>3. Traced([writer EXCEPT ![w] = p], review[j], trail[j], j, deaths > 0 \/ j \in undone')
        BY <1>0, <1>W, <2>7, <4>1, <4>2, ElsewhereTraced
      <4> QED  BY <2>5, <4>1, <4>3
    <3> QED  BY <3>1, <3>2
  <2>11. \A j \in Index : Traced(writer', review'[j], trail'[j], j, deaths' > 0 \/ j \in undone')
    BY <2>5, <2>10
  <2> QED  BY <2>9, <2>11 DEF ReviewInv
(* What is common to the steps that follow the upsert. *)
<1>5. ASSUME NEW w \in Writer, NEW p \in Writing \cup {NoWriting}, Bearing(p),
             writer' = [writer EXCEPT ![w] = p],
             Past(writer[w], writer[w].idx), Past(p, writer[w].idx) \/ p.at = "idle",
             NEW more, trail' = [trail EXCEPT ![writer[w].idx] = more],
             more \in Seq(Entry),
             Past(p, writer[w].idx) => p.record = writer[w].record,
             \A d : Told(trail[writer[w].idx], d) => Told(more, d),
             \A d : WillTell(writer[w], writer[w].idx, d) =>
                      WillTell(p, writer[w].idx, d) \/ Told(more, d),
             more = trail[writer[w].idx] \/ Told(more, writer[w].record.disposition),
             writer[w].at = "saved" /\ trail[writer[w].idx] = <<>> => p.at = "empty",
             UNCHANGED <<detected, review, deaths, undone>>
      PROVE  ReviewInv'
  <2>1. PICK i : i = writer[w].idx  OBVIOUS
  <2>2. i \in Index
    <3>1. writer[w].at # "idle"  BY <1>5 DEF Past
    <3>2. writer[w] \in Writing  BY <1>0, <3>1 DEF Bearing
    <3> QED  BY <2>1, <3>2 DEF Writing
  <2>3. trail \in [Index -> Seq(Entry)]  BY <1>0 DEF ReviewShape
  <2>4. ReviewShape' /\ \A v \in Writer : Bearing(writer'[v])
    BY <1>0, <1>5, <2>3, OneBears DEF ReviewShape
  <2>5. ASSUME NEW j \in Index
        PROVE  Traced(writer', review[j], trail'[j], j, deaths > 0 \/ j \in undone)
    <3>1. CASE j = i
      <4>1. trail'[i] = more  BY <1>5, <2>1, <2>2, <2>3
      <4>2. Traced(writer, review[i], trail[i], i, deaths > 0 \/ i \in undone)
        BY <1>0, <2>2
      <4>3. Traced([writer EXCEPT ![w] = p], review[i], more, i, deaths > 0 \/ i \in undone)
        BY <1>W, <1>5, <2>1, <4>2, TellerTraced
      <4> QED  BY <1>5, <3>1, <4>1, <4>3
    <3>2. CASE j # i
      <4>1. trail'[j] = trail[j]  BY <1>5, <2>1, <2>3, <3>2
      <4>2. ~Past(writer[w], j) /\ ~Past(p, j)
        BY <1>5, <2>1, <3>2 DEF Past
      <4>3. Traced([writer EXCEPT ![w] = p], review[j], trail[j], j, deaths > 0 \/ j \in undone)
        BY <1>0, <1>W, <4>2, ElsewhereTraced
      <4> QED  BY <1>5, <4>1, <4>3
    <3> QED  BY <3>1, <3>2
  <2>6. \A j \in Index : Traced(writer', review'[j], trail'[j], j, deaths' > 0 \/ j \in undone')
    BY <1>5, <2>5
  <2> QED  BY <2>4, <2>6 DEF ReviewInv
<1>6. ASSUME NEW w \in Writer, ReadHistory(w) PROVE ReviewInv'
  <2>1. PICK q : q = writer[w]  OBVIOUS
  <2>2. PICK at : at = IF trail[q.idx] = <<>> THEN "empty" ELSE "audited"  OBVIOUS
  <2>3. PICK p : p = [q EXCEPT !.at = at]  OBVIOUS
  <2>4. /\ q.at = "saved" /\ writer' = [writer EXCEPT ![w] = p]
        /\ UNCHANGED <<detected, review, trail, deaths, undone>>
    BY <1>6, <2>1, <2>2, <2>3 DEF ReadHistory
  <2>5. q \in Writing /\ q.record \in Review /\ (q.submit \/ q.record.disposition = "pending")
    BY <1>0, <2>1, <2>4 DEF Bearing
  <2>6. /\ p \in Writing /\ p.at = at /\ at \in {"empty", "audited"} /\ p.idx = q.idx
        /\ p.record = q.record /\ p.submit = q.submit /\ q.idx \in Index
    BY <2>2, <2>3, <2>5 DEF Writing
  <2>7. Bearing(p)  BY <2>5, <2>6 DEF Bearing
  <2>8. PICK more : more = trail[q.idx]  OBVIOUS
  <2>9. more \in Seq(Entry) /\ trail' = [trail EXCEPT ![q.idx] = more]
    BY <1>0, <2>4, <2>6, <2>8 DEF ReviewShape
  <2>10. Past(q, q.idx) /\ Past(p, q.idx)  BY <2>4, <2>6 DEF Past
  <2>11. \A d : WillTell(q, q.idx, d) => WillTell(p, q.idx, d)
    BY <2>4, <2>6, <2>10 DEF WillTell
  <2>12. trail[q.idx] = <<>> => p.at = "empty"  BY <2>2, <2>6
  <2>13. \A d : Told(trail[q.idx], d) => Told(more, d)  BY <2>8
  <2> QED
    BY <1>5, <2>1, <2>4, <2>6, <2>7, <2>8, <2>9, <2>10, <2>11, <2>12, <2>13, ZenonT(60)
<1>7. ASSUME NEW w \in Writer, AddCreated(w) PROVE ReviewInv'
  <2>1. PICK q : q = writer[w]  OBVIOUS
  <2>2. PICK e : e = [action |-> "created", disposition |-> q.record.disposition]  OBVIOUS
  <2>3. PICK p : p = [q EXCEPT !.at = "audited"]  OBVIOUS
  <2>4. /\ q.at = "empty" /\ writer' = [writer EXCEPT ![w] = p]
        /\ trail' = [trail EXCEPT ![q.idx] = Append(@, e)]
        /\ UNCHANGED <<detected, review, deaths, undone>>
    BY <1>7, <2>1, <2>2, <2>3 DEF AddCreated, Append1
  <2>5. q \in Writing /\ q.record \in Review /\ (q.submit \/ q.record.disposition = "pending")
    BY <1>0, <2>1, <2>4 DEF Bearing
  <2>6. /\ p \in Writing /\ p.at = "audited" /\ p.idx = q.idx
        /\ p.record = q.record /\ p.submit = q.submit /\ q.idx \in Index
    BY <2>3, <2>5 DEF Writing
  <2>7. Bearing(p)  BY <2>5, <2>6 DEF Bearing
  <2>8. e \in Entry /\ e.disposition = q.record.disposition
    BY <2>2, <2>5 DEF Entry, Review
  <2>9. PICK more : more = Append(trail[q.idx], e)  OBVIOUS
  <2>10. trail[q.idx] \in Seq(Entry)  BY <1>0, <2>6 DEF ReviewShape
  <2>11. /\ more \in Seq(Entry) /\ more # <<>>
         /\ \A d : Told(trail[q.idx], d) \/ e.disposition = d => Told(more, d)
    BY <2>8, <2>9, <2>10, EntryTells
  <2>12. trail' = [trail EXCEPT ![q.idx] = more]  BY <2>4, <2>9
  <2>13. Past(q, q.idx) /\ Past(p, q.idx)  BY <2>4, <2>6 DEF Past
  <2>14. Told(more, q.record.disposition)  BY <2>8, <2>11
  <2>15. \A d : WillTell(q, q.idx, d) => Told(more, d)  BY <2>14 DEF WillTell
  <2>16. q.at # "saved"  BY <2>4
  <2> QED
    BY <1>5, <2>1, <2>4, <2>6, <2>7, <2>11, <2>12, <2>13, <2>14, <2>15, <2>16
<1>8. ASSUME NEW w \in Writer, Audit(w) PROVE ReviewInv'
  <2>1. PICK q : q = writer[w]  OBVIOUS
  <2>2. PICK e : e = [action |-> Action(w), disposition |-> q.record.disposition]  OBVIOUS
  <2>3. /\ q.at = "audited" /\ writer' = [writer EXCEPT ![w] = NoWriting]
        /\ IF q.submit THEN trail' = [trail EXCEPT ![q.idx] = Append(@, e)]
           ELSE trail' = trail
        /\ UNCHANGED <<detected, review, deaths, undone>>
    BY <1>8, <2>1, <2>2 DEF Audit, Append1
  <2>4. q \in Writing /\ q.record \in Review /\ (q.submit \/ q.record.disposition = "pending")
    BY <1>0, <2>1, <2>3 DEF Bearing
  <2>5. q.idx \in Index /\ q.before \in Review \cup {NoReview}  BY <2>4 DEF Writing
  <2>6. Bearing(NoWriting) /\ NoWriting.at = "idle" /\ ~Past(NoWriting, q.idx)
    BY NoWritingIdle DEF Bearing, Past
  <2>7. Past(q, q.idx) /\ q.at # "saved"  BY <2>3 DEF Past
  <2>8. trail[q.idx] \in Seq(Entry)  BY <1>0, <2>5 DEF ReviewShape
  <2>9. CASE q.submit
    <3>1. Action(w) \in {"created", "box_corrected", "updated"} \cup Reviewed
      BY <2>1 DEF Action
    <3>2. e \in Entry /\ e.disposition = q.record.disposition
      BY <2>2, <2>4, <3>1 DEF Entry, Review
    <3>3. PICK more : more = Append(trail[q.idx], e)  OBVIOUS
    <3>4. /\ more \in Seq(Entry)
          /\ \A d : Told(trail[q.idx], d) \/ e.disposition = d => Told(more, d)
      BY <2>8, <3>2, <3>3, EntryTells
    <3>5. trail' = [trail EXCEPT ![q.idx] = more]  BY <2>3, <2>9, <3>3
    <3>6. Told(more, q.record.disposition)  BY <3>2, <3>4
    <3>7. \A d : WillTell(q, q.idx, d) => Told(more, d)  BY <3>6 DEF WillTell
    <3> QED  BY <1>5, <2>1, <2>3, <2>6, <2>7, <3>4, <3>5, <3>6, <3>7
  <2>10. CASE ~q.submit
    <3>1. PICK more : more = trail[q.idx]  OBVIOUS
    <3>2. more \in Seq(Entry) /\ trail' = [trail EXCEPT ![q.idx] = more]
      BY <1>0, <2>3, <2>8, <2>10, <3>1 DEF ReviewShape
    <3>3. \A d : ~WillTell(q, q.idx, d)  BY <2>3, <2>10 DEF WillTell
    <3> QED  BY <1>5, <2>1, <2>3, <2>6, <2>7, <3>1, <3>2, <3>3
  <2> QED  BY <2>9, <2>10
<1>9. ASSUME NEW w \in Writer, WriterDies(w) PROVE ReviewInv'
  <2>1. /\ writer' = [writer EXCEPT ![w] = NoWriting] /\ deaths' = deaths + 1
        /\ writer[w].at # "idle" /\ UNCHANGED <<detected, review, trail, undone>>
    BY <1>9 DEF WriterDies
  <2>2. deaths' \in Nat /\ deaths' > 0  BY <1>0, <2>1 DEF ReviewShape
  <2>3. Bearing(NoWriting) /\ NoWriting.at = "idle"  BY NoWritingIdle DEF Bearing
  <2>4. ReviewShape' /\ \A v \in Writer : Bearing(writer'[v])
    BY <1>0, <2>1, <2>2, <2>3, OneBears DEF ReviewShape
  <2>5. ASSUME NEW i \in Index
        PROVE  Traced(writer', review'[i], trail'[i], i, deaths' > 0 \/ i \in undone')
    <3>1. \A v \in Writer : Past(writer'[v], i) => Past(writer[v], i)
      BY <1>W, <2>1, <2>3 DEF Past
    <3> QED  BY <1>0, <2>1, <2>2, <3>1 DEF Traced
  <2> QED  BY <2>4, <2>5 DEF ReviewInv
<1>10. ASSUME NEW result \in [Index -> Detection \cup {NoDetection}], DetectAgain(result)
       PROVE  ReviewInv'
  <2>1. detected' = result /\ UNCHANGED <<review, trail, writer, deaths, undone>>
    BY <1>10 DEF DetectAgain
  <2>2. ReviewShape'  BY <1>0, <2>1 DEF ReviewShape
  <2> QED  BY <1>0, <2>1, <2>2, Zenon DEF ReviewInv
<1>11. CASE UNCHANGED reviewVars
  <2>1. UNCHANGED <<detected, review, trail, writer, deaths, undone>>
    BY <1>11 DEF reviewVars
  <2>2. ReviewShape'  BY <1>0, <2>1 DEF ReviewShape
  <2> QED  BY <1>0, <2>1, <2>2, Zenon DEF ReviewInv
<1> QED
  BY <1>2, <1>3, <1>4, <1>6, <1>7, <1>8, <1>9, <1>10, <1>11 DEF ReviewNext

(* For any number of requests and detections: while no request dies, the   *)
(* trail tells of every disposition, except of one a synchronisation put   *)
(* in the place of a submission (sqlite_review.py:178-232).                *)
THEOREM TrailAlwaysExplains == ReviewSpec => []TrailExplains
<1>1. ReviewInit => ReviewInv  BY ReviewInitially
<1>2. ReviewInv /\ [ReviewNext]_reviewVars => ReviewInv'  BY ReviewStep
<1>3. ReviewInv => TrailExplains  BY TrailFollows
<1> QED  BY <1>1, <1>2, <1>3, PTL DEF ReviewSpec

-----------------------------------------------------------------------------
(***************************************************************************)
(* The scan folders: what a creation keeps, whatever a removal and a crash *)
(* leave.                                                                  *)
(***************************************************************************)

FolderParts(f) == {f.images, f.picture, f.meta} \ {NoScan}

(* A folder without its images has at most metadata that a removal left,   *)
(* and one that no mishap touched is one creation's work, in its order.    *)
OneMaker(f, mishaps) ==
    /\ f.images = NoScan => f.picture = NoScan /\ f.meta \in {NoScan} \cup mishaps
    /\ FolderParts(f) \cap mishaps = {} =>
         f.picture \in {NoScan, f.images} /\ f.meta \in {NoScan, f.picture}

(* A creation finds in its folder what it has put there.                   *)
AtWork(p, f, c, mishaps) ==
    /\ p.at = "prepared" => f.images = c /\ f.picture = NoScan
    /\ p.at = "stitched" => f.images = c /\ f.picture = c
    /\ p.at \in {"prepared", "stitched"} => f.meta \in {NoScan} \cup mishaps

Filed(f, c) == f.images = c /\ f.picture = c /\ f.meta = c

Archived(file, c) == file # NoFile /\ file.scan = c /\ file.state = "whole"

Stored(p, f, file, c) == p.at = "done" => Filed(f, c) \/ Archived(file, c)

(* Only a whole tar is known to hold a scan. *)
WholeTar(file) == file # NoFile /\ file.scan # NoScan => file.state = "whole"

Begun(p) == p.at \notin {"looking", "chosen"}

(* The names a creation went past were those of creations begun before.    *)
PastTaken(creations, c) ==
    \A m \in Nat : 1 <= m /\ m < creations[c].name =>
        \E d \in Creator \ {c} : creations[d].name = m /\ Begun(creations[d])

Tarring == [at : {"idle", "open", "closed", "removing"}, name : Nat,
            remove : BOOLEAN, vanished : BOOLEAN]

StoreShape ==
    /\ folder \in [Name -> Folder]
    /\ tmp \in [Name -> File \cup {NoFile}]
    /\ archive \in [Name -> File \cup {NoFile}]
    /\ creator \in [Creator -> Creation]
    /\ archiver \in [Archiver -> Tarring]
    /\ \A a \in Archiver : archiver[a].at # "idle" => archiver[a].name \in Name
    /\ \A a \in Archiver : archiver[a].at = "removing" => archive[archiver[a].name] # NoFile

StoreInv ==
    /\ StoreShape
    /\ \A c \in Creator : PastTaken(creator, c)
    /\ \A n \in Name : \A c \in FolderParts(folder[n]) :
           creator[c].name = n /\ Begun(creator[c])
    /\ \A n \in Name : OneMaker(folder[n], harmed)
    /\ \A n \in Name : WholeTar(tmp[n]) /\ WholeTar(archive[n])
    /\ \A c \in Creator \ harmed : AtWork(creator[c], folder[creator[c].name], c, harmed)
    /\ \A c \in Creator \ (harmed \cup deleted) :
           Stored(creator[c], folder[creator[c].name], archive[creator[c].name], c)

(* By the pigeonhole principle: there is a name for every creation.        *)
LEMMA NamesSuffice ==
    ASSUME StoreShape, NEW c \in Creator, PastTaken(creator, c)
    PROVE  creator[c].name \in Name
<1>1. PICK n \in 1..(Cardinality(Creator) + 1) : n = creator[c].name
  BY DEF StoreShape, Creation
<1>2. IsFiniteSet(Creator) /\ Cardinality(Creator) \in Nat
  BY ScanAssumption, FS_CardinalityType
<1>3. n \in Nat \ {0}  BY <1>1, <1>2
<1>4. IsFiniteSet(Creator \ {c}) /\ Cardinality(Creator \ {c}) = Cardinality(Creator) - 1
  BY <1>2, FS_RemoveElement
<1> DEFINE g == [m \in 1..(n - 1) |-> CHOOSE d \in Creator \ {c} : creator[d].name = m]
<1>5. \A m \in 1..(n - 1) : g[m] \in Creator \ {c} /\ creator[g[m]].name = m
  <2> TAKE m \in 1..(n - 1)
  <2>1. \E d \in Creator \ {c} : creator[d].name = m
    BY <1>1, <1>3 DEF PastTaken
  <2> QED  BY <2>1
<1>6. g \in Injection(1..(n - 1), Creator \ {c})
  <2>1. g \in [1..(n - 1) -> Creator \ {c}]  BY <1>5
  <2>2. \A l, m \in 1..(n - 1) : g[l] = g[m] => l = m  BY <1>5
  <2> QED  BY <2>1, <2>2 DEF Injection, IsInjective
<1>7. Cardinality(1..(n - 1)) <= Cardinality(Creator) - 1
  BY <1>4, <1>6, FS_Injection
<1>8. Cardinality(1..(n - 1)) = n - 1
  BY <1>3, FS_Interval
<1> QED  BY <1>1, <1>2, <1>3, <1>7, <1>8 DEF Name

LEMMA StoreFollows == StoreInv => ScanKept
<1> SUFFICES ASSUME StoreInv PROVE ScanKept
  OBVIOUS
<1>1. ASSUME NEW c \in Creator, creator[c].at = "done", c \notin deleted \cup harmed
      PROVE  \/ /\ folder[creator[c].name].picture = c
                /\ folder[creator[c].name].meta = c
             \/ /\ archive[creator[c].name] # NoFile
                /\ archive[creator[c].name].scan = c
                /\ archive[creator[c].name].state = "whole"
  BY <1>1 DEF StoreInv, Stored, Filed, Archived
<1>2. ASSUME NEW n \in Name, Visible(n), Inside(n) \cap harmed = {}
      PROVE  folder[n].picture = folder[n].meta
  BY <1>2 DEF StoreInv, OneMaker, FolderParts, Inside, Visible
<1> QED  BY <1>1, <1>2 DEF ScanKept

LEMMA StoreInitially == ScanInit => StoreInv
<1> SUFFICES ASSUME ScanInit PROVE StoreInv
  OBVIOUS
<1>1. /\ \A n \in Name : folder[n] = NoFolder /\ tmp[n] = NoFile /\ archive[n] = NoFile
      /\ \A c \in Creator : creator[c].at = "looking" /\ creator[c].name = 1
  BY DEF ScanInit
<1>2. StoreShape
  <2>1. Cardinality(Creator) \in Nat  BY ScanAssumption, FS_CardinalityType
  <2>2. 1 \in 1..(Cardinality(Creator) + 1)  BY <2>1
  <2>3. creator \in [Creator -> Creation]  BY <2>2 DEF ScanInit, Creation
  <2>4. folder \in [Name -> Folder]
    BY DEF ScanInit, Folder, NoFolder, Owner
  <2>5. archiver \in [Archiver -> Tarring] /\ \A a \in Archiver : archiver[a].at = "idle"
    BY DEF ScanInit, NoArchiving, Tarring
  <2> QED  BY <2>3, <2>4, <2>5 DEF ScanInit, StoreShape
<1>3. \A c \in Creator : PastTaken(creator, c)  BY <1>1 DEF PastTaken
<1>4. \A n \in Name : FolderParts(folder[n]) = {} /\ OneMaker(folder[n], harmed)
  BY <1>1 DEF FolderParts, OneMaker, NoFolder
<1>5. \A n \in Name : WholeTar(tmp[n]) /\ WholeTar(archive[n])  BY <1>1 DEF WholeTar
<1> QED  BY <1>1, <1>2, <1>3, <1>4, <1>5 DEF StoreInv, AtWork, Stored

(* A mishap more excuses more. *)
LEMMA MishapsExcuse ==
    ASSUME NEW mishaps, NEW more, mishaps \subseteq more, NEW f, NEW p, NEW c
    PROVE  /\ OneMaker(f, mishaps) => OneMaker(f, more)
           /\ AtWork(p, f, c, mishaps) => AtWork(p, f, c, more)
BY DEF OneMaker, AtWork

(* The steps of an archiving that leave the folders alone. *)
LEMMA TarsMove ==
    ASSUME StoreInv, StoreShape', UNCHANGED <<folder, creator, deleted>>,
           harmed \subseteq harmed',
           \A n \in Name : WholeTar(tmp'[n]) /\ WholeTar(archive'[n]),
           \A n \in Name : \A c \in Creator \ harmed' :
               Archived(archive[n], c) => Archived(archive'[n], c)
    PROVE  StoreInv'
<1>1. \A c \in Creator : PastTaken(creator, c) /\ creator[c].name \in Name
  BY NamesSuffice DEF StoreInv
<1>2. \A n \in Name : OneMaker(folder[n], harmed')
  BY MishapsExcuse DEF StoreInv
<1>3. \A c \in Creator \ harmed' : AtWork(creator[c], folder[creator[c].name], c, harmed')
  BY MishapsExcuse DEF StoreInv
<1>4. \A c \in Creator \ (harmed' \cup deleted) :
         Stored(creator[c], folder[creator[c].name], archive'[creator[c].name], c)
  BY <1>1 DEF StoreInv, Stored
<1>5. \A n \in Name : \A c \in FolderParts(folder[n]) :
         creator[c].name = n /\ Begun(creator[c])
  BY DEF StoreInv
<1> QED  BY <1>1, <1>2, <1>3, <1>4, <1>5 DEF StoreInv

(* A folder loses what it has, and its creations are set apart. *)
LEMMA FolderGoes ==
    ASSUME StoreInv, StoreShape', NEW n \in Name, NEW f \in Folder,
           folder' = [folder EXCEPT ![n] = f],
           UNCHANGED <<creator, tmp, archive>>,
           harmed \subseteq harmed', deleted \subseteq deleted',
           Building(n) \subseteq harmed',
           FolderParts(f) \subseteq FolderParts(folder[n]), OneMaker(f, harmed'),
           \A c \in Creator \ (harmed' \cup deleted') :
               Filed(folder[n], c) => Archived(archive[n], c)
    PROVE  StoreInv'
<1>1. \A c \in Creator : PastTaken(creator, c) /\ creator[c].name \in Name
  BY NamesSuffice DEF StoreInv
<1>2. /\ folder'[n] = f
      /\ \A m \in Name : m # n => folder'[m] = folder[m]
  BY DEF StoreInv, StoreShape
<1>3. \A m \in Name : OneMaker(folder'[m], harmed')
  BY <1>2, MishapsExcuse DEF StoreInv
<1>4. ASSUME NEW c \in Creator \ harmed'
      PROVE  AtWork(creator[c], folder'[creator[c].name], c, harmed')
  <2>1. CASE creator[c].name = n
    <3>1. creator[c].at \notin {"prepared", "stitched"}  BY <1>4, <2>1 DEF Building
    <3> QED  BY <3>1 DEF AtWork
  <2>2. CASE creator[c].name # n
    BY <1>1, <1>2, <1>4, <2>2, MishapsExcuse DEF StoreInv
  <2> QED  BY <2>1, <2>2
<1>5. ASSUME NEW c \in Creator \ (harmed' \cup deleted')
      PROVE  Stored(creator[c], folder'[creator[c].name], archive[creator[c].name], c)
  <2>1. Stored(creator[c], folder[creator[c].name], archive[creator[c].name], c)
    BY <1>5 DEF StoreInv
  <2>2. CASE creator[c].name = n  BY <1>5, <2>1, <2>2 DEF Stored
  <2>3. CASE creator[c].name # n  BY <1>1, <1>2, <2>1, <2>3
  <2> QED  BY <2>2, <2>3
<1>6. \A m \in Name : \A c \in FolderParts(folder'[m]) :
         creator[c].name = m /\ Begun(creator[c])
  <2>1. ASSUME NEW m \in Name, NEW c \in FolderParts(folder'[m])
        PROVE  creator[c].name = m /\ Begun(creator[c])
    <3>1. c \in FolderParts(folder[m])  BY <1>2, <2>1
    <3> QED  BY <3>1 DEF StoreInv
  <2> QED  BY <2>1
<1>7. \A m \in Name : WholeTar(tmp[m]) /\ WholeTar(archive[m])  BY DEF StoreInv
<1> QED  BY <1>1, <1>3, <1>4, <1>5, <1>6, <1>7 DEF StoreInv

(* A creation that has its name moves on in the folder of that name. *)
LEMMA CreationMoves ==
    ASSUME StoreInv, StoreShape', NEW c \in Creator, NEW n \in Name, NEW f \in Folder,
           NEW p \in Creation,
           n = creator[c].name, p.name = n, Begun(p),
           creator[c].at \notin {"done", "failed"},
           folder' = [folder EXCEPT ![n] = f], creator' = [creator EXCEPT ![c] = p],
           UNCHANGED <<tmp, archive, deleted>>, harmed \subseteq harmed',
           FolderParts(f) \subseteq FolderParts(folder[n]) \cup {c},
           OneMaker(f, harmed'),
           c \notin harmed' => /\ AtWork(p, f, c, harmed')
                               /\ p.at = "done" => Filed(f, c),
           \A d \in Creator \ (harmed' \cup {c}) :
               /\ AtWork(creator[d], folder[n], d, harmed) /\ creator[d].name = n
                    => AtWork(creator[d], f, d, harmed')
               /\ Filed(folder[n], d) => Filed(f, d)
    PROVE  StoreInv'
<1>1. \A d \in Creator : PastTaken(creator, d) /\ creator[d].name \in Name
  BY NamesSuffice DEF StoreInv
<1>2. /\ folder'[n] = f
      /\ \A m \in Name : m # n => folder'[m] = folder[m]
      /\ creator'[c] = p
      /\ \A d \in Creator : d # c => creator'[d] = creator[d]
      /\ \A d \in Creator : creator'[d].name = creator[d].name
      /\ \A d \in Creator : Begun(creator[d]) => Begun(creator'[d])
  BY DEF StoreInv, StoreShape
<1>3. \A m \in Name : OneMaker(folder'[m], harmed')
  BY <1>2, MishapsExcuse DEF StoreInv
<1>4. ASSUME NEW d \in Creator \ harmed'
      PROVE  AtWork(creator'[d], folder'[creator'[d].name], d, harmed')
  <2>1. AtWork(creator[d], folder[creator[d].name], d, harmed)  BY <1>4 DEF StoreInv
  <2>2. CASE d = c  BY <1>2, <1>4, <2>2
  <2>3. CASE d # c /\ creator[d].name = n  BY <1>2, <1>4, <2>1, <2>3
  <2>4. CASE d # c /\ creator[d].name # n
    BY <1>1, <1>2, <1>4, <2>1, <2>4, MishapsExcuse
  <2> QED  BY <2>2, <2>3, <2>4
<1>5. ASSUME NEW d \in Creator \ (harmed' \cup deleted)
      PROVE  Stored(creator'[d], folder'[creator'[d].name], archive[creator'[d].name], d)
  <2>1. Stored(creator[d], folder[creator[d].name], archive[creator[d].name], d)
    BY <1>5 DEF StoreInv
  <2>2. CASE d = c  BY <1>2, <1>5, <2>2 DEF Stored
  <2>3. CASE d # c /\ creator[d].name = n  BY <1>2, <1>5, <2>1, <2>3 DEF Stored
  <2>4. CASE d # c /\ creator[d].name # n  BY <1>1, <1>2, <2>1, <2>4
  <2> QED  BY <2>2, <2>3, <2>4
<1>6. \A m \in Name : \A d \in FolderParts(folder'[m]) :
         creator'[d].name = m /\ Begun(creator'[d])
  <2>1. ASSUME NEW m \in Name, NEW d \in FolderParts(folder'[m])
        PROVE  creator'[d].name = m /\ Begun(creator'[d])
    <3>1. \/ d \in FolderParts(folder[m])
          \/ d = c /\ m = n
      BY <1>2, <2>1
    <3>2. CASE d = c /\ m = n  BY <1>2, <3>2
    <3>3. CASE d \in FolderParts(folder[m])
      <4>1. d \in Creator
        <5>1. folder[m] \in Folder  BY DEF StoreInv, StoreShape
        <5> QED  BY <3>3, <5>1 DEF FolderParts, Folder, Owner
      <4>2. creator[d].name = m /\ Begun(creator[d])  BY <3>3 DEF StoreInv
      <4> QED  BY <1>2, <4>1, <4>2
    <3> QED  BY <3>1, <3>2, <3>3
  <2> QED  BY <2>1
<1>7. \A m \in Name : WholeTar(tmp[m]) /\ WholeTar(archive[m])  BY DEF StoreInv
<1>8. \A d \in Creator : PastTaken(creator', d)
  BY <1>1, <1>2 DEF PastTaken
<1> QED  BY <1>3, <1>4, <1>5, <1>6, <1>7, <1>8 DEF StoreInv

LEMMA StoreStep == StoreInv /\ [ScanNext]_scanVars => StoreInv'
<1> SUFFICES ASSUME StoreInv, [ScanNext]_scanVars PROVE StoreInv'
  OBVIOUS
<1>0. /\ folder \in [Name -> Folder]
      /\ tmp \in [Name -> File \cup {NoFile}]
      /\ archive \in [Name -> File \cup {NoFile}]
      /\ creator \in [Creator -> Creation]
      /\ archiver \in [Archiver -> Tarring]
      /\ \A a \in Archiver : archiver[a].at # "idle" => archiver[a].name \in Name
      /\ \A a \in Archiver : archiver[a].at = "removing" => archive[archiver[a].name] # NoFile
      /\ \A c \in Creator : PastTaken(creator, c) /\ creator[c].name \in Name
      /\ \A m \in Name : \A c \in FolderParts(folder[m]) :
             creator[c].name = m /\ Begun(creator[c])
      /\ \A m \in Name : OneMaker(folder[m], harmed)
      /\ \A m \in Name : WholeTar(tmp[m]) /\ WholeTar(archive[m])
      /\ \A c \in Creator \ harmed : AtWork(creator[c], folder[creator[c].name], c, harmed)
      /\ \A c \in Creator \ (harmed \cup deleted) :
             Stored(creator[c], folder[creator[c].name], archive[creator[c].name], c)
  BY NamesSuffice DEF StoreInv, StoreShape
<1>V. ASSUME NEW n \in Name
      PROVE  /\ Vanish(n) \in [Archiver -> Tarring]
             /\ \A a \in Archiver : /\ Vanish(n)[a].at = archiver[a].at
                                    /\ Vanish(n)[a].name = archiver[a].name
  <2>1. \A q \in Tarring : LET r == [q EXCEPT !.vanished = TRUE]
                           IN  r \in Tarring /\ r.at = q.at /\ r.name = q.name
    BY DEF Tarring
  <2>2. \A a \in Archiver : archiver[a] \in Tarring  BY <1>0
  <2> QED  BY <2>1, <2>2 DEF Vanish
<1>P. NoFolder \in Folder /\ FolderParts(NoFolder) = {} /\ \A mishaps : OneMaker(NoFolder, mishaps)
  BY DEF NoFolder, Folder, Owner, FolderParts, OneMaker
<1>I. \A n : Inside(n) = FolderParts(folder[n])  BY DEF Inside, FolderParts
(* The name looked at was that of a creation begun before. *)
<1>1. ASSUME NEW c \in Creator, LookUp(c) PROVE StoreInv'
  <2>1. PICK n \in Name : n = creator[c].name  BY <1>0
  <2>2. PICK q \in Creation : q = creator[c]  BY <1>0
  <2>3. q.at = "looking" /\ q.name = n
        /\ UNCHANGED <<folder, tmp, archive, archiver, deleted, harmed>>
    BY <1>1, <2>1, <2>2 DEF LookUp
  <2>4. Cardinality(Creator) \in Nat  BY ScanAssumption, FS_CardinalityType
  <2>5. n \in Nat /\ n + 1 \in 1..(Cardinality(Creator) + 1)
    BY <2>4 DEF Name
  <2>6. PICK p \in Creation :
          /\ creator' = [creator EXCEPT ![c] = p]
          /\ \/ Visible(n) /\ p.at = "looking" /\ p.name = n + 1
             \/ p.at = "chosen" /\ p.name = n
    <3>1. CASE Visible(n)
      <4>1. PICK p : p = [q EXCEPT !.name = n + 1]  OBVIOUS
      <4>2. p \in Creation /\ p.at = "looking" /\ p.name = n + 1
        BY <2>3, <2>5, <4>1 DEF Creation
      <4>3. creator' = [creator EXCEPT ![c] = p]
        BY <1>1, <2>1, <2>2, <3>1, <4>1 DEF LookUp
      <4> QED  BY <3>1, <4>2, <4>3
    <3>2. CASE ~Visible(n)
      <4>1. PICK p : p = [q EXCEPT !.at = "chosen"]  OBVIOUS
      <4>2. p \in Creation /\ p.at = "chosen" /\ p.name = n
        BY <2>3, <4>1 DEF Creation
      <4>3. creator' = [creator EXCEPT ![c] = p]
        BY <1>1, <2>1, <2>2, <3>2, <4>1 DEF LookUp
      <4> QED  BY <4>2, <4>3
    <3> QED  BY <3>1, <3>2
  <2>7. /\ creator' \in [Creator -> Creation]
        /\ creator'[c] = p
        /\ \A d \in Creator : d # c => creator'[d] = creator[d]
    BY <1>0, <2>6
  <2>8. StoreShape'  BY <1>0, <2>3, <2>7 DEF StoreShape
  <2>9. ~Begun(creator[c]) /\ ~Begun(p)  BY <2>2, <2>3, <2>6 DEF Begun
  <2>10. ASSUME NEW d \in Creator, NEW m \in Nat, 1 <= m, m < creator'[d].name
         PROVE  \E e \in Creator \ {d} : creator'[e].name = m /\ Begun(creator'[e])
    <3>1. \/ m < creator[d].name
          \/ d = c /\ m = n /\ Visible(n)
      BY <2>1, <2>5, <2>6, <2>7, <2>10
    <3>2. CASE m < creator[d].name
      <4>1. PICK e \in Creator \ {d} : creator[e].name = m /\ Begun(creator[e])
        BY <1>0, <2>10, <3>2 DEF PastTaken
      <4>2. e # c  BY <2>9, <4>1
      <4> QED  BY <2>7, <4>1, <4>2
    <3>3. CASE d = c /\ m = n /\ Visible(n)
      <4>1. PICK e : e = folder[n].picture  OBVIOUS
      <4>2. e \in Creator /\ e \in FolderParts(folder[n])
        BY <1>0, <3>3, <4>1 DEF Visible, Folder, Owner, FolderParts
      <4>3. creator[e].name = n /\ Begun(creator[e])  BY <1>0, <4>2
      <4>4. e # c  BY <2>9, <4>3
      <4> QED  BY <2>7, <3>3, <4>2, <4>3, <4>4
    <3> QED  BY <3>1, <3>2, <3>3
  <2>11. \A d \in Creator : PastTaken(creator', d)  BY <2>10 DEF PastTaken
  <2>12. \A m \in Name : \A d \in FolderParts(folder[m]) :
            creator'[d].name = m /\ Begun(creator'[d])
    <3>1. ASSUME NEW m \in Name, NEW d \in FolderParts(folder[m])
          PROVE  creator'[d].name = m /\ Begun(creator'[d])
      <4>1. d \in Creator  BY <1>0, <3>1 DEF FolderParts, Folder, Owner
      <4>2. creator[d].name = m /\ Begun(creator[d])  BY <1>0, <3>1
      <4>3. d # c  BY <2>9, <4>2
      <4> QED  BY <2>7, <4>1, <4>2, <4>3
    <3> QED  BY <3>1
  <2>13. \A d \in Creator \ harmed :
            AtWork(creator'[d], folder[creator'[d].name], d, harmed)
    BY <1>0, <2>6, <2>7 DEF AtWork
  <2>14. \A d \in Creator \ (harmed \cup deleted) :
            Stored(creator'[d], folder[creator'[d].name], archive[creator'[d].name], d)
    BY <1>0, <2>6, <2>7 DEF Stored
  <2> QED  BY <1>0, <2>3, <2>8, <2>11, <2>12, <2>13, <2>14 DEF StoreInv
(* What the steps of a creation have in common. *)
<1>C. ASSUME NEW c \in Creator, NEW q \in Creation, q = creator[c],
             q.at \in {"chosen", "prepared", "stitched"},
             NEW at \in {"prepared", "stitched", "done", "failed"},
             creator' = [creator EXCEPT ![c].at = at],
             UNCHANGED <<tmp, archive>>
      PROVE  \E p \in Creation : /\ creator' = [creator EXCEPT ![c] = p]
                                 /\ p.at = at /\ p.name = q.name /\ Begun(p)
  <2>1. PICK p : p = [q EXCEPT !.at = at]  OBVIOUS
  <2>2. p \in Creation /\ p.at = at /\ p.name = q.name
    BY <2>1 DEF Creation
  <2>3. creator' = [creator EXCEPT ![c] = p]  BY <1>C, <2>1
  <2> QED  BY <2>2, <2>3 DEF Begun
<1>2. ASSUME NEW c \in Creator, Prepare(c) PROVE StoreInv'
  <2>1. PICK n \in Name : n = creator[c].name  BY <1>0
  <2>2. PICK q \in Creation : q = creator[c]  BY <1>0
  <2>3. PICK g \in Folder : g = folder[n]  BY <1>0
  <2>4. /\ q.at = "chosen" /\ q.name = n
        /\ UNCHANGED <<tmp, archive, archiver, deleted, harmed>>
    BY <1>2, <2>1, <2>2 DEF Prepare
  <2>5. CASE g.images # NoScan
    <3>1. creator' = [creator EXCEPT ![c].at = "failed"] /\ folder' = folder
      BY <1>2, <2>1, <2>3, <2>5 DEF Prepare
    <3>2. PICK p \in Creation : /\ creator' = [creator EXCEPT ![c] = p]
                                /\ p.at = "failed" /\ p.name = q.name /\ Begun(p)
      BY <1>C, <2>2, <2>4, <3>1
    <3>3. folder' = [folder EXCEPT ![n] = g]  BY <1>0, <2>3, <3>1
    <3>4. StoreShape'  BY <1>0, <2>4, <3>1, <3>2 DEF StoreShape
    <3>5. AtWork(p, g, c, harmed)  BY <3>2 DEF AtWork
    <3>6. OneMaker(g, harmed)  BY <1>0, <2>3
    <3> QED
      BY <2>1, <2>2, <2>3, <2>4, <3>2, <3>3, <3>4, <3>5, <3>6, CreationMoves
  <2>6. CASE g.images = NoScan
    <3>1. /\ creator' = [creator EXCEPT ![c].at = "prepared"]
          /\ folder' = [folder EXCEPT ![n].images = c]
      BY <1>2, <2>1, <2>3, <2>6 DEF Prepare
    <3>2. PICK p \in Creation : /\ creator' = [creator EXCEPT ![c] = p]
                                /\ p.at = "prepared" /\ p.name = q.name /\ Begun(p)
      BY <1>C, <2>2, <2>4, <3>1
    <3>3. PICK f : f = [g EXCEPT !.images = c]  OBVIOUS
    <3>4. f \in Folder /\ f.images = c /\ f.picture = g.picture /\ f.meta = g.meta
      BY <3>3 DEF Folder, Owner
    <3>5. folder' = [folder EXCEPT ![n] = f]  BY <2>3, <3>1, <3>3
    <3>6. StoreShape'  BY <1>0, <2>4, <3>2, <3>4, <3>5 DEF StoreShape
    <3>7. g.picture = NoScan /\ g.meta \in {NoScan} \cup harmed
      BY <1>0, <2>3, <2>6 DEF OneMaker
    <3>8. AtWork(p, f, c, harmed)  BY <3>2, <3>4, <3>7 DEF AtWork
    <3>9. OneMaker(f, harmed)
      BY <3>4, <3>7, ScanAssumption DEF OneMaker, FolderParts
    <3>10. FolderParts(f) \subseteq FolderParts(g) \cup {c}
      BY <3>4 DEF FolderParts
    <3>11. \A d \in Creator \ harmed :
             /\ AtWork(creator[d], g, d, harmed) => creator[d].at \notin {"prepared", "stitched"}
             /\ ~Filed(g, d)
      BY <2>6, ScanAssumption DEF AtWork, Filed
    <3>12. \A d \in Creator \ harmed :
             AtWork(creator[d], g, d, harmed) => AtWork(creator[d], f, d, harmed)
      BY <3>11 DEF AtWork
    <3> QED
      BY <2>1, <2>2, <2>3, <2>4, <3>2, <3>4, <3>5, <3>6, <3>8, <3>9, <3>10, <3>11, <3>12,
         CreationMoves
  <2> QED  BY <2>5, <2>6
(* Nobody unharmed shares a folder with a creation at work in it. *)
<1>W. ASSUME NEW c \in Creator, NEW n \in Name, n = creator[c].name, HarmBy(c, n),
             creator[c].at \in {"prepared", "stitched"}
      PROVE  /\ harmed \subseteq harmed'
             /\ c \notin harmed' => harmed' = harmed /\ AtWork(creator[c], folder[n], c, harmed)
             /\ \A d \in Creator \ (harmed' \cup {c}) :
                   /\ AtWork(creator[d], folder[n], d, harmed)
                        => creator[d].at \notin {"prepared", "stitched"}
                   /\ ~Filed(folder[n], d)
  <2>1. CASE c \in harmed
    <3>1. harmed' = harmed \cup FolderParts(folder[n])  BY <1>W, <1>I, <2>1 DEF HarmBy
    <3>2. \A d \in Creator \ harmed' : folder[n].images # d
      BY <3>1, ScanAssumption DEF FolderParts
    <3> QED  BY <2>1, <3>1, <3>2 DEF AtWork, Filed
  <2>2. CASE c \notin harmed
    <3>1. harmed' = harmed  BY <1>W, <2>2 DEF HarmBy
    <3>2. AtWork(creator[c], folder[n], c, harmed)  BY <1>0, <1>W, <2>2
    <3>3. folder[n].images = c  BY <1>W, <3>2 DEF AtWork
    <3> QED  BY <3>1, <3>2, <3>3 DEF AtWork, Filed
  <2> QED  BY <2>1, <2>2
<1>3. ASSUME NEW c \in Creator, Stitch(c) PROVE StoreInv'
  <2>1. PICK n \in Name : n = creator[c].name  BY <1>0
  <2>2. PICK q \in Creation : q = creator[c]  BY <1>0
  <2>3. PICK g \in Folder : g = folder[n]  BY <1>0
  <2>4. /\ q.at = "prepared" /\ q.name = n /\ HarmBy(c, n)
        /\ creator' = [creator EXCEPT ![c].at = "stitched"]
        /\ UNCHANGED <<tmp, archive, archiver, deleted>>
    BY <1>3, <2>1, <2>2 DEF Stitch
  <2>5. PICK p \in Creation : /\ creator' = [creator EXCEPT ![c] = p]
                              /\ p.at = "stitched" /\ p.name = q.name /\ Begun(p)
    BY <1>C, <2>2, <2>4
  <2>6. PICK images \in Owner : images = IF g.images = NoScan THEN c ELSE g.images
    BY DEF Folder, Owner
  <2>7. PICK f : f = [g EXCEPT !.images = images, !.picture = c]  OBVIOUS
  <2>8. f \in Folder /\ f.images = images /\ f.picture = c /\ f.meta = g.meta
    BY <2>7 DEF Folder, Owner
  <2>9. folder' = [folder EXCEPT ![n] = f]
    <3>1. folder' = [folder EXCEPT ![n].images = IF @ = NoScan THEN c ELSE @, ![n].picture = c]
      BY <1>3, <2>1 DEF Stitch
    <3> QED  BY <1>0, <2>3, <2>6, <2>7, <3>1
  <2>10. StoreShape'  BY <1>0, <2>4, <2>5, <2>8, <2>9 DEF StoreShape
  <2>11. FolderParts(f) \subseteq FolderParts(g) \cup {c}
    BY <2>6, <2>8 DEF FolderParts
  <2>12. /\ harmed \subseteq harmed'
         /\ c \notin harmed' => harmed' = harmed /\ AtWork(q, g, c, harmed)
         /\ \A d \in Creator \ (harmed' \cup {c}) :
               /\ AtWork(creator[d], g, d, harmed)
                    => creator[d].at \notin {"prepared", "stitched"}
               /\ ~Filed(g, d)
    BY <1>W, <2>1, <2>2, <2>3, <2>4
  <2>13. c \notin harmed' => AtWork(p, f, c, harmed')
    BY <2>4, <2>5, <2>6, <2>8, <2>12, ScanAssumption DEF AtWork
  <2>14. OneMaker(f, harmed')
    <3>1. f.images # NoScan  BY <2>6, <2>8, ScanAssumption
    <3>2. CASE c \in harmed'
      <4>1. c \in FolderParts(f)  BY <2>8, ScanAssumption DEF FolderParts
      <4> QED  BY <3>1, <3>2, <4>1 DEF OneMaker
    <3>3. CASE c \notin harmed'
      <4>1. f.images = c /\ f.meta \in {NoScan} \cup harmed'
        BY <2>5, <2>13, <3>3 DEF AtWork
      <4>2. FolderParts(f) \cap harmed' = {} => f.meta = NoScan
        BY <4>1 DEF FolderParts
      <4> QED  BY <2>8, <3>1, <4>1, <4>2 DEF OneMaker
    <3> QED  BY <3>2, <3>3
  <2>15. \A d \in Creator \ (harmed' \cup {c}) :
            AtWork(creator[d], g, d, harmed) => AtWork(creator[d], f, d, harmed')
    BY <2>12 DEF AtWork
  <2>16. creator[c].at \notin {"done", "failed"} /\ p.name = n /\ p.at # "done"
    BY <2>2, <2>4, <2>5
  <2> QED
    BY <2>1, <2>3, <2>4, <2>5, <2>8, <2>9, <2>10, <2>11, <2>12, <2>13, <2>14, <2>15, <2>16,
       CreationMoves
<1>4. ASSUME NEW c \in Creator, SaveScan(c) PROVE StoreInv'
  <2>1. PICK n \in Name : n = creator[c].name  BY <1>0
  <2>2. PICK q \in Creation : q = creator[c]  BY <1>0
  <2>3. PICK g \in Folder : g = folder[n]  BY <1>0
  <2>4. /\ q.at = "stitched" /\ q.name = n /\ HarmBy(c, n)
        /\ UNCHANGED <<tmp, archive, archiver, deleted>>
    BY <1>4, <2>1, <2>2 DEF SaveScan
  <2>5. /\ harmed \subseteq harmed'
        /\ c \notin harmed' => harmed' = harmed /\ AtWork(q, g, c, harmed)
        /\ \A d \in Creator \ (harmed' \cup {c}) :
              /\ AtWork(creator[d], g, d, harmed)
                   => creator[d].at \notin {"prepared", "stitched"}
              /\ ~Filed(g, d)
    BY <1>W, <2>1, <2>2, <2>3, <2>4
  <2>6. creator[c].at \notin {"done", "failed"}  BY <2>2, <2>4
  <2>7. CASE g # NoFolder
    <3>1. /\ creator' = [creator EXCEPT ![c].at = "done"]
          /\ folder' = [folder EXCEPT ![n].meta = c]
      BY <1>4, <2>1, <2>3, <2>7 DEF SaveScan, Exists
    <3>2. PICK p \in Creation : /\ creator' = [creator EXCEPT ![c] = p]
                                /\ p.at = "done" /\ p.name = q.name /\ Begun(p)
      BY <1>C, <2>2, <2>4, <3>1
    <3>3. PICK f : f = [g EXCEPT !.meta = c]  OBVIOUS
    <3>4. f \in Folder /\ f.images = g.images /\ f.picture = g.picture /\ f.meta = c
      BY <3>3 DEF Folder, Owner
    <3>5. folder' = [folder EXCEPT ![n] = f]  BY <2>3, <3>1, <3>3
    <3>6. StoreShape'  BY <1>0, <2>4, <3>2, <3>4, <3>5 DEF StoreShape
    <3>7. FolderParts(f) \subseteq FolderParts(g) \cup {c}
      BY <3>4 DEF FolderParts
    <3>8. AtWork(p, f, c, harmed')  BY <3>2 DEF AtWork
    <3>9. c \notin harmed' => Filed(f, c)
      BY <2>4, <2>5, <3>4 DEF AtWork, Filed
    <3>10. OneMaker(f, harmed')
      <4>1. CASE c \in harmed'
        <5>1. c \in FolderParts(f)  BY <3>4, ScanAssumption DEF FolderParts
        <5>2. g.images = NoScan => g.picture = NoScan  BY <1>0, <2>3 DEF OneMaker
        <5> QED  BY <3>4, <4>1, <5>1, <5>2 DEF OneMaker
      <4>2. CASE c \notin harmed'
        BY <3>9, <4>2, ScanAssumption DEF Filed, OneMaker
      <4> QED  BY <4>1, <4>2
    <3>11. \A d \in Creator \ (harmed' \cup {c}) :
              AtWork(creator[d], g, d, harmed) => AtWork(creator[d], f, d, harmed')
      BY <2>5 DEF AtWork
    <3> QED
      BY <2>1, <2>2, <2>3, <2>4, <2>5, <2>6, <3>2, <3>4, <3>5, <3>6, <3>7, <3>8, <3>9, <3>10,
         <3>11, CreationMoves
  <2>8. CASE g = NoFolder
    <3>1. /\ creator' = [creator EXCEPT ![c].at = "failed"]
          /\ folder' = folder
      BY <1>4, <2>1, <2>3, <2>8 DEF SaveScan, Exists
    <3>2. PICK p \in Creation : /\ creator' = [creator EXCEPT ![c] = p]
                                /\ p.at = "failed" /\ p.name = q.name /\ Begun(p)
      BY <1>C, <2>2, <2>4, <3>1
    <3>3. folder' = [folder EXCEPT ![n] = g]  BY <1>0, <2>3, <3>1
    <3>4. StoreShape'  BY <1>0, <2>4, <3>1, <3>2 DEF StoreShape
    <3>5. AtWork(p, g, c, harmed')  BY <3>2 DEF AtWork
    <3>6. OneMaker(g, harmed')  BY <1>P, <2>8
    <3>7. \A d \in Creator \ (harmed' \cup {c}) :
              AtWork(creator[d], g, d, harmed) => AtWork(creator[d], g, d, harmed')
      BY <2>5 DEF AtWork
    <3> QED
      BY <2>1, <2>2, <2>3, <2>4, <2>5, <2>6, <3>2, <3>3, <3>4, <3>5, <3>6, <3>7, CreationMoves
  <2> QED  BY <2>7, <2>8
<1>5. ASSUME NEW c \in Creator, CreationFails(c) PROVE StoreInv'
  <2>1. PICK n \in Name : n = creator[c].name  BY <1>0
  <2>2. PICK q \in Creation : q = creator[c]  BY <1>0
  <2>3. PICK f \in Folder : f = NoFolder  BY <1>P
  <2>4. /\ q.at \in {"prepared", "stitched"} /\ q.name = n /\ HarmBy(c, n)
        /\ creator' = [creator EXCEPT ![c].at = "failed"]
        /\ folder' = [folder EXCEPT ![n] = f]
        /\ archiver' = Vanish(n)
        /\ UNCHANGED <<tmp, archive, deleted>>
    BY <1>5, <2>1, <2>2, <2>3 DEF CreationFails
  <2>5. PICK p \in Creation : /\ creator' = [creator EXCEPT ![c] = p]
                              /\ p.at = "failed" /\ p.name = q.name /\ Begun(p)
    BY <1>C, <2>2, <2>4, ZenonT(60)
  <2>6. /\ archiver' \in [Archiver -> Tarring]
        /\ \A a \in Archiver : archiver'[a].at # "idle" => archiver'[a].name \in Name
        /\ \A a \in Archiver : archiver'[a].at = "removing" => archive[archiver'[a].name] # NoFile
    BY <1>0, <1>V, <2>4
  <2>7. StoreShape'  BY <1>0, <2>4, <2>5, <2>6 DEF StoreShape
  <2>8. /\ harmed \subseteq harmed'
        /\ \A d \in Creator \ (harmed' \cup {c}) :
              /\ AtWork(creator[d], folder[n], d, harmed)
                   => creator[d].at \notin {"prepared", "stitched"}
              /\ ~Filed(folder[n], d)
    BY <1>W, <2>1, <2>2, <2>4
  <2>9. AtWork(p, f, c, harmed')  BY <2>5 DEF AtWork
  <2>10. \A d \in Creator \ (harmed' \cup {c}) :
            AtWork(creator[d], folder[n], d, harmed) => AtWork(creator[d], f, d, harmed')
    BY <2>8 DEF AtWork
  <2>11. creator[c].at \notin {"done", "failed"} /\ p.name = n /\ p.at # "done"
    BY <2>2, <2>4, <2>5
  <2> QED
    BY <1>P, <2>1, <2>3, <2>4, <2>5, <2>7, <2>8, <2>9, <2>10, <2>11, CreationMoves
<1>6. ASSUME NEW c \in Creator, CreationDies(c) PROVE StoreInv'
  <2>1. PICK n \in Name : n = creator[c].name  BY <1>0
  <2>2. PICK q \in Creation : q = creator[c]  BY <1>0
  <2>3. PICK g \in Folder : g = folder[n]  BY <1>0
  <2>4. /\ q.at \in {"prepared", "stitched"} /\ q.name = n
        /\ creator' = [creator EXCEPT ![c].at = "failed"]
        /\ UNCHANGED <<folder, tmp, archive, archiver, deleted, harmed>>
    BY <1>6, <2>1, <2>2 DEF CreationDies
  <2>5. PICK p \in Creation : /\ creator' = [creator EXCEPT ![c] = p]
                              /\ p.at = "failed" /\ p.name = q.name /\ Begun(p)
    BY <1>C, <2>2, <2>4, ZenonT(60)
  <2>6. folder' = [folder EXCEPT ![n] = g]  BY <1>0, <2>3, <2>4
  <2>7. StoreShape'  BY <1>0, <2>4, <2>5 DEF StoreShape
  <2>8. AtWork(p, g, c, harmed') /\ OneMaker(g, harmed')  BY <1>0, <2>3, <2>4, <2>5 DEF AtWork
  <2>9. creator[c].at \notin {"done", "failed"} /\ p.name = n /\ p.at # "done"
    BY <2>2, <2>4, <2>5
  <2> QED
    BY <2>1, <2>3, <2>4, <2>5, <2>6, <2>7, <2>8, <2>9, CreationMoves
<1>7. ASSUME NEW n \in Name, NEW d \in Creator, DeleteScan(n, d) PROVE StoreInv'
  <2>1. PICK f \in Folder : f = NoFolder  BY <1>P
  <2>2. /\ folder' = [folder EXCEPT ![n] = f]
        /\ archiver' = Vanish(n)
        /\ deleted' = deleted \cup {d}
        /\ harmed' = harmed \cup Building(n) \cup (FolderParts(folder[n]) \ {d})
        /\ UNCHANGED <<tmp, archive, creator>>
    BY <1>7, <1>I, <2>1 DEF DeleteScan
  <2>3. /\ archiver' \in [Archiver -> Tarring]
        /\ \A a \in Archiver : archiver'[a].at # "idle" => archiver'[a].name \in Name
        /\ \A a \in Archiver : archiver'[a].at = "removing" => archive[archiver'[a].name] # NoFile
    BY <1>0, <1>V, <2>2
  <2>4. StoreShape'  BY <1>0, <2>2, <2>3 DEF StoreShape
  <2>5. \A c \in Creator \ (harmed' \cup deleted') : ~Filed(folder[n], c)
    BY <2>2, ScanAssumption DEF FolderParts, Filed
  <2>6. /\ harmed \subseteq harmed' /\ deleted \subseteq deleted'
        /\ Building(n) \subseteq harmed'
    BY <2>2
  <2> QED  BY <1>P, <2>1, <2>2, <2>4, <2>5, <2>6, FolderGoes
<1>17. ASSUME NEW n \in Name, NEW d \in Creator, DeleteFails(n, d) PROVE StoreInv'
  <2>2. PICK g \in Folder : g = folder[n]  BY <1>0
  <2>3. PICK f : /\ f \in {[NoFolder EXCEPT !.meta = g.meta], [g EXCEPT !.meta = NoScan]}
                 /\ folder' = [folder EXCEPT ![n] = f]
    BY <1>17, <2>2 DEF DeleteFails
  <2>4. /\ archiver' = Vanish(n)
        /\ harmed' = harmed \cup Building(n) \cup FolderParts(g)
        /\ deleted' = deleted \cup {d}
        /\ UNCHANGED <<tmp, archive, creator>>
    BY <1>17, <1>I, <2>2 DEF DeleteFails
  <2>5. /\ archiver' \in [Archiver -> Tarring]
        /\ \A a \in Archiver : archiver'[a].at # "idle" => archiver'[a].name \in Name
        /\ \A a \in Archiver : archiver'[a].at = "removing" => archive[archiver'[a].name] # NoFile
    BY <1>0, <1>V, <2>4
  <2>6. /\ f \in Folder
        /\ \/ f.images = NoScan /\ f.picture = NoScan /\ f.meta = g.meta
           \/ f.images = g.images /\ f.picture = g.picture /\ f.meta = NoScan
    BY <2>3 DEF Folder, NoFolder, Owner
  <2>7. StoreShape'  BY <1>0, <2>3, <2>4, <2>5, <2>6 DEF StoreShape
  <2>8. FolderParts(f) \subseteq FolderParts(g)  BY <2>6 DEF FolderParts
  <2>9. OneMaker(f, harmed')
    <3>1. g.images = NoScan => g.picture = NoScan  BY <1>0, <2>2 DEF OneMaker
    <3>2. FolderParts(f) \subseteq harmed'  BY <2>4, <2>8
    <3>3. f.meta \in {NoScan} \cup harmed'  BY <3>2 DEF FolderParts
    <3>4. FolderParts(f) \cap harmed' = {} => f.picture = NoScan /\ f.meta = NoScan
      BY <3>2 DEF FolderParts
    <3> QED  BY <2>6, <3>1, <3>3, <3>4 DEF OneMaker
  <2>10. \A c \in Creator \ (harmed' \cup deleted') : ~Filed(g, c)
    BY <2>4, ScanAssumption DEF FolderParts, Filed
  <2>11. harmed \subseteq harmed' /\ deleted \subseteq deleted' /\ Building(n) \subseteq harmed'
    BY <2>4
  <2> QED  BY <2>2, <2>3, <2>4, <2>6, <2>7, <2>8, <2>9, <2>10, <2>11, FolderGoes
(* An archiving that moves on; `at` is where it goes. *)
<1>A. ASSUME NEW a \in Archiver, NEW r \in Tarring, archiver' = [archiver EXCEPT ![a] = r],
             r.at # "idle" => r.name \in Name,
             r.at = "removing" => archive'[r.name] # NoFile,
             \A m \in Name : archive[m] # NoFile => archive'[m] # NoFile,
             UNCHANGED <<folder, creator>>,
             tmp' \in [Name -> File \cup {NoFile}], archive' \in [Name -> File \cup {NoFile}]
      PROVE  StoreShape'
  <2>1. /\ archiver' \in [Archiver -> Tarring]
        /\ \A b \in Archiver : archiver'[b].at # "idle" => archiver'[b].name \in Name
        /\ \A b \in Archiver : archiver'[b].at = "removing" => archive'[archiver'[b].name] # NoFile
    BY <1>0, <1>A
  <2> QED  BY <1>0, <1>A, <2>1 DEF StoreShape
<1>N. NoArchiving \in Tarring /\ NoArchiving.at = "idle"  BY DEF NoArchiving, Tarring
<1>8. ASSUME NEW a \in Archiver, NEW n \in Name, NEW remove \in BOOLEAN, OpenTar(a, n, remove)
      PROVE  StoreInv'
  <2>1. PICK state \in {"open", "torn"} :
           tmp' = [tmp EXCEPT ![n] = [by |-> a, scan |-> NoScan, state |-> state]]
    BY <1>8 DEF OpenTar
  <2>2. PICK file : file = [by |-> a, scan |-> NoScan, state |-> state]  OBVIOUS
  <2>3. file \in File /\ file.scan = NoScan  BY <2>2 DEF File, Owner
  <2>4. tmp' \in [Name -> File \cup {NoFile}] /\ \A m \in Name : tmp'[m] \in {file, tmp[m]}
    BY <1>0, <2>1, <2>2, <2>3
  <2>5. PICK r : r = [at |-> "open", name |-> n, remove |-> remove, vanished |-> FALSE]
    OBVIOUS
  <2>6. r \in Tarring /\ r.name \in Name /\ r.at = "open"  BY <2>5 DEF Tarring, Name
  <2>7. /\ archiver' = [archiver EXCEPT ![a] = r]
        /\ harmed \subseteq harmed'
        /\ UNCHANGED <<folder, archive, creator, deleted>>
    BY <1>8, <2>5 DEF OpenTar
  <2>8. StoreShape'  BY <1>0, <1>A, <2>4, <2>6, <2>7
  <2>9. \A m \in Name : WholeTar(tmp'[m]) /\ WholeTar(archive'[m])
    BY <1>0, <2>3, <2>4, <2>7 DEF WholeTar
  <2> QED  BY <2>7, <2>8, <2>9, TarsMove
(* What a tar that is complete says of the file it was written to. *)
<1>F. ASSUME NEW file \in File, NEW a \in Archiver, NEW n \in Name
      PROVE  /\ Written(file, a, n) \in File
             /\ WholeTar(file) => WholeTar(Written(file, a, n))
             /\ \A c : Archived(file, c) => Archived(Written(file, a, n), c)
  <2>1. PICK scan \in Owner : scan = Contents(n)
    BY <1>0 DEF Contents, Folder, Owner
  <2>2. PICK whole : whole = [file EXCEPT !.state = "whole", !.scan = scan]  OBVIOUS
  <2>3. whole \in File /\ whole.state = "whole" /\ whole # NoFile
    <3>1. whole \in File /\ whole.state = "whole"  BY <2>2 DEF File
    <3> QED  BY <3>1, NoFileAssumption
  <2>4. Written(file, a, n) = IF file.by = a /\ file.state = "open" THEN whole ELSE file
    BY <2>1, <2>2, NoFileAssumption DEF Written
  <2> QED  BY <2>3, <2>4 DEF WholeTar, Archived
<1>9. ASSUME NEW a \in Archiver, CloseTar(a) PROVE StoreInv'
  <2>1. PICK q \in Tarring : q = archiver[a]  BY <1>0
  <2>2. q.at = "open" /\ q.name \in Name  BY <1>0, <1>9, <2>1 DEF CloseTar
  <2>3. PICK n \in Name : n = q.name  BY <2>2
  <2>4. /\ tmp' = [tmp EXCEPT ![n] = IF @ = NoFile THEN @ ELSE Written(@, a, n)]
        /\ archive' = [archive EXCEPT ![n] = IF @ = NoFile THEN @ ELSE Written(@, a, n)]
        /\ archiver' = [archiver EXCEPT ![a].at = "closed"]
        /\ UNCHANGED <<folder, creator, deleted, harmed>>
    BY <1>9, <2>1, <2>3 DEF CloseTar
  <2>5. PICK r : r = [q EXCEPT !.at = "closed"]  OBVIOUS
  <2>6. /\ r \in Tarring /\ r.name = n /\ r.at = "closed"
        /\ archiver' = [archiver EXCEPT ![a] = r]
    BY <2>1, <2>3, <2>4, <2>5 DEF Tarring
  <2>7. PICK u, v :
          /\ u = IF tmp[n] = NoFile THEN tmp[n] ELSE Written(tmp[n], a, n)
          /\ v = IF archive[n] = NoFile THEN archive[n] ELSE Written(archive[n], a, n)
          /\ tmp' = [tmp EXCEPT ![n] = u]
          /\ archive' = [archive EXCEPT ![n] = v]
    BY <2>4
  <2>8. /\ u \in File \cup {NoFile} /\ v \in File \cup {NoFile}
        /\ WholeTar(u) /\ WholeTar(v)
        /\ archive[n] # NoFile => v # NoFile
        /\ \A c : Archived(archive[n], c) => Archived(v, c)
    <3>1. \A file \in File : file # NoFile  BY NoFileAssumption
    <3>2. tmp[n] \in File \cup {NoFile} /\ WholeTar(tmp[n])  BY <1>0
    <3>3. archive[n] \in File \cup {NoFile} /\ WholeTar(archive[n])  BY <1>0
    <3>4. u \in File \cup {NoFile} /\ WholeTar(u)  BY <1>F, <2>7, <3>2
    <3>5. v \in File \cup {NoFile} /\ WholeTar(v) /\ (archive[n] # NoFile => v # NoFile)
      BY <1>F, <2>7, <3>1, <3>3
    <3>6. \A c : Archived(archive[n], c) => Archived(v, c)  BY <1>F, <2>7, <3>3
    <3> QED  BY <3>4, <3>5, <3>6
  <2>9. /\ tmp' \in [Name -> File \cup {NoFile}] /\ archive' \in [Name -> File \cup {NoFile}]
        /\ tmp'[n] = u /\ archive'[n] = v
        /\ \A m \in Name : m # n => tmp'[m] = tmp[m] /\ archive'[m] = archive[m]
    BY <1>0, <2>7, <2>8
  <2>10. \A m \in Name : archive[m] # NoFile => archive'[m] # NoFile  BY <2>8, <2>9
  <2>11. StoreShape'  BY <1>A, <2>4, <2>6, <2>9, <2>10
  <2>12. \A m \in Name : WholeTar(tmp'[m]) /\ WholeTar(archive'[m])
    BY <1>0, <2>8, <2>9
  <2>13. \A m \in Name : \A c \in Creator \ harmed' :
             Archived(archive[m], c) => Archived(archive'[m], c)
    BY <2>8, <2>9
  <2> QED  BY <2>4, <2>11, <2>12, <2>13, TarsMove
<1>10. ASSUME NEW a \in Archiver, TarFails(a) PROVE StoreInv'
  <2>1. /\ tmp' = [tmp EXCEPT ![archiver[a].name] = NoFile]
        /\ archiver' = [archiver EXCEPT ![a] = NoArchiving]
        /\ UNCHANGED <<folder, archive, creator, deleted, harmed>>
    BY <1>10 DEF TarFails
  <2>2. tmp' \in [Name -> File \cup {NoFile}] /\ \A m \in Name : tmp'[m] \in {NoFile, tmp[m]}
    BY <1>0, <2>1
  <2>3. StoreShape'  BY <1>0, <1>A, <1>N, <2>1, <2>2
  <2>4. \A m \in Name : WholeTar(tmp'[m]) /\ WholeTar(archive'[m])
    BY <1>0, <2>1, <2>2 DEF WholeTar
  <2> QED  BY <2>1, <2>3, <2>4, TarsMove
(* The archive of another scan is set apart when it is overwritten. *)
<1>11. ASSUME NEW a \in Archiver, ReplaceArchive(a) PROVE StoreInv'
  <2>1. PICK q \in Tarring : q = archiver[a]  BY <1>0
  <2>2. q.at = "closed" /\ q.name \in Name  BY <1>0, <1>11, <2>1 DEF ReplaceArchive
  <2>3. PICK n \in Name : n = q.name  BY <2>2
  <2>4. UNCHANGED <<folder, creator, deleted>>  BY <1>11 DEF ReplaceArchive
  <2>5. CASE tmp[n] = NoFile
    <3>1. /\ archiver' = [archiver EXCEPT ![a] = NoArchiving]
          /\ UNCHANGED <<tmp, archive, harmed>>
      BY <1>11, <2>1, <2>3, <2>5 DEF ReplaceArchive
    <3>2. StoreShape'  BY <1>0, <1>A, <1>N, <2>4, <3>1
    <3> QED  BY <1>0, <2>4, <3>1, <3>2, TarsMove
  <2>6. CASE tmp[n] # NoFile
    <3>1. PICK file \in File : file = tmp[n]  BY <1>0, <2>6
    <3>2. PICK old : old = IF archive[n] = NoFile THEN NoScan ELSE archive[n].scan  OBVIOUS
    <3>3. /\ archive' = [archive EXCEPT ![n] = file]
          /\ tmp' = [tmp EXCEPT ![n] = NoFile]
          /\ archiver' = [archiver EXCEPT ![a] =
                IF @.remove THEN [@ EXCEPT !.at = "removing"] ELSE NoArchiving]
          /\ harmed' = IF old \in Creator /\ old # file.scan THEN harmed \cup {old} ELSE harmed
      BY <1>11, <2>1, <2>3, <2>6, <3>1, <3>2 DEF ReplaceArchive
    <3>4. PICK r : r = IF q.remove THEN [q EXCEPT !.at = "removing"] ELSE NoArchiving
      OBVIOUS
    <3>5. r \in Tarring /\ (r.at # "idle" => r.name = n)
      <4>1. CASE q.remove  BY <2>3, <3>4, <4>1 DEF Tarring
      <4>2. CASE ~q.remove  BY <1>N, <3>4, <4>2
      <4> QED  BY <4>1, <4>2
    <3>6. archiver' = [archiver EXCEPT ![a] = r]  BY <1>0, <2>1, <3>3, <3>4
    <3>7. /\ tmp' \in [Name -> File \cup {NoFile}]
          /\ archive' \in [Name -> File \cup {NoFile}]
          /\ \A m \in Name : /\ tmp'[m] \in {NoFile, tmp[m]}
                             /\ m # n => archive'[m] = archive[m]
          /\ archive'[n] = file
      BY <1>0, <3>3
    <3>8. StoreShape'
      <4>1. archive'[n] # NoFile  BY <2>6, <3>1, <3>7
      <4>2. \A m \in Name : archive[m] # NoFile => archive'[m] # NoFile  BY <3>7, <4>1
      <4> QED  BY <1>A, <2>4, <3>5, <3>6, <3>7, <4>1, <4>2
    <3>9. \A m \in Name : WholeTar(tmp'[m]) /\ WholeTar(archive'[m])
      BY <1>0, <3>1, <3>7 DEF WholeTar
    <3>10. \A m \in Name : \A c \in Creator \ harmed' :
               Archived(archive[m], c) => Archived(archive'[m], c)
      <4>1. ASSUME NEW c \in Creator \ harmed', Archived(archive[n], c)
            PROVE  Archived(file, c)
        <5>1. old = c  BY <3>2, <4>1 DEF Archived
        <5>2. file.scan = c  BY <3>3, <4>1, <5>1
        <5>3. file.state = "whole" /\ file # NoFile
          BY <1>0, <2>6, <3>1, <4>1, <5>2, ScanAssumption DEF WholeTar
        <5> QED  BY <5>2, <5>3 DEF Archived
      <4> QED  BY <3>7, <4>1
    <3>11. harmed \subseteq harmed'  BY <3>3
    <3> QED  BY <2>4, <3>8, <3>9, <3>10, <3>11, TarsMove
  <2> QED  BY <2>5, <2>6
(* What an archiving removes is in the archive, or is set apart. *)
<1>12. ASSUME NEW a \in Archiver, RemoveArchived(a) PROVE StoreInv'
  <2>1. PICK n \in Name : n = archiver[a].name  BY <1>0, <1>12 DEF RemoveArchived
  <2>2. PICK f \in Folder : f = NoFolder  BY <1>P
  <2>3. /\ folder' = [folder EXCEPT ![n] = f]
        /\ archiver' = [Vanish(n) EXCEPT ![a] = NoArchiving]
        /\ harmed' = harmed \cup Building(n) \cup
              IF archive[n].scan \in FolderParts(folder[n]) THEN {} ELSE FolderParts(folder[n])
        /\ UNCHANGED <<tmp, archive, creator, deleted>>
    BY <1>12, <1>I, <2>1, <2>2 DEF RemoveArchived
  <2>4. /\ archiver' \in [Archiver -> Tarring]
        /\ \A b \in Archiver : archiver'[b].at # "idle" => archiver'[b].name \in Name
        /\ \A b \in Archiver : archiver'[b].at = "removing" => archive[archiver'[b].name] # NoFile
    BY <1>0, <1>N, <1>V, <2>3, ZenonT(60)
  <2>5. StoreShape'  BY <1>0, <2>3, <2>4 DEF StoreShape
  <2>6. ASSUME NEW c \in Creator \ (harmed' \cup deleted'), Filed(folder[n], c)
        PROVE  Archived(archive[n], c)
    <3>1. FolderParts(folder[n]) = {c}  BY <2>6, ScanAssumption DEF FolderParts, Filed
    <3>2. archive[n].scan = c  BY <2>3, <2>6, <3>1
    <3>3. archive[n] # NoFile  BY <1>0, <1>12, <2>1 DEF RemoveArchived
    <3> QED  BY <1>0, <3>2, <3>3, ScanAssumption DEF WholeTar, Archived
  <2>7. harmed \subseteq harmed' /\ deleted \subseteq deleted' /\ Building(n) \subseteq harmed'
    BY <2>3
  <2> QED  BY <1>P, <2>2, <2>3, <2>5, <2>6, <2>7, FolderGoes
(* What a removal that stops half-way leaves is set apart. *)
<1>13. ASSUME NEW a \in Archiver, RemoveFails(a) PROVE StoreInv'
  <2>1. PICK n \in Name : n = archiver[a].name  BY <1>0, <1>13 DEF RemoveFails
  <2>2. PICK g \in Folder : g = folder[n]  BY <1>0
  <2>3. PICK f : /\ f \in {[NoFolder EXCEPT !.meta = g.meta], [g EXCEPT !.meta = NoScan]}
                 /\ folder' = [folder EXCEPT ![n] = f]
    BY <1>13, <2>1, <2>2 DEF RemoveFails
  <2>4. /\ archiver' = [Vanish(n) EXCEPT ![a] = NoArchiving]
        /\ harmed' = harmed \cup Building(n) \cup FolderParts(g)
        /\ UNCHANGED <<tmp, archive, creator, deleted>>
    BY <1>13, <1>I, <2>1, <2>2 DEF RemoveFails
  <2>5. /\ archiver' \in [Archiver -> Tarring]
        /\ \A b \in Archiver : archiver'[b].at # "idle" => archiver'[b].name \in Name
        /\ \A b \in Archiver : archiver'[b].at = "removing" => archive[archiver'[b].name] # NoFile
    BY <1>0, <1>N, <1>V, <2>4, ZenonT(60)
  <2>6. /\ f \in Folder
        /\ \/ f.images = NoScan /\ f.picture = NoScan /\ f.meta = g.meta
           \/ f.images = g.images /\ f.picture = g.picture /\ f.meta = NoScan
    BY <2>3 DEF Folder, NoFolder, Owner
  <2>7. StoreShape'  BY <1>0, <2>3, <2>4, <2>5, <2>6 DEF StoreShape
  <2>8. FolderParts(f) \subseteq FolderParts(g)  BY <2>6 DEF FolderParts
  <2>9. OneMaker(f, harmed')
    <3>1. g.images = NoScan => g.picture = NoScan  BY <1>0, <2>2 DEF OneMaker
    <3>2. FolderParts(f) \subseteq harmed'  BY <2>4, <2>8
    <3>3. f.meta \in {NoScan} \cup harmed'  BY <3>2 DEF FolderParts
    <3>4. FolderParts(f) \cap harmed' = {} => f.picture = NoScan /\ f.meta = NoScan
      BY <3>2 DEF FolderParts
    <3> QED  BY <2>6, <3>1, <3>3, <3>4 DEF OneMaker
  <2>10. \A c \in Creator \ (harmed' \cup deleted') : ~Filed(g, c)
    BY <2>4, ScanAssumption DEF FolderParts, Filed
  <2>11. harmed \subseteq harmed' /\ deleted \subseteq deleted' /\ Building(n) \subseteq harmed'
    BY <2>4
  <2> QED  BY <2>2, <2>3, <2>4, <2>6, <2>7, <2>8, <2>9, <2>10, <2>11, FolderGoes
<1>14. CASE UNCHANGED <<folder, tmp, archive, creator, archiver, deleted, harmed>>
  BY <1>14, Zenon DEF StoreInv, StoreShape
<1>15. CASE EnforceRetention
  <2>1. "aoi_name" \notin ScanFields  BY DEF ScanFields
  <2>2. folder' = folder  BY <1>0, <1>15, <2>1 DEF EnforceRetention
  <2> QED  BY <1>14, <1>15, <2>2 DEF EnforceRetention
<1>16. CASE UNCHANGED scanVars  BY <1>14, <1>16 DEF scanVars
<1>18. ASSUME NEW n \in Name, FindToDelete(n) PROVE StoreInv'
  BY <1>14, <1>18 DEF FindToDelete
<1> QED
  BY <1>1, <1>2, <1>3, <1>4, <1>5, <1>6, <1>7, <1>8, <1>9, <1>10, <1>11, <1>12, <1>13,
     <1>15, <1>16, <1>17, <1>18 DEF ScanNext

(* A scan that was created and not deleted is in its folder or whole in the *)
(* archive of its name, and a visible folder shows one scan, unless one of  *)
(* the named mishaps befell it.                                            *)
THEOREM ScanAlwaysKept == ScanSpec => []ScanKept
<1> QED  BY StoreInitially, StoreStep, StoreFollows, PTL DEF ScanSpec

-----------------------------------------------------------------------------
(***************************************************************************)
(* The pages of the vessel explorer.                                       *)
(*                                                                         *)
(* A page is cut at a place of an order that changes while pages are       *)
(* turned.  What is listed for a reader, and in which order, is said here  *)
(* of any two states of the tables, so that one state can be compared with *)
(* the next: Drift shows that a row that stays in the list only moves down *)
(* in it.  So a row the reader has not met is still ahead of the pages.    *)
(***************************************************************************)
ShipRow == [imo : {m.imo : m \in Message} \cup {c.imo : c \in Correction}, mmsi : Nat,
            name : {m.name : m \in Message} \cup {c.name : c \in Correction}]

TrackRow == [vessel : Nat, at : 0..MaxRegistryClock, inside : {m.inside : m \in Message}]

Log(ships, rows) ==
    /\ ships \in Seq(ShipRow) /\ rows \in Seq(TrackRow)
    /\ \A i \in 1..Len(rows) : rows[i].vessel \in 1..Len(ships)

Query == [at : {"idle", "page", "count", "done"}, search : BOOLEAN, boxed : BOOLEAN,
          latest : BOOLEAN, size : Nat \ {0}, page : Nat \ {0}, since : Nat, end : Nat,
          start : SUBSET Nat, met : SUBSET Nat, dropped : BOOLEAN]

NameFits(ships, rows, q, i) == q.search => ships[rows[i].vessel].name \in Sought

RowsFor(ships, rows, q) ==
    {i \in 1..Len(rows) : /\ NameFits(ships, rows, q, i)
                          /\ q.boxed => rows[i].inside
                          /\ rows[i].at >= q.since}

Mmsi(ships, rows, i) == ships[rows[i].vessel].mmsi

LastOf(ships, rows, set) ==
    {i \in set : \A j \in set : Mmsi(ships, rows, j) = Mmsi(ships, rows, i) =>
                     \/ rows[j].at < rows[i].at
                     \/ rows[j].at = rows[i].at /\ j <= i}

Listing(ships, rows, q) ==
    IF q.latest THEN LastOf(ships, rows, RowsFor(ships, rows, q)) ELSE RowsFor(ships, rows, q)

Over(ships, rows, q, i, j) ==
    \/ rows[i].at > rows[j].at
    \/ /\ rows[i].at = rows[j].at
       /\ IF q.latest THEN Mmsi(ships, rows, i) < Mmsi(ships, rows, j) ELSE i > j

Ahead(ships, rows, q, i) == {j \in Listing(ships, rows, q) : Over(ships, rows, q, j, i)}
PlaceOf(ships, rows, q, i) == Cardinality(Ahead(ships, rows, q, i))

(* The tables grow, and no row of a vessel's track changes hands. *)
Grow(ships, rows, ships2, rows2) ==
    /\ Len(ships) <= Len(ships2) /\ Len(rows) <= Len(rows2)
    /\ \A v \in 1..Len(ships) : ships2[v].mmsi = ships[v].mmsi
    /\ \A i \in 1..Len(rows) : rows2[i] = rows[i]

SameFilters(q, r) ==
    /\ r.search = q.search /\ r.boxed = q.boxed /\ r.latest = q.latest
    /\ r.since >= q.since

-----------------------------------------------------------------------------
LEMMA ListingFinite ==
    ASSUME NEW ships, NEW rows, NEW q, Log(ships, rows)
    PROVE  /\ Listing(ships, rows, q) \subseteq 1..Len(rows)
           /\ IsFiniteSet(Listing(ships, rows, q))
           /\ Cardinality(Listing(ships, rows, q)) \in Nat
<1>1. Listing(ships, rows, q) \subseteq 1..Len(rows)
  BY DEF Listing, LastOf, RowsFor
<1>2. Len(rows) \in Nat
  BY LenProperties DEF Log
<1>3. IsFiniteSet(1..Len(rows))
  BY <1>2, FS_Interval
<1> QED
  BY <1>1, <1>3, FS_Subset, FS_CardinalityType

LEMMA AheadFinite ==
    ASSUME NEW ships, NEW rows, NEW q, NEW i, Log(ships, rows)
    PROVE  /\ IsFiniteSet(Ahead(ships, rows, q, i))
           /\ PlaceOf(ships, rows, q, i) \in Nat
<1>1. Ahead(ships, rows, q, i) \subseteq Listing(ships, rows, q)
  BY DEF Ahead
<1> QED
  BY <1>1, ListingFinite, FS_Subset, FS_CardinalityType DEF PlaceOf

LEMMA RowFacts ==
    ASSUME NEW ships, NEW rows, Log(ships, rows), NEW i \in 1..Len(rows)
    PROVE  /\ rows[i] \in TrackRow /\ rows[i].at \in 0..MaxRegistryClock
           /\ rows[i].vessel \in 1..Len(ships)
           /\ ships[rows[i].vessel] \in ShipRow
           /\ Mmsi(ships, rows, i) \in Nat
<1>1. rows[i] \in TrackRow /\ rows[i].vessel \in 1..Len(ships)
  BY ElementOfSeq DEF Log
<1>2. ships[rows[i].vessel] \in ShipRow
  BY <1>1, ElementOfSeq DEF Log
<1> QED
  BY <1>1, <1>2 DEF TrackRow, ShipRow, Mmsi

(* Of the rows of a vessel that the filters let through one is the newest. *)
LEMMA NewestExists ==
    ASSUME NEW ships, NEW rows, Log(ships, rows), NEW set \in SUBSET (1..Len(rows)),
           NEW k \in set
    PROVE  \E j \in LastOf(ships, rows, set) :
               /\ Mmsi(ships, rows, j) = Mmsi(ships, rows, k)
               /\ rows[j].at >= rows[k].at
<1> DEFINE Own == {j \in set : Mmsi(ships, rows, j) = Mmsi(ships, rows, k)}
           Ages == {MaxRegistryClock - rows[j].at : j \in Own}
<1>1. \A j \in set : /\ rows[j].at \in 0..MaxRegistryClock
                     /\ j \in 1..Len(rows)
  BY RowFacts
<1>2. Len(rows) \in Nat /\ MaxRegistryClock \in Nat
  BY LenProperties, RegistryAssumption DEF Log
<1>3. PICK a \in Ages : \A b \in Ages : a <= b
  <2>1. Ages \in SUBSET Nat
    BY <1>1, <1>2
  <2>2. k \in Own
    OBVIOUS
  <2>3. Ages # {}
    BY <2>2
  <2> QED
    BY <2>1, <2>3, LeastOf
<1> DEFINE Last == {j \in Own : MaxRegistryClock - rows[j].at = a}
           Places == {Len(rows) - j : j \in Last}
<1>4. PICK p \in Places : \A b \in Places : p <= b
  <2>1. Places \in SUBSET Nat
    BY <1>1, <1>2
  <2>2. Places # {}
    BY <1>3
  <2> QED
    BY <2>1, <2>2, LeastOf
<1>5. PICK j \in Last : p = Len(rows) - j
  BY <1>4
<1>6. ASSUME NEW l \in Own
      PROVE  rows[l].at < rows[j].at \/ (rows[l].at = rows[j].at /\ l <= j)
  <2>1. a <= MaxRegistryClock - rows[l].at
    BY <1>3
  <2>2. a = MaxRegistryClock - rows[j].at /\ j \in Own
    BY <1>5
  <2>3. rows[l].at <= rows[j].at
    BY <1>1, <1>2, <2>1, <2>2
  <2>4. CASE rows[l].at = rows[j].at
    <3>1. l \in Last
      BY <2>2, <2>4
    <3>2. p <= Len(rows) - l
      BY <1>4, <3>1
    <3> QED
      BY <1>1, <1>2, <1>5, <2>2, <2>4, <3>2
  <2> QED
    BY <1>1, <2>2, <2>3, <2>4
<1>7. j \in LastOf(ships, rows, set)
  BY <1>5, <1>6 DEF LastOf
<1>8. k \in Own
  OBVIOUS
<1>9. rows[j].at >= rows[k].at
  BY <1>1, <1>5, <1>6, <1>8
<1> QED
  BY <1>5, <1>7, <1>9

(* A row that stays in the list stays behind those it was behind. *)
LEMMA Drift ==
    ASSUME NEW ships, NEW rows, NEW ships2, NEW rows2, NEW q \in Query, NEW r \in Query,
           Log(ships, rows), Log(ships2, rows2), Grow(ships, rows, ships2, rows2),
           SameFilters(q, r),
           \A j \in 1..Len(rows) :
               NameFits(ships, rows, q, j) => NameFits(ships2, rows2, r, j),
           NEW i \in Listing(ships2, rows2, r), i \in 1..Len(rows),
           NameFits(ships, rows, q, i)
    PROVE  /\ i \in Listing(ships, rows, q)
           /\ PlaceOf(ships, rows, q, i) <= PlaceOf(ships2, rows2, r, i)
<1> DEFINE Old == RowsFor(ships, rows, q)
           New == RowsFor(ships2, rows2, r)
<1>1. \A j \in 1..Len(rows) : /\ rows2[j] = rows[j]
                              /\ rows[j].at \in 0..MaxRegistryClock
                              /\ Mmsi(ships2, rows2, j) = Mmsi(ships, rows, j)
                              /\ Mmsi(ships, rows, j) \in Nat
                              /\ j \in 1..Len(rows2)
  <2>1. ASSUME NEW j \in 1..Len(rows)
        PROVE  /\ rows2[j] = rows[j] /\ rows[j].at \in 0..MaxRegistryClock
               /\ Mmsi(ships2, rows2, j) = Mmsi(ships, rows, j)
               /\ Mmsi(ships, rows, j) \in Nat
    BY RowFacts DEF Grow, Mmsi
  <2>2. Len(rows) \in Nat /\ Len(rows2) \in Nat /\ Len(rows) <= Len(rows2)
    BY LenProperties DEF Log, Grow
  <2> QED
    BY <2>1, <2>2
<1>2. /\ r.search = q.search /\ r.boxed = q.boxed /\ r.latest = q.latest
      /\ r.since >= q.since /\ r.since \in Nat /\ q.since \in Nat
      /\ q.latest \in BOOLEAN /\ q.boxed \in BOOLEAN
  BY DEF SameFilters, Query
<1>3. i \in New
  BY DEF Listing, LastOf
<1>4. /\ rows[i].at >= r.since
      /\ i \in Old
  BY <1>1, <1>2, <1>3 DEF RowsFor
<1>5. ASSUME NEW j \in Old, rows[j].at >= rows[i].at
      PROVE  j \in New
  BY <1>1, <1>2, <1>4, <1>5 DEF RowsFor
<1>6. Old \subseteq 1..Len(rows) /\ New \subseteq 1..Len(rows2)
  BY DEF RowsFor
<1>7. i \in Listing(ships, rows, q)
  <2>1. CASE q.latest
    <3>1. i \in LastOf(ships2, rows2, New)
      BY <1>2, <2>1 DEF Listing
    <3>2. ASSUME NEW j \in Old, Mmsi(ships, rows, j) = Mmsi(ships, rows, i)
          PROVE  rows[j].at < rows[i].at \/ (rows[j].at = rows[i].at /\ j <= i)
      <4>1. CASE rows[j].at < rows[i].at
        BY <4>1
      <4>2. CASE rows[j].at >= rows[i].at
        <5>1. j \in New
          BY <1>5, <4>2
        <5>2. rows2[j].at < rows2[i].at \/ (rows2[j].at = rows2[i].at /\ j <= i)
          BY <1>1, <1>6, <3>1, <3>2, <5>1 DEF LastOf
        <5> QED
          BY <1>1, <1>6, <5>2
      <4> QED
        BY <1>1, <1>6, <4>1, <4>2
    <3> QED
      BY <1>4, <2>1, <3>2 DEF Listing, LastOf
  <2>2. CASE ~q.latest
    BY <1>4, <2>2 DEF Listing
  <2> QED
    BY <1>2, <2>1, <2>2
<1>8. CASE ~q.latest
  <2>1. Ahead(ships, rows, q, i) \subseteq Ahead(ships2, rows2, r, i)
    <3>1. SUFFICES ASSUME NEW j \in Ahead(ships, rows, q, i)
                   PROVE  j \in Ahead(ships2, rows2, r, i)
      OBVIOUS
    <3>2. j \in Old /\ (rows[j].at > rows[i].at \/ (rows[j].at = rows[i].at /\ j > i))
      BY <1>8 DEF Ahead, Listing, Over
    <3>3. j \in New
      BY <1>1, <1>5, <1>6, <3>2
    <3> QED
      BY <1>1, <1>2, <1>6, <1>8, <3>2, <3>3 DEF Ahead, Listing, Over
  <2>2. IsFiniteSet(Ahead(ships2, rows2, r, i))
    BY AheadFinite
  <2>3. Cardinality(Ahead(ships, rows, q, i)) <= Cardinality(Ahead(ships2, rows2, r, i))
    BY <2>1, <2>2, FS_Subset
  <2> QED
    BY <1>7, <2>3 DEF PlaceOf
<1>9. CASE q.latest
  <2> DEFINE A == Ahead(ships, rows, q, i)
             B == Ahead(ships2, rows2, r, i)
             Next(j) == CHOOSE l \in B : Mmsi(ships2, rows2, l) = Mmsi(ships, rows, j)
             f == [j \in A |-> Next(j)]
  <2>1. ASSUME NEW j \in A
        PROVE  \E l \in B : Mmsi(ships2, rows2, l) = Mmsi(ships, rows, j)
    <3>1. /\ j \in Old
          /\ \/ rows[j].at > rows[i].at
             \/ /\ rows[j].at = rows[i].at
                /\ Mmsi(ships, rows, j) < Mmsi(ships, rows, i)
      BY <1>9 DEF Ahead, Listing, LastOf, Over
    <3>2. j \in New
      BY <1>1, <1>5, <1>6, <3>1
    <3>3. PICK l \in LastOf(ships2, rows2, New) :
              /\ Mmsi(ships2, rows2, l) = Mmsi(ships2, rows2, j)
              /\ rows2[l].at >= rows2[j].at
      BY <1>6, <3>2, NewestExists
    <3>4. l \in Listing(ships2, rows2, r) /\ l \in 1..Len(rows2)
      BY <1>2, <1>6, <1>9, <3>3 DEF Listing, LastOf
    <3>5. rows2[l].at \in 0..MaxRegistryClock
      BY <3>4, RowFacts
    <3>6. Over(ships2, rows2, r, l, i)
      BY <1>1, <1>2, <1>6, <1>9, <3>1, <3>3, <3>5, SMTT(30) DEF Over
    <3> QED
      BY <1>1, <1>6, <3>1, <3>3, <3>4, <3>6 DEF Ahead
  <2>2. ASSUME NEW j \in A
        PROVE  f[j] \in B /\ Mmsi(ships2, rows2, f[j]) = Mmsi(ships, rows, j)
    BY <2>1
  <2>3. f \in [A -> B]
    BY <2>2
  <2>4. ASSUME NEW j \in A, NEW k \in A, f[j] = f[k]
        PROVE  j = k
    <3>1. Mmsi(ships, rows, j) = Mmsi(ships, rows, k)
      BY <2>2, <2>4
    <3>2. j \in LastOf(ships, rows, Old) /\ k \in LastOf(ships, rows, Old)
      BY <1>9 DEF Ahead, Listing
    <3>3. /\ rows[j].at < rows[k].at \/ (rows[j].at = rows[k].at /\ j <= k)
          /\ rows[k].at < rows[j].at \/ (rows[k].at = rows[j].at /\ k <= j)
          /\ j \in 1..Len(rows) /\ k \in 1..Len(rows)
      BY <1>6, <3>1, <3>2 DEF LastOf
    <3> QED
      BY <1>1, <3>3
  <2> HIDE DEF A, B, f
  <2>5. f \in Injection(A, B)
    BY <2>3, <2>4, Fun_IsInj
  <2>6. IsFiniteSet(B)
    BY AheadFinite DEF B
  <2>7. Cardinality(A) <= Cardinality(B)
    BY <2>5, <2>6, FS_Injection
  <2> QED
    BY <1>7, <2>7 DEF PlaceOf, A, B
<1> QED
  BY <1>2, <1>7, <1>8, <1>9

(* Of two rows of the list one is before the other, and so is the part of  *)
(* the list that is ahead of it.                                           *)
LEMMA PlacesDiffer ==
    ASSUME NEW ships, NEW rows, Log(ships, rows), NEW q \in Query,
           NEW i \in Listing(ships, rows, q), NEW j \in Listing(ships, rows, q),
           Over(ships, rows, q, i, j)
    PROVE  PlaceOf(ships, rows, q, i) < PlaceOf(ships, rows, q, j)
<1> DEFINE A == Ahead(ships, rows, q, i)
           B == Ahead(ships, rows, q, j)
<1>1. \A k \in Listing(ships, rows, q) :
          /\ k \in 1..Len(rows) /\ rows[k].at \in 0..MaxRegistryClock
          /\ Mmsi(ships, rows, k) \in Nat
  BY ListingFinite, RowFacts
<1>2. q.latest \in BOOLEAN
  BY DEF Query
<1>3. A \subseteq B
  <2>1. SUFFICES ASSUME NEW k \in A PROVE k \in B
    OBVIOUS
  <2>2. k \in Listing(ships, rows, q) /\ Over(ships, rows, q, k, i)
    BY DEF Ahead
  <2>3. Over(ships, rows, q, k, j)
    BY <1>1, <1>2, <2>2 DEF Over
  <2> QED
    BY <2>2, <2>3 DEF Ahead
<1>4. i \in B
  BY DEF Ahead
<1>5. i \notin A
  BY <1>1, <1>2 DEF Ahead, Over
<1>6. IsFiniteSet(B) /\ Cardinality(A) \in Nat /\ Cardinality(B) \in Nat
  BY AheadFinite DEF PlaceOf
<1> HIDE DEF A, B
<1>7. Cardinality(A) <= Cardinality(B) /\ Cardinality(A) # Cardinality(B)
  BY <1>3, <1>4, <1>5, <1>6, FS_Subset
<1> QED
  BY <1>6, <1>7 DEF PlaceOf, A, B

LEMMA OneBeforeTheOther ==
    ASSUME NEW ships, NEW rows, Log(ships, rows), NEW q \in Query,
           NEW i \in Listing(ships, rows, q), NEW j \in Listing(ships, rows, q), i # j
    PROVE  Over(ships, rows, q, i, j) \/ Over(ships, rows, q, j, i)
<1>1. \A k \in {i, j} :
          /\ k \in 1..Len(rows) /\ rows[k].at \in 0..MaxRegistryClock
          /\ Mmsi(ships, rows, k) \in Nat
  BY ListingFinite, RowFacts
<1>2. q.latest \in BOOLEAN
  BY DEF Query
<1>3. CASE q.latest
  <2>1. i \in LastOf(ships, rows, RowsFor(ships, rows, q))
    BY <1>3 DEF Listing
  <2>2. j \in LastOf(ships, rows, RowsFor(ships, rows, q))
    BY <1>3 DEF Listing
  <2>3. ASSUME Mmsi(ships, rows, i) = Mmsi(ships, rows, j)
        PROVE  rows[i].at # rows[j].at
    BY <1>1, <2>1, <2>2, <2>3 DEF LastOf
  <2> QED
    BY <1>1, <1>3, <2>3 DEF Over
<1>4. CASE ~q.latest
  BY <1>1, <1>4 DEF Over
<1> QED
  BY <1>2, <1>3, <1>4

(* A row is behind fewer rows than there are. *)
LEMMA PlaceInList ==
    ASSUME NEW ships, NEW rows, Log(ships, rows), NEW q \in Query,
           NEW i \in Listing(ships, rows, q)
    PROVE  PlaceOf(ships, rows, q, i) < Cardinality(Listing(ships, rows, q))
<1> DEFINE A == Ahead(ships, rows, q, i)
           L == Listing(ships, rows, q)
<1>1. rows[i].at \in 0..MaxRegistryClock /\ Mmsi(ships, rows, i) \in Nat /\ i \in 1..Len(rows)
  BY ListingFinite, RowFacts
<1>2. A \subseteq L /\ i \notin A /\ i \in L
  BY <1>1 DEF Ahead, Over
<1>3. IsFiniteSet(L) /\ Cardinality(L) \in Nat /\ Cardinality(A) \in Nat
  BY ListingFinite, AheadFinite DEF PlaceOf
<1> HIDE DEF A, L
<1>4. Cardinality(A) <= Cardinality(L) /\ Cardinality(A) # Cardinality(L)
  BY <1>2, <1>3, FS_Subset
<1> QED
  BY <1>3, <1>4 DEF PlaceOf, A, L

LEMMA OffsetType ==
    ASSUME NEW q \in Query
    PROVE  /\ Offset(q) \in Nat /\ q.size \in Nat
           /\ q.page * q.size = Offset(q) + q.size
<1>1. q.page \in Nat \ {0} /\ q.size \in Nat \ {0}
  BY DEF Query
<1>2. PICK p \in Nat : q.page = p + 1
  <2>1. q.page - 1 \in Nat /\ q.page = (q.page - 1) + 1
    BY <1>1
  <2> QED
    BY <2>1
<1>3. PICK s \in Nat : q.size = s
  BY <1>1
<1>4. p * s \in Nat /\ (p + 1) * s = p * s + s /\ (p + 1) - 1 = p
  OBVIOUS
<1> QED
  BY <1>2, <1>3, <1>4 DEF Offset

(* Rows that fall on one page. *)
OnPage(ships, rows, q) ==
    {i \in Listing(ships, rows, q) :
        Offset(q) <= PlaceOf(ships, rows, q, i) /\ PlaceOf(ships, rows, q, i) < Offset(q) + q.size}

LEMMA PageFits ==
    ASSUME NEW ships, NEW rows, Log(ships, rows), NEW q \in Query
    PROVE  /\ Cardinality(OnPage(ships, rows, q)) \in Nat
           /\ Cardinality(OnPage(ships, rows, q)) <= q.size
           /\ OnPage(ships, rows, q) \subseteq 1..Len(rows)
<1> DEFINE P == OnPage(ships, rows, q)
           I == Offset(q)..(Offset(q) + q.size - 1)
           f == [i \in P |-> PlaceOf(ships, rows, q, i)]
<1>1. P \subseteq Listing(ships, rows, q)
  BY DEF OnPage
<1>2. Offset(q) \in Nat /\ q.size \in Nat
  BY OffsetType
<1>3. IsFiniteSet(I) /\ Cardinality(I) = q.size
  <2>1. PICK a \in Nat, s \in Nat : a = Offset(q) /\ s = q.size
    BY <1>2
  <2>2. q.size # 0
    BY DEF Query
  <2>3. IsFiniteSet(a..(a + s - 1)) /\ Cardinality(a..(a + s - 1)) = (a + s - 1) - a + 1
    <3>1. a \in Int /\ a + s - 1 \in Int /\ a <= a + s - 1
      BY <2>1, <2>2
    <3> QED
      BY <3>1, FS_Interval
  <2> QED
    BY <2>1, <2>3
<1>4. \A i \in P : PlaceOf(ships, rows, q, i) \in Nat
  BY AheadFinite
<1>5. f \in [P -> I]
  <2>1. ASSUME NEW i \in P PROVE PlaceOf(ships, rows, q, i) \in I
    <3>1. /\ Offset(q) <= PlaceOf(ships, rows, q, i)
          /\ PlaceOf(ships, rows, q, i) < Offset(q) + q.size
          /\ PlaceOf(ships, rows, q, i) \in Nat
      BY <1>4 DEF OnPage
    <3> QED
      BY <1>2, <3>1
  <2> QED
    BY <2>1
<1>6. ASSUME NEW i \in P, NEW j \in P, f[i] = f[j] PROVE i = j
  <2>1. PlaceOf(ships, rows, q, i) = PlaceOf(ships, rows, q, j)
    BY <1>6
  <2>2. PlaceOf(ships, rows, q, i) \in Nat /\ PlaceOf(ships, rows, q, j) \in Nat
    BY <1>4
  <2>3. SUFFICES ASSUME i # j PROVE FALSE
    OBVIOUS
  <2>4. \/ PlaceOf(ships, rows, q, i) < PlaceOf(ships, rows, q, j)
        \/ PlaceOf(ships, rows, q, j) < PlaceOf(ships, rows, q, i)
    BY <1>1, <2>3, OneBeforeTheOther, PlacesDiffer
  <2> QED
    BY <2>1, <2>2, <2>4
<1>7. P \subseteq 1..Len(rows)
  BY <1>1, ListingFinite
<1> HIDE DEF P, I, f
<1>8. f \in Injection(P, I)
  BY <1>5, <1>6, Fun_IsInj
<1>9. IsFiniteSet(P) /\ Cardinality(P) <= Cardinality(I)
  BY <1>3, <1>8, FS_Injection
<1>10. Cardinality(P) \in Nat
  BY <1>9, FS_CardinalityType
<1> QED
  BY <1>3, <1>7, <1>9, <1>10 DEF P

-----------------------------------------------------------------------------
(* Rows that were in the list, and are, are met or behind the place.       *)
Behind(ships, rows, q, place) ==
    \A i \in q.start \cap Listing(ships, rows, q) :
        i \in q.met \/ PlaceOf(ships, rows, q, i) >= place

Reads(ships, rows, q) ==
    ~q.dropped =>
        /\ q.at \in {"page", "count"} => \A i \in q.start : NameFits(ships, rows, q, i)
        /\ q.at = "page" => Behind(ships, rows, q, Offset(q))
        /\ q.at = "count" => /\ Behind(ships, rows, q, Offset(q) + q.size)
                             /\ q.end <= Offset(q) + q.size
        /\ q.at = "done" => q.start \subseteq q.met

RegistryInv ==
    /\ Log(fleet, track)
    /\ registryClock \in Lookback..MaxRegistryClock
    /\ reader \in Query
    /\ reader.since <= registryClock - Lookback
    /\ reader.start \subseteq 1..Len(track)
    /\ Reads(fleet, track, reader)

LEMMA RegistryInitially == RegistryInit => RegistryInv
<1> SUFFICES ASSUME RegistryInit PROVE RegistryInv
  OBVIOUS
<1>1. Lookback \in Nat /\ MaxRegistryClock \in Nat /\ Lookback <= MaxRegistryClock
  BY RegistryAssumption
<1>2. Log(fleet, track)
  BY DEF Log, RegistryInit
<1>3. reader \in Query /\ reader.at = "idle" /\ reader.start = {} /\ reader.since = 0
  BY DEF Query, RegistryInit, NoReader
<1>4. Reads(fleet, track, reader)
  BY <1>3 DEF Reads
<1> QED
  BY <1>1, <1>2, <1>3, <1>4 DEF RegistryInv, RegistryInit

(* The operators of the model, of the tables as they are. *)
LEMMA AsListed ==
    ASSUME Log(fleet, track), NEW q
    PROVE  /\ Entries(q) = Listing(fleet, track, q)
           /\ \A i : Rank(q, i) = PlaceOf(fleet, track, q, i)
           /\ Page(q) = OnPage(fleet, track, q)
<1>1. DOMAIN track = 1..Len(track)
  BY DEF Log
<1>2. Filtered(q) = RowsFor(fleet, track, q)
  BY <1>1 DEF Filtered, RowsFor, Found, NameFits
<1>3. Newest(Filtered(q)) = LastOf(fleet, track, RowsFor(fleet, track, q))
  BY <1>2 DEF Newest, LastOf, Ship, Mmsi
<1>4. Entries(q) = Listing(fleet, track, q)
  BY <1>2, <1>3 DEF Entries, Listing
<1>5. ASSUME NEW i PROVE Rank(q, i) = PlaceOf(fleet, track, q, i)
  <2>1. \A j \in Entries(q) : Above(q, j, i) <=> Over(fleet, track, q, j, i)
    BY DEF Above, Over, Ship, Mmsi
  <2>2. {j \in Entries(q) : Above(q, j, i)} = Ahead(fleet, track, q, i)
    BY <1>4, <2>1 DEF Ahead
  <2> QED
    BY <2>2 DEF Rank, PlaceOf
<1>6. Page(q) = OnPage(fleet, track, q)
  BY <1>4, <1>5 DEF Page, OnPage
<1> QED
  BY <1>4, <1>5, <1>6

(* The list depends on the filters alone. *)
LEMMA SameList ==
    ASSUME NEW ships, NEW rows, NEW q, NEW r, r.search = q.search, r.boxed = q.boxed,
           r.latest = q.latest, r.since = q.since
    PROVE  /\ Listing(ships, rows, r) = Listing(ships, rows, q)
           /\ \A i : PlaceOf(ships, rows, r, i) = PlaceOf(ships, rows, q, i)
<1>1. RowsFor(ships, rows, r) = RowsFor(ships, rows, q)
  BY DEF RowsFor, NameFits
<1>2. Listing(ships, rows, r) = Listing(ships, rows, q)
  BY <1>1 DEF Listing
<1>3. ASSUME NEW i PROVE Ahead(ships, rows, r, i) = Ahead(ships, rows, q, i)
  BY <1>2 DEF Ahead, Over
<1> QED
  BY <1>2, <1>3 DEF PlaceOf

(* What the tables do under a reader. *)
LEMMA ReadsOn ==
    ASSUME NEW ships, NEW rows, NEW ships2, NEW rows2, NEW q \in Query, NEW r \in Query,
           Log(ships, rows), Log(ships2, rows2), Grow(ships, rows, ships2, rows2),
           SameFilters(q, r), q.start \subseteq 1..Len(rows),
           r.at = q.at, r.size = q.size, r.page = q.page, r.end = q.end,
           r.start = q.start, r.met = q.met, q.dropped => r.dropped,
           ~r.dropped /\ q.at \in {"page", "count"} =>
               \A j \in 1..Len(rows) :
                   NameFits(ships, rows, q, j) => NameFits(ships2, rows2, r, j),
           Reads(ships, rows, q)
    PROVE  Reads(ships2, rows2, r)
<1>1. SUFFICES ASSUME ~r.dropped
               PROVE  Reads(ships2, rows2, r)
  BY DEF Reads
<1>2. ~q.dropped /\ Offset(r) = Offset(q) /\ Offset(q) \in Nat /\ q.size \in Nat
  BY <1>1, OffsetType DEF Offset, Query
<1>3. ASSUME q.at \in {"page", "count"}, NEW reach \in Nat, Behind(ships, rows, q, reach)
      PROVE  Behind(ships2, rows2, r, reach)
  <2>1. SUFFICES ASSUME NEW i \in r.start \cap Listing(ships2, rows2, r)
                 PROVE  i \in r.met \/ PlaceOf(ships2, rows2, r, i) >= reach
    BY DEF Behind
  <2>2. i \in 1..Len(rows) /\ NameFits(ships, rows, q, i)
    BY <1>2, <1>3 DEF Reads
  <2>3. /\ i \in Listing(ships, rows, q)
        /\ PlaceOf(ships, rows, q, i) <= PlaceOf(ships2, rows2, r, i)
    BY <1>1, <1>3, <2>2, Drift
  <2>4. PlaceOf(ships, rows, q, i) \in Nat /\ PlaceOf(ships2, rows2, r, i) \in Nat
    BY AheadFinite
  <2>5. i \in q.met \/ PlaceOf(ships, rows, q, i) >= reach
    BY <1>3, <2>3 DEF Behind
  <2> QED
    BY <2>3, <2>4, <2>5
<1>4. ASSUME q.at \in {"page", "count"}, NEW i \in r.start
      PROVE  NameFits(ships2, rows2, r, i)
  BY <1>1, <1>2, <1>4 DEF Reads
<1>5. q.at = "page" => Behind(ships2, rows2, r, Offset(r))
  BY <1>2, <1>3 DEF Reads
<1>6. q.at = "count" => Behind(ships2, rows2, r, Offset(r) + r.size) /\ r.end <= Offset(r) + r.size
  BY <1>2, <1>3 DEF Reads
<1>7. q.at = "done" => r.start \subseteq r.met
  BY <1>2 DEF Reads
<1> QED
  BY <1>4, <1>5, <1>6, <1>7 DEF Reads

(* A step that renames vessels or adds rows. *)
LEMMA TablesMove ==
    ASSUME RegistryInv, NEW ships, Rename(ships), Log(ships, track'),
           Grow(fleet, track, ships, track'), UNCHANGED registryClock
    PROVE  RegistryInv'
<1>1. PICK q \in Query : q = reader
  BY DEF RegistryInv
<1>2. PICK d \in BOOLEAN : d = (q.dropped \/ Drops(ships))
  OBVIOUS
<1>3. PICK r : r = [q EXCEPT !.dropped = d]
  OBVIOUS
<1>12. reader' = r /\ fleet' = ships
  BY <1>1, <1>2, <1>3 DEF Rename
<1>4. /\ r \in Query /\ SameFilters(q, r) /\ r.dropped = d
      /\ r.at = q.at /\ r.size = q.size /\ r.page = q.page /\ r.end = q.end
      /\ r.start = q.start /\ r.met = q.met /\ r.since = q.since /\ r.search = q.search
  <2>1. r \in Query /\ r.dropped = d
    BY <1>3 DEF Query
  <2>2. /\ r.at = q.at /\ r.size = q.size /\ r.page = q.page /\ r.end = q.end
        /\ r.start = q.start /\ r.met = q.met /\ r.since = q.since /\ r.search = q.search
        /\ r.boxed = q.boxed /\ r.latest = q.latest
    BY <1>3 DEF Query
  <2>3. q.since \in Nat
    BY DEF Query
  <2> QED
    BY <2>1, <2>2, <2>3 DEF SameFilters
<1>11. q.dropped \/ Drops(ships) => r.dropped
  BY <1>2, <1>4
<1>5. Len(track) \in Nat /\ Len(track') \in Nat /\ Len(track) <= Len(track')
  BY LenProperties DEF RegistryInv, Log, Grow
<1>6. q.start \subseteq 1..Len(track) /\ q.start \subseteq 1..Len(track')
  BY <1>1, <1>5 DEF RegistryInv
<1>7. ASSUME ~r.dropped, q.at \in {"page", "count"}, NEW j \in 1..Len(track),
             NameFits(fleet, track, q, j)
      PROVE  NameFits(ships, track', r, j)
  <2>1. track'[j] = track[j] /\ DOMAIN track = 1..Len(track)
    BY DEF Grow, RegistryInv, Log
  <2>2. Found(q, fleet, j)
    BY <1>7 DEF NameFits, Found
  <2>3. Found(q, ships, j)
    BY <1>1, <1>11, <1>7, <2>1, <2>2 DEF Drops
  <2> QED
    BY <1>4, <2>1, <2>3 DEF NameFits, Found
<1>8. Reads(ships, track', r)
  <2>1. Log(fleet, track) /\ Reads(fleet, track, q)
    BY <1>1 DEF RegistryInv
  <2>2. q.dropped => r.dropped
    BY <1>11
  <2> QED
    BY <1>4, <1>6, <1>7, <2>1, <2>2, ReadsOn
<1>9. /\ registryClock' \in Lookback..MaxRegistryClock
      /\ r.since <= registryClock' - Lookback
  BY <1>1, <1>4 DEF RegistryInv
<1>10. Log(fleet', track') /\ Reads(fleet', track', reader')
  BY <1>12, <1>8
<1> QED
  BY <1>12, <1>4, <1>6, <1>9, <1>10 DEF RegistryInv

LEMMA SaveRecordKeeps == RegistryInv /\ SaveRecord => RegistryInv'
<1> SUFFICES ASSUME RegistryInv, SaveRecord PROVE RegistryInv'
  OBVIOUS
<1> DEFINE Same(m) == {v \in DOMAIN fleet : fleet[v].imo = m.imo /\ fleet[v].mmsi = m.mmsi}
<1> DEFINE ShipOf(m) == IF Same(m) = {} THEN Len(fleet) + 1 ELSE CHOOSE w \in Same(m) : TRUE
           Ships(m, v) == IF Same(m) = {}
                          THEN Append(fleet, [imo |-> m.imo, mmsi |-> m.mmsi, name |-> m.name])
                          ELSE [fleet EXCEPT ![v].name = m.name]
<1>0. PICK m \in Message :
          /\ m.at <= registryClock
          /\ Rename(Ships(m, ShipOf(m)))
          /\ track' = Append(track, [vessel |-> ShipOf(m), at |-> m.at, inside |-> m.inside])
  BY DEF SaveRecord
<1>11. PICK v : v = ShipOf(m)
  OBVIOUS
<1>1. /\ m.at <= registryClock
      /\ v = IF Same(m) = {} THEN Len(fleet) + 1 ELSE CHOOSE w \in Same(m) : TRUE
      /\ Rename(IF Same(m) = {}
                THEN Append(fleet, [imo |-> m.imo, mmsi |-> m.mmsi, name |-> m.name])
                ELSE [fleet EXCEPT ![v].name = m.name])
      /\ track' = Append(track, [vessel |-> v, at |-> m.at, inside |-> m.inside])
  BY <1>0, <1>11
<1> HIDE DEF ShipOf, Ships
<1>2. UNCHANGED registryClock
  BY DEF SaveRecord
<1>3. /\ fleet \in Seq(ShipRow) /\ track \in Seq(TrackRow)
      /\ \A i \in 1..Len(track) : track[i].vessel \in 1..Len(fleet)
      /\ Len(fleet) \in Nat /\ Len(track) \in Nat
      /\ DOMAIN fleet = 1..Len(fleet)
  BY LenProperties DEF RegistryInv, Log
<1>4. m.mmsi \in Nat /\ m.at \in Nat /\ m.at \in 0..MaxRegistryClock
  <2>1. m.mmsi \in Nat /\ m.at \in Nat
    BY RegistryAssumption
  <2>2. registryClock \in Lookback..MaxRegistryClock /\ Lookback \in Nat /\ MaxRegistryClock \in Nat
    BY RegistryAssumption DEF RegistryInv
  <2> QED
    BY <1>1, <2>1, <2>2
<1>5. PICK entry : entry = [vessel |-> v, at |-> m.at, inside |-> m.inside]
  OBVIOUS
<1>6. CASE Same(m) = {}
  <2>1. PICK ship : ship = [imo |-> m.imo, mmsi |-> m.mmsi, name |-> m.name]
    OBVIOUS
  <2>2. ship \in ShipRow
    BY <1>4, <2>1 DEF ShipRow
  <2>3. PICK ships : ships = Append(fleet, ship)
    OBVIOUS
  <2>4. /\ ships \in Seq(ShipRow) /\ Len(ships) = Len(fleet) + 1
        /\ \A w \in 1..Len(fleet) : ships[w] = fleet[w]
    BY <1>3, <2>2, <2>3, AppendProperties
  <2>5. v = Len(fleet) + 1
    BY <1>1, <1>6
  <2>6. entry \in TrackRow
    BY <1>3, <1>4, <1>5, <2>5 DEF TrackRow
  <2>7. /\ track' \in Seq(TrackRow) /\ Len(track') = Len(track) + 1
        /\ \A i \in 1..Len(track) : track'[i] = track[i]
        /\ track'[Len(track) + 1] = entry
    BY <1>1, <1>3, <1>5, <2>6, AppendProperties
  <2>8. Log(ships, track')
    <3>1. ASSUME NEW i \in 1..Len(track') PROVE track'[i].vessel \in 1..Len(ships)
      <4>1. CASE i \in 1..Len(track)
        BY <1>3, <2>4, <2>7, <4>1
      <4>2. CASE i = Len(track) + 1
        BY <1>3, <1>5, <2>4, <2>5, <2>7, <4>2
      <4> QED
        BY <1>3, <2>7, <4>1, <4>2
    <3> QED
      BY <2>4, <2>7, <3>1 DEF Log
  <2>9. Grow(fleet, track, ships, track')
    BY <1>3, <2>4, <2>7 DEF Grow
  <2>10. Rename(ships)
    BY <1>1, <1>6, <2>1, <2>3
  <2> QED
    BY <1>2, <2>8, <2>9, <2>10, TablesMove
<1>7. CASE Same(m) # {}
  <2>1. v \in DOMAIN fleet
    BY <1>1, <1>7
  <2>2. PICK ship : ship = [fleet[v] EXCEPT !.name = m.name]
    OBVIOUS
  <2>3. fleet[v] \in ShipRow
    BY <1>3, <2>1, ElementOfSeq
  <2>4. ship \in ShipRow /\ ship.mmsi = fleet[v].mmsi
    BY <2>2, <2>3 DEF ShipRow
  <2>5. PICK ships : ships = [fleet EXCEPT ![v] = ship]
    OBVIOUS
  <2>6. /\ ships \in Seq(ShipRow) /\ Len(ships) = Len(fleet)
        /\ \A w \in 1..Len(fleet) : ships[w].mmsi = fleet[w].mmsi
    BY <1>3, <2>1, <2>4, <2>5, ExceptSeq
  <2>7. entry \in TrackRow
    BY <1>3, <1>4, <1>5, <2>1 DEF TrackRow
  <2>8. /\ track' \in Seq(TrackRow) /\ Len(track') = Len(track) + 1
        /\ \A i \in 1..Len(track) : track'[i] = track[i]
        /\ track'[Len(track) + 1] = entry
    BY <1>1, <1>3, <1>5, <2>7, AppendProperties
  <2>9. Log(ships, track')
    <3>1. ASSUME NEW i \in 1..Len(track') PROVE track'[i].vessel \in 1..Len(ships)
      <4>1. CASE i \in 1..Len(track)
        BY <1>3, <2>6, <2>8, <4>1
      <4>2. CASE i = Len(track) + 1
        BY <1>3, <1>5, <2>1, <2>6, <2>8, <4>2
      <4> QED
        BY <1>3, <2>8, <4>1, <4>2
    <3> QED
      BY <2>6, <2>8, <3>1 DEF Log
  <2>10. Grow(fleet, track, ships, track')
    BY <1>3, <2>6, <2>8 DEF Grow
  <2>11. Rename(ships)
    BY <1>1, <1>7, <2>2, <2>5
  <2> QED
    BY <1>2, <2>9, <2>10, <2>11, TablesMove
<1> QED
  BY <1>6, <1>7

LEMMA UpdateVesselKeeps == RegistryInv /\ UpdateVessel => RegistryInv'
<1> SUFFICES ASSUME RegistryInv, UpdateVessel PROVE RegistryInv'
  OBVIOUS
<1>1. PICK v \in DOMAIN fleet, c \in Correction :
          Rename([fleet EXCEPT ![v].name = Entered(c.name, @),
                               ![v].imo = Entered(c.imo, fleet[v].imo)])
  BY DEF UpdateVessel
<1>2. UNCHANGED registryClock /\ track' = track
  BY DEF UpdateVessel
<1>3. /\ fleet \in Seq(ShipRow) /\ track \in Seq(TrackRow)
      /\ \A i \in 1..Len(track) : track[i].vessel \in 1..Len(fleet)
      /\ Len(fleet) \in Nat /\ Len(track) \in Nat
      /\ DOMAIN fleet = 1..Len(fleet)
  BY LenProperties DEF RegistryInv, Log
<1>4. fleet[v] \in ShipRow
  BY <1>1, <1>3, ElementOfSeq
<1>5. PICK ship : ship = [fleet[v] EXCEPT !.name = Entered(c.name, fleet[v].name),
                                          !.imo = Entered(c.imo, fleet[v].imo)]
  OBVIOUS
<1>6. ship \in ShipRow /\ ship.mmsi = fleet[v].mmsi
  BY <1>4, <1>5 DEF ShipRow, Entered
<1>7. PICK ships : ships = [fleet EXCEPT ![v] = ship]
  OBVIOUS
<1>8. /\ ships \in Seq(ShipRow) /\ Len(ships) = Len(fleet)
      /\ \A w \in 1..Len(fleet) : ships[w].mmsi = fleet[w].mmsi
  BY <1>1, <1>3, <1>6, <1>7, ExceptSeq
<1>9. Log(ships, track')
  BY <1>2, <1>3, <1>8 DEF Log
<1>10. Grow(fleet, track, ships, track')
  BY <1>2, <1>3, <1>8 DEF Grow
<1>11. Rename(ships)
  BY <1>1, <1>5, <1>7
<1> QED
  BY <1>2, <1>9, <1>10, <1>11, TablesMove

LEMMA OpenExplorerKeeps == RegistryInv /\ OpenExplorer => RegistryInv'
<1> SUFFICES ASSUME RegistryInv, OpenExplorer PROVE RegistryInv'
  OBVIOUS
<1>1. PICK search \in BOOLEAN, boxed \in BOOLEAN, latest \in BOOLEAN, size \in PageSize :
          LET q == [NoReader EXCEPT !.at = "page", !.search = search, !.boxed = boxed,
                                    !.latest = latest, !.size = size, !.since = Since]
          IN  reader' = [q EXCEPT !.start = Entries(q)]
  BY DEF OpenExplorer
<1>2. PICK q : q = [NoReader EXCEPT !.at = "page", !.search = search, !.boxed = boxed,
                                    !.latest = latest, !.size = size, !.since = Since]
  OBVIOUS
<1>3. reader' = [q EXCEPT !.start = Entries(q)]
  BY <1>1, <1>2
<1>4. PICK set : set = Entries(q)
  OBVIOUS
<1>5. PICK r : r = [q EXCEPT !.start = set]
  OBVIOUS
<1>6. reader' = r /\ fleet' = fleet /\ track' = track /\ registryClock' = registryClock
  BY <1>3, <1>4, <1>5 DEF OpenExplorer
<1>7. Log(fleet, track)
  BY DEF RegistryInv
<1>8. set = Listing(fleet, track, q) /\ set \subseteq 1..Len(track) /\ set \in SUBSET Nat
  <2>1. set = Listing(fleet, track, q)
    BY <1>4, <1>7, AsListed
  <2>2. Len(track) \in Nat
    BY <1>7, LenProperties DEF Log
  <2> QED
    BY <1>7, <2>1, <2>2, ListingFinite
<1>9. Since \in Nat /\ Since <= registryClock - Lookback /\ size \in Nat \ {0}
  BY RegistryAssumption DEF RegistryInv, Since
<1>10. /\ r \in Query /\ r.at = "page" /\ r.start = set /\ r.page = 1 /\ ~r.dropped
       /\ r.search = q.search /\ r.boxed = q.boxed /\ r.latest = q.latest /\ r.since = q.since
       /\ r.since = Since /\ r.size \in Nat
  <2>1. PICK since \in Nat : since = Since
    BY <1>9
  <2>2. q = [at |-> "page", search |-> search, boxed |-> boxed, latest |-> latest,
             size |-> size, page |-> 1, since |-> since, end |-> 0, start |-> {},
             met |-> {}, dropped |-> FALSE]
    BY <1>2, <2>1 DEF NoReader
  <2>3. r = [at |-> "page", search |-> search, boxed |-> boxed, latest |-> latest,
             size |-> size, page |-> 1, since |-> since, end |-> 0, start |-> set,
             met |-> {}, dropped |-> FALSE]
    BY <1>5, <2>2
  <2>4. {} \in SUBSET Nat /\ 1 \in Nat \ {0} /\ 0 \in Nat /\ size \in Nat \ {0}
    BY <1>9
  <2>5. r \in Query
    BY <1>8, <2>3, <2>4 DEF Query
  <2> QED
    BY <1>9, <2>1, <2>2, <2>3, <2>5
<1>11. Offset(r) = 0
  BY <1>10 DEF Offset
<1>12. Behind(fleet, track, r, 0)
  <2>1. \A i : PlaceOf(fleet, track, r, i) \in Nat
    BY <1>7, AheadFinite
  <2> QED
    BY <2>1 DEF Behind
<1>13. ASSUME NEW i \in r.start PROVE NameFits(fleet, track, r, i)
  BY <1>8, <1>10, <1>13 DEF Listing, LastOf, RowsFor, NameFits
<1>14. Reads(fleet, track, r)
  BY <1>10, <1>11, <1>12, <1>13 DEF Reads
<1> QED
  BY <1>6, <1>7, <1>8, <1>9, <1>10, <1>14 DEF RegistryInv

LEMMA ReadPageKeeps == RegistryInv /\ ReadPage => RegistryInv'
<1> SUFFICES ASSUME RegistryInv, ReadPage PROVE RegistryInv'
  OBVIOUS
<1>1. PICK q \in Query : q = reader
  BY DEF RegistryInv
<1>2. PICK p : p = [q EXCEPT !.since = Since]
  OBVIOUS
<1>3. PICK page : page = Page(p)
  OBVIOUS
<1>4. PICK r : r = [p EXCEPT !.at = "count", !.end = Offset(p) + Cardinality(page),
                             !.met = p.met \cup page]
  OBVIOUS
<1>5. /\ reader' = r /\ fleet' = fleet /\ track' = track /\ registryClock' = registryClock
      /\ q.at = "page"
  BY <1>1, <1>2, <1>3, <1>4 DEF ReadPage
<1>6. Log(fleet, track) /\ Reads(fleet, track, q) /\ q.start \subseteq 1..Len(track)
  BY <1>1 DEF RegistryInv
<1>7. Since \in Nat /\ Since >= q.since /\ Since <= registryClock - Lookback
  <2>1. q.since \in Nat
    BY DEF Query
  <2> QED
    BY <1>1, <2>1, RegistryAssumption DEF RegistryInv, Since
<1>8. /\ p \in Query /\ p.search = q.search /\ p.boxed = q.boxed /\ p.latest = q.latest
      /\ p.since = Since /\ p.start = q.start /\ p.met = q.met /\ p.size = q.size
      /\ p.page = q.page /\ p.dropped = q.dropped
  BY <1>2, <1>7 DEF Query
<1>9. /\ page = OnPage(fleet, track, p) /\ Cardinality(page) \in Nat
      /\ Cardinality(page) <= p.size /\ page \in SUBSET Nat
  <2>1. page = OnPage(fleet, track, p)
    BY <1>3, <1>6, AsListed
  <2>2. Len(track) \in Nat
    BY <1>6, LenProperties DEF Log
  <2> QED
    BY <1>6, <1>8, <2>1, <2>2, PageFits
<1>10. Offset(p) \in Nat /\ p.size \in Nat
  BY <1>8, OffsetType
<1>11. /\ r \in Query /\ r.at = "count" /\ r.end = Offset(p) + Cardinality(page)
       /\ r.met = q.met \cup page /\ r.start = q.start /\ r.search = q.search
       /\ r.boxed = q.boxed /\ r.latest = q.latest /\ r.since = p.since
       /\ r.size = q.size /\ r.page = q.page /\ r.dropped = q.dropped
  <2>1. Offset(p) + Cardinality(page) \in Nat /\ p.met \cup page \in SUBSET Nat
    BY <1>8, <1>9, <1>10 DEF Query
  <2> QED
    BY <1>4, <1>8, <2>1 DEF Query
<1>12. Offset(r) = Offset(p) /\ r.size = p.size /\ r.end <= Offset(r) + r.size
  <2>1. Offset(r) = Offset(p)
    BY <1>8, <1>11 DEF Offset
  <2> QED
    BY <1>8, <1>9, <1>10, <1>11, <2>1
<1>13. ASSUME ~q.dropped, NEW i \in q.start
       PROVE  NameFits(fleet, track, q, i) /\ NameFits(fleet, track, r, i)
  BY <1>5, <1>6, <1>11, <1>13 DEF Reads, NameFits
<1>14. ASSUME ~q.dropped PROVE Behind(fleet, track, r, Offset(r) + r.size)
  <2>1. SUFFICES ASSUME NEW i \in r.start \cap Listing(fleet, track, r)
                 PROVE  i \in r.met \/ PlaceOf(fleet, track, r, i) >= Offset(r) + r.size
    BY DEF Behind
  <2>2. SameFilters(q, r)
    BY <1>7, <1>8, <1>11 DEF SameFilters
  <2>3. Grow(fleet, track, fleet, track)
    <3>1. Len(fleet) \in Nat /\ Len(track) \in Nat
      BY <1>6, LenProperties DEF Log
    <3> QED
      BY <3>1 DEF Grow
  <2>4. \A j \in 1..Len(track) : NameFits(fleet, track, q, j) => NameFits(fleet, track, r, j)
    BY <1>11 DEF NameFits
  <2>5. i \in 1..Len(track) /\ NameFits(fleet, track, q, i)
    BY <1>6, <1>11, <1>13, <1>14
  <2>6. /\ i \in Listing(fleet, track, q)
        /\ PlaceOf(fleet, track, q, i) <= PlaceOf(fleet, track, r, i)
    BY <1>6, <1>11, <2>2, <2>3, <2>4, <2>5, Drift
  <2>7. i \in q.met \/ PlaceOf(fleet, track, q, i) >= Offset(q)
    BY <1>5, <1>6, <1>11, <1>14, <2>6 DEF Reads, Behind
  <2>8. Offset(q) = Offset(r)
    BY <1>11 DEF Offset
  <2>9. PlaceOf(fleet, track, q, i) \in Nat /\ PlaceOf(fleet, track, r, i) \in Nat
    BY <1>6, AheadFinite
  <2>10. /\ Listing(fleet, track, r) = Listing(fleet, track, p)
         /\ PlaceOf(fleet, track, r, i) = PlaceOf(fleet, track, p, i)
    BY <1>8, <1>11, SameList
  <2>11. CASE /\ PlaceOf(fleet, track, r, i) >= Offset(r)
              /\ PlaceOf(fleet, track, r, i) < Offset(r) + r.size
    BY <1>9, <1>11, <1>12, <2>10, <2>11 DEF OnPage
  <2> QED
    BY <1>10, <1>11, <1>12, <2>6, <2>7, <2>8, <2>9, <2>11
<1>15. Reads(fleet, track, r)
  BY <1>11, <1>12, <1>13, <1>14 DEF Reads
<1>16. r.since <= registryClock' - Lookback
  BY <1>5, <1>7, <1>8, <1>11
<1>17. r.start \subseteq 1..Len(track')
  BY <1>5, <1>6, <1>11
<1> QED
  BY <1>5, <1>6, <1>11, <1>15, <1>16, <1>17 DEF RegistryInv

LEMMA CountPositionsKeeps == RegistryInv /\ CountPositions => RegistryInv'
<1> SUFFICES ASSUME RegistryInv, CountPositions PROVE RegistryInv'
  OBVIOUS
<1>1. PICK q \in Query : q = reader
  BY DEF RegistryInv
<1>2. /\ fleet' = fleet /\ track' = track /\ registryClock' = registryClock /\ q.at = "count"
  BY <1>1 DEF CountPositions
<1>3. Log(fleet, track) /\ Reads(fleet, track, q) /\ q.start \subseteq 1..Len(track)
  BY <1>1 DEF RegistryInv
<1>4. Entries(q) = Listing(fleet, track, q)
  BY <1>3, AsListed
<1>5. /\ Offset(q) \in Nat /\ q.size \in Nat /\ q.page * q.size = Offset(q) + q.size
      /\ q.page \in Nat
  BY OffsetType DEF Query
<1>6. CASE HasMore
  <2>1. PICK r : r = [q EXCEPT !.at = "page", !.page = q.page + 1]
    OBVIOUS
  <2>2. reader' = r
    BY <1>1, <1>6, <2>1 DEF CountPositions
  <2>3. /\ r \in Query /\ r.at = "page" /\ r.page = q.page + 1 /\ r.start = q.start
        /\ r.met = q.met /\ r.search = q.search /\ r.boxed = q.boxed /\ r.latest = q.latest
        /\ r.since = q.since /\ r.size = q.size /\ r.dropped = q.dropped
    <3>1. q.page + 1 \in Nat \ {0}
      BY <1>5
    <3> QED
      BY <2>1, <3>1 DEF Query
  <2>4. Offset(r) = Offset(q) + q.size
    <3>1. (q.page + 1) - 1 = q.page
      BY <1>5
    <3> QED
      BY <1>5, <2>3, <3>1 DEF Offset
  <2>5. /\ Listing(fleet, track, r) = Listing(fleet, track, q)
        /\ \A i : PlaceOf(fleet, track, r, i) = PlaceOf(fleet, track, q, i)
    BY <2>3, SameList
  <2>6. ASSUME ~q.dropped
        PROVE  /\ Behind(fleet, track, r, Offset(r))
               /\ \A i \in r.start : NameFits(fleet, track, r, i)
    <3>1. Behind(fleet, track, q, Offset(r))
      BY <1>2, <1>3, <2>4, <2>6 DEF Reads
    <3>2. Behind(fleet, track, r, Offset(r))
      BY <2>3, <2>5, <3>1 DEF Behind
    <3>3. \A i \in r.start : NameFits(fleet, track, r, i)
      BY <1>2, <1>3, <2>3, <2>6 DEF Reads, NameFits
    <3> QED
      BY <3>2, <3>3
  <2>7. Reads(fleet, track, r)
    BY <2>3, <2>6 DEF Reads
  <2> QED
    BY <1>1, <1>2, <1>3, <2>2, <2>3, <2>7 DEF RegistryInv
<1>7. CASE ~HasMore
  <2>1. PICK r : r = [q EXCEPT !.at = "done", !.start = q.start \cap Entries(q)]
    OBVIOUS
  <2>2. reader' = r
    BY <1>1, <1>7, <2>1 DEF CountPositions
  <2>3. /\ r \in Query /\ r.at = "done" /\ r.start = q.start \cap Entries(q)
        /\ r.met = q.met /\ r.since = q.since /\ r.dropped = q.dropped
    <3>1. q.start \cap Entries(q) \in SUBSET Nat
      BY DEF Query
    <3> QED
      BY <2>1, <3>1 DEF Query
  <2>4. ASSUME ~q.dropped, NEW i \in r.start PROVE i \in r.met
    <3>1. i \in q.start /\ i \in Listing(fleet, track, q)
      BY <1>4, <2>3
    <3>2. i \in q.met \/ PlaceOf(fleet, track, q, i) >= Offset(q) + q.size
      BY <1>2, <1>3, <2>4, <3>1 DEF Reads, Behind
    <3>3. q.end <= Offset(q) + q.size /\ q.end \in Nat
      BY <1>2, <1>3, <2>4 DEF Reads, Query
    <3>4. /\ PlaceOf(fleet, track, q, i) < Cardinality(Listing(fleet, track, q))
          /\ PlaceOf(fleet, track, q, i) \in Nat
          /\ Cardinality(Listing(fleet, track, q)) \in Nat
      BY <1>3, <3>1, PlaceInList, AheadFinite, ListingFinite
    <3>5. ~(q.end < Cardinality(Listing(fleet, track, q)))
      BY <1>1, <1>4, <1>7 DEF HasMore
    <3> QED
      BY <1>5, <2>3, <3>2, <3>3, <3>4, <3>5
  <2>5. Reads(fleet, track, r)
    BY <2>3, <2>4 DEF Reads
  <2>6. r.start \subseteq 1..Len(track')
    BY <1>2, <1>3, <2>3
  <2> QED
    BY <1>1, <1>2, <1>3, <2>2, <2>3, <2>5, <2>6 DEF RegistryInv
<1> QED
  BY <1>6, <1>7

LEMMA RegistryStep == RegistryInv /\ [RegistryNext]_registryVars => RegistryInv'
<1> SUFFICES ASSUME RegistryInv, [RegistryNext]_registryVars PROVE RegistryInv'
  OBVIOUS
<1>1. CASE RegistryTick
  <2>1. registryClock' \in Lookback..MaxRegistryClock /\ registryClock' = registryClock + 1
    BY <1>1, RegistryAssumption DEF RegistryTick, RegistryInv
  <2>2. UNCHANGED <<fleet, track, reader>>
    BY <1>1 DEF RegistryTick
  <2>3. reader.since \in Nat /\ registryClock \in Int /\ Lookback \in Nat
    BY RegistryAssumption DEF RegistryInv, Query
  <2>4. reader.since <= registryClock' - Lookback
    BY <2>1, <2>3 DEF RegistryInv
  <2> QED
    BY <2>1, <2>2, <2>4 DEF RegistryInv
<1>2. CASE UNCHANGED registryVars
  BY <1>2 DEF RegistryInv, registryVars
<1> QED
  BY <1>1, <1>2, SaveRecordKeeps, UpdateVesselKeeps, OpenExplorerKeeps, ReadPageKeeps,
     CountPositionsKeeps DEF RegistryNext

(* Whoever turns all pages has met every row that was in the list from the *)
(* first to the last, whatever was reported in between, unless a row has   *)
(* left a search (interfaces/web/ais.py:161-187, sqlite_ais.py:290-341).   *)
THEOREM PagesAlwaysMeetAll == RegistrySpec => []PagesMeetAll
<1>1. RegistryInv => PagesMeetAll
  BY DEF RegistryInv, Reads, PagesMeetAll
<1> QED
  BY <1>1, RegistryInitially, RegistryStep, PTL DEF RegistrySpec

-----------------------------------------------------------------------------
(***************************************************************************)
(* The baseline of an area.                                                *)
(*                                                                         *)
(* A cluster of a structure that stays in its place has its centroid there *)
(* (Own) for as long as nothing else joins it; everything else that was    *)
(* read is more than twice the radius away, and a cluster with such a      *)
(* member last is not near the place (Apart).  So of the clusters exactly  *)
(* one is the structure's, and it has the passes it was read in (Kept).    *)
(* On the disk, unless two backfills have written at once, whoever writes  *)
(* is alone with a file that is not the stored one (OneWriter).            *)
(***************************************************************************)
(* A set that has 0 and with each number below n the next has all up to n. *)
LEMMA UpTo ==
    ASSUME NEW n \in Nat, NEW S, 0 \in S, \A k \in 0..n : k \in S /\ k < n => k + 1 \in S
    PROVE  \A k \in 0..n : k \in S
<1> DEFINE T == {k \in 0..n : k \notin S}
<1>1. SUFFICES ASSUME T # {} PROVE FALSE
  OBVIOUS
<1>2. PICK t \in T : \A u \in T : t <= u
  <2>1. T \in SUBSET Nat
    OBVIOUS
  <2> QED
    BY <1>1, <2>1, LeastOf
<1>3. t # 0 /\ t \in 0..n /\ t \notin S
  OBVIOUS
<1>4. t - 1 \in 0..n /\ t - 1 < n /\ (t - 1) + 1 = t
  BY <1>3
<1>5. t - 1 \notin T
  BY <1>2, <1>3, <1>4
<1>6. t - 1 \in S
  BY <1>4, <1>5
<1> QED
  BY <1>3, <1>4, <1>6

(* Squares. *)
LEMMA SquareNat ==
    ASSUME NEW x \in Int
    PROVE  x * x \in Nat
  OBVIOUS

LEMMA TimesMonotone ==
    ASSUME NEW a \in Int, NEW b \in Int, NEW n \in Nat, a <= b
    PROVE  n * a <= n * b
<1>1. b - a \in Nat
  OBVIOUS
<1>2. n * (b - a) \in Nat
  BY <1>1
<1>3. n * (b - a) = n * b - n * a
  OBVIOUS
<1> QED
  BY <1>2, <1>3

LEMMA Parallelogram ==
    ASSUME NEW u \in Int, NEW v \in Int, NEW w \in Int, NEW x \in Int
    PROVE  (u + w) * (u + w) + (v + x) * (v + x) <= 2 * (u * u + v * v) + 2 * (w * w + x * x)
<1>1. (u - w) * (u - w) \in Nat /\ (v - x) * (v - x) \in Nat
  BY SquareNat
<1>2. (u + w) * (u + w) + (u - w) * (u - w) = 2 * (u * u) + 2 * (w * w)
  OBVIOUS
<1>3. (v + x) * (v + x) + (v - x) * (v - x) = 2 * (v * v) + 2 * (x * x)
  OBVIOUS
<1>4. /\ (u + w) * (u + w) \in Int /\ (v + x) * (v + x) \in Int
      /\ u * u \in Int /\ v * v \in Int /\ w * w \in Int /\ x * x \in Int
  OBVIOUS
<1> QED
  BY <1>1, <1>2, <1>3, <1>4

-----------------------------------------------------------------------------
Point == Int \X Int

Far(p, d) == SquaredDistance(p, d) > 4 * Radius * Radius

Founded == [sum : Point, n : Nat \ {0}, passes : SUBSET Pass]

LEMMA GapIs ==
    ASSUME NEW c \in Founded, NEW p \in Point
    PROVE  /\ Gap(c, p) = (c.sum[1] - c.n * p[1]) * (c.sum[1] - c.n * p[1])
                          + (c.sum[2] - c.n * p[2]) * (c.sum[2] - c.n * p[2])
           /\ c.sum[1] - c.n * p[1] \in Int /\ c.sum[2] - c.n * p[2] \in Int
           /\ Gap(c, p) \in Nat
<1>1. /\ c.sum[1] \in Int /\ c.sum[2] \in Int /\ c.n \in Nat /\ p[1] \in Int /\ p[2] \in Int
  BY DEF Founded, Point
<1>2. c.sum[1] - c.n * p[1] \in Int /\ c.sum[2] - c.n * p[2] \in Int
  BY <1>1
<1>3. Gap(c, p) = (c.sum[1] - c.n * p[1]) * (c.sum[1] - c.n * p[1])
                  + (c.sum[2] - c.n * p[2]) * (c.sum[2] - c.n * p[2])
  BY DEF Gap, SquaredDistance
<1>4. /\ (c.sum[1] - c.n * p[1]) * (c.sum[1] - c.n * p[1]) \in Nat
      /\ (c.sum[2] - c.n * p[2]) * (c.sum[2] - c.n * p[2]) \in Nat
  BY <1>2, SquareNat
<1> QED
  BY <1>2, <1>3, <1>4

(* A cluster whose last member is far from a place has not come near it. *)
LEMMA FarMember ==
    ASSUME NEW c \in Founded, NEW p \in Point, NEW d \in Point, Far(p, d), Near(c, d)
    PROVE  ~Near(c, p)
<1>1. SUFFICES ASSUME Near(c, p) PROVE FALSE
  OBVIOUS
<1>2. PICK n \in Nat : n = c.n /\ n >= 1
  BY DEF Founded
<1>3. PICK r \in Nat : r = Radius * Radius
  BY SeriesAssumption, SquareNat
<1>4. PICK s \in Int, t \in Int, x \in Int, y \in Int, e \in Int, f \in Int :
          /\ s = c.sum[1] /\ t = c.sum[2] /\ x = p[1] /\ y = p[2] /\ e = d[1] /\ f = d[2]
  BY DEF Founded, Point
<1> DEFINE u == s - n * e
           v == t - n * f
           w == s - n * x
           z == t - n * y
           q == (x - e) * (x - e) + (y - f) * (y - f)
<1>5. u \in Int /\ v \in Int /\ w \in Int /\ z \in Int /\ q \in Int
  OBVIOUS
<1>6. u * u + v * v <= r * n * n
  BY <1>2, <1>3, <1>4, GapIs DEF Near
<1>7. w * w + z * z <= r * n * n
  BY <1>1, <1>2, <1>3, <1>4, GapIs DEF Near
<1>8. q > 4 * r
  <2>1. 4 * Radius * Radius = 4 * (Radius * Radius)
    BY SeriesAssumption
  <2>2. SquaredDistance(p, d) = q
    BY <1>4 DEF SquaredDistance
  <2> QED
    BY <1>3, <2>1, <2>2 DEF Far
<1>9. (u - w) * (u - w) + (v - z) * (v - z) <= 2 * (u * u + v * v) + 2 * (w * w + z * z)
  <2>1. -w \in Int /\ -z \in Int
    BY <1>5
  <2>2. (u + (-w)) * (u + (-w)) + (v + (-z)) * (v + (-z))
            <= 2 * (u * u + v * v) + 2 * ((-w) * (-w) + (-z) * (-z))
    BY <1>5, <2>1, Parallelogram
  <2>3. u + (-w) = u - w /\ v + (-z) = v - z /\ (-w) * (-w) = w * w /\ (-z) * (-z) = z * z
    BY <1>5
  <2> QED
    BY <2>2, <2>3
<1>10. u - w = n * (x - e) /\ v - z = n * (y - f)
  OBVIOUS
<1>11. (n * (x - e)) * (n * (x - e)) + (n * (y - f)) * (n * (y - f)) = (n * n) * q
  OBVIOUS
<1>12. (n * n) * q <= 4 * (r * n * n)
  <2>1. /\ u * u + v * v \in Int /\ w * w + z * z \in Int /\ r * n * n \in Int
        /\ (n * n) * q \in Int
    BY <1>5
  <2> HIDE DEF u, v, w, z, q
  <2>2. (n * n) * q <= 2 * (u * u + v * v) + 2 * (w * w + z * z)
    BY <1>9, <1>10, <1>11
  <2> QED
    BY <1>6, <1>7, <2>1, <2>2
<1>13. (n * n) * (4 * r + 1) <= (n * n) * q
  <2>1. n * n \in Nat /\ 4 * r + 1 \in Int /\ 4 * r + 1 <= q
    BY <1>5, <1>8
  <2> HIDE DEF q
  <2> QED
    BY <1>5, <2>1, TimesMonotone
<1>14. (n * n) * (4 * r + 1) = 4 * (r * n * n) + n * n
  OBVIOUS
<1>15. n * n >= 1
  BY <1>2
<1>16. r * n * n \in Int /\ n * n \in Int /\ (n * n) * q \in Int
  BY <1>5
<1> HIDE DEF q
<1> QED
  BY <1>12, <1>13, <1>14, <1>15, <1>16

(* A cluster of one place is not near what is far from it. *)
LEMMA OwnFar ==
    ASSUME NEW c \in Founded, NEW p \in Point, NEW d \in Point, Far(p, d), Gap(c, p) = 0
    PROVE  ~Near(c, d)
<1>1. SquaredDistance(d, p) = SquaredDistance(p, d)
  BY DEF SquaredDistance, Point
<1>2. Far(d, p)
  BY <1>1 DEF Far
<1>3. Near(c, p)
  <2>1. Radius * Radius \in Nat /\ c.n \in Nat
    BY SeriesAssumption, SquareNat DEF Founded
  <2>2. Radius * Radius * c.n * c.n \in Nat
    BY <2>1
  <2> QED
    BY <2>2 DEF Near
<1> QED
  BY <1>2, <1>3, FarMember

-----------------------------------------------------------------------------
(* A cluster of members at p alone, and one with a member far from p. *)
Own(c, p) == Gap(c, p) = 0

Apart(c, p) == \E d \in Point : Far(p, d) /\ Near(c, d)

(* The clusters of what was read, with p read in the passes `seen'. *)
Kept(cs, p, seen) ==
    /\ \A i \in DOMAIN cs : Apart(cs[i], p) \/ (Own(cs[i], p) /\ cs[i].passes = seen)
    /\ \A i, j \in DOMAIN cs : Own(cs[i], p) /\ Own(cs[j], p) => i = j
    /\ seen # {} <=> \E i \in DOMAIN cs : Own(cs[i], p)

FoundBy(d) == [sum |-> d.place, n |-> 1, passes |-> {d.pass}]

Joined(c, d) == [sum |-> <<c.sum[1] + d.place[1], c.sum[2] + d.place[2]>>,
                 n |-> c.n + 1, passes |-> c.passes \cup {d.pass}]

TargetOfPass == [pass : Pass, place : Point]

LEMMA OwnNear ==
    ASSUME NEW c \in Founded, NEW p \in Point, Own(c, p)
    PROVE  Near(c, p)
<1>1. Radius * Radius \in Nat /\ c.n \in Nat
  BY SeriesAssumption, SquareNat DEF Founded
<1>2. Radius * Radius * c.n * c.n \in Nat
  BY <1>1
<1> QED
  BY <1>2 DEF Near, Own

LEMMA ApartNotNear ==
    ASSUME NEW c \in Founded, NEW p \in Point, Apart(c, p)
    PROVE  ~Near(c, p) /\ ~Own(c, p)
<1>1. ~Near(c, p)
  BY FarMember DEF Apart
<1> QED
  BY <1>1, OwnNear

LEMMA FoundByIs ==
    ASSUME NEW d \in TargetOfPass
    PROVE  FoundBy(d) \in Founded /\ Gap(FoundBy(d), d.place) = 0 /\ FoundBy(d).passes = {d.pass}
<1>1. d.place \in Point /\ d.pass \in Pass
  BY DEF TargetOfPass
<1>2. FoundBy(d) \in Founded
  BY <1>1 DEF FoundBy, Founded
<1>3. FoundBy(d).sum = d.place /\ FoundBy(d).n = 1 /\ FoundBy(d).passes = {d.pass}
  BY DEF FoundBy
<1>4. d.place[1] \in Int /\ d.place[2] \in Int
  BY <1>1 DEF Point
<1>5. Gap(FoundBy(d), d.place) = 0
  <2>1. d.place[1] - 1 * d.place[1] = 0 /\ d.place[2] - 1 * d.place[2] = 0
    BY <1>4
  <2> QED
    BY <1>1, <1>2, <1>3, <2>1, GapIs
<1> QED
  BY <1>2, <1>3, <1>5

LEMMA JoinedIs ==
    ASSUME NEW c \in Founded, NEW d \in TargetOfPass
    PROVE  /\ Joined(c, d) \in Founded
           /\ Joined(c, d).passes = c.passes \cup {d.pass}
           /\ Gap(Joined(c, d), d.place) = Gap(c, d.place)
           /\ Near(c, d.place) => Near(Joined(c, d), d.place)
<1>1. d.place \in Point /\ d.pass \in Pass
  BY DEF TargetOfPass
<1>2. PICK n \in Nat \ {0}, s \in Int, t \in Int, x \in Int, y \in Int :
          n = c.n /\ s = c.sum[1] /\ t = c.sum[2] /\ x = d.place[1] /\ y = d.place[2]
  BY <1>1 DEF Founded, Point
<1>3. Joined(c, d) \in Founded
  <2>1. <<s + x, t + y>> \in Point /\ n + 1 \in Nat \ {0} /\ c.passes \cup {d.pass} \in SUBSET Pass
    BY <1>1 DEF Point, Founded
  <2> QED
    BY <1>2, <2>1 DEF Joined, Founded
<1>4. /\ Joined(c, d).sum[1] = s + x /\ Joined(c, d).sum[2] = t + y
      /\ Joined(c, d).n = n + 1 /\ Joined(c, d).passes = c.passes \cup {d.pass}
  BY <1>2 DEF Joined
<1>5. (s + x) - (n + 1) * x = s - n * x /\ (t + y) - (n + 1) * y = t - n * y
  OBVIOUS
<1>6. Gap(Joined(c, d), d.place) = Gap(c, d.place)
  <2>1. Gap(c, d.place) = (s - n * x) * (s - n * x) + (t - n * y) * (t - n * y)
    BY <1>1, <1>2, GapIs
  <2>2. Gap(Joined(c, d), d.place)
          = ((s + x) - (n + 1) * x) * ((s + x) - (n + 1) * x)
            + ((t + y) - (n + 1) * y) * ((t + y) - (n + 1) * y)
    BY <1>1, <1>2, <1>3, <1>4, GapIs
  <2> QED
    BY <1>5, <2>1, <2>2
<1>7. ASSUME Near(c, d.place) PROVE Near(Joined(c, d), d.place)
  <2>1. PICK r \in Nat : r = Radius * Radius
    BY SeriesAssumption, SquareNat
  <2>2. PICK g \in Nat : g = Gap(c, d.place)
    BY <1>1, GapIs
  <2>3. g <= r * n * n
    BY <1>2, <1>7, <2>1, <2>2 DEF Near
  <2>4. r * (n + 1) * (n + 1) = r * n * n + 2 * (r * n) + r
    OBVIOUS
  <2>5. r * n \in Nat /\ r * n * n \in Nat
    OBVIOUS
  <2>6. g <= r * (n + 1) * (n + 1)
    BY <2>3, <2>4, <2>5
  <2> QED
    BY <1>4, <1>6, <2>1, <2>2, <2>6 DEF Near
<1> QED
  BY <1>3, <1>4, <1>6, <1>7

(* What Join does to the list of clusters. *)
LEMMA JoinIs ==
    ASSUME NEW cs \in Seq(Founded), NEW d \in TargetOfPass
    PROVE  \/ /\ Best(cs, d.place) = {}
              /\ Join(cs, d) = Append(cs, FoundBy(d))
           \/ \E i \in DOMAIN cs :
                  /\ i \in Best(cs, d.place)
                  /\ Near(cs[i], d.place)
                  /\ Join(cs, d) = [cs EXCEPT ![i] = Joined(cs[i], d)]
<1>1. CASE Best(cs, d.place) = {}
  BY <1>1 DEF Join, FoundBy
<1>2. CASE Best(cs, d.place) # {}
  <2> DEFINE i == CHOOSE j \in Best(cs, d.place) : TRUE
  <2>1. i \in Best(cs, d.place)
    BY <1>2
  <2>2. i \in DOMAIN cs /\ Near(cs[i], d.place)
    BY <2>1 DEF Best
  <2>3. Join(cs, d) = [cs EXCEPT ![i] = Joined(cs[i], d)]
    BY <1>2, <2>2 DEF Join, Joined
  <2> QED
    BY <2>1, <2>2, <2>3
<1> QED
  BY <1>1, <1>2

LEMMA JoinTyped ==
    ASSUME NEW cs \in Seq(Founded), NEW d \in TargetOfPass
    PROVE  Join(cs, d) \in Seq(Founded)
<1>1. FoundBy(d) \in Founded
  BY FoundByIs
<1>2. \A i \in DOMAIN cs : cs[i] \in Founded /\ Joined(cs[i], d) \in Founded
  BY JoinedIs
<1>3. Append(cs, FoundBy(d)) \in Seq(Founded)
  BY <1>1
<1>4. \A i \in DOMAIN cs : [cs EXCEPT ![i] = Joined(cs[i], d)] \in Seq(Founded)
  BY <1>2
<1> QED
  BY <1>3, <1>4, JoinIs

(* A list is as long after a join as before it, or longer by the founded   *)
(* cluster.                                                                *)
LEMMA JoinKeeps ==
    ASSUME NEW cs \in Seq(Founded), NEW d \in TargetOfPass, NEW p \in Point,
           NEW seen \in SUBSET Pass, Kept(cs, p, seen), d.place = p \/ Far(p, d.place)
    PROVE  Kept(Join(cs, d), p, IF d.place = p THEN seen \cup {d.pass} ELSE seen)
<1>1. \A i \in DOMAIN cs : cs[i] \in Founded
  OBVIOUS
<1>2. d.place \in Point /\ d.pass \in Pass
  BY DEF TargetOfPass
<1>3. \A i \in DOMAIN cs : Apart(cs[i], p) => ~Near(cs[i], p) /\ ~Own(cs[i], p)
  BY <1>1, ApartNotNear
<1>4. CASE d.place = p
  <2>1. CASE Best(cs, d.place) = {}
    <3>1. \A i \in DOMAIN cs : ~Own(cs[i], p)
      <4>1. SUFFICES ASSUME NEW i \in DOMAIN cs, Own(cs[i], p) PROVE FALSE
        OBVIOUS
      <4>2. Near(cs[i], p)
        BY <1>1, <4>1, OwnNear
      <4>3. \A j \in DOMAIN cs : Near(cs[j], p) => j = i
        BY <1>3, <4>1 DEF Kept
      <4>4. ~Nearer(cs[i], cs[i], p)
        BY <1>1, GapIs, <4>1 DEF Nearer, Own, Founded
      <4>5. \A j \in 1..(i - 1) : j # i /\ j \in DOMAIN cs
        OBVIOUS
      <4>6. i \in Best(cs, p)
        BY <4>2, <4>3, <4>4, <4>5 DEF Best
      <4> QED
        BY <1>4, <2>1, <4>6
    <3>2. seen = {} /\ \A i \in DOMAIN cs : Apart(cs[i], p)
      BY <3>1 DEF Kept
    <3>3. Join(cs, d) = Append(cs, FoundBy(d))
      BY <2>1, JoinIs
    <3>4. Own(FoundBy(d), p) /\ FoundBy(d).passes = seen \cup {d.pass}
      BY <1>4, <3>2, FoundByIs DEF Own
    <3> DEFINE new == Append(cs, FoundBy(d))
    <3>5. /\ DOMAIN new = 1..(Len(cs) + 1) /\ DOMAIN cs = 1..Len(cs) /\ Len(cs) \in Nat
          /\ new[Len(cs) + 1] = FoundBy(d)
          /\ \A i \in 1..Len(cs) : new[i] = cs[i]
      BY FoundByIs
    <3>6. \A i \in DOMAIN new : i \in DOMAIN cs \/ i = Len(cs) + 1
      BY <3>5
    <3> HIDE DEF new
    <3>7. \A i \in DOMAIN new : Own(new[i], p) <=> i = Len(cs) + 1
      BY <3>1, <3>4, <3>5, <3>6
    <3>8. Kept(new, p, seen \cup {d.pass})
      BY <3>2, <3>4, <3>5, <3>6, <3>7 DEF Kept
    <3> QED
      BY <1>4, <3>3, <3>8 DEF new
  <2>2. CASE \E i \in DOMAIN cs : /\ i \in Best(cs, d.place)
                                  /\ Near(cs[i], d.place)
                                  /\ Join(cs, d) = [cs EXCEPT ![i] = Joined(cs[i], d)]
    <3>1. PICK i \in DOMAIN cs : Near(cs[i], p) /\ Join(cs, d) = [cs EXCEPT ![i] = Joined(cs[i], d)]
      BY <1>4, <2>2
    <3>2. Own(cs[i], p) /\ cs[i].passes = seen
      BY <1>3, <3>1 DEF Kept
    <3>3. Own(Joined(cs[i], d), p) /\ Joined(cs[i], d).passes = seen \cup {d.pass}
      BY <1>1, <1>4, <3>2, JoinedIs DEF Own
    <3> DEFINE new == [cs EXCEPT ![i] = Joined(cs[i], d)]
    <3>4. DOMAIN new = DOMAIN cs /\ new[i] = Joined(cs[i], d)
          /\ \A j \in DOMAIN cs : j # i => new[j] = cs[j]
      OBVIOUS
    <3> HIDE DEF new
    <3>5. \A j \in DOMAIN cs : j # i => Apart(cs[j], p) /\ ~Own(cs[j], p)
      BY <1>3, <3>2 DEF Kept
    <3>6. Kept(new, p, seen \cup {d.pass})
      BY <3>3, <3>4, <3>5 DEF Kept
    <3> QED
      BY <1>4, <3>1, <3>6 DEF new
  <2> QED
    BY <2>1, <2>2, JoinIs
<1>5. CASE d.place # p
  <2>0. Far(p, d.place)
    BY <1>5
  <2>1. CASE Best(cs, d.place) = {}
    <3>1. Join(cs, d) = Append(cs, FoundBy(d))
      BY <2>1, JoinIs
    <3>2. Apart(FoundBy(d), p)
      <4>1. FoundBy(d) \in Founded /\ Near(FoundBy(d), d.place)
        BY <1>2, FoundByIs, OwnNear DEF Own
      <4> QED
        BY <1>2, <2>0, <4>1 DEF Apart
    <3>3. ~Own(FoundBy(d), p)
      BY <3>2, FoundByIs, ApartNotNear
    <3> DEFINE new == Append(cs, FoundBy(d))
    <3>5. /\ DOMAIN new = 1..(Len(cs) + 1) /\ DOMAIN cs = 1..Len(cs) /\ Len(cs) \in Nat
          /\ new[Len(cs) + 1] = FoundBy(d)
          /\ \A i \in 1..Len(cs) : new[i] = cs[i]
      BY FoundByIs
    <3>6. \A i \in DOMAIN new : i \in DOMAIN cs \/ i = Len(cs) + 1
      BY <3>5
    <3>7. \A i \in DOMAIN cs : i \in DOMAIN new
      BY <3>5
    <3> HIDE DEF new
    <3>8. Kept(new, p, seen)
      BY <3>2, <3>3, <3>5, <3>6, <3>7 DEF Kept
    <3> QED
      BY <1>5, <3>1, <3>8 DEF new
  <2>2. CASE \E i \in DOMAIN cs : /\ i \in Best(cs, d.place)
                                  /\ Near(cs[i], d.place)
                                  /\ Join(cs, d) = [cs EXCEPT ![i] = Joined(cs[i], d)]
    <3>1. PICK i \in DOMAIN cs : Near(cs[i], d.place) /\ Join(cs, d) = [cs EXCEPT ![i] = Joined(cs[i], d)]
      BY <2>2
    <3>2. ~Own(cs[i], p)
      BY <1>1, <1>2, <2>0, <3>1, OwnFar DEF Own
    <3>3. Apart(Joined(cs[i], d), p)
      BY <1>1, <1>2, <2>0, <3>1, JoinedIs DEF Apart
    <3>4. ~Own(Joined(cs[i], d), p)
      BY <1>1, <3>3, JoinedIs, ApartNotNear
    <3> DEFINE new == [cs EXCEPT ![i] = Joined(cs[i], d)]
    <3>5. DOMAIN new = DOMAIN cs /\ new[i] = Joined(cs[i], d)
          /\ \A j \in DOMAIN cs : j # i => new[j] = cs[j]
      OBVIOUS
    <3> HIDE DEF new
    <3>6. Kept(new, p, seen)
      BY <3>2, <3>3, <3>4, <3>5 DEF Kept
    <3> QED
      BY <1>5, <3>1, <3>6 DEF new
  <2> QED
    BY <2>1, <2>2, JoinIs
<1> QED
  BY <1>4, <1>5

-----------------------------------------------------------------------------
(* Joining the targets of a scan one by one, each step from G[i] to        *)
(* G[i + 1], ends in G[Len(targets)].                                      *)
LEMMA ScanSteps ==
    ASSUME NEW cs, NEW scan \in Scan, NEW G, cs \in G[0],
           \A i \in 0..(Len(scan.targets) - 1) : \A x \in G[i] :
               Join(x, [pass |-> scan.pass, place |-> scan.targets[i + 1]]) \in G[i + 1]
    PROVE  JoinScan(cs, scan) \in G[Len(scan.targets)]
<1> DEFINE n == Len(scan.targets)
           D(i) == [pass |-> scan.pass, place |-> scan.targets[i]]
           Is(f, k) == f = [i \in 0..k |-> IF i = 0 THEN cs ELSE Join(f[i - 1], D(i))]
           S == {k \in 0..n : \E f : Is(f, k)}
           joined == CHOOSE f : Is(f, n)
<1>1. n \in Nat
  BY DEF Scan
<1>2. 0 \in S
  <2> DEFINE f == [i \in 0..0 |-> cs]
  <2>1. \A i \in 0..0 : i = 0
    OBVIOUS
  <2>2. Is(f, 0)
    BY <2>1
  <2> HIDE DEF Is
  <2> QED
    BY <1>1, <2>2
<1>3. ASSUME NEW k \in 0..n, k \in S, k < n PROVE k + 1 \in S
  <2>1. PICK f : Is(f, k)
    BY <1>3
  <2> DEFINE g == [i \in 0..(k + 1) |-> IF i = k + 1 THEN Join(f[k], D(k + 1)) ELSE f[i]]
  <2>2. \A i \in 0..k : f[i] = IF i = 0 THEN cs ELSE Join(f[i - 1], D(i))
    BY <2>1
  <2>3. \A i \in 0..(k + 1) : g[i] = IF i = 0 THEN cs ELSE Join(g[i - 1], D(i))
    <3>1. SUFFICES ASSUME NEW i \in 0..(k + 1)
                   PROVE  g[i] = IF i = 0 THEN cs ELSE Join(g[i - 1], D(i))
      OBVIOUS
    <3>2. CASE i = k + 1
      <4>1. k \in 0..(k + 1) /\ k # k + 1 /\ k + 1 # 0
        BY <1>1
      <4>2. g[k] = f[k]
        BY <4>1
      <4>3. g[k + 1] = Join(f[k], D(k + 1))
        BY <3>2
      <4>4. i - 1 = k /\ i # 0
        BY <1>1, <3>2
      <4> HIDE DEF g, D
      <4> QED
        BY <3>2, <4>2, <4>3, <4>4
    <3>3. CASE i # k + 1
      <4>1. i \in 0..k /\ g[i] = f[i]
        BY <1>1, <3>1, <3>3
      <4>2. i # 0 => i - 1 \in 0..(k + 1) /\ i - 1 # k + 1
        BY <1>1, <3>1
      <4>3. i # 0 => g[i - 1] = f[i - 1]
        BY <4>2
      <4> HIDE DEF g, D
      <4> QED
        BY <2>2, <4>1, <4>3
    <3> QED
      BY <3>2, <3>3
  <2>4. Is(g, k + 1)
    <3> DEFINE h == [i \in 0..(k + 1) |-> IF i = 0 THEN cs ELSE Join(g[i - 1], D(i))]
    <3>1. \A i \in 0..(k + 1) : g[i] = h[i]
      BY <2>3
    <3>2. g = h
      BY <3>1
    <3> QED
      BY <3>2
  <2>5. k + 1 \in 0..n
    BY <1>1, <1>3
  <2> HIDE DEF Is, g
  <2> QED
    BY <2>4, <2>5
<1>4. n \in S
  <2> HIDE DEF S, n
  <2>1. \A k \in 0..n : k \in S /\ k < n => k + 1 \in S
    BY <1>3
  <2>2. \A k \in 0..n : k \in S
    BY <1>1, <1>2, <2>1, UpTo
  <2> QED
    BY <1>1, <2>2
<1>5. Is(joined, n)
  <2>1. \E f : Is(f, n)
    BY <1>4
  <2> HIDE DEF Is
  <2> QED
    BY <2>1
<1>6. JoinScan(cs, scan) = joined[n]
  BY DEF JoinScan
<1>7. \A i \in 0..n : joined[i] = IF i = 0 THEN cs ELSE Join(joined[i - 1], D(i))
  <2>1. joined = [i \in 0..n |-> IF i = 0 THEN cs ELSE Join(joined[i - 1], D(i))]
    BY <1>5
  <2> HIDE DEF joined, D, n
  <2> QED
    BY <2>1
<1> DEFINE T == {i \in 0..n : joined[i] \in G[i]}
<1> HIDE DEF joined
<1>8. 0 \in T
  <2>1. 0 \in 0..n
    BY <1>1
  <2>2. joined[0] = cs
    BY <1>7, <2>1
  <2> QED
    BY <2>1, <2>2
<1>9. ASSUME NEW k \in 0..n, k \in T, k < n PROVE k + 1 \in T
  <2>1. k + 1 \in 0..n /\ k + 1 # 0 /\ (k + 1) - 1 = k /\ k \in 0..(n - 1)
    <3> HIDE DEF T, n
    <3> QED
      BY <1>1, <1>9
  <2>2. joined[k + 1] = Join(joined[k], D(k + 1))
    <3> HIDE DEF D, n
    <3> QED
      BY <1>7, <2>1
  <2>3. joined[k] \in G[k]
    BY <1>9
  <2> QED
    BY <2>1, <2>2, <2>3
<1>10. n \in T
  <2> HIDE DEF T, n
  <2>1. \A k \in 0..n : k \in T /\ k < n => k + 1 \in T
    BY <1>9
  <2>2. \A k \in 0..n : k \in T
    BY <1>1, <1>8, <2>1, UpTo
  <2> QED
    BY <1>1, <2>2
<1> QED
  BY <1>6, <1>10
(* The same for scan after scan. *)
LEMMA ReadSteps ==
    ASSUME NEW read \in Seq(Scan), NEW G, <<>> \in G[0],
           \A i \in 0..(Len(read) - 1) : \A x \in G[i] : JoinScan(x, read[i + 1]) \in G[i + 1]
    PROVE  Clusters(read) \in G[Len(read)]
<1> DEFINE n == Len(read)
           D(i) == read[i]
           Is(f, k) == f = [i \in 0..k |-> IF i = 0 THEN <<>> ELSE JoinScan(f[i - 1], D(i))]
           S == {k \in 0..n : \E f : Is(f, k)}
           grown == CHOOSE f : Is(f, n)
<1>1. n \in Nat
  OBVIOUS
<1>2. 0 \in S
  <2> DEFINE f == [i \in 0..0 |-> <<>>]
  <2>1. \A i \in 0..0 : i = 0
    OBVIOUS
  <2>2. Is(f, 0)
    BY <2>1
  <2> HIDE DEF Is
  <2> QED
    BY <1>1, <2>2
<1>3. ASSUME NEW k \in 0..n, k \in S, k < n PROVE k + 1 \in S
  <2>1. PICK f : Is(f, k)
    BY <1>3
  <2> DEFINE g == [i \in 0..(k + 1) |-> IF i = k + 1 THEN JoinScan(f[k], D(k + 1)) ELSE f[i]]
  <2>2. \A i \in 0..k : f[i] = IF i = 0 THEN <<>> ELSE JoinScan(f[i - 1], D(i))
    BY <2>1
  <2>3. \A i \in 0..(k + 1) : g[i] = IF i = 0 THEN <<>> ELSE JoinScan(g[i - 1], D(i))
    <3>1. SUFFICES ASSUME NEW i \in 0..(k + 1)
                   PROVE  g[i] = IF i = 0 THEN <<>> ELSE JoinScan(g[i - 1], D(i))
      OBVIOUS
    <3>2. CASE i = k + 1
      <4>1. k \in 0..(k + 1) /\ k # k + 1 /\ k + 1 # 0
        BY <1>1
      <4>2. g[k] = f[k]
        BY <4>1
      <4>3. g[k + 1] = JoinScan(f[k], D(k + 1))
        BY <3>2
      <4>4. i - 1 = k /\ i # 0
        BY <1>1, <3>2
      <4> HIDE DEF g, D
      <4> QED
        BY <3>2, <4>2, <4>3, <4>4
    <3>3. CASE i # k + 1
      <4>1. i \in 0..k /\ g[i] = f[i]
        BY <1>1, <3>1, <3>3
      <4>2. i # 0 => i - 1 \in 0..(k + 1) /\ i - 1 # k + 1
        BY <1>1, <3>1
      <4>3. i # 0 => g[i - 1] = f[i - 1]
        BY <4>2
      <4> HIDE DEF g, D
      <4> QED
        BY <2>2, <4>1, <4>3
    <3> QED
      BY <3>2, <3>3
  <2>4. Is(g, k + 1)
    <3> DEFINE h == [i \in 0..(k + 1) |-> IF i = 0 THEN <<>> ELSE JoinScan(g[i - 1], D(i))]
    <3>1. \A i \in 0..(k + 1) : g[i] = h[i]
      BY <2>3
    <3>2. g = h
      BY <3>1
    <3> QED
      BY <3>2
  <2>5. k + 1 \in 0..n
    BY <1>1, <1>3
  <2> HIDE DEF Is, g
  <2> QED
    BY <2>4, <2>5
<1>4. n \in S
  <2> HIDE DEF S, n
  <2>1. \A k \in 0..n : k \in S /\ k < n => k + 1 \in S
    BY <1>3
  <2>2. \A k \in 0..n : k \in S
    BY <1>1, <1>2, <2>1, UpTo
  <2> QED
    BY <1>1, <2>2
<1>5. Is(grown, n)
  <2>1. \E f : Is(f, n)
    BY <1>4
  <2> HIDE DEF Is
  <2> QED
    BY <2>1
<1>6. Clusters(read) = grown[n]
  BY DEF Clusters
<1>7. \A i \in 0..n : grown[i] = IF i = 0 THEN <<>> ELSE JoinScan(grown[i - 1], D(i))
  <2>1. grown = [i \in 0..n |-> IF i = 0 THEN <<>> ELSE JoinScan(grown[i - 1], D(i))]
    BY <1>5
  <2> HIDE DEF grown, D, n
  <2> QED
    BY <2>1
<1> DEFINE T == {i \in 0..n : grown[i] \in G[i]}
<1> HIDE DEF grown
<1>8. 0 \in T
  <2>1. 0 \in 0..n
    BY <1>1
  <2>2. grown[0] = <<>>
    BY <1>7, <2>1
  <2> QED
    BY <2>1, <2>2
<1>9. ASSUME NEW k \in 0..n, k \in T, k < n PROVE k + 1 \in T
  <2>1. k + 1 \in 0..n /\ k + 1 # 0 /\ (k + 1) - 1 = k /\ k \in 0..(n - 1)
    <3> HIDE DEF T, n
    <3> QED
      BY <1>1, <1>9
  <2>2. grown[k + 1] = JoinScan(grown[k], D(k + 1))
    <3> HIDE DEF D, n
    <3> QED
      BY <1>7, <2>1
  <2>3. grown[k] \in G[k]
    BY <1>9
  <2> QED
    BY <2>1, <2>2, <2>3
<1>10. n \in T
  <2> HIDE DEF T, n
  <2>1. \A k \in 0..n : k \in T /\ k < n => k + 1 \in T
    BY <1>9
  <2>2. \A k \in 0..n : k \in T
    BY <1>1, <1>8, <2>1, UpTo
  <2> QED
    BY <1>1, <2>2
<1> QED
  BY <1>6, <1>10

-----------------------------------------------------------------------------
(* Whatever is read, the clusters are well formed. *)
LEMMA ClustersTyped ==
    ASSUME NEW read \in Seq(Scan)
    PROVE  Clusters(read) \in Seq(Founded)
<1> DEFINE G == [i \in Nat |-> Seq(Founded)]
<1>1. Len(read) \in Nat
  OBVIOUS
<1>2. ASSUME NEW i \in 0..(Len(read) - 1), NEW x \in Seq(Founded)
      PROVE  JoinScan(x, read[i + 1]) \in Seq(Founded)
  <2>1. i + 1 \in 1..Len(read) /\ read[i + 1] \in Scan
    BY <1>1
  <2> DEFINE scan == read[i + 1]
  <2>2. scan.pass \in Pass /\ scan.targets \in Seq(Place) /\ Len(scan.targets) \in Nat
    BY <2>1 DEF Scan
  <2>3. ASSUME NEW j \in 0..(Len(scan.targets) - 1), NEW y \in Seq(Founded)
        PROVE  Join(y, [pass |-> scan.pass, place |-> scan.targets[j + 1]]) \in Seq(Founded)
    <3>1. j + 1 \in 1..Len(scan.targets)
      BY <2>2
    <3>2. scan.targets[j + 1] \in Place
      BY <2>2, <3>1
    <3>3. [pass |-> scan.pass, place |-> scan.targets[j + 1]] \in TargetOfPass
      BY <2>2, <3>2, SeriesAssumption DEF TargetOfPass, Point
    <3> QED
      BY <3>3, JoinTyped
  <2>4. \A j \in 0..(Len(scan.targets) - 1) : j \in Nat /\ j + 1 \in Nat
    BY <2>2
  <2>5. \A j \in Nat : G[j] = Seq(Founded)
    OBVIOUS
  <2>6. 0 \in Nat
    OBVIOUS
  <2> HIDE DEF G, scan
  <2>7. JoinScan(x, scan) \in G[Len(scan.targets)]
    BY <2>1, <2>3, <2>4, <2>5, <2>6, ScanSteps DEF scan
  <2> QED
    BY <2>2, <2>5, <2>7 DEF scan
<1>3. \A j \in 0..(Len(read) - 1) : j \in Nat /\ j + 1 \in Nat
  BY <1>1
<1>4. \A j \in Nat : G[j] = Seq(Founded)
  OBVIOUS
<1>5. <<>> \in Seq(Founded) /\ 0 \in Nat
  OBVIOUS
<1> HIDE DEF G
<1>6. Clusters(read) \in G[Len(read)]
  BY <1>2, <1>3, <1>4, <1>5, ReadSteps
<1> QED
  BY <1>1, <1>4, <1>6

(* The passes of a scan in which p has been read, after i of its targets. *)
LEMMA ScanKeeps ==
    ASSUME NEW cs \in Seq(Founded), NEW scan \in Scan, NEW p \in Point, NEW seen \in SUBSET Pass,
           Kept(cs, p, seen),
           \A j \in DOMAIN scan.targets : scan.targets[j] = p \/ Far(p, scan.targets[j])
    PROVE  /\ JoinScan(cs, scan) \in Seq(Founded)
           /\ Kept(JoinScan(cs, scan), p,
                   IF p \in Range(scan.targets) THEN seen \cup {scan.pass} ELSE seen)
<1> DEFINE n == Len(scan.targets)
           SeenBy(i) == IF \E j \in 1..i : scan.targets[j] = p THEN seen \cup {scan.pass} ELSE seen
           G == [i \in Nat |-> {x \in Seq(Founded) : Kept(x, p, SeenBy(i))}]
<1>1. scan.pass \in Pass /\ scan.targets \in Seq(Place) /\ n \in Nat /\ DOMAIN scan.targets = 1..n
  BY DEF Scan
<1>2. \A i \in Nat : SeenBy(i) \in SUBSET Pass
  BY <1>1
<1>3. \A i \in Nat : G[i] = {x \in Seq(Founded) : Kept(x, p, SeenBy(i))}
  OBVIOUS
<1>4. cs \in G[0]
  <2>1. SeenBy(0) = seen
    OBVIOUS
  <2>2. 0 \in Nat
    OBVIOUS
  <2> HIDE DEF SeenBy, G
  <2> QED
    BY <1>3, <2>1, <2>2
<1>5. ASSUME NEW i \in 0..(n - 1), NEW x \in G[i]
      PROVE  Join(x, [pass |-> scan.pass, place |-> scan.targets[i + 1]]) \in G[i + 1]
  <2> DEFINE d == [pass |-> scan.pass, place |-> scan.targets[i + 1]]
  <2>1. i \in Nat /\ i + 1 \in Nat /\ i + 1 \in 1..n
    BY <1>1
  <2>2. x \in Seq(Founded) /\ Kept(x, p, SeenBy(i))
    <3> HIDE DEF SeenBy, G
    <3> QED
      BY <1>3, <2>1
  <2>3. scan.targets[i + 1] \in Place
    BY <1>1, <2>1
  <2>4. d \in TargetOfPass
    BY <1>1, <2>3, SeriesAssumption DEF TargetOfPass, Point
  <2>5. d.pass = scan.pass /\ d.place = scan.targets[i + 1]
    OBVIOUS
  <2>6. d.place = p \/ Far(p, d.place)
    BY <1>1, <2>1, <2>5
  <2>7. SeenBy(i + 1) = IF d.place = p THEN SeenBy(i) \cup {d.pass} ELSE SeenBy(i)
    <3>1. \A j \in 1..(i + 1) : j \in 1..i \/ j = i + 1
      BY <2>1
    <3>2. \A j \in 1..i : j \in 1..(i + 1)
      BY <2>1
    <3>3. i + 1 \in 1..(i + 1)
      BY <2>1
    <3> QED
      BY <2>5, <3>1, <3>2, <3>3
  <2> HIDE DEF d, SeenBy, G
  <2>8. Kept(Join(x, d), p, IF d.place = p THEN SeenBy(i) \cup {d.pass} ELSE SeenBy(i))
    BY <1>2, <2>1, <2>2, <2>4, <2>6, JoinKeeps
  <2>9. Join(x, d) \in Seq(Founded)
    BY <2>2, <2>4, JoinTyped
  <2>10. Join(x, d) \in G[i + 1]
    BY <1>3, <2>1, <2>7, <2>8, <2>9
  <2> QED
    BY <2>10 DEF d
<1>6. SeenBy(n) = IF p \in Range(scan.targets) THEN seen \cup {scan.pass} ELSE seen
  BY <1>1 DEF Range
<1> HIDE DEF G, SeenBy
<1>7. JoinScan(cs, scan) \in G[n]
  BY <1>4, <1>5, ScanSteps
<1> QED
  BY <1>1, <1>3, <1>6, <1>7

(* The passes of read in which p is a target. *)
PassesOf(read, p) == {read[k].pass : k \in {k \in DOMAIN read : p \in Range(read[k].targets)}}

LEMMA ClustersKeep ==
    ASSUME NEW read \in Seq(Scan), NEW p \in Point,
           \A k \in DOMAIN read : \A t \in Range(read[k].targets) : t = p \/ Far(p, t)
    PROVE  Kept(Clusters(read), p, PassesOf(read, p))
<1> DEFINE n == Len(read)
           SeenBy(i) == {read[k].pass : k \in {k \in 1..i : p \in Range(read[k].targets)}}
           G == [i \in Nat |-> {x \in Seq(Founded) : Kept(x, p, SeenBy(i))}]
<1>1. n \in Nat /\ DOMAIN read = 1..n /\ \A k \in 1..n : read[k] \in Scan
  OBVIOUS
<1>2. \A i \in 0..n : SeenBy(i) \in SUBSET Pass
  <2>1. \A k \in 1..n : read[k].pass \in Pass
    BY <1>1 DEF Scan
  <2>2. \A i \in 0..n : \A k \in 1..i : k \in 1..n
    BY <1>1
  <2> QED
    BY <2>1, <2>2
<1>3. \A i \in Nat : G[i] = {x \in Seq(Founded) : Kept(x, p, SeenBy(i))}
  OBVIOUS
<1>4. <<>> \in G[0]
  <2>1. SeenBy(0) = {}
    OBVIOUS
  <2>2. 0 \in Nat /\ <<>> \in Seq(Founded) /\ DOMAIN <<>> = {}
    OBVIOUS
  <2>3. Kept(<<>>, p, {})
    BY <2>2 DEF Kept
  <2> HIDE DEF SeenBy, G
  <2> QED
    BY <1>3, <2>1, <2>2, <2>3
<1>5. ASSUME NEW i \in 0..(n - 1), NEW x \in G[i]
      PROVE  JoinScan(x, read[i + 1]) \in G[i + 1]
  <2> DEFINE scan == read[i + 1]
  <2>1. i \in Nat /\ i + 1 \in Nat /\ i + 1 \in 1..n /\ i \in 0..n
    BY <1>1
  <2>2. x \in Seq(Founded) /\ Kept(x, p, SeenBy(i))
    <3> HIDE DEF SeenBy, G
    <3> QED
      BY <1>3, <2>1
  <2>3. scan \in Scan
    BY <1>1, <2>1
  <2>4. \A j \in DOMAIN scan.targets : scan.targets[j] = p \/ Far(p, scan.targets[j])
    BY <1>1, <2>1 DEF Range
  <2>5. SeenBy(i + 1) = IF p \in Range(scan.targets) THEN SeenBy(i) \cup {scan.pass} ELSE SeenBy(i)
    <3>1. \A j \in 1..(i + 1) : j \in 1..i \/ j = i + 1
      BY <2>1
    <3>2. \A j \in 1..i : j \in 1..(i + 1)
      BY <2>1
    <3>3. i + 1 \in 1..(i + 1)
      BY <2>1
    <3> QED
      BY <3>1, <3>2, <3>3
  <2>6. SeenBy(i) \in SUBSET Pass
    BY <1>2, <2>1
  <2> HIDE DEF scan, SeenBy, G
  <2>7. /\ JoinScan(x, scan) \in Seq(Founded)
        /\ Kept(JoinScan(x, scan), p,
                IF p \in Range(scan.targets) THEN SeenBy(i) \cup {scan.pass} ELSE SeenBy(i))
    BY <2>2, <2>3, <2>4, <2>6, ScanKeeps
  <2>8. JoinScan(x, scan) \in G[i + 1]
    BY <1>3, <2>1, <2>5, <2>7
  <2> QED
    BY <2>8 DEF scan
<1>6. SeenBy(n) = PassesOf(read, p)
  BY <1>1 DEF PassesOf
<1> HIDE DEF G, SeenBy
<1>7. Clusters(read) \in G[n]
  BY <1>4, <1>5, ReadSteps
<1> QED
  BY <1>1, <1>3, <1>6, <1>7

-----------------------------------------------------------------------------
(* No scan is read twice. *)
Distinct(read) == \A j, k \in DOMAIN read : read[j].pass = read[k].pass => j = k

(* Every structure that stayed in its place is one of the baseline. *)
LEMMA LastingKept ==
    ASSUME NEW read \in Seq(Scan), Distinct(read), NEW place \in Place, Lasting(place, read)
    PROVE  \E c \in Baseline(read).structures : Gap(c, place) = 0
<1> DEFINE K == {k \in DOMAIN read : place \in Range(read[k].targets)}
           seen == Cardinality(K)
<1>1. place \in Point
  BY SeriesAssumption DEF Point
<1>2. /\ seen >= (IF Len(read) < 2 THEN 1 ELSE 2)
      /\ seen * ShareDen >= ShareNum * Len(read)
      /\ \A k \in DOMAIN read : \A other \in Range(read[k].targets) :
             other # place => Far(place, other)
  BY DEF Lasting, Far
<1>3. Kept(Clusters(read), place, PassesOf(read, place))
  BY <1>1, <1>2, ClustersKeep
<1>4. IsFiniteSet(K) /\ IsFiniteSet(DOMAIN read)
  <2>1. DOMAIN read = 1..Len(read) /\ Len(read) \in Nat
    OBVIOUS
  <2>2. IsFiniteSet(1..Len(read))
    <3>1. 1 \in Int /\ Len(read) \in Int
      BY <2>1
    <3> QED
      BY <3>1, FS_Interval
  <2> QED
    BY <2>1, <2>2, FS_Subset
<1>5. Cardinality(PassesOf(read, place)) = seen
  <2> DEFINE f == [k \in K |-> read[k].pass]
             P == {read[k].pass : k \in K}
  <2>1. f \in Bijection(K, P)
    <3>1. f \in [K -> P]
      OBVIOUS
    <3>2. \A j, k \in K : f[j] = f[k] => j = k
      <4>1. \A j \in K : j \in DOMAIN read /\ f[j] = read[j].pass
        OBVIOUS
      <4> HIDE DEF f, K
      <4> QED
        BY <4>1 DEF Distinct
    <3>3. \A y \in P : \E k \in K : f[k] = y
      OBVIOUS
    <3> HIDE DEF f, K, P
    <3> QED
      BY <3>1, <3>2, <3>3, Fun_IsBij
  <2>2. PassesOf(read, place) = P
    BY DEF PassesOf
  <2>3. ExistsBijection(K, P)
    BY <2>1 DEF ExistsBijection
  <2> HIDE DEF f, K, P
  <2> QED
    BY <1>4, <2>2, <2>3, FS_Bijection DEF seen
<1>6. seen \in Nat /\ seen >= 1
  <2>1. seen \in Nat
    BY <1>4, FS_CardinalityType
  <2> HIDE DEF seen
  <2> QED
    BY <1>2, <2>1
<1>7. K # {}
  <2> HIDE DEF K
  <2>1. Cardinality(K) # 0
    BY <1>6
  <2> QED
    BY <2>1, FS_EmptySet
<1>13. PassesOf(read, place) # {}
  BY <1>7 DEF PassesOf
<1>8. PICK i \in DOMAIN Clusters(read) :
          /\ Own(Clusters(read)[i], place)
          /\ Clusters(read)[i].passes = PassesOf(read, place)
  <2>1. PICK i \in DOMAIN Clusters(read) : Own(Clusters(read)[i], place)
    BY <1>3, <1>13 DEF Kept
  <2>2. Clusters(read)[i] \in Founded
    BY ClustersTyped
  <2>3. ~Apart(Clusters(read)[i], place)
    BY <1>1, <2>1, <2>2, ApartNotNear
  <2> QED
    BY <1>3, <2>1, <2>3 DEF Kept
<1> DEFINE c == Clusters(read)[i]
<1>9. read # <<>> /\ TotalPasses(read) = Len(read) /\ Len(read) \in Nat
  BY <1>7 DEF TotalPasses
<1>10. Persistent(c, TotalPasses(read))
  <2>1. Cardinality(c.passes) = seen
    BY <1>5, <1>8
  <2> HIDE DEF c, seen
  <2> QED
    BY <1>2, <1>6, <1>9, <2>1 DEF Persistent
<1>11. c \in Range(Clusters(read))
  BY DEF Range
<1>12. c \in Baseline(read).structures
  <2> HIDE DEF c
  <2> QED
    BY <1>10, <1>11 DEF Baseline
<1> QED
  BY <1>8, <1>12 DEF Own

-----------------------------------------------------------------------------
(* Baselines made of what a backfill can read. *)
Goods == {Baseline(read) : read \in {r \in Seq(Scan) : Distinct(r)}}

Text == {Partial, Torn} \cup Goods

LEMMA GoodsAre ==
    ASSUME NEW g \in Goods
    PROVE  /\ g # Partial /\ g # Torn
           /\ \A place \in Place :
                  Lasting(place, g.read) => \E c \in g.structures : Gap(c, place) = 0
<1>1. PICK read \in Seq(Scan) : Distinct(read) /\ g = Baseline(read)
  BY DEF Goods
<1>2. g.read = read
  BY <1>1 DEF Baseline
<1>3. g \in BaselineModel
  <2>1. \A i \in DOMAIN Clusters(read) : Clusters(read)[i] \in Founded
    BY ClustersTyped
  <2>2. \A c \in Founded : c \in Cluster
    BY DEF Founded, Cluster, Point
  <2>3. Range(Clusters(read)) \subseteq Cluster
    BY <2>1, <2>2 DEF Range
  <2>4. {c \in Range(Clusters(read)) : Persistent(c, TotalPasses(read))} \in SUBSET Cluster
    BY <2>3
  <2> QED
    BY <1>1, <2>4 DEF Baseline, BaselineModel
<1>4. g # Partial /\ g # Torn
  BY <1>3, NoBaselineAssumption
<1>5. \A place \in Place : Lasting(place, read) => \E c \in g.structures : Gap(c, place) = 0
  BY <1>1, LastingKept
<1> QED
  BY <1>2, <1>4, <1>5

(* The passes come in the order in which they were acquired. *)
InOrder(read, todo) ==
    /\ \A j, k \in DOMAIN read : j < k => read[j].pass < read[k].pass
    /\ \A j, k \in DOMAIN todo : j < k => todo[j] < todo[k]
    /\ \A j \in DOMAIN read, k \in DOMAIN todo : read[j].pass < todo[k]

BackfillOf == [at : {"idle", "reading", "saving", "writing", "moving"},
               todo : Seq(Pass), read : Seq(Scan), found : {Partial} \cup Goods,
               file : Inode \cup {NoInode}, alone : BOOLEAN]

RequestOK(q) ==
    /\ q \in BackfillOf
    /\ (q.file = NoInode) = (q.at # "writing")
    /\ q.at \in {"saving", "writing", "moving"} => q.found \in Goods
    /\ InOrder(q.read, q.todo)

(* Unless two backfills have written at once, one at a time has the        *)
(* temporary file, which is complete when it is moved, and a file that has *)
(* been moved into place is not written to.                                *)
OneWriter ==
    /\ \A a, b \in Storing : a = b
    /\ \A b \in Backfill : backfill[b].at = "writing" =>
           backfill[b].file = temporary /\ backfill[b].alone
    /\ \A b \in Backfill : backfill[b].at = "moving" =>
           temporary # NoInode /\ contents[temporary] \in Goods
    /\ stored # NoInode => contents[stored] \in Goods /\ temporary # stored

SeriesInv ==
    /\ series \in [Pass -> Detections]
    /\ backfill \in [Backfill -> BackfillOf]
    /\ \A b \in Backfill : RequestOK(backfill[b])
    /\ temporary \in Inode \cup {NoInode} /\ stored \in Inode \cup {NoInode}
    /\ contents \in [Inode -> Text]
    /\ backfills \in 0..MaxBackfills /\ unread \in 0..MaxUnread
    /\ writeFaults \in 0..MaxWriteFaults
    /\ overlapped \in BOOLEAN
    /\ ~overlapped => OneWriter

LEMMA InvServes == SeriesInv => BaselineServed
<1> SUFFICES ASSUME SeriesInv PROVE BaselineServed
  OBVIOUS
<1>1. stored # NoInode => contents[stored] \in Text
  BY DEF SeriesInv
<1>2. ASSUME stored # NoInode, ~overlapped PROVE ServedBaseline # {}
  <2>1. contents[stored] \in Goods
    BY <1>2 DEF SeriesInv, OneWriter
  <2>2. contents[stored] \notin {Partial, Torn}
    BY <2>1, GoodsAre
  <2> QED
    BY <1>2, <2>2 DEF ServedBaseline
<1>3. ASSUME NEW baseline \in ServedBaseline, NEW place \in Place, Lasting(place, baseline.read)
      PROVE  \E c \in baseline.structures : Gap(c, place) = 0
  <2>1. baseline \in Goods
    BY <1>1, <1>3 DEF ServedBaseline, Text
  <2> QED
    BY <1>3, <2>1, GoodsAre
<1> QED
  BY <1>2, <1>3 DEF BaselineServed

(* SeriesTypeOK is the part of SeriesInv that a run checks. *)
LEMMA InvTyped == SeriesInv => SeriesTypeOK
<1> SUFFICES ASSUME SeriesInv PROVE SeriesTypeOK
  OBVIOUS
<1>1. \A b \in Backfill :
          /\ backfill[b].at \in {"idle", "reading", "saving", "writing", "moving"}
          /\ backfill[b].file \in Inode \cup {NoInode}
          /\ (backfill[b].file = NoInode) = (backfill[b].at # "writing")
  BY DEF SeriesInv, RequestOK, BackfillOf
<1> QED
  BY <1>1 DEF SeriesInv, SeriesTypeOK

(* There is an inode for whoever opens a file. *)
LEMMA FreeInode ==
    ASSUME NEW file \in [Backfill -> Inode \cup {NoInode}]
    PROVE  \E i \in Inode : i # stored /\ \A a \in Backfill : file[a] # i
<1> DEFINE F == {file[a] : a \in Backfill}
           U == F \cup {stored}
<1>1. IsFiniteSet(Backfill)
  BY SeriesAssumption
<1>2. IsFiniteSet(F) /\ Cardinality(F) <= Cardinality(Backfill)
  <2>1. file \in Surjection(Backfill, F)
    <3>1. file \in [Backfill -> F]
      OBVIOUS
    <3>2. \A t \in F : \E a \in Backfill : file[a] = t
      OBVIOUS
    <3> HIDE DEF F
    <3> QED
      BY <3>1, <3>2, Fun_IsSurj
  <2> HIDE DEF F
  <2> QED
    BY <1>1, <2>1, FS_Surjection
<1>3. Cardinality(Backfill) \in Nat
  BY <1>1, FS_CardinalityType
<1>4. IsFiniteSet(U) /\ Cardinality(U) <= Cardinality(Backfill) + 1
  <2> HIDE DEF F
  <2>1. Cardinality(F) \in Nat
    BY <1>2, FS_CardinalityType
  <2> QED
    BY <1>2, <1>3, <2>1, FS_AddElement
<1>5. IsFiniteSet(Inode) /\ Cardinality(Inode) = Cardinality(Backfill) + 2
  <2>1. 1 \in Int /\ Cardinality(Backfill) + 2 \in Int /\ Cardinality(Backfill) + 2 >= 1
    BY <1>3
  <2>2. IsFiniteSet(1..(Cardinality(Backfill) + 2))
        /\ Cardinality(1..(Cardinality(Backfill) + 2)) = (Cardinality(Backfill) + 2) - 1 + 1
    BY <2>1, FS_Interval
  <2> QED
    BY <1>3, <2>2 DEF Inode
<1>6. ~(Inode \subseteq U)
  <2> HIDE DEF U
  <2>1. SUFFICES ASSUME Inode \subseteq U PROVE FALSE
    OBVIOUS
  <2>2. Cardinality(Inode) <= Cardinality(U)
    BY <1>4, <2>1, FS_Subset
  <2>3. Cardinality(U) \in Nat
    BY <1>4, FS_CardinalityType
  <2> QED
    BY <1>3, <1>4, <1>5, <2>2, <2>3
<1> QED
  BY <1>6

LEMMA SeriesInitHolds == SeriesInit => SeriesInv
<1> SUFFICES ASSUME SeriesInit PROVE SeriesInv
  OBVIOUS
<1> USE DEF SeriesInit
<1>1. RequestOK(NoBackfill) /\ NoBackfill.at = "idle"
  <2>1. InOrder(<<>>, <<>>)
    BY DEF InOrder
  <2>2. NoBackfill \in BackfillOf
    BY DEF NoBackfill, BackfillOf
  <2> QED
    BY <2>1, <2>2 DEF RequestOK, NoBackfill
<1>2. \A b \in Backfill : backfill[b] = NoBackfill
  OBVIOUS
<1>3. backfill \in [Backfill -> BackfillOf]
  BY <1>1 DEF RequestOK
<1>4. Storing = {}
  BY <1>1, <1>2 DEF Storing
<1>5. OneWriter
  BY <1>1, <1>2, <1>4 DEF OneWriter
<1>6. contents \in [Inode -> Text]
  BY DEF Text
<1>7. 0 \in 0..MaxUnread /\ 0 \in 0..MaxWriteFaults
  BY SeriesAssumption
<1> QED
  BY <1>1, <1>2, <1>3, <1>5, <1>6, <1>7 DEF SeriesInv

-----------------------------------------------------------------------------
LEMMA Replaced ==
    ASSUME NEW f \in [Backfill -> BackfillOf], \A a \in Backfill : RequestOK(f[a]),
           NEW b \in Backfill, NEW r, RequestOK(r)
    PROVE  /\ [f EXCEPT ![b] = r] \in [Backfill -> BackfillOf]
           /\ \A a \in Backfill : RequestOK([f EXCEPT ![b] = r][a])
<1>1. r \in BackfillOf
  BY DEF RequestOK
<1> QED
  BY <1>1

LEMMA BlankRequest == RequestOK(NoBackfill) /\ NoBackfill.at = "idle"
<1>1. InOrder(<<>>, <<>>)
  BY DEF InOrder
<1>2. NoBackfill \in BackfillOf
  BY DEF NoBackfill, BackfillOf
<1> QED
  BY <1>1, <1>2 DEF RequestOK, NoBackfill

(* A request that stores nothing yet is no writer. *)
LEMMA StillOneWriter ==
    ASSUME OneWriter, NEW b \in Backfill, NEW r, r.at \notin {"writing", "moving"},
           backfill' = [backfill EXCEPT ![b] = r], backfill \in [Backfill -> BackfillOf],
           UNCHANGED <<temporary, stored, contents>>
    PROVE  OneWriter'
<1>1. \A a \in Backfill : backfill'[a] = IF a = b THEN r ELSE backfill[a]
  OBVIOUS
<1>2. Storing' \subseteq Storing
  BY <1>1 DEF Storing
<1> QED
  BY <1>1, <1>2 DEF OneWriter

LEMMA DiscoverSafe ==
    ASSUME SeriesInv, NEW b \in Backfill, Discover(b)
    PROVE  SeriesInv'
<1> USE DEF Discover
<1>1. PICK since \in 1..(NPasses + 1), scenes \in 1..MaxScenes :
          LET all == [k \in 1..(NPasses + 1 - since) |-> since + k - 1]
              last == IF Len(all) > scenes
                      THEN SubSeq(all, Len(all) - scenes + 1, Len(all)) ELSE all
          IN  backfill' = [backfill EXCEPT ![b] = [NoBackfill EXCEPT !.at = "reading",
                                                                     !.todo = last]]
  OBVIOUS
<1> DEFINE m == NPasses + 1 - since
           all == [k \in 1..m |-> since + k - 1]
           last == IF Len(all) > scenes THEN SubSeq(all, Len(all) - scenes + 1, Len(all)) ELSE all
           r == [NoBackfill EXCEPT !.at = "reading", !.todo = last]
<1>2. backfill' = [backfill EXCEPT ![b] = r]
  BY <1>1
<1>3. NPasses \in Nat /\ MaxScenes \in Nat /\ m \in Nat /\ since \in Nat /\ scenes \in Nat
  BY SeriesAssumption
<1>4. all \in Seq(Pass) /\ Len(all) = m /\ \A k \in 1..m : all[k] = since + k - 1
  <2>1. \A k \in 1..m : since + k - 1 \in Pass
    BY <1>3 DEF Pass
  <2> HIDE DEF m
  <2>2. all \in [1..m -> Pass]
    BY <2>1
  <2> QED
    BY <1>3, <2>2
<1>5. /\ last \in Seq(Pass)
      /\ \A j, k \in DOMAIN last : j < k => last[j] < last[k]
  <2>1. CASE Len(all) > scenes
    <3> DEFINE i == m - scenes + 1
    <3>1. i \in 1..m /\ m - i + 1 = scenes
      BY <1>3, <1>4, <2>1
    <3> HIDE DEF all
    <3>2. last = SubSeq(all, i, m)
      BY <1>4, <2>1
    <3>3. /\ SubSeq(all, i, m) = [k \in 1..scenes |-> all[k + i - 1]]
      <4> HIDE DEF m, i
      <4>1. SubSeq(all, i, m) = [k \in 1..(m - i + 1) |-> all[k + i - 1]]
        BY <1>3, <1>4, <3>1, SMTT(30)
      <4> QED
        BY <3>1, <4>1
    <3>4. \A k \in 1..scenes : k + i - 1 \in 1..m
      BY <1>3, <3>1
    <3>5. \A k \in 1..scenes : all[k + i - 1] = since + (k + i - 1) - 1 /\ all[k + i - 1] \in Pass
      BY <1>4, <3>4
    <3> HIDE DEF last
    <3>6. last \in [1..scenes -> Pass]
      BY <3>2, <3>3, <3>5
    <3>7. \A k \in 1..scenes : last[k] = since + (k + i - 1) - 1
      BY <3>2, <3>3, <3>5
    <3>8. last \in Seq(Pass) /\ DOMAIN last = 1..scenes
      BY <1>3, <3>6
    <3>9. i \in Int
      BY <3>1
    <3> HIDE DEF i
    <3> QED
      BY <1>3, <3>7, <3>8, <3>9
  <2>2. CASE ~(Len(all) > scenes)
    <3> HIDE DEF all
    <3>1. last = all /\ DOMAIN all = 1..m
      BY <1>4, <2>2
    <3> HIDE DEF last, m
    <3> QED
      BY <1>3, <1>4, <3>1
  <2> QED
    BY <2>1, <2>2
<1> HIDE DEF last
<1>6. RequestOK(r) /\ r.at = "reading"
  <2>1. /\ r.at = "reading" /\ r.todo = last /\ r.read = <<>> /\ r.found = Partial
        /\ r.file = NoInode /\ r.alone = TRUE
    BY DEF NoBackfill
  <2>2. r \in BackfillOf
    <3>1. NoBackfill \in BackfillOf
      BY BlankRequest DEF RequestOK
    <3> QED
      BY <1>5, <3>1 DEF BackfillOf
  <2>3. InOrder(<<>>, last)
    BY <1>5 DEF InOrder
  <2> HIDE DEF r
  <2> QED
    BY <2>1, <2>2, <2>3 DEF RequestOK
<1> HIDE DEF r
<1>7. backfill' \in [Backfill -> BackfillOf] /\ \A a \in Backfill : RequestOK(backfill'[a])
  BY <1>2, <1>6, Replaced DEF SeriesInv
<1>8. ~overlapped => OneWriter'
  BY <1>2, <1>6, StillOneWriter DEF SeriesInv
<1>9. backfills' \in 0..MaxBackfills
  BY SeriesAssumption DEF SeriesInv
<1> QED
  BY <1>7, <1>8, <1>9 DEF SeriesInv

LEMMA ExtractSafe ==
    ASSUME SeriesInv, NEW b \in Backfill, ExtractDetections(b)
    PROVE  SeriesInv'
<1> USE DEF ExtractDetections
<1> DEFINE q == backfill[b]
           pass == Head(q.todo)
<1>1. RequestOK(q) /\ q \in BackfillOf /\ q.at = "reading" /\ q.todo # <<>> /\ q.file = NoInode
  BY DEF SeriesInv, RequestOK
<1>2. PICK missing \in {FALSE} \cup (IF unread < MaxUnread THEN {TRUE} ELSE {}) :
          /\ backfill' = [backfill EXCEPT
                 ![b].todo = Tail(@),
                 ![b].read = Append(@, [pass |-> pass,
                                        targets |-> IF missing THEN <<>> ELSE series[pass]])]
          /\ unread' = IF missing THEN unread + 1 ELSE unread
  OBVIOUS
<1> DEFINE scan == [pass |-> pass, targets |-> IF missing THEN <<>> ELSE series[pass]]
           r == [q EXCEPT !.todo = Tail(q.todo), !.read = Append(q.read, scan)]
<1>3. backfill' = [backfill EXCEPT ![b] = r]
  BY <1>2 DEF SeriesInv
<1>4. q.todo \in Seq(Pass) /\ q.read \in Seq(Scan)
  BY <1>1 DEF BackfillOf
<1>5. pass \in Pass /\ Tail(q.todo) \in Seq(Pass) /\ pass = q.todo[1] /\ Len(q.todo) \in Nat
      /\ Len(q.todo) >= 1
  BY <1>1, <1>4
<1>6. /\ DOMAIN q.todo = 1..Len(q.todo)
      /\ DOMAIN Tail(q.todo) = 1..(Len(q.todo) - 1)
      /\ \A k \in 1..(Len(q.todo) - 1) : Tail(q.todo)[k] = q.todo[k + 1]
  BY <1>1, <1>4
<1>7. scan \in Scan /\ scan.pass = pass
  <2>1. series[pass] \in Detections
    BY <1>5 DEF SeriesInv
  <2>2. PICK n \in 0..MaxTargets : series[pass] \in [1..n -> Place]
    <3> HIDE DEF pass
    <3> QED
      BY <2>1 DEF Detections
  <2>3. n \in Nat
    BY SeriesAssumption
  <2>4. series[pass] \in Seq(Place) /\ <<>> \in Seq(Place)
    <3>1. \A t \in [1..n -> Place] : t \in Seq(Place)
      BY <2>3
    <3>2. <<>> \in Seq(Place)
      OBVIOUS
    <3> HIDE DEF pass
    <3> QED
      BY <2>2, <3>1, <3>2
  <2> QED
    BY <1>5, <2>4 DEF Scan
<1> HIDE DEF scan, pass
<1>8. /\ Append(q.read, scan) \in Seq(Scan)
      /\ Len(q.read) \in Nat /\ DOMAIN q.read = 1..Len(q.read)
      /\ DOMAIN Append(q.read, scan) = 1..(Len(q.read) + 1)
      /\ Append(q.read, scan)[Len(q.read) + 1] = scan
      /\ \A k \in 1..Len(q.read) : Append(q.read, scan)[k] = q.read[k]
  BY <1>4, <1>7
<1>9. /\ r \in BackfillOf /\ r.at = "reading" /\ r.file = NoInode
      /\ r.todo = Tail(q.todo) /\ r.read = Append(q.read, scan)
  BY <1>1, <1>5, <1>8 DEF BackfillOf
<1>10. InOrder(Append(q.read, scan), Tail(q.todo))
  <2> DEFINE n == Len(q.read)
             t == Len(q.todo)
             read == Append(q.read, scan)
             todo == Tail(q.todo)
  <2>1. InOrder(q.read, q.todo)
    BY <1>1 DEF RequestOK
  <2>2. \A k \in 1..(t - 1) : k \in 1..t /\ k + 1 \in 1..t
    BY <1>5
  <2>3. 1 \in 1..t
    BY <1>5
  <2>4. \A k \in 1..(n + 1) : k \in 1..n \/ k = n + 1
    BY <1>8
  <2>5. n \in Nat /\ t \in Nat
    BY <1>5, <1>8
  <2> HIDE DEF n, t, read, todo
  <2>6. /\ DOMAIN q.todo = 1..t /\ DOMAIN todo = 1..(t - 1)
        /\ \A k \in 1..(t - 1) : todo[k] = q.todo[k + 1]
        /\ DOMAIN q.read = 1..n /\ DOMAIN read = 1..(n + 1) /\ read[n + 1] = scan
        /\ \A k \in 1..n : read[k] = q.read[k]
    BY <1>6, <1>8 DEF n, t, read, todo
  <2>7. \A j \in 1..n : q.read[j].pass < pass
    BY <1>5, <2>1, <2>3, <2>6 DEF InOrder
  <2>8. \A k \in 1..(t - 1) : pass < todo[k]
    <3>1. \A k \in 1..t : 1 < k => q.todo[1] < q.todo[k]
      BY <2>1, <2>3, <2>6 DEF InOrder
    <3>2. \A k \in 1..(t - 1) : k + 1 \in 1..t /\ 1 < k + 1
      BY <2>5
    <3> QED
      BY <1>5, <2>6, <3>1, <3>2
  <2>9. \A j, k \in DOMAIN read : j < k => read[j].pass < read[k].pass
    <3>1. SUFFICES ASSUME NEW j \in 1..(n + 1), NEW k \in 1..(n + 1), j < k
                   PROVE  read[j].pass < read[k].pass
      BY <2>6
    <3>2. j \in 1..n
      BY <2>5, <3>1
    <3>3. CASE k = n + 1
      BY <1>7, <2>6, <2>7, <3>2, <3>3
    <3>4. CASE k \in 1..n
      BY <2>1, <2>6, <3>1, <3>2, <3>4 DEF InOrder
    <3> QED
      BY <2>4, <3>3, <3>4
  <2>10. \A j, k \in DOMAIN todo : j < k => todo[j] < todo[k]
    <3>1. SUFFICES ASSUME NEW j \in 1..(t - 1), NEW k \in 1..(t - 1), j < k
                   PROVE  todo[j] < todo[k]
      BY <2>6
    <3>2. j + 1 \in 1..t /\ k + 1 \in 1..t /\ j + 1 < k + 1
      BY <2>5, <3>1
    <3>3. q.todo[j + 1] < q.todo[k + 1]
      BY <2>1, <2>6, <3>2 DEF InOrder
    <3> QED
      BY <2>6, <3>3
  <2>11. \A j \in DOMAIN read, k \in DOMAIN todo : read[j].pass < todo[k]
    BY <1>7, <2>1, <2>2, <2>4, <2>6, <2>8 DEF InOrder
  <2>12. InOrder(read, todo)
    BY <2>9, <2>10, <2>11 DEF InOrder
  <2> QED
    BY <2>12 DEF read, todo
<1>11. RequestOK(r)
  <2> HIDE DEF r
  <2> QED
    BY <1>9, <1>10 DEF RequestOK
<1> HIDE DEF r
<1>12. backfill' \in [Backfill -> BackfillOf] /\ \A a \in Backfill : RequestOK(backfill'[a])
  BY <1>3, <1>11, Replaced DEF SeriesInv
<1>13. ~overlapped => OneWriter'
  BY <1>3, <1>9, StillOneWriter DEF SeriesInv
<1>14. unread' \in 0..MaxUnread
  <2>1. unread \in Nat /\ unread <= MaxUnread /\ MaxUnread \in Nat
    BY SeriesAssumption DEF SeriesInv
  <2>4. missing \in BOOLEAN
    OBVIOUS
  <2> HIDE DEF ExtractDetections
  <2>2. CASE missing = TRUE
    <3>1. unread < MaxUnread
      BY <2>2
    <3>2. unread' = unread + 1
      BY <1>2, <2>2
    <3> QED
      BY <2>1, <3>1, <3>2
  <2>3. CASE missing = FALSE
    <3>1. unread' = unread
      BY <1>2, <2>3
    <3> QED
      BY <2>1, <3>1
  <2> QED
    BY <2>2, <2>3, <2>4
<1> QED
  BY <1>12, <1>13, <1>14 DEF SeriesInv

LEMMA SynthesiseSafe ==
    ASSUME SeriesInv, NEW b \in Backfill, Synthesise(b)
    PROVE  SeriesInv'
<1> USE DEF Synthesise
<1> DEFINE q == backfill[b]
           r == [q EXCEPT !.found = Baseline(q.read), !.at = "saving"]
<1>1. RequestOK(q) /\ q \in BackfillOf /\ q.at = "reading" /\ q.file = NoInode
  BY DEF SeriesInv, RequestOK
<1>2. backfill' = [backfill EXCEPT ![b] = r]
  BY DEF SeriesInv
<1>3. Baseline(q.read) \in Goods
  <2>1. q.read \in Seq(Scan) /\ InOrder(q.read, q.todo)
    BY <1>1 DEF BackfillOf, RequestOK
  <2>2. Distinct(q.read)
    <3>1. SUFFICES ASSUME NEW j \in DOMAIN q.read, NEW k \in DOMAIN q.read,
                          q.read[j].pass = q.read[k].pass
                   PROVE  j = k
      BY DEF Distinct
    <3>2. j \in Nat /\ k \in Nat /\ q.read[j] \in Scan
      <4>1. DOMAIN q.read = 1..Len(q.read)
        BY <2>1
      <4> QED
        BY <2>1, <4>1
    <3>4. q.read[j].pass \in Nat
      BY <3>2 DEF Scan, Pass
    <3>5. ~(j < k) /\ ~(k < j)
      BY <2>1, <3>1, <3>4 DEF InOrder
    <3> QED
      BY <3>2, <3>5
  <2> QED
    BY <2>1, <2>2 DEF Goods
<1>4. /\ r \in BackfillOf /\ r.at = "saving" /\ r.file = NoInode /\ r.found \in Goods
      /\ r.read = q.read /\ r.todo = q.todo
  BY <1>1, <1>3 DEF BackfillOf
<1>5. RequestOK(r)
  <2> HIDE DEF r
  <2> QED
    BY <1>1, <1>4 DEF RequestOK
<1> HIDE DEF r
<1>6. backfill' \in [Backfill -> BackfillOf] /\ \A a \in Backfill : RequestOK(backfill'[a])
  <2>1. backfill \in [Backfill -> BackfillOf] /\ \A a \in Backfill : RequestOK(backfill[a])
    BY DEF SeriesInv
  <2> HIDE DEF Synthesise, q
  <2> QED
    BY <1>2, <1>5, <2>1, Replaced
<1>7. ~overlapped => OneWriter'
  BY <1>2, <1>4, StillOneWriter DEF SeriesInv
<1> QED
  BY <1>6, <1>7 DEF SeriesInv

LEMMA OpenSafe ==
    ASSUME SeriesInv, NEW b \in Backfill, OpenTemporary(b)
    PROVE  SeriesInv'
<1> DEFINE open == {a \in Backfill : backfill[a].file = temporary /\ temporary # NoInode}
           inode == IF temporary # NoInode THEN temporary
                    ELSE CHOOSE i \in Inode :
                             i # stored /\ \A a \in Backfill : backfill[a].file # i
           New(a) == IF a = b THEN [backfill[b] EXCEPT !.at = "writing", !.file = inode,
                                                       !.alone = open = {}]
                     ELSE IF a \in open THEN [backfill[a] EXCEPT !.alone = FALSE]
                     ELSE backfill[a]
<1>1. /\ backfill[b].at = "saving"
      /\ temporary' = inode
      /\ contents' = [contents EXCEPT ![inode] = Partial]
      /\ backfill' = [a \in Backfill |-> New(a)]
      /\ overlapped' = (overlapped \/ Storing # {})
      /\ UNCHANGED <<series, stored, backfills, unread, writeFaults>>
  BY DEF OpenTemporary
<1>2. \A a \in Backfill : backfill[a] \in BackfillOf /\ RequestOK(backfill[a])
  BY DEF SeriesInv, RequestOK
<1>3. /\ inode \in Inode /\ inode # NoInode
      /\ temporary = NoInode => inode # stored
  <2>1. CASE temporary # NoInode
    BY <2>1, NoBaselineAssumption DEF SeriesInv
  <2>2. CASE temporary = NoInode
    <3> DEFINE file == [a \in Backfill |-> backfill[a].file]
    <3>1. file \in [Backfill -> Inode \cup {NoInode}]
      BY <1>2 DEF BackfillOf
    <3>2. \E i \in Inode : i # stored /\ \A a \in Backfill : file[a] # i
      <4> HIDE DEF file
      <4> QED
        BY <3>1, FreeInode
    <3>3. \E i \in Inode : i # stored /\ \A a \in Backfill : backfill[a].file # i
      BY <3>2
    <3>4. inode \in Inode /\ inode # stored
      BY <2>2, <3>3
    <3> QED
      BY <3>4, NoBaselineAssumption
  <2> QED
    BY <2>1, <2>2
<1>4. (open = {}) \in BOOLEAN
  OBVIOUS
<1> DEFINE alone == (open = {})
<1>5. \A a \in open : a \in Backfill /\ backfill[a].at = "writing"
  BY <1>2 DEF RequestOK
<1>6. /\ New(b) = [backfill[b] EXCEPT !.at = "writing", !.file = inode, !.alone = alone]
      /\ \A a \in Backfill : a # b /\ a \in open => New(a) = [backfill[a] EXCEPT !.alone = FALSE]
      /\ \A a \in Backfill : a # b /\ a \notin open => New(a) = backfill[a]
  OBVIOUS
<1>7. alone \in BOOLEAN /\ (alone <=> open = {})
  OBVIOUS
<1> HIDE DEF inode, New, alone, open
<1>8. /\ RequestOK(New(b)) /\ New(b).at = "writing" /\ New(b).file = inode
      /\ New(b).alone = alone
  <2>1. PICK q \in BackfillOf : q = backfill[b]
    BY <1>2
  <2>2. PICK r : r = [q EXCEPT !.at = "writing", !.file = inode, !.alone = alone]
    OBVIOUS
  <2>3. /\ r \in BackfillOf /\ r.at = "writing" /\ r.file = inode /\ r.alone = alone
        /\ r.found = q.found /\ r.read = q.read /\ r.todo = q.todo
    BY <1>3, <1>7, <2>2 DEF BackfillOf
  <2>4. q.found \in Goods /\ InOrder(q.read, q.todo)
    BY <1>1, <1>2, <2>1 DEF RequestOK
  <2>5. RequestOK(r)
    BY <1>3, <2>3, <2>4 DEF RequestOK
  <2>6. r = New(b)
    BY <1>6, <2>1, <2>2
  <2> QED
    BY <2>3, <2>5, <2>6
<1>9. \A a \in Backfill : a # b => /\ RequestOK(New(a)) /\ New(a).at = backfill[a].at
                                   /\ New(a).file = backfill[a].file
  <2>1. SUFFICES ASSUME NEW a \in Backfill, a # b
                 PROVE  RequestOK(New(a)) /\ New(a).at = backfill[a].at
                        /\ New(a).file = backfill[a].file
    OBVIOUS
  <2>2. CASE a \in open
    <3>1. PICK q \in BackfillOf : q = backfill[a]
      BY <1>2
    <3>2. PICK r : r = [q EXCEPT !.alone = FALSE]
      OBVIOUS
    <3>3. /\ r \in BackfillOf /\ r.at = q.at /\ r.file = q.file
          /\ r.found = q.found /\ r.read = q.read /\ r.todo = q.todo
      BY <3>2 DEF BackfillOf
    <3>4. RequestOK(q)
      BY <1>2, <3>1
    <3>5. RequestOK(r)
      BY <3>3, <3>4 DEF RequestOK
    <3>6. r = New(a)
      BY <1>6, <2>1, <2>2, <3>1, <3>2
    <3> QED
      BY <3>1, <3>3, <3>5, <3>6
  <2>3. CASE a \notin open
    BY <1>2, <1>6, <2>1, <2>3
  <2> QED
    BY <2>2, <2>3
<1>10. /\ backfill' \in [Backfill -> BackfillOf]
       /\ \A a \in Backfill : RequestOK(backfill'[a]) /\ backfill'[a] = New(a)
  <2>1. \A a \in Backfill : RequestOK(New(a)) /\ New(a) \in BackfillOf
    BY <1>8, <1>9 DEF RequestOK
  <2> QED
    BY <1>1, <2>1
<1>11. ASSUME ~overlapped' PROVE OneWriter'
  <2>1. ~overlapped /\ Storing = {}
    BY <1>1, <1>11
  <2>2. open = {}
    BY <1>5, <2>1 DEF Storing
  <2>3. alone = TRUE
    BY <1>7, <2>2
  <2>4. \A a \in Backfill : a # b => backfill'[a].at \notin {"writing", "moving"}
    BY <1>9, <1>10, <2>1 DEF Storing
  <2>5. Storing' = {b}
    BY <1>8, <1>10, <2>4 DEF Storing
  <2>6. stored # NoInode => contents[stored] \in Goods /\ inode # stored
    <3>1. temporary # NoInode => inode = temporary
      BY DEF inode
    <3> QED
      BY <1>3, <2>1, <3>1 DEF SeriesInv, OneWriter
  <2>7. stored' # NoInode => contents'[stored'] \in Goods /\ temporary' # stored'
    BY <1>1, <2>6 DEF SeriesInv
  <2>8. backfill'[b].at = "writing" /\ backfill'[b].file = temporary' /\ backfill'[b].alone
    BY <1>1, <1>8, <1>10, <2>3
  <2> QED
    BY <2>4, <2>5, <2>7, <2>8 DEF OneWriter
<1>12. contents' \in [Inode -> Text]
  BY <1>1 DEF SeriesInv, Text
<1>13. temporary' \in Inode \cup {NoInode}
  BY <1>1, <1>3
<1>14. overlapped' \in BOOLEAN
  BY <1>1
<1> QED
  BY <1>1, <1>10, <1>11, <1>12, <1>13, <1>14 DEF SeriesInv

LEMMA WriteSafe ==
    ASSUME SeriesInv, NEW b \in Backfill, WriteBaseline(b)
    PROVE  SeriesInv'
<1>1. PICK q \in BackfillOf : q = backfill[b] /\ RequestOK(q) /\ q.at = "writing"
  BY DEF SeriesInv, RequestOK, WriteBaseline
<1>2. PICK text \in {q.found} \cup (IF q.alone THEN {} ELSE {Torn}) :
          contents' = [contents EXCEPT ![q.file] = text]
  BY <1>1 DEF WriteBaseline
<1>3. PICK r : r = [q EXCEPT !.at = "moving", !.file = NoInode]
  OBVIOUS
<1>4. backfill' = [backfill EXCEPT ![b] = r]
  BY <1>1, <1>3 DEF WriteBaseline, SeriesInv
<1>5. UNCHANGED <<series, temporary, stored, backfills, unread, writeFaults, overlapped>>
  BY DEF WriteBaseline
<1>6. q.file \in Inode /\ q.found \in Goods
  BY <1>1 DEF RequestOK, BackfillOf
<1>7. /\ r \in BackfillOf /\ r.at = "moving" /\ r.file = NoInode /\ r.found = q.found
      /\ r.read = q.read /\ r.todo = q.todo
  BY <1>3 DEF BackfillOf
<1>8. RequestOK(r)
  BY <1>1, <1>6, <1>7 DEF RequestOK
<1>9. /\ backfill \in [Backfill -> BackfillOf]
      /\ backfill' \in [Backfill -> BackfillOf] /\ \A a \in Backfill : RequestOK(backfill'[a])
  BY <1>4, <1>8, Replaced DEF SeriesInv
<1>10. text \in Goods \cup {Torn}
  BY <1>2, <1>6
<1>11. contents' \in [Inode -> Text]
  BY <1>2, <1>10 DEF SeriesInv, Text
<1>12. ASSUME ~overlapped PROVE OneWriter'
  <2>1. OneWriter
    BY <1>12 DEF SeriesInv
  <2>2. q.file = temporary /\ q.alone /\ text \in Goods
    BY <1>1, <1>2, <1>6, <2>1 DEF OneWriter
  <2>3. \A a \in Backfill : backfill'[a] = IF a = b THEN r ELSE backfill[a]
    BY <1>4, <1>9
  <2>4. Storing' \subseteq Storing /\ b \in Storing
    BY <1>1, <2>3 DEF Storing
  <2>5. \A a \in Backfill : a # b => backfill'[a].at \notin {"writing", "moving"}
    BY <2>1, <2>3, <2>4 DEF OneWriter, Storing
  <2>6. temporary \in Inode /\ temporary # NoInode /\ contents'[temporary] = text
    BY <1>2, <1>6, <2>2, NoBaselineAssumption DEF SeriesInv
  <2>7. stored # NoInode => contents'[stored] \in Goods /\ temporary # stored
    BY <1>2, <2>1, <2>2 DEF OneWriter, SeriesInv
  <2> QED
    BY <1>5, <1>7, <2>1, <2>2, <2>3, <2>4, <2>5, <2>6, <2>7 DEF OneWriter
<1> QED
  BY <1>5, <1>9, <1>11, <1>12 DEF SeriesInv

(* A writer that has finished, well or not: whoever writes is alone, so    *)
(* nobody is left.                                                         *)
LEMMA NobodyLeft ==
    ASSUME SeriesInv, NEW b \in Storing, backfill' = [backfill EXCEPT ![b] = NoBackfill]
    PROVE  /\ backfill' \in [Backfill -> BackfillOf] /\ \A a \in Backfill : RequestOK(backfill'[a])
           /\ ~overlapped => \A a \in Backfill : backfill'[a].at \notin {"writing", "moving"}
<1>1. b \in Backfill
  BY DEF Storing
<1>2. backfill' \in [Backfill -> BackfillOf] /\ \A a \in Backfill : RequestOK(backfill'[a])
  BY <1>1, BlankRequest, Replaced DEF SeriesInv
<1>3. \A a \in Backfill : backfill'[a] = IF a = b THEN NoBackfill ELSE backfill[a]
  BY DEF SeriesInv
<1>4. ASSUME ~overlapped PROVE \A a \in Backfill : backfill'[a].at \notin {"writing", "moving"}
  <2>1. \A a \in Backfill : a # b => backfill[a].at \notin {"writing", "moving"}
    BY <1>4 DEF SeriesInv, OneWriter, Storing
  <2> QED
    BY <1>3, <2>1, BlankRequest
<1> QED
  BY <1>2, <1>4

LEMMA MoveSafe ==
    ASSUME SeriesInv, NEW b \in Backfill, MoveBaseline(b)
    PROVE  SeriesInv'
<1>1. /\ backfill[b].at = "moving" /\ b \in Storing
      /\ temporary' = NoInode
      /\ stored' = IF temporary = NoInode THEN stored ELSE temporary
      /\ backfill' = [backfill EXCEPT ![b] = NoBackfill]
      /\ UNCHANGED <<series, contents, backfills, unread, writeFaults, overlapped>>
  BY DEF MoveBaseline, Storing
<1>2. /\ backfill' \in [Backfill -> BackfillOf] /\ \A a \in Backfill : RequestOK(backfill'[a])
      /\ ~overlapped => \A a \in Backfill : backfill'[a].at \notin {"writing", "moving"}
  BY <1>1, NobodyLeft
<1>3. ASSUME ~overlapped PROVE OneWriter'
  <2>1. temporary # NoInode /\ contents[temporary] \in Goods
    BY <1>1, <1>3 DEF SeriesInv, OneWriter
  <2>2. stored' = temporary /\ contents'[stored'] \in Goods
    BY <1>1, <2>1
  <2>3. Storing' = {}
    BY <1>2, <1>3 DEF Storing
  <2> QED
    BY <1>1, <1>2, <1>3, <2>1, <2>2, <2>3 DEF OneWriter
<1>4. stored' \in Inode \cup {NoInode}
  BY <1>1 DEF SeriesInv
<1> QED
  BY <1>1, <1>2, <1>3, <1>4 DEF SeriesInv

(* What is left of a writer that stops half way. *)
LEMMA RemainsAre ==
    ASSUME SeriesInv, NEW b \in Backfill, Remains(b)
    PROVE  /\ contents' \in [Inode -> Text]
           /\ ~overlapped => contents' = contents
<1>1. contents \in [Inode -> Text]
  BY DEF SeriesInv
<1>2. CASE backfill[b].at = "writing" /\ ~backfill[b].alone
  <2>1. contents' = contents \/ contents' = [contents EXCEPT ![backfill[b].file] = Torn]
    BY <1>2 DEF Remains
  <2>2. overlapped
    BY <1>2 DEF SeriesInv, OneWriter
  <2> QED
    BY <1>1, <2>1, <2>2 DEF Text
<1>3. CASE ~(backfill[b].at = "writing" /\ ~backfill[b].alone)
  BY <1>1, <1>3 DEF Remains
<1> QED
  BY <1>2, <1>3

LEMMA FailSafe ==
    ASSUME SeriesInv, NEW b \in Backfill, WriteFails(b) \/ BackfillDies(b)
    PROVE  SeriesInv'
<1>1. /\ b \in Storing /\ Remains(b) /\ writeFaults < MaxWriteFaults
      /\ temporary' = NoInode \/ temporary' = temporary
      /\ writeFaults' = writeFaults + 1
      /\ backfill' = [backfill EXCEPT ![b] = NoBackfill]
      /\ UNCHANGED <<series, stored, backfills, unread, overlapped>>
  BY DEF WriteFails, BackfillDies, Storing
<1>2. /\ backfill' \in [Backfill -> BackfillOf] /\ \A a \in Backfill : RequestOK(backfill'[a])
      /\ ~overlapped => \A a \in Backfill : backfill'[a].at \notin {"writing", "moving"}
  BY <1>1, NobodyLeft
<1>3. contents' \in [Inode -> Text] /\ (~overlapped => contents' = contents)
  BY <1>1, RemainsAre
<1>4. ASSUME ~overlapped PROVE OneWriter'
  <2>1. Storing' = {}
    BY <1>2, <1>4 DEF Storing
  <2>2. stored # NoInode => contents[stored] \in Goods /\ temporary' # stored
    BY <1>1, <1>4 DEF SeriesInv, OneWriter
  <2> QED
    BY <1>1, <1>2, <1>3, <1>4, <2>1, <2>2 DEF OneWriter
<1>5. writeFaults' \in 0..MaxWriteFaults
  BY <1>1, SeriesAssumption DEF SeriesInv
<1>6. temporary' \in Inode \cup {NoInode}
  BY <1>1 DEF SeriesInv
<1> QED
  BY <1>1, <1>2, <1>3, <1>4, <1>5, <1>6 DEF SeriesInv

LEMMA SeriesStep == SeriesInv /\ [SeriesNext]_seriesVars => SeriesInv'
<1> SUFFICES ASSUME SeriesInv, [SeriesNext]_seriesVars PROVE SeriesInv'
  OBVIOUS
<1>1. CASE UNCHANGED seriesVars
  BY <1>1 DEF SeriesInv, seriesVars, OneWriter, Storing
<1>2. CASE SeriesNext
  <2>1. PICK b \in Backfill :
            \/ Discover(b) \/ ExtractDetections(b) \/ Synthesise(b)
            \/ OpenTemporary(b) \/ WriteBaseline(b) \/ MoveBaseline(b)
            \/ WriteFails(b) \/ BackfillDies(b)
    BY <1>2 DEF SeriesNext
  <2> QED
    BY <2>1, DiscoverSafe, ExtractSafe, SynthesiseSafe, OpenSafe, WriteSafe, MoveSafe, FailSafe
<1> QED
  BY <1>1, <1>2

LEMMA SeriesInvHolds == SeriesSpec => []SeriesInv
<1> QED
  BY SeriesInitHolds, SeriesStep, PTL DEF SeriesSpec

(* What a reader of an area's baseline is served, whatever the number of   *)
(* backfills, of scans and of targets, and wherever the targets are: every *)
(* structure that stayed in its place and had room around it, from a file  *)
(* that can be read unless two backfills have written at once              *)
(* (backfill_aoi_baseline.py:135-197, filesystem_aoi_baseline.py:44-70).   *)
THEOREM BaselineAlwaysServed == SeriesSpec => []BaselineServed
<1> QED
  BY SeriesInvHolds, InvServes, PTL

(* The program of a backfill and the files stay within their types. *)
THEOREM SeriesTypeCorrect == SeriesSpec => []SeriesTypeOK
<1> QED
  BY SeriesInvHolds, InvTyped, PTL
=============================================================================
