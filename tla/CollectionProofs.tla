--------------------------- MODULE CollectionProofs ---------------------------
(***************************************************************************)
(* What the components that fetch from outside keep, for any number of     *)
(* requests, providers and runs.                                           *)
(*                                                                         *)
(* A provider's quota: the count and the charges still to come together    *)
(* stay below the limit and the number of requests (OverrunInv).  This     *)
(* holds for as long as no count is written from an outdated read; without *)
(* that condition it is false: three requests and a limit of two suffice   *)
(* for a lost charge to reopen the quota while a higher count is still to  *)
(* be written.                                                             *)
(*                                                                         *)
(* A scraper's cooldown: an automatic run that calls the plugin has read a *)
(* row without a cooldown that was still to come (AisInv).                 *)
(***************************************************************************)
EXTENDS AisIngest, ProviderFallback, FiniteSetTheorems, TLAPS

(* What is left of the chain. *)
Suffix == {SubSeq(Chain, i, Len(Chain)) : i \in 1..(Len(Chain) + 1)}

(* A request between its quota test and its charge has its provider. *)
Charging == {"dispatching", "recording", "healthy", "charging", "counted"}

HasCandidate ==
    \A d \in Dispatch :
        disp[d].at \in Charging \cup {"failing", "worse"} => disp[d].rest # <<>>

(* The requests that may still charge the provider. *)
InFlight(p) ==
    {d \in Dispatch : disp[d].at \in Charging /\ Head(disp[d].rest) = p}

(* The charges to come are part of the bound: a request gets past the test *)
(* only while the count is below the limit, and each charge is one request *)
(* less to come.                                                           *)
OverrunInv ==
    \A p \in Provider \ miscounted :
        used[p] + Cardinality(InFlight(p)) < DailyLimit + Cardinality(Dispatch)

(* A request that goes on after an acquisition has met a fault. *)
AcquiredInv ==
    \A d \in Dispatch :
        /\ IsFiniteSet(acquired[d])
        /\ Cardinality(acquired[d]) <=
               IF disp[d].at \in {"recording", "healthy", "charging", "counted", "done"}
               THEN 1 + storeFaults ELSE storeFaults
        /\ disp[d].at = "idle" => acquired[d] = {}

FallbackInv == FallbackTypeOK /\ HasCandidate /\ OverrunInv /\ AcquiredInv

-----------------------------------------------------------------------------
(* The first of what is left of the chain is a provider, and the rest is   *)
(* left of the chain too.                                                  *)
LEMMA ChainSuffix ==
    ASSUME NEW r \in Suffix
    PROVE  r # <<>> => Head(r) \in Provider /\ Tail(r) \in Suffix
<1>1. Chain \in Seq(Provider) /\ Len(Chain) \in Nat
  BY ChainAssumption
<1>2. PICK i \in 1..(Len(Chain) + 1) : r = SubSeq(Chain, i, Len(Chain))
  BY DEF Suffix
<1> SUFFICES ASSUME r # <<>> PROVE Head(r) \in Provider /\ Tail(r) \in Suffix
  OBVIOUS
<1>3. i <= Len(Chain)
  BY <1>1, <1>2
<1>4. Head(r) = Chain[i] /\ Chain[i] \in Provider
  BY <1>1, <1>2, <1>3
<1>5. Tail(r) = SubSeq(Chain, i + 1, Len(Chain)) /\ i + 1 \in 1..(Len(Chain) + 1)
  BY <1>1, <1>2, <1>3
<1> QED
  BY <1>4, <1>5 DEF Suffix

LEMMA WholeChain == Chain \in Suffix
<1>1. Chain \in Seq(Provider) /\ Len(Chain) \in Nat
  BY ChainAssumption
<1>2. SubSeq(Chain, 1, Len(Chain)) = Chain /\ 1 \in 1..(Len(Chain) + 1)
  BY <1>1
<1> QED
  BY <1>2 DEF Suffix

LEMMA AttemptType ==
    Attempt = [at : {"idle", "choosing", "dispatching", "recording", "healthy",
                     "charging", "counted", "failing", "worse", "done", "exhausted"},
               rest : Suffix, commercial : BOOLEAN, read : 0..MaxUsed + 3]
BY DEF Attempt, Suffix

(* The requests in flight are no more than all requests. *)
LEMMA InFlightFinite ==
    ASSUME NEW S \in SUBSET Dispatch
    PROVE  /\ IsFiniteSet(S) /\ Cardinality(S) \in Nat
           /\ Cardinality(Dispatch) \in Nat /\ Cardinality(S) <= Cardinality(Dispatch)
<1>1. IsFiniteSet(Dispatch)
  BY ChainAssumption
<1>2. IsFiniteSet(S) /\ Cardinality(S) <= Cardinality(Dispatch)
  BY <1>1, FS_Subset, Zenon
<1> QED
  BY <1>1, <1>2, FS_CardinalityType, Zenon

(* A set that loses an element has one less. *)
LEMMA OneLess ==
    ASSUME NEW S \in SUBSET Dispatch, NEW d \in S
    PROVE  Cardinality(S \ {d}) = Cardinality(S) - 1
<1>1. IsFiniteSet(S)
  BY InFlightFinite
<1> QED
  BY <1>1, FS_RemoveElement, Zenon

(* A set of providers that gains an element has at most one more. *)
LEMMA OneMoreAcquired ==
    ASSUME NEW S, IsFiniteSet(S), NEW x
    PROVE  /\ IsFiniteSet(S \cup {x})
           /\ Cardinality(S) \in Nat /\ Cardinality(S \cup {x}) \in Nat
           /\ Cardinality(S \cup {x}) <= Cardinality(S) + 1
<1>1. IsFiniteSet(S \cup {x})
      /\ Cardinality(S \cup {x}) = IF x \in S THEN Cardinality(S) ELSE Cardinality(S) + 1
  BY FS_AddElement, Zenon
<1>2. Cardinality(S) \in Nat /\ Cardinality(S \cup {x}) \in Nat
  BY <1>1, FS_CardinalityType, Zenon
<1> QED
  BY <1>1, <1>2, SMT

LEMMA FallbackInitially == FallbackInit => FallbackInv
<1> SUFFICES ASSUME FallbackInit PROVE FallbackInv
  OBVIOUS
<1> USE ChainAssumption DEF FallbackInit
<1>1. FallbackTypeOK
  <2>1. disp \in [Dispatch -> Attempt]
    BY WholeChain, AttemptType
  <2>2. /\ failures \in [Provider -> 0..3] /\ status \in [Provider -> Status]
        /\ used \in [Provider -> 0..MaxUsed]
    BY DEF Status
  <2>3. 0 \in 0..MaxStoreFaults /\ 0 \in 0..MaxOperator /\ TRUE \in BOOLEAN
    OBVIOUS
  <2>4. acquired \in [Dispatch -> SUBSET Provider] /\ miscounted \in SUBSET Provider
    OBVIOUS
  <2> QED
    BY <2>1, <2>2, <2>3, <2>4, Zenon DEF FallbackTypeOK
<1>2. HasCandidate
  BY DEF HasCandidate, Charging
<1>3. OverrunInv
  <2> SUFFICES ASSUME NEW p \in Provider
               PROVE  used[p] + Cardinality(InFlight(p)) < DailyLimit + Cardinality(Dispatch)
    BY DEF OverrunInv
  <2>1. InFlight(p) = {} /\ used[p] = 0
    BY DEF InFlight, Charging
  <2>2. Cardinality({}) = 0 /\ Cardinality(Dispatch) \in Nat
    BY FS_EmptySet, FS_CardinalityType, Zenon
  <2>3. Cardinality(InFlight(p)) = 0
    BY <2>1, <2>2, Zenon
  <2> QED
    BY <2>1, <2>2, <2>3
<1>4. AcquiredInv
  <2>1. IsFiniteSet({}) /\ Cardinality({}) = 0
    BY FS_EmptySet, Zenon
  <2> QED
    BY <2>1 DEF AcquiredInv
<1> QED
  BY <1>1, <1>2, <1>3, <1>4 DEF FallbackInv

-----------------------------------------------------------------------------
(* Steps of one request that leave the counts alone.                       *)

(* A request gives up its place, or keeps it: nothing is added. *)
LEMMA OverrunKept ==
    ASSUME FallbackInv, UNCHANGED <<used, miscounted>>,
           \A p \in Provider : InFlight(p)' \subseteq InFlight(p)
    PROVE  OverrunInv'
<1> SUFFICES ASSUME NEW p \in Provider \ miscounted
             PROVE  used[p] + Cardinality(InFlight(p)') < DailyLimit + Cardinality(Dispatch)
  BY DEF OverrunInv
<1>1. used[p] + Cardinality(InFlight(p)) < DailyLimit + Cardinality(Dispatch)
  BY DEF FallbackInv, OverrunInv
<1>2. InFlight(p) \in SUBSET Dispatch
  BY DEF InFlight
<1>3. IsFiniteSet(InFlight(p)) /\ Cardinality(InFlight(p)) \in Nat
      /\ Cardinality(Dispatch) \in Nat
  BY <1>2, InFlightFinite
<1>4. Cardinality(InFlight(p)') \in Nat /\ Cardinality(InFlight(p)') <= Cardinality(InFlight(p))
  <2>1. IsFiniteSet(InFlight(p)') /\ Cardinality(InFlight(p)') <= Cardinality(InFlight(p))
    BY <1>3, FS_Subset, Zenon
  <2> QED
    BY <2>1, FS_CardinalityType, Zenon
<1>5. used[p] \in Nat /\ DailyLimit \in Nat
  BY ChainAssumption DEF FallbackInv, FallbackTypeOK
<1> QED
  BY <1>1, <1>3, <1>4, <1>5

(* One request moves on; nothing it acquired is forgotten or added, and it *)
(* is not charged.                                                         *)
LEMMA RequestMoves ==
    ASSUME FallbackInv, NEW d \in Dispatch, NEW a \in Attempt,
           disp' = [disp EXCEPT ![d] = a],
           UNCHANGED <<used, miscounted, acquired, quotaEdit, budget>>,
           failures' \in [Provider -> 0..3], status' \in [Provider -> Status],
           operator' \in 0..MaxOperator,
           storeFaults' \in 0..MaxStoreFaults, storeFaults <= storeFaults',
           a.at \in Charging \cup {"failing", "worse"} => a.rest # <<>>,
           a.at \in Charging =>
               disp[d].at \in Charging /\ Head(a.rest) = Head(disp[d].rest),
           a.at = "idle" => disp[d].at = "idle",
           \/ a.at \in {"recording", "healthy", "charging", "counted", "done"}
           \/ storeFaults' > storeFaults
           \/ disp[d].at \notin {"recording", "healthy", "charging", "counted", "done"}
    PROVE  FallbackInv'
<1>1. /\ disp' \in [Dispatch -> Attempt] /\ disp'[d] = a
      /\ \A e \in Dispatch : e # d => disp'[e] = disp[e]
      /\ storeFaults \in Nat /\ storeFaults' \in Nat
  BY ChainAssumption DEF FallbackInv, FallbackTypeOK
<1>2. FallbackTypeOK'
  BY <1>1 DEF FallbackInv, FallbackTypeOK
<1>3. HasCandidate'
  BY <1>1 DEF FallbackInv, HasCandidate
<1>4. OverrunInv'
  <2>1. ASSUME NEW p \in Provider, NEW e \in InFlight(p)' PROVE e \in InFlight(p)
    <3>1. e \in Dispatch /\ disp'[e].at \in Charging /\ Head(disp'[e].rest) = p
      BY <2>1 DEF InFlight
    <3> QED
      BY <1>1, <3>1 DEF InFlight
  <2> QED
    BY <2>1, OverrunKept
<1>5. AcquiredInv'
  <2> SUFFICES ASSUME NEW e \in Dispatch
               PROVE  /\ IsFiniteSet(acquired[e])
                      /\ Cardinality(acquired[e]) <=
                             IF disp'[e].at \in {"recording", "healthy", "charging",
                                                 "counted", "done"}
                             THEN 1 + storeFaults' ELSE storeFaults'
                      /\ disp'[e].at = "idle" => acquired[e] = {}
    BY DEF AcquiredInv
  <2>1. /\ IsFiniteSet(acquired[e])
        /\ Cardinality(acquired[e]) <=
               IF disp[e].at \in {"recording", "healthy", "charging", "counted", "done"}
               THEN 1 + storeFaults ELSE storeFaults
        /\ disp[e].at = "idle" => acquired[e] = {}
    BY DEF FallbackInv, AcquiredInv
  <2>2. Cardinality(acquired[e]) \in Nat
    BY <2>1, FS_CardinalityType
  <2>3. CASE e # d
    BY <1>1, <2>1, <2>2, <2>3
  <2>4. CASE e = d
    BY <1>1, <2>1, <2>2, <2>4
  <2> QED
    BY <2>3, <2>4
<1> QED
  BY <1>2, <1>3, <1>4, <1>5 DEF FallbackInv

(* The request and its candidate. *)
LEMMA Facts ==
    ASSUME FallbackInv, NEW d \in Dispatch
    PROVE  /\ disp \in [Dispatch -> Attempt] /\ disp[d] \in Attempt
           /\ disp[d].rest \in Suffix
           /\ disp[d].rest # <<>> => Candidate(d) \in Provider /\ Tail(disp[d].rest) \in Suffix
           /\ failures \in [Provider -> 0..3] /\ status \in [Provider -> Status]
           /\ used \in [Provider -> 0..MaxUsed] /\ MaxUsed \in Nat
           /\ operator \in 0..MaxOperator /\ storeFaults \in 0..MaxStoreFaults
           /\ storeFaults \in Nat /\ MaxStoreFaults \in Nat
           /\ disp[d].at \in Charging \cup {"failing", "worse"} => disp[d].rest # <<>>
<1>1. disp \in [Dispatch -> Attempt] /\ disp[d] \in Attempt
  BY DEF FallbackInv, FallbackTypeOK
<1>2. disp[d].rest \in Suffix
  BY <1>1, AttemptType
<1>3. disp[d].rest # <<>> => Candidate(d) \in Provider /\ Tail(disp[d].rest) \in Suffix
  BY <1>2, ChainSuffix DEF Candidate
<1> QED
  BY <1>1, <1>2, <1>3, ChainAssumption DEF FallbackInv, FallbackTypeOK, HasCandidate

(* The candidate is given up. *)
LEMMA NextCandidateMoves ==
    ASSUME FallbackInv, NEW d \in Dispatch, NextCandidate(d),
           disp[d].at \in {"choosing", "worse"}, disp[d].rest # <<>>,
           UNCHANGED <<used, miscounted, acquired, quotaEdit, budget, operator, storeFaults>>,
           failures' \in [Provider -> 0..3], status' \in [Provider -> Status]
    PROVE  FallbackInv'
<1> DEFINE a == [disp[d] EXCEPT !.at = "choosing", !.rest = Tail(@)]
<1>1. a \in Attempt /\ a.at = "choosing"
  BY Facts, AttemptType
<1>2. disp' = [disp EXCEPT ![d] = a]
  BY Facts DEF NextCandidate
<1> HIDE DEF a
<1>3. a.at \notin Charging \cup {"failing", "worse", "idle"}
  BY <1>1 DEF Charging
<1>4. storeFaults' \in 0..MaxStoreFaults /\ storeFaults <= storeFaults'
      /\ operator' \in 0..MaxOperator
  BY Facts
<1> QED
  BY <1>1, <1>2, <1>3, <1>4, RequestMoves

(* The request goes on with the same candidate. *)
LEMMA GoMoves ==
    ASSUME FallbackInv, NEW d \in Dispatch, NEW at, Go(d, at),
           at \in {"healthy", "charging", "worse", "failing", "exhausted", "done"},
           UNCHANGED <<used, miscounted, acquired, quotaEdit, budget, operator>>,
           failures' \in [Provider -> 0..3], status' \in [Provider -> Status],
           storeFaults' \in 0..MaxStoreFaults, storeFaults <= storeFaults',
           at \in {"healthy", "charging"} => disp[d].at \in Charging,
           at \in {"failing", "worse"} => disp[d].rest # <<>>,
           \/ at \in {"healthy", "charging", "done"}
           \/ storeFaults' > storeFaults
           \/ disp[d].at \notin {"recording", "healthy", "charging", "counted", "done"}
    PROVE  FallbackInv'
<1> DEFINE a == [disp[d] EXCEPT !.at = at]
<1>1. a \in Attempt /\ a.at = at /\ a.rest = disp[d].rest
  BY Facts, AttemptType
<1>2. disp' = [disp EXCEPT ![d] = a]
  BY Facts DEF Go
<1> HIDE DEF a
<1>3. at \in Charging \cup {"failing", "worse"} => disp[d].rest # <<>>
  BY Facts DEF Charging
<1>4. at \in Charging => disp[d].at \in Charging
  BY DEF Charging
<1> QED
  BY <1>1, <1>2, <1>3, <1>4, Facts, RequestMoves

-----------------------------------------------------------------------------
LEMMA CallDispatcherKeeps ==
    ASSUME FallbackInv, NEW d \in Dispatch, CallDispatcher(d)
    PROVE  FallbackInv'
<1> DEFINE c == Candidate(d)
<1>1. /\ disp[d].at = "choosing" /\ disp[d].rest # <<>> /\ used[c] < DailyLimit
      /\ disp' = [disp EXCEPT ![d].at = "dispatching"]
      /\ UNCHANGED <<failures, status, used, budget, acquired, quotaEdit, miscounted,
                     storeFaults, operator>>
  BY DEF CallDispatcher, Go, Eligible, QuotaLeft
<1>2. /\ disp' \in [Dispatch -> Attempt]
      /\ disp'[d].at = "dispatching" /\ disp'[d].rest = disp[d].rest
      /\ \A e \in Dispatch : e # d => disp'[e] = disp[e]
  BY <1>1, Facts, AttemptType
<1>3. FallbackTypeOK'
  BY <1>1, <1>2 DEF FallbackInv, FallbackTypeOK
<1>4. HasCandidate'
  BY <1>1, <1>2 DEF FallbackInv, HasCandidate
<1>5. OverrunInv'
  <2> SUFFICES ASSUME NEW p \in Provider \ miscounted
               PROVE  used[p] + Cardinality(InFlight(p)') < DailyLimit + Cardinality(Dispatch)
    BY <1>1 DEF OverrunInv
  <2>1. CASE p = c
    <3>1. InFlight(p)' \in SUBSET Dispatch
      BY DEF InFlight
    <3>2. /\ Cardinality(InFlight(p)') \in Nat /\ Cardinality(Dispatch) \in Nat
          /\ Cardinality(InFlight(p)') <= Cardinality(Dispatch)
      BY <3>1, InFlightFinite
    <3>3. used[p] \in Nat /\ DailyLimit \in Nat
      BY ChainAssumption DEF FallbackInv, FallbackTypeOK
    <3> QED
      BY <1>1, <2>1, <3>2, <3>3
  <2>2. CASE p # c
    <3>1. InFlight(p)' = InFlight(p)
      BY <1>1, <1>2, <2>2 DEF InFlight, Charging, Candidate
    <3> QED
      BY <3>1 DEF FallbackInv, OverrunInv
  <2> QED
    BY <2>1, <2>2
<1>6. AcquiredInv'
  <2>1. ASSUME NEW e \in Dispatch
        PROVE  /\ disp'[e].at = "idle" => disp[e].at = "idle"
               /\ disp'[e].at \in {"recording", "healthy", "charging", "counted", "done"}
                  <=> disp[e].at \in {"recording", "healthy", "charging", "counted", "done"}
    BY <1>1, <1>2
  <2> QED
    BY <1>1, <2>1 DEF FallbackInv, AcquiredInv
<1> QED
  BY <1>3, <1>4, <1>5, <1>6 DEF FallbackInv

LEMMA DispatcherReturnsKeeps ==
    ASSUME FallbackInv, NEW d \in Dispatch, DispatcherReturns(d)
    PROVE  FallbackInv'
<1> DEFINE c == Candidate(d)
<1>1. /\ disp[d].at = "dispatching" /\ disp[d].rest # <<>> /\ c \in Provider
      /\ disp' = [disp EXCEPT ![d].at = "recording"]
      /\ acquired' = [acquired EXCEPT ![d] = @ \cup {c}]
      /\ UNCHANGED <<failures, status, used, budget, quotaEdit, miscounted, storeFaults, operator>>
  <2>1. disp[d].at \in Charging
    BY DEF DispatcherReturns, Charging
  <2> QED
    BY <2>1, Facts DEF DispatcherReturns, Go
<1>2. /\ disp' \in [Dispatch -> Attempt]
      /\ disp'[d].at = "recording" /\ disp'[d].rest = disp[d].rest
      /\ \A e \in Dispatch : e # d => disp'[e] = disp[e]
  BY <1>1, Facts, AttemptType
<1>3. /\ acquired \in [Dispatch -> SUBSET Provider] /\ acquired' \in [Dispatch -> SUBSET Provider]
      /\ acquired'[d] = acquired[d] \cup {c}
      /\ \A e \in Dispatch : e # d => acquired'[e] = acquired[e]
  BY <1>1 DEF FallbackInv, FallbackTypeOK
<1>4. FallbackTypeOK'
  BY <1>1, <1>2, <1>3 DEF FallbackInv, FallbackTypeOK
<1>5. HasCandidate'
  BY <1>1, <1>2 DEF FallbackInv, HasCandidate
<1>6. OverrunInv'
  <2>1. \A p \in Provider : InFlight(p)' = InFlight(p)
    BY <1>1, <1>2 DEF InFlight, Charging
  <2> QED
    BY <1>1, <2>1 DEF FallbackInv, OverrunInv
<1>7. AcquiredInv'
  <2> SUFFICES ASSUME NEW e \in Dispatch
               PROVE  /\ IsFiniteSet(acquired'[e])
                      /\ Cardinality(acquired'[e]) <=
                             IF disp'[e].at \in {"recording", "healthy", "charging",
                                                 "counted", "done"}
                             THEN 1 + storeFaults ELSE storeFaults
                      /\ disp'[e].at = "idle" => acquired'[e] = {}
    BY <1>1 DEF AcquiredInv
  <2>1. CASE e # d
    BY <1>2, <1>3, <2>1 DEF FallbackInv, AcquiredInv
  <2>2. CASE e = d
    <3>1. IsFiniteSet(acquired[d]) /\ Cardinality(acquired[d]) <= storeFaults
      BY <1>1 DEF FallbackInv, AcquiredInv
    <3>2. /\ IsFiniteSet(acquired[d] \cup {c})
          /\ Cardinality(acquired[d]) \in Nat /\ Cardinality(acquired[d] \cup {c}) \in Nat
          /\ Cardinality(acquired[d] \cup {c}) <= Cardinality(acquired[d]) + 1
      BY <3>1, OneMoreAcquired
    <3>3. IsFiniteSet(acquired'[d]) /\ Cardinality(acquired'[d]) <= 1 + storeFaults
      BY <1>3, <3>1, <3>2, Facts
    <3> QED
      BY <1>2, <2>2, <3>3
  <2> QED
    BY <2>1, <2>2
<1> QED
  BY <1>4, <1>5, <1>6, <1>7 DEF FallbackInv

(* The charge: one more used, one less in flight. *)
LEMMA ChargeKeeps ==
    ASSUME FallbackInv, NEW d \in Dispatch, Charge(d)
    PROVE  FallbackInv'
<1> DEFINE c == Candidate(d)
           more == IF disp[d].read < MaxUsed THEN disp[d].read + 1 ELSE MaxUsed
<1>1. /\ disp[d].at = "counted" /\ disp[d].rest # <<>> /\ c \in Provider
      /\ used' = [used EXCEPT ![c] = more]
      /\ miscounted' = MiscountedBy(c, used[c] # disp[d].read)
      /\ disp' = [disp EXCEPT ![d].at = "done"]
      /\ UNCHANGED <<failures, status, budget, acquired, quotaEdit, storeFaults, operator>>
  <2>1. disp[d].at \in Charging
    BY DEF Charge, Charging
  <2> QED
    BY <2>1, Facts DEF Charge, Go
<1>2. /\ disp' \in [Dispatch -> Attempt]
      /\ disp'[d].at = "done" /\ disp'[d].rest = disp[d].rest
      /\ \A e \in Dispatch : e # d => disp'[e] = disp[e]
  BY <1>1, Facts, AttemptType
<1>3. more \in 0..MaxUsed /\ (disp[d].read = used[c] => more <= used[c] + 1)
  <2>1. disp[d].read \in 0..(MaxUsed + 3) /\ MaxUsed \in Nat
    BY Facts, AttemptType
  <2>2. used[c] \in 0..MaxUsed
    BY <1>1, Facts
  <2> QED
    BY <2>1, <2>2
<1> HIDE DEF more
<1>4. FallbackTypeOK'
  <2>1. used' \in [Provider -> 0..MaxUsed]
    BY <1>1, <1>3, Facts
  <2>2. miscounted' \in SUBSET Provider
    BY <1>1 DEF FallbackInv, FallbackTypeOK, MiscountedBy
  <2> QED
    BY <1>1, <1>2, <2>1, <2>2 DEF FallbackInv, FallbackTypeOK
<1>5. HasCandidate'
  BY <1>1, <1>2 DEF FallbackInv, HasCandidate, Charging
<1>6. OverrunInv'
  <2> SUFFICES ASSUME NEW p \in Provider \ miscounted'
               PROVE  used'[p] + Cardinality(InFlight(p)') < DailyLimit + Cardinality(Dispatch)
    BY DEF OverrunInv
  <2>1. p \in Provider \ miscounted
    BY <1>1 DEF MiscountedBy
  <2>2. used[p] + Cardinality(InFlight(p)) < DailyLimit + Cardinality(Dispatch)
    BY <2>1 DEF FallbackInv, OverrunInv
  <2>3. CASE p = c
    <3>1. d \in InFlight(p) /\ InFlight(p) \in SUBSET Dispatch
      BY <1>1, <2>3 DEF InFlight, Charging, Candidate
    <3>2. InFlight(p)' = InFlight(p) \ {d}
      BY <1>1, <1>2, <2>3 DEF InFlight, Charging, Candidate
    <3>3. Cardinality(InFlight(p)') = Cardinality(InFlight(p)) - 1
      BY <3>1, <3>2, OneLess
    <3>4. used[c] = disp[d].read
      BY <1>1, <2>3 DEF MiscountedBy
    <3>5. used'[p] = more
      BY <1>1, <2>3, Facts
    <3>6. /\ Cardinality(InFlight(p)) \in Nat /\ Cardinality(Dispatch) \in Nat
          /\ used[p] \in Nat /\ DailyLimit \in Nat /\ more \in Nat
      BY <1>3, <3>1, InFlightFinite, ChainAssumption DEF FallbackInv, FallbackTypeOK
    <3> QED
      BY <1>3, <2>2, <2>3, <3>3, <3>4, <3>5, <3>6
  <2>4. CASE p # c
    <3>1. InFlight(p)' = InFlight(p)
      BY <1>1, <1>2, <2>4 DEF InFlight, Charging, Candidate
    <3>2. used'[p] = used[p]
      BY <1>1, <2>1, <2>4, Facts
    <3> QED
      BY <2>2, <3>1, <3>2
  <2> QED
    BY <2>3, <2>4
<1>7. AcquiredInv'
  <2>1. ASSUME NEW e \in Dispatch
        PROVE  /\ disp'[e].at = "idle" => disp[e].at = "idle"
               /\ disp'[e].at \in {"recording", "healthy", "charging", "counted", "done"}
                  <=> disp[e].at \in {"recording", "healthy", "charging", "counted", "done"}
    BY <1>1, <1>2
  <2> QED
    BY <1>1, <2>1 DEF FallbackInv, AcquiredInv
<1> QED
  BY <1>4, <1>5, <1>6, <1>7 DEF FallbackInv

(* The handler is free: it has nothing in flight and nothing acquired. *)
LEMMA NextRequestKeeps ==
    ASSUME FallbackInv, NEW d \in Dispatch, NextRequest(d)
    PROVE  FallbackInv'
<1> DEFINE a == [at |-> "idle", rest |-> Chain, commercial |-> FALSE, read |-> 0]
<1>1. /\ disp' = [disp EXCEPT ![d] = a] /\ acquired' = [acquired EXCEPT ![d] = {}]
      /\ UNCHANGED <<failures, status, used, budget, quotaEdit, miscounted, storeFaults, operator>>
  BY DEF NextRequest
<1>2. a \in Attempt
  BY WholeChain, AttemptType, Facts
<1>3. /\ disp' \in [Dispatch -> Attempt] /\ disp'[d].at = "idle"
      /\ \A e \in Dispatch : e # d => disp'[e] = disp[e]
  BY <1>1, <1>2, Facts
<1>4. /\ acquired' \in [Dispatch -> SUBSET Provider] /\ acquired'[d] = {}
      /\ \A e \in Dispatch : e # d => acquired'[e] = acquired[e]
  BY <1>1 DEF FallbackInv, FallbackTypeOK
<1>5. FallbackTypeOK'
  BY <1>1, <1>3, <1>4 DEF FallbackInv, FallbackTypeOK
<1>6. HasCandidate'
  BY <1>3 DEF FallbackInv, HasCandidate, Charging
<1>7. OverrunInv'
  <2>1. \A p \in Provider : InFlight(p)' \subseteq InFlight(p)
    BY <1>3 DEF InFlight, Charging
  <2> QED
    BY <1>1, <2>1, OverrunKept
<1>8. AcquiredInv'
  <2>1. IsFiniteSet({}) /\ Cardinality({}) = 0
    BY FS_EmptySet, Zenon
  <2>2. storeFaults \in Nat
    BY Facts
  <2> QED
    BY <1>1, <1>3, <1>4, <2>1, <2>2 DEF FallbackInv, AcquiredInv
<1> QED
  BY <1>5, <1>6, <1>7, <1>8 DEF FallbackInv

LEMMA DispatchKeeps ==
    ASSUME FallbackInv, NEW d \in Dispatch, DispatchStep(d)
    PROVE  FallbackInv'
<1>1. ASSUME NEW allowed \in BOOLEAN, BeginDispatch(d, allowed) PROVE FallbackInv'
  <2> DEFINE a == [disp[d] EXCEPT !.at = "choosing", !.commercial = allowed /\ budget]
  <2>1. a \in Attempt /\ a.at = "choosing"
    BY Facts, AttemptType
  <2>2. disp' = [disp EXCEPT ![d] = a]
    BY <1>1, Facts DEF BeginDispatch
  <2> HIDE DEF a
  <2>3. a.at \notin Charging \cup {"failing", "worse", "idle"}
    BY <2>1 DEF Charging
  <2>4. /\ disp[d].at = "idle"
        /\ UNCHANGED <<failures, status, used, budget, acquired, quotaEdit, miscounted,
                       storeFaults, operator>>
    BY <1>1 DEF BeginDispatch
  <2>5. /\ storeFaults' \in 0..MaxStoreFaults /\ storeFaults <= storeFaults'
        /\ operator' \in 0..MaxOperator
        /\ failures' \in [Provider -> 0..3] /\ status' \in [Provider -> Status]
    BY <2>4, Facts
  <2> QED
    BY <2>1, <2>2, <2>3, <2>4, <2>5, RequestMoves
<1>2. CASE SkipCandidate(d)
  BY <1>2, Facts, NextCandidateMoves DEF SkipCandidate
<1>3. CASE Exhausted(d)
  BY <1>3, Facts, GoMoves DEF Exhausted
<1>4. CASE DispatcherRaises(d)
  <2>1. disp[d].at \in Charging
    BY <1>4 DEF DispatcherRaises, Charging
  <2> QED
    BY <1>4, <2>1, Facts, GoMoves DEF DispatcherRaises
<1>5. CASE ReadHealth(d)
  <2> DEFINE to == IF disp[d].at = "recording" THEN "healthy" ELSE "worse"
             a == [disp[d] EXCEPT !.at = to, !.read = failures[Candidate(d)]]
  <2>1. disp[d].at \in Charging \cup {"failing", "worse"} /\ disp[d].at \in {"recording", "failing"}
    BY <1>5 DEF ReadHealth, Charging
  <2>2. failures[Candidate(d)] \in 0..(MaxUsed + 3)
    <3>1. failures[Candidate(d)] \in 0..3 /\ MaxUsed \in Nat
      BY <2>1, Facts
    <3> QED
      BY <3>1
  <2>3. a \in Attempt /\ a.at = to /\ a.rest = disp[d].rest
    BY <2>2, Facts, AttemptType
  <2>4. disp' = [disp EXCEPT ![d] = a]
    BY <1>5, Facts DEF ReadHealth
  <2>5. UNCHANGED <<failures, status, used, budget, acquired, quotaEdit, miscounted,
                    storeFaults, operator>>
    BY <1>5 DEF ReadHealth
  <2> HIDE DEF a
  <2>6. a.at \in Charging => disp[d].at \in Charging
    BY <2>1, <2>3 DEF Charging
  <2>7. /\ storeFaults' \in 0..MaxStoreFaults /\ storeFaults <= storeFaults'
        /\ operator' \in 0..MaxOperator
        /\ failures' \in [Provider -> 0..3] /\ status' \in [Provider -> Status]
    BY <2>5, Facts
  <2> QED
    BY <2>1, <2>3, <2>4, <2>5, <2>6, <2>7, Facts, RequestMoves
<1>6. CASE WriteHealthy(d)
  <2>1. disp[d].at \in Charging
    BY <1>6 DEF WriteHealthy, Charging
  <2>2. failures' \in [Provider -> 0..3] /\ status' \in [Provider -> Status]
    <3>1. 0 \in 0..3 /\ "HEALTHY" \in Status
      BY DEF Status
    <3> QED
      BY <1>6, <3>1, Facts DEF WriteHealthy
  <2> QED
    BY <1>6, <2>1, <2>2, Facts, GoMoves DEF WriteHealthy
<1>7. CASE WriteWorse(d)
  <2> DEFINE count == IF disp[d].read < 3 THEN disp[d].read + 1 ELSE 3
  <2>1. disp[d].at = "worse" /\ disp[d].rest # <<>>
    BY <1>7, Facts DEF WriteWorse
  <2>2. count \in 0..3
    <3>1. disp[d].read \in 0..(MaxUsed + 3) /\ MaxUsed \in Nat
      BY Facts, AttemptType
    <3> QED
      BY <3>1
  <2>3. failures' = [failures EXCEPT ![Candidate(d)] = count]
        /\ status' = [status EXCEPT ![Candidate(d)] = IF count = 3 THEN "DOWN" ELSE "DEGRADED"]
    BY <1>7 DEF WriteWorse
  <2> HIDE DEF count
  <2>4. failures' \in [Provider -> 0..3] /\ status' \in [Provider -> Status]
    BY <2>2, <2>3, Facts DEF Status
  <2> QED
    BY <1>7, <2>1, <2>4, Facts, NextCandidateMoves DEF WriteWorse
<1>8. CASE ReadQuota(d)
  <2> DEFINE a == [disp[d] EXCEPT !.at = "counted", !.read = used[Candidate(d)]]
  <2>1. disp[d].at \in Charging /\ disp[d].at = "charging"
    BY <1>8 DEF ReadQuota, Charging
  <2>2. used[Candidate(d)] \in 0..(MaxUsed + 3)
    <3>1. used[Candidate(d)] \in 0..MaxUsed /\ MaxUsed \in Nat
      BY <2>1, Facts
    <3> QED
      BY <3>1
  <2>3. a \in Attempt /\ a.at = "counted" /\ a.rest = disp[d].rest
    BY <2>2, Facts, AttemptType
  <2>4. /\ disp' = [disp EXCEPT ![d] = a]
        /\ UNCHANGED <<failures, status, used, budget, acquired, quotaEdit, miscounted,
                       storeFaults, operator>>
    BY <1>8, Facts DEF ReadQuota
  <2> HIDE DEF a
  <2>5. /\ storeFaults' \in 0..MaxStoreFaults /\ storeFaults <= storeFaults'
        /\ operator' \in 0..MaxOperator
        /\ failures' \in [Provider -> 0..3] /\ status' \in [Provider -> Status]
    BY <2>4, Facts
  <2> QED
    BY <2>1, <2>3, <2>4, <2>5, Facts, RequestMoves
<1>9. CASE BookkeepingRaises(d)
  <2>1. disp[d].at \in Charging
    BY <1>9 DEF BookkeepingRaises, Charging
  <2>2. storeFaults' \in 0..MaxStoreFaults /\ storeFaults' > storeFaults
        /\ storeFaults <= storeFaults'
    BY <1>9, Facts DEF BookkeepingRaises
  <2> QED
    BY <1>9, <2>1, <2>2, Facts, GoMoves DEF BookkeepingRaises
<1>10. CASE FailureRecordRaises(d)
  <2>1. storeFaults' \in 0..MaxStoreFaults /\ storeFaults' > storeFaults
        /\ storeFaults <= storeFaults'
    BY <1>10, Facts DEF FailureRecordRaises
  <2> QED
    BY <1>10, <2>1, Facts, GoMoves DEF FailureRecordRaises
<1> QED
  BY <1>1, <1>2, <1>3, <1>4, <1>5, <1>6, <1>7, <1>8, <1>9, <1>10, CallDispatcherKeeps,
     DispatcherReturnsKeeps, ChargeKeeps DEF DispatchStep

-----------------------------------------------------------------------------
(* A step of the operator that touches no request and no count. *)
LEMMA OperatorKeeps ==
    ASSUME FallbackInv, UNCHANGED <<used, disp, acquired, miscounted, storeFaults>>,
           failures' \in [Provider -> 0..3], status' \in [Provider -> Status],
           budget' \in BOOLEAN, operator' \in 0..MaxOperator,
           quotaEdit' \in {<<>>} \cup (Provider \X (0..MaxUsed))
    PROVE  FallbackInv'
<1>1. FallbackTypeOK'
  BY DEF FallbackInv, FallbackTypeOK
<1>2. HasCandidate' /\ AcquiredInv'
  BY DEF FallbackInv, HasCandidate, AcquiredInv
<1>3. OverrunInv'
  BY OverrunKept DEF InFlight
<1> QED
  BY <1>1, <1>2, <1>3 DEF FallbackInv

(* A reset brings the count below every bound; an edit that writes the     *)
(* count as it was read leaves it or is noticed.                           *)
LEMMA WriteEditKeeps ==
    ASSUME FallbackInv, NEW reset \in BOOLEAN, WriteEdit(reset)
    PROVE  FallbackInv'
<1> DEFINE q == quotaEdit[1]
           n == IF reset THEN 0 ELSE quotaEdit[2]
<1>1. /\ quotaEdit # <<>>
      /\ used' = [used EXCEPT ![q] = n]
      /\ miscounted' = IF reset THEN miscounted \ {q}
                       ELSE MiscountedBy(q, used[q] # quotaEdit[2])
      /\ quotaEdit' = <<>>
      /\ UNCHANGED <<failures, status, budget, disp, acquired, storeFaults, operator>>
  BY DEF WriteEdit
<1>2. q \in Provider /\ n \in 0..MaxUsed /\ used \in [Provider -> 0..MaxUsed]
  BY <1>1, ChainAssumption DEF FallbackInv, FallbackTypeOK
<1>3. FallbackTypeOK'
  <2>1. used' \in [Provider -> 0..MaxUsed]
    BY <1>1, <1>2
  <2>2. miscounted' \in SUBSET Provider
    BY <1>1, <1>2 DEF FallbackInv, FallbackTypeOK, MiscountedBy
  <2> QED
    BY <1>1, <2>1, <2>2 DEF FallbackInv, FallbackTypeOK
<1>4. HasCandidate' /\ AcquiredInv'
  BY <1>1 DEF FallbackInv, HasCandidate, AcquiredInv
<1>5. OverrunInv'
  <2> SUFFICES ASSUME NEW p \in Provider \ miscounted'
               PROVE  used'[p] + Cardinality(InFlight(p)') < DailyLimit + Cardinality(Dispatch)
    BY DEF OverrunInv
  <2>1. InFlight(p)' = InFlight(p) /\ InFlight(p) \in SUBSET Dispatch
    BY <1>1 DEF InFlight
  <2>2. CASE p = q /\ reset
    <3>1. used'[p] = 0
      BY <1>1, <1>2, <2>2
    <3>2. /\ Cardinality(InFlight(p)) \in Nat /\ Cardinality(Dispatch) \in Nat
          /\ Cardinality(InFlight(p)) <= Cardinality(Dispatch)
      BY <2>1, InFlightFinite
    <3>3. DailyLimit \in Nat /\ DailyLimit > 0
      BY ChainAssumption
    <3> QED
      BY <2>1, <3>1, <3>2, <3>3
  <2>3. CASE ~(p = q /\ reset)
    <3>1. p \in Provider \ miscounted /\ used'[p] = used[p]
      BY <1>1, <1>2, <2>3 DEF MiscountedBy
    <3> QED
      BY <2>1, <3>1 DEF FallbackInv, OverrunInv
  <2> QED
    BY <2>2, <2>3
<1> QED
  BY <1>3, <1>4, <1>5 DEF FallbackInv

LEMMA FallbackStep == FallbackInv /\ [FallbackNext]_fallbackVars => FallbackInv'
<1> SUFFICES ASSUME FallbackInv, [FallbackNext]_fallbackVars PROVE FallbackInv'
  OBVIOUS
<1>1. /\ failures \in [Provider -> 0..3] /\ status \in [Provider -> Status]
      /\ used \in [Provider -> 0..MaxUsed] /\ budget \in BOOLEAN
      /\ quotaEdit \in {<<>>} \cup (Provider \X (0..MaxUsed))
      /\ operator \in 0..MaxOperator /\ MaxOperator \in Nat
  BY ChainAssumption DEF FallbackInv, FallbackTypeOK
<1>2. Operate => operator' \in 0..MaxOperator
  BY <1>1 DEF Operate
<1>3. ASSUME NEW d \in Dispatch, DispatchStep(d) \/ NextRequest(d) PROVE FallbackInv'
  BY <1>3, DispatchKeeps, NextRequestKeeps
<1>4. ASSUME NEW p \in Provider, NEW to \in Status, SetStatus(p, to) PROVE FallbackInv'
  <2>1. failures' \in [Provider -> 0..3] /\ status' \in [Provider -> Status]
    BY <1>1, <1>4 DEF SetStatus
  <2> QED
    BY <1>1, <1>2, <1>4, <2>1, OperatorKeeps DEF SetStatus
<1>5. ASSUME NEW p \in Provider, ReadForEdit(p) PROVE FallbackInv'
  <2>1. quotaEdit' \in Provider \X (0..MaxUsed)
    BY <1>1, <1>5 DEF ReadForEdit
  <2> QED
    BY <1>1, <1>2, <1>5, <2>1, OperatorKeeps DEF ReadForEdit
<1>6. ASSUME NEW reset \in BOOLEAN, WriteEdit(reset) PROVE FallbackInv'
  BY <1>6, WriteEditKeeps
<1>7. CASE SpendBudget
  BY <1>1, <1>2, <1>7, OperatorKeeps DEF SpendBudget
<1>8. CASE UNCHANGED fallbackVars
  BY <1>1, <1>8, OperatorKeeps DEF fallbackVars
<1> QED
  BY <1>3, <1>4, <1>5, <1>6, <1>7, <1>8 DEF FallbackNext

(* For any number of requests, providers and any limit: a quota is overrun *)
(* by less than the requests in flight while no charge is lost             *)
(* (acquire_with_fallback.py:110-120, sqlite_provider_health.py:272-300).  *)
THEOREM OverrunAlwaysBounded == FallbackSpec => []OverrunBounded
<1>1. FallbackInv => OverrunBounded
  <2> SUFFICES ASSUME FallbackInv, NEW p \in Provider \ miscounted
               PROVE  used[p] < DailyLimit + Cardinality(Dispatch)
    BY DEF OverrunBounded
  <2>1. InFlight(p) \in SUBSET Dispatch
    BY DEF InFlight
  <2>2. Cardinality(InFlight(p)) \in Nat /\ Cardinality(Dispatch) \in Nat
    BY <2>1, InFlightFinite
  <2>3. /\ used[p] \in Nat /\ DailyLimit \in Nat
        /\ used[p] + Cardinality(InFlight(p)) < DailyLimit + Cardinality(Dispatch)
    BY ChainAssumption DEF FallbackInv, FallbackTypeOK, OverrunInv
  <2> QED
    BY <2>2, <2>3
<1> QED
  BY <1>1, FallbackInitially, FallbackStep, PTL DEF FallbackSpec

(* One request acquires from one provider, and from one more for each      *)
(* fault in the bookkeeping (acquire_with_fallback.py:179-229).            *)
THEOREM AlwaysOneAcquisition == FallbackSpec => []OneAcquisition
<1>1. FallbackInv => OneAcquisition
  <2> SUFFICES ASSUME FallbackInv, NEW d \in Dispatch
               PROVE  /\ Cardinality(acquired[d]) <= 1 + storeFaults
                      /\ disp[d].at = "exhausted" /\ storeFaults = 0 => acquired[d] = {}
    BY DEF OneAcquisition
  <2>1. /\ IsFiniteSet(acquired[d]) /\ storeFaults \in Nat
        /\ Cardinality(acquired[d]) <=
               IF disp[d].at \in {"recording", "healthy", "charging", "counted", "done"}
               THEN 1 + storeFaults ELSE storeFaults
    BY Facts DEF FallbackInv, AcquiredInv
  <2>2. Cardinality(acquired[d]) \in Nat
    BY <2>1, FS_CardinalityType, Zenon
  <2>3. Cardinality(acquired[d]) = 0 => acquired[d] = {}
    BY <2>1, FS_EmptySet, Zenon
  <2> QED
    BY <2>1, <2>2, <2>3
<1> QED
  BY <1>1, FallbackInitially, FallbackStep, PTL DEF FallbackSpec

-----------------------------------------------------------------------------
(* The scraper.                                                            *)

(* What an automatic run knows once it calls the plugin: its own reading   *)
(* of the row showed no cooldown at its own `now`, which is past.          *)
AisInv ==
    /\ AisTypeOK
    /\ \A r \in Run :
         /\ ais[r].now <= aisClock
         /\ ais[r].at \in {"fetching", "saved", "failed"} =>
                ais[r].manual \/ ais[r].seen = NoRow \/ ais[r].seen.until <= ais[r].now

-----------------------------------------------------------------------------
LEMMA AisInitially == AisInit => AisInv
<1> SUFFICES ASSUME AisInit PROVE AisInv
  OBVIOUS
<1> USE AisAssumption DEF AisInit
<1>1. 0 \in 0..MaxAisClock /\ 0 \in 0..MaxDbFaults /\ 0 \in 0..MaxAdmin
  OBVIOUS
<1>2. ais \in [Run -> AisRun] /\ \A r \in Run : ais[r].now = 0 /\ ais[r].at = "idle"
  BY <1>1 DEF Idle, AisRun
<1>3. AisTypeOK
  BY <1>1, <1>2, Zenon DEF AisTypeOK
<1> QED
  BY <1>2, <1>3 DEF AisInv

(* A run and the row it has read. *)
LEMMA RunFacts ==
    ASSUME AisInv, NEW r \in Run
    PROVE  /\ ais \in [Run -> AisRun] /\ ais[r] \in AisRun
           /\ aisClock \in 0..MaxAisClock /\ MaxAisClock \in Nat
           /\ scraper \in Scraper \cup {NoRow} /\ RowOrNew \in Scraper
           /\ ais[r].seen \in Scraper \cup {NoRow} /\ ais[r].now \in 0..MaxAisClock
           /\ ais[r].now <= aisClock
           /\ log \in [Run -> 0..MaxAisClock \cup {Closed}]
           /\ dbFaults \in 0..MaxDbFaults /\ MaxDbFaults \in Nat
<1>1. ais \in [Run -> AisRun] /\ ais[r] \in AisRun
  BY DEF AisInv, AisTypeOK
<1>2. ais[r].seen \in Scraper \cup {NoRow} /\ ais[r].now \in 0..MaxAisClock
  BY <1>1 DEF AisRun
<1>3. RowOrNew \in Scraper
  BY AisAssumption DEF AisInv, AisTypeOK, RowOrNew, Scraper
<1> QED
  BY <1>1, <1>2, <1>3, AisAssumption DEF AisInv, AisTypeOK

LEMMA IdleType ==
    ASSUME AisInv
    PROVE  /\ Idle \in AisRun /\ Idle.now = 0 /\ Idle.at = "idle"
           /\ Logging \in AisRun /\ Logging.now = 0 /\ Logging.at = "logging"
<1>1. 0 \in 0..MaxAisClock
  BY AisAssumption
<1>2. Idle \in AisRun /\ Idle.now = 0 /\ Idle.at = "idle"
  BY <1>1 DEF Idle, AisRun
<1>3. Logging \in AisRun /\ Logging.now = 0 /\ Logging.at = "logging"
  BY <1>2 DEF Logging, AisRun
<1> QED
  BY <1>2, <1>3

(* One run moves on; the row keeps its type. *)
LEMMA RunMoves ==
    ASSUME AisInv, NEW r \in Run, NEW a \in AisRun,
           ais' = [ais EXCEPT ![r] = a],
           a.now <= aisClock,
           a.at \in {"fetching", "saved", "failed"} =>
               a.manual \/ a.seen = NoRow \/ a.seen.until <= a.now,
           scraper' \in Scraper \cup {NoRow},
           log' \in [Run -> 0..MaxAisClock \cup {Closed}],
           dbFaults' \in 0..MaxDbFaults,
           UNCHANGED <<aisClock, edit, admin>>
    PROVE  AisInv'
<1>1. ais' \in [Run -> AisRun] /\ ais'[r] = a /\ \A s \in Run : s # r => ais'[s] = ais[s]
  BY RunFacts
<1>2. AisTypeOK'
  BY <1>1 DEF AisInv, AisTypeOK
<1> QED
  BY <1>1, <1>2 DEF AisInv

(* The count of a failure and the cooldown it sets. *)
LEMMA FailureType ==
    ASSUME AisInv, NEW r \in Run
    PROVE  Consecutive(r) \in 1..MaxFailures /\ Cooldown[Consecutive(r)] \in Nat
<1>1. MaxFailures \in Nat \ {0} /\ Cooldown \in [1..MaxFailures -> Nat \ {0}]
  BY AisAssumption
<1>2. ais[r].seen # NoRow => ais[r].seen.failures \in 0..MaxFailures
  BY RunFacts DEF Scraper
<1>3. Consecutive(r) \in 1..MaxFailures
  BY <1>1, <1>2 DEF Consecutive
<1> QED
  BY <1>1, <1>3

LEMMA RunKeeps ==
    ASSUME AisInv, NEW r \in Run, RunStep(r)
    PROVE  AisInv'
<1> DEFINE x == ais[r]
<1>1. /\ x \in AisRun /\ x.now <= aisClock /\ x.now \in 0..MaxAisClock
      /\ aisClock \in 0..MaxAisClock /\ scraper \in Scraper \cup {NoRow}
      /\ log \in [Run -> 0..MaxAisClock \cup {Closed}] /\ dbFaults \in 0..MaxDbFaults
      /\ (x.at \in {"fetching", "saved", "failed"} =>
             x.manual \/ x.seen = NoRow \/ x.seen.until <= x.now)
  BY RunFacts DEF AisInv
<1>2. dbFaults < MaxDbFaults => dbFaults + 1 \in 0..MaxDbFaults
  BY RunFacts
<1>3. 0 <= aisClock
  BY RunFacts
<1>4. ASSUME NEW manual \in BOOLEAN, BeginIngest(r, manual) PROVE AisInv'
  <2> DEFINE a == [x EXCEPT !.at = "started", !.manual = manual, !.now = aisClock,
                            !.seen = scraper]
  <2>1. a \in AisRun /\ a.at = "started" /\ a.now = aisClock
    BY <1>1 DEF AisRun
  <2>2. ais' = [ais EXCEPT ![r] = a] /\ UNCHANGED <<aisClock, scraper, log, edit, dbFaults, admin>>
    BY <1>4, RunFacts DEF BeginIngest
  <2>3. a.now <= aisClock
    BY <1>1, <2>1
  <2> HIDE DEF a, x
  <2> QED
    BY <1>1, <2>1, <2>2, <2>3, RunMoves
<1>5. CASE ReadDetail(r)
  <2>1. PICK row \in Scraper \cup {NoRow} :
            ais' = [ais EXCEPT ![r] = [x EXCEPT !.at = "read", !.seen = row]]
    <3>1. CASE ais' = [ais EXCEPT ![r].at = "read",
                                  ![r].seen = IF scraper = NoRow THEN @ ELSE scraper]
      <4>1. CASE scraper = NoRow
        BY <3>1, <4>1, RunFacts
      <4>2. CASE scraper # NoRow
        BY <3>1, <4>2, RunFacts
      <4> QED
        BY <4>1, <4>2
    <3>2. CASE ais' = [ais EXCEPT ![r].at = "read"]
      <4>1. [x EXCEPT !.at = "read"] = [x EXCEPT !.at = "read", !.seen = x.seen]
        BY <1>1 DEF AisRun
      <4> QED
        BY <3>2, <4>1, RunFacts
    <3> QED
      BY <1>5, <3>1, <3>2 DEF ReadDetail
  <2> DEFINE a == [x EXCEPT !.at = "read", !.seen = row]
  <2>2. a \in AisRun /\ a.at = "read" /\ a.now = x.now
    BY <1>1 DEF AisRun
  <2>3. dbFaults' \in 0..MaxDbFaults /\ UNCHANGED <<aisClock, scraper, log, edit, admin>>
    BY <1>1, <1>2, <1>5 DEF ReadDetail
  <2> HIDE DEF a, x
  <2> QED
    BY <1>1, <2>1, <2>2, <2>3, RunMoves DEF a
<1>6. CASE SkipPlugin(r)
  <2>1. log' \in [Run -> 0..MaxAisClock \cup {Closed}]
    BY <1>1, <1>6 DEF SkipPlugin
  <2>2. /\ ais' = [ais EXCEPT ![r] = Idle] /\ UNCHANGED <<aisClock, scraper, edit, dbFaults, admin>>
    BY <1>6 DEF SkipPlugin
  <2> QED
    BY <1>1, <1>3, <2>1, <2>2, IdleType, RunMoves
<1>7. CASE Trigger(r)
  <2> DEFINE a == [x EXCEPT !.at = "fetching"]
  <2>1. /\ a \in AisRun /\ a.at = "fetching" /\ a.now = x.now /\ a.seen = x.seen
        /\ a.manual = x.manual
    BY <1>1 DEF AisRun
  <2>2. /\ ais' = [ais EXCEPT ![r] = a] /\ log' = [log EXCEPT ![r] = aisClock]
        /\ UNCHANGED <<aisClock, scraper, edit, dbFaults, admin>> /\ ~Skipped(r)
    BY <1>7, RunFacts DEF Trigger
  <2>3. x.manual \/ x.seen = NoRow \/ x.seen.until <= x.now
    <3>1. x.manual \/ x.seen = NoRow \/ ~(x.seen.until > x.now)
      BY <2>2 DEF Skipped
    <3>2. x.seen # NoRow => x.seen.until \in Nat
      BY RunFacts DEF Scraper
    <3> QED
      BY <1>1, <3>1, <3>2
  <2>4. log' \in [Run -> 0..MaxAisClock \cup {Closed}]
    BY <1>1, <2>2
  <2> HIDE DEF a, x
  <2> QED
    BY <1>1, <2>1, <2>2, <2>3, <2>4, RunMoves
<1>8. CASE FetchSucceeds(r)
  <2> DEFINE a == [x EXCEPT !.at = "saved"]
  <2>1. /\ a \in AisRun /\ a.at = "saved" /\ a.now = x.now /\ a.seen = x.seen
        /\ a.manual = x.manual
    BY <1>1 DEF AisRun
  <2>2. /\ ais' = [ais EXCEPT ![r] = a] /\ x.at = "fetching"
        /\ UNCHANGED <<aisClock, scraper, log, edit, dbFaults, admin>>
    BY <1>8, RunFacts DEF FetchSucceeds
  <2> HIDE DEF a, x
  <2> QED
    BY <1>1, <2>1, <2>2, RunMoves
<1>9. ASSUME NEW blocked \in BOOLEAN,
             FetchFails(r, blocked)
             \/ (RecordSuccessFault(r) /\ ais' = [ais EXCEPT ![r].at = "failed",
                                                             ![r].blocked = blocked])
      PROVE  AisInv'
  <2> DEFINE a == [x EXCEPT !.at = "failed", !.blocked = blocked]
  <2>1. /\ a \in AisRun /\ a.at = "failed" /\ a.now = x.now /\ a.seen = x.seen
        /\ a.manual = x.manual
    BY <1>1 DEF AisRun
  <2>2. /\ ais' = [ais EXCEPT ![r] = a] /\ x.at \in {"fetching", "saved"}
        /\ UNCHANGED <<aisClock, scraper, log, edit, admin>>
        /\ dbFaults' \in 0..MaxDbFaults
    BY <1>1, <1>2, <1>9, RunFacts DEF FetchFails, RecordSuccessFault
  <2> HIDE DEF a, x
  <2> QED
    BY <1>1, <2>1, <2>2, RunMoves
<1>10. CASE RecordSuccess(r)
  <2>1. scraper' \in Scraper
    <3>1. 0 \in 0..MaxFailures
      BY AisAssumption
    <3> QED
      BY <1>10, <3>1, RunFacts DEF RecordSuccess, Scraper
  <2>2. ais' = [ais EXCEPT ![r] = Logging] /\ UNCHANGED <<aisClock, log, edit, dbFaults, admin>>
    BY <1>10 DEF RecordSuccess
  <2> QED
    BY <1>1, <1>3, <2>1, <2>2, IdleType, RunMoves
<1>11. CASE RecordFailure(r)
  <2> DEFINE until == IF x.blocked THEN x.now + Cooldown[Consecutive(r)] ELSE 0
  <2>1. until \in Nat /\ Consecutive(r) \in 0..MaxFailures
    BY <1>1, FailureType
  <2>2. /\ scraper' = [RowOrNew EXCEPT !.until = until, !.failures = Consecutive(r)]
        /\ ais' = [ais EXCEPT ![r] = Logging] /\ UNCHANGED <<aisClock, log, edit, dbFaults, admin>>
    BY <1>11 DEF RecordFailure
  <2> HIDE DEF until
  <2>3. scraper' \in Scraper
    BY <2>1, <2>2, RunFacts DEF Scraper
  <2> QED
    BY <1>1, <1>3, <2>2, <2>3, IdleType, RunMoves
<1>12. CASE RecordFailureFault(r)
  BY <1>1, <1>2, <1>3, <1>12, IdleType, RunMoves DEF RecordFailureFault
<1>13. CASE FinishLog(r)
  <2>1. log' \in [Run -> 0..MaxAisClock \cup {Closed}]
    BY <1>1, <1>13 DEF FinishLog
  <2> QED
    BY <1>1, <1>3, <1>13, <2>1, IdleType, RunMoves DEF FinishLog
<1>14. CASE LoseRun(r)
  BY <1>1, <1>2, <1>3, <1>14, IdleType, RunMoves DEF LoseRun
<1>15. CASE Reconcile(r)
  <2>1. log' \in [Run -> 0..MaxAisClock \cup {Closed}]
    BY <1>1, <1>15 DEF Reconcile
  <2> QED
    BY <1>15, <2>1 DEF Reconcile, AisInv, AisTypeOK
<1>16. CASE RecordSuccessFault(r)
  BY <1>9, <1>16 DEF RecordSuccessFault
<1> QED
  BY <1>4, <1>5, <1>6, <1>7, <1>8, <1>9, <1>10, <1>11, <1>12, <1>13, <1>14, <1>15, <1>16
     DEF RunStep

LEMMA AisStep == AisInv /\ [AisNext]_aisVars => AisInv'
<1> SUFFICES ASSUME AisInv, [AisNext]_aisVars PROVE AisInv'
  OBVIOUS
<1> USE AisAssumption
<1>1. /\ scraper \in Scraper \cup {NoRow} /\ RowOrNew \in Scraper
      /\ edit \in Scraper \cup {NoRow, NoEdit} /\ admin \in 0..MaxAdmin
      /\ aisClock \in 0..MaxAisClock
      /\ \A r \in Run : ais[r].now \in 0..MaxAisClock /\ ais[r].now <= aisClock
  <2>1. RowOrNew \in Scraper
    BY DEF AisInv, AisTypeOK, RowOrNew, Scraper
  <2> QED
    BY <2>1, RunFacts DEF AisInv, AisTypeOK
<1>2. ASSUME scraper' \in Scraper \cup {NoRow}, edit' \in Scraper \cup {NoRow, NoEdit},
             admin' \in 0..MaxAdmin, UNCHANGED <<aisClock, ais, log, dbFaults>>
      PROVE  AisInv'
  BY <1>2 DEF AisInv, AisTypeOK
<1>3. CASE AisTick
  <2>1. aisClock' \in 0..MaxAisClock /\ \A r \in Run : ais[r].now <= aisClock'
    BY <1>1, <1>3 DEF AisTick
  <2> QED
    BY <1>3, <2>1 DEF AisTick, AisInv, AisTypeOK
<1>4. ASSUME NEW r \in Run, RunStep(r) PROVE AisInv'
  BY <1>4, RunKeeps
<1>5. ASSUME NEW enabled \in BOOLEAN, ToggleScraper(enabled) PROVE AisInv'
  <2>1. scraper' \in Scraper
    BY <1>1, <1>5 DEF ToggleScraper, Scraper
  <2>2. admin' \in 0..MaxAdmin
    BY <1>1, <1>5 DEF ToggleScraper, AdminWrite
  <2> QED
    BY <1>1, <1>2, <1>5, <2>1, <2>2 DEF ToggleScraper
<1>6. CASE ResetCooldown
  <2>1. scraper' \in Scraper
    <3>1. 0 \in 0..MaxFailures /\ scraper \in Scraper
      BY <1>1, <1>6 DEF ResetCooldown
    <3> QED
      BY <1>6, <3>1 DEF ResetCooldown, Scraper
  <2>2. admin' \in 0..MaxAdmin
    BY <1>1, <1>6 DEF ResetCooldown, AdminWrite
  <2> QED
    BY <1>1, <1>2, <1>6, <2>1, <2>2 DEF ResetCooldown
<1>7. CASE EditRead
  BY <1>1, <1>2, <1>7 DEF EditRead
<1>8. CASE EditWrite
  <2>1. (IF edit = NoRow THEN TRUE ELSE edit.enabled) \in BOOLEAN
    <3>1. CASE edit = NoRow
      BY <3>1
    <3>2. CASE edit # NoRow
      <4>1. edit \in Scraper
        BY <1>1, <1>8, <3>2 DEF EditWrite
      <4>2. edit.enabled \in BOOLEAN
        BY <4>1 DEF Scraper
      <4> QED
        BY <3>2, <4>2, Zenon
    <3> QED
      BY <3>1, <3>2
  <2>2. scraper' \in Scraper
    BY <1>1, <1>8, <2>1 DEF EditWrite, Scraper
  <2> QED
    BY <1>1, <1>2, <1>8, <2>2 DEF EditWrite
<1>9. CASE UNCHANGED aisVars
  BY <1>1, <1>2, <1>9 DEF aisVars
<1> QED
  BY <1>3, <1>4, <1>5, <1>6, <1>7, <1>8, <1>9 DEF AisNext

(* A cooldown that still runs is cut short only by a manual run or by one  *)
(* that had read the row before that cooldown was written                  *)
(* (ingest_ais.py:147-171, 205-222).                                       *)
THEOREM CooldownAlwaysRespected == AisSpec => CooldownRespected
<1>1. ASSUME AisInv
      PROVE  \A r \in Run :
                 (/\ ais[r].at \in {"saved", "failed"} /\ ais'[r].at = "logging"
                  /\ scraper # NoRow /\ scraper.until > aisClock
                  /\ scraper'.until < scraper.until) =>
                     \/ ais[r].manual
                     \/ ais[r].seen = NoRow
                     \/ ais[r].seen.until # scraper.until
  <2> SUFFICES ASSUME NEW r \in Run, ais[r].at \in {"saved", "failed"},
                      scraper # NoRow, scraper.until > aisClock,
                      ~ais[r].manual, ais[r].seen # NoRow
               PROVE  ais[r].seen.until # scraper.until
    BY Zenon
  <2>1. ais[r].seen.until <= ais[r].now /\ ais[r].now <= aisClock
    BY <1>1 DEF AisInv
  <2>2. /\ ais[r].seen.until \in Nat /\ ais[r].now \in Nat /\ aisClock \in Nat
        /\ scraper.until \in Nat
    BY <1>1, RunFacts DEF Scraper
  <2> QED
    BY <2>1, <2>2
<1> QED
  BY <1>1, AisInitially, AisStep, PTL DEF AisSpec, CooldownRespected

(* A disabled scraper comes back only by a request that says so, or by an  *)
(* edit that read it before it was disabled (sqlite_ais.py:692-771).       *)
THEOREM DisabledAlwaysStaysDisabled == AisSpec => DisabledStaysDisabled
<1>1. ASSUME AisInv, [AisNext]_aisVars
      PROVE  (scraper # NoRow /\ ~scraper.enabled /\ scraper'.enabled) =>
                 \/ admin' # admin
                 \/ edit = NoRow
                 \/ edit # NoEdit /\ edit.enabled
  <2> SUFFICES ASSUME scraper # NoRow, ~scraper.enabled, scraper'.enabled,
                      admin' = admin, edit # NoRow
               PROVE  edit # NoEdit /\ edit.enabled
    BY Zenon
  <2>1. /\ scraper \in Scraper /\ RowOrNew = scraper /\ admin \in Nat
        /\ edit # NoEdit => edit \in Scraper
    BY <1>1, AisAssumption DEF AisInv, AisTypeOK, RowOrNew
  <2>2. scraper' # scraper
    BY Zenon
  <2>3. ~AdminWrite
    BY <2>1 DEF AdminWrite
  <2>4. ASSUME NEW r \in Run, RecordSuccess(r) \/ RecordFailure(r) PROVE FALSE
    <3>1. scraper'.enabled = scraper.enabled
      BY <2>1, <2>4 DEF RecordSuccess, RecordFailure, Scraper
    <3> QED
      BY <3>1
  <2>5. EditWrite
    <3>1. \A r \in Run : ~RunStep(r)
      BY <2>2, <2>4 DEF RunStep, BeginIngest, ReadDetail, SkipPlugin, Trigger, FetchSucceeds,
         FetchFails, RecordSuccessFault, RecordFailureFault, FinishLog, LoseRun, Reconcile
    <3> QED
      BY <1>1, <2>2, <2>3, <3>1 DEF AisNext, aisVars, AisTick, ToggleScraper, ResetCooldown,
         EditRead
  <2>6. edit # NoEdit /\ scraper'.enabled = edit.enabled
    BY <2>1, <2>5 DEF EditWrite, Scraper
  <2> QED
    BY <2>6
<1> QED
  BY <1>1, AisInitially, AisStep, PTL DEF AisSpec, DisabledStaysDisabled
=============================================================================
