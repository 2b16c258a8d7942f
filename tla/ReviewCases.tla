------------------------------ MODULE ReviewCases ------------------------------
(***************************************************************************)
(* The review of the detections of one scan: the queue that is filled from *)
(* the scan's detection file, the analysts' submissions, and the audit     *)
(* trail (use_cases/review_cases.py, persistence/sqlite_review.py).        *)
(*                                                                         *)
(* A submission and a synchronisation read a review, save it by an upsert  *)
(* and write its history in further transactions.                          *)
(***************************************************************************)
EXTENDS Integers, Sequences

CONSTANTS
    Writer,      \* concurrent requests: submissions and queue listings
    Index,       \* detection_idx
    Detection,   \* contents of the detection file: one value per detection
    MaxSubmits,  \* bound: submissions
    MaxDetects,  \* bound: times the scan is processed again
    MaxDeaths,   \* bound: requests that die or whose database call raises
    NoReview, NoDetection

ASSUME ReviewAssumption ==
    MaxSubmits \in Nat /\ MaxDetects \in Nat /\ MaxDeaths \in Nat

VARIABLES
    detected,  \* per index: the detection in detection_results.json
    review,    \* per index: its row of reviews, or NoReview
    trail,     \* per index: its rows of review_history
    writer,    \* per request: where it is and what it has read
    submits, detects, deaths,
    undone     \* observes: indices whose submitted review a sync overwrote

reviewVars == <<detected, review, trail, writer, submits, detects, deaths,
                undone>>

Disposition == {"pending", "accepted", "rejected", "uncertain"}
Reviewed == Disposition \ {"pending"}

Review == [disposition : Disposition, original : Detection \cup {NoDetection}]

ASSUME NoReviewAssumption == NoReview \notin Review

Entry == [action : {"created", "box_corrected", "updated"} \cup Reviewed,
          disposition : Disposition]

(* idle; read: the review is read and the new record made up; saved: it is *)
(* upserted; empty: its history is found to be empty; audited: save() is   *)
(* over.                                                                   *)
Writing == [at : {"idle", "read", "saved", "empty", "audited"},
            submit : BOOLEAN,   \* a submission; else a synchronisation
            corrects : BOOLEAN, \* it brings a corrected box the review has not
            idx : Index,
            before : Review \cup {NoReview},
            record : Review \cup {NoReview}]

NoWriting == [at |-> "idle", submit |-> FALSE, corrects |-> FALSE,
              idx |-> CHOOSE i \in Index : TRUE, before |-> NoReview, record |-> NoReview]

ReviewTypeOK ==
    /\ detected \in [Index -> Detection \cup {NoDetection}]
    /\ review \in [Index -> Review \cup {NoReview}]
    /\ \A i \in Index : \A k \in DOMAIN trail[i] : trail[i][k] \in Entry
    /\ writer \in [Writer -> Writing]
    /\ submits \in 0..MaxSubmits
    /\ detects \in 0..MaxDetects
    /\ deaths \in 0..MaxDeaths
    /\ undone \subseteq Index

ReviewInit ==
    /\ detected \in [Index -> Detection]
    /\ review = [i \in Index |-> NoReview]
    /\ trail = [i \in Index |-> <<>>]
    /\ writer = [w \in Writer |-> NoWriting]
    /\ submits = 0
    /\ detects = 0
    /\ deaths = 0
    /\ undone = {}

-----------------------------------------------------------------------------
(* SubmitAnalystReview: the existing review is read; the original box is   *)
(* its own, or the one in the detection file by now.                       *)
SubmitReads(w, i, disposition, corrects) ==
    /\ writer[w].at = "idle"
    /\ submits < MaxSubmits
    /\ submits' = submits + 1
    /\ LET old == review[i]
           box == IF old # NoReview THEN old.original ELSE detected[i]
       IN writer' = [writer EXCEPT ![w] =
             [at |-> "read", submit |-> TRUE, corrects |-> corrects, idx |-> i,
              before |-> old,
              record |-> [disposition |-> disposition, original |-> box]]]
    /\ UNCHANGED <<detected, review, trail, detects, deaths, undone>>

(* sync_scans_to_queue finds a detection that has no review; any listing   *)
(* of the queue runs it.                                                   *)
SyncReads(w, i) ==
    /\ writer[w].at = "idle"
    /\ detected[i] # NoDetection
    /\ review[i] = NoReview
    /\ writer' = [writer EXCEPT ![w] =
          [at |-> "read", submit |-> FALSE, corrects |-> FALSE, idx |-> i,
           before |-> NoReview,
           record |-> [disposition |-> "pending", original |-> detected[i]]]]
    /\ UNCHANGED <<detected, review, trail, submits, detects, deaths, undone>>

(* save: the upsert overwrites every column that tells something. *)
SaveReview(w) ==
    /\ writer[w].at = "read"
    /\ LET i == writer[w].idx
       IN /\ review' = [review EXCEPT ![i] = writer[w].record]
          /\ undone' = IF writer[w].submit THEN undone \ {i}
                       ELSE IF review[i] # NoReview /\ review[i].disposition \in Reviewed
                       THEN undone \cup {i} ELSE undone
    /\ writer' = [writer EXCEPT ![w].at = "saved"]
    /\ UNCHANGED <<detected, trail, submits, detects, deaths>>

(* save, called without an action, looks whether there is any history. *)
ReadHistory(w) ==
    /\ writer[w].at = "saved"
    /\ writer' = [writer EXCEPT ![w].at =
          IF trail[writer[w].idx] = <<>> THEN "empty" ELSE "audited"]
    /\ UNCHANGED <<detected, review, trail, submits, detects, deaths, undone>>

Append1(w, action) ==
    trail' = [trail EXCEPT ![writer[w].idx] =
        Append(@, [action |-> action,
                   disposition |-> writer[w].record.disposition])]

AddCreated(w) ==
    /\ writer[w].at = "empty"
    /\ Append1(w, "created")
    /\ writer' = [writer EXCEPT ![w].at = "audited"]
    /\ UNCHANGED <<detected, review, submits, detects, deaths, undone>>

(* What SubmitAnalystReview calls the change it makes. *)
Action(w) ==
    LET old == writer[w].before
        new == writer[w].record
    IN IF old = NoReview THEN "created"
       ELSE IF writer[w].corrects THEN "box_corrected"
       ELSE IF new.disposition \in Reviewed THEN new.disposition
       ELSE "updated"

(* Slip: an unchanged disposition is not recorded. *)
AuditChangesOnly(w) ==
    /\ writer[w].at = "audited"
    /\ IF writer[w].submit /\ writer[w].before # NoReview
          /\ writer[w].before.disposition # "pending"
       THEN UNCHANGED trail
       ELSE IF writer[w].submit THEN Append1(w, Action(w)) ELSE UNCHANGED trail
    /\ writer' = [writer EXCEPT ![w] = NoWriting]
    /\ UNCHANGED <<detected, review, submits, detects, deaths, undone>>

(* A submission adds its own entry; a synchronisation is over. *)
Audit(w) ==
    /\ writer[w].at = "audited"
    /\ IF writer[w].submit THEN Append1(w, Action(w)) ELSE UNCHANGED trail
    /\ writer' = [writer EXCEPT ![w] = NoWriting]
    /\ UNCHANGED <<detected, review, submits, detects, deaths, undone>>

(* The process dies or a database call raises between two of the steps. *)
WriterDies(w) ==
    /\ writer[w].at # "idle"
    /\ deaths < MaxDeaths
    /\ deaths' = deaths + 1
    /\ writer' = [writer EXCEPT ![w] = NoWriting]
    /\ UNCHANGED <<detected, review, trail, submits, detects, undone>>

(* The scan is processed again: the file changes, reviews stay.  With      *)
(* fewer detections some indices are gone.                                 *)
DetectAgain(result) ==
    /\ detects < MaxDetects
    /\ detects' = detects + 1
    /\ detected' = result
    /\ UNCHANGED <<review, trail, writer, submits, deaths, undone>>

ReviewNext ==
    \/ \E w \in Writer :
         \/ \E i \in Index, d \in Disposition, c \in BOOLEAN : SubmitReads(w, i, d, c)
         \/ \E i \in Index : SyncReads(w, i)
         \/ SaveReview(w) \/ ReadHistory(w) \/ AddCreated(w) \/ Audit(w)
         \/ WriterDies(w)
    \/ \E result \in [Index -> Detection \cup {NoDetection}] : DetectAgain(result)

ReviewSpec == ReviewInit /\ [][ReviewNext]_reviewVars

-----------------------------------------------------------------------------
(* The trail tells how every review came to its disposition: once nobody   *)
(* writes it any more, the disposition it has is the one of some entry,    *)
(* unless a request died or a synchronisation overwrote a submission,      *)
(* which leaves no trace (sqlite_review.py:178-232).                       *)
TrailExplains ==
    \A i \in Index :
        (/\ review[i] # NoReview
         /\ \A w \in Writer : writer[w].at = "idle" \/ writer[w].idx # i
         /\ deaths = 0) =>
            \/ \E k \in DOMAIN trail[i] :
                  trail[i][k].disposition = review[i].disposition
            \/ i \in undone

=============================================================================
