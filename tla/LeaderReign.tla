------------------------------ MODULE LeaderReign ------------------------------
(***************************************************************************)
(* What leader election promises the scheduler: a reign belongs to one     *)
(* worker, begins only when nobody reigns, is only ever prolonged, and     *)
(* ends by itself a lease length after its last renewal, whether or not    *)
(* its holder is alive to end it.  SchedulerLease implements this.         *)
(***************************************************************************)
EXTENDS Integers

CONSTANTS
    Worker,  \* who may reign
    TTL      \* the longest a reign lasts without a renewal

VARIABLES
    now,     \* the clock
    reign    \* a function from the reigning worker, if any, to its expiry

reignVars == <<now, reign>>

Nobody == [w \in {} |-> 0]

ReignInit == now = 0 /\ reign = Nobody

Elect(w) ==
    /\ DOMAIN reign = {}
    /\ \E end \in (now + 1)..(now + TTL) : reign' = [v \in {w} |-> end]
    /\ UNCHANGED now

Renew(w) ==
    /\ DOMAIN reign = {w}
    /\ \E end \in reign[w]..(now + TTL) : reign' = [v \in {w} |-> end]
    /\ UNCHANGED now

(* The holder stops, dies, or failed to renew. *)
Depose(w) ==
    /\ DOMAIN reign = {w}
    /\ reign' = Nobody
    /\ UNCHANGED now

Advance ==
    /\ now' = now + 1
    /\ reign' = [w \in {v \in DOMAIN reign : reign[v] > now'} |-> reign[w]]

ReignNext ==
    \/ Advance
    \/ \E w \in Worker : Elect(w) \/ Renew(w) \/ Depose(w)

ReignSpec == ReignInit /\ [][ReignNext]_reignVars
=============================================================================
