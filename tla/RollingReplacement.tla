-------------------------- MODULE RollingReplacement --------------------------
(***************************************************************************)
(* What an instance refresh promises, with nothing said about how: the     *)
(* original instances are retired in batches of at most `interval`, a      *)
(* batch is closed only when it has retired all it should, and the refresh *)
(* is completed only when no original instance is left.  Machines that     *)
(* fail by themselves may put it ahead of its batches by as many instances *)
(* as have failed, and by no more.                                         *)
(***************************************************************************)
EXTENDS Integers, FiniteSets

CONSTANTS Ids, BatchSizes

VARIABLES
    status, interval, batch, original,
    old,        \* the original instances that are left
    lost        \* machines that have failed by themselves

vars == <<status, interval, batch, original, old, lost>>

Due == IF batch * interval > Cardinality(original) THEN Cardinality(original)
                                                   ELSE batch * interval
Retired(left) == Cardinality(original) - Cardinality(left)

Init ==
    /\ status = "none"
    /\ interval = 0 /\ batch = 0
    /\ original = {} /\ old = {}
    /\ lost = 0

Begin ==
    /\ status # "running"
    /\ status' = "running"
    /\ interval' \in BatchSizes
    /\ batch' = 1
    /\ original' \in SUBSET Ids
    /\ old' = original'
    /\ UNCHANGED lost

\* Some original instances go, never more than the batches so far are due, the failed
\* ones apart.
Retire ==
    /\ status = "running"
    /\ old' \in SUBSET old
    /\ Retired(old') <= Due + lost
    /\ UNCHANGED <<status, interval, batch, original, lost>>

Lose ==
    /\ lost' = lost + 1
    /\ UNCHANGED <<status, interval, batch, original, old>>

NextBatch ==
    /\ status = "running"
    /\ Retired(old) >= Due
    /\ lost = 0 => old # {}
    /\ batch' = batch + 1
    /\ UNCHANGED <<status, interval, original, old, lost>>

Finish ==
    /\ status = "running"
    /\ old = {}
    /\ status' = "completed"
    /\ UNCHANGED <<interval, batch, original, old, lost>>

Abandon ==
    /\ status = "running"
    /\ status' = "cancelled"
    /\ old' = {}
    /\ UNCHANGED <<interval, batch, original, lost>>

Next == Begin \/ Retire \/ Lose \/ NextBatch \/ Finish \/ Abandon

Spec == Init /\ [][Next]_vars

=============================================================================
