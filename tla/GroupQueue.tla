----------------------------- MODULE GroupQueue -----------------------------
(***************************************************************************)
(* What a bounded realm-local producer promises: a queue of records that   *)
(* takes a group whole or not at all, counts what it did not take, and     *)
(* gives complete groups back in the order in which it took them.          *)
(***************************************************************************)
EXTENDS RecordGroups

CONSTANTS Capacity,   \* records the queue holds
          Groups,     \* the groups callers emit
          MaxCount    \* where the saturating counters stop (u64::MAX)

VARIABLES queue,      \* accepted records not yet drained
          highWater,  \* the most records it has held
          dropped,    \* records of refused groups
          destination \* what the last drain returned

vars == <<queue, highWater, dropped, destination>>

Saturate(n) == IF n > MaxCount THEN MaxCount ELSE n

Init == queue = <<>> /\ highWater = 0 /\ dropped = 0 /\ destination = <<>>

Accept(g) ==
    /\ Len(queue) + Len(g) <= Capacity
    /\ queue' = queue \o g
    /\ highWater' = IF Len(queue') > highWater THEN Len(queue') ELSE highWater
    /\ UNCHANGED <<dropped, destination>>

Refuse(g) ==
    /\ Len(queue) + Len(g) > Capacity
    /\ dropped' = Saturate(dropped + Len(g))
    /\ UNCHANGED <<queue, highWater, destination>>

Drain(n) ==
    /\ \E k \in Fit(queue, n) :
         /\ destination' = Taken(queue, k)
         /\ queue' = Rest(queue, k)
    /\ UNCHANGED <<highWater, dropped>>

Next ==
    \/ \E g \in Groups : Accept(g) \/ Refuse(g)
    \/ \E n \in 0..Capacity : Drain(n)

Spec == Init /\ [][Next]_vars
=============================================================================
