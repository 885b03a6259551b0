----------------------------- MODULE TaskQueue -----------------------------
(***************************************************************************)
(* The SDK's user task queue as system.c uses it: system_os_task() gives   *)
(* it room for TASK_QUEUE_SIZE entries, system_task_schedule() posts to it *)
(* with system_os_post() and ignores the result, so an entry posted to a   *)
(* full queue is lost without anybody noticing.                            *)
(***************************************************************************)
EXTENDS Integers, Sequences, FiniteSets

CONSTANT TaskQueueSize  \* TASK_QUEUE_SIZE

ASSUME TaskQueueSizeAssumption == TaskQueueSize \in Nat \ {0}

\* The one way to list a set of numbers from the smallest to the largest.
InOrder(S) == {f \in [1..Cardinality(S) -> S] : \A i, j \in 1..Cardinality(S) : i < j => f[i] < f[j]}

\* Posting the entries of `new`, one after the other: those that find the
\* queue full are dropped.
system_task_schedule(queue, new) ==
    LET all == queue \o new
    IN  SubSeq(all, 1, IF Len(all) <= TaskQueueSize THEN Len(all) ELSE TaskQueueSize)
=============================================================================
