------------------------ MODULE SchedulerRefinement ------------------------
(***************************************************************************)
(* The scheduler implements TaskPool.  A worker is in a task while the     *)
(* thread is inside the task's body, between the two context switches; the *)
(* list, the local variables of run() and the fibers in between are what   *)
(* "pending" stands for.                                                   *)
(***************************************************************************)
EXTENDS Scheduler

InBody(t) == pc[t] \in {"body", "parking"}

WorkerOf(t) == IF InBody(t) THEN m_cb[Cur(t)] ELSE None

(* Suspended by YieldToHold, and not scheduled since. *)
HeldFor(c) == \E f \in Fibers : m_cb[f] = c /\ m_state[f] = "HOLD" /\ f \in waker

StatusOf(c) ==
    IF c \notin scheduled THEN "new"
    ELSE IF c \in finished THEN "done"
    ELSE IF \E t \in Runners : WorkerOf(t) = c THEN "running"
    ELSE IF HeldFor(c) THEN "parked"
    ELSE "pending"

TP == INSTANCE TaskPool WITH
         Tasks   <- Callbacks,
         Workers <- Runners,
         NoTask  <- None,
         open    <- main # "stopped",
         status  <- [c \in Callbacks |-> StatusOf(c)],
         worker  <- [t \in Runners |-> WorkerOf(t)]

(* Every step of the scheduler is a step of the task pool or leaves it     *)
(* unchanged.                                                              *)
ImplementsTaskPool == TP!PoolSpec
=============================================================================
