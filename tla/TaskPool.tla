------------------------------ MODULE TaskPool ------------------------------
(***************************************************************************)
(* What the scheduler promises to those who call schedule() and stop(),    *)
(* with no list, no fibers, no counters and no locks: a task that was      *)
(* submitted is run by one worker at a time, goes back to pending when it  *)
(* yields, waits for a wake-up when it parks, ends once, and the pool      *)
(* closes only when no task is pending or running.                         *)
(***************************************************************************)
CONSTANTS Tasks, Workers, NoTask

VARIABLES
    open,      (* stop() has not returned                *)
    status,    (* the life of each task                  *)
    worker     (* the task each worker is in, or NoTask  *)

poolVars == <<open, status, worker>>

Status == {"new", "pending", "running", "parked", "done"}

PoolTypeOK ==
    /\ open \in BOOLEAN
    /\ status \in [Tasks -> Status]
    /\ worker \in [Workers -> Tasks \cup {NoTask}]

PoolInit ==
    /\ open = TRUE
    /\ status = [c \in Tasks |-> "new"]
    /\ worker = [w \in Workers |-> NoTask]

Becomes(c, s) == status' = [status EXCEPT ![c] = s]

(* schedule() of a new task. *)
Submit(c) ==
    /\ open
    /\ status[c] = "new"
    /\ Becomes(c, "pending")
    /\ UNCHANGED <<open, worker>>

(* A worker enters or resumes a pending task. *)
Take(w, c) ==
    /\ open
    /\ worker[w] = NoTask
    /\ status[c] = "pending"
    /\ Becomes(c, "running")
    /\ worker' = [worker EXCEPT ![w] = c]
    /\ UNCHANGED open

(* The task a worker is in stops running there: it yields, parks or ends. *)
Leave(w, s) ==
    /\ worker[w] # NoTask
    /\ Becomes(worker[w], s)
    /\ worker' = [worker EXCEPT ![w] = NoTask]
    /\ UNCHANGED open

Yield(w)  == Leave(w, "pending")
Park(w)   == Leave(w, "parked")
Finish(w) == Leave(w, "done")

(* A waker schedules a parked task again. *)
Wake(c) ==
    /\ open
    /\ status[c] = "parked"
    /\ Becomes(c, "pending")
    /\ UNCHANGED <<open, worker>>

(* stop() returns. *)
Close ==
    /\ open
    /\ \A c \in Tasks : status[c] \notin {"pending", "running"}
    /\ open' = FALSE
    /\ UNCHANGED <<status, worker>>

(* start() after a stop(). *)
Reopen ==
    /\ ~open
    /\ open' = TRUE
    /\ UNCHANGED <<status, worker>>

PoolNext ==
    \/ \E c \in Tasks : Submit(c) \/ Wake(c) \/ \E w \in Workers : Take(w, c)
    \/ \E w \in Workers : Yield(w) \/ Park(w) \/ Finish(w)
    \/ Close \/ Reopen

PoolSpec == PoolInit /\ [][PoolNext]_poolVars

-----------------------------------------------------------------------------
(* A task is running exactly when some worker is in it. *)
RunningIsHeld ==
    \A c \in Tasks : status[c] = "running" <=> \E w \in Workers : worker[w] = c

(* No two workers are in the same task. *)
OneWorker ==
    \A v, w \in Workers : worker[v] = worker[w] /\ worker[v] # NoTask => v = w

(* A closed pool has nothing pending or running. *)
ClosedIsQuiet ==
    ~open => /\ \A c \in Tasks : status[c] \notin {"pending", "running"}
             /\ \A w \in Workers : worker[w] = NoTask
=============================================================================
