------------------------------ MODULE IOManager ------------------------------
(***************************************************************************)
(* The epoll manager (vity/iomanager.h, vity/iomanager.cc): the scheduler  *)
(* whose idle fiber waits in epoll_wait and turns ready file descriptors   *)
(* into scheduled tasks.  A task is what an event resumes, a callback or a *)
(* suspended fiber; here it runs to its end, what fibers add to that is    *)
(* the subject of module Scheduler, and so is the pinning of tasks.        *)
(*                                                                         *)
(* An operation that holds FdContext::mutex takes several steps, since     *)
(* epoll_wait, stopping() and the scheduler's list do not take it.         *)
(***************************************************************************)
EXTENDS Naturals, FiniteSets, SequencesExt

CONSTANTS
    Pool,       (* the threads start() creates                             *)
    Root,       (* the thread that owns the manager                        *)
    UseCaller,  (* Root runs tasks inside stop()                           *)
    Fds,        (* file descriptors within m_fdContexts                    *)
    EventsOf,   (* the events the program ever registers on a descriptor   *)
    ConditionsOf,   (* the conditions that may arise on a descriptor       *)
    Refused,    (* descriptors for which epoll_ctl may return an error     *)
    Tasks,      (* bound: tasks, each given once to addEvent or schedule   *)
    None

Event      == {"READ", "WRITE"}
Conditions == {"IN", "OUT", "HUP"}      (* EPOLLERR is as EPOLLHUP *)

Runners == IF UseCaller THEN Pool \cup {Root} ELSE Pool
Actors  == Pool \cup {Root}

ASSUME IOManagerAssumption ==
    /\ IsFiniteSet(Pool) /\ IsFiniteSet(Fds)
    /\ Runners # {}        (* VITY_ASSERT(threads > 0) *)
    /\ Root \notin Pool
    /\ UseCaller \in BOOLEAN
    /\ EventsOf \in [Fds -> SUBSET Event]
    /\ ConditionsOf \in [Fds -> SUBSET Conditions]
    /\ Refused \subseteq Fds
    /\ None \notin Tasks \cup Pool \cup {Root} \cup Fds

VARIABLES
    m_fibers, m_activeThreadCount, m_idleThreadCount, m_stopping, m_autoStop,
    m_pendingEventCount,
    events,     (* FdContext::events                                       *)
    ctx,        (* FdContext::read and write: the task to schedule         *)
    interest,   (* kernel: events asked of epoll, {} if not in its set     *)
    level,      (* kernel: conditions that hold on the descriptor          *)
    edge,       (* kernel: descriptors in epoll's ready list               *)
    pipe,       (* m_tickleFds holds bytes                                 *)
    pipeEdge,   (* kernel: m_tickleFds[0] is in epoll's ready list         *)
    main,       (* where Root is in its program                            *)
    pc,         (* where each runner is in run() and idle()                *)
    idleTerm,   (* the runners whose idle fiber is TERM                    *)
    task,       (* the task a runner is in                                 *)
    got,        (* idle()'s array of reported conditions                   *)
    gotPipe,    (* ... and whether the tickle pipe is in it                *)
    job,        (* an actor's work under an FdContext::mutex               *)
    tickles,    (* calls of tickle() an actor is about to make             *)
    born, ended, deleted,   (* history: tasks handed over, run, deleted    *)
    stale,      (* history: descriptors in a thread's got of which an event
                   that is reported there is no longer registered          *)
    failed      (* the function whose assertion has aborted the program    *)

schedVars == <<m_fibers, m_activeThreadCount, m_idleThreadCount>>
stopVars  == <<m_stopping, m_autoStop, main>>
fdVars    == <<events, ctx, m_pendingEventCount>>
kernVars  == <<interest, level, edge, pipe, pipeEdge>>
runVars   == <<pc, idleTerm, task, got, gotPipe>>
callVars  == <<job, tickles>>
histVars  == <<born, ended, deleted, stale, failed>>
vars == <<schedVars, stopVars, fdVars, kernVars, runVars, callVars, histVars>>

(* Under a mutex: the events still to trigger, the task an addEvent brings, *)
(* and whether a trigger has not been counted yet.                          *)
Job   == [fd : Fds \cup {None}, todo : Seq(Event), add : Tasks \cup {None},
          owed : BOOLEAN]
NoJob == [fd |-> None, todo |-> <<>>, add |-> None, owed |-> FALSE]

Busy(a) == job[a].fd # None \/ tickles[a] > 0

(* Wrong on purpose: what some definitions below would be if a line of the  *)
(* code were missing or wrong.  Each one in the place of the right one      *)
(* breaks a property, which shows that the property is about that line.     *)
AlwaysFree(fd)    == TRUE
NotJoined         == TRUE
NotAdded(fd, e)   == events[fd]
KeepsEvent(fd, e) == UNCHANGED events
KeepsCtx(fd, e)   == UNCHANGED ctx
NotCounted        == UNCHANGED m_pendingEventCount
IdleStays         == UNCHANGED m_idleThreadCount

-----------------------------------------------------------------------------
(* The kernel, as the code uses it: an edge-triggered epoll set.            *)

Wanted(e) == IF e = "READ" THEN "IN" ELSE "OUT"

(* What epoll_wait reports of a descriptor with these conditions. *)
Reports(want, conds) ==
    IF want = {} THEN {}
    ELSE conds \cap ({Wanted(e) : e \in want} \cup {"HUP"})

(* epoll_ctl ADD, MOD or DEL: afterwards the descriptor is in the set for   *)
(* these events, and in the ready list if one of them holds.                *)
EpollCtl(fd, want) ==
    /\ interest' = [interest EXCEPT ![fd] = want]
    /\ edge' = IF Reports(want, level[fd]) # {} THEN edge \cup {fd} ELSE edge \ {fd}

(* A condition arises, or arises again; epoll sees the edge. *)
Arises(fd, cond) ==
    /\ cond \in ConditionsOf[fd]
    /\ fd \notin edge \/ cond \notin level[fd]
    /\ level' = [level EXCEPT ![fd] = @ \cup {cond}]
    /\ edge' = IF Reports(interest[fd], {cond}) # {} THEN edge \cup {fd} ELSE edge
    /\ UNCHANGED <<schedVars, stopVars, fdVars, interest, pipe, pipeEdge,
                   runVars, callVars, histVars>>

(* The program reads or writes until the condition no longer holds; not     *)
(* while it waits for the event.                                            *)
Subsides(fd, cond) ==
    /\ cond \in level[fd] \ {"HUP"}
    /\ cond \notin Reports(interest[fd], level[fd])
    /\ level' = [level EXCEPT ![fd] = @ \ {cond}]
    /\ UNCHANGED <<schedVars, stopVars, fdVars, interest, edge, pipe, pipeEdge,
                   runVars, callVars, histVars>>

Kernel == \E fd \in Fds, cond \in Conditions : Arises(fd, cond) \/ Subsides(fd, cond)

-----------------------------------------------------------------------------
(* The scheduler's part                                                     *)

(* Scheduler::schedule of one task by a: the list was empty => tickle(). *)
Schedule(a, c) ==
    /\ m_fibers' = Append(m_fibers, c)
    /\ tickles' = [tickles EXCEPT ![a] = @ + IF m_fibers = <<>> THEN 1 ELSE 0]

(* IOManager::tickle: nothing if some thread is idle. *)
Tickle(a) ==
    /\ tickles[a] > 0
    /\ tickles' = [tickles EXCEPT ![a] = @ - 1]
    /\ IF m_idleThreadCount > 0
       THEN UNCHANGED <<pipe, pipeEdge>>
       ELSE pipe' = TRUE /\ pipeEdge' = TRUE
    /\ UNCHANGED <<schedVars, stopVars, fdVars, interest, level, edge, runVars,
                   job, histVars>>

(* Scheduler::stopping. *)
BaseStopping == /\ m_autoStop /\ m_stopping
                /\ m_fibers = <<>> /\ m_activeThreadCount = 0

Goto(t, label) == pc' = [pc EXCEPT ![t] = label]

(* run() line 263, after the idle fiber: one thread less is idle. *)
IdleDown == m_idleThreadCount' = m_idleThreadCount - 1

(* run(): take the first task. *)
Pick(t) ==
    /\ pc[t] = "loop"
    /\ m_fibers # <<>>
    /\ task' = [task EXCEPT ![t] = Head(m_fibers)]
    /\ m_fibers' = Tail(m_fibers)
    /\ m_activeThreadCount' = m_activeThreadCount + 1
    /\ Goto(t, "body")
    /\ UNCHANGED <<m_idleThreadCount, stopVars, fdVars, kernVars, idleTerm, got,
                   gotPipe, callVars, histVars>>

(* run(): nothing to take; out, if the idle fiber has ended. *)
PickNothing(t) ==
    /\ pc[t] = "loop"
    /\ m_fibers = <<>>
    /\ Goto(t, IF t \in idleTerm THEN "exited" ELSE "none")
    /\ UNCHANGED <<schedVars, stopVars, fdVars, kernVars, idleTerm, task, got,
                   gotPipe, callVars, histVars>>

EnterIdle(t) ==
    /\ pc[t] = "none"
    /\ m_idleThreadCount' = m_idleThreadCount + 1
    /\ Goto(t, "idle")
    /\ UNCHANGED <<m_fibers, m_activeThreadCount, stopVars, fdVars, kernVars,
                   idleTerm, task, got, gotPipe, callVars, histVars>>

(* The task ends. *)
EndTask(t) ==
    /\ pc[t] = "body"
    /\ ~Busy(t)
    /\ ended' = ended \cup {task[t]}
    /\ task' = [task EXCEPT ![t] = None]
    /\ m_activeThreadCount' = m_activeThreadCount - 1
    /\ Goto(t, "loop")
    /\ UNCHANGED <<m_fibers, m_idleThreadCount, stopVars, fdVars, kernVars,
                   idleTerm, got, gotPipe, callVars, born, deleted, stale, failed>>

-----------------------------------------------------------------------------
(* What the program does: a task, or Root before it calls stop()            *)

MayCall(a) == /\ ~Busy(a)
              /\ \/ a \in Runners /\ pc[a] = "body"
                 \/ a = Root /\ main = "up"

(* addEvent needs Scheduler::GetThis(). *)
MayAdd(a) == MayCall(a) /\ (a = Root => UseCaller)

ScheduleTask(a) ==
    /\ MayCall(a)
    /\ \E c \in Tasks \ born : Schedule(a, c) /\ born' = born \cup {c}
    /\ UNCHANGED <<m_activeThreadCount, m_idleThreadCount, stopVars, fdVars,
                   kernVars, runVars, job, ended, deleted, stale, failed>>

(* FdContext::mutex is not held. *)
Free(fd) == \A a \in Actors : job[a].fd # fd

SetJob(a, j) == job' = [job EXCEPT ![a] = j]
Work(fd, es) == [NoJob EXCEPT !.fd = fd, !.todo = es]
ReadThenWrite(es) == (IF "READ" \in es THEN <<"READ">> ELSE <<>>)
                     \o (IF "WRITE" \in es THEN <<"WRITE">> ELSE <<>>)

(* What epoll is asked for when e joins or leaves the events of fd. *)
With(fd, e)    == events[fd] \cup {e}
Without(fd, e) == events[fd] \ {e}

(* addEvent up to epoll_ctl.  (Here and in the other calls an epoll_ctl     *)
(* that fails ends the call with no change.)                                *)
AddEvent(a) ==
    /\ MayAdd(a)
    /\ \E fd \in Fds, c \in Tasks \ born : \E e \in EventsOf[fd] \ events[fd] :
          /\ Free(fd)
          /\ EpollCtl(fd, With(fd, e))
          /\ SetJob(a, [Work(fd, <<e>>) EXCEPT !.add = c])
          /\ born' = born \cup {c}
    /\ UNCHANGED <<schedVars, stopVars, fdVars, level, pipe, pipeEdge, runVars,
                   tickles, ended, deleted, stale, failed>>

(* It asserts that an event is not registered twice. *)
AddEventTwice(a) ==
    /\ MayAdd(a)
    /\ \E fd \in Fds : EventsOf[fd] \cap events[fd] # {} /\ Free(fd)
    /\ failed' = "addEvent"
    /\ UNCHANGED <<schedVars, stopVars, fdVars, kernVars, runVars, callVars, born,
                   ended, deleted, stale>>

(* The rest of addEvent. *)
AddEventDone(a) ==
    LET j == job[a] IN
    /\ j.add # None
    /\ m_pendingEventCount' = m_pendingEventCount + 1
    /\ events' = [events EXCEPT ![j.fd] = @ \cup {Head(j.todo)}]
    /\ ctx' = [ctx EXCEPT ![j.fd][Head(j.todo)] = j.add]
    /\ SetJob(a, NoJob)
    /\ UNCHANGED <<schedVars, stopVars, kernVars, runVars, tickles, histVars>>

ClearEvent(fd, e) == events' = [events EXCEPT ![fd] = @ \ {e}]
ClearCtx(fd, e)   == ctx' = [ctx EXCEPT ![fd][e] = None]
CountDown         == m_pendingEventCount' = m_pendingEventCount - 1

(* real_events: what was reported, as events; HUP stands for both. *)
RealEvents(conds) == IF "HUP" \in conds THEN Event
                     ELSE {e \in Event : Wanted(e) \in conds}

(* What threads have been told of the event is no longer so. *)
Outdate(fd, e) ==
    stale' = [t \in Runners |->
                stale[t] \cup {f \in {fd} : e \in RealEvents(got[t][fd])}]

(* delEvent of a registered event: its task is forgotten. *)
DelEvent(a) ==
    /\ MayCall(a)
    /\ \E fd \in Fds : \E e \in events[fd] :
          /\ Free(fd)
          /\ EpollCtl(fd, Without(fd, e))
          /\ CountDown
          /\ ClearEvent(fd, e)
          /\ ClearCtx(fd, e)
          /\ deleted' = deleted \cup {ctx[fd][e]}
          /\ Outdate(fd, e)
    /\ UNCHANGED <<schedVars, stopVars, level, pipe, pipeEdge, runVars, callVars,
                   born, ended, failed>>

(* cancelEvent of a registered event: epoll_ctl, then triggerEvent. *)
CancelEvent(a) ==
    /\ MayCall(a)
    /\ \E fd \in Fds : \E e \in events[fd] :
          /\ Free(fd)
          /\ EpollCtl(fd, Without(fd, e))
          /\ SetJob(a, Work(fd, <<e>>))
    /\ UNCHANGED <<schedVars, stopVars, fdVars, level, pipe, pipeEdge, runVars,
                   tickles, histVars>>

(* cancelAll: every registered event is triggered, READ first. *)
CancelAll(a) ==
    /\ MayCall(a)
    /\ \E fd \in Fds :
          /\ events[fd] # {}
          /\ Free(fd)
          /\ EpollCtl(fd, {})
          /\ SetJob(a, Work(fd, ReadThenWrite(events[fd])))
    /\ UNCHANGED <<schedVars, stopVars, fdVars, level, pipe, pipeEdge, runVars,
                   tickles, histVars>>

Calls(a) == \/ ScheduleTask(a) \/ AddEvent(a) \/ AddEventTwice(a) \/ DelEvent(a)
            \/ CancelEvent(a) \/ CancelAll(a)

-----------------------------------------------------------------------------
(* triggerEvent and the count after it, for cancelEvent, cancelAll and idle *)

(* triggerEvent asserts that the event is registered, clears it and         *)
(* schedules its task.                                                      *)
TriggerEvent(a) ==
    LET j == job[a]  e == Head(j.todo) IN
    /\ j.fd # None /\ j.add = None /\ ~j.owed
    /\ IF e \notin events[j.fd]
       THEN /\ failed' = "triggerEvent"
            /\ UNCHANGED <<m_fibers, callVars, events, ctx, stale>>
       ELSE /\ ClearEvent(j.fd, e)
            /\ ClearCtx(j.fd, e)
            /\ Outdate(j.fd, e)
            /\ Schedule(a, ctx[j.fd][e])
            /\ SetJob(a, [j EXCEPT !.owed = TRUE, !.todo = Tail(@)])
            /\ UNCHANGED failed
    /\ UNCHANGED <<m_activeThreadCount, m_idleThreadCount, stopVars,
                   m_pendingEventCount, kernVars, runVars, born, ended, deleted>>

(* --m_pendingEventCount; after the last event the mutex is released. *)
Counted(a) ==
    LET j == job[a] IN
    /\ j.owed
    /\ tickles[a] = 0
    /\ CountDown
    /\ SetJob(a, IF j.todo # <<>> THEN [j EXCEPT !.owed = FALSE] ELSE NoJob)
    /\ UNCHANGED <<schedVars, stopVars, events, ctx, kernVars, runVars, tickles,
                   histVars>>

Works(a) == Tickle(a) \/ AddEventDone(a) \/ TriggerEvent(a) \/ Counted(a)

-----------------------------------------------------------------------------
(* idle()                                                                   *)

(* stopping(), first operand. *)
CheckPending(t) ==
    /\ pc[t] = "idle"
    /\ Goto(t, IF m_pendingEventCount = 0 THEN "idle2" ELSE "wait")
    /\ UNCHANGED <<schedVars, stopVars, fdVars, kernVars, idleTerm, task, got,
                   gotPipe, callVars, histVars>>

(* stopping(), second operand; the idle fiber may end. *)
CheckStopping(t) ==
    /\ pc[t] = "idle2"
    /\ IF BaseStopping
       THEN /\ idleTerm' = idleTerm \cup {t}
            /\ IdleDown
            /\ Goto(t, "loop")
       ELSE Goto(t, "wait") /\ UNCHANGED <<idleTerm, m_idleThreadCount>>
    /\ UNCHANGED <<m_fibers, m_activeThreadCount, stopVars, fdVars, kernVars,
                   task, got, gotPipe, callVars, histVars>>

ReadyFds  == {fd \in edge : Reports(interest[fd], level[fd]) # {}}
ReadyPipe == pipe /\ pipeEdge

(* epoll_wait returns what is ready. *)
WaitReturns(t) ==
    /\ pc[t] = "wait"
    /\ ReadyFds # {} \/ ReadyPipe
    /\ got' = [got EXCEPT ![t] =
                 [fd \in Fds |-> IF fd \in ReadyFds
                                 THEN Reports(interest[fd], level[fd]) ELSE {}]]
    /\ gotPipe' = [gotPipe EXCEPT ![t] = ReadyPipe]
    /\ edge' = {}
    /\ pipeEdge' = FALSE
    /\ Goto(t, "events")
    /\ UNCHANGED <<schedVars, stopVars, fdVars, interest, level, pipe, idleTerm,
                   task, callVars, histVars>>

(* ... or nothing, after MAX_TIMEOUT. *)
WaitTimeout(t) ==
    /\ pc[t] = "wait"
    /\ ReadyFds = {} /\ ~ReadyPipe
    /\ Goto(t, "events")
    /\ UNCHANGED <<schedVars, stopVars, fdVars, kernVars, idleTerm, task, got,
                   gotPipe, callVars, histVars>>

DrainPipe(t) ==
    /\ pc[t] = "events"
    /\ ~Busy(t)
    /\ gotPipe[t]
    /\ gotPipe' = [gotPipe EXCEPT ![t] = FALSE]
    /\ pipe' = FALSE
    /\ UNCHANGED <<schedVars, stopVars, fdVars, interest, level, edge, pipeEdge,
                   pc, idleTerm, task, got, callVars, histVars>>

(* Lines 305-332, under the descriptor's mutex: the events that remain go   *)
(* back to epoll, then each of real_events is triggered.  If epoll_ctl      *)
(* fails the report is dropped.                                             *)
HandleFd(t) ==
    /\ pc[t] = "events"
    /\ ~Busy(t)
    /\ \E fd \in Fds :
          LET real == RealEvents(got[t][fd]) IN
          /\ got[t][fd] # {}
          /\ Free(fd)
          /\ got' = [got EXCEPT ![t][fd] = {}]
          /\ \/ /\ events[fd] \cap real # {}
                /\ EpollCtl(fd, events[fd] \ real)
                /\ SetJob(t, Work(fd, ReadThenWrite(real)))
             \/ /\ events[fd] \cap real = {} \/ fd \in Refused
                /\ UNCHANGED <<interest, edge, job>>
    /\ UNCHANGED <<schedVars, stopVars, fdVars, level, pipe, pipeEdge, pc,
                   idleTerm, task, gotPipe, tickles, histVars>>

(* All handled: the idle fiber swaps out, run() goes round. *)
LeaveIdle(t) ==
    /\ pc[t] = "events"
    /\ ~Busy(t)
    /\ ~gotPipe[t] /\ \A fd \in Fds : got[t][fd] = {}
    /\ IdleDown
    /\ stale' = [stale EXCEPT ![t] = {}]
    /\ Goto(t, "loop")
    /\ UNCHANGED <<m_fibers, m_activeThreadCount, stopVars, fdVars, kernVars,
                   idleTerm, task, got, gotPipe, callVars, born, ended, deleted, failed>>

Run(t) == \/ Pick(t) \/ PickNothing(t) \/ EnterIdle(t) \/ EndTask(t)
          \/ CheckPending(t) \/ CheckStopping(t) \/ WaitReturns(t)
          \/ WaitTimeout(t) \/ DrainPipe(t) \/ HandleFd(t) \/ LeaveIdle(t)

-----------------------------------------------------------------------------
(* ~IOManager: stop()                                                       *)

(* Lines 90-101 of Scheduler::stop.  Without pool threads Root is alone. *)
StopBegin ==
    /\ main = "up"
    /\ ~Busy(Root)
    /\ m_autoStop' = TRUE
    /\ IF UseCaller /\ Pool = {}
       THEN /\ m_stopping' = TRUE
            /\ main' = IF m_pendingEventCount = 0 /\ m_fibers = <<>>
                       THEN "stopped" ELSE "set"
       ELSE main' = "set" /\ UNCHANGED m_stopping
    /\ UNCHANGED <<schedVars, fdVars, kernVars, runVars, callVars, histVars>>

(* Line 109, and the calls of tickle() for every runner. *)
StopSet ==
    /\ main = "set"
    /\ m_stopping' = TRUE
    /\ tickles' = [tickles EXCEPT ![Root] = Cardinality(Runners)]
    /\ main' = IF UseCaller THEN "call" ELSE "join"
    /\ UNCHANGED <<schedVars, m_autoStop, fdVars, kernVars, runVars, job, histVars>>

RootCalls == /\ main' = "in_call"
             /\ Goto(Root, "loop")

(* Lines 120-122, with the two operands of stopping(). *)
StopPending ==
    /\ main = "call"
    /\ tickles[Root] = 0
    /\ IF m_pendingEventCount = 0 THEN main' = "call2" /\ UNCHANGED pc ELSE RootCalls
    /\ UNCHANGED <<schedVars, m_stopping, m_autoStop, fdVars, kernVars, idleTerm,
                   task, got, gotPipe, callVars, histVars>>

StopCall ==
    /\ main = "call2"
    /\ IF BaseStopping THEN main' = "join" /\ UNCHANGED pc ELSE RootCalls
    /\ UNCHANGED <<schedVars, m_stopping, m_autoStop, fdVars, kernVars, idleTerm,
                   task, got, gotPipe, callVars, histVars>>

StopCallReturns ==
    /\ main = "in_call"
    /\ pc[Root] = "exited"
    /\ main' = "join"
    /\ UNCHANGED <<schedVars, m_stopping, m_autoStop, fdVars, kernVars, runVars,
                   callVars, histVars>>

PoolJoined == \A t \in Pool : pc[t] = "exited"

StopJoin ==
    /\ main = "join"
    /\ tickles[Root] = 0
    /\ PoolJoined
    /\ main' = "stopped"
    /\ UNCHANGED <<schedVars, m_stopping, m_autoStop, fdVars, kernVars, runVars,
                   callVars, histVars>>

Stop == StopBegin \/ StopSet \/ StopPending \/ StopCall \/ StopCallReturns \/ StopJoin

-----------------------------------------------------------------------------
(* The constructor has run: epoll, the tickle pipe and the threads exist. *)
Init ==
    /\ m_fibers = <<>>
    /\ m_activeThreadCount = 0
    /\ m_idleThreadCount = 0
    /\ m_stopping = FALSE
    /\ m_autoStop = FALSE
    /\ m_pendingEventCount = 0
    /\ events = [fd \in Fds |-> {}]
    /\ ctx = [fd \in Fds |-> [e \in Event |-> None]]
    /\ interest = [fd \in Fds |-> {}]
    /\ level = [fd \in Fds |-> {}]
    /\ edge = {}
    /\ pipe = FALSE
    /\ pipeEdge = FALSE
    /\ main = "up"
    /\ pc = [t \in Runners |-> IF t \in Pool THEN "loop" ELSE "off"]
    /\ idleTerm = {}
    /\ task = [t \in Runners |-> None]
    /\ got = [t \in Runners |-> [fd \in Fds |-> {}]]
    /\ gotPipe = [t \in Runners |-> FALSE]
    /\ job = [a \in Actors |-> NoJob]
    /\ tickles = [a \in Actors |-> 0]
    /\ born = {} /\ ended = {} /\ deleted = {}
    /\ stale = [t \in Runners |-> {}]
    /\ failed = "no"

(* stop() returned, or an assertion aborted the program. *)
Over  == failed # "no" \/ main = "stopped"
Ended == Over /\ UNCHANGED vars

Next == \/ /\ ~Over
           /\ \/ Kernel \/ Stop
              \/ \E a \in Actors : Calls(a) \/ Works(a)
              \/ \E t \in Runners : Run(t)
        \/ Ended

Spec == Init /\ [][Next]_vars

(* Every thread keeps running.  Root need not call stop(), but goes on to   *)
(* its end.                                                                 *)
Fairness == /\ \A a \in Actors : WF_vars(~Over /\ Works(a))
            /\ \A t \in Runners : WF_vars(~Over /\ Run(t))
            /\ WF_vars(~Over /\ main # "up" /\ Stop)

(* What the program registers events for comes to pass. *)
EventsOccur == \A fd \in Fds, cond \in Conditions :
                  WF_vars(~Over /\ Arises(fd, cond))

FairSpec == Spec /\ Fairness /\ EventsOccur

-----------------------------------------------------------------------------
(* The variables have their types. *)
TypeOK ==
    /\ m_fibers \in Seq(Tasks)
    /\ m_activeThreadCount \in 0 .. Cardinality(Runners)
    /\ m_idleThreadCount \in 0 .. Cardinality(Runners)
    /\ m_stopping \in BOOLEAN /\ m_autoStop \in BOOLEAN
    /\ m_pendingEventCount \in Nat
    /\ events \in [Fds -> SUBSET Event]
    /\ ctx \in [Fds -> [Event -> Tasks \cup {None}]]
    /\ interest \in [Fds -> SUBSET Event]
    /\ level \in [Fds -> SUBSET Conditions]
    /\ edge \subseteq Fds
    /\ pipe \in BOOLEAN /\ pipeEdge \in BOOLEAN
    /\ main \in {"up", "set", "call", "call2", "in_call", "join", "stopped"}
    /\ pc \in [Runners -> {"off", "loop", "body", "none", "idle", "idle2",
                           "wait", "events", "exited"}]
    /\ idleTerm \subseteq Runners
    /\ task \in [Runners -> Tasks \cup {None}]
    /\ got \in [Runners -> [Fds -> SUBSET Conditions]]
    /\ gotPipe \in [Runners -> BOOLEAN]
    /\ job \in [Actors -> Job]
    /\ tickles \in [Actors -> Nat]
    /\ born \subseteq Tasks /\ ended \subseteq Tasks /\ deleted \subseteq Tasks
    /\ stale \in [Runners -> SUBSET Fds]
    /\ failed \in {"no", "addEvent", "triggerEvent"}

Registrations == {p \in Fds \X Event : p[2] \in events[p[1]]}
Owing         == {a \in Actors : job[a].owed}

(* m_pendingEventCount, which stopping() goes by without any lock, is the   *)
(* number of registered events, plus the triggers whose decrement is still  *)
(* to come.  So it is never 0 while an event is registered, and never wraps.*)
PendingAgrees ==
    m_pendingEventCount = Cardinality(Registrations) + Cardinality(Owing)

(* While nobody holds the mutex of a descriptor, epoll is asked for exactly *)
(* the registered events, and each of them has a task, as addEvent asserts. *)
ContextAgrees ==
    \A fd \in Fds : Free(fd) =>
        /\ interest[fd] = events[fd]
        /\ \A e \in Event : e \in events[fd] <=> ctx[fd][e] # None

(* No readiness is lost between the edge-triggered epoll and the contexts:  *)
(* an event that is registered and holds is in epoll's ready list, or in    *)
(* the array of a thread that is going to handle it, unless an epoll_ctl    *)
(* of the descriptor may fail (then idle() drops the report, line 331).     *)
NotForgotten ==
    \A fd \in Fds \ Refused : Free(fd) =>
        \A e \in events[fd] : Wanted(e) \in level[fd] =>
            fd \in edge \/ \E t \in Runners : Wanted(e) \in got[t][fd]

(* A task that was handed over, has not run and was not deleted is in one   *)
(* place: the list, a context, an addEvent under way, or a thread.          *)
Places(c) ==
    Cardinality({i \in DOMAIN m_fibers : m_fibers[i] = c})
  + Cardinality({p \in Fds \X Event : ctx[p[1]][p[2]] = c})
  + Cardinality({a \in Actors : job[a].add = c})
  + Cardinality({t \in Runners : task[t] = c})

OneHome == \A c \in Tasks :
              Places(c) = IF c \in born \ (ended \cup deleted) THEN 1 ELSE 0

(* "VITY_ASSERT(events & event)" (iomanager.cc:36): triggerEvent is called  *)
(* for registered events only.  (It is not always: see OnlyStaleTriggers.)  *)
TriggersRegistered == failed # "triggerEvent"

(* An actor is about to trigger an event that is not registered. *)
Mistaken(a) == LET j == job[a] IN
    /\ j.fd # None /\ j.add = None /\ ~j.owed
    /\ Head(j.todo) \notin events[j.fd]

(* The only ones to do so are threads in idle(), with a report the kernel   *)
(* gave for a hang-up, or of which another thread deleted, canceled or      *)
(* triggered a part after epoll_wait returned it (iomanager.cc:307-342).    *)
(* cancelEvent and cancelAll never do, and neither does idle() when two     *)
(* events of a descriptor are reported and both are still registered.       *)
OnlyStaleTriggers ==
    \A a \in Actors : Mistaken(a) =>
        /\ a \in Runners /\ pc[a] = "events"
        /\ job[a].fd \in stale[a] \/ "HUP" \in level[job[a].fd]

(* When stop() returns every thread has left run() and the list is empty;   *)
(* no thread is inside an operation on a descriptor.                        *)
StopDrains ==
    main = "stopped" =>
       /\ m_fibers = <<>>
       /\ \A t \in Runners : pc[t] \in {"off", "exited"}
       /\ \A a \in Actors : ~Busy(a)

(* ~IOManager: "all threads and coroutines have ended" when stop() returns, *)
(* and the contexts are deleted: no event waits any longer.                 *)
StopLeavesNoEvent == main = "stopped" => m_pendingEventCount = 0

(* tickle() is called "to wake up epoll_wait()": with a task in the list    *)
(* and every thread in epoll_wait, one of them is woken.                    *)
TickleWakes ==
    ( /\ m_fibers # <<>>
      /\ \A a \in Actors : tickles[a] = 0
      /\ main \notin {"stopped"} /\ \A t \in Runners : pc[t] = "wait" )
      => ReadyPipe \/ ReadyFds # {}

(* Every task runs in the end, if it is not deleted: the event it waits for *)
(* occurs or is canceled, a thread that is idle notices, and some thread    *)
(* takes it, unless stop() returns or an assertion fails before.  (What     *)
(* stop() leaves behind is StopLeavesNoEvent's subject.)                    *)
TaskRuns == \A c \in Tasks : c \in born ~> (c \in ended \cup deleted \/ Over)

(* stop(), once called, returns, unless an assertion fails: the threads     *)
(* notice that nothing is left.                                             *)
StopReturns == main # "up" ~> Over
=============================================================================
