----------------------------- MODULE Scheduler -----------------------------
(***************************************************************************)
(* The M:N coroutine scheduler (vity/scheduler.h, vity/scheduler.cc): a    *)
(* pool of threads, and optionally the thread that owns the scheduler,     *)
(* take fibers and callbacks from the shared list m_fibers and run each on *)
(* its own stack.  m_mutex protects m_fibers only.  The state of a fiber,  *)
(* m_state, is a plain field which the thread that runs the fiber writes   *)
(* and every thread that scans the list reads, so every access to it is a  *)
(* step of its own here, and so is the context switch that leaves a fiber: *)
(* a fiber says HOLD or READY before its thread has left its stack.        *)
(***************************************************************************)
EXTENDS Naturals, FiniteSets, SequencesExt

CONSTANTS
    Pool,        (* the threads start() creates                             *)
    Root,        (* the thread that constructs the scheduler and stops it   *)
    UseCaller,   (* use_caller: Root itself runs tasks inside stop()        *)
    Callbacks,   (* the std::function bodies, each scheduled at most once   *)
    Fibers,      (* the Fiber objects                                       *)
    AnyThread,   (* the thread -1 of a FiberAndThread                       *)
    None,        (* a null Fiber::ptr or an empty std::function             *)
    MaxYields,   (* bound: suspensions of one body                          *)
    MaxDups,     (* bound: second schedule() calls on a Fiber::ptr          *)
    MaxStarts,   (* bound: start()/stop() rounds                            *)
    Pins,        (* who names a thread in schedule(): "none", "self" (Root  *)
                 (* any thread, a body its own) or "any"                    *)
    PromptWake   (* a waker may call schedule() before the fiber it wakes   *)
                 (* has been put away by the thread that ran it             *)

Runners == IF UseCaller THEN Pool \cup {Root} ELSE Pool

ASSUME SchedulerAssumption ==
    /\ IsFiniteSet(Pool)
    /\ Runners # {}        (* VITY_ASSERT(threads > 0) *)
    /\ Root \notin Pool
    /\ UseCaller \in BOOLEAN
    /\ PromptWake \in BOOLEAN
    /\ None \notin Fibers \cup Callbacks
    /\ AnyThread \notin Pool \cup {Root}
    /\ MaxYields \in Nat /\ MaxDups \in Nat /\ MaxStarts \in Nat
    /\ Pins \in {"none", "self", "any"}

FiberState == {"INIT", "HOLD", "EXEC", "TERM", "READY", "EXCEPT"}

(* A FiberAndThread.  reset() makes it NoItem. *)
Item == [fiber : Fibers \cup {None}, cb : Callbacks \cup {None},
         thread : Runners \cup {AnyThread}]

(* Wrong on purpose, see "Wrong on purpose" below: thread stays unset. *)
NoThreadItem == [fiber |-> None, cb |-> None, thread |-> None]

NoItem == [fiber |-> None, cb |-> None, thread |-> AnyThread]

FiberItem(f, thr) == [fiber |-> f, cb |-> None, thread |-> thr]
CbItem(c, thr)    == [fiber |-> None, cb |-> c, thread |-> thr]

VARIABLES
    m_fibers,             (* the list of tasks to schedule                  *)
    m_activeThreadCount,
    m_idleThreadCount,
    m_stopping,
    m_autoStop,
    main,                 (* where Root is in its program                   *)
    starts,               (* start() calls made                             *)
    dups,                 (* second schedule() calls made                   *)
    pc,                   (* where each runner is in run()                  *)
    ft,                   (* run()'s local FiberAndThread                   *)
    cb_fiber,             (* run()'s local fiber for callbacks              *)
    idleTerm,             (* the runners whose idle fiber is TERM           *)
    m_state,              (* Fiber::m_state                                 *)
    m_cb,                 (* Fiber::m_cb                                    *)
    onStack,              (* the threads executing on the fiber's stack     *)
    waker,                (* fibers whose Fiber::ptr some waker holds       *)
    handles,              (* fibers Root made and holds the Fiber::ptr of   *)
    scheduled,            (* history: callbacks handed to schedule()        *)
    pin,                  (* history: the thread named in that call         *)
    started,              (* history: how often each body was entered       *)
    finished,             (* history: bodies that returned or threw         *)
    yields,               (* suspensions of each body, for MaxYields        *)
    failed                (* the VITY_ASSERT that aborted the program       *)

queueVars == <<m_fibers, m_activeThreadCount, m_idleThreadCount>>
stopVars  == <<m_stopping, m_autoStop>>
mainVars  == <<main, starts, dups>>
runVars   == <<pc, ft, cb_fiber, idleTerm>>
fiberVars == <<m_state, m_cb, onStack, waker, handles>>
histVars  == <<scheduled, pin, started, finished, yields>>
vars == <<queueVars, stopVars, mainVars, runVars, fiberVars, histVars, failed>>

InTask == {"enter", "switch", "body", "parking", "leave", "back", "after"}
RunPC  == InTask \cup {"off", "loop", "got", "none", "idle", "idleback", "exited"}
(* The assertions of run() line 215, swapIn line 204, CallerMainFunc line 196. *)
Failures == {"no", "run", "swapIn", "never reach"}
MainPC == {"up", "early", "set", "call", "in_call", "join", "stopped"}

-----------------------------------------------------------------------------
(* The fiber a runner is switching to, running or leaving: ft.fiber, or     *)
(* cb_fiber once the callback has been moved into it and ft reset.          *)
Cur(t) == IF ft[t].fiber # None THEN ft[t].fiber ELSE cb_fiber[t]

(* The runner holds a Fiber::ptr to f in ft or in cb_fiber. *)
Holds(t, f) == ft[t].fiber = f \/ cb_fiber[t] = f

(* The runner has taken the fiber and not yet put it away again. *)
Handling(t, f) == pc[t] \in InTask /\ Cur(t) = f

Queued(f) == \E i \in DOMAIN m_fibers : m_fibers[i].fiber = f

(* A Fiber object nobody refers to: `new Fiber` may return this one.  A     *)
(* fiber suspended in its body refers to itself from its own stack.         *)
Fresh(f) ==
    /\ m_state[f] \in {"INIT", "TERM", "EXCEPT"}
    /\ \A t \in Runners : ~Holds(t, f)
    /\ ~Queued(f)
    /\ f \notin waker \cup handles

(* Wrong on purpose: what some definitions below would be if a line of the  *)
(* code were missing or wrong.  Each one in the place of the right one      *)
(* breaks a property, which shows that the property is about that line.     *)
TakesAny(t, item) == item.fiber # None => m_state[item.fiber] # "EXEC"
TakesOwn(t, item) == item.thread = t
IdleOnly          == m_activeThreadCount = 0
ActiveStays       == UNCHANGED m_activeThreadCount
EraseNot(i)       == UNCHANGED m_fibers
KeepCb(t)         == UNCHANGED cb_fiber
MayWakeEarly(f)   == f \in waker
NotJoined         == TRUE
ForgetsStopping   == m_autoStop /\ m_fibers = <<>> /\ m_activeThreadCount = 0
MarkBut(s0, f, s) == m_state' = [m_state EXCEPT ![f] = IF s = s0 THEN @ ELSE s]
MarkButReady(f, s) == MarkBut("READY", f, s)
MarkButHold(f, s)  == MarkBut("HOLD", f, s)

(* Scheduler::stopping(), evaluated under m_mutex. *)
NothingLeft == m_fibers = <<>> /\ m_activeThreadCount = 0
Stopping    == m_autoStop /\ m_stopping /\ NothingLeft

(* scheduleNoLock under m_mutex.  tickle() of this class only logs. *)
Schedule(item) == m_fibers' = Append(m_fibers, item)

(* History: callback c was handed to schedule() for thread thr. *)
Record(c, thr) == /\ scheduled' = scheduled \cup {c}
                  /\ pin' = [pin EXCEPT ![c] = thr]

(* run() line 174-185: this thread takes this entry of the list. *)
Takes(t, item) ==
    /\ item.thread \in {AnyThread, t}
    /\ item.fiber # None => m_state[item.fiber] # "EXEC"

(* The assignments run() is made of. *)
Erase(i)   == m_fibers' = RemoveAt(m_fibers, i)
ActiveDown == m_activeThreadCount' = m_activeThreadCount - 1
Mark(f, s) == m_state' = [m_state EXCEPT ![f] = s]

(* Fiber::reset, and the constructor of Fiber: the fiber is to run c. *)
Reset(f, c) == Mark(f, "INIT") /\ m_cb' = [m_cb EXCEPT ![f] = c]

ResetFt(t) == ft' = [ft EXCEPT ![t] = NoItem]
ResetCb(t) == cb_fiber' = [cb_fiber EXCEPT ![t] = None]

Goto(t, label) == pc' = [pc EXCEPT ![t] = label]

-----------------------------------------------------------------------------
Init ==
    /\ m_fibers = <<>>
    /\ m_activeThreadCount = 0
    /\ m_idleThreadCount = 0
    /\ m_stopping = TRUE
    /\ m_autoStop = FALSE
    /\ main = "up"
    /\ starts = 0
    /\ dups = 0
    /\ pc = [t \in Runners |-> "off"]
    /\ ft = [t \in Runners |-> NoItem]
    /\ cb_fiber = [t \in Runners |-> None]
    /\ idleTerm = {}
    /\ m_state = [f \in Fibers |-> "INIT"]
    /\ m_cb = [f \in Fibers |-> None]
    /\ onStack = [f \in Fibers |-> {}]
    /\ waker = {}
    /\ handles = {}
    /\ scheduled = {}
    /\ pin = [c \in Callbacks |-> AnyThread]
    /\ started = [c \in Callbacks |-> 0]
    /\ finished = {}
    /\ yields = [c \in Callbacks |-> 0]
    /\ failed = "no"

-----------------------------------------------------------------------------
(* run(): one turn of the loop of runner t                                  *)

(* Under m_mutex: take the first entry this thread may run. *)
Pick(t) ==
    /\ pc[t] = "loop"
    /\ \E i \in DOMAIN m_fibers :
          /\ Takes(t, m_fibers[i])
          /\ \A j \in DOMAIN m_fibers : j < i => ~Takes(t, m_fibers[j])
          /\ ft' = [ft EXCEPT ![t] = m_fibers[i]]
          /\ Erase(i)
    /\ m_activeThreadCount' = m_activeThreadCount + 1
    /\ Goto(t, "got")
    /\ UNCHANGED <<m_idleThreadCount, stopVars, mainVars, cb_fiber, idleTerm,
                   fiberVars, histVars, failed>>

(* Under m_mutex: nothing in the list for this thread. *)
PickNothing(t) ==
    /\ pc[t] = "loop"
    /\ \A i \in DOMAIN m_fibers : ~Takes(t, m_fibers[i])
    /\ ResetFt(t)
    /\ Goto(t, "none")
    /\ UNCHANGED <<queueVars, stopVars, mainVars, cb_fiber, idleTerm,
                   fiberVars, histVars, failed>>

(* Line 201: a fiber that has not ended is switched to. *)
DispatchFiber(t) ==
    /\ pc[t] = "got"
    /\ ft[t].fiber # None
    /\ m_state[ft[t].fiber] \notin {"TERM", "EXCEPT"}
    /\ Goto(t, "enter")
    /\ UNCHANGED <<queueVars, stopVars, mainVars, ft, cb_fiber, idleTerm,
                   fiberVars, histVars, failed>>

(* Line 250: a fiber that has ended meanwhile is dropped. *)
DropEnded(t) ==
    /\ pc[t] = "got"
    /\ ft[t].fiber # None
    /\ m_state[ft[t].fiber] \in {"TERM", "EXCEPT"}
    /\ ActiveDown
    /\ ResetFt(t)
    /\ Goto(t, "loop")
    /\ UNCHANGED <<m_fibers, m_idleThreadCount, stopVars, mainVars, cb_fiber,
                   idleTerm, fiberVars, histVars, failed>>

(* Line 220: a callback goes into the spare fiber, or into a new one. *)
DispatchCb(t) ==
    /\ pc[t] = "got"
    /\ ft[t].fiber = None
    /\ \E f \in Fibers :
          /\ IF cb_fiber[t] # None THEN f = cb_fiber[t] ELSE Fresh(f)
          /\ cb_fiber' = [cb_fiber EXCEPT ![t] = f]
          /\ Reset(f, ft[t].cb)
    /\ ResetFt(t)
    /\ Goto(t, "enter")
    /\ UNCHANGED <<queueVars, stopVars, mainVars, idleTerm, onStack, waker,
                   handles, histVars, failed>>

(* Fiber::swapIn line 204: the assertion on the state. *)
SwapInCheck(t) ==
    /\ pc[t] = "enter"
    /\ IF m_state[Cur(t)] = "EXEC"
       THEN failed' = "swapIn" /\ UNCHANGED pc
       ELSE Goto(t, "switch") /\ UNCHANGED failed
    /\ UNCHANGED <<queueVars, stopVars, mainVars, ft, cb_fiber, idleTerm,
                   fiberVars, histVars>>

(* Line 205 and the switch.  A first entry starts the body. *)
SwapIn(t) ==
    LET f == Cur(t) IN
    /\ pc[t] = "switch"
    /\ Mark(f, "EXEC")
    /\ onStack' = [onStack EXCEPT ![f] = @ \cup {t}]
    /\ started' = IF m_state[f] = "INIT" /\ m_cb[f] # None
                  THEN [started EXCEPT ![m_cb[f]] = @ + 1]
                  ELSE started
    /\ Goto(t, "body")
    /\ UNCHANGED <<queueVars, stopVars, mainVars, ft, cb_fiber, idleTerm, m_cb,
                   waker, handles, scheduled, pin, finished, yields, failed>>

-----------------------------------------------------------------------------
(* What the body of the fiber on runner t does                              *)

(* The body returns (MainFunc lines 148-151). *)
Return(t) ==
    LET f == Cur(t) IN
    /\ pc[t] = "body"
    /\ m_cb[f] # None
    /\ finished' = finished \cup {m_cb[f]}
    /\ m_cb' = [m_cb EXCEPT ![f] = None]
    /\ Mark(f, "TERM")
    /\ Goto(t, "leave")
    /\ UNCHANGED <<queueVars, stopVars, mainVars, ft, cb_fiber, idleTerm,
                   onStack, waker, handles, scheduled, pin, started, yields,
                   failed>>

(* The body throws (lines 152-163); m_cb stays set. *)
Throw(t) ==
    LET f == Cur(t) IN
    /\ pc[t] = "body"
    /\ finished' = finished \cup ({m_cb[f]} \ {None})
    /\ Mark(f, "EXCEPT")
    /\ Goto(t, "leave")
    /\ UNCHANGED <<queueVars, stopVars, mainVars, ft, cb_fiber, idleTerm, m_cb,
                   onStack, waker, handles, scheduled, pin, started, yields,
                   failed>>

MaySuspend(t) ==
    /\ pc[t] = "body"
    /\ m_cb[Cur(t)] # None
    /\ yields[m_cb[Cur(t)]] < MaxYields

CountYield(t) == yields' = [yields EXCEPT ![m_cb[Cur(t)]] = @ + 1]

YieldToReady(t) ==
    /\ MaySuspend(t)
    /\ CountYield(t)
    /\ Mark(Cur(t), "READY")
    /\ Goto(t, "leave")
    /\ UNCHANGED <<queueVars, stopVars, mainVars, ft, cb_fiber, idleTerm, m_cb,
                   onStack, waker, handles, scheduled, pin, started, finished,
                   failed>>

(* The body hands its Fiber::ptr to a waker, as addEvent without a callback *)
(* does, and will now call YieldToHold.                                     *)
Arm(t) ==
    /\ MaySuspend(t)
    /\ Cur(t) \notin waker
    /\ CountYield(t)
    /\ waker' = waker \cup {Cur(t)}
    /\ Goto(t, "parking")
    /\ UNCHANGED <<queueVars, stopVars, mainVars, ft, cb_fiber, idleTerm,
                   m_state, m_cb, onStack, handles, scheduled, pin, started,
                   finished, failed>>

YieldToHold(t) ==
    /\ pc[t] = "parking"
    /\ Mark(Cur(t), "HOLD")
    /\ Goto(t, "leave")
    /\ UNCHANGED <<queueVars, stopVars, mainVars, ft, cb_fiber, idleTerm, m_cb,
                   onStack, waker, handles, histVars, failed>>

(* The threads the body on runner t may name in schedule(). *)
PinsOf(t) == {AnyThread} \cup
             CASE Pins = "none" -> {}
               [] Pins = "self" -> {t}
               [] Pins = "any"  -> Runners

(* The body schedules another callback. *)
BodySchedule(t) ==
    /\ pc[t] = "body"
    /\ \E c \in Callbacks \ scheduled, thr \in PinsOf(t) :
          /\ Record(c, thr)
          /\ Schedule(CbItem(c, thr))
    /\ UNCHANGED <<m_activeThreadCount, m_idleThreadCount, stopVars, mainVars,
                   runVars, fiberVars, started, finished, yields, failed>>

(* The waker may fire. *)
MayWake(f) ==
    /\ f \in waker
    /\ PromptWake \/ \A t \in Runners : ~Handling(t, f)

(* The body wakes a fiber whose Fiber::ptr it was given, its own possibly:  *)
(* a body may schedule(GetThis()) and then YieldToHold.                     *)
BodyWake(t) ==
    /\ pc[t] \in {"body", "parking"}
    /\ \E f \in Fibers :
          /\ MayWake(f)
          /\ waker' = waker \ {f}
          /\ Schedule(FiberItem(f, AnyThread))
    /\ UNCHANGED <<m_activeThreadCount, m_idleThreadCount, stopVars, mainVars,
                   runVars, m_state, m_cb, onStack, handles, histVars, failed>>

Body(t) == \/ Return(t) \/ Throw(t) \/ YieldToReady(t) \/ Arm(t)
           \/ YieldToHold(t) \/ BodySchedule(t) \/ BodyWake(t)

-----------------------------------------------------------------------------
(* Fiber::swapOut: the thread leaves the fiber's stack. *)
SwapOut(t) ==
    /\ pc[t] = "leave"
    /\ onStack' = [onStack EXCEPT ![Cur(t)] = @ \ {t}]
    /\ Goto(t, "back")
    /\ UNCHANGED <<queueVars, stopVars, mainVars, ft, cb_fiber, idleTerm,
                   m_state, m_cb, waker, handles, histVars, failed>>

(* Lines 206 and 233: the count goes down before the state is looked at. *)
Deactivate(t) ==
    /\ pc[t] = "back"
    /\ ActiveDown
    /\ Goto(t, "after")
    /\ UNCHANGED <<m_fibers, m_idleThreadCount, stopVars, mainVars, ft,
                   cb_fiber, idleTerm, fiberVars, histVars, failed>>

(* Lines 210-211 and 235-237: a READY fiber goes to the end of the list,    *)
(* for any thread.                                                          *)
Requeue(t) ==
    /\ pc[t] = "after"
    /\ m_state[Cur(t)] = "READY"
    /\ Schedule(FiberItem(Cur(t), AnyThread))
    /\ ResetFt(t)
    /\ IF ft[t].fiber = None THEN ResetCb(t) ELSE UNCHANGED cb_fiber
    /\ Goto(t, "loop")
    /\ UNCHANGED <<m_activeThreadCount, m_idleThreadCount, stopVars, mainVars,
                   idleTerm, fiberVars, histVars, failed>>

(* Lines 212-219: a scheduled fiber that ended or holds is let go of. *)
LetGo(t) ==
    LET f == ft[t].fiber IN
    /\ pc[t] = "after"
    /\ f # None
    /\ m_state[f] # "READY"
    /\ IF m_state[f] = "EXEC"
       THEN /\ failed' = "run"
            /\ UNCHANGED <<pc, ft>>
       ELSE /\ ResetFt(t)
            /\ Goto(t, "loop")
            /\ UNCHANGED failed
    /\ UNCHANGED <<queueVars, stopVars, mainVars, cb_fiber, idleTerm,
                   fiberVars, histVars>>

(* Lines 239-241: the fiber of an ended callback is kept as the spare. *)
KeepSpare(t) ==
    LET f == cb_fiber[t] IN
    /\ pc[t] = "after"
    /\ ft[t].fiber = None
    /\ m_state[f] \in {"TERM", "EXCEPT"}
    /\ Reset(f, None)
    /\ Goto(t, "loop")
    /\ UNCHANGED <<queueVars, stopVars, mainVars, ft, cb_fiber, idleTerm,
                   onStack, waker, handles, histVars, failed>>

(* Lines 242-247: the fiber of a suspended callback is marked HOLD, *)
(* whatever its state is by now, and let go of.                     *)
HoldCb(t) ==
    LET f == cb_fiber[t] IN
    /\ pc[t] = "after"
    /\ ft[t].fiber = None
    /\ m_state[f] \notin {"READY", "TERM", "EXCEPT"}
    /\ Mark(f, "HOLD")
    /\ ResetCb(t)
    /\ Goto(t, "loop")
    /\ UNCHANGED <<queueVars, stopVars, mainVars, ft, idleTerm, m_cb, onStack,
                   waker, handles, histVars, failed>>

-----------------------------------------------------------------------------
(* The idle fiber of runner t                                               *)

EnterIdle(t) ==
    /\ pc[t] = "none"
    /\ t \notin idleTerm
    /\ m_idleThreadCount' = m_idleThreadCount + 1
    /\ Goto(t, "idle")
    /\ UNCHANGED <<m_fibers, m_activeThreadCount, stopVars, mainVars, ft,
                   cb_fiber, idleTerm, fiberVars, histVars, failed>>

(* Scheduler::idle: end when stopping(), else YieldToHold. *)
IdleCheck(t) ==
    /\ pc[t] = "idle"
    /\ idleTerm' = IF Stopping THEN idleTerm \cup {t} ELSE idleTerm
    /\ Goto(t, "idleback")
    /\ UNCHANGED <<queueVars, stopVars, mainVars, ft, cb_fiber, fiberVars,
                   histVars, failed>>

LeaveIdle(t) ==
    /\ pc[t] = "idleback"
    /\ m_idleThreadCount' = m_idleThreadCount - 1
    /\ Goto(t, "loop")
    /\ UNCHANGED <<m_fibers, m_activeThreadCount, stopVars, mainVars, ft,
                   cb_fiber, idleTerm, fiberVars, histVars, failed>>

(* Line 254: the idle fiber is TERM, run() returns. *)
ExitRun(t) ==
    /\ pc[t] = "none"
    /\ t \in idleTerm
    /\ ResetCb(t)
    /\ Goto(t, "exited")
    /\ UNCHANGED <<queueVars, stopVars, mainVars, ft, idleTerm, fiberVars,
                   histVars, failed>>

Run(t) == \/ Pick(t) \/ PickNothing(t)
          \/ DispatchFiber(t) \/ DropEnded(t) \/ DispatchCb(t)
          \/ SwapInCheck(t) \/ SwapIn(t) \/ Body(t) \/ SwapOut(t) \/ Deactivate(t)
          \/ Requeue(t) \/ LetGo(t) \/ KeepSpare(t) \/ HoldCb(t)
          \/ EnterIdle(t) \/ IdleCheck(t) \/ LeaveIdle(t) \/ ExitRun(t)

-----------------------------------------------------------------------------
(* The program of Root: start(), schedule() calls, stop()                   *)

Start ==
    /\ main \in {"up", "stopped"}
    /\ starts < MaxStarts
    /\ m_stopping
    /\ m_stopping' = FALSE
    /\ pc' = [t \in Runners |-> IF t \in Pool THEN "loop" ELSE pc[t]]
    /\ idleTerm' = idleTerm \ Pool
    /\ main' = "up"
    /\ starts' = starts + 1
    /\ UNCHANGED <<queueVars, m_autoStop, dups, ft, cb_fiber, fiberVars,
                   histVars, failed>>

(* Root pins to a thread it knows: itself, or the pool after start(). *)
MainPins == {AnyThread} \cup
            IF Pins = "none" THEN {}
            ELSE IF starts > 0 THEN Runners ELSE Runners \ Pool

MainScheduleCb ==
    /\ main = "up"
    /\ \E c \in Callbacks \ scheduled, thr \in MainPins :
          /\ Record(c, thr)
          /\ Schedule(CbItem(c, thr))
    /\ UNCHANGED <<m_activeThreadCount, m_idleThreadCount, stopVars, mainVars,
                   runVars, fiberVars, started, finished, yields, failed>>

(* Root makes a fiber, keeps its Fiber::ptr and schedules it. *)
MainScheduleFiber ==
    /\ main = "up"
    /\ \E c \in Callbacks \ scheduled, thr \in MainPins, f \in Fibers :
          /\ Fresh(f)
          /\ Record(c, thr)
          /\ handles' = handles \cup {f}
          /\ Reset(f, c)
          /\ Schedule(FiberItem(f, thr))
    /\ UNCHANGED <<m_activeThreadCount, m_idleThreadCount, stopVars, mainVars,
                   runVars, onStack, waker, started, finished, yields, failed>>

(* Root schedules a fiber it has scheduled before. *)
MainScheduleAgain ==
    /\ main = "up"
    /\ dups < MaxDups
    /\ dups' = dups + 1
    /\ \E f \in handles : Schedule(FiberItem(f, AnyThread))
    /\ UNCHANGED <<m_activeThreadCount, m_idleThreadCount, stopVars, main,
                   starts, runVars, fiberVars, histVars, failed>>

MainWake ==
    /\ main = "up"
    /\ \E f \in Fibers :
          /\ MayWake(f)
          /\ waker' = waker \ {f}
          /\ Schedule(FiberItem(f, AnyThread))
    /\ UNCHANGED <<m_activeThreadCount, m_idleThreadCount, stopVars, mainVars,
                   runVars, m_state, m_cb, onStack, handles, histVars, failed>>

(* stop() line 90-93. *)
StopBegin ==
    /\ main = "up"
    /\ starts > 0
    /\ ~m_stopping
    /\ m_autoStop' = TRUE
    /\ main' = IF UseCaller /\ Pool = {} THEN "early" ELSE "set"
    /\ UNCHANGED <<queueVars, m_stopping, starts, dups, runVars, fiberVars,
                   histVars, failed>>

(* Lines 96-100: no pool threads and nothing left to run. *)
StopEarly ==
    /\ main = "early"
    /\ m_stopping' = TRUE
    /\ main' = IF NothingLeft THEN "stopped" ELSE "set"
    /\ UNCHANGED <<queueVars, m_autoStop, starts, dups, runVars, fiberVars,
                   histVars, failed>>

StopSet ==
    /\ main = "set"
    /\ m_stopping' = TRUE
    /\ main' = IF UseCaller THEN "call" ELSE "join"
    /\ UNCHANGED <<queueVars, m_autoStop, starts, dups, runVars, fiberVars,
                   histVars, failed>>

(* Lines 119-123: Root runs tasks itself, unless nothing is left.  Calling  *)
(* a root fiber that has returned resumes it past its end.                  *)
StopCall ==
    /\ main = "call"
    /\ IF Stopping
       THEN main' = "join" /\ UNCHANGED <<pc, failed>>
       ELSE IF pc[Root] = "exited"
            THEN failed' = "never reach" /\ UNCHANGED <<main, pc>>
            ELSE /\ main' = "in_call"
                 /\ Goto(Root, "loop")
                 /\ UNCHANGED failed
    /\ UNCHANGED <<queueVars, stopVars, starts, dups, ft, cb_fiber, idleTerm,
                   fiberVars, histVars>>

StopCallReturns ==
    /\ main = "in_call"
    /\ pc[Root] = "exited"
    /\ main' = "join"
    /\ UNCHANGED <<queueVars, stopVars, starts, dups, runVars, fiberVars,
                   histVars, failed>>

(* The join() of every pool thread has returned. *)
PoolJoined == \A t \in Pool : pc[t] = "exited"

StopJoin ==
    /\ main = "join"
    /\ PoolJoined
    /\ main' = "stopped"
    /\ UNCHANGED <<queueVars, stopVars, starts, dups, runVars, fiberVars,
                   histVars, failed>>

Stop == StopBegin \/ StopEarly \/ StopSet \/ StopCall \/ StopCallReturns \/ StopJoin

Main == \/ Start \/ Stop
        \/ MainScheduleCb \/ MainScheduleFiber \/ MainScheduleAgain \/ MainWake

(* The program has ended: stop() returned for good, or an assertion failed. *)
Ended ==
    /\ failed # "no" \/ (main = "stopped" /\ starts = MaxStarts)
    /\ UNCHANGED vars

Next == \/ /\ failed = "no"
           /\ Main \/ \E t \in Runners : Run(t)
        \/ Ended

Spec == Init /\ [][Next]_vars

(* Every runner keeps running (which makes every body end, as the bodies    *)
(* have finite programs), and Root goes on with its program up to the end   *)
(* of stop().                                                               *)
Fairness == /\ \A t \in Runners : WF_vars(failed = "no" /\ Run(t))
            /\ WF_vars(failed = "no" /\ Start)
            /\ WF_vars(failed = "no" /\ Stop)

FairSpec == Spec /\ Fairness

-----------------------------------------------------------------------------
(* The assertion-free use of a Fiber::ptr: "if the fiber is being executed, *)
(* go on to the next" (scheduler.cc:181), so a thread never takes a fiber   *)
(* from the list while a thread is executing on its stack.                  *)
SkipsExecuting ==
    [][\A t \in Runners :
          (pc[t] = "loop" /\ pc'[t] = "got" /\ ft'[t].fiber # None)
             => onStack[ft'[t].fiber] = {}]_vars

(* The variables have their types. *)
TypeOK ==
    /\ m_fibers \in Seq(Item)
    /\ m_activeThreadCount \in Int
    /\ m_idleThreadCount \in Int
    /\ m_stopping \in BOOLEAN
    /\ m_autoStop \in BOOLEAN
    /\ main \in MainPC
    /\ starts \in Nat
    /\ dups \in Nat
    /\ pc \in [Runners -> RunPC]
    /\ ft \in [Runners -> Item]
    /\ cb_fiber \in [Runners -> Fibers \cup {None}]
    /\ idleTerm \subseteq Runners
    /\ m_state \in [Fibers -> FiberState]
    /\ m_cb \in [Fibers -> Callbacks \cup {None}]
    /\ onStack \in [Fibers -> SUBSET Runners]
    /\ waker \subseteq Fibers
    /\ handles \subseteq Fibers
    /\ scheduled \subseteq Callbacks
    /\ pin \in [Callbacks -> Runners \cup {AnyThread}]
    /\ started \in [Callbacks -> Nat]
    /\ finished \subseteq Callbacks
    /\ yields \in [Callbacks -> Nat]
    /\ failed \in Failures

(* A fiber's stack is never in use by two threads at a time: what the       *)
(* scheduler exists to guarantee, with no lock on the fiber (the test for   *)
(* EXEC at scheduler.cc:182 and the assertion at fiber.cc:204 are not       *)
(* atomic with the switch).                                                 *)
ExclusiveStack ==
    \A f \in Fibers : \A t, u \in onStack[f] : t = u

(* The assertions on the tasks: the fiber run() has left is not EXEC        *)
(* (scheduler.cc:215), nor one that swapIn() enters (fiber.cc:204); an      *)
(* entry of the list names a fiber or a callback (scheduler.cc:180); the    *)
(* spare fiber may be reset() when run() moves a callback into it           *)
(* (fiber.cc:112, from scheduler.cc:222); no fiber that has returned is     *)
(* resumed past the end of MainFunc (fiber.cc:169).  CallerMainFunc's end   *)
(* (fiber.cc:196) is passed in one way only: a scheduler that uses its      *)
(* caller's thread is started and stopped again, with tasks left.           *)
NoAssertFailure ==
    /\ failed = "no" \/ (failed = "never reach" /\ UseCaller /\ starts > 1)
    /\ \A i \in DOMAIN m_fibers : m_fibers[i].fiber # None \/ m_fibers[i].cb # None
    /\ \A t \in Runners :
          /\ pc[t] = "got" /\ ft[t].fiber = None /\ cb_fiber[t] # None
                => m_state[cb_fiber[t]] \in {"INIT", "TERM", "EXCEPT"}
          /\ pc[t] = "switch" => m_state[Cur(t)] \notin {"TERM", "EXCEPT"}

(* The counters that stopping() and hasIdleThreads() go by, kept by four    *)
(* separate increments and decrements of run(), agree with where the        *)
(* threads are.                                                             *)
Counted ==
    /\ m_activeThreadCount =
          Cardinality({t \in Runners :
                          pc[t] \in {"got"} \cup (InTask \ {"after"})})
    /\ m_idleThreadCount =
          Cardinality({t \in Runners : pc[t] \in {"idle", "idleback"}})

(* How many places hold callback c: entries of the list, runners that took  *)
(* it, and suspended fibers that a waker can still schedule.                *)
InItem(item, c) ==
    item.cb = c \/ (item.fiber # None /\ m_cb[item.fiber] = c)

Parked(f) == /\ m_state[f] = "HOLD"
             /\ f \in waker
             /\ \A t \in Runners : ~Handling(t, f)

Places(c) ==
    Cardinality({i \in DOMAIN m_fibers : InItem(m_fibers[i], c)})
  + Cardinality({t \in Runners : \/ pc[t] = "got" /\ InItem(ft[t], c)
                                 \/ pc[t] \in InTask /\ m_cb[Cur(t)] = c})
  + Cardinality({f \in Fibers : m_cb[f] = c /\ Parked(f)})

(* No task is lost or doubled: whatever the threads do, a callback given to *)
(* schedule() that has not ended is in exactly one place.                   *)
Conserved == \A c \in scheduled \ finished : Places(c) = 1

(* A callback is entered once at most, and only after it was scheduled. *)
AtMostOnce ==
    \A c \in Callbacks : started[c] <= (IF c \in scheduled THEN 1 ELSE 0)

(* FiberAndThread::thread: the body of a task given to schedule() for one   *)
(* thread is entered by that thread.                                        *)
StartsWherePinned ==
    [][\A t \in Runners, c \in Callbacks :
          (pc[t] = "switch" /\ started'[c] > started[c]
                            /\ pc'[t] = "body" /\ m_cb[Cur(t)] = c)
             => pin[c] \in {AnyThread, t}]_vars

(* No entry of the list waits for a thread that has left run() or is about  *)
(* to: each thread decides alone, by what stopping() told its idle fiber.   *)
Gone(t) == \/ pc[t] = "exited"
           \/ pc[t] = "none" /\ t \in idleTerm
           \/ t = Root /\ pc[t] = "off" /\ main \in {"join", "stopped"}

NoOrphan ==
    \A i \in DOMAIN m_fibers :
       \A t \in Runners : m_fibers[i].thread = t => ~Gone(t)

(* stop(): "all coroutines and all threads exit": when it returns, nothing  *)
(* is left in the list, no thread is in run(), and every task that was      *)
(* scheduled has ended or is suspended until a waker schedules it.          *)
StopDrains ==
    main = "stopped" =>
       /\ m_fibers = <<>>
       /\ \A t \in Runners : pc[t] \in {"off", "exited"}
       /\ \A c \in scheduled \ finished :
             \E f \in Fibers : m_cb[f] = c /\ Parked(f)

(* Every task that is scheduled is entered in the end, provided no task     *)
(* keeps its thread for ever.                                               *)
EveryTaskStarts ==
    \A c \in Callbacks : (c \in scheduled) ~> (started[c] > 0)

(* stop(), once called, returns. *)
StopReturns == (main \notin {"up", "stopped"}) ~> (main = "stopped")
=============================================================================
