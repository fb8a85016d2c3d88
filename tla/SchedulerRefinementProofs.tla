---------------------- MODULE SchedulerRefinementProofs ----------------------
(* Every step of the scheduler is a step of the task pool or leaves the     *)
(* pool as it is, for any number of threads, fibers and callbacks.          *)
EXTENDS SchedulerRefinement, SchedulerTaskProofs

LEMMA StatusFrame ==
    ASSUME NEW c \in Callbacks,
           c \in scheduled' <=> c \in scheduled, c \in finished' <=> c \in finished,
           (\E t \in Runners : WorkerOf(t)' = c) <=> (\E t \in Runners : WorkerOf(t) = c),
           HeldFor(c)' <=> HeldFor(c)
    PROVE  StatusOf(c)' = StatusOf(c)
BY DEF StatusOf

(* What the refinement mapping makes of each kind of step. *)
LEMMA PoolStays ==
    ASSUME \A c \in Callbacks : StatusOf(c)' = StatusOf(c),
           \A t \in Runners : WorkerOf(t)' = WorkerOf(t),
           main = "stopped" <=> main' = "stopped"
    PROVE  UNCHANGED TP!poolVars
BY DEF TP!poolVars

LEMMA PoolSubmits ==
    ASSUME main # "stopped", main' = main, NEW c \in Callbacks,
           StatusOf(c) = "new", StatusOf(c)' = "pending",
           \A d \in Callbacks \ {c} : StatusOf(d)' = StatusOf(d),
           \A t \in Runners : WorkerOf(t)' = WorkerOf(t)
    PROVE  TP!PoolNext
<1>1. TP!Submit(c)
    BY DEF TP!Submit, TP!Becomes
<1> QED
    BY <1>1 DEF TP!PoolNext

LEMMA PoolWakes ==
    ASSUME main # "stopped", main' = main, NEW c \in Callbacks,
           StatusOf(c) = "parked", StatusOf(c)' = "pending",
           \A d \in Callbacks \ {c} : StatusOf(d)' = StatusOf(d),
           \A t \in Runners : WorkerOf(t)' = WorkerOf(t)
    PROVE  TP!PoolNext
<1>1. TP!Wake(c)
    BY DEF TP!Wake, TP!Becomes
<1> QED
    BY <1>1 DEF TP!PoolNext

LEMMA PoolTakes ==
    ASSUME main # "stopped", main' = main, NEW t \in Runners, NEW c \in Callbacks,
           WorkerOf(t) = None, WorkerOf(t)' = c,
           StatusOf(c) = "pending", StatusOf(c)' = "running",
           \A d \in Callbacks \ {c} : StatusOf(d)' = StatusOf(d),
           \A u \in Runners \ {t} : WorkerOf(u)' = WorkerOf(u)
    PROVE  TP!PoolNext
<1>1. TP!Take(t, c)
    BY DEF TP!Take, TP!Becomes
<1> QED
    BY <1>1 DEF TP!PoolNext

LEMMA PoolLeaves ==
    ASSUME main # "stopped", main' = main, NEW t \in Runners, NEW c \in Callbacks,
           WorkerOf(t) = c, WorkerOf(t)' = None, NEW s \in {"pending", "parked", "done"},
           StatusOf(c)' = s,
           \A d \in Callbacks \ {c} : StatusOf(d)' = StatusOf(d),
           \A u \in Runners \ {t} : WorkerOf(u)' = WorkerOf(u)
    PROVE  TP!PoolNext
<1> DEFINE w  == [u \in Runners |-> WorkerOf(u)]
           st == [d \in Callbacks |-> StatusOf(d)]
<1>1. w[t] = c /\ c # None
    BY SchedulerAssumption
<1>2. w' = [w EXCEPT ![t] = None] /\ st' = [st EXCEPT ![c] = s]
    OBVIOUS
<1>3. (main # "stopped") = (main' # "stopped")
    OBVIOUS
<1> HIDE DEF w, st
<1>4. /\ w[t] # None /\ st' = [st EXCEPT ![w[t]] = s] /\ w' = [w EXCEPT ![t] = None]
      /\ (main' # "stopped") = (main # "stopped")
    BY <1>1, <1>2, <1>3
<1>5. TP!Leave(t, s)
    BY <1>4 DEF TP!Leave, TP!Becomes, w, st
<1> QED
    BY <1>5 DEF TP!PoolNext, TP!Yield, TP!Park, TP!Finish

-----------------------------------------------------------------------------
(* Who is in a task, and in which. *)
LEMMA Working ==
    ASSUME TaskInv
    PROVE  /\ \A t \in Runners : InBody(t) =>
                 /\ Cur(t) \in Fibers /\ InHand(t, Cur(t)) /\ m_state[Cur(t)] = "EXEC"
                 /\ m_cb[Cur(t)] \in Callbacks /\ m_cb[Cur(t)] \in scheduled \ finished
           /\ \A t \in Runners, c \in Callbacks : WorkerOf(t) = c => InBody(t) /\ m_cb[Cur(t)] = c
           /\ \A t, u \in Runners : WorkerOf(t) = WorkerOf(u) /\ WorkerOf(t) # None => t = u
<1>a. SchedulerInv /\ FiberLife /\ CallbackLife /\ TypeOK
    BY DEF TaskInv, SchedulerInv
<1>1. ASSUME NEW t \in Runners, InBody(t)
      PROVE  /\ Cur(t) \in Fibers /\ InHand(t, Cur(t)) /\ m_state[Cur(t)] = "EXEC"
             /\ m_cb[Cur(t)] \in Callbacks /\ m_cb[Cur(t)] \in scheduled \ finished
  <2>1. Cur(t) \in Fibers /\ InHand(t, Cur(t)) /\ pc[t] \in {"body", "parking"}
      BY <1>a, <1>1, InTaskHand DEF InBody, InTask
  <2>2. m_state[Cur(t)] = "EXEC" /\ Live(Cur(t))
      BY <1>a, <2>1 DEF FiberLife, InHandFits, Fits
  <2> QED
      BY <1>a, <2>1, <2>2 DEF Live, TypeOK, CallbackLife, EnteredOnce
<1>2. \A t \in Runners, c \in Callbacks : WorkerOf(t) = c => InBody(t) /\ m_cb[Cur(t)] = c
    BY SchedulerAssumption DEF WorkerOf
<1>3. ASSUME NEW t \in Runners, NEW u \in Runners, WorkerOf(t) = WorkerOf(u), WorkerOf(t) # None
      PROVE  t = u
  <2>1. InBody(t) /\ InBody(u) /\ m_cb[Cur(t)] = m_cb[Cur(u)]
      BY <1>3 DEF WorkerOf
  <2>2. Cur(t) = Cur(u) /\ InHand(t, Cur(t)) /\ InHand(u, Cur(t)) /\ Cur(t) \in Fibers
      BY <1>a, <1>1, <2>1, SchedulerAssumption DEF CallbackLife, CallbackOnce
  <2> QED
      BY <1>a, <2>2, InHandAlone
<1> QED
    BY <1>1, <1>2, <1>3

(* The step of a thread that stays out of, or inside, its task, with fibers *)
(* changed only where no suspended task is concerned.                       *)
LEMMA QuietStep ==
    ASSUME \A t \in Runners : InBody(t)' <=> InBody(t),
           \A t \in Runners : InBody(t) => Cur(t)' = Cur(t) /\ m_cb'[Cur(t)] = m_cb[Cur(t)],
           \A f \in Fibers :
              \/ m_cb'[f] = m_cb[f] /\ m_state'[f] = m_state[f] /\ (f \in waker' <=> f \in waker)
              \/ /\ f \notin waker \/ m_state[f] # "HOLD"
                 /\ f \notin waker' \/ m_state'[f] # "HOLD",
           UNCHANGED <<scheduled, finished>>, main = "stopped" <=> main' = "stopped"
    PROVE  UNCHANGED TP!poolVars
<1>1. \A t \in Runners : WorkerOf(t)' = WorkerOf(t)
    BY DEF WorkerOf
<1>2. \A c \in Callbacks : HeldFor(c)' <=> HeldFor(c)
    BY DEF HeldFor
<1> QED
    BY <1>1, <1>2, StatusFrame, PoolStays

-----------------------------------------------------------------------------
LEMMA RunIsOpen ==
    ASSUME Phases, TypeInv, NEW t \in Runners, Run(t)
    PROVE  /\ main # "stopped" /\ main' = main
           /\ \A u \in Runners \ {t} : pc'[u] = pc[u] /\ ft'[u] = ft[u] /\ cb_fiber'[u] = cb_fiber[u]
<1>1. /\ ~Apart(t) /\ main' = main
      /\ \A u \in Runners \ {t} : pc'[u] = pc[u] /\ ft'[u] = ft[u] /\ cb_fiber'[u] = cb_fiber[u]
    BY DEF Run, Body, Pick, PickNothing, DispatchFiber, DropEnded, DispatchCb,
           SwapInCheck, SwapIn, Return, Throw, YieldToReady, Arm, YieldToHold,
           BodySchedule, BodyWake, SwapOut, Deactivate, Requeue, LetGo, KeepSpare,
           HoldCb, EnterIdle, IdleCheck, LeaveIdle, ExitRun, Goto, Apart, MaySuspend,
           ResetFt, ResetCb, mainVars, runVars, TypeInv, TypeOK
<1> QED
    BY <1>1 DEF Phases, Runners

(* schedule() of a callback that was not scheduled before. *)
LEMMA SubmitStep ==
    ASSUME TaskInv, main # "stopped", main' = main, NEW c \in Callbacks \ scheduled,
           scheduled' = scheduled \cup {c}, finished' = finished,
           \A t \in Runners : pc'[t] = pc[t] /\ Cur(t)' = Cur(t),
           \A f \in Fibers :
              \/ m_cb'[f] = m_cb[f] /\ m_state'[f] = m_state[f] /\ (f \in waker' <=> f \in waker)
              \/ f \notin waker /\ f \notin waker' /\ \A t \in Runners : ~Holds(t, f)
    PROVE  TP!PoolNext
<1>a. CallbackLife /\ TypeOK
    BY DEF TaskInv, SchedulerInv
<1>1. \A t \in Runners : WorkerOf(t)' = WorkerOf(t)
  <2> SUFFICES ASSUME NEW t \in Runners, InBody(t) PROVE m_cb'[Cur(t)] = m_cb[Cur(t)]
      BY DEF WorkerOf, InBody
  <2> QED
      BY Working DEF Holds, Cur
<1>2. \A d \in Callbacks : HeldFor(d)' <=> HeldFor(d)
    BY DEF HeldFor
<1>3. c \notin finished /\ c # None /\ \A f \in Fibers : m_cb[f] # c
    BY <1>a, SchedulerAssumption DEF CallbackLife, EnteredOnce
<1>4. ~HeldFor(c) /\ \A t \in Runners : WorkerOf(t) # c
    BY <1>3, Working DEF HeldFor
<1>5. StatusOf(c) = "new" /\ StatusOf(c)' = "pending"
    BY <1>1, <1>2, <1>3, <1>4 DEF StatusOf
<1>6. \A d \in Callbacks \ {c} : StatusOf(d)' = StatusOf(d)
    BY <1>1, <1>2, StatusFrame
<1> QED
    BY <1>1, <1>5, <1>6, PoolSubmits

(* schedule() of a suspended fiber by its waker. *)
LEMMA WakeStep ==
    ASSUME PromptWake = FALSE, TaskInv, main # "stopped", main' = main,
           NEW f \in Fibers, MayWake(f), waker' = waker \ {f},
           UNCHANGED <<pc, ft, cb_fiber, m_state, m_cb, scheduled, finished>>
    PROVE  TP!PoolNext
<1>a. SchedulerInv /\ FiberLife /\ CallbackLife /\ TypeOK
    BY DEF TaskInv, SchedulerInv
<1>1. \A t \in Runners : ~Holds(t, f)
    BY <1>a DEF MayWake, SchedulerInv, Ownership, ArmedSuspends, Handling, Suspending, InTask
<1>2. f \in waker /\ m_state[f] = "HOLD" /\ Live(f)
    BY <1>a, <1>1 DEF MayWake, FiberLife, ArmedHolds
<1>3. PICK c \in Callbacks : c = m_cb[f] /\ c \in scheduled \ finished /\ c # None
    BY <1>a, <1>2 DEF Live, TypeOK, CallbackLife, EnteredOnce
<1>4. \A g \in Fibers : m_cb[g] = c => g = f
    BY <1>a, <1>3 DEF CallbackLife, CallbackOnce
<1>5. \A t \in Runners : WorkerOf(t)' = WorkerOf(t) /\ WorkerOf(t) # c
  <2>1. \A t \in Runners : WorkerOf(t)' = WorkerOf(t)
      BY DEF WorkerOf, InBody, Cur
  <2>2. ASSUME NEW t \in Runners, WorkerOf(t) = c PROVE FALSE
      BY <1>1, <1>4, <2>2, Working DEF Holds, Cur
  <2> QED
      BY <2>1, <2>2
<1>6. HeldFor(c) /\ ~HeldFor(c)'
    BY <1>2, <1>3, <1>4 DEF HeldFor
<1>7. StatusOf(c) = "parked" /\ StatusOf(c)' = "pending"
    BY <1>3, <1>5, <1>6 DEF StatusOf
<1>8. \A d \in Callbacks \ {c} : HeldFor(d)' <=> HeldFor(d)
    BY <1>3 DEF HeldFor
<1>9. \A d \in Callbacks \ {c} : StatusOf(d)' = StatusOf(d)
    BY <1>5, <1>8, StatusFrame
<1> QED
    BY <1>5, <1>7, <1>9, PoolWakes

(* The second switch: the thread leaves the task it is in. *)
LEMMA LeaveStep ==
    ASSUME TaskInv, TypeInv', NEW t \in Runners, Run(t), InBody(t), pc'[t] = "leave",
           NEW f \in Fibers, f = Cur(t), NEW s \in {"pending", "parked", "done"},
           UNCHANGED <<ft, cb_fiber, scheduled>>,
           waker' = waker, \A g \in Fibers \ {f} : m_cb'[g] = m_cb[g] /\ m_state'[g] = m_state[g],
           finished' = finished \cup (IF s = "done" THEN {m_cb[f]} ELSE {}),
           s # "done" => m_cb'[f] = m_cb[f],
           s = "pending" => m_state'[f] # "HOLD",
           s = "parked" => m_state'[f] = "HOLD" /\ f \in waker,
           s = "done" => m_state'[f] # "HOLD"
    PROVE  TP!PoolNext
<1>a. CallbackLife /\ TypeOK /\ Phases /\ TypeInv
    BY DEF TaskInv, SchedulerInv, TypeInv, Ownership
<1>b. /\ main # "stopped" /\ main' = main
      /\ \A u \in Runners \ {t} : pc'[u] = pc[u]
    BY <1>a, RunIsOpen
<1>1. PICK c \in Callbacks : /\ c = m_cb[f] /\ c \in scheduled \ finished /\ c # None
                             /\ WorkerOf(t) = c /\ m_state[f] = "EXEC"
    BY Working, SchedulerAssumption DEF WorkerOf
<1>2. \A g \in Fibers : m_cb[g] = c => g = f
    BY <1>a, <1>1 DEF CallbackLife, CallbackOnce
<1>3. /\ WorkerOf(t)' = None
      /\ \A u \in Runners \ {t} : WorkerOf(u)' = WorkerOf(u) /\ WorkerOf(u) # c
  <2>1. WorkerOf(t)' = None
      BY DEF WorkerOf, InBody
  <2>2. ASSUME NEW u \in Runners \ {t} PROVE WorkerOf(u) # c
      BY <1>1, <2>2, Working
  <2>3. ASSUME NEW u \in Runners \ {t} PROVE WorkerOf(u)' = WorkerOf(u)
    <3>1. CASE InBody(u)
      <4>1. Cur(u) \in Fibers /\ Cur(u) # f /\ Cur(u)' = Cur(u)
          BY <1>1, <2>2, <3>1, Working DEF WorkerOf, Cur
      <4>2. m_cb'[Cur(u)] = m_cb[Cur(u)]
          BY <4>1
      <4> QED
          BY <1>b, <3>1, <4>1, <4>2 DEF WorkerOf, InBody
    <3>2. CASE ~InBody(u)
        BY <1>b, <3>2 DEF WorkerOf, InBody
    <3> QED
        BY <3>1, <3>2
  <2> QED
      BY <2>1, <2>2, <2>3
<1>4. HeldFor(c)' <=> s = "parked"
    BY <1>1, <1>2 DEF HeldFor
<1>5. StatusOf(c)' = s
    BY <1>1, <1>3, <1>4 DEF StatusOf
<1>6. \A d \in Callbacks \ {c} : HeldFor(d)' <=> HeldFor(d)
    BY <1>1 DEF HeldFor
<1>7. \A d \in Callbacks \ {c} : StatusOf(d)' = StatusOf(d)
  <2> SUFFICES ASSUME NEW d \in Callbacks \ {c} PROVE StatusOf(d)' = StatusOf(d)
      OBVIOUS
  <2>1. d \in finished' <=> d \in finished
      BY <1>1
  <2>2. (\E u \in Runners : WorkerOf(u)' = d) <=> (\E u \in Runners : WorkerOf(u) = d)
      BY <1>1, <1>3, SchedulerAssumption
  <2> QED
      BY <1>6, <2>1, <2>2, StatusFrame
<1> QED
    BY <1>b, <1>1, <1>3, <1>5, <1>7, PoolLeaves

-----------------------------------------------------------------------------
LEMMA RefineRun ==
    ASSUME PromptWake = FALSE, TaskInv, TypeInv', NEW t \in Runners, Run(t)
    PROVE  [TP!PoolNext]_(TP!poolVars)
<1> USE DEF Goto, Mark, queueVars, mainVars, runVars, fiberVars, histVars
<1>a. SchedulerInv /\ FiberLife /\ CallbackLife /\ TypeOK /\ TypeInv /\ Phases
    BY DEF TaskInv, SchedulerInv, TypeInv, Ownership
<1>b. /\ main # "stopped" /\ main' = main
      /\ \A u \in Runners \ {t} : pc'[u] = pc[u] /\ ft'[u] = ft[u] /\ cb_fiber'[u] = cb_fiber[u]
    BY <1>a, RunIsOpen
(* Steps that leave the fibers alone and the thread where it was to the pool. *)
<1>c. ASSUME InBody(t)' <=> InBody(t), InBody(t) => Cur(t)' = Cur(t),
             UNCHANGED <<m_state, m_cb, waker, scheduled, finished>>
      PROVE  UNCHANGED TP!poolVars
  <2>1. \A u \in Runners : (InBody(u)' <=> InBody(u)) /\ (InBody(u) => Cur(u)' = Cur(u))
      BY <1>b, <1>c DEF InBody, Cur
  <2> QED
      BY <1>b, <1>c, <2>1, QuietStep
<1>1. CASE Pick(t) \/ PickNothing(t) \/ DispatchFiber(t) \/ DropEnded(t)
           \/ SwapOut(t) \/ Deactivate(t) \/ Requeue(t)
           \/ EnterIdle(t) \/ IdleCheck(t) \/ LeaveIdle(t) \/ ExitRun(t)
  <2>1. ~InBody(t) /\ ~InBody(t)' /\ UNCHANGED <<m_state, m_cb, waker, scheduled, finished>>
      BY <1>a, <1>1
      DEF Pick, PickNothing, DispatchFiber, DropEnded, SwapOut, Deactivate, Requeue,
          EnterIdle, IdleCheck, LeaveIdle, ExitRun, InBody, TypeOK
  <2> QED
      BY <1>c, <2>1
<1>2. CASE SwapInCheck(t) \/ LetGo(t)
  <2>1. /\ UNCHANGED <<m_state, m_cb, waker, scheduled, finished>>
        /\ pc[t] \in {"enter", "after"}
      BY <1>2 DEF SwapInCheck, LetGo
  <2>2. pc' = pc \/ pc' = [pc EXCEPT ![t] = "switch"] \/ pc' = [pc EXCEPT ![t] = "loop"]
    <3>1. CASE SwapInCheck(t)
      <4>1. CASE m_state[Cur(t)] = "EXEC"
          BY <3>1, <4>1, Zenon DEF SwapInCheck
      <4>2. CASE m_state[Cur(t)] # "EXEC"
          BY <3>1, <4>2, Zenon DEF SwapInCheck
      <4> QED
          BY <4>1, <4>2
    <3>2. CASE LetGo(t)
      <4>1. CASE m_state[ft[t].fiber] = "EXEC"
          BY <3>2, <4>1, Zenon DEF LetGo
      <4>2. CASE m_state[ft[t].fiber] # "EXEC"
          BY <3>2, <4>2, Zenon DEF LetGo
      <4> QED
          BY <4>1, <4>2
    <3> QED
        BY <1>2, <3>1, <3>2
  <2>3. ~InBody(t) /\ ~InBody(t)'
      BY <1>a, <2>1, <2>2 DEF InBody, TypeOK
  <2> QED
      BY <1>c, <2>1, <2>3
<1>3. CASE DispatchCb(t)
  <2>1. PICK f \in Fibers : /\ IF cb_fiber[t] # None THEN f = cb_fiber[t] ELSE Fresh(f)
                            /\ Reset(f, ft[t].cb)
      BY <1>3 DEF DispatchCb
  <2>2. pc[t] = "got" /\ pc' = [pc EXCEPT ![t] = "enter"] /\ UNCHANGED <<waker, scheduled, finished>>
        /\ ft[t].fiber = None
      BY <1>3 DEF DispatchCb
  <2>3. f \notin waker /\ \A u \in Runners \ {t} : ~Holds(u, f)
    <3>1. CASE cb_fiber[t] = f
        BY <1>a, <2>2, <3>1 DEF SchedulerInv, Ownership, HeldOnce, ArmedSuspends, Suspending, Holds
    <3>2. CASE Fresh(f)
        BY <3>2 DEF Fresh
    <3> QED
        BY <2>1, <3>1, <3>2
  <2>4. \A u \in Runners : InBody(u)' <=> InBody(u)
      BY <1>a, <1>b, <2>2 DEF InBody, TypeOK
  <2>5. \A u \in Runners : InBody(u) => u # t /\ Cur(u)' = Cur(u) /\ Cur(u) # f
      BY <1>b, <2>2, <2>3 DEF InBody, Cur, Holds
  <2>6. \A g \in Fibers \ {f} : m_cb'[g] = m_cb[g] /\ m_state'[g] = m_state[g]
      BY <1>a, <2>1 DEF Reset, TypeOK
  <2>7. \A u \in Runners : InBody(u) => m_cb'[Cur(u)] = m_cb[Cur(u)]
      BY <2>5, <2>6, Working
  <2> QED
      BY <1>b, <2>2, <2>3, <2>4, <2>5, <2>6, <2>7, QuietStep
<1>4. CASE SwapIn(t)
  <2>1. PICK f \in Fibers : f = Cur(t) /\ InHand(t, f)
      BY <1>a, <1>4, InTaskHand DEF SwapIn, InTask
  <2>2. /\ pc[t] = "switch" /\ pc' = [pc EXCEPT ![t] = "body"] /\ m_state' = [m_state EXCEPT ![f] = "EXEC"]
        /\ UNCHANGED <<ft, cb_fiber, m_cb, waker, scheduled, finished>>
      BY <1>4, <2>1 DEF SwapIn
  <2>3. /\ Live(f) /\ f \notin waker
        /\ \A u \in Runners \ {t} : ~InHand(u, f)
      BY <1>a, <2>1, <2>2, InHandAlone
      DEF FiberLife, InHandFits, Fits, SchedulerInv, Ownership, ArmedSuspends, Suspending
  <2>4. PICK c \in Callbacks : c = m_cb[f] /\ c \in scheduled \ finished /\ c # None
      BY <1>a, <2>3 DEF Live, TypeOK, CallbackLife, EnteredOnce
  <2>5. \A g \in Fibers : m_cb[g] = c => g = f
      BY <1>a, <2>4 DEF CallbackLife, CallbackOnce
  <2>6. WorkerOf(t) = None /\ WorkerOf(t)' = c
      BY <1>a, <2>1, <2>2, <2>4 DEF WorkerOf, InBody, Cur, TypeOK
  <2>7. \A u \in Runners \ {t} : WorkerOf(u)' = WorkerOf(u) /\ WorkerOf(u) # c
    <3>1. \A u \in Runners \ {t} : WorkerOf(u)' = WorkerOf(u)
        BY <1>b, <2>2 DEF WorkerOf, InBody, Cur
    <3>2. ASSUME NEW u \in Runners \ {t}, WorkerOf(u) = c PROVE FALSE
        BY <2>3, <2>5, <3>2, Working
    <3> QED
        BY <3>1, <3>2
  <2>8. \A d \in Callbacks : HeldFor(d)' <=> HeldFor(d)
      BY <1>a, <2>2, <2>3 DEF HeldFor, TypeOK
  <2>9. ~HeldFor(c)
      BY <2>3, <2>5 DEF HeldFor
  <2>10. StatusOf(c) = "pending" /\ StatusOf(c)' = "running"
      BY <2>2, <2>4, <2>6, <2>7, <2>9 DEF StatusOf
  <2>11. ASSUME NEW d \in Callbacks \ {c} PROVE StatusOf(d)' = StatusOf(d)
    <3>1. (\E u \in Runners : WorkerOf(u)' = d) <=> (\E u \in Runners : WorkerOf(u) = d)
        BY <2>6, <2>7, SchedulerAssumption
    <3> QED
        BY <2>2, <2>8, <3>1, StatusFrame
  <2> QED
      BY <1>b, <2>6, <2>7, <2>10, <2>11, PoolTakes
<1>5. CASE Return(t) \/ Throw(t) \/ YieldToReady(t) \/ YieldToHold(t)
  <2>1. InBody(t)
      BY <1>5 DEF Return, Throw, YieldToReady, YieldToHold, MaySuspend, InBody
  <2>2. PICK f \in Fibers : f = Cur(t) /\ InHand(t, f) /\ m_cb[f] # None
      BY <2>1, Working, SchedulerAssumption
  <2>3. /\ pc'[t] = "leave" /\ UNCHANGED <<ft, cb_fiber, scheduled, waker>>
        /\ \A g \in Fibers \ {f} : m_cb'[g] = m_cb[g] /\ m_state'[g] = m_state[g]
      BY <1>a, <1>5, <2>2 DEF Return, Throw, YieldToReady, YieldToHold, TypeOK
  <2>4. CASE Return(t) \/ Throw(t)
    <3>1. finished' = finished \cup {m_cb[f]} /\ m_state'[f] # "HOLD"
        BY <1>a, <2>2, <2>4 DEF Return, Throw, TypeOK
    <3> QED
        BY <2>1, <2>2, <2>3, <3>1, LeaveStep
  <2>5. CASE YieldToReady(t)
    <3>1. finished' = finished \cup {} /\ m_state'[f] # "HOLD" /\ m_cb' = m_cb
        BY <1>a, <2>2, <2>5 DEF YieldToReady, TypeOK
    <3> QED
        BY <2>1, <2>2, <2>3, <3>1, LeaveStep
  <2>6. CASE YieldToHold(t)
    <3>1. finished' = finished \cup {} /\ m_state'[f] = "HOLD" /\ m_cb' = m_cb /\ f \in waker
      <4>1. f \in waker
          BY <1>a, <2>2, <2>6 DEF YieldToHold, FiberLife, InHandFits, Fits
      <4> QED
          BY <1>a, <2>2, <2>6, <4>1 DEF YieldToHold, TypeOK
    <3> QED
        BY <2>1, <2>2, <2>3, <3>1, LeaveStep
  <2> QED
      BY <1>5, <2>4, <2>5, <2>6
<1>6. CASE Arm(t)
  <2>1. /\ InBody(t) /\ pc' = [pc EXCEPT ![t] = "parking"] /\ waker' = waker \cup {Cur(t)}
        /\ UNCHANGED <<ft, cb_fiber, m_state, m_cb, scheduled, finished>>
      BY <1>6 DEF Arm, MaySuspend, InBody
  <2>2. m_state[Cur(t)] # "HOLD"
      BY <2>1, Working
  <2>3. \A u \in Runners : (InBody(u)' <=> InBody(u)) /\ Cur(u)' = Cur(u)
      BY <1>a, <2>1 DEF InBody, Cur, TypeOK
  <2> QED
      BY <1>b, <2>1, <2>2, <2>3, QuietStep
<1>7. CASE BodySchedule(t)
  <2>1. PICK c \in Callbacks \ scheduled : scheduled' = scheduled \cup {c}
      BY <1>7 DEF BodySchedule, Record
  <2>2. UNCHANGED <<pc, ft, cb_fiber, m_cb, m_state, waker, finished>>
      BY <1>7 DEF BodySchedule
  <2>3. \A u \in Runners : Cur(u)' = Cur(u)
      BY <2>2 DEF Cur
  <2> QED
      BY <1>b, <2>1, <2>2, <2>3, SubmitStep
<1>8. CASE BodyWake(t)
    BY <1>8, <1>b, WakeStep DEF BodyWake
<1>9. CASE KeepSpare(t) \/ HoldCb(t)
  <2>1. PICK f \in Fibers : f = Cur(t) /\ f = cb_fiber[t] /\ InHand(t, f) /\ pc[t] = "after"
      BY <1>a, <1>9, InTaskHand DEF KeepSpare, HoldCb, InTask, Cur
  <2>2. /\ pc' = [pc EXCEPT ![t] = "loop"] /\ UNCHANGED <<waker, scheduled, finished>>
        /\ \A g \in Fibers \ {f} : m_cb'[g] = m_cb[g] /\ m_state'[g] = m_state[g]
      BY <1>a, <1>9, <2>1 DEF KeepSpare, HoldCb, Reset, TypeOK
  <2>3. \/ m_cb'[f] = m_cb[f] /\ m_state'[f] = m_state[f]
        \/ m_state[f] # "HOLD" /\ m_state'[f] # "HOLD"
    <3>1. CASE KeepSpare(t)
        BY <1>a, <2>1, <3>1 DEF KeepSpare, Reset, TypeOK
    <3>2. CASE HoldCb(t)
      <4>1. m_state[f] = "HOLD"
          BY <1>a, <2>1, <3>2 DEF HoldCb, FiberLife, InHandFits, Fits, Left
      <4> QED
          BY <1>a, <2>1, <3>2, <4>1 DEF HoldCb, TypeOK
    <3> QED
        BY <1>9, <3>1, <3>2
  <2>4. \A u \in Runners : InBody(u)' <=> InBody(u)
      BY <1>a, <1>b, <2>1, <2>2 DEF InBody, TypeOK
  <2>5. \A u \in Runners : InBody(u) => u # t /\ Cur(u)' = Cur(u) /\ Cur(u) # f
    <3>1. \A u \in Runners : InBody(u) => u # t /\ Cur(u)' = Cur(u)
        BY <1>b, <2>1 DEF InBody, Cur
    <3>2. \A u \in Runners \ {t} : InBody(u) => Cur(u) # f
        BY <1>a, <2>1, Working, InHandAlone
    <3> QED
        BY <3>1, <3>2
  <2>6. \A u \in Runners : InBody(u) => m_cb'[Cur(u)] = m_cb[Cur(u)]
      BY <2>2, <2>5, Working
  <2> QED
      BY <1>b, <2>2, <2>3, <2>4, <2>5, <2>6, QuietStep
<1> QED
    BY <1>1, <1>2, <1>3, <1>4, <1>5, <1>6, <1>7, <1>8, <1>9 DEF Run, Body

-----------------------------------------------------------------------------
(* start() and stop() touch no task: they open and close the pool. *)
LEMMA RefineTurns ==
    ASSUME TaskInv, StopInv', Start \/ Stop
    PROVE  [TP!PoolNext]_(TP!poolVars)
<1>a. TypeOK /\ Phases
    BY DEF TaskInv, SchedulerInv
<1>1. UNCHANGED <<ft, cb_fiber, m_state, m_cb, waker, scheduled, finished>>
    BY DEF Start, Stop, StopBegin, StopEarly, StopSet, StopCall, StopCallReturns, StopJoin,
           runVars, fiberVars, histVars
<1>2. \A u \in Runners : (InBody(u)' <=> InBody(u)) /\ Cur(u)' = Cur(u)
    BY <1>a, <1>1, TurnsGo DEF InBody, Apart, Cur
<1>3. \A u \in Runners : WorkerOf(u)' = WorkerOf(u)
    BY <1>1, <1>2 DEF WorkerOf
<1>4. \A c \in Callbacks : HeldFor(c)' <=> HeldFor(c)
    BY <1>1 DEF HeldFor
<1>5. \A c \in Callbacks : StatusOf(c)' = StatusOf(c)
    BY <1>1, <1>3, <1>4, StatusFrame
<1>6. CASE main = "stopped" <=> main' = "stopped"
    BY <1>3, <1>5, <1>6, PoolStays
<1>7. CASE main = "stopped" /\ main' # "stopped"
  <2>1. TP!Reopen
      BY <1>3, <1>5, <1>7 DEF TP!Reopen
  <2> QED
      BY <2>1 DEF TP!PoolNext
<1>8. CASE main # "stopped" /\ main' = "stopped"
  <2>1. StopDrains'
      BY StopInvDrains, PTL
  <2>2. ASSUME NEW c \in Callbacks PROVE StatusOf(c)' \notin {"pending", "running"}
    <3>1. \A u \in Runners : WorkerOf(u)' = None
        BY <1>8, <2>1 DEF StopDrains, WorkerOf, InBody
    <3>2. c # None
        BY SchedulerAssumption
    <3>3. c \in scheduled' \ finished' => HeldFor(c)'
        BY <1>8, <2>1 DEF StopDrains, HeldFor, Parked
    <3> QED
        BY <3>1, <3>2, <3>3 DEF StatusOf
  <2>3. TP!Close
      BY <1>3, <1>5, <1>8, <2>2 DEF TP!Close
  <2> QED
      BY <2>3 DEF TP!PoolNext
<1> QED
    BY <1>6, <1>7, <1>8

LEMMA RefineMain ==
    ASSUME PromptWake = FALSE, MaxDups = 0, TaskInv, StopInv', Main
    PROVE  [TP!PoolNext]_(TP!poolVars)
<1> USE DEF mainVars, runVars, fiberVars, histVars
<1>1. CASE Start \/ Stop
    BY <1>1, RefineTurns
<1>2. CASE MainScheduleCb
  <2>1. PICK c \in Callbacks \ scheduled : scheduled' = scheduled \cup {c}
      BY <1>2 DEF MainScheduleCb, Record
  <2>2. /\ UNCHANGED <<pc, ft, cb_fiber, m_cb, m_state, waker, finished, main>>
        /\ main # "stopped"
      BY <1>2 DEF MainScheduleCb
  <2>3. \A u \in Runners : Cur(u)' = Cur(u)
      BY <2>2 DEF Cur
  <2> QED
      BY <2>1, <2>2, <2>3, SubmitStep
<1>3. CASE MainScheduleFiber
  <2>1. PICK c \in Callbacks \ scheduled, f \in Fibers :
           scheduled' = scheduled \cup {c} /\ Fresh(f) /\ Reset(f, c)
      BY <1>3 DEF MainScheduleFiber, Record
  <2>2. UNCHANGED <<pc, ft, cb_fiber, waker, finished, main>> /\ main # "stopped"
      BY <1>3 DEF MainScheduleFiber
  <2>3. \A u \in Runners : Cur(u)' = Cur(u)
      BY <2>2 DEF Cur
  <2>4. f \notin waker /\ \A u \in Runners : ~Holds(u, f)
      BY <2>1 DEF Fresh
  <2>5. \A g \in Fibers \ {f} : m_cb'[g] = m_cb[g] /\ m_state'[g] = m_state[g]
      BY <2>1 DEF Reset, Mark, TaskInv, SchedulerInv, TypeOK
  <2> QED
      BY <2>1, <2>2, <2>3, <2>4, <2>5, SubmitStep
<1>4. CASE MainScheduleAgain
    BY <1>4 DEF MainScheduleAgain, TaskInv, SchedulerInv, TypeOK
<1>5. CASE MainWake
    BY <1>5, WakeStep DEF MainWake
<1> QED
    BY <1>1, <1>2, <1>3, <1>4, <1>5 DEF Main

LEMMA RefineInit == Init => TP!PoolInit
<1> SUFFICES ASSUME Init PROVE TP!PoolInit
    OBVIOUS
<1>1. main # "stopped"
    BY DEF Init
<1>2. \A t \in Runners : WorkerOf(t) = None
    BY DEF Init, WorkerOf, InBody
<1>3. \A c \in Callbacks : StatusOf(c) = "new"
    BY DEF Init, StatusOf
<1> QED
    BY <1>1, <1>2, <1>3 DEF TP!PoolInit

LEMMA RefineNext ==
    ASSUME PromptWake = FALSE, MaxDups = 0
    PROVE  StopInv /\ StopInv' /\ [Next]_vars => [TP!PoolNext]_(TP!poolVars)
<1> SUFFICES ASSUME StopInv, StopInv', [Next]_vars PROVE [TP!PoolNext]_(TP!poolVars)
    OBVIOUS
<1>1. TaskInv /\ TypeInv'
    BY DEF StopInv, TaskInv, SchedulerInv, TypeInv, Ownership
<1>2. CASE Main
    BY <1>1, <1>2, RefineMain
<1>3. ASSUME NEW t \in Runners, Run(t) PROVE [TP!PoolNext]_(TP!poolVars)
    BY <1>1, <1>3, RefineRun
<1>4. CASE UNCHANGED vars
  <2>1. /\ UNCHANGED <<pc, ft, cb_fiber, m_state, m_cb, waker, scheduled, finished, main>>
      BY <1>4 DEF vars, mainVars, runVars, fiberVars, histVars
  <2>2. \A t \in Runners : Cur(t)' = Cur(t) /\ InBody(t)' = InBody(t)
      BY <2>1 DEF Cur, InBody
  <2> QED
      BY <2>1, <2>2, QuietStep
<1> QED
    BY <1>2, <1>3, <1>4 DEF Next, Ended

(* What run(), schedule(), start() and stop() do is what TaskPool promises: *)
(* a task that was scheduled is run by one thread at a time, goes on where  *)
(* it yielded or parked, ends once, and stop() returns only when no task is *)
(* pending or running.                                                      *)
THEOREM SchedulerImplementsPool ==
    ASSUME PromptWake = FALSE, MaxDups = 0, Pins # "any", UseCaller => MaxStarts <= 1
    PROVE  Spec => ImplementsTaskPool
<1>1. Spec => []StopInv
    BY StopInvInit, StopInvNext, PTL DEF Spec
<1>2. Spec => TP!PoolSpec
    BY <1>1, RefineInit, RefineNext, PTL DEF Spec, TP!PoolSpec
<1> QED
    BY <1>2 DEF ImplementsTaskPool

-----------------------------------------------------------------------------
(* What the promise, the task pool, gives to those who rely on it.         *)

(* The three facts together are inductive: a task is taken only when it is *)
(* pending, which no worker is in, and left only by the worker it is in.   *)
(* They are stated of an arbitrary open, status and worker, which the      *)
(* refinement mapping is put in for at the end.                            *)
Exclusive(op, st, wk) ==
    /\ op \in BOOLEAN
    /\ st \in [Callbacks -> {"new", "pending", "running", "parked", "done"}]
    /\ wk \in [Runners -> Callbacks \cup {None}]
    /\ \A c \in Callbacks : st[c] = "running" <=> \E t \in Runners : wk[t] = c
    /\ \A t, u \in Runners : wk[t] = wk[u] /\ wk[t] # None => t = u
    /\ ~op => /\ \A c \in Callbacks : st[c] \notin {"pending", "running"}
              /\ \A t \in Runners : wk[t] = None

LEMMA ExclusiveWaits ==
    ASSUME NEW op, NEW st, NEW wk, Exclusive(op, st, wk), op,
           NEW c \in Callbacks, st[c] \in {"new", "parked"}
    PROVE  Exclusive(op, [st EXCEPT ![c] = "pending"], wk)
BY DEF Exclusive

LEMMA ExclusiveTakes ==
    ASSUME NEW op, NEW st, NEW wk, Exclusive(op, st, wk), op,
           NEW c \in Callbacks, st[c] = "pending", NEW t \in Runners, wk[t] = None
    PROVE  Exclusive(op, [st EXCEPT ![c] = "running"], [wk EXCEPT ![t] = c])
BY SchedulerAssumption DEF Exclusive

LEMMA ExclusiveLeaves ==
    ASSUME NEW op, NEW st, NEW wk, Exclusive(op, st, wk),
           NEW t \in Runners, wk[t] # None, NEW s \in {"pending", "parked", "done"}
    PROVE  Exclusive(op, [st EXCEPT ![wk[t]] = s], [wk EXCEPT ![t] = None])
<1>1. wk[t] \in Callbacks /\ op
    BY DEF Exclusive
<1> QED
    BY <1>1, SchedulerAssumption DEF Exclusive

PoolOpen   == main # "stopped"
PoolStatus == [c \in Callbacks |-> StatusOf(c)]
PoolWorker == [t \in Runners |-> WorkerOf(t)]

PoolInv == Exclusive(PoolOpen, PoolStatus, PoolWorker)

LEMMA PoolInitInv == TP!PoolInit => PoolInv
<1> SUFFICES ASSUME TP!PoolInit PROVE PoolInv
    OBVIOUS
<1>1. /\ PoolOpen = TRUE
      /\ PoolStatus = [c \in Callbacks |-> "new"]
      /\ PoolWorker = [t \in Runners |-> None]
    BY DEF TP!PoolInit, PoolOpen, PoolStatus, PoolWorker
<1> QED
    BY <1>1, SchedulerAssumption DEF PoolInv, Exclusive

LEMMA PoolNextInv == PoolInv /\ [TP!PoolNext]_(TP!poolVars) => PoolInv'
<1> SUFFICES ASSUME PoolInv, [TP!PoolNext]_(TP!poolVars) PROVE PoolInv'
    OBVIOUS
<1> USE DEF PoolInv
<1>1. ASSUME NEW c \in Callbacks, TP!Submit(c) \/ TP!Wake(c) PROVE PoolInv'
  <2>1. /\ PoolOpen /\ PoolOpen' = PoolOpen
        /\ PoolStatus[c] \in {"new", "parked"}
        /\ PoolStatus' = [PoolStatus EXCEPT ![c] = "pending"]
        /\ PoolWorker' = PoolWorker
      BY <1>1 DEF TP!Submit, TP!Wake, TP!Becomes, PoolOpen, PoolStatus, PoolWorker
  <2> QED
      BY <2>1, ExclusiveWaits
<1>2. ASSUME NEW c \in Callbacks, NEW t \in Runners, TP!Take(t, c) PROVE PoolInv'
  <2>1. /\ PoolOpen /\ PoolOpen' = PoolOpen
        /\ PoolStatus[c] = "pending" /\ PoolWorker[t] = None
        /\ PoolStatus' = [PoolStatus EXCEPT ![c] = "running"]
        /\ PoolWorker' = [PoolWorker EXCEPT ![t] = c]
      BY <1>2 DEF TP!Take, TP!Becomes, PoolOpen, PoolStatus, PoolWorker
  <2> QED
      BY <2>1, ExclusiveTakes
<1>3. ASSUME NEW t \in Runners, NEW s \in {"pending", "parked", "done"}, TP!Leave(t, s)
      PROVE  PoolInv'
  <2>1. /\ PoolOpen' = PoolOpen /\ PoolWorker[t] # None
        /\ PoolStatus' = [PoolStatus EXCEPT ![PoolWorker[t]] = s]
        /\ PoolWorker' = [PoolWorker EXCEPT ![t] = None]
      BY <1>3 DEF TP!Leave, TP!Becomes, PoolOpen, PoolStatus, PoolWorker
  <2> QED
      BY <2>1, ExclusiveLeaves
<1>4. CASE TP!Close
  <2>1. /\ PoolOpen' = FALSE /\ PoolStatus' = PoolStatus /\ PoolWorker' = PoolWorker
        /\ \A c \in Callbacks : PoolStatus[c] \notin {"pending", "running"}
      BY <1>4 DEF TP!Close, PoolOpen, PoolStatus, PoolWorker
  <2> QED
      BY <2>1 DEF Exclusive
<1>5. CASE TP!Reopen
  <2>1. PoolOpen' = TRUE /\ PoolStatus' = PoolStatus /\ PoolWorker' = PoolWorker
      BY <1>5 DEF TP!Reopen, PoolOpen, PoolStatus, PoolWorker
  <2> QED
      BY <2>1 DEF Exclusive
<1>6. CASE UNCHANGED TP!poolVars
  <2>1. PoolOpen' = PoolOpen /\ PoolStatus' = PoolStatus /\ PoolWorker' = PoolWorker
      BY <1>6 DEF TP!poolVars, PoolOpen, PoolStatus, PoolWorker
  <2> QED
      BY <2>1
<1> QED
    BY <1>1, <1>2, <1>3, <1>4, <1>5, <1>6 DEF TP!PoolNext, TP!Yield, TP!Park, TP!Finish

(* In the task pool no two workers are ever in one task, a task counts as  *)
(* running just when a worker is in it, and a closed pool is quiet: what   *)
(* run(), schedule() and stop() owe to their callers.                      *)
THEOREM PoolIsExclusive ==
    TP!PoolSpec => [](TP!RunningIsHeld /\ TP!OneWorker /\ TP!ClosedIsQuiet)
<1>1. PoolInv => TP!RunningIsHeld /\ TP!OneWorker /\ TP!ClosedIsQuiet
    BY DEF PoolInv, Exclusive, PoolOpen, PoolStatus, PoolWorker,
           TP!RunningIsHeld, TP!OneWorker, TP!ClosedIsQuiet
<1> QED
    BY <1>1, PoolInitInv, PoolNextInv, PTL DEF TP!PoolSpec

(* So the scheduler itself keeps that promise: a callback counts as running *)
(* just when some thread is in it, no two threads are in one, and after     *)
(* stop() none is pending, running or in the hands of a thread.             *)
THEOREM PoolPromiseKept ==
    ASSUME PromptWake = FALSE, MaxDups = 0, Pins # "any", UseCaller => MaxStarts <= 1
    PROVE  Spec => [](TP!RunningIsHeld /\ TP!OneWorker /\ TP!ClosedIsQuiet)
BY SchedulerImplementsPool, PoolIsExclusive, PTL DEF ImplementsTaskPool
=============================================================================
