--------------------------- MODULE SchedulerProofs ---------------------------
(* Theorems about Scheduler, for any number of threads, fibers and tasks.   *)
EXTENDS SchedulerInvariant, SequenceTheorems, TLAPS

(* Erasing an entry of the list keeps the others, in their order. *)
LEMMA RemoveAtKeeps ==
    ASSUME NEW S, NEW s \in Seq(S), NEW i \in DOMAIN s
    PROVE  /\ RemoveAt(s, i) \in Seq(S)
           /\ DOMAIN RemoveAt(s, i) = 1 .. Len(s) - 1
           /\ \A j \in 1 .. Len(s) - 1 :
                 RemoveAt(s, i)[j] = IF j < i THEN s[j] ELSE s[j + 1]
<1> DEFINE a == SubSeq(s, 1, i - 1)
           b == SubSeq(s, i + 1, Len(s))
<1>1. i \in 1 .. Len(s) /\ Len(s) \in Nat
    OBVIOUS
<1>2. /\ a \in Seq(S) /\ Len(a) = i - 1
      /\ \A j \in 1 .. i - 1 : a[j] = s[j]
    BY <1>1
<1>3. /\ b \in Seq(S) /\ Len(b) = Len(s) - i
      /\ \A j \in 1 .. Len(s) - i : b[j] = s[i + j]
    BY <1>1
<1>4. RemoveAt(s, i) = a \o b
    BY DEF RemoveAt
<1> HIDE DEF a, b
<1>5. a \o b \in Seq(S) /\ Len(a \o b) = Len(s) - 1
    BY <1>1, <1>2, <1>3
<1>6. ASSUME NEW j \in 1 .. Len(s) - 1
      PROVE  (a \o b)[j] = IF j < i THEN s[j] ELSE s[j + 1]
  <2>1. CASE j < i
      BY <1>1, <1>2, <1>3, <2>1
  <2>2. CASE ~(j < i)
    <3>1. (a \o b)[j] = b[j - Len(a)]
      <4>1. j \in 1 .. Len(a) + Len(b) /\ j > Len(a)
          BY <1>1, <1>2, <1>3, <2>2
      <4>2. a \in Seq(S) /\ b \in Seq(S)
          BY <1>2, <1>3
      <4> QED
          BY <4>1, <4>2, ConcatProperties
    <3>2. b[j - (i - 1)] = s[i + (j - (i - 1))] /\ i + (j - (i - 1)) = j + 1
        BY <1>1, <1>3, <2>2
    <3> QED
        BY <3>1, <3>2, <2>2, <1>2
  <2> QED
      BY <2>1, <2>2
<1> QED
    BY <1>4, <1>5, <1>6

(* An entry added at the end of the list leaves the others where they are. *)
LEMMA AppendKeeps ==
    ASSUME NEW S, NEW s \in Seq(S), NEW e \in S
    PROVE  /\ Append(s, e) \in Seq(S)
           /\ DOMAIN Append(s, e) = 1 .. Len(s) + 1
           /\ DOMAIN s = 1 .. Len(s)
           /\ \A j \in 1 .. Len(s) : Append(s, e)[j] = s[j]
           /\ Append(s, e)[Len(s) + 1] = e
OBVIOUS

-----------------------------------------------------------------------------
TypeInv == TypeOK /\ TaskHasFiber

LEMMA NoItemType == NoItem \in Item
BY DEF NoItem, Item

LEMMA TypeInit == Init => TypeInv
<1> SUFFICES ASSUME Init PROVE TypeInv
    OBVIOUS
<1>1. m_fibers \in Seq(Item)
    BY DEF Init
<1>2. ft \in [Runners -> Item]
    BY NoItemType DEF Init
<1>3. main \in MainPC /\ failed \in Failures
    BY DEF Init, MainPC, Failures
<1>4. pc \in [Runners -> RunPC] /\ TaskHasFiber
    BY DEF Init, RunPC, InTask, TaskHasFiber
<1>5. m_state \in [Fibers -> FiberState]
    BY DEF Init, FiberState
<1>6. /\ m_cb \in [Fibers -> Callbacks \cup {None}]
      /\ onStack \in [Fibers -> SUBSET Runners]
      /\ cb_fiber \in [Runners -> Fibers \cup {None}]
    BY DEF Init
<1>7. /\ pin \in [Callbacks -> Runners \cup {AnyThread}]
      /\ started \in [Callbacks -> Nat]
      /\ yields \in [Callbacks -> Nat]
    BY DEF Init
<1>8. /\ m_activeThreadCount \in Int /\ m_idleThreadCount \in Int
      /\ starts \in Nat /\ dups \in Nat
    BY DEF Init
<1>10. m_stopping \in BOOLEAN /\ m_autoStop \in BOOLEAN
    BY Zenon DEF Init
<1>9. /\ idleTerm \subseteq Runners /\ waker \subseteq Fibers /\ handles \subseteq Fibers
      /\ scheduled \subseteq Callbacks /\ finished \subseteq Callbacks
    BY DEF Init
<1> QED
    BY <1>1, <1>2, <1>3, <1>4, <1>5, <1>6, <1>7, <1>8, <1>9, <1>10
    DEF TypeInv, TypeOK

(* What schedule() appends is an entry. *)
LEMMA ScheduleType ==
    ASSUME TypeOK, NEW item \in Item, Schedule(item)
    PROVE  m_fibers' \in Seq(Item)
BY AppendKeeps DEF TypeOK, Schedule

LEMMA ItemTypes ==
    /\ \A f \in Fibers, thr \in Runners \cup {AnyThread} : FiberItem(f, thr) \in Item
    /\ \A c \in Callbacks, thr \in Runners \cup {AnyThread} : CbItem(c, thr) \in Item
    /\ \A item \in Item : /\ item.fiber \in Fibers \cup {None}
                          /\ item.cb \in Callbacks \cup {None}
BY DEF FiberItem, CbItem, Item

LEMMA TypeRun ==
    ASSUME TypeInv, NEW t \in Runners, Run(t)
    PROVE  TypeInv'
<1> USE SchedulerAssumption
    DEF TypeInv, TypeOK, TaskHasFiber, RunPC, InTask, FiberState, Cur, Goto, Mark, Reset,
        ResetFt, ResetCb, ActiveDown, queueVars, stopVars, mainVars, fiberVars, histVars
<1>0. NoItem \in Item
    BY NoItemType
<1>1. CASE Pick(t)
  <2>1. PICK i \in DOMAIN m_fibers : ft' = [ft EXCEPT ![t] = m_fibers[i]] /\ Erase(i)
      BY <1>1 DEF Pick
  <2>2. m_fibers' \in Seq(Item) /\ m_fibers[i] \in Item
      BY <2>1, RemoveAtKeeps DEF Erase
  <2> QED
      BY <1>1, <2>1, <2>2 DEF Pick
<1>2. CASE PickNothing(t)
    BY <1>0, <1>2 DEF PickNothing
<1>3. CASE DispatchFiber(t)
    BY <1>3 DEF DispatchFiber, Item
<1>4. CASE DropEnded(t)
    BY <1>0, <1>4 DEF DropEnded
<1>5. CASE DispatchCb(t)
  <2>1. PICK f \in Fibers : /\ cb_fiber' = [cb_fiber EXCEPT ![t] = f]
                            /\ m_cb' = [m_cb EXCEPT ![f] = ft[t].cb]
                            /\ Mark(f, "INIT")
      BY <1>5 DEF DispatchCb, Reset
  <2>2. m_cb' \in [Fibers -> Callbacks \cup {None}] /\ m_state' \in [Fibers -> FiberState]
      BY <2>1, ItemTypes
  <2>3. ft'[t].fiber = None /\ cb_fiber'[t] \in Fibers
      BY <1>5, <2>1 DEF DispatchCb, NoItem
  <2>4. TaskHasFiber'
      BY <1>5, <2>1, <2>3 DEF DispatchCb
  <2> QED
      BY <1>0, <1>5, <2>1, <2>2, <2>4 DEF DispatchCb
<1>6. CASE SwapInCheck(t)
  <2>1. failed' \in Failures
      BY <1>6 DEF SwapInCheck, Failures
  <2>2. pc' \in [Runners -> RunPC] /\ TaskHasFiber'
      BY <1>6 DEF SwapInCheck
  <2> QED
      BY <1>6, <2>1, <2>2 DEF SwapInCheck
<1>7. CASE SwapIn(t)
    BY <1>7 DEF SwapIn
<1>8. CASE Return(t)
    BY <1>8 DEF Return
<1>9. CASE Throw(t)
    BY <1>9 DEF Throw
<1>10. CASE YieldToReady(t)
    BY <1>10 DEF YieldToReady, CountYield, MaySuspend
<1>11. CASE Arm(t)
    BY <1>11 DEF Arm, CountYield, MaySuspend
<1>12. CASE YieldToHold(t)
    BY <1>12 DEF YieldToHold
<1>13. CASE BodySchedule(t)
  <2>1. PinsOf(t) \subseteq Runners \cup {AnyThread}
      BY DEF PinsOf
  <2>2. PICK c \in Callbacks \ scheduled, thr \in Runners \cup {AnyThread} :
            Record(c, thr) /\ Schedule(CbItem(c, thr))
      BY <1>13, <2>1 DEF BodySchedule
  <2>3. m_fibers' \in Seq(Item)
      BY <2>2, ItemTypes, ScheduleType
  <2> QED
      BY <1>13, <2>2, <2>3 DEF BodySchedule, Record, runVars
<1>14. CASE BodyWake(t)
  <2>1. PICK f \in Fibers : waker' = waker \ {f} /\ Schedule(FiberItem(f, AnyThread))
      BY <1>14 DEF BodyWake
  <2>2. m_fibers' \in Seq(Item)
      BY <2>1, ItemTypes, ScheduleType
  <2> QED
      BY <1>14, <2>1, <2>2 DEF BodyWake, runVars
<1>15. CASE SwapOut(t)
    BY <1>15 DEF SwapOut
<1>16. CASE Deactivate(t)
    BY <1>16 DEF Deactivate
<1>17. CASE Requeue(t)
  <2>1. m_fibers' \in Seq(Item)
      BY <1>17, ItemTypes, ScheduleType DEF Requeue
  <2>2. /\ ft' \in [Runners -> Item] /\ pc' \in [Runners -> RunPC]
        /\ cb_fiber' \in [Runners -> Fibers \cup {None}]
      BY <1>0, <1>17 DEF Requeue
  <2>3. TaskHasFiber'
    <3>1. \A u \in Runners : u # t => Cur(u)' = Cur(u) /\ pc'[u] = pc[u]
        BY <1>17 DEF Requeue
    <3>2. pc'[t] = "loop"
        BY <1>17 DEF Requeue
    <3> QED
        BY <3>1, <3>2
  <2> QED
      BY <1>17, <2>1, <2>2, <2>3 DEF Requeue
<1>18. CASE LetGo(t)
  <2>1. failed' \in Failures
      BY <1>18 DEF LetGo, Failures
  <2>2. UNCHANGED <<pc, ft>> \/ (ResetFt(t) /\ Goto(t, "loop"))
    <3>1. CASE m_state[ft[t].fiber] = "EXEC"
        BY <1>18, <3>1, Zenon DEF LetGo
    <3>2. CASE m_state[ft[t].fiber] # "EXEC"
        BY <1>18, <3>2, Zenon DEF LetGo
    <3> QED
        BY <3>1, <3>2
  <2>3. UNCHANGED cb_fiber
      BY <1>18 DEF LetGo
  <2>4. ft' \in [Runners -> Item] /\ pc' \in [Runners -> RunPC] /\ TaskHasFiber'
    <3>1. CASE UNCHANGED <<pc, ft>>
        BY <2>3, <3>1
    <3>2. CASE ResetFt(t) /\ Goto(t, "loop")
        BY <1>0, <2>3, <3>2
    <3> QED
        BY <2>2, <3>1, <3>2
  <2> QED
      BY <1>18, <2>1, <2>4 DEF LetGo
<1>19. CASE KeepSpare(t)
    BY <1>19 DEF KeepSpare, Reset
<1>20. CASE HoldCb(t)
    BY <1>20 DEF HoldCb
<1>21. CASE EnterIdle(t)
    BY <1>21 DEF EnterIdle
<1>22. CASE IdleCheck(t)
    BY <1>22 DEF IdleCheck
<1>23. CASE LeaveIdle(t)
    BY <1>23 DEF LeaveIdle
<1>24. CASE ExitRun(t)
    BY <1>24 DEF ExitRun
<1> QED
    BY <1>1, <1>2, <1>3, <1>4, <1>5, <1>6, <1>7, <1>8, <1>9, <1>10, <1>11, <1>12,
       <1>13, <1>14, <1>15, <1>16, <1>17, <1>18, <1>19, <1>20, <1>21, <1>22, <1>23,
       <1>24 DEF Run, Body

LEMMA TypeMain ==
    ASSUME TypeInv, Main
    PROVE  TypeInv'
<1> USE SchedulerAssumption DEF TypeInv, TypeOK, queueVars, stopVars, mainVars,
        fiberVars, histVars, runVars
<1>1. CASE Start
  <2>1. pc' \in [Runners -> RunPC] /\ TaskHasFiber'
      BY <1>1 DEF Start, RunPC, InTask, TaskHasFiber, Cur
  <2>2. main' \in MainPC /\ starts' \in Nat
      BY <1>1 DEF Start, MainPC
  <2>3. m_stopping' \in BOOLEAN
      BY <1>1, Zenon DEF Start
  <2> QED
      BY <1>1, <2>1, <2>2, <2>3 DEF Start
<1>2. CASE MainScheduleCb
  <2>1. MainPins \subseteq Runners \cup {AnyThread}
      BY DEF MainPins
  <2>2. PICK c \in Callbacks \ scheduled, thr \in Runners \cup {AnyThread} :
            Record(c, thr) /\ Schedule(CbItem(c, thr))
      BY <1>2, <2>1 DEF MainScheduleCb
  <2>3. m_fibers' \in Seq(Item)
      BY <2>2, ItemTypes, ScheduleType
  <2>4. TaskHasFiber'
      BY <1>2 DEF MainScheduleCb, TaskHasFiber, Cur
  <2> QED
      BY <1>2, <2>2, <2>3, <2>4 DEF MainScheduleCb, Record
<1>3. CASE MainScheduleFiber
  <2>1. MainPins \subseteq Runners \cup {AnyThread}
      BY DEF MainPins
  <2>2. PICK c \in Callbacks \ scheduled, thr \in Runners \cup {AnyThread}, f \in Fibers :
           /\ Record(c, thr)
           /\ handles' = handles \cup {f}
           /\ m_cb' = [m_cb EXCEPT ![f] = c]
           /\ Mark(f, "INIT")
           /\ Schedule(FiberItem(f, thr))
      BY <1>3, <2>1 DEF MainScheduleFiber, Reset
  <2>3. m_fibers' \in Seq(Item)
      BY <2>2, ItemTypes, ScheduleType
  <2>4. TaskHasFiber'
      BY <1>3 DEF MainScheduleFiber, TaskHasFiber, Cur
  <2>5. m_state' \in [Fibers -> FiberState]
      BY <2>2 DEF Mark, Reset, FiberState
  <2> QED
      BY <1>3, <2>2, <2>3, <2>4, <2>5 DEF MainScheduleFiber, Record
<1>4. CASE MainScheduleAgain
  <2>1. PICK f \in Fibers : Schedule(FiberItem(f, AnyThread))
      BY <1>4 DEF MainScheduleAgain
  <2>2. m_fibers' \in Seq(Item)
      BY <2>1, ItemTypes, ScheduleType
  <2>3. TaskHasFiber'
      BY <1>4 DEF MainScheduleAgain, TaskHasFiber, Cur
  <2> QED
      BY <1>4, <2>2, <2>3 DEF MainScheduleAgain
<1>5. CASE MainWake
  <2>1. PICK f \in Fibers : waker' = waker \ {f} /\ Schedule(FiberItem(f, AnyThread))
      BY <1>5 DEF MainWake
  <2>2. m_fibers' \in Seq(Item)
      BY <2>1, ItemTypes, ScheduleType
  <2>3. TaskHasFiber'
      BY <1>5 DEF MainWake, TaskHasFiber, Cur
  <2> QED
      BY <1>5, <2>1, <2>2, <2>3 DEF MainWake
<1>6. CASE Stop
  <2>1. main' \in MainPC
      BY <1>6 DEF Stop, StopBegin, StopEarly, StopSet, StopCall, StopCallReturns,
                  StopJoin, MainPC
  <2>2. failed' \in Failures
      BY <1>6 DEF Stop, StopBegin, StopEarly, StopSet, StopCall, StopCallReturns,
                  StopJoin, Failures
  <2>3. pc' \in [Runners -> RunPC]
      BY <1>6 DEF Stop, StopBegin, StopEarly, StopSet, StopCall, StopCallReturns,
                  StopJoin, Goto, RunPC
  <2>4. TaskHasFiber'
      BY <1>6 DEF Stop, StopBegin, StopEarly, StopSet, StopCall, StopCallReturns,
                  StopJoin, Goto, RunPC, InTask, TaskHasFiber, Cur
  <2>5. m_stopping' \in BOOLEAN /\ m_autoStop' \in BOOLEAN
      BY <1>6, Zenon DEF Stop, StopBegin, StopEarly, StopSet, StopCall,
                         StopCallReturns, StopJoin
  <2>6. UNCHANGED <<queueVars, starts, dups, ft, cb_fiber, idleTerm, fiberVars, histVars>>
      BY <1>6 DEF Stop, StopBegin, StopEarly, StopSet, StopCall, StopCallReturns,
                  StopJoin
  <2> QED
      BY <2>1, <2>2, <2>3, <2>4, <2>5, <2>6
<1> QED
    BY <1>1, <1>2, <1>3, <1>4, <1>5, <1>6 DEF Main

LEMMA TypeNext == TypeInv /\ [Next]_vars => TypeInv'
<1> SUFFICES ASSUME TypeInv, [Next]_vars PROVE TypeInv'
    OBVIOUS
<1>1. CASE Main
    BY <1>1, TypeMain
<1>2. ASSUME NEW t \in Runners, Run(t) PROVE TypeInv'
    BY <1>2, TypeRun
<1>3. CASE UNCHANGED vars
    BY <1>3 DEF vars, TypeInv, TypeOK, TaskHasFiber, Cur, queueVars, stopVars,
                mainVars, runVars, fiberVars, histVars
<1> QED
    BY <1>1, <1>2, <1>3 DEF Next, Ended

(* Every variable of the scheduler keeps its type, whatever the threads,    *)
(* the bodies and the wakers do.                                            *)
THEOREM TypeCorrect == Spec => []TypeOK
<1>1. TypeInv => TypeOK
    BY DEF TypeInv
<1> QED
    BY <1>1, TypeInit, TypeNext, PTL DEF Spec

-----------------------------------------------------------------------------
(* schedule() puts its item behind the others. *)
LEMMA ScheduleAppends ==
    ASSUME TypeOK, NEW item \in Item, Schedule(item)
    PROVE  /\ DOMAIN m_fibers' = DOMAIN m_fibers \cup {Len(m_fibers) + 1}
           /\ Len(m_fibers) + 1 \notin DOMAIN m_fibers
           /\ \A i \in DOMAIN m_fibers : m_fibers'[i] = m_fibers[i]
           /\ m_fibers'[Len(m_fibers) + 1] = item
BY AppendKeeps DEF TypeOK, Schedule

(* A callback in the list concerns no fiber. *)
LEMMA ScheduleCbKeeps ==
    ASSUME SchedulerInv, NEW c \in Callbacks, NEW thr \in Runners \cup {AnyThread},
           Schedule(CbItem(c, thr)), UNCHANGED <<ft, cb_fiber, waker>>
    PROVE  QueuedOnce' /\ QueuedIsFree'
<1>1. CbItem(c, thr) \in Item /\ CbItem(c, thr).fiber = None
    BY ItemTypes DEF CbItem
<1> QED
    BY <1>1, ScheduleAppends
    DEF SchedulerInv, Ownership, QueuedOnce, QueuedIsFree, Holds

(* A fiber goes into the list when no thread, no entry and no waker has it. *)
LEMMA ScheduleFiberKeeps ==
    ASSUME SchedulerInv, NEW f \in Fibers, NEW thr \in Runners \cup {AnyThread},
           Schedule(FiberItem(f, thr)), ~Queued(f),
           \A t \in Runners : ~Holds(t, f)',
           \A t \in Runners, g \in Fibers : Holds(t, g)' => Holds(t, g),
           waker' \subseteq waker, f \notin waker'
    PROVE  QueuedOnce' /\ QueuedIsFree'
<1>1. FiberItem(f, thr) \in Item /\ FiberItem(f, thr).fiber = f
    BY ItemTypes DEF FiberItem
<1>2. \A i \in DOMAIN m_fibers : m_fibers[i].fiber \in Fibers \cup {None}
    BY ItemTypes DEF SchedulerInv, TypeOK
<1>3. \A i \in DOMAIN m_fibers : m_fibers[i].fiber # f
    BY DEF Queued
<1>4. QueuedOnce'
    BY <1>1, <1>3, ScheduleAppends DEF SchedulerInv, Ownership, QueuedOnce
<1>5. QueuedIsFree'
    BY <1>1, <1>2, ScheduleAppends DEF SchedulerInv, Ownership, QueuedIsFree
<1> QED
    BY <1>4, <1>5

(* A body that is running has given no waker its own fiber. *)
LEMMA BodyNotArmed ==
    ASSUME ArmedSuspends, NEW t \in Runners, pc[t] = "body", Holds(t, Cur(t))
    PROVE  Cur(t) \notin waker
BY DEF ArmedSuspends, Suspending

(* A fiber that yielded to READY is in the hands of its thread only. *)
LEMMA ReadyIsFree ==
    ASSUME SchedulerInv, NEW t \in Runners, pc[t] = "after", m_state[Cur(t)] = "READY"
    PROVE  Holds(t, Cur(t)) /\ Cur(t) \in Fibers /\ Cur(t) \notin waker /\ ~Queued(Cur(t))
<1>1. Cur(t) \in Fibers
    BY DEF SchedulerInv, Ownership, TaskHasFiber, InTask
<1>2. Holds(t, Cur(t))
    BY DEF Holds, Cur
<1>3. Cur(t) \notin waker
    BY <1>2 DEF SchedulerInv, Ownership, ArmedSuspends
<1>4. ~Queued(Cur(t))
    BY <1>1, <1>2, SchedulerAssumption DEF SchedulerInv, Ownership, QueuedIsFree, Queued
<1> QED
    BY <1>1, <1>2, <1>3, <1>4

(* Ownership is kept by every step of run(): the fiber a thread takes is    *)
(* nowhere else, and the thread gives it back in one place.                 *)
LEMMA OwnershipRun ==
    ASSUME PromptWake = FALSE, SchedulerInv, NEW t \in Runners, Run(t)
    PROVE  Ownership'
<1> USE DEF SchedulerInv, Ownership, QueuedOnce, QueuedIsFree, HeldOnce,
        ArmedSuspends, OnStackOfCur, TypeInv, TypeOK, TaskHasFiber, Holds, Cur,
        Suspending, InTask, Goto, Mark, Reset, ResetFt, ResetCb, queueVars, runVars, fiberVars
<1>0. TypeInv'
    BY TypeRun
<1>1. CASE Pick(t)
  <2>1. PICK i \in DOMAIN m_fibers : ft' = [ft EXCEPT ![t] = m_fibers[i]] /\ Erase(i)
      BY <1>1 DEF Pick
  <2>2. /\ DOMAIN m_fibers' = 1 .. Len(m_fibers) - 1
        /\ \A j \in DOMAIN m_fibers' :
              m_fibers'[j] = IF j < i THEN m_fibers[j] ELSE m_fibers[j + 1]
        /\ DOMAIN m_fibers = 1 .. Len(m_fibers) /\ Len(m_fibers) \in Nat
      BY <2>1, RemoveAtKeeps DEF Erase
  <2>3. \A j \in DOMAIN m_fibers' : \E k \in DOMAIN m_fibers :
            k # i /\ m_fibers'[j] = m_fibers[k] /\ (IF j < i THEN k = j ELSE k = j + 1)
      BY <2>2
  <2>4. QueuedOnce'
      BY <2>2, <2>3
  <2>5. QueuedIsFree'
      BY <1>1, <2>1, <2>3 DEF Pick
  <2>6. HeldOnce' /\ ArmedSuspends' /\ OnStackOfCur'
      BY <1>1, <2>1, ItemTypes DEF Pick
  <2> QED
      BY <1>0, <2>4, <2>5, <2>6
<1>2. CASE PickNothing(t)
    BY <1>0, <1>2, SchedulerAssumption DEF PickNothing, NoItem
<1>3. CASE DispatchFiber(t)
    BY <1>0, <1>3, SchedulerAssumption DEF DispatchFiber
<1>4. CASE DropEnded(t)
    BY <1>0, <1>4, SchedulerAssumption DEF DropEnded, NoItem
<1>5. CASE DispatchCb(t)
    BY <1>0, <1>5, SchedulerAssumption DEF DispatchCb, Fresh, NoItem, Queued
<1>6. CASE SwapInCheck(t)
  <2>1. /\ pc[t] = "enter"
        /\ UNCHANGED pc \/ Goto(t, "switch")
        /\ UNCHANGED <<m_fibers, ft, cb_fiber, fiberVars>>
    <3>1. CASE m_state[Cur(t)] = "EXEC"
        BY <1>6, <3>1, Zenon DEF SwapInCheck
    <3>2. CASE m_state[Cur(t)] # "EXEC"
        BY <1>6, <3>2, Zenon DEF SwapInCheck
    <3> QED
        BY <3>1, <3>2
  <2>2. CASE UNCHANGED pc
      BY <1>0, <2>1, <2>2
  <2>3. CASE Goto(t, "switch")
      BY <1>0, <2>1, <2>3
  <2> QED
      BY <2>1, <2>2, <2>3
<1>7. CASE SwapIn(t)
    BY <1>0, <1>7, SchedulerAssumption DEF SwapIn
<1>8. CASE Return(t)
    BY <1>0, <1>8, SchedulerAssumption DEF Return
<1>9. CASE Throw(t)
    BY <1>0, <1>9, SchedulerAssumption DEF Throw
<1>10. CASE YieldToReady(t)
  <2>1. Holds(t, Cur(t)) /\ Cur(t) \in Fibers /\ pc[t] = "body"
      BY <1>10 DEF YieldToReady, MaySuspend
  <2>2. Cur(t) \notin waker
      BY <2>1, BodyNotArmed DEF YieldToReady
  <2>3. QueuedOnce' /\ QueuedIsFree' /\ HeldOnce' /\ OnStackOfCur'
      BY <1>10, <2>1 DEF YieldToReady
  <2>4. ArmedSuspends'
      BY <1>10, <2>1, <2>2 DEF YieldToReady
  <2> QED
      BY <1>0, <2>3, <2>4
<1>11. CASE Arm(t)
    BY <1>0, <1>11, SchedulerAssumption DEF Arm
<1>12. CASE YieldToHold(t)
    BY <1>0, <1>12, SchedulerAssumption DEF YieldToHold
<1>13. CASE BodySchedule(t)
  <2>1. PinsOf(t) \subseteq Runners \cup {AnyThread}
      BY SchedulerAssumption DEF PinsOf
  <2>2. QueuedOnce' /\ QueuedIsFree'
      BY <1>13, <2>1, ScheduleCbKeeps DEF BodySchedule
  <2> QED
      BY <1>0, <1>13, <2>2 DEF BodySchedule
<1>14. CASE BodyWake(t)
  <2>1. PICK f \in Fibers :
           MayWake(f) /\ waker' = waker \ {f} /\ Schedule(FiberItem(f, AnyThread))
      BY <1>14 DEF BodyWake
  <2>2. \A u \in Runners : ~Holds(u, f)
      BY <2>1 DEF MayWake, Handling
  <2>3. ~Queued(f)
      BY <2>1, SchedulerAssumption DEF Queued, MayWake
  <2>4. QueuedOnce' /\ QueuedIsFree'
    <3>1. /\ UNCHANGED <<ft, cb_fiber>> /\ waker' \subseteq waker /\ f \notin waker'
          /\ AnyThread \in Runners \cup {AnyThread}
        BY <1>14, <2>1 DEF BodyWake
    <3>2. \A u \in Runners : ~Holds(u, f)' /\ \A g \in Fibers : Holds(u, g)' => Holds(u, g)
        BY <2>2, <3>1
    <3> HIDE DEF SchedulerInv, QueuedOnce, QueuedIsFree, Holds
    <3> QED
        BY <2>1, <2>3, <3>1, <3>2, ScheduleFiberKeeps
  <2> QED
      BY <1>0, <1>14, <2>1, <2>4 DEF BodyWake
<1>15. CASE SwapOut(t)
    BY <1>0, <1>15, SchedulerAssumption DEF SwapOut
<1>16. CASE Deactivate(t)
    BY <1>0, <1>16, SchedulerAssumption DEF Deactivate
<1>17. CASE Requeue(t)
  <2>1. /\ Holds(t, Cur(t)) /\ Cur(t) \in Fibers /\ Cur(t) \notin waker
        /\ UNCHANGED waker /\ ~Queued(Cur(t))
    <3>1. pc[t] = "after" /\ m_state[Cur(t)] = "READY" /\ UNCHANGED waker
        BY <1>17 DEF Requeue
    <3> HIDE DEF SchedulerInv, Queued, Holds, Cur
    <3> QED
        BY <3>1, ReadyIsFree
  <2>3. \A u \in Runners : \A g \in Fibers : Holds(u, g)' => Holds(u, g) /\ g # Cur(t)
      BY <1>17, <2>1, SchedulerAssumption DEF Requeue, NoItem
  <2>4. QueuedOnce' /\ QueuedIsFree'
    <3>1. Schedule(FiberItem(Cur(t), AnyThread)) /\ AnyThread \in Runners \cup {AnyThread}
        BY <1>17 DEF Requeue
    <3> HIDE DEF SchedulerInv, QueuedOnce, QueuedIsFree, Holds, Cur
    <3> QED
        BY <2>1, <2>3, <3>1, ScheduleFiberKeeps
  <2>5. HeldOnce' /\ ArmedSuspends' /\ OnStackOfCur'
      BY <1>17, <2>1, SchedulerAssumption DEF Requeue, NoItem
  <2> QED
      BY <1>0, <2>4, <2>5
<1>18. CASE LetGo(t)
  <2>1. /\ pc[t] = "after" /\ ft[t].fiber # None
        /\ UNCHANGED <<pc, ft>> \/ (ResetFt(t) /\ Goto(t, "loop"))
        /\ UNCHANGED <<m_fibers, cb_fiber, fiberVars>>
    <3>1. CASE m_state[ft[t].fiber] = "EXEC"
        BY <1>18, <3>1, Zenon DEF LetGo
    <3>2. CASE m_state[ft[t].fiber] # "EXEC"
        BY <1>18, <3>2, Zenon DEF LetGo
    <3> QED
        BY <3>1, <3>2
  <2>2. CASE UNCHANGED <<pc, ft>>
      BY <1>0, <2>1, <2>2
  <2>3. CASE ResetFt(t) /\ Goto(t, "loop")
    <3>1. QueuedOnce' /\ QueuedIsFree'
        BY <2>1, <2>3, SchedulerAssumption DEF NoItem
    <3>2. HeldOnce' /\ OnStackOfCur'
        BY <2>1, <2>3, SchedulerAssumption DEF NoItem
    <3>3. ArmedSuspends'
        BY <2>1, <2>3, SchedulerAssumption DEF NoItem
    <3> QED
        BY <1>0, <3>1, <3>2, <3>3
  <2> QED
      BY <2>1, <2>2, <2>3
<1>19. CASE KeepSpare(t)
    BY <1>0, <1>19, SchedulerAssumption DEF KeepSpare, Reset
<1>20. CASE HoldCb(t)
    BY <1>0, <1>20, SchedulerAssumption DEF HoldCb
<1>21. CASE EnterIdle(t)
    BY <1>0, <1>21, SchedulerAssumption DEF EnterIdle
<1>22. CASE IdleCheck(t)
    BY <1>0, <1>22, SchedulerAssumption DEF IdleCheck
<1>23. CASE LeaveIdle(t)
    BY <1>0, <1>23, SchedulerAssumption DEF LeaveIdle
<1>24. CASE ExitRun(t)
    BY <1>0, <1>24, SchedulerAssumption DEF ExitRun
<1> QED
    BY <1>1, <1>2, <1>3, <1>4, <1>5, <1>6, <1>7, <1>8, <1>9, <1>10, <1>11, <1>12,
       <1>13, <1>14, <1>15, <1>16, <1>17, <1>18, <1>19, <1>20, <1>21, <1>22, <1>23, <1>24
    DEF Run, Body

(* Threads that enter run() bring no fiber with them. *)
LEMMA OwnershipEntry ==
    ASSUME SchedulerInv, UNCHANGED <<m_fibers, ft, cb_fiber, m_state, onStack, waker>>,
           \A u \in Runners : pc'[u] = pc[u] \/ (Apart(u) /\ pc'[u] = "loop")
    PROVE  Ownership'
<1> USE DEF SchedulerInv, Ownership, Holds, Cur, Apart
<1>1. QueuedOnce' /\ QueuedIsFree'
    BY DEF QueuedOnce, QueuedIsFree
<1>2. HeldOnce'
    BY DEF HeldOnce, InTask
<1>3. ArmedSuspends'
    BY DEF ArmedSuspends, Suspending
<1>4. TaskHasFiber'
    BY DEF TaskHasFiber, InTask
<1>5. OnStackOfCur'
    BY DEF OnStackOfCur, TypeOK
<1> QED
    BY <1>1, <1>2, <1>3, <1>4, <1>5

(* start() and stop() move a thread only into run(), from outside. *)
LEMMA TurnsGo ==
    ASSUME TypeOK, Phases, Start \/ Stop
    PROVE  \A u \in Runners : pc'[u] = pc[u] \/ (Apart(u) /\ pc'[u] = "loop")
<1>1. pc \in [Runners -> RunPC] /\ Phases
    BY DEF TypeOK
<1>2. CASE Start
    BY <1>1, <1>2 DEF Start, Phases
<1>3. CASE StopCall
  <2>1. CASE pc[Root] = "exited" \/ Stopping
      BY <2>1, <1>3 DEF StopCall
  <2>2. CASE ~Stopping /\ pc[Root] # "exited"
    <3>1. pc' = [pc EXCEPT ![Root] = "loop"] /\ main = "call"
        BY <1>3, <2>2 DEF StopCall, Goto
    <3> QED
        BY <1>1, <3>1 DEF Phases
  <2> QED
      BY <2>1, <2>2
<1>4. CASE StopBegin \/ StopEarly \/ StopSet \/ StopCallReturns \/ StopJoin
    BY <1>4 DEF StopBegin, StopEarly, StopSet, StopCallReturns, StopJoin, runVars
<1> QED
    BY <1>2, <1>3, <1>4 DEF Stop

LEMMA OwnershipMain ==
    ASSUME PromptWake = FALSE, MaxDups = 0, SchedulerInv, Main
    PROVE  Ownership'
<1> USE DEF SchedulerInv, Ownership, QueuedOnce, QueuedIsFree, HeldOnce,
        ArmedSuspends, OnStackOfCur, TypeInv, TypeOK, TaskHasFiber, Holds, Cur,
        Suspending, InTask, Goto, Mark, Reset, queueVars, runVars, fiberVars
<1>0. TypeInv'
    BY TypeMain
<1>1. CASE Start
  <2>1. UNCHANGED <<m_fibers, ft, cb_fiber, m_state, onStack, waker>>
      BY <1>1 DEF Start
  <2>2. TypeOK /\ Phases
      OBVIOUS
  <2> HIDE DEF SchedulerInv, Ownership, TypeOK
  <2> QED
      BY <1>1, <2>1, <2>2, TurnsGo, OwnershipEntry
<1>2. CASE MainScheduleCb
  <2>1. MainPins \subseteq Runners \cup {AnyThread}
      BY DEF MainPins
  <2>2. QueuedOnce' /\ QueuedIsFree'
      BY <1>2, <2>1, ScheduleCbKeeps DEF MainScheduleCb
  <2> QED
      BY <1>0, <1>2, <2>2 DEF MainScheduleCb
<1>3. CASE MainScheduleFiber
  <2>1. MainPins \subseteq Runners \cup {AnyThread}
      BY DEF MainPins
  <2>2. PICK thr \in Runners \cup {AnyThread}, f \in Fibers :
           Fresh(f) /\ Mark(f, "INIT") /\ Schedule(FiberItem(f, thr))
      BY <1>3, <2>1 DEF MainScheduleFiber, Reset
  <2>3. /\ ~Queued(f) /\ f \notin waker' /\ waker' \subseteq waker
        /\ \A u \in Runners : ~Holds(u, f)'
        /\ \A u \in Runners, g \in Fibers : Holds(u, g)' => Holds(u, g)
      BY <1>3, <2>2 DEF MainScheduleFiber, Fresh
  <2>4. QueuedOnce' /\ QueuedIsFree'
    <3> HIDE DEF SchedulerInv, QueuedOnce, QueuedIsFree, Holds
    <3> QED
        BY <2>2, <2>3, ScheduleFiberKeeps
  <2>5. HeldOnce' /\ OnStackOfCur'
      BY <1>3 DEF MainScheduleFiber, Reset
  <2>6. ArmedSuspends'
      BY <1>3, <2>2 DEF MainScheduleFiber, Fresh
  <2> QED
      BY <1>0, <2>4, <2>5, <2>6
<1>4. CASE MainScheduleAgain
    BY <1>4, SchedulerAssumption DEF MainScheduleAgain
<1>5. CASE MainWake
  <2>1. PICK f \in Fibers :
           MayWake(f) /\ waker' = waker \ {f} /\ Schedule(FiberItem(f, AnyThread))
      BY <1>5 DEF MainWake
  <2>2. \A u \in Runners : ~Holds(u, f)
      BY <2>1 DEF MayWake, Handling
  <2>3. ~Queued(f)
      BY <2>1, SchedulerAssumption DEF Queued, MayWake
  <2>4. QueuedOnce' /\ QueuedIsFree'
    <3>1. /\ UNCHANGED <<ft, cb_fiber>> /\ waker' \subseteq waker /\ f \notin waker'
          /\ AnyThread \in Runners \cup {AnyThread}
        BY <1>5, <2>1 DEF MainWake
    <3>2. \A u \in Runners : ~Holds(u, f)' /\ \A g \in Fibers : Holds(u, g)' => Holds(u, g)
        BY <2>2, <3>1
    <3> HIDE DEF SchedulerInv, QueuedOnce, QueuedIsFree, Holds
    <3> QED
        BY <2>1, <2>3, <3>1, <3>2, ScheduleFiberKeeps
  <2> QED
      BY <1>0, <1>5, <2>1, <2>4 DEF MainWake
<1>6. CASE Stop
  <2>1. UNCHANGED <<m_fibers, ft, cb_fiber, m_state, onStack, waker>>
      BY <1>6 DEF Stop, StopBegin, StopEarly, StopSet, StopCall, StopCallReturns, StopJoin
  <2>2. TypeOK /\ Phases
      OBVIOUS
  <2> HIDE DEF SchedulerInv, Ownership, TypeOK
  <2> QED
      BY <1>6, <2>1, <2>2, TurnsGo, OwnershipEntry
<1> QED
    BY <1>1, <1>2, <1>3, <1>4, <1>5, <1>6 DEF Main

-----------------------------------------------------------------------------
(* The turns of Root and the pool are kept. *)
LEMMA PhasesInit == Init => Phases
BY DEF Init, Phases, Apart, Runners

LEMMA PhasesRun ==
    ASSUME TypeInv, Phases, NEW t \in Runners, Run(t)
    PROVE  Phases'
<1>1. /\ ~Apart(t)
      /\ \A u \in Runners \ {t} : pc'[u] = pc[u]
      /\ UNCHANGED <<main, m_stopping>>
    BY DEF Run, Body, Pick, PickNothing, DispatchFiber, DropEnded, DispatchCb,
           SwapInCheck, SwapIn, Return, Throw, YieldToReady, Arm, YieldToHold,
           BodySchedule, BodyWake, SwapOut, Deactivate, Requeue, LetGo, KeepSpare,
           HoldCb, EnterIdle, IdleCheck, LeaveIdle, ExitRun, Goto, Apart, MaySuspend,
           stopVars, mainVars, runVars, TypeInv, TypeOK
<1> QED
    BY <1>1 DEF Phases, Apart, Runners, TypeInv, TypeOK

LEMMA PhasesMain ==
    ASSUME TypeInv, Phases, Main
    PROVE  Phases'
<1> USE DEF Phases, Apart, TypeInv, TypeOK, stopVars, mainVars, runVars, Runners
<1>1. CASE Start
    BY <1>1, SchedulerAssumption DEF Start
<1>2. CASE MainScheduleCb \/ MainScheduleFiber \/ MainScheduleAgain \/ MainWake
    BY <1>2 DEF MainScheduleCb, MainScheduleFiber, MainScheduleAgain, MainWake
<1>3. CASE StopBegin
    BY <1>3 DEF StopBegin
<1>4. CASE StopEarly
    BY <1>4 DEF StopEarly
<1>5. CASE StopSet
    BY <1>5 DEF StopSet
<1>6. CASE StopCall
    BY <1>6, SchedulerAssumption DEF StopCall, Goto
<1>7. CASE StopCallReturns
    BY <1>7 DEF StopCallReturns
<1>8. CASE StopJoin
    BY <1>8 DEF StopJoin, PoolJoined
<1> QED
    BY <1>1, <1>2, <1>3, <1>4, <1>5, <1>6, <1>7, <1>8 DEF Main, Stop

LEMMA PhasesNext == TypeInv /\ Phases /\ [Next]_vars => Phases'
<1> SUFFICES ASSUME TypeInv, Phases, [Next]_vars PROVE Phases'
    OBVIOUS
<1>1. CASE UNCHANGED vars
    BY <1>1 DEF vars, Phases, Apart, stopVars, mainVars, runVars
<1> QED
    BY <1>1, PhasesRun, PhasesMain DEF Next, Ended

-----------------------------------------------------------------------------
LEMMA OwnershipInit == Init => Ownership
BY SchedulerAssumption
   DEF Init, Ownership, QueuedOnce, QueuedIsFree, HeldOnce, ArmedSuspends,
       TaskHasFiber, OnStackOfCur, InTask, NoItem, Holds

LEMMA SchedulerInvNext ==
    ASSUME PromptWake = FALSE, MaxDups = 0
    PROVE  SchedulerInv /\ [Next]_vars => SchedulerInv'
<1> SUFFICES ASSUME SchedulerInv, [Next]_vars PROVE SchedulerInv'
    OBVIOUS
<1>1. TypeInv /\ TypeInv'
    BY TypeNext DEF SchedulerInv, TypeInv, Ownership
<1>2. CASE Main
    BY <1>1, <1>2, PhasesMain, OwnershipMain DEF SchedulerInv, TypeInv
<1>3. ASSUME NEW t \in Runners, Run(t) PROVE SchedulerInv'
    BY <1>1, <1>3, PhasesRun, OwnershipRun DEF SchedulerInv, TypeInv
<1>4. CASE UNCHANGED vars
    BY <1>4 DEF vars, SchedulerInv, TypeOK, Phases, Apart, Ownership, QueuedOnce,
                QueuedIsFree, HeldOnce, ArmedSuspends, TaskHasFiber, OnStackOfCur,
                Holds, Cur, queueVars, stopVars, mainVars, runVars, fiberVars, histVars
<1> QED
    BY <1>2, <1>3, <1>4 DEF Next, Ended

(* When wakers fire only after a fiber was put away and no Fiber::ptr is    *)
(* scheduled twice, every fiber has one place and a thread is on a stack    *)
(* only while the fiber is its own.                                         *)
THEOREM OwnershipHolds ==
    ASSUME PromptWake = FALSE, MaxDups = 0
    PROVE  Spec => []SchedulerInv
<1>1. Init => SchedulerInv
    BY TypeInit, PhasesInit, OwnershipInit DEF SchedulerInv, TypeInv
<1> QED
    BY <1>1, SchedulerInvNext, PTL DEF Spec

(* Under the same two assumptions, no two threads ever execute on the       *)
(* stack of one fiber (run(), swapIn() and swapOut()).                      *)
THEOREM StackIsExclusive ==
    ASSUME PromptWake = FALSE, MaxDups = 0
    PROVE  Spec => []ExclusiveStack
<1>1. SchedulerInv => ExclusiveStack
    BY SchedulerAssumption
    DEF SchedulerInv, TypeOK, Ownership, OnStackOfCur, HeldOnce, Holds, Cur,
        ExclusiveStack
<1> QED
    BY <1>1, OwnershipHolds, PTL
=============================================================================
