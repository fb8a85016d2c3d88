------------------------- MODULE SchedulerTaskProofs -------------------------
(* What run(), schedule() and stop() do with the tasks, for any number of   *)
(* threads, fibers and callbacks: none is lost or doubled, no assertion     *)
(* fails, and stop() leaves nothing behind.                                 *)
EXTENDS SchedulerProofs, FiniteSetTheorems

(* The parts of a thread's own state. *)
Same(t) == pc'[t] = pc[t] /\ ft'[t] = ft[t] /\ cb_fiber'[t] = cb_fiber[t]

(* Erasing an entry leaves the others. *)
LEMMA EraseKeeps ==
    ASSUME TypeOK, NEW i \in DOMAIN m_fibers, Erase(i)
    PROVE  /\ \A j \in DOMAIN m_fibers' : \E k \in DOMAIN m_fibers \ {i} :
                 m_fibers'[j] = m_fibers[k]
           /\ \A j, k \in DOMAIN m_fibers' : j # k => \E a, b \in DOMAIN m_fibers :
                 a # b /\ m_fibers'[j] = m_fibers[a] /\ m_fibers'[k] = m_fibers[b]
           /\ \A k \in DOMAIN m_fibers \ {i} : \E j \in DOMAIN m_fibers' : m_fibers'[j] = m_fibers[k]
<1>1. /\ DOMAIN m_fibers' = 1 .. Len(m_fibers) - 1
      /\ \A j \in 1 .. Len(m_fibers) - 1 :
            m_fibers'[j] = IF j < i THEN m_fibers[j] ELSE m_fibers[j + 1]
      /\ DOMAIN m_fibers = 1 .. Len(m_fibers) /\ Len(m_fibers) \in Nat
    BY RemoveAtKeeps DEF Erase, TypeOK
<1>2. \A j \in DOMAIN m_fibers' : \E k \in DOMAIN m_fibers \ {i} :
         m_fibers'[j] = m_fibers[k] /\ (IF j < i THEN k = j ELSE k = j + 1)
    BY <1>1
<1>3. ASSUME NEW k \in DOMAIN m_fibers \ {i}
      PROVE  \E j \in DOMAIN m_fibers' : m_fibers'[j] = m_fibers[k]
  <2>1. CASE k < i
      BY <1>1, <2>1
  <2>2. CASE ~(k < i)
    <3>1. k - 1 \in DOMAIN m_fibers' /\ ~(k - 1 < i) /\ (k - 1) + 1 = k
        BY <1>1, <2>2
    <3> QED
        BY <1>1, <3>1
  <2> QED
      BY <2>1, <2>2
<1>4. ASSUME NEW j \in DOMAIN m_fibers', NEW k \in DOMAIN m_fibers', j # k
      PROVE  \E a, b \in DOMAIN m_fibers :
                a # b /\ m_fibers'[j] = m_fibers[a] /\ m_fibers'[k] = m_fibers[b]
  <2>1. PICK a \in DOMAIN m_fibers : m_fibers'[j] = m_fibers[a] /\ (IF j < i THEN a = j ELSE a = j + 1)
      BY <1>2
  <2>2. PICK b \in DOMAIN m_fibers : m_fibers'[k] = m_fibers[b] /\ (IF k < i THEN b = k ELSE b = k + 1)
      BY <1>2
  <2>3. a # b
      BY <1>1, <1>4, <2>1, <2>2
  <2> QED
      BY <2>1, <2>2, <2>3
<1> QED
    BY <1>2, <1>3, <1>4

(* A fiber in a thread's hands is with that thread only. *)
LEMMA InHandAlone ==
    ASSUME SchedulerInv, NEW t \in Runners, NEW f \in Fibers, InHand(t, f)
    PROVE  /\ Holds(t, f) /\ ~Queued(f)
           /\ \A u \in Runners \ {t} : ~Holds(u, f) /\ ~InHand(u, f)
           /\ \A i \in DOMAIN m_fibers : m_fibers[i].fiber # f
<1>1. \A u \in Runners : InHand(u, f) => Holds(u, f)
    BY DEF InHand, Handling, Holds, Cur
<1>2. \A i \in DOMAIN m_fibers : m_fibers[i].fiber # f
    BY <1>1, SchedulerAssumption DEF SchedulerInv, Ownership, QueuedIsFree
<1> QED
    BY <1>1, <1>2 DEF Queued, SchedulerInv, Ownership, HeldOnce

(* Inside a task the fiber in hand is Cur(t). *)
LEMMA InTaskHand ==
    ASSUME SchedulerInv, NEW t \in Runners, pc[t] \in InTask
    PROVE  /\ Cur(t) \in Fibers /\ InHand(t, Cur(t))
           /\ \A f \in Fibers : InHand(t, f) => f = Cur(t)
BY DEF SchedulerInv, Ownership, TaskHasFiber, InHand, Handling, InTask

(* A step with a fiber in hand that changes at most that fiber. *)
LEMMA InTaskLife ==
    ASSUME SchedulerInv, FiberLife, NEW t \in Runners, NEW f \in Fibers, Cur(t) = f,
           InHand(t, f), pc'[t] \in InTask,
           ft' = ft, cb_fiber' = cb_fiber, m_fibers' = m_fibers,
           \A u \in Runners \ {t} : pc'[u] = pc[u],
           \A g \in Fibers \ {f} : /\ m_state'[g] = m_state[g] /\ m_cb'[g] = m_cb[g]
                                   /\ Live(g)' = Live(g) /\ (g \in waker' <=> g \in waker),
           waker' \subseteq Fibers,
           f \in waker' => Live(f)',
           Fits(t, f)'
    PROVE  FiberLife'
<1>1. \A g \in Fibers : InHand(t, g) => g = f
    BY DEF InHand, Handling, InTask
<1>2. /\ \A u \in Runners \ {t} : ~Holds(u, f) /\ ~InHand(u, f)
      /\ \A i \in DOMAIN m_fibers : m_fibers[i].fiber # f
    BY InHandAlone
<1>3. /\ \A u \in Runners, g \in Fibers : Holds(u, g)' = Holds(u, g)
      /\ \A u \in Runners : Cur(u)' = Cur(u)
    BY DEF Holds, Cur
<1>4. \A u \in Runners, g \in Fibers : InHand(u, g)' = InHand(u, g)
    BY <1>1, <1>3 DEF InHand, Handling, InTask
<1>5. \A i \in DOMAIN m_fibers : m_fibers[i].fiber \in Fibers \cup {None}
    BY ItemTypes DEF SchedulerInv, TypeOK
<1>6. EntriesNameOne'
    BY SchedulerAssumption DEF FiberLife, EntriesNameOne, NamesOne, InTask, InHand, Handling
<1>7. QueuedWaits'
    BY <1>2, <1>5 DEF FiberLife, QueuedWaits
<1>8. InHandFits'
  <2> SUFFICES ASSUME NEW u \in Runners, NEW g \in Fibers, InHand(u, g)' PROVE Fits(u, g)'
      BY DEF InHandFits
  <2>1. CASE u = t
      BY <2>1, <1>1, <1>3, <1>4
  <2>2. CASE u # t
    <3>1. g # f /\ InHand(u, g) /\ Fits(u, g)
        BY <2>2, <1>2, <1>4 DEF FiberLife, InHandFits
    <3> QED
        BY <2>2, <3>1 DEF Fits
  <2> QED
      BY <2>1, <2>2
<1>9. ArmedHolds'
    BY <1>2, <1>3, InHandAlone DEF FiberLife, ArmedHolds
<1>10. SpareIsEmpty'
  <2> SUFFICES ASSUME NEW u \in Runners, cb_fiber[u] # None, ~Handling(u, cb_fiber[u])'
               PROVE  m_cb'[cb_fiber[u]] = None /\ m_state'[cb_fiber[u]] = "INIT"
      BY DEF SpareIsEmpty
  <2>1. cb_fiber[u] \in Fibers
      BY DEF SchedulerInv, TypeOK
  <2>2. cb_fiber[u] # f
      BY <2>1, <1>2, <1>3 DEF Holds, Handling
  <2>3. ~Handling(u, cb_fiber[u])
      BY <2>1, <2>2, <1>1, <1>3 DEF Handling, InHand
  <2> QED
      BY <2>1, <2>2, <2>3 DEF FiberLife, SpareIsEmpty
<1>11. LiveIsPlaced'
    BY <1>4 DEF FiberLife, LiveIsPlaced, Queued
<1> QED
    BY <1>6, <1>7, <1>8, <1>9, <1>10, <1>11 DEF FiberLife

(* A step outside the tasks: no fiber changes hands, but that a thread may  *)
(* drop its spare.                                                          *)
LEMMA QuietLife ==
    ASSUME SchedulerInv, FiberLife,
           UNCHANGED <<m_fibers, m_state, m_cb, waker, finished>>,
           \A u \in Runners :
              Same(u) \/ /\ pc[u] \notin {"got"} \cup InTask
                         /\ pc'[u] \notin {"got"} \cup InTask
                         /\ ft'[u].fiber = None /\ ft'[u].cb = None
                         /\ cb_fiber'[u] \in {cb_fiber[u], None}
    PROVE  FiberLife'
<1>1. \A u \in Runners : pc[u] \notin {"got"} \cup InTask => ft[u].fiber = None
    BY DEF SchedulerInv, Ownership, HeldOnce
<1>2. \A u \in Runners, g \in Fibers : InHand(u, g)' = InHand(u, g)
    BY DEF InHand, Handling, Cur, Same
<1>3. EntriesNameOne'
    BY DEF FiberLife, EntriesNameOne, NamesOne, Same
<1>4. QueuedWaits'
    BY DEF FiberLife, QueuedWaits, Live
<1>5. InHandFits'
  <2> SUFFICES ASSUME NEW u \in Runners, NEW g \in Fibers, InHand(u, g)' PROVE Fits(u, g)'
      BY DEF InHandFits
  <2>1. InHand(u, g) /\ Fits(u, g) /\ pc'[u] = pc[u]
      BY <1>2 DEF FiberLife, InHandFits, InHand, Handling, Same
  <2> QED
      BY <2>1 DEF Fits, Live
<1>6. ArmedHolds'
  <2> SUFFICES ASSUME NEW f \in waker, \A u \in Runners : ~Holds(u, f)'
               PROVE  m_state[f] = "HOLD"
      BY DEF FiberLife, ArmedHolds, Live
  <2>1. ASSUME NEW u \in Runners, Holds(u, f) PROVE FALSE
    <3>1. pc[u] \in InTask
        BY <2>1 DEF SchedulerInv, Ownership, ArmedSuspends, Suspending, InTask
    <3> QED
        BY <2>1, <3>1 DEF Holds, Same
  <2> QED
      BY <2>1 DEF FiberLife, ArmedHolds
<1>7. SpareIsEmpty'
    BY SchedulerAssumption DEF FiberLife, SpareIsEmpty, Same, Handling, Cur
<1>8. LiveIsPlaced'
    BY <1>2 DEF FiberLife, LiveIsPlaced, Queued, Live
<1> QED
    BY <1>3, <1>4, <1>5, <1>6, <1>7, <1>8 DEF FiberLife

(* schedule(): an entry is added, for a callback, or for a fiber that is in *)
(* nobody's hands and has a task to run.                                    *)
LEMMA ScheduleLife ==
    ASSUME SchedulerInv, FiberLife, NEW item \in Item, Schedule(item), NamesOne(item),
           item.fiber # None => /\ m_state'[item.fiber] \in Waiting /\ Live(item.fiber)'
                                /\ \A u \in Runners : ~Holds(u, item.fiber)
                                /\ ~Queued(item.fiber),
           UNCHANGED <<pc, ft, cb_fiber>>, waker' = waker \ {item.fiber},
           \A g \in Fibers \ {item.fiber} :
              m_state'[g] = m_state[g] /\ m_cb'[g] = m_cb[g] /\ Live(g)' = Live(g)
    PROVE  FiberLife'
<1>1. /\ DOMAIN m_fibers' = DOMAIN m_fibers \cup {Len(m_fibers) + 1}
      /\ \A i \in DOMAIN m_fibers : m_fibers'[i] = m_fibers[i]
      /\ m_fibers'[Len(m_fibers) + 1] = item
    BY ScheduleAppends DEF SchedulerInv
<1>2. \A i \in DOMAIN m_fibers : m_fibers[i].fiber \in Fibers \cup {None}
    BY ItemTypes DEF SchedulerInv, TypeOK
<1>3. \A u \in Runners, g \in Fibers : /\ InHand(u, g)' = InHand(u, g)
                                       /\ InHand(u, g) => Holds(u, g)
    BY DEF InHand, Handling, Cur, Holds
<1>4. EntriesNameOne'
    BY <1>1 DEF FiberLife, EntriesNameOne, NamesOne
<1>5. QueuedWaits'
    BY <1>1, <1>2 DEF FiberLife, QueuedWaits, Queued
<1>6. InHandFits'
  <2> SUFFICES ASSUME NEW u \in Runners, NEW g \in Fibers, InHand(u, g)' PROVE Fits(u, g)'
      BY DEF InHandFits
  <2>1. InHand(u, g) /\ Fits(u, g) /\ g # item.fiber
      BY <1>3, SchedulerAssumption DEF FiberLife, InHandFits
  <2> QED
      BY <2>1 DEF Fits
<1>7. ArmedHolds'
    BY DEF FiberLife, ArmedHolds, Holds, SchedulerInv, TypeOK
<1>8. SpareIsEmpty'
    BY SchedulerAssumption DEF FiberLife, SpareIsEmpty, Handling, Cur, Holds, SchedulerInv, TypeOK
<1>9. LiveIsPlaced'
    BY <1>1, <1>3 DEF FiberLife, LiveIsPlaced, Queued
<1> QED
    BY <1>4, <1>5, <1>6, <1>7, <1>8, <1>9 DEF FiberLife

(* A thread puts down the fiber it was in. *)
LEMMA PutDownLife ==
    ASSUME SchedulerInv, FiberLife, NEW t \in Runners, NEW f \in Fibers,
           Cur(t) = f, pc[t] = "after", pc'[t] = "loop",
           \A u \in Runners \ {t} : Same(u),
           ft'[t].fiber = None, ft'[t].cb = None,
           ft[t].fiber # None => cb_fiber'[t] = cb_fiber[t],
           ft[t].fiber = None => cb_fiber'[t] \in {cb_fiber[t], None},
           cb_fiber'[t] = f => m_cb'[f] = None /\ m_state'[f] = "INIT",
           \A g \in Fibers \ {f} : /\ m_state'[g] = m_state[g] /\ m_cb'[g] = m_cb[g]
                                        /\ Live(g)' = Live(g),
           UNCHANGED waker,
           f \in waker => Live(f)' /\ m_state'[f] = "HOLD",
           Live(f)' => Queued(f)' \/ f \in waker,
           UNCHANGED m_fibers
           \/ (/\ Schedule(FiberItem(f, AnyThread))
               /\ m_state'[f] \in Waiting /\ Live(f)')
    PROVE  FiberLife'
<1>1. InHand(t, f) /\ \A g \in Fibers : InHand(t, g) => g = f
    BY InTaskHand DEF InTask
<1>2. /\ \A u \in Runners \ {t} : ~Holds(u, f) /\ ~InHand(u, f)
      /\ \A i \in DOMAIN m_fibers : m_fibers[i].fiber # f
    BY <1>1, InHandAlone
<1>3. \A i \in DOMAIN m_fibers : m_fibers[i].fiber \in Fibers \cup {None}
    BY ItemTypes DEF SchedulerInv, TypeOK
<1>4. \A i \in DOMAIN m_fibers' :
         \/ i \in DOMAIN m_fibers /\ m_fibers'[i] = m_fibers[i]
         \/ /\ m_fibers'[i] = FiberItem(f, AnyThread)
            /\ m_state'[f] \in Waiting /\ Live(f)'
    BY <1>1, ItemTypes, ScheduleAppends DEF SchedulerInv
<1>5. \A i \in DOMAIN m_fibers : i \in DOMAIN m_fibers' /\ m_fibers'[i] = m_fibers[i]
    BY <1>1, ItemTypes, ScheduleAppends DEF SchedulerInv
<1>6. FiberItem(f, AnyThread).fiber = f /\ FiberItem(f, AnyThread).cb = None
    BY DEF FiberItem
<1>7. \A u \in Runners, g \in Fibers : InHand(u, g)' => u # t /\ InHand(u, g)
    BY DEF InHand, Handling, InTask, Same, Cur
<1>8. \A u \in Runners, g \in Fibers : InHand(u, g) /\ u # t => InHand(u, g)'
    BY DEF InHand, Handling, InTask, Same, Cur
<1>9. EntriesNameOne'
    BY <1>1, <1>4, <1>6, SchedulerAssumption DEF FiberLife, EntriesNameOne, NamesOne, Same
<1>10. QueuedWaits'
  <2> SUFFICES ASSUME NEW i \in DOMAIN m_fibers', m_fibers'[i].fiber # None
               PROVE  (m_state[m_fibers[i].fiber] \in Waiting /\ Live(m_fibers[i].fiber))'
      BY DEF QueuedWaits
  <2>1. CASE i \in DOMAIN m_fibers /\ m_fibers'[i] = m_fibers[i]
      BY <2>1, <1>2, <1>3 DEF FiberLife, QueuedWaits
  <2>2. CASE m_fibers'[i] = FiberItem(f, AnyThread) /\ m_state'[f] \in Waiting /\ Live(f)'
      BY <2>2, <1>6
  <2> QED
      BY <1>4, <2>1, <2>2
<1>11. InHandFits'
  <2> SUFFICES ASSUME NEW u \in Runners, NEW g \in Fibers, InHand(u, g)' PROVE Fits(u, g)'
      BY DEF InHandFits
  <2>1. u # t /\ InHand(u, g) /\ Fits(u, g) /\ g # f
      BY <1>2, <1>7 DEF FiberLife, InHandFits
  <2> QED
      BY <2>1 DEF Fits, Same
<1>12. ArmedHolds'
  <2> SUFFICES ASSUME NEW g \in waker, g # f
               PROVE  Live(g) /\ ((\A u \in Runners : ~Holds(u, g)') => m_state[g] = "HOLD")
      BY <1>1 DEF ArmedHolds, SchedulerInv, TypeOK
  <2>1. ~Holds(t, g)
      BY <1>1 DEF SchedulerInv, Ownership, ArmedSuspends
  <2>2. \A u \in Runners \ {t} : Holds(u, g)' = Holds(u, g)
      BY DEF Holds, Same
  <2> QED
      BY <2>1, <2>2 DEF FiberLife, ArmedHolds
<1>13. SpareIsEmpty'
  <2> SUFFICES ASSUME NEW u \in Runners, cb_fiber'[u] # None, ~Handling(u, cb_fiber[u])'
               PROVE  m_cb'[cb_fiber'[u]] = None /\ m_state'[cb_fiber'[u]] = "INIT"
      BY DEF SpareIsEmpty
  <2>1. CASE u = t
    <3>1. cb_fiber'[t] = cb_fiber[t] /\ cb_fiber[t] \in Fibers
        BY <2>1 DEF SchedulerInv, TypeOK
    <3>2. CASE cb_fiber[t] = f
        BY <2>1, <3>1, <3>2
    <3>3. CASE cb_fiber[t] # f
        BY <2>1, <3>1, <3>3 DEF FiberLife, SpareIsEmpty, Handling
    <3> QED
        BY <3>2, <3>3
  <2>2. CASE u # t
    <3>1. /\ cb_fiber'[u] = cb_fiber[u] /\ cb_fiber[u] \in Fibers
          /\ ~Handling(u, cb_fiber[u]) /\ Holds(u, cb_fiber[u])
        BY <2>2 DEF SchedulerInv, TypeOK, Same, Handling, Cur, Holds
    <3>2. cb_fiber[u] # f
        BY <2>2, <3>1, <1>2
    <3> QED
        BY <3>1, <3>2 DEF FiberLife, SpareIsEmpty
  <2> QED
      BY <2>1, <2>2
<1>14. LiveIsPlaced'
  <2> SUFFICES ASSUME NEW g \in Fibers, Live(g)', g # f
               PROVE  Queued(g)' \/ g \in waker \/ \E u \in Runners : InHand(u, g)'
      BY DEF LiveIsPlaced
  <2>1. Queued(g) \/ g \in waker \/ \E u \in Runners \ {t} : InHand(u, g)
      BY <1>1 DEF FiberLife, LiveIsPlaced
  <2> QED
      BY <2>1, <1>5, <1>8 DEF Queued
<1> QED
    BY <1>9, <1>10, <1>11, <1>12, <1>13, <1>14 DEF FiberLife

(* A thread takes an entry off the list. *)
LEMMA PickLife == ASSUME SchedulerInv, FiberLife, NEW t \in Runners, Pick(t) PROVE FiberLife'
<1>1. PICK i \in DOMAIN m_fibers : ft' = [ft EXCEPT ![t] = m_fibers[i]] /\ Erase(i)
    BY DEF Pick
<1>2. /\ \A j \in DOMAIN m_fibers' : \E k \in DOMAIN m_fibers : m_fibers'[j] = m_fibers[k]
      /\ \A k \in DOMAIN m_fibers \ {i} : \E j \in DOMAIN m_fibers' : m_fibers'[j] = m_fibers[k]
    BY <1>1, EraseKeeps DEF SchedulerInv
<1>3. /\ UNCHANGED <<m_state, m_cb, waker, finished, cb_fiber>>
      /\ pc' = [pc EXCEPT ![t] = "got"] /\ pc[t] = "loop"
    BY DEF Pick, Goto, fiberVars, histVars
<1>4. pc'[t] = "got" /\ ft'[t] = m_fibers[i] /\ \A u \in Runners \ {t} : Same(u)
    BY <1>1, <1>3 DEF SchedulerInv, TypeOK, Same
<1> DEFINE f == m_fibers[i].fiber
<1>5. f \in Fibers \cup {None} /\ (f # None => \A u \in Runners : ~Holds(u, f))
    BY ItemTypes DEF SchedulerInv, TypeOK, Ownership, QueuedIsFree
<1>6. \A u \in Runners, g \in Fibers : InHand(u, g)' <=> InHand(u, g) \/ (u = t /\ g = f)
    BY <1>3, <1>4, <1>5, SchedulerAssumption DEF InHand, Handling, InTask, Same, Cur
<1>7. EntriesNameOne'
    BY <1>2, <1>4 DEF FiberLife, EntriesNameOne, NamesOne, Same
<1>8. QueuedWaits'
    BY <1>2, <1>3 DEF FiberLife, QueuedWaits, Live
<1>9. InHandFits'
  <2> SUFFICES ASSUME NEW u \in Runners, NEW g \in Fibers, InHand(u, g)' PROVE Fits(u, g)'
      BY DEF InHandFits
  <2>1. CASE u # t
    <3>1. Fits(u, g) /\ pc'[u] = pc[u]
        BY <2>1, <1>4, <1>6 DEF FiberLife, InHandFits, Same
    <3> QED
        BY <3>1, <1>3 DEF Fits, Live
  <2>2. CASE u = t
    <3>1. g = f /\ pc'[u] = "got"
        BY <2>2, <1>3, <1>4, <1>6 DEF InHand, Handling, InTask
    <3>2. m_state[g] \in Waiting /\ Live(g)
        BY <3>1, SchedulerAssumption DEF FiberLife, QueuedWaits
    <3> QED
        BY <2>2, <3>1, <3>2, <1>3 DEF Fits, Live, Left
  <2> QED
      BY <2>1, <2>2
<1>10. ArmedHolds'
  <2> SUFFICES ASSUME NEW g \in waker, \A u \in Runners : ~Holds(u, g)' PROVE m_state[g] = "HOLD"
      BY <1>3 DEF FiberLife, ArmedHolds, Live
  <2>1. \A u \in Runners \ {t} : ~Holds(u, g)
      BY <1>4 DEF Holds, Same
  <2>2. ~Holds(t, g)
      BY <1>3 DEF SchedulerInv, Ownership, ArmedSuspends, Suspending
  <2> QED
      BY <2>1, <2>2 DEF FiberLife, ArmedHolds
<1>11. SpareIsEmpty'
    BY <1>3, <1>4 DEF FiberLife, SpareIsEmpty, Handling, InTask, Same, Cur
<1>12. LiveIsPlaced'
    BY <1>2, <1>3, <1>6 DEF FiberLife, LiveIsPlaced, Queued, Live
<1> QED
    BY <1>7, <1>8, <1>9, <1>10, <1>11, <1>12 DEF FiberLife

(* The spare, or the new fiber, that is to run a callback is nobody else's. *)
LEMMA DispatchCbFree ==
    ASSUME SchedulerInv, NEW t \in Runners, pc[t] = "got", ft[t].fiber = None, NEW f \in Fibers,
           IF cb_fiber[t] # None THEN f = cb_fiber[t] ELSE Fresh(f)
    PROVE  /\ f \notin waker /\ \A u \in Runners \ {t} : ~Holds(u, f)
           /\ \A i \in DOMAIN m_fibers : m_fibers[i].fiber # f
<1>1. CASE cb_fiber[t] = f
    BY <1>1, SchedulerAssumption
    DEF SchedulerInv, Ownership, HeldOnce, QueuedIsFree, ArmedSuspends, Suspending, Holds
<1>2. CASE Fresh(f)
    BY <1>2 DEF Fresh, Queued
<1> QED
    BY <1>1, <1>2

(* A callback is moved into the spare, or into a new fiber. *)
LEMMA DispatchCbLife ==
    ASSUME SchedulerInv, FiberLife, EnteredOnce, NEW t \in Runners, DispatchCb(t)
    PROVE  FiberLife'
<1>1. PICK f \in Fibers : /\ IF cb_fiber[t] # None THEN f = cb_fiber[t] ELSE Fresh(f)
                          /\ cb_fiber' = [cb_fiber EXCEPT ![t] = f]
                          /\ Reset(f, ft[t].cb)
    BY DEF DispatchCb
<1>2. /\ UNCHANGED <<m_fibers, waker, finished>>
      /\ pc' = [pc EXCEPT ![t] = "enter"] /\ pc[t] = "got" /\ ft[t].fiber = None
      /\ ft' = [ft EXCEPT ![t] = NoItem]
    BY DEF DispatchCb, Goto, ResetFt, queueVars, histVars
<1>3. /\ pc'[t] = "enter" /\ cb_fiber'[t] = f /\ ft'[t].fiber = None /\ ft'[t].cb = None
      /\ \A u \in Runners \ {t} : Same(u)
    BY <1>1, <1>2 DEF SchedulerInv, TypeOK, Same, NoItem
<1>4. ft[t].cb # None /\ ft[t].cb \notin finished
    BY <1>2 DEF FiberLife, EntriesNameOne, NamesOne, EnteredOnce, NotStarted
<1>5. /\ m_state'[f] = "INIT" /\ Live(f)'
      /\ \A g \in Fibers \ {f} : m_state'[g] = m_state[g] /\ m_cb'[g] = m_cb[g]
                                 /\ Live(g)' = Live(g)
    BY <1>1, <1>2, <1>4 DEF Reset, Mark, Live, SchedulerInv, TypeOK
<1>6. /\ f \notin waker /\ \A u \in Runners \ {t} : ~Holds(u, f)
      /\ \A i \in DOMAIN m_fibers : m_fibers[i].fiber # f
    BY <1>1, <1>2, DispatchCbFree
<1>7. /\ \A g \in Fibers : ~InHand(t, g)
      /\ \A u \in Runners, g \in Fibers : InHand(u, g) => Holds(u, g)
    BY <1>2, SchedulerAssumption DEF InHand, Handling, InTask, Holds, Cur
<1>8. \A u \in Runners, g \in Fibers : InHand(u, g)' <=> InHand(u, g) \/ (u = t /\ g = f)
    BY <1>3, <1>7 DEF InHand, Handling, InTask, Same, Cur
<1>9. EntriesNameOne'
    BY <1>2, <1>3 DEF FiberLife, EntriesNameOne, NamesOne, Same
<1>10. QueuedWaits'
  <2>1. \A i \in DOMAIN m_fibers : m_fibers[i].fiber \in Fibers \cup {None}
      BY ItemTypes DEF SchedulerInv, TypeOK
  <2> QED
      BY <2>1, <1>2, <1>5, <1>6 DEF FiberLife, QueuedWaits
<1>11. InHandFits'
  <2> SUFFICES ASSUME NEW u \in Runners, NEW g \in Fibers, InHand(u, g)' PROVE Fits(u, g)'
      BY DEF InHandFits
  <2>1. CASE u = t
    <3>1. g = f
        BY <2>1, <1>7, <1>8
    <3> QED
        BY <2>1, <3>1, <1>3, <1>5 DEF Fits, Waiting, Left
  <2>2. CASE u # t
    <3>1. Fits(u, g) /\ pc'[u] = pc[u] /\ g # f
        BY <2>2, <1>3, <1>6, <1>7, <1>8 DEF FiberLife, InHandFits, Same
    <3> QED
        BY <3>1, <1>2, <1>5 DEF Fits
  <2> QED
      BY <2>1, <2>2
<1>12. ArmedHolds'
  <2> SUFFICES ASSUME NEW g \in waker
               PROVE  Live(g)' /\ ((\A u \in Runners : ~Holds(u, g)') => m_state'[g] = "HOLD")
      BY <1>2 DEF ArmedHolds
  <2>1. g \in Fibers \ {f} /\ ~Holds(t, g)
      BY <1>2, <1>6 DEF SchedulerInv, TypeOK, Ownership, ArmedSuspends, Suspending
  <2>2. \A u \in Runners \ {t} : Holds(u, g)' = Holds(u, g)
      BY <1>3 DEF Holds, Same
  <2> QED
      BY <2>1, <2>2, <1>5 DEF FiberLife, ArmedHolds
<1>13. SpareIsEmpty'
  <2> SUFFICES ASSUME NEW u \in Runners, cb_fiber'[u] # None, ~Handling(u, cb_fiber[u])'
               PROVE  m_cb'[cb_fiber'[u]] = None /\ m_state'[cb_fiber'[u]] = "INIT"
      BY DEF SpareIsEmpty
  <2>1. u # t
      BY <1>3 DEF Handling, InTask, Cur
  <2>2. /\ cb_fiber'[u] = cb_fiber[u] /\ cb_fiber[u] \in Fibers \ {f}
        /\ ~Handling(u, cb_fiber[u])
      BY <2>1, <1>3, <1>6 DEF SchedulerInv, TypeOK, Same, Handling, Cur, Holds
  <2> QED
      BY <2>2, <1>5 DEF FiberLife, SpareIsEmpty
<1>14. LiveIsPlaced'
  <2> SUFFICES ASSUME NEW g \in Fibers \ {f}, Live(g)
               PROVE  Queued(g)' \/ g \in waker' \/ \E u \in Runners : InHand(u, g)'
      BY <1>5, <1>8 DEF LiveIsPlaced
  <2> QED
      BY <1>2, <1>8 DEF FiberLife, LiveIsPlaced, Queued
<1> QED
    BY <1>9, <1>10, <1>11, <1>12, <1>13, <1>14 DEF FiberLife

(* What schedule() may be told to name. *)
LEMMA PinsType ==
    /\ MainPins \subseteq Runners \cup {AnyThread}
    /\ \A t \in Runners : PinsOf(t) \subseteq Runners \cup {AnyThread}
BY SchedulerAssumption DEF MainPins, PinsOf

(* schedule() of a callback, by a body or by Root. *)
LEMMA ScheduleCbLife ==
    ASSUME SchedulerInv, FiberLife,
           \E c \in Callbacks, thr \in Runners \cup {AnyThread} : Schedule(CbItem(c, thr)),
           UNCHANGED <<pc, ft, cb_fiber, m_state, m_cb, waker, finished>>
    PROVE  FiberLife'
<1>1. PICK c \in Callbacks, thr \in Runners \cup {AnyThread} : Schedule(CbItem(c, thr))
    OBVIOUS
<1>2. /\ CbItem(c, thr) \in Item /\ CbItem(c, thr).fiber = None /\ CbItem(c, thr).cb = c
      /\ waker = waker \ {None}
    BY ItemTypes, SchedulerAssumption DEF CbItem, SchedulerInv, TypeOK
<1>3. NamesOne(CbItem(c, thr))
    BY <1>2, SchedulerAssumption DEF NamesOne
<1> QED
    BY <1>1, <1>2, <1>3, ScheduleLife DEF Live

(* A waker schedules the fiber it holds, by a body or by Root. *)
LEMMA WakeLife ==
    ASSUME PromptWake = FALSE, SchedulerInv, FiberLife,
           \E f \in Fibers : MayWake(f) /\ waker' = waker \ {f} /\ Schedule(FiberItem(f, AnyThread)),
           UNCHANGED <<pc, ft, cb_fiber, m_state, m_cb, finished>>
    PROVE  FiberLife'
<1>1. PICK f \in Fibers :
         MayWake(f) /\ waker' = waker \ {f} /\ Schedule(FiberItem(f, AnyThread))
    OBVIOUS
<1>2. /\ FiberItem(f, AnyThread) \in Item /\ FiberItem(f, AnyThread).fiber = f
      /\ NamesOne(FiberItem(f, AnyThread))
    BY ItemTypes, SchedulerAssumption DEF FiberItem, NamesOne
<1>3. \A u \in Runners : ~Holds(u, f)
    BY <1>1 DEF MayWake, Handling, SchedulerInv, Ownership, ArmedSuspends, Suspending, InTask
<1>4. ~Queued(f)
    BY <1>1, SchedulerAssumption DEF MayWake, Queued, SchedulerInv, Ownership, QueuedIsFree
<1>5. m_state[f] \in Waiting /\ Live(f)
    BY <1>1, <1>3 DEF MayWake, FiberLife, ArmedHolds, Waiting
<1> QED
    BY <1>1, <1>2, <1>3, <1>4, <1>5, ScheduleLife DEF Live

(* Back from a task, the thread requeues the fiber, lets go of it or keeps  *)
(* it as its spare, by its state.                                           *)
LEMMA AfterLife ==
    ASSUME SchedulerInv, FiberLife, NEW t \in Runners,
           Requeue(t) \/ LetGo(t) \/ KeepSpare(t) \/ HoldCb(t)
    PROVE  FiberLife'
<1> USE DEF Goto, Mark, Reset, ResetFt, ResetCb, queueVars, stopVars, mainVars, runVars,
            fiberVars, histVars
<1>1. pc[t] = "after" /\ pc[t] \in InTask /\ pc[t] \in Left
    BY DEF Requeue, LetGo, KeepSpare, HoldCb, InTask, Left
<1>2. PICK f \in Fibers : f = Cur(t) /\ InHand(t, f) /\ Fits(t, f)
    BY <1>1, InTaskHand DEF FiberLife, InHandFits
<1>3. /\ m_state[f] \in (IF Live(f) THEN {"READY", "HOLD"} ELSE {"TERM", "EXCEPT"})
      /\ m_state[f] = "HOLD" <=> f \in waker
    BY <1>1, <1>2, InHandAlone DEF Fits, SchedulerInv, Ownership, ArmedSuspends
<1>4. TypeOK /\ NoItem.fiber = None /\ NoItem.cb = None
    BY DEF SchedulerInv, NoItem
<1>5. /\ ft[t].fiber # None => f = ft[t].fiber /\ cb_fiber[t] # f
      /\ ft[t].fiber = None => f = cb_fiber[t]
    BY <1>2 DEF Cur, SchedulerInv, Ownership, HeldOnce
<1>6. CASE Requeue(t)
  <2>1. /\ pc'[t] = "loop" /\ \A u \in Runners \ {t} : Same(u)
        /\ ft'[t] = NoItem /\ Schedule(FiberItem(f, AnyThread))
        /\ cb_fiber'[t] = IF ft[t].fiber = None THEN None ELSE cb_fiber[t]
        /\ UNCHANGED <<m_state, m_cb, waker, finished>> /\ m_state[f] = "READY"
      BY <1>2, <1>4, <1>6 DEF Requeue, TypeOK, Same
  <2>2. Live(f) /\ f \notin waker /\ Queued(f)'
      BY <1>2, <1>3, <1>4, <2>1, ItemTypes, ScheduleAppends DEF FiberItem, Queued
  <2>3. cb_fiber'[t] # f
      BY <2>1, <1>5, SchedulerAssumption
  <2> QED
      BY <1>1, <1>2, <1>4, <2>1, <2>2, <2>3, PutDownLife DEF Live, Waiting
<1>7. CASE LetGo(t)
  <2>1. m_state[f] # "EXEC" /\ f = ft[t].fiber
      BY <1>3, <1>5, <1>7 DEF LetGo
  <2>2. /\ pc'[t] = "loop" /\ \A u \in Runners \ {t} : Same(u)
        /\ ft'[t] = NoItem /\ cb_fiber' = cb_fiber /\ ft[t].fiber # None
        /\ UNCHANGED <<m_fibers, m_state, m_cb, waker, finished>> /\ m_state[f] # "READY"
      BY <2>1, <1>4, <1>7 DEF LetGo, TypeOK, Same
  <2>3. Live(f) => f \in waker
      BY <1>3, <2>2
  <2>4. f \in waker => Live(f) /\ m_state[f] = "HOLD"
      BY <1>3 DEF FiberLife, ArmedHolds
  <2> QED
      BY <1>1, <1>2, <1>4, <1>5, <2>2, <2>3, <2>4, PutDownLife DEF Live
<1>8. CASE KeepSpare(t)
  <2>1. /\ pc'[t] = "loop" /\ \A u \in Runners \ {t} : Same(u)
        /\ UNCHANGED <<ft, cb_fiber, m_fibers, waker, finished>> /\ ft[t].fiber = None
        /\ f = cb_fiber[t] /\ m_state[f] \in {"TERM", "EXCEPT"}
        /\ m_state' = [m_state EXCEPT ![f] = "INIT"] /\ m_cb' = [m_cb EXCEPT ![f] = None]
      BY <1>4, <1>5, <1>8 DEF KeepSpare, TypeOK, Same
  <2>2. /\ ft[t].cb = None /\ f \notin waker
        /\ m_cb'[f] = None /\ m_state'[f] = "INIT" /\ ~Live(f)'
      BY <1>1, <1>3, <1>4, <2>1 DEF FiberLife, EntriesNameOne, Live, TypeOK
  <2>3. \A g \in Fibers \ {f} : m_state'[g] = m_state[g] /\ m_cb'[g] = m_cb[g] /\ Live(g)' = Live(g)
      BY <1>4, <2>1 DEF Live, TypeOK
  <2> QED
      BY <1>1, <1>2, <2>1, <2>2, <2>3, PutDownLife
<1>9. CASE HoldCb(t)
  <2>1. f = cb_fiber[t] /\ ft[t].fiber = None /\ m_state[f] \notin {"READY", "TERM", "EXCEPT"}
      BY <1>5, <1>9 DEF HoldCb
  <2>2. /\ pc'[t] = "loop" /\ \A u \in Runners \ {t} : Same(u)
        /\ UNCHANGED <<ft, m_fibers, m_cb, waker, finished>> /\ cb_fiber'[t] = None
        /\ m_state' = [m_state EXCEPT ![f] = "HOLD"]
      BY <1>4, <2>1, <1>9 DEF HoldCb, TypeOK, Same
  <2>3. ft[t].cb = None /\ f \in waker /\ Live(f) /\ m_state'[f] = "HOLD"
      BY <1>1, <1>3, <1>4, <2>1, <2>2 DEF FiberLife, EntriesNameOne, TypeOK
  <2>4. \A g \in Fibers \ {f} : m_state'[g] = m_state[g]
      BY <1>4, <2>2 DEF TypeOK
  <2> QED
      BY <1>1, <1>2, <2>1, <2>2, <2>3, <2>4, SchedulerAssumption, PutDownLife DEF Live
<1> QED
    BY <1>6, <1>7, <1>8, <1>9

LEMMA FiberLifeRun ==
    ASSUME PromptWake = FALSE, TaskInv, NEW t \in Runners, Run(t)
    PROVE  FiberLife'
<1> USE DEF Goto, Mark, Reset, ResetFt, ResetCb, queueVars, stopVars, mainVars, runVars,
            fiberVars, histVars
<1>a. SchedulerInv /\ FiberLife /\ TypeOK /\ EnteredOnce /\ CallbackOnce
    BY DEF TaskInv, SchedulerInv, CallbackLife
<1>b. ASSUME pc[t] \in InTask
      PROVE  Cur(t) \in Fibers /\ InHand(t, Cur(t)) /\ Fits(t, Cur(t))
    BY <1>a, <1>b, InTaskHand DEF FiberLife, InHandFits
<1>c. ASSUME pc[t] \in InTask, pc'[t] \in InTask, UNCHANGED <<m_fibers, ft, cb_fiber>>,
             \A u \in Runners \ {t} : pc'[u] = pc[u],
             \A g \in Fibers \ {Cur(t)} : /\ m_state'[g] = m_state[g] /\ m_cb'[g] = m_cb[g]
                                          /\ Live(g)' = Live(g) /\ (g \in waker' <=> g \in waker),
             waker' \subseteq Fibers,
             NEW f, f = Cur(t), f \in waker' => Live(f)', Fits(t, f)'
      PROVE  FiberLife'
    BY <1>a, <1>b, <1>c, InTaskLife
<1>d. waker \subseteq Fibers /\ \A f \in waker : Live(f)
    BY <1>a DEF SchedulerInv, TypeOK, FiberLife, ArmedHolds
<1>1. CASE Pick(t)
    BY <1>a, <1>1, PickLife
<1>2. CASE PickNothing(t)
    BY <1>a, <1>2, QuietLife DEF PickNothing, InTask, Same, NoItem, TypeOK
<1>3. CASE DispatchFiber(t)
  <2>1. PICK f \in Fibers : f = ft[t].fiber
      BY <1>a, <1>3, ItemTypes DEF DispatchFiber, TypeOK
  <2>2. Cur(t) = f /\ InHand(t, f) /\ Fits(t, f) /\ pc[t] = "got"
      BY <1>a, <1>3, <2>1, SchedulerAssumption DEF DispatchFiber, Cur, InHand, FiberLife, InHandFits
  <2>3. /\ pc'[t] = "enter" /\ \A u \in Runners \ {t} : pc'[u] = pc[u]
        /\ UNCHANGED <<m_fibers, ft, cb_fiber, m_state, m_cb, waker, finished>>
      BY <1>a, <1>3 DEF DispatchFiber, TypeOK
  <2>4. Fits(t, f)'
      BY <2>2, <2>3 DEF Fits, Live, Left
  <2> QED
      BY <1>a, <1>d, <2>2, <2>3, <2>4, InTaskLife DEF Live, InTask
<1>4. CASE DropEnded(t)
  <2>1. InHand(t, ft[t].fiber) /\ ft[t].fiber \in Fibers /\ pc[t] = "got"
      BY <1>a, <1>4, ItemTypes DEF DropEnded, InHand, TypeOK
  <2> QED
      BY <1>a, <1>4, <2>1 DEF DropEnded, FiberLife, InHandFits, Fits, Waiting
<1>5. CASE DispatchCb(t)
    BY <1>a, <1>5, DispatchCbLife
<1>6. CASE SwapInCheck(t)
  <2>1. pc[t] = "enter" /\ m_state[Cur(t)] # "EXEC"
      BY <1>b, <1>6 DEF SwapInCheck, Fits, Waiting, InTask
  <2>2. /\ pc'[t] = "switch" /\ \A u \in Runners \ {t} : pc'[u] = pc[u]
        /\ UNCHANGED <<m_fibers, ft, cb_fiber, m_state, m_cb, waker, finished>>
      BY <1>a, <1>6, <2>1 DEF SwapInCheck, TypeOK
  <2>3. PICK f \in Fibers : f = Cur(t) /\ Fits(t, f)'
      BY <1>b, <2>1, <2>2 DEF Fits, Live, Left, InTask
  <2> QED
      BY <1>c, <1>d, <2>1, <2>2, <2>3 DEF InTask, Live
<1>7. CASE SwapIn(t)
  <2>1. /\ pc[t] = "switch" /\ pc'[t] = "body" /\ \A u \in Runners \ {t} : pc'[u] = pc[u]
        /\ UNCHANGED <<m_fibers, ft, cb_fiber, m_cb, waker, finished>>
        /\ m_state' = [m_state EXCEPT ![Cur(t)] = "EXEC"]
      BY <1>a, <1>7 DEF SwapIn, TypeOK
  <2>2. PICK f \in Fibers : f = Cur(t) /\ Fits(t, f)'
      BY <1>a, <1>b, <2>1 DEF Fits, Live, Left, InTask, TypeOK
  <2> QED
      BY <1>a, <1>c, <1>d, <2>1, <2>2 DEF InTask, Live, TypeOK
<1>8. CASE Return(t)
  <2>1. /\ pc[t] = "body" /\ pc'[t] = "leave" /\ \A u \in Runners \ {t} : pc'[u] = pc[u]
        /\ UNCHANGED <<m_fibers, ft, cb_fiber, waker>>
        /\ m_state' = [m_state EXCEPT ![Cur(t)] = "TERM"]
        /\ m_cb' = [m_cb EXCEPT ![Cur(t)] = None]
        /\ finished' = finished \cup {m_cb[Cur(t)]} /\ m_cb[Cur(t)] # None
      BY <1>a, <1>8 DEF Return, TypeOK
  <2>2. Cur(t) \notin waker /\ Cur(t) \in Fibers
      BY <1>a, <1>b, <2>1, BodyNotArmed DEF SchedulerInv, Ownership, InTask, Holds, Cur
  <2>3. \A g \in Fibers \ {Cur(t)} : Live(g)' = Live(g)
      BY <1>a, <2>1, <2>2 DEF Live, CallbackOnce, TypeOK
  <2>4. PICK f \in Fibers : f = Cur(t) /\ Fits(t, f)'
      BY <1>a, <2>1, <2>2 DEF Fits, Live, Left, TypeOK
  <2> QED
      BY <1>a, <1>c, <1>d, <2>1, <2>2, <2>3, <2>4 DEF InTask, TypeOK
<1>9. CASE Throw(t)
  <2>1. /\ pc[t] = "body" /\ pc'[t] = "leave" /\ \A u \in Runners \ {t} : pc'[u] = pc[u]
        /\ UNCHANGED <<m_fibers, ft, cb_fiber, m_cb, waker>>
        /\ m_state' = [m_state EXCEPT ![Cur(t)] = "EXCEPT"]
        /\ finished' = finished \cup ({m_cb[Cur(t)]} \ {None})
      BY <1>a, <1>9 DEF Throw, TypeOK
  <2>2. Cur(t) \notin waker /\ Cur(t) \in Fibers
      BY <1>a, <1>b, <2>1, BodyNotArmed DEF SchedulerInv, Ownership, InTask, Holds, Cur
  <2>3. \A g \in Fibers \ {Cur(t)} : Live(g)' = Live(g)
      BY <1>a, <2>1, <2>2 DEF Live, CallbackOnce, TypeOK
  <2>4. PICK f \in Fibers : f = Cur(t) /\ Fits(t, f)'
      BY <1>a, <2>1, <2>2 DEF Fits, Live, Left, TypeOK
  <2> QED
      BY <1>a, <1>c, <1>d, <2>1, <2>2, <2>3, <2>4 DEF InTask, TypeOK
<1>10. CASE YieldToReady(t)
  <2>1. /\ pc[t] = "body" /\ pc'[t] = "leave" /\ \A u \in Runners \ {t} : pc'[u] = pc[u]
        /\ UNCHANGED <<m_fibers, ft, cb_fiber, m_cb, waker, finished>>
        /\ m_state' = [m_state EXCEPT ![Cur(t)] = "READY"]
      BY <1>a, <1>10 DEF YieldToReady, MaySuspend, TypeOK
  <2>2. PICK f \in Fibers : f = Cur(t) /\ Fits(t, f)'
      BY <1>a, <1>b, <2>1 DEF Fits, Live, Left, InTask, TypeOK
  <2> QED
      BY <1>a, <1>c, <1>d, <2>1, <2>2 DEF InTask, Live, TypeOK
<1>11. CASE Arm(t)
  <2>1. /\ pc[t] = "body" /\ pc'[t] = "parking" /\ \A u \in Runners \ {t} : pc'[u] = pc[u]
        /\ UNCHANGED <<m_fibers, ft, cb_fiber, m_cb, m_state, finished>>
        /\ waker' = waker \cup {Cur(t)}
      BY <1>a, <1>11 DEF Arm, MaySuspend, TypeOK
  <2>2. PICK f \in Fibers : f = Cur(t) /\ Fits(t, f)' /\ Live(f)'
      BY <1>a, <1>b, <2>1 DEF Fits, Live, Left, InTask, TypeOK
  <2> QED
      BY <1>a, <1>c, <1>d, <2>1, <2>2 DEF InTask, Live, TypeOK
<1>12. CASE YieldToHold(t)
  <2>1. /\ pc[t] = "parking" /\ pc'[t] = "leave" /\ \A u \in Runners \ {t} : pc'[u] = pc[u]
        /\ UNCHANGED <<m_fibers, ft, cb_fiber, m_cb, waker, finished>>
        /\ m_state' = [m_state EXCEPT ![Cur(t)] = "HOLD"]
      BY <1>a, <1>12 DEF YieldToHold, TypeOK
  <2>2. PICK f \in Fibers : f = Cur(t) /\ Fits(t, f)'
      BY <1>a, <1>b, <2>1 DEF Fits, Live, Left, InTask, TypeOK
  <2> QED
      BY <1>a, <1>c, <1>d, <2>1, <2>2 DEF InTask, Live, TypeOK
<1>13. CASE BodySchedule(t)
    BY <1>a, <1>13, PinsType, ScheduleCbLife DEF BodySchedule
<1>14. CASE BodyWake(t)
    BY <1>a, <1>14, WakeLife DEF BodyWake
<1>15. CASE SwapOut(t)
  <2>1. /\ pc[t] = "leave" /\ pc'[t] = "back" /\ \A u \in Runners \ {t} : pc'[u] = pc[u]
        /\ UNCHANGED <<m_fibers, ft, cb_fiber, m_cb, m_state, waker, finished>>
      BY <1>a, <1>15 DEF SwapOut, TypeOK
  <2>2. PICK f \in Fibers : f = Cur(t) /\ Fits(t, f)'
      BY <1>b, <2>1 DEF Fits, Live, Left, InTask
  <2> QED
      BY <1>c, <1>d, <2>1, <2>2 DEF InTask, Live
<1>16. CASE Deactivate(t)
  <2>1. /\ pc[t] = "back" /\ pc'[t] = "after" /\ \A u \in Runners \ {t} : pc'[u] = pc[u]
        /\ UNCHANGED <<m_fibers, ft, cb_fiber, m_cb, m_state, waker, finished>>
      BY <1>a, <1>16 DEF Deactivate, TypeOK
  <2>2. PICK f \in Fibers : f = Cur(t) /\ Fits(t, f)'
      BY <1>b, <2>1 DEF Fits, Live, Left, InTask
  <2> QED
      BY <1>c, <1>d, <2>1, <2>2 DEF InTask, Live
<1>17. CASE Requeue(t) \/ LetGo(t) \/ KeepSpare(t) \/ HoldCb(t)
    BY <1>a, <1>17, AfterLife
<1>18. CASE EnterIdle(t)
    BY <1>a, <1>18, QuietLife DEF EnterIdle, InTask, Same, TypeOK, SchedulerInv, Ownership, HeldOnce, FiberLife, EntriesNameOne
<1>19. CASE IdleCheck(t)
    BY <1>a, <1>19, QuietLife DEF IdleCheck, InTask, Same, TypeOK, SchedulerInv, Ownership, HeldOnce, FiberLife, EntriesNameOne
<1>20. CASE LeaveIdle(t)
    BY <1>a, <1>20, QuietLife DEF LeaveIdle, InTask, Same, TypeOK, SchedulerInv, Ownership, HeldOnce, FiberLife, EntriesNameOne
<1>21. CASE ExitRun(t)
    BY <1>a, <1>21, QuietLife DEF ExitRun, InTask, Same, TypeOK, SchedulerInv, Ownership, HeldOnce, FiberLife, EntriesNameOne
<1> QED
    BY <1>1, <1>2, <1>3, <1>4, <1>5, <1>6, <1>7, <1>8, <1>9, <1>10, <1>11, <1>12,
       <1>13, <1>14, <1>15, <1>16, <1>17, <1>18, <1>19, <1>20, <1>21 DEF Run, Body

(* Root and the threads that start() lets in change no fiber's place. *)
LEMMA TurnsLife ==
    ASSUME SchedulerInv, FiberLife, Start \/ Stop
    PROVE  FiberLife'
<1>1. UNCHANGED <<m_fibers, ft, cb_fiber, m_state, m_cb, waker, finished>>
    BY DEF Start, Stop, StopBegin, StopEarly, StopSet, StopCall, StopCallReturns, StopJoin,
           queueVars, runVars, fiberVars, histVars
<1>2. \A u \in Runners : pc'[u] = pc[u] \/ (Apart(u) /\ pc'[u] = "loop")
    BY TurnsGo DEF SchedulerInv
<1>3. \A u \in Runners : Apart(u) => ft[u].fiber = None /\ ft[u].cb = None
    BY DEF Apart, InTask, FiberLife, EntriesNameOne, SchedulerInv, Ownership, HeldOnce
<1> QED
    BY <1>1, <1>2, <1>3, QuietLife DEF Same, Apart, InTask

LEMMA FiberLifeMain ==
    ASSUME PromptWake = FALSE, MaxDups = 0, TaskInv, Main
    PROVE  FiberLife'
<1> USE DEF Reset, Mark, queueVars, stopVars, mainVars, runVars, fiberVars, histVars
<1>a. SchedulerInv /\ FiberLife /\ TypeOK /\ EnteredOnce
    BY DEF TaskInv, SchedulerInv, CallbackLife
<1>1. CASE Start \/ Stop
    BY <1>a, <1>1, TurnsLife
<1>2. CASE MainScheduleCb
    BY <1>a, <1>2, PinsType, ScheduleCbLife DEF MainScheduleCb
<1>3. CASE MainScheduleFiber
  <2>1. PICK c \in Callbacks \ scheduled, thr \in MainPins, f \in Fibers :
           /\ Fresh(f) /\ Schedule(FiberItem(f, thr))
           /\ m_state' = [m_state EXCEPT ![f] = "INIT"] /\ m_cb' = [m_cb EXCEPT ![f] = c]
      BY <1>3 DEF MainScheduleFiber
  <2>2. UNCHANGED <<pc, ft, cb_fiber, waker, finished>>
      BY <1>3 DEF MainScheduleFiber
  <2>3. /\ FiberItem(f, thr) \in Item /\ FiberItem(f, thr).fiber = f
        /\ NamesOne(FiberItem(f, thr))
      BY PinsType, ItemTypes, SchedulerAssumption DEF FiberItem, NamesOne
  <2>4. c # None /\ c \notin finished
      BY <1>a, SchedulerAssumption DEF EnteredOnce
  <2>5. m_state'[f] \in Waiting /\ Live(f)'
      BY <1>a, <2>1, <2>2, <2>4 DEF Waiting, Live, TypeOK
  <2>6. ~Queued(f) /\ waker' = waker \ {f} /\ \A u \in Runners : ~Holds(u, f)
      BY <2>1, <2>2 DEF Fresh
  <2>7. \A g \in Fibers \ {f} : m_state'[g] = m_state[g] /\ m_cb'[g] = m_cb[g] /\ Live(g)' = Live(g)
      BY <1>a, <2>1, <2>2 DEF Live, TypeOK
  <2> QED
      BY <1>a, <2>1, <2>2, <2>3, <2>5, <2>6, <2>7, ScheduleLife
<1>4. CASE MainScheduleAgain
    BY <1>a, <1>4 DEF MainScheduleAgain, TypeOK
<1>5. CASE MainWake
    BY <1>a, <1>5, WakeLife DEF MainWake
<1> QED
    BY <1>1, <1>2, <1>3, <1>4, <1>5 DEF Main

-----------------------------------------------------------------------------
(* A step that moves no callback and starts and ends none. *)
LEMMA QuietCallbacks ==
    ASSUME CallbackLife,
           \A i \in DOMAIN m_fibers' :
              (i \in DOMAIN m_fibers /\ m_fibers'[i] = m_fibers[i]) \/ m_fibers'[i].cb = None,
           \A i \in DOMAIN m_fibers : i \in DOMAIN m_fibers' /\ m_fibers'[i] = m_fibers[i],
           \A u \in Runners : ft'[u].cb = ft[u].cb,
           UNCHANGED <<m_cb, scheduled, finished, started>>,
           \A f \in Fibers : m_state'[f] = "INIT" => m_state[f] = "INIT"
    PROVE  CallbackLife'
<1>1. CallbackOnce'
    BY DEF CallbackLife, CallbackOnce
<1>2. CallbackKept'
    BY DEF CallbackLife, CallbackKept
<1>3. EnteredOnce'
    BY DEF CallbackLife, EnteredOnce, NotStarted
<1> QED
    BY <1>1, <1>2, <1>3 DEF CallbackLife

(* A fiber with no task to run takes a callback that is nowhere else. *)
LEMMA ResetCallbacks ==
    ASSUME TypeOK, CallbackLife, NEW f \in Fibers, NEW c \in Callbacks, ~Live(f), Reset(f, c),
           \A i \in DOMAIN m_fibers' :
              m_fibers'[i].cb # c /\ ((i \in DOMAIN m_fibers /\ m_fibers'[i] = m_fibers[i])
                                      \/ m_fibers'[i].cb = None),
           \A i \in DOMAIN m_fibers : i \in DOMAIN m_fibers' /\ m_fibers'[i] = m_fibers[i],
           \A u \in Runners : ft'[u].cb = (IF ft[u].cb = c THEN None ELSE ft[u].cb),
           \A g \in Fibers : m_cb[g] # c,
           scheduled' = scheduled \cup {c}, c \notin finished, started[c] = 0,
           UNCHANGED <<finished, started>>
    PROVE  CallbackLife'
<1>1. /\ m_cb'[f] = c /\ m_state'[f] = "INIT"
      /\ \A g \in Fibers \ {f} : m_cb'[g] = m_cb[g] /\ m_state'[g] = m_state[g]
    BY DEF Reset, Mark, TypeOK
<1>2. c # None
    BY SchedulerAssumption
<1>3. CallbackOnce'
  <2>1. \A i, j \in DOMAIN m_fibers' :
           m_fibers'[i].cb # None /\ m_fibers'[i].cb = m_fibers'[j].cb => i = j
      BY DEF CallbackLife, CallbackOnce
  <2>2. \A t, u \in Runners : ft'[t].cb # None /\ ft'[t].cb = ft'[u].cb => t = u
      BY DEF CallbackLife, CallbackOnce
  <2>3. \A g, h \in Fibers : m_cb'[g] # None /\ m_cb'[g] = m_cb'[h] => g = h
      BY <1>1 DEF CallbackLife, CallbackOnce
  <2>4. \A i \in DOMAIN m_fibers' : m_fibers'[i].cb # None =>
           \A t \in Runners : ft'[t].cb # m_fibers'[i].cb
      BY DEF CallbackLife, CallbackOnce
  <2>5. \A i \in DOMAIN m_fibers' : m_fibers'[i].cb # None =>
           \A g \in Fibers : m_cb'[g] # m_fibers'[i].cb
      BY <1>1 DEF CallbackLife, CallbackOnce
  <2>6. \A t \in Runners, g \in Fibers : ft'[t].cb # None => m_cb'[g] # ft'[t].cb
      BY <1>1, <1>2 DEF CallbackLife, CallbackOnce
  <2> QED
      BY <2>1, <2>2, <2>3, <2>4, <2>5, <2>6 DEF CallbackOnce
<1>4. CallbackKept'
  <2> SUFFICES ASSUME NEW d \in scheduled' \ finished'
               PROVE  \/ \E i \in DOMAIN m_fibers' : m_fibers'[i].cb = d
                      \/ \E t \in Runners : ft'[t].cb = d
                      \/ \E g \in Fibers : m_cb'[g] = d
      BY DEF CallbackKept
  <2>1. CASE d = c
      BY <2>1, <1>1
  <2>2. CASE d # c
    <3>1. d # None /\ d \in scheduled \ finished
        BY <2>2, SchedulerAssumption DEF TypeOK
    <3>2. \A g \in Fibers : m_cb[g] = d => g # f
        BY <3>1 DEF Live
    <3> QED
        BY <2>2, <3>1, <3>2, <1>1 DEF CallbackLife, CallbackKept
  <2> QED
      BY <2>1, <2>2
<1>5. EnteredOnce'
  <2>1. NotStarted(c)' /\ \A d : NotStarted(d) => NotStarted(d)'
      BY DEF NotStarted
  <2>2. \A g \in Fibers : m_cb'[g] # None =>
           m_cb'[g] \in scheduled' /\ (m_state'[g] = "INIT" => NotStarted(m_cb[g])')
      BY <2>1, <1>1 DEF CallbackLife, EnteredOnce, NotStarted
  <2>3. \A t \in Runners : ft'[t].cb # None => NotStarted(ft[t].cb)'
      BY <2>1 DEF CallbackLife, EnteredOnce, NotStarted
  <2>4. \A i \in DOMAIN m_fibers' : m_fibers'[i].cb # None => NotStarted(m_fibers[i].cb)'
      BY <2>1 DEF CallbackLife, EnteredOnce, NotStarted
  <2> QED
      BY <2>2, <2>3, <2>4 DEF CallbackLife, EnteredOnce
<1> QED
    BY <1>3, <1>4, <1>5 DEF CallbackLife

(* schedule() of a callback that was not scheduled before. *)
LEMMA ScheduleCallbacks ==
    ASSUME TypeOK, CallbackLife, NEW c \in Callbacks \ scheduled,
           NEW thr \in Runners \cup {AnyThread}, Record(c, thr), Schedule(CbItem(c, thr)),
           UNCHANGED <<ft, m_cb, m_state, started, finished>>
    PROVE  CallbackLife'
<1>1. /\ DOMAIN m_fibers' = DOMAIN m_fibers \cup {Len(m_fibers) + 1}
      /\ Len(m_fibers) + 1 \notin DOMAIN m_fibers
      /\ \A i \in DOMAIN m_fibers : m_fibers'[i] = m_fibers[i]
      /\ m_fibers'[Len(m_fibers) + 1].cb = c
  <2>1. CbItem(c, thr) \in Item /\ CbItem(c, thr).cb = c
      BY ItemTypes DEF CbItem
  <2> QED
      BY <2>1, ScheduleAppends
<1>2. /\ \A i \in DOMAIN m_fibers : m_fibers[i].cb # c
      /\ \A u \in Runners : ft[u].cb # c
      /\ \A g \in Fibers : m_cb[g] # c
      /\ c # None /\ scheduled' = scheduled \cup {c} /\ c \notin finished /\ started[c] = 0
    BY SchedulerAssumption DEF CallbackLife, EnteredOnce, NotStarted, Record
<1>3. CallbackOnce'
    BY <1>1, <1>2 DEF CallbackLife, CallbackOnce
<1>4. CallbackKept'
    BY <1>1, <1>2 DEF CallbackLife, CallbackKept
<1>5. EnteredOnce'
    BY <1>1, <1>2 DEF CallbackLife, EnteredOnce, NotStarted
<1> QED
    BY <1>3, <1>4, <1>5 DEF CallbackLife

(* What the steps of run() with the callbacks go by: the fiber that is run  *)
(* has a task, the fiber that is put down is not EXEC and has no task when  *)
(* it has ended, and the spare and a new fiber have none.                   *)
Orderly ==
    /\ TypeOK /\ TaskHasFiber /\ EntriesNameOne
    /\ \A t \in Runners :
          /\ pc[t] \in {"switch", "body"} => Live(Cur(t))
          /\ pc[t] \in {"enter", "after"} => m_state[Cur(t)] # "EXEC"
          /\ pc[t] = "after" /\ m_state[Cur(t)] \in {"TERM", "EXCEPT"} => ~Live(Cur(t))
          /\ pc[t] = "got" /\ cb_fiber[t] # None => ~Live(cb_fiber[t])
    /\ \A f \in Fibers : Fresh(f) => ~Live(f)

LEMMA TaskOrderly == TaskInv => Orderly
<1> SUFFICES ASSUME TaskInv PROVE Orderly
    OBVIOUS
<1>a. SchedulerInv /\ FiberLife /\ TypeOK /\ TaskHasFiber
    BY DEF TaskInv, SchedulerInv, Ownership
<1>1. ASSUME NEW t \in Runners, pc[t] \in InTask
      PROVE  Cur(t) \in Fibers /\ Fits(t, Cur(t))
    BY <1>a, <1>1, InTaskHand DEF FiberLife, InHandFits
<1>2. ASSUME NEW t \in Runners
      PROVE  /\ pc[t] \in {"switch", "body"} => Live(Cur(t))
             /\ pc[t] \in {"enter", "after"} => m_state[Cur(t)] # "EXEC"
             /\ pc[t] = "after" /\ m_state[Cur(t)] \in {"TERM", "EXCEPT"} => ~Live(Cur(t))
    BY <1>1 DEF Fits, Waiting, Left, InTask
<1>3. ASSUME NEW t \in Runners, pc[t] = "got", cb_fiber[t] # None PROVE ~Live(cb_fiber[t])
    BY <1>a, <1>3 DEF FiberLife, SpareIsEmpty, Live, Handling, InTask
<1>4. ASSUME NEW f \in Fibers, Fresh(f) PROVE ~Live(f)
  <2>1. \A u \in Runners : ~InHand(u, f)
      BY <1>4 DEF Fresh, InHand, Handling, Holds, Cur
  <2> QED
      BY <1>a, <1>4, <2>1 DEF FiberLife, LiveIsPlaced, Fresh
<1> QED
    BY <1>a, <1>2, <1>3, <1>4 DEF Orderly, FiberLife

(* A thread takes an entry off the list. *)
LEMMA PickCallbacks ==
    ASSUME Orderly, CallbackLife, NEW t \in Runners, Pick(t)
    PROVE  CallbackLife'
<1>1. PICK i \in DOMAIN m_fibers : ft' = [ft EXCEPT ![t] = m_fibers[i]] /\ Erase(i)
    BY DEF Pick
<1>2. /\ \A j \in DOMAIN m_fibers' : \E k \in DOMAIN m_fibers \ {i} :
            m_fibers'[j] = m_fibers[k]
      /\ \A j, k \in DOMAIN m_fibers' : j # k => \E a, b \in DOMAIN m_fibers :
            a # b /\ m_fibers'[j] = m_fibers[a] /\ m_fibers'[k] = m_fibers[b]
      /\ \A k \in DOMAIN m_fibers \ {i} : \E j \in DOMAIN m_fibers' : m_fibers'[j] = m_fibers[k]
    BY <1>1, EraseKeeps DEF Orderly
<1>3. /\ ft'[t] = m_fibers[i] /\ \A u \in Runners \ {t} : ft'[u] = ft[u]
      /\ UNCHANGED <<m_cb, m_state, scheduled, finished, started>>
    BY <1>1 DEF Pick, Orderly, TypeOK, fiberVars, histVars
<1>4. ft[t].cb = None
    BY DEF Pick, Orderly, EntriesNameOne
<1>5. CallbackOnce'
  <2>1. \A j, k \in DOMAIN m_fibers' :
           m_fibers'[j].cb # None /\ m_fibers'[j].cb = m_fibers'[k].cb => j = k
      BY <1>2 DEF CallbackLife, CallbackOnce
  <2>2. \A u, v \in Runners : ft'[u].cb # None /\ ft'[u].cb = ft'[v].cb => u = v
      BY <1>3 DEF CallbackLife, CallbackOnce
  <2>3. \A j \in DOMAIN m_fibers' : m_fibers'[j].cb # None =>
           /\ \A u \in Runners : ft'[u].cb # m_fibers'[j].cb
           /\ \A f \in Fibers : m_cb'[f] # m_fibers'[j].cb
      BY <1>2, <1>3 DEF CallbackLife, CallbackOnce
  <2>4. \A u \in Runners, f \in Fibers : ft'[u].cb # None => m_cb'[f] # ft'[u].cb
      BY <1>3 DEF CallbackLife, CallbackOnce
  <2>5. \A f, g \in Fibers : m_cb'[f] # None /\ m_cb'[f] = m_cb'[g] => f = g
      BY <1>3 DEF CallbackLife, CallbackOnce
  <2> QED
      BY <2>1, <2>2, <2>3, <2>4, <2>5 DEF CallbackOnce
<1>6. CallbackKept'
  <2> SUFFICES ASSUME NEW d \in scheduled \ finished
               PROVE  \/ \E j \in DOMAIN m_fibers' : m_fibers'[j].cb = d
                      \/ \E u \in Runners : ft'[u].cb = d
                      \/ \E g \in Fibers : m_cb[g] = d
      BY <1>3 DEF CallbackKept
  <2>1. d # None
      BY SchedulerAssumption DEF Orderly, TypeOK
  <2>2. CASE \E k \in DOMAIN m_fibers : m_fibers[k].cb = d
      BY <2>2, <1>2, <1>3
  <2>3. CASE \E u \in Runners : ft[u].cb = d
      BY <2>1, <2>3, <1>3, <1>4
  <2> QED
      BY <2>2, <2>3 DEF CallbackLife, CallbackKept
<1>7. EnteredOnce'
    BY <1>2, <1>3 DEF CallbackLife, EnteredOnce, NotStarted
<1> QED
    BY <1>5, <1>6, <1>7 DEF CallbackLife

(* A body ends: its callback, which only its fiber has, is finished. *)
LEMMA EndCallbacks ==
    ASSUME TypeOK, CallbackLife, NEW f \in Fibers, m_cb[f] # None,
           UNCHANGED <<m_fibers, ft, scheduled, started>>,
           m_state'[f] # "INIT", m_cb'[f] \in {None, m_cb[f]},
           finished' = finished \cup {m_cb[f]},
           \A g \in Fibers \ {f} : m_state'[g] = m_state[g] /\ m_cb'[g] = m_cb[g]
    PROVE  CallbackLife'
<1>1. CallbackOnce'
    BY DEF CallbackLife, CallbackOnce
<1>2. CallbackKept'
    BY DEF CallbackLife, CallbackKept
<1>3. EnteredOnce'
  <2>1. m_cb[f] \in scheduled
      BY DEF CallbackLife, EnteredOnce
  <2>2. /\ \A i \in DOMAIN m_fibers : m_fibers[i].cb # None => m_fibers[i].cb # m_cb[f]
        /\ \A u \in Runners : ft[u].cb # None => ft[u].cb # m_cb[f]
        /\ \A g \in Fibers \ {f} : m_cb[g] # m_cb[f]
      BY DEF CallbackLife, CallbackOnce
  <2>3. \A d : NotStarted(d) /\ d # m_cb[f] => NotStarted(d)'
      BY DEF NotStarted
  <2> QED
      BY <2>1, <2>2, <2>3 DEF CallbackLife, EnteredOnce, NotStarted
<1> QED
    BY <1>1, <1>2, <1>3 DEF CallbackLife

(* A fiber whose callback has ended is emptied. *)
LEMMA ClearCallbacks ==
    ASSUME TypeOK, CallbackLife, NEW f \in Fibers, ~Live(f), m_cb'[f] = None,
           UNCHANGED <<m_fibers, ft, scheduled, started, finished>>,
           \A g \in Fibers \ {f} : m_state'[g] = m_state[g] /\ m_cb'[g] = m_cb[g]
    PROVE  CallbackLife'
<1>1. CallbackOnce'
    BY DEF CallbackLife, CallbackOnce
<1>2. CallbackKept'
  <2>1. \A d \in scheduled \ finished : m_cb[f] # d
      BY SchedulerAssumption DEF Live, TypeOK
  <2> QED
      BY <2>1 DEF CallbackLife, CallbackKept
<1>3. EnteredOnce'
    BY DEF CallbackLife, EnteredOnce, NotStarted
<1> QED
    BY <1>1, <1>2, <1>3 DEF CallbackLife

LEMMA CallbacksRun ==
    ASSUME Orderly, CallbackLife, NEW t \in Runners, Run(t)
    PROVE  CallbackLife'
<1> USE DEF Goto, Mark, ResetFt, ResetCb, queueVars, stopVars, mainVars, runVars,
            fiberVars, histVars
<1>a. TypeOK /\ EntriesNameOne /\ NoItem.cb = None
    BY DEF Orderly, NoItem
<1>b. ASSUME pc[t] \in InTask PROVE Cur(t) \in Fibers
    BY <1>b DEF Orderly, TaskHasFiber
<1>c. ASSUME pc[t] # "got" PROVE ft[t].cb = None
    BY <1>a, <1>c DEF EntriesNameOne
<1>d. \A f \in Fibers : FiberItem(f, AnyThread) \in Item /\ FiberItem(f, AnyThread).cb = None
    BY ItemTypes DEF FiberItem
<1>1. CASE Pick(t)
    BY <1>1, PickCallbacks
<1>2. CASE PickNothing(t)
    BY <1>a, <1>c, <1>2, QuietCallbacks DEF PickNothing, TypeOK
<1>3. CASE DispatchFiber(t)
    BY <1>a, <1>3, QuietCallbacks DEF DispatchFiber
<1>4. CASE DropEnded(t)
    BY <1>a, <1>4, QuietCallbacks DEF DropEnded, EntriesNameOne, NamesOne, TypeOK
<1>5. CASE DispatchCb(t)
  <2>1. PICK f \in Fibers : /\ IF cb_fiber[t] # None THEN f = cb_fiber[t] ELSE Fresh(f)
                            /\ Reset(f, ft[t].cb)
      BY <1>5 DEF DispatchCb
  <2>2. /\ pc[t] = "got" /\ ft[t].fiber = None /\ ft' = [ft EXCEPT ![t] = NoItem]
        /\ UNCHANGED <<m_fibers, scheduled, finished, started>>
      BY <1>5 DEF DispatchCb
  <2>3. ~Live(f)
      BY <2>1, <2>2 DEF Orderly
  <2>4. PICK c \in Callbacks : c = ft[t].cb
      BY <1>a, <2>2, ItemTypes DEF EntriesNameOne, NamesOne, TypeOK
  <2>5. /\ \A i \in DOMAIN m_fibers : m_fibers[i].cb # c
        /\ \A u \in Runners : ft'[u].cb = (IF ft[u].cb = c THEN None ELSE ft[u].cb)
        /\ \A g \in Fibers : m_cb[g] # c
      BY <1>a, <2>2, <2>4, SchedulerAssumption DEF CallbackLife, CallbackOnce, TypeOK
  <2>6. NotStarted(c)
      BY <1>a, <2>4, SchedulerAssumption DEF CallbackLife, EnteredOnce
  <2> QED
      BY <1>a, <2>1, <2>2, <2>3, <2>4, <2>5, <2>6, ResetCallbacks DEF NotStarted
<1>6. CASE SwapInCheck(t)
    BY <1>a, <1>6, QuietCallbacks DEF SwapInCheck
<1>7. CASE SwapIn(t)
  <2>1. PICK f \in Fibers : f = Cur(t) /\ Live(f)
      BY <1>b, <1>7 DEF SwapIn, Orderly, InTask
  <2>2. /\ UNCHANGED <<m_fibers, ft, m_cb, scheduled, finished>>
        /\ m_state'[f] = "EXEC" /\ \A g \in Fibers \ {f} : m_state'[g] = m_state[g]
        /\ started' = IF m_state[f] = "INIT" THEN [started EXCEPT ![m_cb[f]] = @ + 1] ELSE started
      BY <1>a, <1>7, <2>1 DEF SwapIn, TypeOK, Live
  <2>3. PICK c \in Callbacks : c = m_cb[f]
      BY <1>a, <2>1 DEF Live, TypeOK
  <2>4. \A d \in Callbacks : started'[d] = IF d = c /\ m_state[f] = "INIT" THEN 1 ELSE started[d]
      BY <1>a, <2>1, <2>2, <2>3 DEF CallbackLife, EnteredOnce, NotStarted, TypeOK, Live
  <2>5. c # None /\ c \in scheduled
      BY <1>a, <2>1, <2>3 DEF Live, CallbackLife, EnteredOnce
  <2>6. /\ \A i \in DOMAIN m_fibers : m_fibers[i].cb # c
        /\ \A u \in Runners : ft[u].cb # c
        /\ \A g \in Fibers \ {f} : m_cb[g] # c
      BY <1>a, <2>3, <2>5 DEF CallbackLife, CallbackOnce
  <2>7. EnteredOnce'
    <3>1. \A d \in Callbacks : /\ started'[d] <= 1
                               /\ d \notin scheduled => started'[d] = 0 /\ d \notin finished
        BY <1>a, <2>4, <2>5 DEF CallbackLife, EnteredOnce
    <3>2. \A i \in DOMAIN m_fibers : m_fibers[i].cb # None => NotStarted(m_fibers[i].cb)'
        BY <1>a, <2>2, <2>4, <2>6, ItemTypes DEF CallbackLife, EnteredOnce, NotStarted, TypeOK
    <3>3. \A u \in Runners : ft[u].cb # None => NotStarted(ft[u].cb)'
        BY <1>a, <2>2, <2>4, <2>6, ItemTypes DEF CallbackLife, EnteredOnce, NotStarted, TypeOK
    <3>4. \A g \in Fibers : m_cb[g] # None =>
             m_cb[g] \in scheduled /\ (m_state'[g] = "INIT" => NotStarted(m_cb[g])')
        BY <1>a, <2>2, <2>4, <2>6 DEF CallbackLife, EnteredOnce, NotStarted, TypeOK
    <3> QED
        BY <2>2, <3>1, <3>2, <3>3, <3>4 DEF EnteredOnce
  <2> QED
      BY <1>a, <2>2, <2>7 DEF CallbackLife, CallbackOnce, CallbackKept
<1>8. CASE Return(t)
  <2>1. PICK f \in Fibers : f = Cur(t)
      BY <1>b, <1>8 DEF Return, InTask
  <2>2. /\ UNCHANGED <<m_fibers, ft, scheduled, started>>
        /\ m_state'[f] = "TERM" /\ m_cb'[f] = None /\ m_cb[f] # None
        /\ finished' = finished \cup {m_cb[f]}
        /\ \A g \in Fibers \ {f} : m_state'[g] = m_state[g] /\ m_cb'[g] = m_cb[g]
      BY <1>a, <1>8, <2>1 DEF Return, TypeOK
  <2> QED
      BY <1>a, <1>c, <2>2, EndCallbacks
<1>9. CASE Throw(t)
  <2>1. PICK f \in Fibers : f = Cur(t) /\ m_cb[f] # None
      BY <1>b, <1>9 DEF Throw, InTask, Orderly, Live
  <2>2. /\ UNCHANGED <<m_fibers, ft, scheduled, started>>
        /\ m_state'[f] = "EXCEPT" /\ m_cb'[f] = m_cb[f] /\ m_cb[f] # None
        /\ finished' = finished \cup {m_cb[f]}
        /\ \A g \in Fibers \ {f} : m_state'[g] = m_state[g] /\ m_cb'[g] = m_cb[g]
      BY <1>a, <1>9, <2>1 DEF Throw, TypeOK
  <2> QED
      BY <1>a, <1>c, <2>2, EndCallbacks
<1>10. CASE YieldToReady(t)
    BY <1>a, <1>10, QuietCallbacks DEF YieldToReady, TypeOK
<1>11. CASE Arm(t)
    BY <1>a, <1>11, QuietCallbacks DEF Arm
<1>12. CASE YieldToHold(t)
    BY <1>a, <1>12, QuietCallbacks DEF YieldToHold, TypeOK
<1>13. CASE BodySchedule(t)
    BY <1>a, <1>13, PinsType, ScheduleCallbacks DEF BodySchedule
<1>14. CASE BodyWake(t)
  <2>1. PICK f \in Fibers : Schedule(FiberItem(f, AnyThread))
      BY <1>14 DEF BodyWake
  <2> QED
      BY <1>a, <1>d, <1>14, <2>1, ScheduleAppends, QuietCallbacks DEF BodyWake
<1>15. CASE SwapOut(t)
    BY <1>a, <1>15, QuietCallbacks DEF SwapOut
<1>16. CASE Deactivate(t)
    BY <1>a, <1>16, QuietCallbacks DEF Deactivate
<1>17. CASE Requeue(t)
  <2>1. Cur(t) \in Fibers /\ Schedule(FiberItem(Cur(t), AnyThread)) /\ ft[t].cb = None
      BY <1>b, <1>c, <1>17 DEF Requeue, InTask
  <2>2. \A u \in Runners : ft'[u].cb = ft[u].cb
      BY <1>a, <1>17, <2>1 DEF Requeue, TypeOK
  <2> QED
      BY <1>a, <1>d, <1>17, <2>1, <2>2, ScheduleAppends, QuietCallbacks DEF Requeue
<1>18. CASE LetGo(t)
  <2>1. UNCHANGED ft \/ ft' = [ft EXCEPT ![t] = NoItem]
    <3>1. CASE m_state[ft[t].fiber] = "EXEC"
        BY <1>18, <3>1, Zenon DEF LetGo
    <3>2. CASE m_state[ft[t].fiber] # "EXEC"
        BY <1>18, <3>2, Zenon DEF LetGo
    <3> QED
        BY <3>1, <3>2
  <2>2. \A u \in Runners : ft'[u].cb = ft[u].cb
      BY <1>a, <1>c, <1>18, <2>1 DEF LetGo, TypeOK
  <2> QED
      BY <1>a, <1>18, <2>2, QuietCallbacks DEF LetGo
<1>19. CASE KeepSpare(t)
  <2>1. PICK f \in Fibers : f = Cur(t) /\ f = cb_fiber[t]
      BY <1>b, <1>19 DEF KeepSpare, InTask, Cur
  <2>2. ~Live(f) /\ pc[t] = "after"
      BY <1>19, <2>1 DEF KeepSpare, Orderly
  <2>3. /\ UNCHANGED <<m_fibers, ft, scheduled, started, finished>>
        /\ m_cb'[f] = None /\ \A g \in Fibers \ {f} : m_state'[g] = m_state[g] /\ m_cb'[g] = m_cb[g]
      BY <1>a, <1>19, <2>1 DEF KeepSpare, Reset, TypeOK
  <2> QED
      BY <1>a, <2>2, <2>3, ClearCallbacks
<1>20. CASE HoldCb(t)
    BY <1>a, <1>20, QuietCallbacks DEF HoldCb, TypeOK
<1>21. CASE EnterIdle(t)
    BY <1>a, <1>21, QuietCallbacks DEF EnterIdle
<1>22. CASE IdleCheck(t)
    BY <1>a, <1>22, QuietCallbacks DEF IdleCheck
<1>23. CASE LeaveIdle(t)
    BY <1>a, <1>23, QuietCallbacks DEF LeaveIdle
<1>24. CASE ExitRun(t)
    BY <1>a, <1>24, QuietCallbacks DEF ExitRun
<1> QED
    BY <1>1, <1>2, <1>3, <1>4, <1>5, <1>6, <1>7, <1>8, <1>9, <1>10, <1>11, <1>12,
       <1>13, <1>14, <1>15, <1>16, <1>17, <1>18, <1>19, <1>20, <1>21, <1>22, <1>23, <1>24
    DEF Run, Body

LEMMA CallbacksMain ==
    ASSUME Orderly, CallbackLife, Main
    PROVE  CallbackLife'
<1> USE DEF Mark, queueVars, stopVars, mainVars, runVars, fiberVars, histVars
<1>a. TypeOK
    BY DEF Orderly
<1>1. CASE Start \/ Stop
  <2>1. UNCHANGED <<m_fibers, ft, m_state, m_cb, scheduled, finished, started>>
      BY <1>1 DEF Start, Stop, StopBegin, StopEarly, StopSet, StopCall, StopCallReturns, StopJoin
  <2> QED
      BY <1>a, <2>1, QuietCallbacks
<1>2. CASE MainScheduleCb
    BY <1>a, <1>2, PinsType, ScheduleCallbacks DEF MainScheduleCb
<1>3. CASE MainScheduleFiber
  <2>1. PICK c \in Callbacks \ scheduled, thr \in MainPins, f \in Fibers :
           Fresh(f) /\ Schedule(FiberItem(f, thr)) /\ Record(c, thr) /\ Reset(f, c)
      BY <1>3 DEF MainScheduleFiber
  <2>2. UNCHANGED <<ft, finished, started>>
      BY <1>3 DEF MainScheduleFiber
  <2>3. FiberItem(f, thr) \in Item /\ FiberItem(f, thr).cb = None /\ c # None
      BY PinsType, ItemTypes, SchedulerAssumption DEF FiberItem
  <2>4. ~Live(f)
      BY <2>1 DEF Orderly
  <2>5. /\ \A i \in DOMAIN m_fibers : m_fibers[i].cb # c
        /\ \A u \in Runners : ft[u].cb # c
        /\ \A g \in Fibers : m_cb[g] # c
        /\ scheduled' = scheduled \cup {c} /\ c \notin finished /\ started[c] = 0
      BY <1>a, <2>1, <2>3 DEF CallbackLife, EnteredOnce, NotStarted, Record
  <2>6. /\ \A i \in DOMAIN m_fibers' :
              (i \in DOMAIN m_fibers /\ m_fibers'[i] = m_fibers[i]) \/ m_fibers'[i].cb = None
        /\ \A i \in DOMAIN m_fibers : i \in DOMAIN m_fibers' /\ m_fibers'[i] = m_fibers[i]
      BY <1>a, <2>1, <2>3, ScheduleAppends
  <2> QED
      BY <1>a, <2>1, <2>2, <2>3, <2>4, <2>5, <2>6, ResetCallbacks
<1>4. CASE MainScheduleAgain
  <2>1. PICK f \in Fibers : Schedule(FiberItem(f, AnyThread))
      BY <1>a, <1>4 DEF MainScheduleAgain, TypeOK
  <2>2. FiberItem(f, AnyThread) \in Item /\ FiberItem(f, AnyThread).cb = None
      BY ItemTypes DEF FiberItem
  <2> QED
      BY <1>a, <1>4, <2>1, <2>2, ScheduleAppends, QuietCallbacks DEF MainScheduleAgain
<1>5. CASE MainWake
  <2>1. PICK f \in Fibers : Schedule(FiberItem(f, AnyThread))
      BY <1>5 DEF MainWake
  <2>2. FiberItem(f, AnyThread) \in Item /\ FiberItem(f, AnyThread).cb = None
      BY ItemTypes DEF FiberItem
  <2> QED
      BY <1>a, <1>5, <2>1, <2>2, ScheduleAppends, QuietCallbacks DEF MainWake
<1> QED
    BY <1>1, <1>2, <1>3, <1>4, <1>5 DEF Main

-----------------------------------------------------------------------------
LEMMA TaskInvInit == Init => TaskInv
<1> SUFFICES ASSUME Init PROVE TaskInv
    OBVIOUS
<1>1. SchedulerInv
    BY TypeInit, PhasesInit, OwnershipInit DEF SchedulerInv, TypeInv
<1>2. FiberLife
    BY DEF Init, FiberLife, EntriesNameOne, QueuedWaits, InHandFits, InHand, Handling, InTask,
           ArmedHolds, SpareIsEmpty, LiveIsPlaced, Live, NoItem
<1>3. CallbackLife
    BY DEF Init, CallbackLife, CallbackOnce, CallbackKept, EnteredOnce, NoItem
<1> QED
    BY <1>1, <1>2, <1>3 DEF TaskInv

LEMMA TaskInvNext ==
    ASSUME PromptWake = FALSE, MaxDups = 0
    PROVE  TaskInv /\ [Next]_vars => TaskInv'
<1> SUFFICES ASSUME TaskInv, [Next]_vars PROVE TaskInv'
    OBVIOUS
<1>1. SchedulerInv'
    BY SchedulerInvNext DEF TaskInv
<1>2. CASE Main
    BY <1>1, <1>2, FiberLifeMain, CallbacksMain, TaskOrderly DEF TaskInv
<1>3. ASSUME NEW t \in Runners, Run(t) PROVE TaskInv'
    BY <1>1, <1>3, FiberLifeRun, CallbacksRun, TaskOrderly DEF TaskInv
<1>4. CASE UNCHANGED vars
  <2> USE <1>4 DEF vars, queueVars, stopVars, mainVars, runVars, fiberVars, histVars
  <2>1. FiberLife'
      BY QuietLife DEF TaskInv, Same
  <2>2. CallbackLife'
      BY QuietCallbacks DEF TaskInv
  <2> QED
      BY <1>1, <2>1, <2>2 DEF TaskInv
<1> QED
    BY <1>2, <1>3, <1>4 DEF Next, Ended

(* When wakers fire only after a fiber was put away and no Fiber::ptr is    *)
(* scheduled twice, what run() does with Fiber::m_state and m_cb, and       *)
(* schedule() with m_fibers, keeps every fiber and every callback where the *)
(* scheduler will find it again.                                            *)
THEOREM TasksAreKept ==
    ASSUME PromptWake = FALSE, MaxDups = 0
    PROVE  Spec => []TaskInv
<1> QED
    BY TaskInvInit, TaskInvNext, PTL DEF Spec

(* Then run() enters a callback at most once, and only a callback that was  *)
(* given to schedule().                                                     *)
THEOREM CallbackEnteredOnce ==
    ASSUME PromptWake = FALSE, MaxDups = 0
    PROVE  Spec => []AtMostOnce
<1>1. TaskInv => AtMostOnce
    BY DEF TaskInv, SchedulerInv, TypeOK, CallbackLife, EnteredOnce, AtMostOnce
<1> QED
    BY <1>1, TasksAreKept, PTL

(* The places that count for a callback, by who has it. *)
LEMMA OnePlace ==
    ASSUME NEW A, NEW B, NEW C, NEW x,
           \/ A = {x} /\ B = {} /\ C = {}
           \/ A = {} /\ B = {x} /\ C = {}
           \/ A = {} /\ B = {} /\ C = {x}
    PROVE  Cardinality(A) + Cardinality(B) + Cardinality(C) = 1
<1>1. Cardinality({}) = 0 /\ Cardinality({x}) = 1
    BY FS_EmptySet, FS_Singleton
<1> QED
    BY <1>1

(* A fiber that holds the one callback c is in one place. *)
LEMMA FiberPlace ==
    ASSUME TaskInv, NEW f \in Fibers, Live(f)
    PROVE  LET A == {i \in DOMAIN m_fibers : m_fibers[i].fiber = f}
               B == {t \in Runners : InHand(t, f)}
               C == {g \in {f} : Parked(g)}
           IN  \E x : \/ A = {x} /\ B = {} /\ C = {}
                      \/ A = {} /\ B = {x} /\ C = {}
                      \/ A = {} /\ B = {} /\ C = {x}
<1> DEFINE A == {i \in DOMAIN m_fibers : m_fibers[i].fiber = f}
           B == {t \in Runners : InHand(t, f)}
           C == {g \in {f} : Parked(g)}
<1>a. SchedulerInv /\ FiberLife /\ TypeOK /\ f # None
    BY SchedulerAssumption DEF TaskInv, SchedulerInv
<1>1. CASE \E i \in DOMAIN m_fibers : m_fibers[i].fiber = f
  <2>1. PICK i \in DOMAIN m_fibers : m_fibers[i].fiber = f
      BY <1>1
  <2>2. A = {i}
      BY <1>a, <2>1 DEF SchedulerInv, Ownership, QueuedOnce
  <2>3. B = {}
      BY <1>a, <2>1, InHandAlone
  <2>4. C = {}
      BY <1>a, <2>1 DEF SchedulerInv, Ownership, QueuedIsFree, Parked
  <2> QED
      BY <2>2, <2>3, <2>4
<1>2. CASE \E t \in Runners : InHand(t, f)
  <2>1. PICK t \in Runners : InHand(t, f)
      BY <1>2
  <2>2. A = {} /\ B = {t} /\ Holds(t, f)
      BY <1>a, <2>1, InHandAlone
  <2>3. C = {}
    <3>1. CASE f \in waker
        BY <1>a, <2>1, <2>2, <3>1
        DEF SchedulerInv, Ownership, ArmedSuspends, Suspending, InTask, Parked, Handling
    <3>2. CASE f \notin waker
        BY <3>2 DEF Parked
    <3> QED
        BY <3>1, <3>2
  <2> QED
      BY <2>2, <2>3
<1>3. CASE /\ \A i \in DOMAIN m_fibers : m_fibers[i].fiber # f
           /\ \A t \in Runners : ~InHand(t, f)
  <2>1. f \in waker
      BY <1>a, <1>3 DEF FiberLife, LiveIsPlaced, Queued
  <2>2. \A t \in Runners : ~Holds(t, f)
      BY <1>a, <1>3, <2>1
      DEF SchedulerInv, Ownership, ArmedSuspends, Suspending, InTask, InHand, Handling
  <2>3. Parked(f)
      BY <1>a, <1>3, <2>1, <2>2 DEF FiberLife, ArmedHolds, Parked, InHand
  <2>4. A = {} /\ B = {} /\ C = {f}
      BY <1>3, <2>3
  <2> QED
      BY <2>4
<1> QED
    BY <1>1, <1>2, <1>3

LEMMA TaskInvConserves == TaskInv => Conserved
<1> SUFFICES ASSUME TaskInv, NEW c \in scheduled \ finished PROVE Places(c) = 1
    BY DEF Conserved
<1>a. SchedulerInv /\ FiberLife /\ TypeOK /\ CallbackLife /\ c # None
    BY SchedulerAssumption DEF TaskInv, SchedulerInv, TypeOK
<1> DEFINE A == {i \in DOMAIN m_fibers : InItem(m_fibers[i], c)}
           B == {t \in Runners : \/ pc[t] = "got" /\ InItem(ft[t], c)
                                 \/ pc[t] \in InTask /\ m_cb[Cur(t)] = c}
           C == {f \in Fibers : m_cb[f] = c /\ Parked(f)}
<1>b. /\ \A i \in DOMAIN m_fibers : m_fibers[i].fiber \in Fibers \cup {None}
      /\ \A t \in Runners : ft[t].fiber \in Fibers \cup {None}
      /\ \A t \in Runners : pc[t] \in InTask => Cur(t) \in Fibers
    BY <1>a, ItemTypes DEF TypeOK, SchedulerInv, Ownership, TaskHasFiber
<1>1. CASE \E i \in DOMAIN m_fibers : m_fibers[i].cb = c
  <2>1. PICK i \in DOMAIN m_fibers : m_fibers[i].cb = c
      BY <1>1
  <2>2. A = {i} /\ B = {} /\ C = {}
      BY <1>a, <1>b, <2>1 DEF CallbackLife, CallbackOnce, InItem
  <2> HIDE DEF A, B, C
  <2>3. Cardinality(A) + Cardinality(B) + Cardinality(C) = 1
    <3>1. Cardinality({}) = 0 /\ Cardinality({i}) = 1
        BY FS_EmptySet, FS_Singleton
    <3>2. Cardinality(A) = 1 /\ Cardinality(B) = 0 /\ Cardinality(C) = 0
        BY <2>2, <3>1, Zenon
    <3> QED
        BY <3>2
  <2> QED
      BY <2>3 DEF Places, A, B, C
<1>2. CASE \E t \in Runners : ft[t].cb = c
  <2>1. PICK t \in Runners : ft[t].cb = c /\ pc[t] = "got"
      BY <1>2, <1>a DEF FiberLife, EntriesNameOne
  <2>2. A = {} /\ B = {t} /\ C = {}
      BY <1>a, <1>b, <2>1 DEF CallbackLife, CallbackOnce, InItem
  <2> HIDE DEF A, B, C
  <2>3. Cardinality(A) + Cardinality(B) + Cardinality(C) = 1
    <3>1. Cardinality({}) = 0 /\ Cardinality({t}) = 1
        BY FS_EmptySet, FS_Singleton
    <3>2. Cardinality(A) = 0 /\ Cardinality(B) = 1 /\ Cardinality(C) = 0
        BY <2>2, <3>1, Zenon
    <3> QED
        BY <3>2
  <2> QED
      BY <2>3 DEF Places, A, B, C
<1>3. CASE \E f \in Fibers : m_cb[f] = c
  <2>1. PICK f \in Fibers : m_cb[f] = c
      BY <1>3
  <2>2. \A g \in Fibers : m_cb[g] = c <=> g = f
      BY <1>a, <2>1 DEF CallbackLife, CallbackOnce
  <2>3. Live(f)
      BY <1>a, <2>1 DEF Live
  <2>4. A = {i \in DOMAIN m_fibers : m_fibers[i].fiber = f}
      BY <1>a, <1>b, <2>1, <2>2, SchedulerAssumption DEF CallbackLife, CallbackOnce, InItem
  <2>5. B = {t \in Runners : InHand(t, f)}
      BY <1>a, <1>b, <2>1, <2>2, SchedulerAssumption
      DEF CallbackLife, CallbackOnce, InItem, InHand, Handling
  <2>6. C = {g \in {f} : Parked(g)}
      BY <2>2
  <2> HIDE DEF A, B, C
  <2>7. \E x : \/ A = {x} /\ B = {} /\ C = {}
               \/ A = {} /\ B = {x} /\ C = {}
               \/ A = {} /\ B = {} /\ C = {x}
      BY <2>3, <2>4, <2>5, <2>6, FiberPlace
  <2>8. Cardinality(A) + Cardinality(B) + Cardinality(C) = 1
      BY <2>7, OnePlace
  <2> QED
      BY <2>8 DEF Places, A, B, C
<1> QED
    BY <1>a, <1>1, <1>2, <1>3 DEF CallbackLife, CallbackKept

(* No task is lost or doubled: a callback that was given to schedule() and  *)
(* has not ended is in one entry of m_fibers, or with one thread of run(),  *)
(* or in one suspended fiber whose waker can still schedule it.             *)
THEOREM TasksAreConserved ==
    ASSUME PromptWake = FALSE, MaxDups = 0
    PROVE  Spec => []Conserved
<1> QED
    BY TasksAreKept, TaskInvConserves, PTL

-----------------------------------------------------------------------------
(* Counting the threads that are in some part of run(). *)
At(S) == {u \in Runners : pc[u] \in S}

LEMMA RunnersFinite == IsFiniteSet(Runners)
BY SchedulerAssumption, FS_AddElement DEF Runners

LEMMA CountMoves ==
    ASSUME NEW S, NEW t \in Runners, \A u \in Runners \ {t} : pc'[u] = pc[u]
    PROVE  /\ Cardinality(At(S)) \in Nat
           /\ pc[t] \in S <=> pc'[t] \in S => Cardinality(At(S)') = Cardinality(At(S))
           /\ pc[t] \notin S /\ pc'[t] \in S => Cardinality(At(S)') = Cardinality(At(S)) + 1
           /\ pc[t] \in S /\ pc'[t] \notin S => Cardinality(At(S)') = Cardinality(At(S)) - 1
<1>1. IsFiniteSet(At(S)) /\ IsFiniteSet(At(S)')
    BY RunnersFinite, FS_Subset DEF At
<1>2. CASE pc[t] \in S <=> pc'[t] \in S
  <2>1. At(S)' = At(S)
      BY <1>2 DEF At
  <2> QED
      BY <1>1, <1>2, <2>1, FS_CardinalityType
<1>3. CASE pc[t] \notin S /\ pc'[t] \in S
  <2>1. At(S)' = At(S) \cup {t} /\ t \notin At(S)
      BY <1>3 DEF At
  <2> QED
      BY <1>1, <1>3, <2>1, FS_AddElement, FS_CardinalityType
<1>4. CASE pc[t] \in S /\ pc'[t] \notin S
  <2>1. At(S)' = At(S) \ {t} /\ t \in At(S)
      BY <1>4 DEF At
  <2> QED
      BY <1>1, <1>4, <2>1, FS_RemoveElement, FS_CardinalityType
<1> QED
    BY <1>2, <1>3, <1>4

Active == {"got", "enter", "switch", "body", "parking", "leave", "back"}
Idling == {"idle", "idleback"}

LEMMA CountedIs ==
    /\ Counted <=> /\ m_activeThreadCount = Cardinality(At(Active))
                   /\ m_idleThreadCount = Cardinality(At(Idling))
    /\ Counted' <=> /\ m_activeThreadCount' = Cardinality(At(Active)')
                    /\ m_idleThreadCount' = Cardinality(At(Idling)')
<1>1. {"got"} \cup (InTask \ {"after"}) = Active
    BY DEF InTask, Active
<1> QED
    BY <1>1 DEF Counted, At, Idling

(* Which steps of run() change a counter. *)
LEMMA CountersRun ==
    ASSUME TypeOK, NEW t \in Runners, Run(t)
    PROVE  /\ \A u \in Runners \ {t} : pc'[u] = pc[u]
           /\ m_activeThreadCount' = m_activeThreadCount +
                 (IF pc[t] \notin Active /\ pc'[t] \in Active THEN 1 ELSE
                  IF pc[t] \in Active /\ pc'[t] \notin Active THEN 0 - 1 ELSE 0)
           /\ m_idleThreadCount' = m_idleThreadCount +
                 (IF pc[t] \notin Idling /\ pc'[t] \in Idling THEN 1 ELSE
                  IF pc[t] \in Idling /\ pc'[t] \notin Idling THEN 0 - 1 ELSE 0)
<1> USE DEF TypeOK, Active, Idling, Goto, ActiveDown, queueVars, runVars, MaySuspend
<1>1. CASE Pick(t)
    BY <1>1 DEF Pick
<1>2. CASE PickNothing(t)
    BY <1>2 DEF PickNothing
<1>3. CASE DispatchFiber(t)
    BY <1>3 DEF DispatchFiber
<1>4. CASE DropEnded(t)
    BY <1>4 DEF DropEnded
<1>5. CASE DispatchCb(t)
    BY <1>5 DEF DispatchCb
<1>6. CASE SwapInCheck(t)
  <2>1. pc' = pc \/ pc' = [pc EXCEPT ![t] = "switch"]
    <3>1. CASE m_state[Cur(t)] = "EXEC"
        BY <1>6, <3>1, Zenon DEF SwapInCheck
    <3>2. CASE m_state[Cur(t)] # "EXEC"
        BY <1>6, <3>2, Zenon DEF SwapInCheck
    <3> QED
        BY <3>1, <3>2
  <2> QED
      BY <1>6, <2>1 DEF SwapInCheck
<1>7. CASE SwapIn(t)
    BY <1>7 DEF SwapIn
<1>8. CASE Body(t)
    BY <1>8 DEF Body, Return, Throw, YieldToReady, Arm, YieldToHold, BodySchedule, BodyWake
<1>9. CASE SwapOut(t)
    BY <1>9 DEF SwapOut
<1>10. CASE Deactivate(t)
    BY <1>10 DEF Deactivate
<1>11. CASE Requeue(t)
    BY <1>11 DEF Requeue
<1>12. CASE LetGo(t)
  <2>1. pc' = pc \/ pc' = [pc EXCEPT ![t] = "loop"]
    <3>1. CASE m_state[ft[t].fiber] = "EXEC"
        BY <1>12, <3>1, Zenon DEF LetGo
    <3>2. CASE m_state[ft[t].fiber] # "EXEC"
        BY <1>12, <3>2, Zenon DEF LetGo
    <3> QED
        BY <3>1, <3>2
  <2> QED
      BY <1>12, <2>1 DEF LetGo
<1>13. CASE KeepSpare(t)
    BY <1>13 DEF KeepSpare
<1>14. CASE HoldCb(t)
    BY <1>14 DEF HoldCb
<1>15. CASE EnterIdle(t)
    BY <1>15 DEF EnterIdle
<1>16. CASE IdleCheck(t)
    BY <1>16 DEF IdleCheck
<1>17. CASE LeaveIdle(t)
    BY <1>17 DEF LeaveIdle
<1>18. CASE ExitRun(t)
    BY <1>18 DEF ExitRun
<1> QED
    BY <1>1, <1>2, <1>3, <1>4, <1>5, <1>6, <1>7, <1>8, <1>9, <1>10, <1>11, <1>12,
       <1>13, <1>14, <1>15, <1>16, <1>17, <1>18 DEF Run

LEMMA CountedNext ==
    TypeInv /\ Phases /\ Counted /\ [Next]_vars => Counted'
<1> SUFFICES ASSUME TypeInv, Phases, Counted, [Next]_vars PROVE Counted'
    OBVIOUS
<1>a. /\ m_activeThreadCount = Cardinality(At(Active))
      /\ m_idleThreadCount = Cardinality(At(Idling))
    BY CountedIs
<1>b. /\ Counted' <=> /\ m_activeThreadCount' = Cardinality(At(Active)')
                      /\ m_idleThreadCount' = Cardinality(At(Idling)')
      /\ TypeOK
    BY CountedIs DEF TypeInv
<1>1. ASSUME NEW t \in Runners, Run(t) PROVE Counted'
  <2>1. /\ \A u \in Runners \ {t} : pc'[u] = pc[u]
        /\ m_activeThreadCount' = m_activeThreadCount +
                 (IF pc[t] \notin Active /\ pc'[t] \in Active THEN 1 ELSE
                  IF pc[t] \in Active /\ pc'[t] \notin Active THEN 0 - 1 ELSE 0)
        /\ m_idleThreadCount' = m_idleThreadCount +
                 (IF pc[t] \notin Idling /\ pc'[t] \in Idling THEN 1 ELSE
                  IF pc[t] \in Idling /\ pc'[t] \notin Idling THEN 0 - 1 ELSE 0)
      BY <1>1, <1>b, CountersRun
  <2>2. m_activeThreadCount' = Cardinality(At(Active)')
      BY <1>a, <2>1, CountMoves
  <2>3. m_idleThreadCount' = Cardinality(At(Idling)')
      BY <1>a, <2>1, CountMoves
  <2> QED
      BY <1>b, <2>2, <2>3
<1>2. ASSUME UNCHANGED <<m_activeThreadCount, m_idleThreadCount>>,
             \A u \in Runners : pc'[u] = pc[u] \/ (Apart(u) /\ pc'[u] = "loop")
      PROVE  Counted'
  <2>1. At(Active)' = At(Active) /\ At(Idling)' = At(Idling)
      BY <1>2 DEF At, Active, Idling, Apart
  <2> QED
      BY <1>a, <1>b, <1>2, <2>1
<1>3. CASE Main
  <2>1. UNCHANGED <<m_activeThreadCount, m_idleThreadCount>>
      BY <1>3 DEF Main, Start, Stop, StopBegin, StopEarly, StopSet, StopCall, StopCallReturns,
                  StopJoin, MainScheduleCb, MainScheduleFiber, MainScheduleAgain, MainWake,
                  queueVars
  <2>2. CASE Start \/ Stop
      BY <1>2, <2>1, <2>2, TurnsGo DEF TypeInv
  <2>3. CASE ~(Start \/ Stop)
    <3>1. pc' = pc
        BY <1>3, <2>3 DEF Main, MainScheduleCb, MainScheduleFiber, MainScheduleAgain, MainWake,
                          runVars
    <3> QED
        BY <1>2, <2>1, <3>1
  <2> QED
      BY <2>2, <2>3
<1>4. CASE UNCHANGED vars
    BY <1>2, <1>4 DEF vars, queueVars, runVars
<1> QED
    BY <1>1, <1>3, <1>4 DEF Next, Ended

(* m_activeThreadCount and m_idleThreadCount, which run() keeps with atomic *)
(* increments and decrements at four places, agree with where the threads   *)
(* are, whatever the wakers do.                                             *)
THEOREM CountersAgree == Spec => []Counted
<1>1. Init => TypeInv /\ Phases /\ Counted
  <2>1. Init => Counted
    <3> SUFFICES ASSUME Init PROVE Counted
        OBVIOUS
    <3>1. At(Active) = {} /\ At(Idling) = {}
        BY DEF Init, At, Active, Idling
    <3> QED
        BY <3>1, CountedIs, FS_EmptySet DEF Init
  <2> QED
      BY <2>1, TypeInit, PhasesInit
<1>2. TypeInv /\ Phases /\ [Next]_vars => TypeInv' /\ Phases'
    BY TypeNext, PhasesNext
<1> QED
    BY <1>1, <1>2, CountedNext, PTL DEF Spec

-----------------------------------------------------------------------------
(* The rounds of start() and stop() *)
LEMMA RoundsRun ==
    ASSUME TypeInv, Phases, Rounds, NEW t \in Runners, Run(t)
    PROVE  Rounds'
<1>1. /\ ~Apart(t)
      /\ \A u \in Runners \ {t} : pc'[u] = pc[u]
      /\ UNCHANGED <<main, starts, m_stopping>>
      /\ idleTerm' # idleTerm => m_stopping
      /\ pc'[t] = "exited" => t \in idleTerm
    BY DEF Run, Body, Pick, PickNothing, DispatchFiber, DropEnded, DispatchCb,
           SwapInCheck, SwapIn, Return, Throw, YieldToReady, Arm, YieldToHold,
           BodySchedule, BodyWake, SwapOut, Deactivate, Requeue, LetGo, KeepSpare,
           HoldCb, EnterIdle, IdleCheck, LeaveIdle, ExitRun, Goto, Apart, MaySuspend,
           stopVars, mainVars, runVars, TypeInv, TypeOK, Stopping
<1>2. CASE main = "up"
  <2>1. ~m_stopping /\ t # Root
      BY <1>1, <1>2, SchedulerAssumption DEF Phases, Runners
  <2> QED
      BY <1>1, <1>2, <2>1, SchedulerAssumption DEF Rounds, Apart, Runners
<1>3. CASE main # "up"
  <2>1. Root \in Runners /\ main \in BeforeCall => pc'[Root] = pc[Root]
      BY <1>1, <1>3 DEF Rounds, Apart, BeforeCall
  <2>2. main = "stopped" => \A u \in Pool : pc'[u] = "exited"
      BY <1>1, <1>3 DEF Rounds, Apart, Runners
  <2> QED
      BY <1>1, <1>3, <2>1, <2>2 DEF Rounds
<1> QED
    BY <1>2, <1>3

LEMMA RoundsMain ==
    ASSUME TypeInv, Phases, Rounds, Main
    PROVE  Rounds'
<1> USE DEF Rounds, Phases, Apart, BeforeCall, TypeInv, TypeOK, stopVars, mainVars, runVars
<1>1. CASE Start
  <2>1. /\ main' = "up" /\ ~m_stopping' /\ starts' = starts + 1 /\ starts' <= MaxStarts
        /\ \A u \in Pool : pc'[u] = "loop" /\ u \notin idleTerm'
      BY <1>1, SchedulerAssumption DEF Start, Runners
  <2>2. Root \in Runners => /\ pc'[Root] = pc[Root] /\ pc[Root] \in {"off", "exited"}
                            /\ main = "up" => pc[Root] = "off" \/ starts > 1
                            /\ main # "up" => starts > 0
      BY <1>1, SchedulerAssumption DEF Start
  <2> QED
      BY <2>1, <2>2
<1>2. CASE MainScheduleCb \/ MainScheduleFiber \/ MainScheduleAgain \/ MainWake
    BY <1>2 DEF MainScheduleCb, MainScheduleFiber, MainScheduleAgain, MainWake
<1>3. CASE StopBegin
    BY <1>3 DEF StopBegin
<1>4. CASE StopEarly
    BY <1>4 DEF StopEarly
<1>5. CASE StopSet
    BY <1>5 DEF StopSet
<1>6. CASE StopCall
    BY <1>6, SchedulerAssumption DEF StopCall, Goto
<1>7. CASE StopCallReturns
    BY <1>7 DEF StopCallReturns
<1>8. CASE StopJoin
    BY <1>8 DEF StopJoin, PoolJoined
<1> QED
    BY <1>1, <1>2, <1>3, <1>4, <1>5, <1>6, <1>7, <1>8 DEF Main, Stop

LEMMA RoundsNext ==
    TypeInv /\ Phases /\ Rounds /\ [Next]_vars => Rounds'
<1> SUFFICES ASSUME TypeInv, Phases, Rounds, [Next]_vars PROVE Rounds'
    OBVIOUS
<1>1. CASE UNCHANGED vars
    BY <1>1 DEF vars, Rounds, stopVars, mainVars, runVars
<1> QED
    BY <1>1, RoundsRun, RoundsMain DEF Next, Ended

-----------------------------------------------------------------------------
(* The assertions that end the program in a state of its own, and the one   *)
(* way to get there: Root calls its run() once more when it has returned.   *)
OnlyRestart == failed = "no" \/ (failed = "never reach" /\ UseCaller /\ starts > 1)

LEMMA OnlyRestartNext ==
    Orderly /\ Rounds /\ OnlyRestart /\ [Next]_vars => OnlyRestart'
<1> SUFFICES ASSUME Orderly, Rounds, OnlyRestart, [Next]_vars PROVE OnlyRestart'
    OBVIOUS
<1>1. ASSUME NEW t \in Runners, Run(t), failed = "no" PROVE failed' = "no"
  <2>1. CASE SwapInCheck(t)
    <3>1. m_state[Cur(t)] # "EXEC"
        BY <2>1 DEF SwapInCheck, Orderly
    <3> QED
        BY <1>1, <2>1, <3>1, Zenon DEF SwapInCheck
  <2>2. CASE LetGo(t)
    <3>1. m_state[ft[t].fiber] # "EXEC"
        BY <2>2 DEF LetGo, Orderly, Cur
    <3> QED
        BY <1>1, <2>2, <3>1, Zenon DEF LetGo
  <2>3. CASE ~SwapInCheck(t) /\ ~LetGo(t)
      BY <1>1, <2>3 DEF Run, Body, Pick, PickNothing, DispatchFiber, DropEnded, DispatchCb,
           SwapIn, Return, Throw, YieldToReady, Arm, YieldToHold,
           BodySchedule, BodyWake, SwapOut, Deactivate, Requeue, KeepSpare,
           HoldCb, EnterIdle, IdleCheck, LeaveIdle, ExitRun
  <2> QED
      BY <2>1, <2>2, <2>3
<1>2. ASSUME Main, failed = "no" PROVE OnlyRestart'
  <2>1. CASE StopCall
    <3>1. pc[Root] = "exited" => UseCaller /\ starts > 1
        BY <2>1, SchedulerAssumption DEF StopCall, Rounds, Runners, BeforeCall
    <3> QED
        BY <1>2, <2>1, <3>1 DEF StopCall, OnlyRestart
  <2>2. CASE ~StopCall
      BY <1>2, <2>2 DEF Main, Start, Stop, StopBegin, StopEarly, StopSet, StopCallReturns,
           StopJoin, MainScheduleCb, MainScheduleFiber, MainScheduleAgain, MainWake, OnlyRestart
  <2> QED
      BY <2>1, <2>2
<1>3. CASE UNCHANGED vars
    BY <1>3 DEF vars, mainVars, OnlyRestart
<1> QED
    BY <1>1, <1>2, <1>3 DEF Next, Ended, OnlyRestart

LEMMA RoundsInit == Init => Rounds /\ NoAssertFailure
BY SchedulerAssumption DEF Init, Rounds, NoAssertFailure, Runners

(* The others follow from where the fibers are and what state they are in.  *)
LEMMA TaskAssertions == TaskInv /\ OnlyRestart => NoAssertFailure
<1> SUFFICES ASSUME TaskInv, OnlyRestart PROVE NoAssertFailure
    OBVIOUS
<1>a. SchedulerInv /\ FiberLife /\ TypeOK
    BY DEF TaskInv, SchedulerInv
<1>1. \A i \in DOMAIN m_fibers : m_fibers[i].fiber # None \/ m_fibers[i].cb # None
    BY <1>a DEF FiberLife, EntriesNameOne, NamesOne
<1>2. ASSUME NEW t \in Runners, pc[t] = "got", cb_fiber[t] # None
      PROVE  m_state[cb_fiber[t]] = "INIT"
    BY <1>a, <1>2 DEF FiberLife, SpareIsEmpty, Handling, InTask
<1>3. ASSUME NEW t \in Runners, pc[t] = "switch"
      PROVE  m_state[Cur(t)] \notin {"TERM", "EXCEPT"}
  <2>1. Cur(t) \in Fibers /\ Fits(t, Cur(t))
      BY <1>a, <1>3, InTaskHand DEF FiberLife, InHandFits, InTask
  <2> QED
      BY <1>3, <2>1 DEF Fits, Waiting
<1> QED
    BY <1>1, <1>2, <1>3 DEF NoAssertFailure, OnlyRestart

(* No assertion on a task fails, whatever the threads do: those of run(),   *)
(* swapIn(), reset() and MainFunc(), and, except for Root's second call of  *)
(* its run(), that of CallerMainFunc().                                     *)
THEOREM AssertionsHold ==
    ASSUME PromptWake = FALSE, MaxDups = 0
    PROVE  Spec => []NoAssertFailure
<1>1. TaskInv => TypeInv /\ Phases
    BY DEF TaskInv, SchedulerInv, TypeInv, Ownership
<1>2. Init => Rounds /\ OnlyRestart
    BY RoundsInit DEF NoAssertFailure, OnlyRestart
<1>3. TaskInv /\ Rounds /\ OnlyRestart /\ [Next]_vars => Rounds' /\ OnlyRestart'
    BY <1>1, TaskOrderly, RoundsNext, OnlyRestartNext
<1> QED
    BY <1>2, <1>3, TaskAssertions, TasksAreKept, PTL DEF Spec

-----------------------------------------------------------------------------
(* Every entry of the list has a thread that will look at it. *)
LEMMA TakersStay ==
    ASSUME HasTaker, \A u \in Runners : Gone(u)' => Gone(u),
           \A i \in DOMAIN m_fibers' :
              \/ \E k \in DOMAIN m_fibers : m_fibers'[i] = m_fibers[k]
              \/ \E u \in Runners : ~Gone(u)' /\ m_fibers'[i].thread \in {AnyThread, u}
    PROVE  HasTaker'
BY DEF HasTaker

LEMMA HasTakerRun ==
    ASSUME Pins # "any", TaskInv, HasTaker, NEW t \in Runners, Run(t)
    PROVE  HasTaker'
<1>a. SchedulerInv /\ FiberLife /\ TypeOK
    BY DEF TaskInv, SchedulerInv
<1>1. CASE PickNothing(t)
  <2>1. /\ UNCHANGED <<m_fibers, idleTerm, main, m_state>>
        /\ \A u \in Runners \ {t} : pc'[u] = pc[u]
        /\ \A i \in DOMAIN m_fibers : ~Takes(t, m_fibers[i])
      BY <1>a, <1>1 DEF PickNothing, Goto, queueVars, mainVars, fiberVars, TypeOK
  <2>2. \A u \in Runners \ {t} : Gone(u)' = Gone(u)
      BY <2>1 DEF Gone
  <2>3. \A i \in DOMAIN m_fibers : m_fibers[i].thread \notin {AnyThread, t}
      BY <1>a, <2>1 DEF FiberLife, QueuedWaits, Waiting, Takes
  <2> QED
      BY <2>1, <2>2, <2>3 DEF HasTaker
<1>2. CASE ~PickNothing(t)
  <2>1. /\ main' = main /\ \A u \in Runners \ {t} : pc'[u] = pc[u]
        /\ idleTerm' \subseteq idleTerm \cup {t}
      BY <1>a, <1>2, Run(t)
      DEF Run, Body, Pick, DispatchFiber, DropEnded, DispatchCb, SwapInCheck, SwapIn, Return,
          Throw, YieldToReady, Arm, YieldToHold, BodySchedule, BodyWake, SwapOut, Deactivate,
          Requeue, LetGo, KeepSpare, HoldCb, EnterIdle, IdleCheck, LeaveIdle, ExitRun, Goto,
          MaySuspend, mainVars, runVars, TypeOK
  <2>2. /\ pc'[t] = "exited" => pc[t] = "none" /\ t \in idleTerm
        /\ pc'[t] \notin {"none", "off"}
      BY <1>a, <1>2, Run(t)
      DEF Run, Body, Pick, DispatchFiber, DropEnded, DispatchCb, SwapInCheck, SwapIn, Return,
          Throw, YieldToReady, Arm, YieldToHold, BodySchedule, BodyWake, SwapOut, Deactivate,
          Requeue, LetGo, KeepSpare, HoldCb, EnterIdle, IdleCheck, LeaveIdle, ExitRun, Goto,
          MaySuspend, mainVars, runVars, TypeOK
  <2>3. \A u \in Runners : Gone(u)' => Gone(u)
      BY <2>1, <2>2 DEF Gone
  <2>4. CASE Pick(t)
    <3>1. PICK i \in DOMAIN m_fibers : Erase(i)
        BY <2>4 DEF Pick
    <3> QED
        BY <1>a, <3>1, <2>3, EraseKeeps, TakersStay
  <2>5. CASE m_fibers' = m_fibers
      BY <2>3, <2>5, TakersStay
  <2>6. CASE BodySchedule(t) \/ BodyWake(t) \/ Requeue(t)
    <3>1. PICK item \in Item : Schedule(item) /\ item.thread \in {AnyThread, t}
      <4>1. CASE BodySchedule(t)
          BY <4>1, PinsType, ItemTypes, SchedulerAssumption DEF BodySchedule, CbItem, PinsOf
      <4>2. CASE BodyWake(t)
          BY <4>2, ItemTypes DEF BodyWake, FiberItem
      <4>3. CASE Requeue(t)
        <5>1. Cur(t) \in Fibers
            BY <1>a, <4>3, InTaskHand DEF Requeue, InTask
        <5> QED
            BY <4>3, <5>1, ItemTypes DEF Requeue, FiberItem
      <4> QED
          BY <2>6, <4>1, <4>2, <4>3
    <3>2. \A i \in DOMAIN m_fibers' :
             (i \in DOMAIN m_fibers /\ m_fibers'[i] = m_fibers[i]) \/ m_fibers'[i] = item
        BY <1>a, <3>1, ScheduleAppends
    <3>3. ~Gone(t)'
      <4>1. pc'[t] \in {"body", "parking", "loop"}
          BY <1>a, <2>6 DEF BodySchedule, BodyWake, Requeue, Goto, runVars, TypeOK
      <4> QED
          BY <4>1 DEF Gone
    <3> QED
        BY <2>3, <3>1, <3>2, <3>3, TakersStay
  <2>7. m_fibers' = m_fibers \/ Pick(t) \/ BodySchedule(t) \/ BodyWake(t) \/ Requeue(t)
      BY <1>2, Run(t)
      DEF Run, Body, DispatchFiber, DropEnded, DispatchCb, SwapInCheck, SwapIn, Return, Throw,
          YieldToReady, Arm, YieldToHold, SwapOut, Deactivate, LetGo, KeepSpare, HoldCb,
          EnterIdle, IdleCheck, LeaveIdle, ExitRun, queueVars
  <2> QED
      BY <2>4, <2>5, <2>6, <2>7
<1> QED
    BY <1>1, <1>2

(* stop() does not go past the call of the root fiber while the list holds  *)
(* something, unless that fiber has returned.                               *)
LEMMA StopCallsRoot ==
    ASSUME Start \/ Stop, m_fibers # <<>>, Root \in Runners, main' \in {"join", "stopped"}
    PROVE  main \in {"join", "stopped"} \/ pc[Root] = "exited"
<1>1. CASE Start \/ StopBegin \/ StopCallReturns \/ StopJoin
    BY <1>1 DEF Start, StopBegin, StopCallReturns, StopJoin
<1>2. CASE StopEarly \/ StopSet
    BY <1>2, SchedulerAssumption DEF StopEarly, StopSet, NothingLeft, Runners
<1>3. CASE StopCall
  <2>1. ~Stopping
      BY DEF Stopping, NothingLeft
  <2> QED
      BY <1>3, <2>1 DEF StopCall
<1> QED
    BY <1>1, <1>2, <1>3 DEF Stop

LEMMA HasTakerMain ==
    ASSUME MaxDups = 0, UseCaller => MaxStarts <= 1, TaskInv, Rounds, HasTaker, Main
    PROVE  HasTaker'
<1>a. SchedulerInv /\ FiberLife /\ TypeOK /\ Phases
    BY DEF TaskInv, SchedulerInv
<1>1. CASE Start \/ Stop
  <2>1. m_fibers' = m_fibers
      BY <1>1 DEF Start, Stop, StopBegin, StopEarly, StopSet, StopCall, StopCallReturns, StopJoin,
                  queueVars
  <2>2. CASE m_fibers = <<>>
      BY <2>1, <2>2 DEF HasTaker
  <2>3. CASE m_fibers # <<>>
    <3>1. /\ idleTerm' \subseteq idleTerm
          /\ \A u \in Runners : pc'[u] = pc[u] \/ pc'[u] = "loop"
        BY <1>a, <1>1, TurnsGo
        DEF Start, Stop, StopBegin, StopEarly, StopSet, StopCall, StopCallReturns, StopJoin, runVars
    <3>2. Root \in Runners /\ main' \in {"join", "stopped"}
             => main \in {"join", "stopped"} \/ pc[Root] = "exited"
        BY <1>1, <2>3, StopCallsRoot
    <3>3. \A u \in Runners : Gone(u)' => Gone(u)
        BY <3>1, <3>2 DEF Gone
    <3> QED
        BY <2>1, <3>3, TakersStay
  <2> QED
      BY <2>2, <2>3
<1>2. CASE MainScheduleCb \/ MainScheduleFiber \/ MainWake
  <2>1. main = "up" /\ UNCHANGED <<pc, idleTerm, main>>
      BY <1>2 DEF MainScheduleCb, MainScheduleFiber, MainWake, runVars, mainVars
  <2>2. \A u \in Runners : ~Gone(u) /\ ~Gone(u)'
    <3>1. Root \in Runners => starts <= 1 /\ pc[Root] = "off"
        BY <1>a, <2>1, SchedulerAssumption DEF Rounds, BeforeCall, Runners, TypeOK
    <3> QED
        BY <2>1, <3>1 DEF Rounds, Gone, Runners
  <2>3. PICK item \in Item : Schedule(item)
      BY <1>2, PinsType, ItemTypes DEF MainScheduleCb, MainScheduleFiber, MainWake
  <2>4. \A i \in DOMAIN m_fibers' :
           (i \in DOMAIN m_fibers /\ m_fibers'[i] = m_fibers[i]) \/ m_fibers'[i] = item
      BY <1>a, <2>3, ScheduleAppends
  <2>5. item.thread \in Runners \cup {AnyThread}
      BY DEF Item
  <2>6. \E u \in Runners : item.thread \in {AnyThread, u}
      BY <2>5, SchedulerAssumption
  <2> QED
      BY <2>2, <2>4, <2>6, TakersStay
<1>3. CASE MainScheduleAgain
    BY <1>a, <1>3 DEF MainScheduleAgain, TypeOK
<1> QED
    BY <1>1, <1>2, <1>3 DEF Main

LEMMA StopInvInit == Init => StopInv
BY TaskInvInit, RoundsInit DEF StopInv, HasTaker, Init

LEMMA StopInvNext ==
    ASSUME PromptWake = FALSE, MaxDups = 0, Pins # "any", UseCaller => MaxStarts <= 1
    PROVE  StopInv /\ [Next]_vars => StopInv'
<1> SUFFICES ASSUME StopInv, [Next]_vars PROVE StopInv'
    OBVIOUS
<1>1. TypeInv /\ Phases /\ TaskInv /\ Rounds /\ HasTaker /\ OnlyRestart
    BY DEF StopInv, TaskInv, SchedulerInv, TypeInv, Ownership, NoAssertFailure, OnlyRestart
<1>a. (TaskInv /\ OnlyRestart => NoAssertFailure)'
    BY TaskAssertions, PTL
<1>2. TaskInv' /\ Rounds' /\ NoAssertFailure'
    BY <1>1, <1>a, TaskInvNext, TaskOrderly, RoundsNext, OnlyRestartNext
<1>3. CASE UNCHANGED vars
  <2>1. HasTaker'
      BY <1>1, <1>3 DEF vars, queueVars, runVars, mainVars, HasTaker, Gone
  <2> QED
      BY <1>2, <2>1 DEF StopInv
<1>4. CASE Main
    BY <1>1, <1>2, <1>4, HasTakerMain DEF StopInv
<1>5. ASSUME NEW t \in Runners, Run(t) PROVE StopInv'
    BY <1>1, <1>2, <1>5, HasTakerRun DEF StopInv
<1> QED
    BY <1>3, <1>4, <1>5 DEF Next, Ended

LEMMA StopInvDrains == StopInv => NoOrphan /\ StopDrains
<1> SUFFICES ASSUME StopInv PROVE NoOrphan /\ StopDrains
    OBVIOUS
<1>a. SchedulerInv /\ FiberLife /\ CallbackLife /\ TypeOK /\ Phases /\ HasTaker /\ Rounds
    BY DEF StopInv, TaskInv, SchedulerInv
<1>1. NoOrphan
    BY <1>a, SchedulerAssumption DEF HasTaker, NoOrphan, Runners
<1>2. ASSUME main = "stopped"
      PROVE  /\ m_fibers = <<>>
             /\ \A t \in Runners : pc[t] \in {"off", "exited"}
             /\ \A c \in scheduled \ finished : \E f \in Fibers : m_cb[f] = c /\ Parked(f)
  <2>1. \A t \in Runners : pc[t] \in {"off", "exited"} /\ Gone(t)
      BY <1>a, <1>2 DEF Phases, Rounds, Apart, Gone, Runners
  <2>2. DOMAIN m_fibers = {}
      BY <1>a, <2>1 DEF HasTaker
  <2>3. m_fibers = <<>>
      BY <1>a, <2>2 DEF TypeOK
  <2>4. ASSUME NEW c \in scheduled \ finished
        PROVE  \E f \in Fibers : m_cb[f] = c /\ Parked(f)
    <3>1. c # None
        BY <1>a, SchedulerAssumption DEF TypeOK
    <3>2. \A t \in Runners : ft[t].cb # c
        BY <1>a, <2>1, <3>1 DEF FiberLife, EntriesNameOne
    <3>3. PICK f \in Fibers : m_cb[f] = c
        BY <1>a, <2>2, <3>2 DEF CallbackLife, CallbackKept
    <3>4. \A t \in Runners : ~InHand(t, f) /\ ~Handling(t, f)
        BY <2>1 DEF InHand, Handling, InTask
    <3>5. f \in waker
        BY <1>a, <2>2, <3>1, <3>3, <3>4 DEF FiberLife, LiveIsPlaced, Live, Queued
    <3>6. \A t \in Runners : ~Holds(t, f)
        BY <1>a, <2>1, <3>5 DEF SchedulerInv, Ownership, ArmedSuspends, Suspending
    <3>7. m_state[f] = "HOLD"
        BY <1>a, <3>5, <3>6 DEF FiberLife, ArmedHolds
    <3> QED
        BY <3>3, <3>4, <3>5, <3>7 DEF Parked
  <2> QED
      BY <2>1, <2>3, <2>4
<1> QED
    BY <1>1, <1>2 DEF StopDrains

(* No entry of m_fibers waits for a thread that has left run() or is about  *)
(* to, when a body names no thread but its own in schedule().               *)
THEOREM NothingOrphaned ==
    ASSUME PromptWake = FALSE, MaxDups = 0, Pins # "any", UseCaller => MaxStarts <= 1
    PROVE  Spec => []NoOrphan
<1>1. StopInv => NoOrphan
    BY StopInvDrains
<1> QED
    BY <1>1, StopInvInit, StopInvNext, PTL DEF Spec

(* When stop() returns, m_fibers is empty, no thread is in run(), and every *)
(* task has ended or is suspended with a waker: each thread decides by      *)
(* itself that it may end, but what is scheduled later has a thread left    *)
(* that will take it.                                                       *)
THEOREM StopLeavesNothing ==
    ASSUME PromptWake = FALSE, MaxDups = 0, Pins # "any", UseCaller => MaxStarts <= 1
    PROVE  Spec => []StopDrains
<1>1. StopInv => StopDrains
    BY StopInvDrains
<1> QED
    BY <1>1, StopInvInit, StopInvNext, PTL DEF Spec

-----------------------------------------------------------------------------
(* The thread named in schedule() *)
LEMMA PinStays ==
    ASSUME TaskInv, PinKept, \A d \in scheduled : pin'[d] = pin[d],
           \A i \in DOMAIN m_fibers' :
              LET item == m_fibers'[i] IN
              \/ \E k \in DOMAIN m_fibers : item = m_fibers[k]
              \/ /\ item.cb # None => item.thread = pin'[item.cb]
                 /\ item.fiber # None /\ m_state'[item.fiber] = "INIT"
                       => item.thread = pin'[m_cb'[item.fiber]],
           \A i \in DOMAIN m_fibers, f \in Fibers : m_fibers[i].fiber = f /\ m_state'[f] = "INIT"
              => m_state[f] = "INIT" /\ m_cb'[f] = m_cb[f],
           \A u \in Runners : \/ ft'[u].cb = None \/ ft'[u].cb = ft[u].cb
                              \/ pin'[ft'[u].cb] \in {AnyThread, u},
           \A u \in Runners, f \in Fibers : InHand(u, f)' /\ m_state'[f] = "INIT"
              => \/ InHand(u, f) /\ m_state[f] = "INIT" /\ m_cb'[f] = m_cb[f]
                 \/ pin'[m_cb'[f]] \in {AnyThread, u}
    PROVE  PinKept'
<1>a. SchedulerInv /\ FiberLife /\ CallbackLife /\ TypeOK
    BY DEF TaskInv, SchedulerInv
<1>1. ASSUME NEW i \in DOMAIN m_fibers'
      PROVE  LET item == m_fibers'[i] IN
             /\ item.cb # None => item.thread = pin'[item.cb]
             /\ item.fiber # None /\ m_state'[item.fiber] = "INIT"
                   => item.thread = pin'[m_cb'[item.fiber]]
  <2> SUFFICES ASSUME NEW k \in DOMAIN m_fibers, m_fibers'[i] = m_fibers[k]
               PROVE  LET item == m_fibers[k] IN
                      /\ item.cb # None => item.thread = pin'[item.cb]
                      /\ item.fiber # None /\ m_state'[item.fiber] = "INIT"
                            => item.thread = pin'[m_cb'[item.fiber]]
      OBVIOUS
  <2>1. m_fibers[k].fiber \in Fibers \cup {None}
      BY <1>a, ItemTypes DEF TypeOK
  <2>2. m_fibers[k].cb # None => m_fibers[k].cb \in scheduled
      BY <1>a DEF CallbackLife, EnteredOnce, NotStarted
  <2>3. m_fibers[k].fiber # None => m_cb[m_fibers[k].fiber] \in scheduled
      BY <1>a, <2>1 DEF FiberLife, QueuedWaits, Live, CallbackLife, EnteredOnce
  <2> QED
      BY <2>1, <2>2, <2>3 DEF PinKept
<1>2. ASSUME NEW u \in Runners, ft'[u].cb # None PROVE pin'[ft'[u].cb] \in {AnyThread, u}
    BY <1>a, <1>2 DEF CallbackLife, EnteredOnce, NotStarted, PinKept
<1>3. ASSUME NEW u \in Runners, NEW f \in Fibers, InHand(u, f)', m_state'[f] = "INIT"
      PROVE  pin'[m_cb'[f]] \in {AnyThread, u}
  <2> SUFFICES ASSUME InHand(u, f), m_state[f] = "INIT", m_cb'[f] = m_cb[f]
               PROVE  pin'[m_cb[f]] \in {AnyThread, u}
      BY <1>3
  <2>1. Live(f)
      BY <1>a DEF FiberLife, InHandFits, Fits, InHand, Handling, InTask, Left
  <2>2. m_cb[f] \in scheduled
      BY <1>a, <2>1 DEF Live, CallbackLife, EnteredOnce
  <2> QED
      BY <2>2 DEF PinKept
<1> QED
    BY <1>1, <1>2, <1>3 DEF PinKept

(* schedule() of a callback, and of a fiber by its waker. *)
LEMMA PinScheduleCb ==
    ASSUME TaskInv, PinKept, NEW c \in Callbacks \ scheduled, NEW thr \in Runners \cup {AnyThread},
           Record(c, thr), Schedule(CbItem(c, thr)), UNCHANGED <<pc, ft, cb_fiber, m_state, m_cb>>
    PROVE  PinKept'
<1>a. TypeOK /\ c # None
    BY SchedulerAssumption DEF TaskInv, SchedulerInv
<1>1. pin'[c] = thr /\ \A d \in scheduled : pin'[d] = pin[d]
    BY <1>a DEF Record, TypeOK
<1>2. /\ CbItem(c, thr) \in Item /\ CbItem(c, thr).cb = c /\ CbItem(c, thr).fiber = None
      /\ CbItem(c, thr).thread = thr
    BY ItemTypes DEF CbItem
<1>3. \A i \in DOMAIN m_fibers' :
         (i \in DOMAIN m_fibers /\ m_fibers'[i] = m_fibers[i]) \/ m_fibers'[i] = CbItem(c, thr)
    BY <1>a, <1>2, ScheduleAppends
<1>4. \A u \in Runners, f \in Fibers : InHand(u, f)' = InHand(u, f)
    BY DEF InHand, Handling, Cur
<1> QED
    BY <1>1, <1>2, <1>3, <1>4, PinStays

LEMMA PinWake ==
    ASSUME PromptWake = FALSE, TaskInv, PinKept, NEW f \in Fibers, MayWake(f),
           Schedule(FiberItem(f, AnyThread)), UNCHANGED <<pc, ft, cb_fiber, m_state, m_cb, pin>>
    PROVE  PinKept'
<1>a. SchedulerInv /\ FiberLife /\ TypeOK
    BY DEF TaskInv, SchedulerInv
<1>1. m_state[f] = "HOLD"
  <2>1. \A t \in Runners : ~Holds(t, f)
      BY <1>a DEF MayWake, SchedulerInv, Ownership, ArmedSuspends, Handling, Suspending, InTask
  <2> QED
      BY <1>a, <2>1 DEF MayWake, FiberLife, ArmedHolds
<1>2. /\ FiberItem(f, AnyThread) \in Item /\ FiberItem(f, AnyThread).cb = None
      /\ FiberItem(f, AnyThread).fiber = f
    BY ItemTypes DEF FiberItem
<1>3. \A i \in DOMAIN m_fibers' :
         (i \in DOMAIN m_fibers /\ m_fibers'[i] = m_fibers[i]) \/ m_fibers'[i] = FiberItem(f, AnyThread)
    BY <1>a, <1>2, ScheduleAppends
<1>4. \A u \in Runners, g \in Fibers : InHand(u, g)' = InHand(u, g)
    BY DEF InHand, Handling, Cur
<1> QED
    BY <1>1, <1>2, <1>3, <1>4, PinStays

LEMMA PinRun ==
    ASSUME PromptWake = FALSE, TaskInv, PinKept, NEW t \in Runners, Run(t)
    PROVE  PinKept'
<1> USE DEF Goto, Mark, queueVars, mainVars, runVars, fiberVars, histVars
<1>a. SchedulerInv /\ FiberLife /\ CallbackLife /\ TypeOK
    BY DEF TaskInv, SchedulerInv
<1>b. \A u \in Runners \ {t} : Same(u)
    BY <1>a, Run(t) DEF Run, Body, Pick, PickNothing, DispatchFiber, DropEnded, DispatchCb,
           SwapInCheck, SwapIn, Return, Throw, YieldToReady, Arm, YieldToHold,
           BodySchedule, BodyWake, SwapOut, Deactivate, Requeue, LetGo, KeepSpare,
           HoldCb, EnterIdle, IdleCheck, LeaveIdle, ExitRun, MaySuspend,
           ResetFt, ResetCb, TypeOK, Same
<1>c. \A u \in Runners \ {t}, f \in Fibers : InHand(u, f)' = InHand(u, f)
    BY <1>b DEF InHand, Handling, Cur, Same
(* Steps that leave the fibers that are still INIT alone. *)
<1>d. ASSUME UNCHANGED pin,
             \A i \in DOMAIN m_fibers' :
                \/ \E k \in DOMAIN m_fibers : m_fibers'[i] = m_fibers[k]
                \/ /\ m_fibers'[i].cb = None
                   /\ m_fibers'[i].fiber # None /\ m_state'[m_fibers'[i].fiber] # "INIT",
             \A f \in Fibers : m_state'[f] = "INIT" => m_state[f] = "INIT" /\ m_cb'[f] = m_cb[f],
             ft'[t] = ft[t] \/ ft'[t].cb = None,
             \A f \in Fibers : InHand(t, f)' => InHand(t, f)
      PROVE  PinKept'
    BY <1>b, <1>c, <1>d, PinStays DEF Same
<1>1. CASE Pick(t)
  <2>1. PICK i \in DOMAIN m_fibers : /\ ft' = [ft EXCEPT ![t] = m_fibers[i]] /\ Erase(i)
                                     /\ Takes(t, m_fibers[i])
      BY <1>1 DEF Pick
  <2>2. /\ ft'[t] = m_fibers[i] /\ pc'[t] = "got"
        /\ UNCHANGED <<pin, m_state, m_cb>>
      BY <1>a, <1>1, <2>1 DEF Pick, TypeOK
  <2>3. \A j \in DOMAIN m_fibers' : \E k \in DOMAIN m_fibers : m_fibers'[j] = m_fibers[k]
      BY <1>a, <2>1, EraseKeeps
  <2>4. ft'[t].cb = None \/ pin[ft'[t].cb] \in {AnyThread, t}
      BY <2>1, <2>2 DEF PinKept, Takes
  <2>5. \A f \in Fibers : InHand(t, f)' /\ m_state[f] = "INIT" => pin[m_cb[f]] \in {AnyThread, t}
      BY <2>1, <2>2, SchedulerAssumption DEF PinKept, Takes, InHand, Handling, InTask
  <2>6. \A u \in Runners, f \in Fibers : InHand(u, f)' /\ m_state'[f] = "INIT"
              => \/ InHand(u, f) /\ m_state[f] = "INIT" /\ m_cb'[f] = m_cb[f]
                 \/ pin'[m_cb'[f]] \in {AnyThread, u}
      BY <1>c, <2>2, <2>5
  <2> QED
      BY <1>b, <2>2, <2>3, <2>4, <2>6, PinStays DEF Same
<1>2. CASE DispatchCb(t)
  <2>1. PICK f \in Fibers : /\ IF cb_fiber[t] # None THEN f = cb_fiber[t] ELSE Fresh(f)
                            /\ cb_fiber' = [cb_fiber EXCEPT ![t] = f]
                            /\ Reset(f, ft[t].cb)
      BY <1>2 DEF DispatchCb
  <2>2. /\ pc[t] = "got" /\ ft[t].fiber = None /\ ft'[t] = NoItem /\ cb_fiber'[t] = f
        /\ pc'[t] = "enter" /\ UNCHANGED <<pin, m_fibers>>
        /\ m_state'[f] = "INIT" /\ m_cb'[f] = ft[t].cb
        /\ \A g \in Fibers \ {f} : m_cb'[g] = m_cb[g] /\ m_state'[g] = m_state[g]
      BY <1>a, <1>2, <2>1 DEF DispatchCb, Reset, ResetFt, TypeOK
  <2>3. /\ \A u \in Runners \ {t} : ~Holds(u, f)
        /\ \A i \in DOMAIN m_fibers : m_fibers[i].fiber # f
      BY <1>a, <2>1, <2>2, DispatchCbFree
  <2>4. pin[ft[t].cb] \in {AnyThread, t}
      BY <1>a, <2>2 DEF PinKept, FiberLife, EntriesNameOne, NamesOne
  <2>5. \A g \in Fibers : InHand(t, g)' => g = f
      BY <2>2 DEF InHand, Handling, Cur, NoItem
  <2>6. \A u \in Runners \ {t} : ~InHand(u, f)
      BY <2>3 DEF InHand, Handling, Holds, Cur
  <2>7. \A u \in Runners, g \in Fibers : InHand(u, g)' /\ m_state'[g] = "INIT"
              => \/ InHand(u, g) /\ m_state[g] = "INIT" /\ m_cb'[g] = m_cb[g]
                 \/ pin'[m_cb'[g]] \in {AnyThread, u}
      BY <1>c, <2>2, <2>4, <2>5, <2>6
  <2> QED
      BY <1>b, <2>2, <2>3, <2>7, PinStays DEF Same, NoItem
<1>3. CASE KeepSpare(t)
  <2>1. /\ pc[t] = "after" /\ Cur(t) = cb_fiber[t] /\ pc'[t] = "loop"
        /\ UNCHANGED <<pin, m_fibers, ft>> /\ Reset(cb_fiber[t], None)
      BY <1>a, <1>3 DEF KeepSpare, Cur, TypeOK
  <2>2. PICK f \in Fibers : f = Cur(t) /\ InHand(t, f)
      BY <1>a, <2>1, InTaskHand DEF InTask
  <2>3. /\ \A u \in Runners \ {t} : ~InHand(u, f)
        /\ \A i \in DOMAIN m_fibers : m_fibers[i].fiber # f
      BY <1>a, <2>2, InHandAlone
  <2>4. \A g \in Fibers \ {f} : m_cb'[g] = m_cb[g] /\ m_state'[g] = m_state[g]
      BY <1>a, <2>1, <2>2 DEF Reset, TypeOK
  <2>5. \A g \in Fibers : ~InHand(t, g)'
      BY <2>1 DEF InHand, Handling, InTask
  <2>6. \A u \in Runners, g \in Fibers : InHand(u, g)' => g # f /\ InHand(u, g)
      BY <1>c, <2>3, <2>5
  <2> QED
      BY <2>1, <2>3, <2>4, <2>6, PinStays
<1>4. CASE BodySchedule(t)
  <2>1. PICK c \in Callbacks \ scheduled, thr \in PinsOf(t) : Record(c, thr) /\ Schedule(CbItem(c, thr))
      BY <1>4 DEF BodySchedule
  <2> QED
      BY <1>a, <1>4, <2>1, PinsType, PinScheduleCb DEF BodySchedule
<1>5. CASE Requeue(t)
  <2>1. PICK f \in Fibers : f = Cur(t) /\ InHand(t, f)
      BY <1>a, <1>5, InTaskHand DEF Requeue, InTask
  <2>2. /\ pc[t] = "after" /\ pc'[t] = "loop" /\ m_state[f] = "READY" /\ ft'[t] = NoItem
        /\ Schedule(FiberItem(f, AnyThread)) /\ UNCHANGED <<pin, m_state, m_cb>>
      BY <1>a, <1>5, <2>1 DEF Requeue, ResetFt, TypeOK
  <2>3. FiberItem(f, AnyThread) \in Item /\ FiberItem(f, AnyThread).cb = None
        /\ FiberItem(f, AnyThread).fiber = f
      BY ItemTypes DEF FiberItem
  <2>4. \A g \in Fibers : ~InHand(t, g)'
      BY <2>2 DEF InHand, Handling, InTask
  <2> QED
      BY <1>a, <1>d, <2>2, <2>3, <2>4, ScheduleAppends, SchedulerAssumption DEF NoItem
<1>6. CASE BodyWake(t)
  <2>1. PICK f \in Fibers : MayWake(f) /\ Schedule(FiberItem(f, AnyThread))
      BY <1>6 DEF BodyWake
  <2> QED
      BY <1>a, <1>6, <2>1, PinWake DEF BodyWake
<1>7. CASE PickNothing(t) \/ DropEnded(t) \/ LetGo(t) \/ SwapInCheck(t)
  <2>1. /\ UNCHANGED <<pin, m_fibers, m_state, m_cb, cb_fiber>>
        /\ \/ pc' = pc /\ ft' = ft
           \/ pc[t] = "enter" /\ pc'[t] = "switch" /\ ft' = ft
           \/ pc'[t] \in {"loop", "none"} /\ ft'[t] = NoItem
    <3>1. CASE PickNothing(t) \/ DropEnded(t)
        BY <1>a, <3>1 DEF PickNothing, DropEnded, ResetFt, TypeOK
    <3>2. CASE LetGo(t)
      <4>1. CASE m_state[ft[t].fiber] = "EXEC"
          BY <1>a, <3>2, <4>1 DEF LetGo
      <4>2. CASE m_state[ft[t].fiber] # "EXEC"
          BY <1>a, <3>2, <4>2 DEF LetGo, ResetFt, TypeOK
      <4> QED
          BY <4>1, <4>2
    <3>3. CASE SwapInCheck(t)
      <4>1. CASE m_state[Cur(t)] = "EXEC"
          BY <1>a, <3>3, <4>1 DEF SwapInCheck
      <4>2. CASE m_state[Cur(t)] # "EXEC"
          BY <1>a, <3>3, <4>2 DEF SwapInCheck, TypeOK
      <4> QED
          BY <4>1, <4>2
    <3> QED
        BY <1>7, <3>1, <3>2, <3>3
  <2>2. \A f \in Fibers : InHand(t, f)' => InHand(t, f)
      BY <2>1 DEF InHand, Handling, InTask, Cur
  <2> QED
      BY <1>d, <2>1, <2>2 DEF NoItem
<1>8. CASE \/ DispatchFiber(t) \/ SwapIn(t) \/ Return(t) \/ Throw(t) \/ YieldToReady(t) \/ Arm(t)
           \/ YieldToHold(t) \/ SwapOut(t) \/ Deactivate(t)
           \/ HoldCb(t) \/ EnterIdle(t) \/ IdleCheck(t) \/ LeaveIdle(t) \/ ExitRun(t)
  <2>1. UNCHANGED <<pin, m_fibers, ft>>
      BY <1>8 DEF DispatchFiber, SwapIn, Return, Throw, YieldToReady, Arm, YieldToHold, SwapOut,
                  Deactivate, HoldCb, EnterIdle, IdleCheck, LeaveIdle, ExitRun
  <2>2. \A f \in Fibers : m_state'[f] = "INIT" => m_state[f] = "INIT" /\ m_cb'[f] = m_cb[f]
      BY <1>a, <1>8 DEF DispatchFiber, SwapIn, Return, Throw, YieldToReady, Arm, YieldToHold,
                  SwapOut, Deactivate, HoldCb, EnterIdle, IdleCheck, LeaveIdle, ExitRun, TypeOK
  <2>3. \/ pc'[t] \in {"idle", "idleback", "loop", "exited"}
        \/ /\ cb_fiber' = cb_fiber
           /\ pc'[t] # "got"
           /\ pc[t] \in InTask \/ (pc[t] = "got" /\ ft[t].fiber # None)
      BY <1>a, <1>8 DEF DispatchFiber, SwapIn, Return, Throw, YieldToReady, Arm, YieldToHold,
                  SwapOut, Deactivate, HoldCb, EnterIdle, IdleCheck, LeaveIdle, ExitRun, TypeOK,
                  MaySuspend, InTask
  <2>4. \A f \in Fibers : InHand(t, f)' => InHand(t, f)
    <3>1. CASE pc'[t] \in {"idle", "idleback", "loop", "exited"}
        BY <3>1 DEF InHand, Handling, InTask
    <3>2. CASE cb_fiber' = cb_fiber /\ pc'[t] # "got"
               /\ (pc[t] \in InTask \/ (pc[t] = "got" /\ ft[t].fiber # None))
        BY <2>1, <3>2 DEF InHand, Handling, Cur
    <3> QED
        BY <2>3, <3>1, <3>2
  <2> QED
      BY <1>d, <2>1, <2>2, <2>4
<1> QED
    BY <1>1, <1>2, <1>3, <1>4, <1>5, <1>6, <1>7, <1>8 DEF Run, Body

LEMMA PinMain ==
    ASSUME PromptWake = FALSE, MaxDups = 0, TaskInv, PinKept, Main
    PROVE  PinKept'
<1> USE DEF mainVars, runVars, fiberVars, histVars
<1>a. SchedulerInv /\ FiberLife /\ CallbackLife /\ TypeOK /\ Phases
    BY DEF TaskInv, SchedulerInv
<1>1. CASE Start \/ Stop
  <2>1. UNCHANGED <<m_fibers, ft, cb_fiber, m_state, m_cb, pin>>
      BY <1>1 DEF Start, Stop, StopBegin, StopEarly, StopSet, StopCall, StopCallReturns, StopJoin,
                  queueVars
  <2>2. \A u \in Runners, f \in Fibers : InHand(u, f)' => InHand(u, f)
      BY <1>a, <1>1, <2>1, TurnsGo DEF InHand, Handling, InTask, Cur
  <2> QED
      BY <2>1, <2>2, PinStays
<1>2. CASE MainScheduleCb
    BY <1>2, PinsType, PinScheduleCb DEF MainScheduleCb
<1>3. CASE MainScheduleFiber
  <2>1. PICK c \in Callbacks \ scheduled, thr \in MainPins, f \in Fibers :
           Fresh(f) /\ Schedule(FiberItem(f, thr)) /\ Record(c, thr) /\ Reset(f, c)
      BY <1>3 DEF MainScheduleFiber
  <2>2. UNCHANGED <<pc, ft, cb_fiber>>
      BY <1>3 DEF MainScheduleFiber
  <2>3. /\ FiberItem(f, thr) \in Item /\ FiberItem(f, thr).cb = None
        /\ FiberItem(f, thr).fiber = f /\ FiberItem(f, thr).thread = thr
      BY PinsType, ItemTypes DEF FiberItem
  <2>4. /\ m_cb'[f] = c /\ \A g \in Fibers \ {f} : m_cb'[g] = m_cb[g] /\ m_state'[g] = m_state[g]
        /\ pin'[c] = thr /\ \A d \in scheduled : pin'[d] = pin[d]
      BY <1>a, <2>1 DEF Reset, Mark, Record, TypeOK
  <2>5. \A i \in DOMAIN m_fibers : m_fibers[i].fiber # f
      BY <2>1 DEF Fresh, Queued
  <2>6. \A u \in Runners, g \in Fibers : InHand(u, g)' => InHand(u, g) /\ g # f
      BY <2>1, <2>2 DEF InHand, Handling, Cur, Fresh, Holds
  <2>7. \A i \in DOMAIN m_fibers' :
           (i \in DOMAIN m_fibers /\ m_fibers'[i] = m_fibers[i]) \/ m_fibers'[i] = FiberItem(f, thr)
      BY <1>a, <2>1, <2>3, ScheduleAppends
  <2> QED
      BY <2>2, <2>3, <2>4, <2>5, <2>6, <2>7, PinStays
<1>4. CASE MainScheduleAgain
    BY <1>a, <1>4 DEF MainScheduleAgain, TypeOK
<1>5. CASE MainWake
    BY <1>5, PinWake DEF MainWake
<1> QED
    BY <1>1, <1>2, <1>3, <1>4, <1>5 DEF Main

LEMMA PinNext ==
    ASSUME PromptWake = FALSE, MaxDups = 0
    PROVE  TaskInv /\ PinKept /\ [Next]_vars => PinKept'
<1> SUFFICES ASSUME TaskInv, PinKept, [Next]_vars PROVE PinKept'
    OBVIOUS
<1>1. CASE UNCHANGED vars
  <2>1. UNCHANGED <<m_fibers, pc, ft, cb_fiber, m_state, m_cb, pin>>
      BY <1>1 DEF vars, queueVars, runVars, fiberVars, histVars
  <2>2. \A u \in Runners, f \in Fibers : InHand(u, f)' = InHand(u, f)
      BY <2>1 DEF InHand, Handling, Cur
  <2> QED
      BY <2>1, <2>2, PinStays
<1> QED
    BY <1>1, PinRun, PinMain DEF Next, Ended

(* The body of a task given to schedule() for one thread is entered by that *)
(* thread (FiberAndThread::thread, tested in run() when the list is         *)
(* searched), whoever the schedule() call names.                            *)
THEOREM TasksStartWherePinned ==
    ASSUME PromptWake = FALSE, MaxDups = 0
    PROVE  Spec => StartsWherePinned
<1> DEFINE Pinned == \A t \in Runners, c \in Callbacks :
              (pc[t] = "switch" /\ started'[c] > started[c]
                                /\ pc'[t] = "body" /\ m_cb[Cur(t)] = c)
                 => pin[c] \in {AnyThread, t}
<1>1. Init => PinKept
    BY DEF Init, PinKept, InHand, Handling, InTask, NoItem
<1>2. TaskInv /\ PinKept /\ [Next]_vars => [Pinned]_vars
  <2> SUFFICES ASSUME TaskInv, PinKept, [Next]_vars, NEW t \in Runners, NEW c \in Callbacks,
                      pc[t] = "switch", started'[c] > started[c],
                      pc'[t] = "body", m_cb[Cur(t)] = c
               PROVE  pin[c] \in {AnyThread, t}
      OBVIOUS
  <2>a. SchedulerInv /\ TypeOK
      BY DEF TaskInv, SchedulerInv
  <2>1. SwapIn(t)
    <3>1. started' # started /\ started[c] \in Nat
        BY <2>a DEF TypeOK
    <3>2. PICK u \in Runners : Run(u)
        BY <3>1 DEF Next, Ended, vars, Main, Start, Stop, StopBegin, StopEarly, StopSet, StopCall,
               StopCallReturns, StopJoin, MainScheduleCb, MainScheduleFiber, MainScheduleAgain,
               MainWake, histVars
    <3>3. SwapIn(u)
        BY <3>1, <3>2 DEF Run, Body, Pick, PickNothing, DispatchFiber, DropEnded, DispatchCb,
           SwapInCheck, Return, Throw, YieldToReady, Arm, YieldToHold,
           BodySchedule, BodyWake, SwapOut, Deactivate, Requeue, LetGo, KeepSpare,
           HoldCb, EnterIdle, IdleCheck, LeaveIdle, ExitRun, histVars
    <3>4. u = t
        BY <2>a, <3>3 DEF SwapIn, Goto, TypeOK
    <3> QED
        BY <3>3, <3>4
  <2>2. InHand(t, Cur(t)) /\ Cur(t) \in Fibers
      BY <2>a, InTaskHand DEF InTask
  <2>3. m_state[Cur(t)] = "INIT"
      BY <2>1 DEF SwapIn, TypeOK, TaskInv, SchedulerInv
  <2> QED
      BY <2>2, <2>3 DEF PinKept
<1>3. Spec => [][Pinned]_vars
    BY <1>1, <1>2, PinNext, TasksAreKept, PTL DEF Spec
<1> QED
    BY <1>3 DEF StartsWherePinned

(* The whole inductive invariant, which the proofs above took in parts.     *)
THEOREM InvariantHolds ==
    ASSUME PromptWake = FALSE, MaxDups = 0, Pins # "any", UseCaller => MaxStarts <= 1
    PROVE  Spec => []IInv
<1>1. Init => PinKept
    BY DEF Init, PinKept, InHand, Handling, InTask, NoItem
<1>2. StopInv => TaskInv
    BY DEF StopInv
<1> QED
    BY <1>1, <1>2, StopInvInit, StopInvNext, PinNext, PTL DEF Spec, IInv

-----------------------------------------------------------------------------
(* A runner that is alone: what is left of the above when wakers fire at    *)
(* once and a Fiber::ptr may be scheduled again.                            *)
LEMMA EntriesStay ==
    ASSUME EntriesNameOne,
           \A i \in DOMAIN m_fibers' :
              NamesOne(m_fibers'[i]) \/ \E k \in DOMAIN m_fibers : m_fibers'[i] = m_fibers[k],
           \A u \in Runners :
              \/ pc'[u] = pc[u] /\ ft'[u] = ft[u]
              \/ IF pc'[u] = "got" THEN NamesOne(ft'[u]) ELSE ft'[u].cb = None
    PROVE  EntriesNameOne'
BY DEF EntriesNameOne, NamesOne

(* A thread takes an entry off the list: the fibers of the others stay. *)
LEMMA EraseQueued ==
    ASSUME TypeOK, NEW i \in DOMAIN m_fibers, Erase(i)
    PROVE  \A g \in Fibers : /\ Queued(g)' => Queued(g)
                             /\ Queued(g) => Queued(g)' \/ g = m_fibers[i].fiber
BY EraseKeeps DEF Queued

(* schedule() of a fiber puts that fiber into the list; of a callback, none. *)
LEMMA FiberQueued ==
    ASSUME TypeOK, EntriesNameOne, NEW f \in Fibers, NEW thr \in Runners \cup {AnyThread},
           Schedule(FiberItem(f, thr))
    PROVE  /\ \A g \in Fibers : Queued(g)' <=> Queued(g) \/ g = f
           /\ \A i \in DOMAIN m_fibers' :
                 NamesOne(m_fibers'[i]) \/ \E k \in DOMAIN m_fibers : m_fibers'[i] = m_fibers[k]
<1>1. FiberItem(f, thr) \in Item /\ FiberItem(f, thr).fiber = f /\ NamesOne(FiberItem(f, thr))
    BY ItemTypes, SchedulerAssumption DEF FiberItem, NamesOne
<1> QED
    BY <1>1, ScheduleAppends DEF Queued

LEMMA CbQueued ==
    ASSUME TypeOK, EntriesNameOne, NEW c \in Callbacks, NEW thr \in Runners \cup {AnyThread},
           Schedule(CbItem(c, thr))
    PROVE  /\ \A g \in Fibers : Queued(g)' <=> Queued(g)
           /\ \A i \in DOMAIN m_fibers' :
                 NamesOne(m_fibers'[i]) \/ \E k \in DOMAIN m_fibers : m_fibers'[i] = m_fibers[k]
<1>1. CbItem(c, thr) \in Item /\ CbItem(c, thr).fiber = None /\ NamesOne(CbItem(c, thr))
    BY ItemTypes, SchedulerAssumption DEF CbItem, NamesOne
<1> QED
    BY <1>1, ScheduleAppends, SchedulerAssumption DEF Queued

(* A step that leaves the list and the fibers as they are. *)
LEMMA SoloQuiet ==
    ASSUME TypeOK, SoloLife,
           UNCHANGED <<m_fibers, m_state, m_cb, waker, handles, finished>>,
           \A u \in Runners :
              Same(u) \/ /\ pc[u] \notin {"got"} \cup InTask
                         /\ pc'[u] \notin {"got"} \cup InTask
                         /\ ft'[u].fiber = None /\ ft'[u].cb = None
                         /\ cb_fiber'[u] \in {cb_fiber[u], None}
    PROVE  SoloLife'
<1>1. EntriesNameOne'
    BY EntriesStay DEF SoloLife, Same
<1>2. ASSUME NEW u \in Runners PROVE SoloHands(u)'
    BY <1>2, SchedulerAssumption DEF SoloLife, SoloHands, Same
<1>3. ASSUME NEW u \in Runners, NEW f \in Fibers PROVE SoloFiber(u, f)'
  <2>1. SoloFiber(u, f) /\ SoloHands(u) /\ f # None
      BY SchedulerAssumption DEF SoloLife
  <2>2. /\ Live(f)' = Live(f) /\ Queued(f)' = Queued(f)
        /\ m_state'[f] = m_state[f] /\ m_cb'[f] = m_cb[f]
        /\ f \in waker' <=> f \in waker
        /\ f \in handles' <=> f \in handles
      BY DEF Live, Queued
  <2>3. CASE Same(u)
      BY <2>1, <2>2, <2>3
      DEF SoloFiber, SoloFits, InHand, Handling, Parking, Sound, Cur, Same
  <2>4. CASE /\ pc[u] \notin {"got"} \cup InTask /\ pc'[u] \notin {"got"} \cup InTask
             /\ cb_fiber'[u] \in {cb_fiber[u], None}
      BY <2>1, <2>2, <2>4
      DEF SoloFiber, InHand, Handling, Parking, Sound, InTask
  <2> QED
      BY <2>3, <2>4
<1> QED
    BY <1>1, <1>2, <1>3 DEF SoloLife

(* Inside a task the fiber in hand is Cur(t), and it fits. *)
LEMMA SoloInTask ==
    ASSUME TaskHasFiber, SoloLife, NEW t \in Runners, pc[t] \in InTask
    PROVE  /\ Cur(t) \in Fibers /\ SoloFiber(t, Cur(t)) /\ SoloFits(t, Cur(t))
           /\ \A f \in Fibers : InHand(t, f) <=> f = Cur(t)
BY DEF TaskHasFiber, SoloLife, SoloFiber, InHand, Handling, InTask

(* A step within a task that changes at most the fiber that is run. *)
LEMMA SoloStep ==
    ASSUME NEW t \in Runners, Runners = {t}, TypeOK, TaskHasFiber, SoloLife,
           NEW f \in Fibers, f = Cur(t), pc[t] \in InTask, pc'[t] \in InTask,
           UNCHANGED <<m_fibers, ft, cb_fiber, handles>>,
           \A g \in Fibers \ {f} : /\ m_state'[g] = m_state[g] /\ m_cb'[g] = m_cb[g]
                                   /\ Live(g)' = Live(g) /\ (g \in waker' <=> g \in waker),
           SoloFiber(t, f)'
    PROVE  SoloLife'
<1>1. EntriesNameOne'
    BY EntriesStay DEF SoloLife, EntriesNameOne, InTask
<1>2. SoloHands(t)'
    BY DEF SoloLife, SoloHands, InTask
<1>3. ASSUME NEW g \in Fibers PROVE SoloFiber(t, g)'
  <2>1. CASE g = f
      BY <2>1
  <2>2. CASE g # f
    <3>1. SoloFiber(t, g) /\ Queued(g)' = Queued(g) /\ ~InHand(t, g) /\ ~Handling(t, g)
        BY <2>2, SoloInTask DEF SoloLife, Queued, InHand
    <3>2. Cur(t)' = Cur(t) /\ ~InHand(t, g)' /\ ~Handling(t, g)'
        BY <2>2 DEF Cur, InHand, Handling, InTask
    <3> QED
        BY <2>2, <3>1, <3>2 DEF SoloFiber, Sound, Handling
  <2> QED
      BY <2>1, <2>2
<1> QED
    BY <1>1, <1>2, <1>3 DEF SoloLife

(* A thread takes an entry off the list. *)
LEMMA SoloPick ==
    ASSUME NEW t \in Runners, Runners = {t}, TypeOK, SoloLife, Pick(t)
    PROVE  SoloLife'
<1>1. PICK i \in DOMAIN m_fibers : ft' = [ft EXCEPT ![t] = m_fibers[i]] /\ Erase(i)
    BY DEF Pick
<1>2. /\ \A j \in DOMAIN m_fibers' : \E k \in DOMAIN m_fibers : m_fibers'[j] = m_fibers[k]
      /\ \A g \in Fibers : /\ Queued(g)' => Queued(g)
                           /\ Queued(g) => Queued(g)' \/ g = m_fibers[i].fiber
    BY <1>1, EraseKeeps, EraseQueued
<1>3. /\ UNCHANGED <<m_state, m_cb, waker, handles, finished, cb_fiber>>
      /\ pc'[t] = "got" /\ pc[t] = "loop" /\ ft'[t] = m_fibers[i]
    BY <1>1 DEF Pick, Goto, fiberVars, histVars, TypeOK
<1>4. /\ EntriesNameOne /\ NamesOne(m_fibers[i]) /\ SoloHands(t)
      /\ m_fibers[i].fiber \in Fibers \cup {None} /\ None \notin Fibers
    BY ItemTypes, SchedulerAssumption DEF SoloLife, EntriesNameOne, TypeOK
<1>5. EntriesNameOne'
    BY <1>2, <1>3, <1>4, EntriesStay
<1>6. m_fibers[i].fiber # None => Queued(m_fibers[i].fiber) /\ SoloFiber(t, m_fibers[i].fiber)
    BY <1>4 DEF Queued, SoloLife
<1>7. SoloHands(t)'
    BY <1>3, <1>4, <1>6 DEF SoloHands, SoloFiber, Handling, InTask
<1>8. ASSUME NEW g \in Fibers PROVE SoloFiber(t, g)'
  <2>1. SoloFiber(t, g) /\ (g = m_fibers[i].fiber => Queued(g))
      BY <1>4, <1>6 DEF SoloLife
  <2>2. /\ ~InHand(t, g) /\ ~Handling(t, g) /\ ~Handling(t, g)'
        /\ (InHand(t, g)' <=> g = m_fibers[i].fiber)
      BY <1>3 DEF InHand, Handling, InTask
  <2>3. Live(g)' = Live(g) /\ Sound(g)' = Sound(g)
      BY <1>3 DEF Live, Sound
  <2> QED
      BY <1>2, <1>3, <2>1, <2>2, <2>3 DEF SoloFiber, SoloFits, Parking, Left
<1> QED
    BY <1>5, <1>7, <1>8 DEF SoloLife

(* A callback is moved into the spare, or into a new fiber. *)
LEMMA SoloDispatchCb ==
    ASSUME NEW t \in Runners, Runners = {t}, TypeOK, SoloLife, EnteredOnce, DispatchCb(t)
    PROVE  SoloLife'
<1>1. PICK f \in Fibers : /\ IF cb_fiber[t] # None THEN f = cb_fiber[t] ELSE Fresh(f)
                          /\ cb_fiber' = [cb_fiber EXCEPT ![t] = f]
                          /\ Reset(f, ft[t].cb)
    BY DEF DispatchCb
<1>2. /\ UNCHANGED <<m_fibers, waker, handles, finished>>
      /\ pc'[t] = "enter" /\ pc[t] = "got" /\ ft[t].fiber = None
      /\ ft'[t].fiber = None /\ ft'[t].cb = None /\ cb_fiber'[t] = f
    BY <1>1 DEF DispatchCb, Goto, ResetFt, NoItem, queueVars, histVars, TypeOK
<1>3. ft[t].cb # None /\ ft[t].cb \notin finished
    BY <1>2 DEF SoloLife, EntriesNameOne, NamesOne, EnteredOnce, NotStarted
<1>4. /\ m_state'[f] = "INIT" /\ Live(f)'
      /\ \A g \in Fibers \ {f} : m_state'[g] = m_state[g] /\ m_cb'[g] = m_cb[g]
                                 /\ Live(g)' = Live(g)
    BY <1>1, <1>2, <1>3 DEF Reset, Mark, Live, TypeOK
<1>5. /\ f \notin waker \cup handles /\ ~Queued(f)
      /\ \A g \in Fibers \ {f} : cb_fiber[t] # g
  <2>1. CASE cb_fiber[t] = f
      BY <1>2, <2>1 DEF SoloLife, SoloFiber, Handling, InTask
  <2>2. CASE cb_fiber[t] = None /\ Fresh(f)
      BY <2>2, SchedulerAssumption DEF Fresh
  <2> QED
      BY <1>1, <2>1, <2>2
<1>6. EntriesNameOne'
    BY <1>2, EntriesStay DEF SoloLife
<1>7. ASSUME NEW g \in Fibers PROVE SoloFiber(t, g)'
  <2>1. Queued(g)' = Queued(g) /\ (InHand(t, g)' <=> g = f) /\ (Handling(t, g)' <=> g = f)
      BY <1>2 DEF Queued, InHand, Handling, InTask, Cur
  <2>2. SoloFiber(t, g) /\ ~InHand(t, g)
      BY <1>2, SchedulerAssumption DEF SoloLife, InHand, Handling, InTask
  <2>3. CASE g = f
      BY <1>2, <1>4, <1>5, <2>1, <2>3
      DEF SoloFiber, SoloFits, Sound, Waiting, Left, Parking
  <2>4. CASE g # f
      BY <1>2, <1>4, <1>5, <2>1, <2>2, <2>4 DEF SoloFiber, Sound
  <2> QED
      BY <2>3, <2>4
<1> QED
    BY <1>2, <1>6, <1>7 DEF SoloLife, SoloHands

(* schedule() of a callback. *)
LEMMA SoloScheduleCb ==
    ASSUME TypeOK, SoloLife,
           \E c \in Callbacks, thr \in Runners \cup {AnyThread} : Schedule(CbItem(c, thr)),
           UNCHANGED <<pc, ft, cb_fiber, m_state, m_cb, waker, handles, finished>>
    PROVE  SoloLife'
<1>1. /\ \A g \in Fibers : Queued(g)' <=> Queued(g)
      /\ \A i \in DOMAIN m_fibers' :
            NamesOne(m_fibers'[i]) \/ \E k \in DOMAIN m_fibers : m_fibers'[i] = m_fibers[k]
    BY CbQueued DEF SoloLife
<1>2. EntriesNameOne'
    BY <1>1, EntriesStay DEF SoloLife
<1>3. ASSUME NEW u \in Runners, NEW g \in Fibers PROVE SoloFiber(u, g)'
  <2>1. SoloFiber(u, g) /\ (Queued(g)' <=> Queued(g)) /\ Live(g)' = Live(g)
      BY <1>1 DEF SoloLife, Live
  <2> QED
      BY <2>1 DEF SoloFiber, SoloFits, Sound, InHand, Handling, Cur, Parking
<1> QED
    BY <1>2, <1>3 DEF SoloLife, SoloHands

(* schedule() of a fiber, by a waker, or once more by Root. *)
LEMMA SoloScheduleFiber ==
    ASSUME TypeOK, SoloLife, NEW f \in waker \cup handles, Schedule(FiberItem(f, AnyThread)),
           waker' = waker \/ waker' = waker \ {f},
           UNCHANGED <<pc, ft, cb_fiber, m_state, m_cb, handles, finished>>
    PROVE  SoloLife'
<1>1. /\ \A g \in Fibers : Queued(g)' <=> Queued(g) \/ g = f
      /\ \A i \in DOMAIN m_fibers' :
            NamesOne(m_fibers'[i]) \/ \E k \in DOMAIN m_fibers : m_fibers'[i] = m_fibers[k]
    BY FiberQueued DEF SoloLife, TypeOK
<1>2. EntriesNameOne'
    BY <1>1, EntriesStay DEF SoloLife
<1>3. ASSUME NEW u \in Runners, NEW g \in Fibers PROVE SoloFiber(u, g)'
  <2>1. SoloFiber(u, g) /\ (Queued(g)' <=> Queued(g) \/ g = f) /\ Live(g)' = Live(g)
      BY <1>1 DEF SoloLife, Live
  <2>2. g \in waker' => g \in waker
      OBVIOUS
  <2>3. g # f => (g \in waker' <=> g \in waker)
      OBVIOUS
  <2> QED
      BY <2>1, <2>2, <2>3 DEF SoloFiber, SoloFits, Sound, InHand, Handling, Cur, Parking
<1> QED
    BY <1>2, <1>3 DEF SoloLife, SoloHands

(* Back from a task, the thread puts its fiber down. *)
LEMMA SoloAfter ==
    ASSUME NEW t \in Runners, Runners = {t}, TypeOK, TaskHasFiber, SoloLife,
           Requeue(t) \/ LetGo(t) \/ KeepSpare(t) \/ HoldCb(t)
    PROVE  SoloLife'
<1> USE DEF Goto, Mark, Reset, ResetFt, ResetCb, queueVars, stopVars, mainVars, runVars,
            fiberVars, histVars
<1>1. pc[t] = "after" /\ pc[t] \in InTask /\ UNCHANGED <<waker, handles, finished>>
    BY DEF Requeue, LetGo, KeepSpare, HoldCb, InTask
<1>2. PICK f \in Fibers : f = Cur(t) /\ SoloFiber(t, f) /\ SoloFits(t, f)
    BY <1>1, SoloInTask
<1>3. /\ InHand(t, f) /\ \A g \in Fibers \ {f} : ~InHand(t, g) /\ ~Handling(t, g)
      /\ ft[t].cb = None
      /\ IF ft[t].fiber # None THEN f = ft[t].fiber /\ cb_fiber[t] # f ELSE f = cb_fiber[t]
    BY <1>1, <1>2, SoloInTask DEF SoloLife, SoloHands, EntriesNameOne, Cur, Handling, InHand
<1>4. NoItem.fiber = None /\ NoItem.cb = None
    BY DEF NoItem
<1>5. \A g \in Fibers : SoloFiber(t, g)
    BY DEF SoloLife
<1>6. m_state[f] \in IF Live(f) THEN {"READY", "HOLD"} ELSE {"TERM", "EXCEPT"}
    BY <1>1, <1>2 DEF SoloFits, Left
<1>p. ASSUME pc'[t] = "loop", ft'[t].fiber = None, ft'[t].cb = None,
             \A i \in DOMAIN m_fibers' :
                NamesOne(m_fibers'[i]) \/ \E k \in DOMAIN m_fibers : m_fibers'[i] = m_fibers[k],
             \A g \in Fibers \ {f} : /\ m_state'[g] = m_state[g] /\ m_cb'[g] = m_cb[g]
                                     /\ Queued(g)' <=> Queued(g)
                                     /\ cb_fiber'[t] = g => cb_fiber[t] = g,
             m_state'[f] # "EXEC",
             Queued(f)' \/ f \in waker \cup handles => Sound(f)',
             Live(f)' => /\ m_state'[f] \notin {"TERM", "EXCEPT"}
                         /\ Queued(f)' \/ (f \in waker /\ m_state'[f] = "HOLD"),
             cb_fiber'[t] = f => /\ f \notin waker \cup handles /\ ~Queued(f)'
                                 /\ m_cb'[f] = None /\ m_state'[f] = "INIT"
      PROVE  SoloLife'
  <2>1. EntriesNameOne'
      BY <1>p, EntriesStay DEF SoloLife
  <2>2. SoloHands(t)'
      BY <1>p DEF SoloHands
  <2>3. ASSUME NEW g \in Fibers PROVE SoloFiber(t, g)'
    <3>1. ~InHand(t, g)' /\ ~Handling(t, g)'
        BY <1>p DEF InHand, Handling, InTask
    <3>2. CASE g = f
        BY <1>1, <1>p, <3>1, <3>2 DEF SoloFiber
    <3>3. CASE g # f
      <4>1. /\ m_state'[g] = m_state[g] /\ m_cb'[g] = m_cb[g]
            /\ Queued(g)' <=> Queued(g)
            /\ cb_fiber'[t] = g => cb_fiber[t] = g
            /\ ~InHand(t, g) /\ ~Handling(t, g) /\ SoloFiber(t, g)
          BY <1>p, <1>3, <1>5, <3>3
      <4>2. m_state[g] # "EXEC"
          BY <4>1, <1>1 DEF SoloFiber
      <4>3. Live(g)' = Live(g) /\ Sound(g)' = Sound(g)
          BY <4>1, <1>1 DEF Live, Sound
      <4> QED
          BY <1>1, <3>1, <4>1, <4>2, <4>3 DEF SoloFiber
    <3> QED
        BY <3>2, <3>3
  <2> QED
      BY <2>1, <2>2, <2>3 DEF SoloLife
<1>7. CASE Requeue(t)
  <2>1. /\ pc'[t] = "loop" /\ ft'[t] = NoItem /\ Schedule(FiberItem(f, AnyThread))
        /\ cb_fiber'[t] = IF ft[t].fiber = None THEN None ELSE cb_fiber[t]
        /\ UNCHANGED <<m_state, m_cb>> /\ m_state[f] = "READY"
      BY <1>2, <1>7 DEF Requeue, TypeOK
  <2>2. /\ \A g \in Fibers : Queued(g)' <=> Queued(g) \/ g = f
        /\ \A i \in DOMAIN m_fibers' :
              NamesOne(m_fibers'[i]) \/ \E k \in DOMAIN m_fibers : m_fibers'[i] = m_fibers[k]
      BY <2>1, FiberQueued DEF SoloLife
  <2>3. Live(f)' /\ cb_fiber'[t] # f
      BY <1>1, <1>3, <1>6, <2>1, SchedulerAssumption DEF Live
  <2>4. \A g \in Fibers \ {f} : Queued(g)' <=> Queued(g)
      BY <2>2, Zenon
  <2>5. \A g \in Fibers : cb_fiber'[t] = g => cb_fiber[t] = g
      BY <2>1, SchedulerAssumption
  <2>6. Sound(f)' /\ Queued(f)' /\ m_state'[f] = "READY"
      BY <2>1, <2>2, <2>3 DEF Sound
  <2> HIDE DEF Goto, Mark, Reset, ResetFt, ResetCb
  <2> QED
      BY <1>p, <1>4, <2>1, <2>2, <2>3, <2>4, <2>5, <2>6
<1>8. CASE LetGo(t)
  <2>1. m_state[f] # "EXEC" /\ m_state[f] # "READY" /\ f = ft[t].fiber
      BY <1>3, <1>6, <1>8 DEF LetGo
  <2>2. /\ pc'[t] = "loop" /\ ft'[t] = NoItem /\ cb_fiber' = cb_fiber /\ ft[t].fiber # None
        /\ UNCHANGED <<m_fibers, m_state, m_cb>>
      BY <2>1, <1>8 DEF LetGo, TypeOK
  <2>3. Live(f) => f \in waker \/ Queued(f)
      BY <1>1, <1>2, <1>6, <2>1 DEF SoloFits, Parking, Left
  <2>4. Live(f)' = Live(f) /\ Sound(f)' = Sound(f) /\ \A g \in Fibers : Queued(g)' = Queued(g)
      BY <1>1, <2>2 DEF Live, Sound, Queued
  <2> QED
      BY <1>p, <1>3, <1>4, <1>6, <2>1, <2>2, <2>3, <2>4 DEF Sound
<1>9. CASE KeepSpare(t)
  <2>1. /\ pc'[t] = "loop" /\ UNCHANGED <<ft, cb_fiber, m_fibers>> /\ ft[t].fiber = None
        /\ m_state[f] \in {"TERM", "EXCEPT"}
        /\ m_state' = [m_state EXCEPT ![f] = "INIT"] /\ m_cb' = [m_cb EXCEPT ![f] = None]
      BY <1>3, <1>9 DEF KeepSpare, TypeOK
  <2>2. \A g \in Fibers : Queued(g)' = Queued(g)
      BY <2>1 DEF Queued
  <2>3. /\ m_state'[f] = "INIT" /\ m_cb'[f] = None /\ ~Live(f)'
        /\ \A g \in Fibers \ {f} : m_state'[g] = m_state[g] /\ m_cb'[g] = m_cb[g]
      BY <2>1 DEF Live, TypeOK
  <2>4. f \notin waker \cup handles /\ ~Queued(f)
      BY <1>1, <1>2, <1>3, <2>1 DEF SoloFiber, Parking
  <2> QED
      BY <1>p, <1>3, <2>1, <2>2, <2>3, <2>4
<1>10. CASE HoldCb(t)
  <2>1. f = cb_fiber[t] /\ ft[t].fiber = None /\ m_state[f] \notin {"READY", "TERM", "EXCEPT"}
      BY <1>3, <1>10 DEF HoldCb
  <2>2. /\ pc'[t] = "loop" /\ UNCHANGED <<ft, m_fibers, m_cb>> /\ cb_fiber'[t] = None
        /\ m_state'[f] = "HOLD" /\ \A g \in Fibers \ {f} : m_state'[g] = m_state[g]
      BY <2>1, <1>10 DEF HoldCb, TypeOK
  <2>3. Live(f) /\ (f \in waker \/ Queued(f))
      BY <1>1, <1>2, <1>6, <2>1 DEF SoloFits, Parking, Left
  <2>4. Live(f)' /\ \A g \in Fibers : Queued(g)' = Queued(g)
      BY <1>1, <2>2, <2>3 DEF Live, Queued
  <2> QED
      BY <1>p, <1>3, <2>1, <2>2, <2>3, <2>4, SchedulerAssumption DEF Sound
<1> QED
    BY <1>7, <1>8, <1>9, <1>10

LEMMA SoloRun ==
    ASSUME NEW t \in Runners, Runners = {t}, TypeOK, TaskHasFiber, SoloLife, CallbackLife,
           Run(t)
    PROVE  SoloLife'
<1> USE DEF Goto, Mark, ResetFt, ResetCb, queueVars, stopVars, mainVars, runVars,
            fiberVars, histVars
<1>a. /\ SoloHands(t) /\ EntriesNameOne /\ EnteredOnce /\ CallbackOnce
      /\ \A f \in Fibers : SoloFiber(t, f)
    BY DEF SoloLife, CallbackLife
<1>b. ASSUME pc[t] \in InTask
      PROVE  /\ Cur(t) \in Fibers /\ SoloFiber(t, Cur(t)) /\ SoloFits(t, Cur(t))
             /\ \A f \in Fibers : InHand(t, f) <=> f = Cur(t)
    BY <1>b, SoloInTask
<1>c. ASSUME pc[t] \in InTask, UNCHANGED <<ft, cb_fiber>>
      PROVE  Cur(t)' = Cur(t)
    BY <1>c DEF Cur
<1>q. ASSUME UNCHANGED <<m_fibers, m_state, m_cb, waker, handles, finished>>,
             Same(t) \/ /\ pc[t] \notin {"got"} \cup InTask
                        /\ pc'[t] \notin {"got"} \cup InTask
                        /\ ft'[t].fiber = None /\ ft'[t].cb = None
                        /\ cb_fiber'[t] \in {cb_fiber[t], None}
      PROVE  SoloLife'
    BY <1>q, SoloQuiet
<1>d. pc[t] \notin {"got"} \cup InTask => ft[t].fiber = None /\ ft[t].cb = None
    BY <1>a DEF SoloHands, EntriesNameOne
<1>1. CASE Pick(t)
    BY <1>1, SoloPick
<1>2. CASE PickNothing(t)
    BY <1>q, <1>2 DEF PickNothing, InTask, NoItem, TypeOK
<1>3. CASE DispatchFiber(t)
  <2>1. /\ pc[t] = "got" /\ pc'[t] = "enter" /\ ft[t].fiber # None
        /\ UNCHANGED <<m_fibers, ft, cb_fiber, m_state, m_cb, waker, handles, finished>>
        /\ m_state[ft[t].fiber] \notin {"TERM", "EXCEPT"}
      BY <1>3 DEF DispatchFiber, TypeOK
  <2>2. EntriesNameOne' /\ SoloHands(t)'
    <3>1. ft[t].cb = None
        BY <1>a, <2>1 DEF EntriesNameOne, NamesOne
    <3> QED
        BY <1>a, <2>1, <3>1, EntriesStay DEF SoloHands, InTask
  <2>3. ASSUME NEW f \in Fibers PROVE SoloFiber(t, f)'
    <3>1. /\ SoloFiber(t, f) /\ f # None /\ Queued(f)' = Queued(f) /\ Live(f)' = Live(f)
          /\ f \in waker' <=> f \in waker
          /\ f \in handles' <=> f \in handles
        BY <1>a, <2>1, SchedulerAssumption DEF Queued, Live
    <3>2. /\ InHand(t, f) <=> ft[t].fiber = f
          /\ InHand(t, f)' <=> ft[t].fiber = f
          /\ Handling(t, f)' <=> ft[t].fiber = f
          /\ ~Handling(t, f) /\ (ft[t].fiber = f => cb_fiber[t] # f)
        BY <1>a, <2>1 DEF InHand, Handling, InTask, Cur, SoloHands
    <3>3. m_state[f] \in FiberState
        BY DEF TypeOK
    <3> QED
        BY <2>1, <3>1, <3>2, <3>3
        DEF SoloFiber, SoloFits, Sound, Waiting, Left, Parking, FiberState
  <2> QED
      BY <2>2, <2>3 DEF SoloLife
<1>4. CASE DropEnded(t)
  <2>1. /\ pc[t] = "got" /\ pc'[t] = "loop" /\ ft[t].fiber # None /\ ft'[t] = NoItem
        /\ UNCHANGED <<m_fibers, cb_fiber, m_state, m_cb, waker, handles, finished>>
        /\ m_state[ft[t].fiber] \in {"TERM", "EXCEPT"}
      BY <1>4 DEF DropEnded, TypeOK
  <2>2. EntriesNameOne' /\ SoloHands(t)'
      BY <1>a, <2>1, EntriesStay DEF SoloHands, NoItem
  <2>3. ASSUME NEW f \in Fibers PROVE SoloFiber(t, f)'
    <3>1. /\ SoloFiber(t, f) /\ Queued(f)' = Queued(f) /\ Live(f)' = Live(f)
          /\ f \in waker' <=> f \in waker
          /\ f \in handles' <=> f \in handles
        BY <1>a, <2>1 DEF Queued, Live
    <3>2. /\ InHand(t, f) => m_state[f] \in {"TERM", "EXCEPT"}
          /\ ~InHand(t, f)' /\ ~Handling(t, f)' /\ ~Handling(t, f)
        BY <2>1 DEF InHand, Handling, InTask
    <3> QED
        BY <2>1, <3>1, <3>2 DEF SoloFiber, Sound
  <2> QED
      BY <2>2, <2>3 DEF SoloLife
<1>5. CASE DispatchCb(t)
    BY <1>a, <1>5, SoloDispatchCb
<1>6. CASE SwapInCheck(t)
  <2>1. pc[t] = "enter" /\ m_state[Cur(t)] # "EXEC"
      BY <1>b, <1>6 DEF SwapInCheck, SoloFits, Waiting, InTask
  <2>2. /\ pc'[t] = "switch"
        /\ UNCHANGED <<m_fibers, ft, cb_fiber, m_state, m_cb, waker, handles, finished>>
      BY <1>6, <2>1 DEF SwapInCheck, TypeOK
  <2>3. PICK f \in Fibers : f = Cur(t) /\ SoloFiber(t, f) /\ Cur(t)' = f
      BY <1>b, <1>c, <2>1, <2>2 DEF InTask
  <2>4. SoloFiber(t, f)'
      BY <2>1, <2>2, <2>3
      DEF SoloFiber, SoloFits, Sound, Live, Queued, InHand, Handling, InTask, Waiting, Left, Parking
  <2> QED
      BY <2>1, <2>2, <2>3, <2>4, SoloStep DEF InTask, Live
<1>7. CASE SwapIn(t)
  <2>1. /\ pc[t] = "switch" /\ pc'[t] = "body"
        /\ UNCHANGED <<m_fibers, ft, cb_fiber, m_cb, waker, handles, finished>>
        /\ m_state' = [m_state EXCEPT ![Cur(t)] = "EXEC"]
      BY <1>7 DEF SwapIn, TypeOK
  <2>2. PICK f \in Fibers : f = Cur(t) /\ SoloFiber(t, f) /\ SoloFits(t, f) /\ Cur(t)' = f
      BY <1>b, <1>c, <2>1 DEF InTask
  <2>3. m_state'[f] = "EXEC" /\ \A g \in Fibers \ {f} : m_state'[g] = m_state[g]
      BY <2>1, <2>2 DEF TypeOK
  <2>4. SoloFiber(t, f)'
      BY <2>1, <2>2, <2>3
      DEF SoloFiber, SoloFits, Sound, Live, Queued, InHand, Handling, InTask, Waiting, Left, Parking
  <2> QED
      BY <2>1, <2>2, <2>3, <2>4, SoloStep DEF InTask, Live
<1>8. CASE Return(t) \/ Throw(t)
  <2>1. PICK f \in Fibers : f = Cur(t) /\ SoloFiber(t, f) /\ SoloFits(t, f) /\ pc[t] = "body"
      BY <1>b, <1>8 DEF Return, Throw, InTask
  <2>2. m_cb[f] # None
      BY <2>1 DEF SoloFits, Live
  <2>3. /\ pc'[t] = "leave"
        /\ UNCHANGED <<m_fibers, ft, cb_fiber, waker, handles>>
        /\ finished' = finished \cup {m_cb[f]}
        /\ m_state'[f] \in {"TERM", "EXCEPT"} /\ m_cb'[f] \in {None, m_cb[f]}
        /\ \A g \in Fibers \ {f} : m_state'[g] = m_state[g] /\ m_cb'[g] = m_cb[g]
      BY <1>8, <2>1, <2>2 DEF Return, Throw, TypeOK
  <2>4. ~Live(f)' /\ Cur(t)' = f /\ \A g \in Fibers \ {f} : Live(g)' = Live(g)
      BY <1>a, <1>c, <2>1, <2>2, <2>3 DEF Live, CallbackOnce, InTask
  <2>5. SoloFiber(t, f)'
      BY <2>1, <2>3, <2>4
      DEF SoloFiber, SoloFits, Sound, Queued, InHand, Handling, InTask, Left, Parking
  <2> QED
      BY <2>1, <2>3, <2>4, <2>5, SoloStep DEF InTask
<1>9. CASE YieldToReady(t) \/ YieldToHold(t)
  <2>1. PICK f \in Fibers : /\ f = Cur(t) /\ SoloFiber(t, f) /\ SoloFits(t, f)
                            /\ pc[t] = IF YieldToReady(t) THEN "body" ELSE "parking"
      BY <1>b, <1>9 DEF YieldToReady, YieldToHold, MaySuspend, InTask
  <2>2. /\ pc'[t] = "leave"
        /\ UNCHANGED <<m_fibers, ft, cb_fiber, m_cb, waker, handles, finished>>
        /\ m_state'[f] = IF YieldToReady(t) THEN "READY" ELSE "HOLD"
        /\ \A g \in Fibers \ {f} : m_state'[g] = m_state[g]
    <3>1. CASE YieldToReady(t)
        BY <2>1, <3>1 DEF YieldToReady, TypeOK
    <3>2. CASE ~YieldToReady(t)
      <4>1. YieldToHold(t)
          BY <1>9, <3>2
      <4> QED
          BY <2>1, <3>2, <4>1 DEF YieldToHold, TypeOK
    <3> QED
        BY <3>1, <3>2
  <2>3. Cur(t)' = f /\ \A g \in Fibers : Live(g)' = Live(g)
      BY <1>c, <2>1, <2>2 DEF InTask, Live
  <2> HIDE DEF Mark, Goto
  <2>4. SoloFiber(t, f)'
    <3>1. CASE YieldToReady(t)
        BY <2>1, <2>2, <2>3, <3>1
        DEF SoloFiber, SoloFits, Sound, Queued, InHand, Handling, InTask, Left, Parking
    <3>2. CASE ~YieldToReady(t)
        BY <2>1, <2>2, <2>3, <3>2
        DEF SoloFiber, SoloFits, Sound, Queued, InHand, Handling, InTask, Left, Parking
    <3> QED
        BY <3>1, <3>2
  <2>5. pc[t] \in InTask /\ pc'[t] \in InTask
      BY <2>1, <2>2 DEF InTask
  <2> QED
      BY <2>1, <2>2, <2>3, <2>4, <2>5, SoloStep
<1>10. CASE Arm(t)
  <2>1. PICK f \in Fibers : f = Cur(t) /\ SoloFiber(t, f) /\ SoloFits(t, f) /\ pc[t] = "body"
      BY <1>b, <1>10 DEF Arm, MaySuspend, InTask
  <2>2. /\ pc'[t] = "parking" /\ waker' = waker \cup {f}
        /\ UNCHANGED <<m_fibers, ft, cb_fiber, m_cb, m_state, handles, finished>>
      BY <1>10, <2>1 DEF Arm, TypeOK
  <2>3. Cur(t)' = f /\ \A g \in Fibers : Live(g)' = Live(g)
      BY <1>c, <2>1, <2>2 DEF InTask, Live
  <2>4. SoloFiber(t, f)'
      BY <2>1, <2>2, <2>3
      DEF SoloFiber, SoloFits, Sound, Queued, InHand, Handling, InTask, Left, Parking
  <2> QED
      BY <2>1, <2>2, <2>3, <2>4, SoloStep DEF InTask
<1>11. CASE BodySchedule(t)
    BY <1>11, PinsType, SoloScheduleCb DEF BodySchedule
<1>12. CASE BodyWake(t)
  <2>1. PICK f \in waker : waker' = waker \ {f} /\ Schedule(FiberItem(f, AnyThread))
      BY <1>12 DEF BodyWake, MayWake
  <2>2. UNCHANGED <<pc, ft, cb_fiber, m_state, m_cb, handles, finished>>
      BY <1>12 DEF BodyWake
  <2> QED
      BY <2>1, <2>2, SoloScheduleFiber
<1>13. CASE SwapOut(t) \/ Deactivate(t)
  <2>1. /\ (pc[t] = "leave" /\ pc'[t] = "back") \/ (pc[t] = "back" /\ pc'[t] = "after")
        /\ UNCHANGED <<m_fibers, ft, cb_fiber, m_cb, m_state, waker, handles, finished>>
      BY <1>13 DEF SwapOut, Deactivate, TypeOK
  <2>2. PICK f \in Fibers : f = Cur(t) /\ SoloFiber(t, f) /\ Cur(t)' = f
      BY <1>b, <1>c, <2>1 DEF InTask
  <2>3. SoloFiber(t, f)'
      BY <2>1, <2>2
      DEF SoloFiber, SoloFits, Sound, Live, Queued, InHand, Handling, InTask, Left, Parking
  <2> QED
      BY <2>1, <2>2, <2>3, SoloStep DEF InTask, Live
<1>14. CASE Requeue(t) \/ LetGo(t) \/ KeepSpare(t) \/ HoldCb(t)
    BY <1>14, SoloAfter
<1>15. CASE EnterIdle(t) \/ IdleCheck(t) \/ LeaveIdle(t) \/ ExitRun(t)
    BY <1>d, <1>q, <1>15 DEF EnterIdle, IdleCheck, LeaveIdle, ExitRun, InTask, TypeOK
<1> QED
    BY <1>1, <1>2, <1>3, <1>4, <1>5, <1>6, <1>7, <1>8, <1>9, <1>10, <1>11, <1>12,
       <1>13, <1>14, <1>15 DEF Run, Body

(* Root and the thread that start() or stop() lets in. *)
LEMMA SoloMain ==
    ASSUME NEW r, Runners = {r}, TypeOK, Phases, SoloLife, EnteredOnce, Main
    PROVE  SoloLife'
<1> USE DEF queueVars, stopVars, mainVars, runVars, fiberVars, histVars
<1>1. CASE Start \/ Stop
  <2>1. UNCHANGED <<m_fibers, ft, cb_fiber, m_state, m_cb, waker, handles, finished>>
      BY <1>1 DEF Start, Stop, StopBegin, StopEarly, StopSet, StopCall, StopCallReturns, StopJoin
  <2>2. \A u \in Runners : pc'[u] = pc[u] \/ (Apart(u) /\ pc'[u] = "loop")
      BY <1>1, TurnsGo
  <2>3. \A u \in Runners : Apart(u) => ft[u].fiber = None /\ ft[u].cb = None
      BY DEF Apart, InTask, SoloLife, SoloHands, EntriesNameOne
  <2> QED
      BY <2>1, <2>2, <2>3, SoloQuiet DEF Same, Apart, InTask
<1>2. CASE MainScheduleCb
    BY <1>2, PinsType, SoloScheduleCb DEF MainScheduleCb
<1>3. CASE MainScheduleFiber
  <2>1. PICK c \in Callbacks \ scheduled, thr \in MainPins, f \in Fibers :
           /\ Fresh(f) /\ Schedule(FiberItem(f, thr)) /\ handles' = handles \cup {f}
           /\ m_state' = [m_state EXCEPT ![f] = "INIT"] /\ m_cb' = [m_cb EXCEPT ![f] = c]
      BY <1>3 DEF MainScheduleFiber, Reset, Mark
  <2>2. UNCHANGED <<pc, ft, cb_fiber, waker, finished>>
      BY <1>3 DEF MainScheduleFiber
  <2>3. c # None /\ c \notin finished
      BY SchedulerAssumption DEF EnteredOnce
  <2>4. /\ m_state'[f] = "INIT" /\ Live(f)'
        /\ \A g \in Fibers \ {f} : m_state'[g] = m_state[g] /\ m_cb'[g] = m_cb[g]
                                   /\ Live(g)' = Live(g)
      BY <2>1, <2>2, <2>3 DEF Live, TypeOK
  <2>5. /\ \A g \in Fibers : Queued(g)' <=> Queued(g) \/ g = f
        /\ \A i \in DOMAIN m_fibers' :
              NamesOne(m_fibers'[i]) \/ \E k \in DOMAIN m_fibers : m_fibers'[i] = m_fibers[k]
      BY <2>1, PinsType, FiberQueued DEF SoloLife
  <2>6. EntriesNameOne'
      BY <2>2, <2>5, EntriesStay DEF SoloLife
  <2>7. ASSUME NEW u \in Runners, NEW g \in Fibers PROVE SoloFiber(u, g)'
    <3>1. SoloFiber(u, g) /\ InHand(u, g)' = InHand(u, g) /\ Handling(u, g)' = Handling(u, g)
        BY <2>2 DEF SoloLife, InHand, Handling, Cur
    <3>2. CASE g = f
      <4>1. ~InHand(u, f) /\ ~Handling(u, f) /\ cb_fiber[u] # f
          BY <2>1 DEF Fresh, Holds, InHand, Handling, Cur
      <4> QED
          BY <2>1, <2>2, <2>4, <2>5, <3>1, <3>2, <4>1 DEF SoloFiber, Sound
    <3>3. CASE g # f
      <4>1. /\ Queued(g)' <=> Queued(g)
            /\ g \in handles' <=> g \in handles
          BY <2>1, <2>5, <3>3
      <4> QED
          BY <2>2, <2>4, <3>1, <3>3, <4>1 DEF SoloFiber, SoloFits, Sound, Parking, Handling, Cur
    <3> QED
        BY <3>2, <3>3
  <2> QED
      BY <2>2, <2>6, <2>7 DEF SoloLife, SoloHands
<1>4. CASE MainScheduleAgain
  <2>1. PICK f \in handles : Schedule(FiberItem(f, AnyThread))
      BY <1>4 DEF MainScheduleAgain
  <2> QED
      BY <1>4, <2>1, SoloScheduleFiber DEF MainScheduleAgain
<1>5. CASE MainWake
  <2>1. PICK f \in waker : waker' = waker \ {f} /\ Schedule(FiberItem(f, AnyThread))
      BY <1>5 DEF MainWake, MayWake
  <2>2. UNCHANGED <<pc, ft, cb_fiber, m_state, m_cb, handles, finished>>
      BY <1>5 DEF MainWake
  <2> QED
      BY <2>1, <2>2, SoloScheduleFiber
<1> QED
    BY <1>1, <1>2, <1>3, <1>4, <1>5 DEF Main

LEMMA SoloOrderly == TypeOK /\ TaskHasFiber /\ SoloLife => Orderly
<1> SUFFICES ASSUME TypeOK, TaskHasFiber, SoloLife PROVE Orderly
    OBVIOUS
<1>1. ASSUME NEW t \in Runners
      PROVE  /\ pc[t] \in {"switch", "body"} => Live(Cur(t))
             /\ pc[t] \in {"enter", "after"} => m_state[Cur(t)] # "EXEC"
             /\ pc[t] = "after" /\ m_state[Cur(t)] \in {"TERM", "EXCEPT"} => ~Live(Cur(t))
    BY SoloInTask DEF SoloFits, Waiting, Left, InTask
<1>2. ASSUME NEW t \in Runners, pc[t] = "got", cb_fiber[t] # None PROVE ~Live(cb_fiber[t])
    BY <1>2 DEF TypeOK, SoloLife, SoloFiber, Live, Handling, InTask
<1>3. ASSUME NEW f \in Fibers, Fresh(f) PROVE ~Live(f)
  <2>1. PICK t : t \in Runners
      BY SchedulerAssumption
  <2>2. ~InHand(t, f)
      BY <1>3, <2>1 DEF Fresh, InHand, Handling, Holds, Cur
  <2> QED
      BY <1>3, <2>1, <2>2 DEF SoloLife, SoloFiber, Fresh
<1> QED
    BY <1>1, <1>2, <1>3 DEF Orderly, SoloLife

(* The thread goes only when the list is empty, and nothing is added then. *)
LEMMA GoneRun ==
    ASSUME NEW t \in Runners, Runners = {t}, TypeOK, TaskHasFiber, SoloLife, GoneIsEmpty, Run(t)
    PROVE  GoneIsEmpty'
<1>a. /\ \A f \in Fibers : SoloFiber(t, f)
      /\ \A i \in DOMAIN m_fibers : m_fibers[i] \in Item
    BY DEF SoloLife, TypeOK
<1>b. \A item \in Item : item.fiber \in Fibers \cup {None} /\ item.thread \in {AnyThread, t}
    BY DEF Item
<1>1. CASE PickNothing(t)
  <2>1. pc[t] = "loop" /\ m_fibers' = m_fibers /\ \A i \in DOMAIN m_fibers : ~Takes(t, m_fibers[i])
      BY <1>1 DEF PickNothing, queueVars
  <2>2. \A f \in Fibers : m_state[f] # "EXEC"
      BY <1>a, <2>1 DEF SoloFiber
  <2>3. DOMAIN m_fibers = {}
      BY <1>a, <1>b, <2>1, <2>2 DEF Takes
  <2>4. m_fibers' = <<>>
      BY <2>1, <2>3 DEF TypeOK
  <2> QED
      BY <2>4 DEF GoneIsEmpty
<1>2. CASE ~PickNothing(t)
  <2>1. /\ main' = main
        /\ pc'[t] = "exited" => pc[t] = "none" /\ t \in idleTerm /\ m_fibers' = m_fibers
        /\ pc'[t] \notin {"none", "off"}
    BY <1>2, Run(t)
    DEF Run, Body, Pick, DispatchFiber, DropEnded, DispatchCb, SwapInCheck, SwapIn, Return,
        Throw, YieldToReady, Arm, YieldToHold, BodySchedule, BodyWake, SwapOut, Deactivate,
        Requeue, LetGo, KeepSpare, HoldCb, EnterIdle, IdleCheck, LeaveIdle, ExitRun, Goto,
        MaySuspend, mainVars, runVars, queueVars, TypeOK
  <2> QED
      BY <2>1 DEF GoneIsEmpty, Gone
<1> QED
    BY <1>1, <1>2

LEMMA GoneMain ==
    ASSUME NEW r, Runners = {r}, TypeOK, Phases, Rounds, Rounds', GoneIsEmpty, Main
    PROVE  GoneIsEmpty'
<1>1. CASE main' = "up"
    BY <1>1, SchedulerAssumption DEF Rounds, GoneIsEmpty, Gone, BeforeCall, Runners
<1>2. CASE main' # "up"
  <2>1. Stop
      BY <1>2 DEF Main, Start, MainScheduleCb, MainScheduleFiber, MainScheduleAgain, MainWake, mainVars
  <2>2. m_fibers' = m_fibers
      BY <2>1 DEF Stop, StopBegin, StopEarly, StopSet, StopCall, StopCallReturns, StopJoin,
                  queueVars
  <2>3. CASE m_fibers = <<>>
      BY <2>2, <2>3 DEF GoneIsEmpty
  <2>4. CASE m_fibers # <<>>
    <3>1. /\ idleTerm' \subseteq idleTerm
          /\ \A u \in Runners : pc'[u] = pc[u] \/ pc'[u] = "loop"
        BY <2>1, TurnsGo
        DEF Stop, StopBegin, StopEarly, StopSet, StopCall, StopCallReturns, StopJoin, runVars
    <3>2. Root \in Runners /\ main' \notin BeforeCall
             => \/ main' = "in_call" /\ pc'[Root] = "loop"
                \/ main \in {"in_call", "join", "stopped"} /\ pc'[Root] = pc[Root]
      <4>1. CASE StopCall
          BY <2>4, <4>1 DEF StopCall, Stopping, NothingLeft, Goto, TypeOK, BeforeCall
      <4>2. CASE StopBegin \/ StopEarly \/ StopSet
          BY <2>4, <4>2, SchedulerAssumption
          DEF StopBegin, StopEarly, StopSet, NothingLeft, Runners, BeforeCall
      <4>3. CASE StopCallReturns \/ StopJoin
          BY <4>3 DEF StopCallReturns, StopJoin, runVars
      <4> QED
          BY <2>1, <4>1, <4>2, <4>3 DEF Stop
    <3>3. ASSUME NEW u \in Runners, Gone(u)', u = Root => main' \notin BeforeCall
          PROVE  Gone(u) /\ (u = Root => main \notin BeforeCall)
        BY <3>1, <3>2, <3>3, <2>4, StopCallsRoot, <2>1 DEF Gone, BeforeCall
    <3> QED
        BY <2>4, <3>3 DEF GoneIsEmpty
  <2> QED
      BY <2>3, <2>4
<1> QED
    BY <1>1, <1>2

LEMMA SoloInvInit == Init => SoloInv
<1> SUFFICES ASSUME Init PROVE SoloInv
    OBVIOUS
<1>1. /\ TypeOK /\ TaskHasFiber /\ Phases /\ CallbackLife /\ EntriesNameOne
      /\ Rounds /\ NoAssertFailure
    BY TypeInit, PhasesInit, TaskInvInit, RoundsInit DEF TypeInv, TaskInv, FiberLife
<1>2. ASSUME NEW t \in Runners, NEW f \in Fibers PROVE SoloFiber(t, f)
    BY SchedulerAssumption
    DEF Init, SoloFiber, InHand, Handling, InTask, Live, Queued, NoItem
<1>3. SoloLife
    BY <1>1, <1>2 DEF Init, SoloLife, SoloHands, NoItem
<1> QED
    BY <1>1, <1>3 DEF SoloInv, SoloTaskInv, GoneIsEmpty, Init

LEMMA SoloTaskInvNext ==
    ASSUME NEW r, Runners = {r}
    PROVE  SoloTaskInv /\ [Next]_vars => SoloTaskInv'
<1> SUFFICES ASSUME SoloTaskInv, [Next]_vars PROVE SoloTaskInv'
    OBVIOUS
<1>1. /\ TypeInv /\ TypeOK /\ TaskHasFiber /\ Phases /\ SoloLife /\ CallbackLife
      /\ EnteredOnce /\ Orderly
    BY SoloOrderly DEF SoloTaskInv, TypeInv, CallbackLife
<1>2. TypeOK' /\ TaskHasFiber' /\ Phases'
    BY <1>1, TypeNext, PhasesNext DEF TypeInv
<1>3. CASE Main
    BY <1>1, <1>2, <1>3, SoloMain, CallbacksMain DEF SoloTaskInv
<1>4. CASE Run(r)
    BY <1>1, <1>2, <1>4, SoloRun, CallbacksRun DEF SoloTaskInv
<1>5. CASE UNCHANGED vars
  <2> USE <1>5 DEF vars, queueVars, stopVars, mainVars, runVars, fiberVars, histVars
  <2>1. SoloLife'
      BY <1>1, SoloQuiet DEF Same
  <2>2. CallbackLife'
      BY <1>1, QuietCallbacks
  <2> QED
      BY <1>2, <2>1, <2>2 DEF SoloTaskInv
<1> QED
    BY <1>3, <1>4, <1>5 DEF Next, Ended

(* What the assertions check follows from where the fibers are.             *)
LEMMA SoloTaskAssertions == SoloTaskInv /\ OnlyRestart => NoAssertFailure
<1> SUFFICES ASSUME SoloTaskInv, OnlyRestart PROVE NoAssertFailure
    OBVIOUS
<1>a. TypeOK /\ TaskHasFiber /\ SoloLife /\ EntriesNameOne
    BY DEF SoloTaskInv, SoloLife
<1>1. \A i \in DOMAIN m_fibers : m_fibers[i].fiber # None \/ m_fibers[i].cb # None
    BY <1>a DEF EntriesNameOne, NamesOne
<1>2. ASSUME NEW t \in Runners, pc[t] = "got", cb_fiber[t] # None
      PROVE  m_state[cb_fiber[t]] = "INIT"
    BY <1>a, <1>2 DEF TypeOK, SoloLife, SoloFiber, Handling, InTask
<1>3. ASSUME NEW t \in Runners, pc[t] = "switch"
      PROVE  m_state[Cur(t)] \notin {"TERM", "EXCEPT"}
    BY <1>a, <1>3, SoloInTask DEF SoloFits, Waiting, InTask
<1> QED
    BY <1>1, <1>2, <1>3 DEF NoAssertFailure, OnlyRestart

LEMMA SoloInvNext ==
    ASSUME NEW r, Runners = {r}
    PROVE  SoloInv /\ [Next]_vars => SoloInv'
<1> SUFFICES ASSUME SoloInv, [Next]_vars PROVE SoloInv'
    OBVIOUS
<1>1. /\ TypeInv /\ TypeOK /\ TaskHasFiber /\ Phases /\ SoloLife /\ Orderly
      /\ Rounds /\ GoneIsEmpty /\ OnlyRestart
    BY SoloOrderly DEF SoloInv, SoloTaskInv, TypeInv, NoAssertFailure, OnlyRestart
<1>a. (SoloTaskInv /\ OnlyRestart => NoAssertFailure)'
    BY SoloTaskAssertions, PTL
<1>2. SoloTaskInv' /\ Rounds' /\ NoAssertFailure'
    BY <1>1, <1>a, SoloTaskInvNext, RoundsNext, OnlyRestartNext DEF SoloInv
<1>3. CASE Main
    BY <1>1, <1>2, <1>3, GoneMain DEF SoloInv
<1>4. CASE Run(r)
    BY <1>1, <1>2, <1>4, GoneRun DEF SoloInv
<1>5. CASE UNCHANGED vars
  <2>1. GoneIsEmpty'
      BY <1>1, <1>5 DEF vars, queueVars, runVars, mainVars, GoneIsEmpty, Gone
  <2> QED
      BY <1>2, <2>1 DEF SoloInv
<1> QED
    BY <1>3, <1>4, <1>5 DEF Next, Ended

(* With one runner in run(), whoever schedules what, when and how often,    *)
(* every fiber somebody has a pointer to can be resumed or has ended, and   *)
(* no callback is lost: run() drops what ended and waits for nobody.        *)
THEOREM SoloInvariantHolds ==
    ASSUME NEW r, Runners = {r}
    PROVE  Spec => []SoloInv
<1> QED
    BY SoloInvInit, SoloInvNext, PTL DEF Spec

(* Then run() enters each callback at most once, though its fiber may be    *)
(* scheduled again and woken early, and the scheduler started again.        *)
THEOREM SoloEnteredOnce ==
    ASSUME NEW r, Runners = {r}
    PROVE  Spec => []AtMostOnce
<1>1. Init => SoloTaskInv
    BY SoloInvInit DEF SoloInv
<1>2. SoloTaskInv => AtMostOnce
    BY DEF SoloTaskInv, TypeOK, CallbackLife, EnteredOnce, AtMostOnce
<1> QED
    BY <1>1, <1>2, SoloTaskInvNext, PTL DEF Spec

(* No assertion on a task fails, though its fiber may be scheduled again    *)
(* and woken early: those of run(), swapIn(), reset() and MainFunc(), and,  *)
(* except for Root's second call of its run(), that of CallerMainFunc().    *)
THEOREM SoloAssertionsHold ==
    ASSUME NEW r, Runners = {r}
    PROVE  Spec => []NoAssertFailure
<1>1. SoloInv => NoAssertFailure
    BY DEF SoloInv
<1> QED
    BY <1>1, SoloInvariantHolds, PTL

LEMMA SoloInvDrains ==
    ASSUME NEW r, Runners = {r}
    PROVE  SoloInv => StopDrains
<1> SUFFICES ASSUME SoloInv, main = "stopped" PROVE StopDrains
    BY DEF StopDrains
<1>a. TypeOK /\ Phases /\ SoloLife /\ CallbackLife /\ Rounds /\ GoneIsEmpty
    BY DEF SoloInv, SoloTaskInv
<1>1. \A t \in Runners : pc[t] \in {"off", "exited"} /\ Gone(t)
    BY <1>a DEF Phases, Rounds, Apart, Gone, Runners
<1>2. m_fibers = <<>>
    BY <1>a, <1>1 DEF GoneIsEmpty, BeforeCall
<1>3. ASSUME NEW c \in scheduled \ finished
      PROVE  \E f \in Fibers : m_cb[f] = c /\ Parked(f)
  <2>1. c # None
      BY <1>a, SchedulerAssumption DEF TypeOK
  <2>2. \A t \in Runners : ft[t].cb # c
      BY <1>a, <1>1, <2>1 DEF SoloLife, EntriesNameOne
  <2>3. PICK f \in Fibers : m_cb[f] = c
      BY <1>a, <1>2, <2>2 DEF CallbackLife, CallbackKept
  <2>4. Live(f) /\ ~Queued(f) /\ SoloFiber(r, f)
      BY <1>a, <1>2, <2>1, <2>3 DEF Live, Queued, SoloLife
  <2>5. \A t \in Runners : ~InHand(t, f) /\ ~Handling(t, f)
      BY <1>1 DEF InHand, Handling, InTask
  <2>6. f \in waker /\ m_state[f] = "HOLD"
      BY <2>4, <2>5 DEF SoloFiber
  <2> QED
      BY <2>3, <2>5, <2>6 DEF Parked
<1> QED
    BY <1>1, <1>2, <1>3 DEF StopDrains

(* When stop() returns nothing is left in m_fibers, and a task that has not *)
(* ended is suspended with a waker; there is no other thread to name.  A    *)
(* later stop() of Root's that finds a task left does not return.           *)
THEOREM SoloStopLeavesNothing ==
    ASSUME NEW r, Runners = {r}
    PROVE  Spec => []StopDrains
<1>1. SoloInv => StopDrains
    BY SoloInvDrains
<1> QED
    BY <1>1, SoloInvariantHolds, PTL
=============================================================================
