------------------------- MODULE SchedulerInvariant -------------------------
(***************************************************************************)
(* Why no two threads meet on a fiber's stack.  No lock guards a fiber;    *)
(* what does is that run() keeps every Fiber::ptr in one place at a time:  *)
(* an entry of m_fibers, the local variables of one thread, or a waker.    *)
(* These facts are inductive when a waker fires only after the fiber it    *)
(* wakes was put away, and a Fiber::ptr is not scheduled twice.            *)
(***************************************************************************)
EXTENDS Scheduler

(* The places of run() where a suspending fiber already has a waker. *)
Suspending == {"parking", "leave", "back", "after"}

(* A fiber is in the list once. *)
QueuedOnce ==
    \A i, j \in DOMAIN m_fibers :
        m_fibers[i].fiber = m_fibers[j].fiber /\ m_fibers[i].fiber # None => i = j

(* A fiber in the list is in no thread's hands and has no waker. *)
QueuedIsFree ==
    \A i \in DOMAIN m_fibers :
        m_fibers[i].fiber # None =>
           /\ \A t \in Runners : ~Holds(t, m_fibers[i].fiber)
           /\ m_fibers[i].fiber \notin waker

(* A fiber is in the hands of one thread, and in one of its variables. *)
HeldOnce ==
    /\ \A f \in Fibers : \A t, u \in Runners : Holds(t, f) /\ Holds(u, f) => t = u
    /\ \A t \in Runners :
          ft[t].fiber # None => ft[t].fiber # cb_fiber[t] /\ pc[t] \in {"got"} \cup InTask

(* A fiber with a waker that is still in a thread's hands is the one the    *)
(* thread is suspending.                                                    *)
ArmedSuspends ==
    \A f \in waker : \A t \in Runners :
        Holds(t, f) => /\ Cur(t) = f
                       /\ pc[t] \in Suspending
                       /\ pc[t] # "parking" => m_state[f] = "HOLD"

(* A thread inside a task has its fiber; it executes on a fiber's stack     *)
(* only between the two switches of that fiber.                             *)
TaskHasFiber == \A t \in Runners : pc[t] \in InTask => Cur(t) \in Fibers

OnStackOfCur ==
    \A f \in Fibers : \A t \in onStack[f] :
        Cur(t) = f /\ pc[t] \in {"body", "parking", "leave"}

Ownership == /\ QueuedOnce /\ QueuedIsFree /\ HeldOnce /\ ArmedSuspends
             /\ TaskHasFiber /\ OnStackOfCur

-----------------------------------------------------------------------------
(* Root and the pool take turns as start() and stop() say: no pool thread   *)
(* runs before start() or after stop(), and Root runs tasks inside stop()   *)
(* only.                                                                    *)
Apart(t) == pc[t] \in {"off", "exited"}

Phases ==
    /\ main = "stopped" \/ (main = "up" /\ m_stopping) => \A t \in Pool : Apart(t)
    /\ main = "early" => Pool = {}
    /\ Root \in Runners /\ main # "in_call" => Apart(Root)

SchedulerInv == TypeOK /\ Phases /\ Ownership

-----------------------------------------------------------------------------
(* What becomes of the tasks.  A fiber has a task to run from the moment    *)
(* its callback is moved into it until the body returns or throws.          *)
Live(f) == m_cb[f] # None /\ m_cb[f] \notin finished

InHand(t, f) == (pc[t] = "got" /\ ft[t].fiber = f) \/ Handling(t, f)

Left    == {"leave", "back", "after"}
Waiting == {"INIT", "READY", "HOLD"}

(* An entry of the list names a fiber or a callback, and so does the entry  *)
(* a thread has taken and not yet looked at.                                *)
NamesOne(item) == (item.fiber = None) # (item.cb = None)

EntriesNameOne ==
    /\ \A i \in DOMAIN m_fibers : NamesOne(m_fibers[i])
    /\ \A t \in Runners : IF pc[t] = "got" THEN NamesOne(ft[t]) ELSE ft[t].cb = None

(* The state and the task of a fiber, by the place it is in: in the list,   *)
(* with a thread before, between and after the two switches, with a waker,  *)
(* or kept by a thread as the spare for callbacks.                          *)
QueuedWaits ==
    \A i \in DOMAIN m_fibers : m_fibers[i].fiber # None =>
        m_state[m_fibers[i].fiber] \in Waiting /\ Live(m_fibers[i].fiber)

Fits(t, f) ==
    /\ pc[t] \in {"got", "enter", "switch"} => m_state[f] \in Waiting /\ Live(f)
    /\ pc[t] \in {"body", "parking"} => m_state[f] = "EXEC" /\ Live(f)
    /\ pc[t] \in Left => m_state[f] \in IF Live(f) THEN {"READY", "HOLD"} ELSE {"TERM", "EXCEPT"}
    /\ (pc[t] = "parking" \/ (pc[t] \in Left /\ m_state[f] = "HOLD")) => f \in waker

InHandFits == \A t \in Runners, f \in Fibers : InHand(t, f) => Fits(t, f)

ArmedHolds ==
    \A f \in waker : Live(f) /\ ((\A t \in Runners : ~Holds(t, f)) => m_state[f] = "HOLD")

SpareIsEmpty ==
    \A t \in Runners : (cb_fiber[t] # None /\ ~Handling(t, cb_fiber[t]))
                          => m_cb[cb_fiber[t]] = None /\ m_state[cb_fiber[t]] = "INIT"

(* A fiber with a task to run is somewhere it will be found again. *)
LiveIsPlaced ==
    \A f \in Fibers : Live(f) => Queued(f) \/ f \in waker \/ \E t \in Runners : InHand(t, f)

FiberLife == EntriesNameOne /\ QueuedWaits /\ InHandFits /\ ArmedHolds /\ SpareIsEmpty
             /\ LiveIsPlaced

(* A callback that was scheduled is in an entry, in an entry a thread has   *)
(* taken, or in a fiber: in one of them until it has ended, and never in    *)
(* two.                                                                     *)
CallbackOnce ==
    /\ \A i, j \in DOMAIN m_fibers :
          m_fibers[i].cb # None /\ m_fibers[i].cb = m_fibers[j].cb => i = j
    /\ \A t, u \in Runners : ft[t].cb # None /\ ft[t].cb = ft[u].cb => t = u
    /\ \A f, g \in Fibers : m_cb[f] # None /\ m_cb[f] = m_cb[g] => f = g
    /\ \A i \in DOMAIN m_fibers : (m_fibers[i].cb # None) =>
          /\ \A t \in Runners : ft[t].cb # m_fibers[i].cb
          /\ \A f \in Fibers : m_cb[f] # m_fibers[i].cb
    /\ \A t \in Runners, f \in Fibers : ft[t].cb # None => m_cb[f] # ft[t].cb

CallbackKept ==
    \A c \in scheduled \ finished : \/ \E i \in DOMAIN m_fibers : m_fibers[i].cb = c
                                    \/ \E t \in Runners : ft[t].cb = c
                                    \/ \E f \in Fibers : m_cb[f] = c

(* Only what was scheduled is run, and a callback is entered only from the  *)
(* fiber it was moved into, while that is INIT.                             *)
NotStarted(c) == c \in scheduled \ finished /\ started[c] = 0

EnteredOnce ==
    /\ \A c \in Callbacks : /\ started[c] <= 1
                            /\ c \notin scheduled => started[c] = 0 /\ c \notin finished
    /\ \A i \in DOMAIN m_fibers : m_fibers[i].cb # None => NotStarted(m_fibers[i].cb)
    /\ \A t \in Runners : ft[t].cb # None => NotStarted(ft[t].cb)
    /\ \A f \in Fibers : m_cb[f] # None =>
          m_cb[f] \in scheduled /\ (m_state[f] = "INIT" => NotStarted(m_cb[f]))

CallbackLife == CallbackOnce /\ CallbackKept /\ EnteredOnce

TaskInv == SchedulerInv /\ FiberLife /\ CallbackLife

(* The thread named in schedule() stays with the task until it is entered:  *)
(* as the thread of its entry, and then as the thread that took it.         *)
PinKept ==
    /\ \A i \in DOMAIN m_fibers :
          LET item == m_fibers[i] IN
          /\ item.cb # None => item.thread = pin[item.cb]
          /\ item.fiber # None /\ m_state[item.fiber] = "INIT" => item.thread = pin[m_cb[item.fiber]]
    /\ \A t \in Runners : ft[t].cb # None => pin[ft[t].cb] \in {AnyThread, t}
    /\ \A t \in Runners, f \in Fibers :
          InHand(t, f) /\ m_state[f] = "INIT" => pin[m_cb[f]] \in {AnyThread, t}

-----------------------------------------------------------------------------
(* Why stop() leaves nothing behind: a thread ends only when it has looked  *)
(* through the list since its idle fiber ended, and what is added later is  *)
(* added by a thread that can take it, or by Root while no thread ends.     *)
(* Root's own run() has ended before a later round begins.                  *)
BeforeCall == {"up", "early", "set", "call"}

Rounds ==
    /\ starts <= MaxStarts
    /\ main = "up" => /\ m_stopping <=> starts = 0
                      /\ \A t \in Pool : t \notin idleTerm /\ pc[t] # "exited"
    /\ main # "up" => starts > 0
    /\ Root \in Runners /\ main \in BeforeCall
          => pc[Root] = "off" \/ (pc[Root] = "exited" /\ starts > 1)
    /\ main \in {"early", "call", "in_call"} => UseCaller
    /\ main = "stopped" => \A t \in Pool : pc[t] = "exited"

HasTaker ==
    \A i \in DOMAIN m_fibers :
        \E t \in Runners : ~Gone(t) /\ m_fibers[i].thread \in {AnyThread, t}

StopInv == TaskInv /\ Rounds /\ HasTaker /\ NoAssertFailure

(* All that the proofs use of a reachable state. *)
IInv == StopInv /\ PinKept
-----------------------------------------------------------------------------
(* A runner that is alone.  With nobody else in run(), a fiber may be in    *)
(* the list twice, be there while it executes, and be there with a waker:   *)
(* what a waker or Root schedules too early or again is, when its turn      *)
(* comes, suspended and resumed, or ended and dropped.                      *)
Sound(f) == Live(f) \/ m_state[f] \in {"TERM", "EXCEPT"}

(* The task of the fiber has a waker or has been woken already. *)
Parking(t, f) == pc[t] = "parking" \/ (pc[t] \in Left /\ m_state[f] = "HOLD")

SoloFits(t, f) ==
    /\ pc[t] = "got" => Sound(f)
    /\ pc[t] \in {"enter", "switch"} => m_state[f] \in Waiting /\ Live(f)
    /\ pc[t] \in {"body", "parking"} => m_state[f] = "EXEC" /\ Live(f)
    /\ pc[t] \in Left => m_state[f] \in IF Live(f) THEN {"READY", "HOLD"} ELSE {"TERM", "EXCEPT"}
    /\ Parking(t, f) => f \in waker \/ Queued(f)

(* A fiber somebody has a pointer to can be resumed or has ended; one that  *)
(* has a task to run is somewhere it will be found again; and cb_fiber is   *)
(* nobody else's, unless its body is suspending: then it is let go of.      *)
SoloFiber(t, f) ==
    /\ InHand(t, f) => SoloFits(t, f)
    /\ m_state[f] = "EXEC" => pc[t] \in {"body", "parking"} /\ Cur(t) = f
    /\ Queued(f) \/ f \in waker \cup handles => Sound(f)
    /\ Live(f) => /\ m_state[f] \notin {"TERM", "EXCEPT"}
                  /\ Queued(f) \/ InHand(t, f) \/ (f \in waker /\ m_state[f] = "HOLD")
    /\ cb_fiber[t] = f => /\ f \notin handles
                          /\ ~Handling(t, f) => m_cb[f] = None /\ m_state[f] = "INIT"
                          /\ Queued(f) \/ f \in waker => Handling(t, f) /\ Parking(t, f)

SoloHands(t) ==
    ft[t].fiber # None => ft[t].fiber # cb_fiber[t] /\ pc[t] \in {"got"} \cup InTask

SoloLife ==
    /\ EntriesNameOne
    /\ \A t \in Runners : SoloHands(t) /\ \A f \in Fibers : SoloFiber(t, f)

(* When the thread leaves run() the list is empty, and stays so until Root  *)
(* is in its program again.                                                 *)
GoneIsEmpty ==
    \A t \in Runners : Gone(t) /\ (t = Root => main \notin BeforeCall) => m_fibers = <<>>

(* The first does not depend on the rounds of start() and stop(). *)
SoloTaskInv == TypeOK /\ TaskHasFiber /\ Phases /\ SoloLife /\ CallbackLife

SoloInv == SoloTaskInv /\ Rounds /\ GoneIsEmpty /\ NoAssertFailure
=============================================================================
