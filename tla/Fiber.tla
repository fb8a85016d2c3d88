------------------------------- MODULE Fiber -------------------------------
(***************************************************************************)
(* The fibers of vity/fiber.h and fiber.cc as the loop of Scheduler::run   *)
(* uses them: the contexts that are saved and restored, the pointers each  *)
(* thread keeps to "its" fibers, and how long the objects live.            *)
(*                                                                         *)
(* Every thread has its own stack and a fiber that stands for it (the one  *)
(* GetThis makes): both are named by the thread.  A fiber and its stack    *)
(* have one name too.  A saved context is the stack it continues; where    *)
(* that stack goes on is in pc.                                            *)
(*                                                                         *)
(* Which fiber the scheduler takes is left open (module Scheduler): here   *)
(* the list is a set, of any fiber and any callback.  As in its run        *)
(* sched_pool, a fiber is scheduled again only when the thread that        *)
(* switched to it has let go of it.                                        *)
(***************************************************************************)
EXTENDS Naturals

CONSTANTS
    Threads,
    Caller,   (* the thread that made the scheduler with use_caller        *)
    Root,     (* its m_rootFiber                                           *)
    Fibers,   (* bound: the objects there may be, each is made once        *)
    None

ASSUME FiberAssumption ==
    /\ Caller \in Threads \cup {None}
    /\ Root \notin Threads \cup Fibers /\ Threads \cap Fibers = {}
    /\ None \notin Threads \cup Fibers \cup {Root}

Objects == Threads \cup {Root} \cup Fibers

VARIABLES
    m_state,   (* of each object; "none" before it is made, "freed" after  *)
    m_ctx,     (* of each object: the stack its context continues          *)
    t_fiber,   (* of each thread: fiber.cc's pointer to the current fiber  *)
    mainFiber, (* of each thread: scheduler.cc's t_fiber, GetMainFiber()   *)
    exec,      (* of each thread: the stack it executes                    *)
    pc,        (* of each stack: where it is or will go on                 *)
    cur,       (* of each stack: the fiber MainFunc refers to              *)
    locals,    (* of each thread: the fibers run() refers to               *)
    mine,      (* the fibers the program refers to                         *)
    m_fibers,  (* the fibers in the list of the scheduler                  *)
    failed     (* an assertion has failed                                  *)

vars == <<m_state, m_ctx, t_fiber, mainFiber, exec, pc, cur, locals, mine, m_fibers, failed>>

State == {"INIT", "HOLD", "EXEC", "TERM", "READY", "EXCEPT"}

(* What reset() and the destructor assert of a fiber with a stack. *)
Rests == {"INIT", "EXCEPT", "TERM"}

(* Of the stacks with a loop: outside it, in it, inside a swapIn, in call, *)
(* done.  Of the others: not begun, in the body, behind cur.reset(), in    *)
(* the last swapOut.                                                       *)
Place == {"out", "loop", "swap", "call", "over", "start", "on", "last", "end"}

(* ft.fiber, cb_fiber, idle_fiber, and which of them was switched to. *)
Locals == [ft : Fibers \cup {None}, cb : Fibers \cup {None}, idle : Fibers \cup {None},
           to : {"ft", "cb", "idle"}]
NoLocals == [ft |-> None, cb |-> None, idle |-> None, to |-> "idle"]

(* Wrong on purpose, to show what the properties are about. *)
KeepsThis(t, f) == UNCHANGED t_fiber
MainsThis(t, f) ==
    t_fiber' = [t_fiber EXCEPT ![t] = IF mainFiber[t] = None THEN f ELSE mainFiber[t]]
ThreadsFiber(t) == t
RawPointer(f)   == FALSE

-----------------------------------------------------------------------------
(* Helpers *)

(* MainFunc and CallerMainFunc refer to their fiber on its own stack, up   *)
(* to cur.reset().                                                         *)
OnStack(f) == \E s \in Objects : pc[s] = "on" /\ cur[s] = f

(* Who else does: the program, the list, a loop. *)
Held(f) ==
    \/ f \in mine \cup m_fibers
    \/ \E t \in Threads : f \in {locals[t].ft, locals[t].cb, locals[t].idle}
    \/ OnStack(f)

(* The end of a step that leaves the states at these: what nothing refers  *)
(* to is destroyed, and ~Fiber asserts that it is at rest.                 *)
Settle(state, asserted) ==
    LET gone == {f \in Fibers : state[f] \in State /\ ~Held(f)'}
    IN  /\ m_state' = [o \in Objects |-> IF o \in gone THEN "freed" ELSE state[o]]
        /\ failed' = (failed \/ ~asserted \/ \E f \in gone : state[f] \notin Rests)

SetThis(t, f) == t_fiber' = [t_fiber EXCEPT ![t] = f]

(* Where swapIn saves the context it leaves, and swapOut finds it. *)
GetMainFiber(t) == mainFiber[t]

(* The states with f made, or made anew by reset(). *)
Fresh(f) == m_state[f] = "none"
Made(f)  == [m_state EXCEPT ![f] = "INIT"]

(* Fiber::swapIn on the stack of the loop.  MainFunc asks GetThis which    *)
(* fiber it is for.                                                        *)
SwapIn(t, f, state, asserted) ==
    LET s == m_ctx[f]
    IN  /\ SetThis(t, f)
        /\ m_ctx' = [m_ctx EXCEPT ![GetMainFiber(t)] = exec[t]]
        /\ exec' = [exec EXCEPT ![t] = s]
        /\ pc' = [pc EXCEPT ![exec[t]] = "swap", ![s] = "on"]
        /\ cur' = [cur EXCEPT ![s] = IF pc[s] = "start" THEN t_fiber'[t] ELSE @]
        /\ Settle([state EXCEPT ![f] = "EXEC"],
                  asserted /\ state[f] # "EXEC" /\ pc[s] # "end")

(* Fiber::swapOut of f, on the stack the thread executes. *)
SwapOut(t, f) ==
    /\ m_ctx' = [m_ctx EXCEPT ![f] = exec[t]]
    /\ exec' = [exec EXCEPT ![t] = m_ctx[GetMainFiber(t)]]

-----------------------------------------------------------------------------
(* The program *)

Create(f) ==
    /\ Fresh(f)
    /\ mine' = mine \cup {f}
    /\ m_state' = Made(f)
    /\ UNCHANGED <<m_ctx, t_fiber, mainFiber, exec, pc, cur, locals, m_fibers, failed>>

Schedule(f) ==
    /\ f \in mine \ m_fibers
    /\ \A t \in Threads : f \notin {locals[t].ft, locals[t].cb}
    /\ m_fibers' = m_fibers \cup {f}
    /\ UNCHANGED <<m_state, m_ctx, t_fiber, mainFiber, exec, pc, cur, locals, mine, failed>>

Forget(f) ==
    /\ f \in mine
    /\ mine' = mine \ {f}
    /\ UNCHANGED <<m_ctx, t_fiber, mainFiber, exec, pc, cur, locals, m_fibers>>
    /\ Settle(m_state, TRUE)

(* A body gives the program a reference to its own fiber: GetThis. *)
Publish(t) ==
    /\ exec[t] \in Fibers /\ pc[exec[t]] = "on"
    /\ t_fiber[t] \in Fibers \ mine
    /\ t_fiber[t] # locals[t].idle
    /\ mine' = mine \cup {t_fiber[t]}
    /\ UNCHANGED <<m_state, m_ctx, t_fiber, mainFiber, exec, pc, cur, locals, m_fibers, failed>>

(* The constructor of Scheduler with use_caller. *)
Construct ==
    /\ Caller # None /\ m_state[Caller] = "none"
    /\ m_state' = [m_state EXCEPT ![Caller] = "EXEC", ![Root] = "INIT"]
    /\ SetThis(Caller, Caller)
    /\ mainFiber' = [mainFiber EXCEPT ![Caller] = Root]
    /\ UNCHANGED <<m_ctx, exec, pc, cur, locals, mine, m_fibers, failed>>

-----------------------------------------------------------------------------
(* The loop of Scheduler::run *)

InLoop(t) == pc[exec[t]] = "loop"

(* A thread of the pool: run() from its begin to the loop. *)
Enter(t, f) ==
    /\ t # Caller /\ pc[t] = "out"
    /\ Fresh(f)
    /\ m_state' = [Made(f) EXCEPT ![t] = "EXEC"]
    /\ SetThis(t, t)
    /\ mainFiber' = [mainFiber EXCEPT ![t] = t]
    /\ locals' = [locals EXCEPT ![t].idle = f]
    /\ pc' = [pc EXCEPT ![t] = "loop"]
    /\ UNCHANGED <<m_ctx, exec, cur, mine, m_fibers, failed>>

(* Scheduler::stop on the caller, the first time: m_rootFiber->call(),     *)
(* CallerMainFunc and run() to the loop.                                   *)
Call(f) ==
    /\ Caller # None /\ m_state[Root] = "INIT"
    /\ Fresh(f)
    /\ SetThis(Caller, Root)
    /\ m_ctx' = [m_ctx EXCEPT ![Caller] = Caller]
    /\ exec' = [exec EXCEPT ![Caller] = m_ctx[Root]]
    /\ pc' = [pc EXCEPT ![Caller] = "call", ![m_ctx[Root]] = "loop"]
    /\ cur' = [cur EXCEPT ![m_ctx[Root]] = t_fiber'[Caller]]
    /\ m_state' = [Made(f) EXCEPT ![Root] = "EXEC"]
    /\ locals' = [locals EXCEPT ![Caller].idle = f]
    /\ UNCHANGED <<mainFiber, mine, m_fibers, failed>>

(* A later stop() that finds a task left: it does not ask whether the root *)
(* fiber has ended, and call() resumes CallerMainFunc behind its back().   *)
CallEnded ==
    /\ Caller # None /\ m_state[Root] = "TERM"
    /\ SetThis(Caller, Root)
    /\ m_ctx' = [m_ctx EXCEPT ![Caller] = Caller]
    /\ exec' = [exec EXCEPT ![Caller] = m_ctx[Root]]
    /\ pc' = [pc EXCEPT ![Caller] = "call"]
    /\ m_state' = [m_state EXCEPT ![Root] = "EXEC"]
    /\ UNCHANGED <<mainFiber, cur, locals, mine, m_fibers, failed>>

(* A fiber from the list: one that has ended is let go of, to another it   *)
(* is switched.                                                            *)
TakeFiber(t, f) ==
    /\ InLoop(t)
    /\ f \in m_fibers /\ m_state[f] # "EXEC"
    /\ m_fibers' = m_fibers \ {f}
    /\ UNCHANGED <<mainFiber, mine>>
    /\ IF m_state[f] \in {"TERM", "EXCEPT"}
       THEN UNCHANGED <<m_ctx, t_fiber, exec, pc, cur, locals>> /\ Settle(m_state, TRUE)
       ELSE /\ locals' = [locals EXCEPT ![t].ft = f, ![t].to = "ft"]
            /\ SwapIn(t, f, m_state, TRUE)

(* A callback: cb_fiber is made, or reset to it. *)
TakeCallback(t, f) ==
    /\ InLoop(t)
    /\ IF locals[t].cb = None THEN Fresh(f) ELSE f = locals[t].cb
    /\ locals' = [locals EXCEPT ![t].cb = f, ![t].to = "cb"]
    /\ UNCHANGED <<mainFiber, mine, m_fibers>>
    /\ SwapIn(t, f, Made(f), m_state[f] \in Rests \cup {"none"})

SwitchToIdle(t) ==
    LET f == locals[t].idle
    IN  /\ InLoop(t)
        /\ m_state[f] # "TERM"
        /\ locals' = [locals EXCEPT ![t].to = "idle"]
        /\ UNCHANGED <<mainFiber, mine, m_fibers>>
        /\ SwapIn(t, f, m_state, TRUE)

(* Back in the loop, from ft.fiber: scheduled again if it is READY, and    *)
(* let go of.                                                              *)
Back(t, which) == pc[exec[t]] = "swap" /\ locals[t].to = which
Again(f) == IF m_state[f] = "READY" THEN m_fibers \cup {f} ELSE m_fibers

AfterFiber(t) ==
    LET f == locals[t].ft
    IN  /\ Back(t, "ft")
        /\ m_fibers' = Again(f)
        /\ locals' = [locals EXCEPT ![t].ft = None]
        /\ pc' = [pc EXCEPT ![exec[t]] = "loop"]
        /\ UNCHANGED <<m_ctx, t_fiber, mainFiber, exec, cur, mine>>
        /\ Settle(m_state, m_state[f] # "EXEC")

(* From cb_fiber: one that has ended is kept, with reset(nullptr); one     *)
(* that is neither that nor READY is HOLD from here on.                    *)
AfterCallback(t) ==
    LET f == locals[t].cb
    IN  /\ Back(t, "cb")
        /\ m_fibers' = Again(f)
        /\ UNCHANGED <<t_fiber, mainFiber, exec, cur, mine>>
        /\ IF m_state[f] \in {"TERM", "EXCEPT"}
           THEN /\ m_ctx' = [m_ctx EXCEPT ![f] = f]
                /\ pc' = [pc EXCEPT ![exec[t]] = "loop", ![f] = "start"]
                /\ UNCHANGED locals
                /\ Settle(Made(f), TRUE)
           ELSE /\ locals' = [locals EXCEPT ![t].cb = None]
                /\ pc' = [pc EXCEPT ![exec[t]] = "loop"]
                /\ UNCHANGED m_ctx
                /\ Settle(IF m_state[f] = "READY" THEN m_state
                          ELSE [m_state EXCEPT ![f] = "HOLD"], TRUE)

AfterIdle(t) ==
    LET f == locals[t].idle
    IN  /\ Back(t, "idle")
        /\ pc' = [pc EXCEPT ![exec[t]] = "loop"]
        /\ m_state' = IF m_state[f] \in {"TERM", "EXCEPT"} THEN m_state
                      ELSE [m_state EXCEPT ![f] = "HOLD"]
        /\ UNCHANGED <<m_ctx, t_fiber, mainFiber, exec, cur, locals, mine, m_fibers, failed>>

(* run() returns on a thread of the pool, which ends: its fiber too. *)
LeavePool(t) ==
    /\ exec[t] = t /\ InLoop(t)
    /\ m_state[locals[t].idle] = "TERM"
    /\ locals' = [locals EXCEPT ![t] = NoLocals]
    /\ pc' = [pc EXCEPT ![t] = "over"]
    /\ t_fiber' = IF t_fiber[t] = t THEN [t_fiber EXCEPT ![t] = None] ELSE t_fiber
    /\ UNCHANGED <<m_ctx, mainFiber, exec, cur, mine, m_fibers>>
    /\ Settle([m_state EXCEPT ![t] = "freed"], m_state[t] = "EXEC")

(* run() returns into CallerMainFunc, and back() returns to stop(). *)
LeaveRoot(t) ==
    LET c == cur[exec[t]]
    IN  /\ exec[t] # t /\ InLoop(t)
        /\ m_state[locals[t].idle] = "TERM"
        /\ locals' = [locals EXCEPT ![t] = NoLocals]
        /\ SetThis(t, t)
        /\ m_ctx' = [m_ctx EXCEPT ![c] = exec[t]]
        /\ exec' = [exec EXCEPT ![t] = m_ctx[t]]
        /\ pc' = [pc EXCEPT ![exec[t]] = "end", ![m_ctx[t]] = "over"]
        /\ UNCHANGED <<mainFiber, cur, mine, m_fibers>>
        /\ Settle([m_state EXCEPT ![c] = "TERM"], pc[m_ctx[t]] = "call")

-----------------------------------------------------------------------------
(* On the stack of a fiber *)

InBody(t) == exec[t] \in Fibers /\ pc[exec[t]] = "on"

(* YieldToReady and YieldToHold; the idle fiber calls the latter. *)
Yield(t, state) ==
    LET c == t_fiber[t]
    IN  /\ InBody(t)
        /\ locals[t].to = "idle" => state = "HOLD"
        /\ m_state' = [m_state EXCEPT ![c] = state]
        /\ SwapOut(t, c)
        /\ UNCHANGED <<t_fiber, mainFiber, pc, cur, locals, mine, m_fibers, failed>>

(* The body returns or throws; the idle fiber returns: MainFunc up to      *)
(* cur.reset().                                                            *)
Finish(t, state) ==
    LET s == exec[t]
    IN  /\ InBody(t)
        /\ locals[t].to = "idle" => state = "TERM"
        /\ pc' = [pc EXCEPT ![s] = "last"]
        /\ UNCHANGED <<m_ctx, t_fiber, mainFiber, exec, cur, locals, mine, m_fibers>>
        /\ Settle([m_state EXCEPT ![cur[s]] = state], TRUE)

(* raw_ptr->swapOut(). *)
LastSwapOut(t) ==
    LET s == exec[t]
    IN  /\ s \in Fibers /\ pc[s] = "last"
        /\ SwapOut(t, cur[s])
        /\ pc' = [pc EXCEPT ![s] = "end"]
        /\ UNCHANGED <<m_state, t_fiber, mainFiber, cur, locals, mine, m_fibers, failed>>

-----------------------------------------------------------------------------
(* Specification *)

Init ==
    /\ m_state = [o \in Objects |-> "none"]
    /\ m_ctx = [o \in Objects |-> o]
    /\ t_fiber = [t \in Threads |-> None]
    /\ mainFiber = [t \in Threads |-> None]
    /\ exec = [t \in Threads |-> t]
    /\ pc = [s \in Objects |-> IF s \in Threads THEN "out" ELSE "start"]
    /\ cur = [s \in Objects |-> None]
    /\ locals = [t \in Threads |-> NoLocals]
    /\ mine = {} /\ m_fibers = {}
    /\ failed = FALSE

Program == \E f \in Fibers : Create(f) \/ Schedule(f) \/ Forget(f)

Loop(t) ==
    \/ \E f \in Fibers : TakeFiber(t, f) \/ TakeCallback(t, f)
    \/ SwitchToIdle(t)
    \/ AfterFiber(t) \/ AfterCallback(t) \/ AfterIdle(t)
    \/ LeavePool(t) \/ LeaveRoot(t)

Body(t) ==
    \/ \E state \in {"READY", "HOLD"} : Yield(t, state)
    \/ \E state \in {"TERM", "EXCEPT"} : Finish(t, state)
    \/ LastSwapOut(t)
    \/ Publish(t)

(* A stack is resumed behind its last switch: "never reach". *)
NeverReach(t) == pc[exec[t]] = "end"

(* An assertion that fails ends the program. *)
Next ==
    /\ ~failed /\ \A t \in Threads : ~NeverReach(t)
    /\ \/ Program
       \/ Construct \/ CallEnded
       \/ \E f \in Fibers : Call(f) \/ \E t \in Threads : Enter(t, f)
       \/ \E t \in Threads : Loop(t) \/ Body(t)

Spec == Init /\ [][Next]_vars

-----------------------------------------------------------------------------
(* Properties *)

(* Types; the fiber of a thread is only ever EXEC. *)
TypeOK ==
    /\ m_state \in [Objects -> State \cup {"none", "freed"}]
    /\ \A t \in Threads : m_state[t] \in {"none", "EXEC", "freed"}
    /\ m_ctx \in [Objects -> Objects]
    /\ t_fiber \in [Threads -> Objects \cup {None}]
    /\ mainFiber \in [Threads -> Threads \cup {Root, None}]
    /\ exec \in [Threads -> Objects]
    /\ pc \in [Objects -> Place]
    /\ cur \in [Objects -> Objects \cup {None}]
    /\ locals \in [Threads -> Locals]
    /\ mine \subseteq Fibers /\ m_fibers \subseteq Fibers
    /\ failed \in BOOLEAN

(* While a fiber's stack is executed, GetThis() on that thread answers     *)
(* with the fiber, and MainFunc works on it, whatever other fibers the     *)
(* thread switched to and wherever the fiber was executed before: what     *)
(* YieldToReady, YieldToHold and MainFunc do is done to the right fiber.   *)
GetThisIsRight ==
    \A t \in Threads :
        exec[t] \in Fibers =>
            /\ t_fiber[t] = exec[t] /\ m_ctx[exec[t]] = exec[t]
            /\ cur[exec[t]] = exec[t]

(* There is always a way back: while a thread executes a fiber, the loop   *)
(* it left waits in the context swapOut will restore, and the caller of    *)
(* stop() waits in the one back() will restore.  No two threads execute    *)
(* one stack.                                                              *)
WayBack ==
    \A t \in Threads :
        /\ exec[t] \in Fibers =>
               LET m == mainFiber[t] IN m_ctx[m] = m /\ pc[m] = "swap"
        /\ exec[t] # t /\ t = Caller => m_ctx[t] = t /\ pc[t] = "call"
        /\ \A u \in Threads \ {t} : exec[u] # exec[t]

(* A fiber lives as long as it is needed: none is destroyed while its      *)
(* stack is executed, up to the last swapOut behind cur.reset(), or while  *)
(* something is left on it.  No assertion of ~Fiber, reset and swapIn      *)
(* fails, nor "never reach" behind the body of a fiber; behind run() on    *)
(* the root fiber it does, when stop() calls that fiber again (CallEnded). *)
LivesWhileUsed ==
    /\ ~failed
    /\ \A t \in Threads : NeverReach(t) => t = Caller /\ exec[t] = Root
    /\ \A t \in Threads : pc[t] # "over" => m_state[exec[t]] # "freed"

(* t_fiber is "the fiber that is executing" (fiber.cc:14), so it names one *)
(* that exists, on every thread that is not over.  It does not: swapOut    *)
(* leaves it at the fiber it left.                                         *)
CurrentExists ==
    \A t \in Threads :
        pc[t] # "over" /\ t_fiber[t] # None => m_state[t_fiber[t]] # "freed"
=============================================================================
