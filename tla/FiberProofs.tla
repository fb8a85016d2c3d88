---------------------------- MODULE FiberProofs ----------------------------
(***************************************************************************)
(* Proofs about module Fiber, for any threads and any number of fibers.    *)
(* The invariant says where each thread is, what that says about the       *)
(* fibers it refers to, and that two threads never refer to one fiber.     *)
(***************************************************************************)
EXTENDS Fiber, TLAPS

(* The stack the loop of a thread runs on. *)
Home(t) == IF t = Caller THEN Root ELSE t

(* The fiber run() switched to last. *)
Chosen(t) ==
    IF locals[t].to = "ft" THEN locals[t].ft
    ELSE IF locals[t].to = "cb" THEN locals[t].cb ELSE locals[t].idle

(* run() refers to f. *)
Refers(t, f) == f = locals[t].ft \/ f = locals[t].cb \/ f = locals[t].idle

(* Every context is saved where it belongs. *)
Contexts == \A o \in Objects : m_ctx[o] = o

(* A thread is outside run(), in the loop, in a fiber or back from it. *)
LoopOf(t) ==
    /\ exec[t] \in {t, Home(t)} \cup Fibers
    /\ pc[Home(t)] \in Place \ {"call", "on", "last"}
    /\ pc[Home(t)] \in {"loop", "swap"} => mainFiber[t] = Home(t) /\ locals[t].idle \in Fibers
    /\ pc[Home(t)] = "loop" => exec[t] = Home(t)
    /\ pc[Home(t)] = "swap" => exec[t] \in {Home(t), Chosen(t)} /\ Chosen(t) \in Fibers
                               /\ pc[Chosen(t)] # "start"
    /\ exec[t] \in Fibers => pc[Home(t)] = "swap" /\ exec[t] = Chosen(t)
                             /\ t_fiber[t] = exec[t] /\ pc[exec[t]] \in {"on", "last"}

(* The threads' own fibers; the caller's loop runs on the root fiber. *)
ThreadOf(t) ==
    /\ m_state[t] = "freed" => pc[t] = "over"
    /\ t # Caller => (pc[t] \in {"loop", "swap"} => m_state[t] = "EXEC")
    /\ t # Caller => (pc[t] = "out" => exec[t] = t)
    /\ t # Caller => pc[t] \in {"out", "loop", "swap", "over"}

CallerOf(t) ==
    t = Caller =>
        /\ m_state[t] # "freed" /\ pc[t] \in {"out", "call", "over"}
        /\ exec[t] # t => pc[t] = "call"
        /\ m_state[Root] \in {"none", "INIT"} =>
               pc[Root] = "start" /\ exec[t] = t /\ pc[t] = "out"
        /\ m_state[Root] # "none" => mainFiber[t] = Root
        /\ m_state[Root] = "TERM" => exec[t] = t
        /\ m_state[t] = "none" => m_state[Root] = "none"
        /\ pc[Root] \in {"loop", "swap"} => cur[Root] = Root

RootOK == m_state[Root] # "freed" /\ pc[Root] \in {"start", "loop", "swap", "end"}

Loops == RootOK /\ \A t \in Threads : LoopOf(t) /\ ThreadOf(t) /\ CallerOf(t)

(* How far the body of a fiber is says what its state is. *)
BodyOf(f) ==
    /\ pc[f] \in {"start", "on", "last", "end"}
    /\ pc[f] # "start" => cur[f] = f
    /\ pc[f] = "start" => m_state[f] \in {"none", "INIT", "freed"}
    /\ pc[f] = "on" => m_state[f] \in {"HOLD", "READY", "EXEC"}
    /\ pc[f] \in {"last", "end"} => m_state[f] \in {"TERM", "EXCEPT", "freed"}
    /\ m_state[f] = "EXEC" => \E t \in Threads : exec[t] = f

Bodies == \A f \in Fibers : BodyOf(f)

(* What a fiber is referred to by keeps it; each fiber is in one loop or   *)
(* in the list.                                                            *)
Kept == \A f \in Fibers :
    (f \in mine \cup m_fibers \/ \E t \in Threads : Refers(t, f)) => m_state[f] \in State

Apart ==
    /\ \A f \in Fibers, t, u \in Threads : Refers(t, f) /\ Refers(u, f) => t = u
    /\ \A f \in m_fibers, t \in Threads : ~Refers(t, f)
    /\ \A t \in Threads : locals[t].idle \notin mine

(* The three of one thread. *)
OwnOf(t) ==
    /\ locals[t].ft # None =>
           /\ pc[Home(t)] = "swap" /\ locals[t].to = "ft"
           /\ locals[t].ft \notin {locals[t].cb, locals[t].idle}
    /\ locals[t].cb # None =>
           /\ locals[t].cb # locals[t].idle
           /\ (pc[Home(t)] = "swap" /\ locals[t].to = "cb") \/ m_state[locals[t].cb] = "INIT"
    /\ locals[t].idle # None => m_state[locals[t].idle] # "EXCEPT"

Owned == \A t \in Threads : OwnOf(t)

IInv == TypeOK /\ Contexts /\ Loops /\ Bodies /\ Kept /\ Apart /\ Owned /\ ~failed

-----------------------------------------------------------------------------
(* Helpers *)

LEMMA Disjoint ==
    /\ Root \in Objects /\ Root \notin Threads /\ Root \notin Fibers
    /\ Threads \subseteq Objects /\ Fibers \subseteq Objects
    /\ \A t \in Threads : t \notin Fibers /\ Home(t) \in Objects /\ Home(t) \notin Fibers
    /\ \A t, u \in Threads : Home(t) = Home(u) => t = u
    /\ \A t, u \in Threads : u = Home(t) => t = u
    /\ None \notin Objects
    /\ Caller # None => Caller \in Threads
BY FiberAssumption DEF Objects, Home

LEMMA InitHolds == Init => IInv
<1> SUFFICES ASSUME Init PROVE IInv
    OBVIOUS
<1>1. NoLocals \in Locals
    BY DEF NoLocals, Locals
<1>2. TypeOK
    BY <1>1 DEF Init, TypeOK, Objects, Place
<1>3. Contexts /\ Bodies /\ ~failed
    BY FiberAssumption, Disjoint DEF Init, Contexts, Bodies, BodyOf, Objects
<1>4. \A t \in Threads, f \in Fibers : ~Refers(t, f)
    BY FiberAssumption DEF Init, Refers, NoLocals
<1>5. Kept /\ Apart
    BY <1>4, FiberAssumption DEF Init, Kept, Apart, NoLocals
<1>6. Loops /\ Owned
    BY FiberAssumption, Disjoint
    DEF Init, Loops, RootOK, LoopOf, ThreadOf, CallerOf, Owned, OwnOf, NoLocals, Place,
        Objects, Home
<1> QED
    BY <1>2, <1>3, <1>5, <1>6 DEF IInv

(* What keeps a fiber alive, said of the fiber. *)
Needed(f) ==
    \/ f \in mine \cup m_fibers
    \/ \E t \in Threads : Refers(t, f)
    \/ pc[f] = "on" /\ cur[f] = f

(* Settle destroys fibers that are at rest, if all that are not needed     *)
(* are, and nothing else.                                                  *)
LEMMA Settled ==
    ASSUME NEW STATE state, NEW STATE asserted,
           state \in [Objects -> State \cup {"none", "freed"}],
           Settle(state, asserted), ~failed, asserted,
           \A g \in Fibers : state[g] \in State /\ ~Needed(g)' => state[g] \in Rests
    PROVE  /\ ~failed' /\ failed' \in BOOLEAN /\
                  m_state' \in [Objects -> State \cup {"none", "freed"}]
           /\ \A o \in Objects \ Fibers : m_state'[o] = state[o]
           /\ \A g \in Fibers : Needed(g)' => m_state'[g] = state[g]
           /\ \A g \in Fibers : (\E u \in Threads : Refers(u, g)') => m_state'[g] = state[g]
           /\ \A g \in Fibers : m_state'[g] # state[g] =>
                  m_state'[g] = "freed" /\ state[g] \in Rests
<1>1. \A g \in Fibers : ((\E u \in Threads : Refers(u, g)') => Needed(g)') /\
          (Needed(g)' => Held(g)')
    BY Disjoint DEF Needed, Held, OnStack, Refers
<1> QED
    BY <1>1, Disjoint DEF Settle

(* Where a thread is. *)
LEMMA AtHome ==
    ASSUME IInv, NEW t \in Threads, pc[exec[t]] \in {"loop", "swap"}
    PROVE  /\ exec[t] = Home(t) /\ mainFiber[t] = Home(t)
           /\ locals[t].idle \in Fibers
           /\ \A f \in Fibers : Refers(t, f) =>
                  m_state[f] # "EXEC" /\ \A u \in Threads : exec[u] # f
<1>1. exec[t] = Home(t)
    BY DEF IInv, Loops, LoopOf, CallerOf, Home
<1>2. mainFiber[t] = Home(t) /\ locals[t].idle \in Fibers
    BY <1>1 DEF IInv, Loops, LoopOf
<1>3. ASSUME NEW f \in Fibers, Refers(t, f), NEW u \in Threads, exec[u] = f
      PROVE  FALSE
    BY <1>3 DEF IInv, Loops, LoopOf, Apart, Refers, Chosen
<1> QED
    BY <1>1, <1>2, <1>3 DEF IInv, Bodies, BodyOf

LEMMA InFiber ==
    ASSUME IInv, NEW t \in Threads, exec[t] \in Fibers
    PROVE  /\ pc[Home(t)] = "swap" /\ mainFiber[t] = Home(t)
           /\ exec[t] = Chosen(t) /\ Refers(t, exec[t])
           /\ t_fiber[t] = exec[t] /\ cur[exec[t]] = exec[t] /\ pc[exec[t]] \in {"on", "last"}
           /\ m_state[exec[t]] \in State
           /\ \A u \in Threads : Refers(u, exec[t]) \/ exec[u] = exec[t] => u = t
<1>1. pc[Home(t)] = "swap" /\ exec[t] = Chosen(t) /\ t_fiber[t] = exec[t] /\
          pc[exec[t]] \in {"on", "last"}
    BY DEF IInv, Loops, LoopOf
<1>2. mainFiber[t] = Home(t) /\ cur[exec[t]] = exec[t]
    BY DEF IInv, Loops, LoopOf, Bodies, BodyOf
<1>3. Refers(t, exec[t])
    BY <1>1 DEF Refers, Chosen
<1>4. m_state[exec[t]] \in State
    BY <1>3 DEF IInv, Kept
<1>5. ASSUME NEW u \in Threads, Refers(u, exec[t]) \/ exec[u] = exec[t] PROVE u = t
    BY <1>5 DEF IInv, Loops, LoopOf, Apart, Refers, Chosen
<1> QED
    BY <1>1, <1>2, <1>3, <1>4, <1>5

LEMMA CreateKeeps == ASSUME IInv, NEW f \in Fibers, Create(f) PROVE IInv'
<1>1. TypeOK' /\ ~failed'
    BY Disjoint DEF Create, Made, IInv, TypeOK, State
<1>2. Contexts'
    BY DEF Create, IInv, Contexts
<1>3. Loops'
    BY Disjoint DEF Create, Made, IInv, Loops, RootOK, LoopOf, ThreadOf, CallerOf, Chosen
<1>4. Bodies'
    BY DEF Create, Fresh, Made, IInv, Bodies, BodyOf
<1>5. Kept'
    BY Disjoint DEF Create, Made, IInv, TypeOK, Kept, Refers, State
<1>6. Apart'
    BY DEF Create, Fresh, IInv, Apart, Refers, Kept, State
<1>7. Owned'
    BY DEF Create, Made, IInv, Owned, OwnOf
<1> QED
    BY <1>1, <1>2, <1>3, <1>4, <1>5, <1>6, <1>7 DEF IInv

LEMMA ScheduleKeeps == ASSUME IInv, NEW f \in Fibers, Schedule(f) PROVE IInv'
<1>1. TypeOK' /\ ~failed'
    BY DEF Schedule, IInv, TypeOK
<1>2. Contexts'
    BY DEF Schedule, IInv, Contexts
<1>3. Loops'
    BY DEF Schedule, IInv, Loops, RootOK, LoopOf, ThreadOf, CallerOf, Chosen
<1>4. Bodies'
    BY DEF Schedule, IInv, Bodies, BodyOf
<1>5. Kept'
    BY DEF Schedule, IInv, Kept, Refers
<1>6. Apart'
    BY DEF Schedule, IInv, Apart, Refers
<1>7. Owned'
    BY DEF Schedule, IInv, Owned, OwnOf
<1> QED
    BY <1>1, <1>2, <1>3, <1>4, <1>5, <1>6, <1>7 DEF IInv

LEMMA PublishKeeps == ASSUME IInv, NEW t \in Threads, Publish(t) PROVE IInv'
<1>1. TypeOK' /\ ~failed'
    BY DEF Publish, IInv, TypeOK
<1>2. Contexts'
    BY DEF Publish, IInv, Contexts
<1>3. Loops'
    BY DEF Publish, IInv, Loops, RootOK, LoopOf, ThreadOf, CallerOf, Chosen
<1>4. Bodies'
    BY DEF Publish, IInv, Bodies, BodyOf
<1>5. Kept'
    BY InFiber DEF Publish, IInv, Kept, Refers
<1>6. Apart'
    BY InFiber DEF Publish, IInv, Apart, Refers
<1>7. Owned'
    BY DEF Publish, IInv, Owned, OwnOf
<1> QED
    BY <1>1, <1>2, <1>3, <1>4, <1>5, <1>6, <1>7 DEF IInv

LEMMA ConstructKeeps == ASSUME IInv, Construct PROVE IInv'
<1>1. TypeOK' /\ ~failed'
    BY Disjoint DEF Construct, SetThis, IInv, TypeOK, State
<1>2. Contexts'
    BY DEF Construct, IInv, Contexts
<1>3. Loops'
    BY Disjoint
    DEF Construct, SetThis, IInv, TypeOK, Loops, RootOK, LoopOf, ThreadOf, CallerOf, Chosen
<1>4. Bodies'
    BY Disjoint DEF Construct, IInv, TypeOK, Bodies, BodyOf
<1>5. Kept'
    BY Disjoint DEF Construct, IInv, TypeOK, Kept, Refers
<1>6. Apart'
    BY DEF Construct, IInv, Apart, Refers
<1>7. Owned'
    BY Disjoint DEF Construct, IInv, TypeOK, Owned, OwnOf, Locals
<1> QED
    BY <1>1, <1>2, <1>3, <1>4, <1>5, <1>6, <1>7 DEF IInv

LEMMA EnterKeeps == ASSUME IInv, NEW t \in Threads, NEW f \in Fibers, Enter(t, f) PROVE IInv'
<1>a. locals' \in [Threads -> Locals]
    <2>1. [locals[t] EXCEPT !.idle = f] \in Locals
        BY DEF IInv, TypeOK, Locals
    <2> QED
        BY <2>1 DEF Enter, IInv, TypeOK
<1>b. /\ \A u \in Threads \ {t} : locals'[u] = locals[u]
      /\ locals'[t].ft = locals[t].ft /\ locals'[t].cb = locals[t].cb /\ locals'[t].idle = f
    BY DEF Enter, IInv, TypeOK, Locals
<1>c. f \notin mine \cup m_fibers /\ \A u \in Threads : ~Refers(u, f)
    BY DEF Enter, Fresh, IInv, Kept, State
<1>d. m_state' \in [Objects -> State \cup {"none", "freed"}] /\
          \A u \in Threads : m_state'[u] = IF u = t THEN "EXEC" ELSE m_state[u]
    BY Disjoint DEF Enter, Made, IInv, TypeOK, State
<1>e. /\ t_fiber' \in [Threads -> Objects \cup {None}] /\ pc' \in [Objects -> Place]
      /\ mainFiber' \in [Threads -> Threads \cup {Root, None}]
    BY Disjoint DEF Enter, SetThis, IInv, TypeOK, Place
<1>1. TypeOK' /\ ~failed'
    BY <1>a, <1>d, <1>e DEF Enter, IInv, TypeOK
<1>2. Contexts'
    BY DEF Enter, IInv, Contexts
<1>3. Loops'
    BY Disjoint
    DEF Enter, Made, SetThis, IInv, TypeOK, Loops, RootOK, LoopOf, ThreadOf, CallerOf, Chosen,
        Place
<1>4. Bodies'
    BY Disjoint DEF Enter, Fresh, Made, IInv, TypeOK, Bodies, BodyOf
<1>5. Kept'
    BY Disjoint DEF Enter, Made, IInv, TypeOK, Kept, Refers, State
<1>6. Apart'
    <2>1. \A u \in Threads, g \in Fibers \ {f} : Refers(u, g)' => Refers(u, g)
        BY <1>b DEF Refers
    <2>2. \A u \in Threads : Refers(u, f)' => u = t
        BY <1>b, <1>c DEF Refers
    <2>3. UNCHANGED <<mine, m_fibers>>
        BY DEF Enter
    <2>4. \A u \in Threads : locals'[u].idle \notin mine
        BY <1>b, <1>c DEF IInv, Apart
    <2>5. ASSUME NEW g \in Fibers, NEW u \in Threads, NEW v \in Threads, Refers(u, g)', Refers(v, g)'
          PROVE  u = v
        BY <2>1, <2>2, <2>5 DEF IInv, Apart
    <2>6. ASSUME NEW g \in m_fibers, NEW u \in Threads PROVE ~Refers(u, g)'
        BY <1>c, <2>1 DEF IInv, TypeOK, Apart
    <2> QED
        BY <2>3, <2>4, <2>5, <2>6 DEF Apart
<1>7. Owned'
    BY FiberAssumption, Disjoint
    DEF Enter, Fresh, Made, IInv, TypeOK, Owned, OwnOf, Kept, Refers, State, Locals
<1> QED
    BY <1>1, <1>2, <1>3, <1>4, <1>5, <1>6, <1>7 DEF IInv

LEMMA CallKeeps == ASSUME IInv, NEW f \in Fibers, Call(f) PROVE IInv'
<1>a. locals' \in [Threads -> Locals]
    <2>1. \A u \in Threads : [locals[u] EXCEPT !.idle = f] \in Locals
        BY DEF IInv, TypeOK, Locals
    <2> QED
        BY <2>1 DEF Call, IInv, TypeOK
<1>b. Caller \in Threads
    BY Disjoint DEF Call
<1>c. /\ pc[Root] = "start" /\ exec[Caller] = Caller /\ pc[Caller] = "out"
      /\ mainFiber[Caller] = Root /\ m_ctx[Root] = Root
    BY Disjoint DEF Call, IInv, Loops, CallerOf, Contexts
<1>d. f \notin mine \cup m_fibers /\ \A t \in Threads : ~Refers(t, f)
    BY DEF Call, Fresh, IInv, Kept, State
<1>e. m_state' \in [Objects -> State \cup {"none", "freed"}] /\
          \A t \in Threads : m_state'[t] = m_state[t]
    BY Disjoint DEF Call, Made, IInv, TypeOK, State
<1>f. exec' \in [Threads -> Objects] /\ pc' \in [Objects -> Place]
    BY Disjoint DEF Call, IInv, TypeOK, Place
<1>g. /\ m_ctx' \in [Objects -> Objects] /\ t_fiber' \in [Threads -> Objects \cup {None}]
      /\ cur' \in [Objects -> Objects \cup {None}]
    BY Disjoint DEF Call, SetThis, IInv, TypeOK
<1>1. TypeOK' /\ ~failed'
    BY <1>a, <1>e, <1>f, <1>g DEF Call, IInv, TypeOK
<1>2. Contexts'
    BY DEF Call, IInv, Contexts
<1>3. Loops'
    BY <1>c, Disjoint
    DEF Call, Made, SetThis, Home, IInv, TypeOK, Loops, RootOK, LoopOf, ThreadOf, CallerOf,
        Chosen, Place
<1>4. Bodies'
    BY <1>c, Disjoint DEF Call, Fresh, Made, IInv, TypeOK, Bodies, BodyOf
<1>5. Kept'
    BY Disjoint DEF Call, Made, IInv, TypeOK, Kept, Refers
<1>6. Apart'
    BY DEF Call, Fresh, SetThis, IInv, Apart, Refers, Kept, State
<1>7. Owned'
    BY <1>c, Disjoint DEF Call, Fresh, Made, IInv, TypeOK, Owned, OwnOf, Locals, Loops, LoopOf
<1> QED
    BY <1>1, <1>2, <1>3, <1>4, <1>5, <1>6, <1>7 DEF IInv

LEMMA CallEndedKeeps == ASSUME IInv, CallEnded PROVE IInv'
<1>a. Caller \in Threads
    BY Disjoint DEF CallEnded
<1>b. pc[Root] \in {"start", "loop", "swap", "end"} /\ m_ctx[Root] = Root
    BY Disjoint DEF IInv, Loops, RootOK, Contexts
<1>c. \A o \in Objects \ {Root} : m_state'[o] = m_state[o]
    BY DEF CallEnded, IInv, TypeOK
<1>1. TypeOK' /\ ~failed'
    BY <1>a, <1>b, Disjoint DEF CallEnded, SetThis, IInv, TypeOK, Place, State
<1>2. Contexts'
    BY DEF CallEnded, IInv, Contexts
<1>d. exec[Caller] = Caller
    BY <1>a DEF CallEnded, IInv, Loops, CallerOf
<1>e. /\ \A u \in Threads \ {Caller} : exec'[u] = exec[u] /\ t_fiber'[u] = t_fiber[u]
      /\ \A o \in Objects \ {Caller} : pc'[o] = pc[o]
      /\ exec'[Caller] = Root /\ pc'[Caller] = "call" /\ m_state'[Root] = "EXEC"
      /\ UNCHANGED <<mainFiber, cur, locals>> /\ m_state[Root] = "TERM"
    BY <1>a, <1>b, Disjoint DEF CallEnded, SetThis, IInv, TypeOK
<1>3. Loops'
    <2>1. RootOK'
        BY <1>e, Disjoint DEF IInv, Loops, RootOK
    <2>2. ASSUME NEW u \in Threads \ {Caller} PROVE (LoopOf(u) /\ ThreadOf(u) /\ CallerOf(u))'
        <3>1. Home(u) = u /\ u # Caller /\ u # Root /\ u \in Objects
            BY Disjoint DEF Home
        <3>2. LoopOf(u) /\ ThreadOf(u)
            BY DEF IInv, Loops
        <3>3. Chosen(u)' = Chosen(u) /\ (Chosen(u) \in Fibers => Chosen(u) \in Objects \ {Caller})
            BY <1>a, <1>e, Disjoint DEF Chosen
        <3>4. exec[u] \in Fibers => exec[u] \in Objects \ {Caller}
            BY <1>a, Disjoint
        <3>5. LoopOf(u)'
            BY <1>e, <3>1, <3>2, <3>3, <3>4 DEF LoopOf, Home
        <3> QED
            BY <1>c, <1>e, <3>1, <3>2, <3>5 DEF ThreadOf, CallerOf
    <2>3. (LoopOf(Caller) /\ ThreadOf(Caller) /\ CallerOf(Caller))'
        <3>1. Home(Caller) = Root /\ Root # Caller /\ LoopOf(Caller) /\ CallerOf(Caller)
            BY <1>a, Disjoint DEF Home, IInv, Loops
        <3>2. Chosen(Caller)' = Chosen(Caller)
              /\ (Chosen(Caller) \in Fibers => Chosen(Caller) \in Objects \ {Caller})
            BY <1>a, <1>e, Disjoint DEF Chosen
        <3>3. ThreadOf(Caller)
            BY <1>a DEF IInv, Loops
        <3>4. LoopOf(Caller)'
            BY <1>e, <3>1, <3>2, Disjoint DEF LoopOf, Home
        <3>5. m_state'[Caller] # "freed"
            BY <1>a, <1>c, <3>1, Disjoint DEF CallerOf
        <3> QED
            BY <1>a, <1>c, <1>e, <3>1, <3>3, <3>4, <3>5, Disjoint DEF ThreadOf, CallerOf
    <2> QED
        BY <2>1, <2>2, <2>3 DEF Loops
<1>4. Bodies'
    BY <1>a, <1>c, <1>d, Disjoint DEF CallEnded, IInv, TypeOK, Bodies, BodyOf
<1>5. Kept'
    BY <1>c, Disjoint DEF CallEnded, IInv, Kept, Refers
<1>6. Apart'
    BY DEF CallEnded, IInv, Apart, Refers
<1>7. Owned'
    BY <1>a, <1>c, Disjoint, FiberAssumption DEF CallEnded, IInv, TypeOK, Owned, OwnOf, Locals, Home
<1> QED
    BY <1>1, <1>2, <1>3, <1>4, <1>5, <1>6, <1>7 DEF IInv

LEMMA AfterIdleKeeps == ASSUME IInv, NEW t \in Threads, AfterIdle(t) PROVE IInv'
<1>a. /\ exec[t] = Home(t) /\ pc[Home(t)] = "swap"
      /\ locals[t].idle \in Fibers /\ pc[locals[t].idle] # "start" /\
             m_state[locals[t].idle] \in State \ {"EXEC"}
    BY AtHome DEF AfterIdle, Back, IInv, Loops, LoopOf, Kept, Chosen, Refers
<1>1. TypeOK' /\ ~failed'
    BY <1>a, Disjoint DEF AfterIdle, IInv, TypeOK, State, Place
<1>2. Contexts'
    BY DEF AfterIdle, IInv, Contexts
<1>3. Loops'
    BY <1>a, Disjoint
    DEF AfterIdle, IInv, Loops, RootOK, LoopOf, ThreadOf, CallerOf, Chosen, Place
<1>4. Bodies'
    BY <1>a DEF AfterIdle, IInv, Bodies, BodyOf, State
<1>5. Kept'
    BY DEF AfterIdle, IInv, Kept, Refers, State
<1>6. Apart'
    BY DEF AfterIdle, IInv, Apart, Refers
<1>7. Owned'
    BY <1>a, Disjoint DEF AfterIdle, Back, IInv, Owned, OwnOf, Apart, Refers
<1> QED
    BY <1>1, <1>2, <1>3, <1>4, <1>5, <1>6, <1>7 DEF IInv

LEMMA YieldKeeps ==
    ASSUME IInv, NEW t \in Threads, NEW state \in {"READY", "HOLD"}, Yield(t, state)
    PROVE IInv'
<1>1. TypeOK' /\ ~failed'
    BY InFiber, Disjoint DEF Yield, InBody, SwapOut, GetMainFiber, IInv, TypeOK, State
<1>2. Contexts'
    BY InFiber DEF Yield, InBody, SwapOut, IInv, Contexts
<1>3. Loops'
    BY Disjoint
    DEF Yield, InBody, SwapOut, GetMainFiber, IInv, Loops, RootOK, LoopOf, ThreadOf, CallerOf,
        Chosen, Contexts
<1>4. Bodies'
    BY InFiber DEF Yield, InBody, SwapOut, IInv, TypeOK, Bodies, BodyOf
<1>5. Kept'
    BY DEF Yield, IInv, Kept, Refers, State
<1>6. Apart'
    BY DEF Yield, IInv, Apart, Refers
<1>7. Owned'
    BY InFiber DEF Yield, InBody, IInv, Owned, OwnOf, Refers, Chosen
<1> QED
    BY <1>1, <1>2, <1>3, <1>4, <1>5, <1>6, <1>7 DEF IInv

LEMMA LastSwapOutKeeps == ASSUME IInv, NEW t \in Threads, LastSwapOut(t) PROVE IInv'
<1>1. TypeOK' /\ ~failed'
    BY InFiber, Disjoint DEF LastSwapOut, SwapOut, GetMainFiber, IInv, TypeOK, Place
<1>2. Contexts'
    BY InFiber DEF LastSwapOut, SwapOut, IInv, Contexts
<1>3. Loops'
    BY InFiber, Disjoint
    DEF LastSwapOut, SwapOut, GetMainFiber, IInv, TypeOK, Loops, RootOK, LoopOf, ThreadOf,
        CallerOf, Chosen, Contexts
<1>4. Bodies'
    BY DEF LastSwapOut, SwapOut, IInv, Bodies, BodyOf
<1>5. Kept'
    BY DEF LastSwapOut, IInv, Kept, Refers
<1>6. Apart'
    BY DEF LastSwapOut, IInv, Apart, Refers
<1>7. Owned'
    BY DEF LastSwapOut, IInv, Owned, OwnOf
<1> QED
    BY <1>1, <1>2, <1>3, <1>4, <1>5, <1>6, <1>7 DEF IInv

LEMMA ForgetKeeps == ASSUME IInv, NEW f \in Fibers, Forget(f) PROVE IInv'
<1>s. /\ ~failed' /\ failed' \in BOOLEAN /\
             m_state' \in [Objects -> State \cup {"none", "freed"}]
      /\ \A o \in Objects \ Fibers : m_state'[o] = m_state[o]
      /\ \A g \in Fibers : Needed(g)' => m_state'[g] = m_state[g]
      /\ \A g \in Fibers : (\E u \in Threads : Refers(u, g)') => m_state'[g] = m_state[g]
      /\ \A g \in Fibers : m_state'[g] # m_state[g] =>
             m_state'[g] = "freed" /\ m_state[g] \in Rests
    <2>1. \A g \in Fibers : m_state[g] \in State /\ ~Needed(g)' => m_state[g] \in Rests
        BY DEF Forget, IInv, Bodies, BodyOf, Needed, State, Rests
    <2> QED
        BY <2>1, Settled DEF Forget, IInv, TypeOK
<1>1. TypeOK' /\ ~failed'
    <2>1. \A u \in Threads : m_state'[u] \in {"none", "EXEC", "freed"}
        BY <1>s, Disjoint DEF IInv, TypeOK
    <2> QED
        BY <1>s, Disjoint DEF Forget, IInv, TypeOK
<1>2. Contexts'
    BY DEF Forget, IInv, Contexts
<1>3. Loops'
    BY <1>s, Disjoint DEF Forget, IInv, Loops, RootOK, LoopOf, ThreadOf, CallerOf, Chosen
<1>4. Bodies'
    BY <1>s DEF Forget, IInv, Bodies, BodyOf, Rests
<1>5. Kept'
    BY <1>s DEF Forget, IInv, Kept, Refers, Needed
<1>6. Apart'
    BY DEF Forget, IInv, Apart, Refers
<1>7. Owned'
    BY <1>s DEF Forget, IInv, TypeOK, Owned, OwnOf, Refers, Locals
<1> QED
    BY <1>1, <1>2, <1>3, <1>4, <1>5, <1>6, <1>7 DEF IInv

LEMMA AfterFiberKeeps == ASSUME IInv, NEW t \in Threads, AfterFiber(t) PROVE IInv'
<1>a. exec[t] = Home(t) /\ pc[Home(t)] = "swap" /\ locals[t].to = "ft" /\
          locals[t].ft \in Fibers
    BY AtHome DEF AfterFiber, Back, IInv, Loops, LoopOf, Chosen
<1>b. PICK f \in Fibers : f = locals[t].ft
    BY <1>a
<1>c. /\ pc[f] # "start" /\ m_state[f] \in State \ {"EXEC"}
      /\ \A u \in Threads : exec[u] # f
    BY <1>a, <1>b, AtHome DEF IInv, Loops, LoopOf, Kept, Chosen, Refers
<1>d. /\ locals' \in [Threads -> Locals]
      /\ \A u \in Threads : /\ locals'[u].cb = locals[u].cb /\ locals'[u].idle = locals[u].idle
                            /\ locals'[u].to = locals[u].to
                            /\ locals'[u].ft = IF u = t THEN None ELSE locals[u].ft
    BY DEF AfterFiber, IInv, TypeOK, Locals
<1>e. \A u \in Threads : ~Refers(u, f)'
    BY <1>b, <1>d, FiberAssumption DEF IInv, Apart, Owned, OwnOf, Refers
<1>h. /\ UNCHANGED <<m_ctx, t_fiber, mainFiber, exec, cur, mine>>
      /\ m_fibers' \in {m_fibers, m_fibers \cup {f}}
      /\ pc' = [pc EXCEPT ![Home(t)] = "loop"]
      /\ Settle(m_state, TRUE)
    BY <1>a, <1>b, <1>c DEF AfterFiber, Again
<1>s. /\ ~failed' /\ failed' \in BOOLEAN /\
             m_state' \in [Objects -> State \cup {"none", "freed"}]
      /\ \A o \in Objects \ Fibers : m_state'[o] = m_state[o]
      /\ \A g \in Fibers : Needed(g)' => m_state'[g] = m_state[g]
      /\ \A g \in Fibers : (\E u \in Threads : Refers(u, g)') => m_state'[g] = m_state[g]
      /\ \A g \in Fibers : m_state'[g] # m_state[g] =>
             m_state'[g] = "freed" /\ m_state[g] \in Rests
    <2>1. \A g \in Fibers : m_state[g] \in State /\ ~Needed(g)' => m_state[g] \in Rests
        BY <1>h, Disjoint DEF IInv, Bodies, BodyOf, Needed, State, Rests
    <2> QED
        BY <2>1, Settled, <1>h DEF IInv, TypeOK
<1>1. TypeOK' /\ ~failed'
    <2>1. \A u \in Threads : m_state'[u] \in {"none", "EXEC", "freed"}
        BY <1>s, Disjoint DEF IInv, TypeOK
    <2> QED
        BY <2>1, <1>d, <1>h, <1>s, Disjoint DEF IInv, TypeOK, Place
<1>2. Contexts'
    BY <1>h DEF IInv, Contexts
<1>3. Loops'
    BY <1>a, <1>d, <1>h, <1>s, Disjoint
    DEF IInv, TypeOK, Loops, RootOK, LoopOf, ThreadOf, CallerOf, Chosen, Place
<1>4. Bodies'
    BY <1>a, <1>h, <1>s DEF IInv, Bodies, BodyOf, Rests
<1>5. Kept'
    <2> SUFFICES ASSUME NEW g \in Fibers,
                        g \in mine' \cup m_fibers' \/ \E u \in Threads : Refers(u, g)'
                 PROVE  m_state'[g] \in State
        BY DEF Kept
    <2>1. g = f \/ g \in mine \cup m_fibers \/ \E u \in Threads : Refers(u, g)
        BY <1>d, <1>h, FiberAssumption DEF Refers
    <2>2. m_state[g] \in State
        BY <1>c, <2>1 DEF IInv, Kept
    <2>3. m_state'[g] = m_state[g]
        BY <1>s DEF Needed
    <2> QED
        BY <2>2, <2>3
<1>6. Apart'
    BY <1>d, <1>e, <1>h, Disjoint DEF IInv, TypeOK, Apart, Refers
<1>7. Owned'
    <2> SUFFICES ASSUME NEW u \in Threads PROVE OwnOf(u)'
        BY DEF Owned
    <2>1. OwnOf(u) /\ locals[u] \in Locals /\ locals'[u] \in Locals
        BY <1>d DEF IInv, TypeOK, Owned
    <2>2. /\ locals'[u].cb # None => m_state'[locals'[u].cb] = m_state[locals'[u].cb]
          /\ locals'[u].idle # None => m_state'[locals'[u].idle] = m_state[locals'[u].idle]
        BY <2>1, <1>s DEF Locals, Refers
    <2>3. u # t => pc'[Home(u)] = pc[Home(u)]
        BY <1>h, Disjoint
    <2> QED
        BY <2>1, <2>2, <2>3, <1>b, <1>d, FiberAssumption DEF OwnOf
<1> QED
    BY <1>1, <1>2, <1>3, <1>4, <1>5, <1>6, <1>7 DEF IInv

(* A callback that has ended: its fiber is kept for the next one. *)
LEMMA EndedCallbackKeeps ==
    ASSUME IInv, NEW t \in Threads, AfterCallback(t), m_state[locals[t].cb] \in {"TERM", "EXCEPT"}
    PROVE IInv'
<1>a. exec[t] = Home(t) /\ pc[Home(t)] = "swap" /\ locals[t].to = "cb" /\
          locals[t].cb \in Fibers
    BY AtHome DEF AfterCallback, Back, IInv, Loops, LoopOf, Chosen
<1>b. PICK f \in Fibers : f = locals[t].cb
    BY <1>a
<1>c. /\ pc[f] # "start" /\ m_state[f] \in State \ {"EXEC"}
      /\ \A u \in Threads : exec[u] # f
    BY <1>a, <1>b, AtHome DEF IInv, Loops, LoopOf, Kept, Chosen, Refers
<1>d. UNCHANGED <<t_fiber, mainFiber, exec, cur, mine, m_fibers, locals>> /\
          Settle(Made(f), TRUE)
    BY <1>b DEF AfterCallback, Again
<1>e. /\ m_ctx' = [m_ctx EXCEPT ![f] = f]
      /\ pc' = [pc EXCEPT ![Home(t)] = "loop", ![f] = "start"]
    BY <1>a, <1>b DEF AfterCallback
<1>s. /\ ~failed' /\ failed' \in BOOLEAN /\
             m_state' \in [Objects -> State \cup {"none", "freed"}]
      /\ \A o \in Objects \ Fibers : m_state'[o] = Made(f)[o]
      /\ \A g \in Fibers : Needed(g)' => m_state'[g] = Made(f)[g]
      /\ \A g \in Fibers : (\E u \in Threads : Refers(u, g)') => m_state'[g] = Made(f)[g]
      /\ \A g \in Fibers : m_state'[g] # Made(f)[g] =>
             m_state'[g] = "freed" /\ Made(f)[g] \in Rests
    <2>1. \A g \in Fibers : Made(f)[g] \in State /\ ~Needed(g)' => Made(f)[g] \in Rests
        BY <1>d, <1>e, Disjoint DEF Made, IInv, TypeOK, Bodies, BodyOf, Needed, State, Rests
    <2> QED
        BY <2>1, Settled, <1>d DEF Made, IInv, TypeOK, State
<1>1. TypeOK' /\ ~failed'
    <2>1. \A u \in Threads : m_state'[u] \in {"none", "EXEC", "freed"}
        BY <1>s, Disjoint DEF Made, IInv, TypeOK
    <2> QED
        BY <2>1, <1>d, <1>e, <1>s, Disjoint DEF IInv, TypeOK, Place
<1>2. Contexts'
    BY <1>e DEF IInv, Contexts
<1>3. Loops'
    BY <1>a, <1>b, <1>d, <1>e, <1>s, Disjoint
    DEF Made, IInv, TypeOK, Loops, RootOK, LoopOf, ThreadOf, CallerOf, Chosen, Place, Apart,
        Refers
<1>4. Bodies'
    BY <1>d, <1>e, <1>s, Disjoint DEF Made, IInv, TypeOK, Bodies, BodyOf, Rests
<1>5. Kept'
    BY <1>d, <1>s DEF Made, IInv, Kept, Refers, State, Needed
<1>6. Apart'
    BY <1>d DEF IInv, Apart, Refers
<1>7. Owned'
    <2> SUFFICES ASSUME NEW u \in Threads PROVE OwnOf(u)'
        BY DEF Owned
    <2>1. OwnOf(u) /\ locals'[u] = locals[u] /\ locals[u] \in Locals
        BY <1>d DEF IInv, TypeOK, Owned
    <2>2. /\ locals[u].cb # None => m_state'[locals[u].cb] = Made(f)[locals[u].cb]
          /\ locals[u].idle # None => m_state'[locals[u].idle] = Made(f)[locals[u].idle]
        BY <2>1, <1>s DEF Locals, Refers
    <2>3. /\ Made(f)[f] = "INIT"
          /\ \A g \in Fibers \ {f} : Made(f)[g] = m_state[g]
        BY DEF Made, IInv, TypeOK, Objects
    <2>4. CASE u = t
        BY <2>1, <2>2, <2>3, <2>4, <1>a, <1>b DEF OwnOf, Locals
    <2>5. CASE u # t
        <3>1. pc'[Home(u)] = pc[Home(u)]
            BY <2>5, <1>e, Disjoint DEF IInv, TypeOK
        <3>2. ~Refers(u, f)
            BY <2>5, <1>b DEF IInv, Apart, Refers
        <3> QED
            BY <2>1, <2>2, <2>3, <3>1, <3>2 DEF OwnOf, Locals, Refers
    <2> QED
        BY <2>4, <2>5
<1> QED
    BY <1>1, <1>2, <1>3, <1>4, <1>5, <1>6, <1>7 DEF IInv

(* One that has not: its fiber is left to whoever wakes it. *)
LEMMA YieldedCallbackKeeps ==
    ASSUME IInv, NEW t \in Threads, AfterCallback(t), m_state[locals[t].cb] \notin {"TERM", "EXCEPT"}
    PROVE IInv'
<1>a. exec[t] = Home(t) /\ pc[Home(t)] = "swap" /\ locals[t].to = "cb" /\
          locals[t].cb \in Fibers
    BY AtHome DEF AfterCallback, Back, IInv, Loops, LoopOf, Chosen
<1>b. PICK f \in Fibers : f = locals[t].cb
    BY <1>a
<1>c. /\ pc[f] # "start" /\ m_state[f] \in State \ {"EXEC"}
      /\ \A u \in Threads : exec[u] # f
    BY <1>a, <1>b, AtHome DEF IInv, Loops, LoopOf, Kept, Chosen, Refers
<1>d. /\ locals' \in [Threads -> Locals]
      /\ \A u \in Threads : /\ locals'[u].ft = locals[u].ft /\ locals'[u].idle = locals[u].idle
                            /\ locals'[u].to = locals[u].to
                            /\ locals'[u].cb = IF u = t THEN None ELSE locals[u].cb
    BY DEF AfterCallback, IInv, TypeOK, Locals
<1>e. \A u \in Threads : ~Refers(u, f)'
    BY <1>b, <1>d, FiberAssumption DEF IInv, Apart, Owned, OwnOf, Refers
<1>f. pc[f] = "on" /\ m_state[f] \in {"READY", "HOLD"}
    BY <1>b, <1>c DEF IInv, Bodies, BodyOf, State
<1>g. (IF m_state[f] = "READY" THEN m_state ELSE [m_state EXCEPT ![f] = "HOLD"]) = m_state
    BY <1>f DEF IInv, TypeOK
<1>h. /\ UNCHANGED <<m_ctx, t_fiber, mainFiber, exec, cur, mine>>
      /\ m_fibers' \in {m_fibers, m_fibers \cup {f}}
      /\ pc' = [pc EXCEPT ![Home(t)] = "loop"]
      /\ Settle(m_state, TRUE)
    BY <1>a, <1>b, <1>g DEF AfterCallback, Again
<1>s. /\ ~failed' /\ failed' \in BOOLEAN /\
             m_state' \in [Objects -> State \cup {"none", "freed"}]
      /\ \A o \in Objects \ Fibers : m_state'[o] = m_state[o]
      /\ \A g \in Fibers : Needed(g)' => m_state'[g] = m_state[g]
      /\ \A g \in Fibers : (\E u \in Threads : Refers(u, g)') => m_state'[g] = m_state[g]
      /\ \A g \in Fibers : m_state'[g] # m_state[g] =>
             m_state'[g] = "freed" /\ m_state[g] \in Rests
    <2>1. \A g \in Fibers : m_state[g] \in State /\ ~Needed(g)' => m_state[g] \in Rests
        BY <1>h, Disjoint DEF IInv, Bodies, BodyOf, Needed, State, Rests
    <2> QED
        BY <2>1, Settled, <1>h DEF IInv, TypeOK
<1>1. TypeOK' /\ ~failed'
    <2>1. \A u \in Threads : m_state'[u] \in {"none", "EXEC", "freed"}
        BY <1>s, Disjoint DEF IInv, TypeOK
    <2> QED
        BY <1>d, <1>h, <1>s, Disjoint DEF IInv, TypeOK, Place
<1>2. Contexts'
    BY <1>h DEF IInv, Contexts
<1>3. Loops'
    BY <1>a, <1>d, <1>h, <1>s, Disjoint
    DEF IInv, TypeOK, Loops, RootOK, LoopOf, ThreadOf, CallerOf, Chosen, Place
<1>4. Bodies'
    BY <1>a, <1>h, <1>s DEF IInv, Bodies, BodyOf, Rests
<1>5. Kept'
    <2> SUFFICES ASSUME NEW g \in Fibers,
                        g \in mine' \cup m_fibers' \/ \E u \in Threads : Refers(u, g)'
                 PROVE  m_state'[g] \in State
        BY DEF Kept
    <2>1. g = f \/ g \in mine \cup m_fibers \/ \E u \in Threads : Refers(u, g)
        BY <1>d, <1>h, FiberAssumption DEF Refers
    <2>2. m_state[g] \in State
        BY <1>c, <2>1 DEF IInv, Kept
    <2>3. m_state'[g] = m_state[g]
        BY <1>s DEF Needed
    <2> QED
        BY <2>2, <2>3
<1>6. Apart'
    BY <1>d, <1>e, <1>h, Disjoint DEF IInv, TypeOK, Apart, Refers
<1>7. Owned'
    <2> SUFFICES ASSUME NEW u \in Threads PROVE OwnOf(u)'
        BY DEF Owned
    <2>1. OwnOf(u) /\ locals[u] \in Locals /\ locals'[u] \in Locals
        BY <1>d DEF IInv, TypeOK, Owned
    <2>2. /\ locals'[u].cb # None => m_state'[locals'[u].cb] = m_state[locals'[u].cb]
          /\ locals'[u].idle # None => m_state'[locals'[u].idle] = m_state[locals'[u].idle]
        BY <2>1, <1>s DEF Locals, Refers
    <2>3. u # t => pc'[Home(u)] = pc[Home(u)]
        BY <1>h, Disjoint
    <2> QED
        BY <2>1, <2>2, <2>3, <1>a, <1>d DEF OwnOf
<1> QED
    BY <1>1, <1>2, <1>3, <1>4, <1>5, <1>6, <1>7 DEF IInv

LEMMA LeavePoolKeeps == ASSUME IInv, NEW t \in Threads, LeavePool(t) PROVE IInv'
<1>a. t # Caller /\ exec[t] = t /\ Home(t) = t /\ pc[t] = "loop" /\ m_state[t] = "EXEC"
    BY DEF LeavePool, InLoop, IInv, Loops, ThreadOf, CallerOf, Home
<1>b. /\ locals' \in [Threads -> Locals]
      /\ \A u \in Threads \ {t} : locals'[u] = locals[u]
      /\ locals'[t].ft = None /\ locals'[t].cb = None /\ locals'[t].idle = None /\
             locals'[t].to = "idle"
    BY DEF LeavePool, NoLocals, IInv, TypeOK, Locals
<1>c. \A g \in Fibers : Refers(t, g) => m_state[g] \in Rests
    BY <1>a, FiberAssumption DEF LeavePool, IInv, Owned, OwnOf, Refers, Rests
<1>s. /\ ~failed' /\ failed' \in BOOLEAN /\
             m_state' \in [Objects -> State \cup {"none", "freed"}]
      /\ \A o \in Objects \ Fibers : m_state'[o] = [m_state EXCEPT ![t] = "freed"][o]
      /\ \A g \in Fibers : Needed(g)' => m_state'[g] = [m_state EXCEPT ![t] = "freed"][g]
      /\ \A g \in Fibers : (\E u \in Threads : Refers(u, g)') =>
             m_state'[g] = [m_state EXCEPT ![t] = "freed"][g]
      /\ \A g \in Fibers : m_state'[g] # [m_state EXCEPT ![t] = "freed"][g] =>
             m_state'[g] = "freed" /\ [m_state EXCEPT ![t] = "freed"][g] \in Rests
    <2>1. \A g \in Fibers : [m_state EXCEPT ![t] = "freed"][g] \in State /\ ~Needed(g)' =>
              [m_state EXCEPT ![t] = "freed"][g] \in Rests
        BY DEF LeavePool, IInv, TypeOK, Bodies, BodyOf, Needed, State, Rests
    <2> QED
        BY <2>1, Settled, <1>a DEF LeavePool, IInv, TypeOK
<1>1. TypeOK' /\ ~failed'
    <2>1. \A u \in Threads : m_state'[u] \in {"none", "EXEC", "freed"}
        BY <1>s, Disjoint DEF IInv, TypeOK
    <2> QED
        BY <2>1, <1>b, <1>s DEF LeavePool, IInv, TypeOK, Place
<1>2. Contexts'
    BY DEF LeavePool, IInv, Contexts
<1>3. Loops'
    BY <1>s, Disjoint
    DEF LeavePool, InLoop, IInv, TypeOK, Loops, RootOK, LoopOf, ThreadOf, CallerOf, Chosen,
        Place
<1>4. Bodies'
    BY <1>s DEF LeavePool, InLoop, IInv, Bodies, BodyOf, Rests
<1>5. Kept'
    BY <1>b, <1>s, Disjoint DEF LeavePool, IInv, Kept, Refers, Needed
<1>6. Apart'
    BY <1>b, Disjoint DEF LeavePool, IInv, TypeOK, Apart, Refers
<1>7. Owned'
    <2> SUFFICES ASSUME NEW u \in Threads PROVE OwnOf(u)'
        BY DEF Owned
    <2>1. CASE u = t
        BY <2>1, <1>b DEF OwnOf
    <2>2. CASE u # t
        <3>1. OwnOf(u) /\ locals'[u] = locals[u] /\ locals[u] \in Locals
            BY <2>2, <1>b DEF IInv, TypeOK, Owned
        <3>2. pc'[Home(u)] = pc[Home(u)]
            BY <2>2, <1>a, Disjoint DEF LeavePool, IInv, TypeOK
        <3>3. \A g \in Fibers : Refers(u, g) => m_state'[g] = m_state[g]
            BY <3>1, <1>s, Disjoint DEF IInv, TypeOK, Refers
        <3> QED
            BY <3>1, <3>2, <3>3 DEF OwnOf, Locals, Refers
    <2> QED
        BY <2>1, <2>2
<1> QED
    BY <1>1, <1>2, <1>3, <1>4, <1>5, <1>6, <1>7 DEF IInv

LEMMA LeaveRootKeeps == ASSUME IInv, NEW t \in Threads, LeaveRoot(t) PROVE IInv'
<1>a. /\ t = Caller /\ exec[t] = Root /\ Home(t) = Root /\ pc[Root] = "loop" /\ cur[Root] = Root
      /\ m_ctx[t] = t /\ pc[t] = "call"
    BY AtHome, Disjoint DEF LeaveRoot, InLoop, IInv, Contexts, Loops, CallerOf, Home
<1>b. /\ locals' \in [Threads -> Locals]
      /\ \A u \in Threads \ {t} : locals'[u] = locals[u]
      /\ locals'[t].ft = None /\ locals'[t].cb = None /\ locals'[t].idle = None /\
             locals'[t].to = "idle"
    BY DEF LeaveRoot, NoLocals, IInv, TypeOK, Locals
<1>c. \A g \in Fibers : Refers(t, g) => m_state[g] \in Rests
    BY <1>a, FiberAssumption DEF LeaveRoot, IInv, Owned, OwnOf, Refers, Rests
<1>d. /\ UNCHANGED <<mainFiber, cur, mine, m_fibers>>
      /\ t_fiber' = [t_fiber EXCEPT ![t] = t] /\ m_ctx' = [m_ctx EXCEPT ![Root] = Root]
      /\ exec' = [exec EXCEPT ![t] = t] /\ pc' = [pc EXCEPT ![Root] = "end", ![t] = "over"]
      /\ Settle([m_state EXCEPT ![Root] = "TERM"], TRUE)
    BY <1>a DEF LeaveRoot, SetThis
<1>e. \A u \in Threads, g \in Fibers : Refers(u, g)' => u # t /\ Refers(u, g)
    BY <1>b, FiberAssumption DEF Refers
<1>s. /\ ~failed' /\ failed' \in BOOLEAN /\
             m_state' \in [Objects -> State \cup {"none", "freed"}]
      /\ \A o \in Objects \ Fibers : m_state'[o] = [m_state EXCEPT ![Root] = "TERM"][o]
      /\ \A g \in Fibers : Needed(g)' => m_state'[g] = [m_state EXCEPT ![Root] = "TERM"][g]
      /\ \A g \in Fibers : (\E u \in Threads : Refers(u, g)') =>
             m_state'[g] = [m_state EXCEPT ![Root] = "TERM"][g]
      /\ \A g \in Fibers : m_state'[g] # [m_state EXCEPT ![Root] = "TERM"][g] =>
             m_state'[g] = "freed" /\ [m_state EXCEPT ![Root] = "TERM"][g] \in Rests
    <2>1. \A g \in Fibers : [m_state EXCEPT ![Root] = "TERM"][g] \in State /\ ~Needed(g)' =>
              [m_state EXCEPT ![Root] = "TERM"][g] \in Rests
        BY <1>d, Disjoint DEF IInv, TypeOK, Bodies, BodyOf, Needed, State, Rests
    <2> QED
        BY <2>1, Settled, <1>d DEF IInv, TypeOK, State
<1>1. TypeOK' /\ ~failed'
    <2>1. \A u \in Threads : m_state'[u] \in {"none", "EXEC", "freed"}
        BY <1>s, Disjoint DEF IInv, TypeOK
    <2> QED
        BY <2>1, <1>b, <1>d, <1>s, Disjoint DEF IInv, TypeOK, Place
<1>2. Contexts'
    BY <1>d DEF IInv, Contexts
<1>3. Loops'
    BY <1>a, <1>b, <1>d, <1>s, Disjoint
    DEF IInv, TypeOK, Loops, RootOK, LoopOf, ThreadOf, CallerOf, Chosen, Place
<1>4. Bodies'
    BY <1>a, <1>d, <1>s, Disjoint DEF IInv, TypeOK, Bodies, BodyOf, Rests
<1>5. Kept'
    <2> SUFFICES ASSUME NEW g \in Fibers,
                        (g \in mine \cup m_fibers \/ \E u \in Threads : Refers(u, g))'
                 PROVE  m_state'[g] \in State
        BY DEF Kept
    <2>1. g \in mine \cup m_fibers \/ \E u \in Threads : Refers(u, g)
        BY <1>e, <1>d
    <2>2. m_state[g] \in State
        BY <2>1 DEF IInv, Kept
    <2>3. [m_state EXCEPT ![Root] = "TERM"][g] = m_state[g]
        BY Disjoint DEF IInv, TypeOK
    <2>4. Needed(g)'
        BY <1>d DEF Needed
    <2> QED
        BY <2>2, <2>3, <2>4, <1>s
<1>6. Apart'
    BY <1>e, <1>b, <1>d DEF IInv, TypeOK, Apart, Refers
<1>7. Owned'
    <2> SUFFICES ASSUME NEW u \in Threads PROVE OwnOf(u)'
        BY DEF Owned
    <2>1. OwnOf(u) /\ locals[u] \in Locals /\ locals'[u] \in Locals
        BY <1>b DEF IInv, TypeOK, Owned
    <2>2. /\ locals'[u].cb # None => m_state'[locals'[u].cb] = m_state[locals'[u].cb]
          /\ locals'[u].idle # None => m_state'[locals'[u].idle] = m_state[locals'[u].idle]
        BY <2>1, <1>s, Disjoint DEF Locals, Refers
    <2>3. u # t => pc'[Home(u)] = pc[Home(u)]
        BY <1>a, <1>d, Disjoint DEF IInv, TypeOK
    <2> QED
        BY <2>1, <2>2, <2>3, <1>b DEF OwnOf
<1> QED
    BY <1>1, <1>2, <1>3, <1>4, <1>5, <1>6, <1>7 DEF IInv

LEMMA FinishKeeps ==
    ASSUME IInv, NEW t \in Threads, NEW state \in {"TERM", "EXCEPT"}, Finish(t, state)
    PROVE IInv'
<1>a. exec[t] \in Fibers /\ pc[exec[t]] = "on" /\ (locals[t].to = "idle" => state = "TERM")
    BY DEF Finish, InBody
<1>b. PICK f \in Fibers : f = exec[t]
    BY <1>a
<1>c. /\ cur[f] = f /\ Refers(t, f) /\ f = Chosen(t) /\ pc[Home(t)] = "swap"
      /\ \A u \in Threads : Refers(u, f) \/ exec[u] = f => u = t
    BY <1>b, InFiber
<1>d. /\ UNCHANGED <<m_ctx, t_fiber, mainFiber, exec, cur, locals, mine, m_fibers>>
      /\ pc' = [pc EXCEPT ![f] = "last"]
      /\ Settle([m_state EXCEPT ![f] = state], TRUE)
    BY <1>b, <1>c DEF Finish
<1>s. /\ ~failed' /\ failed' \in BOOLEAN /\
             m_state' \in [Objects -> State \cup {"none", "freed"}]
      /\ \A o \in Objects \ Fibers : m_state'[o] = [m_state EXCEPT ![f] = state][o]
      /\ \A g \in Fibers : Needed(g)' => m_state'[g] = [m_state EXCEPT ![f] = state][g]
      /\ \A g \in Fibers : (\E u \in Threads : Refers(u, g)') =>
             m_state'[g] = [m_state EXCEPT ![f] = state][g]
      /\ \A g \in Fibers : m_state'[g] # [m_state EXCEPT ![f] = state][g] =>
             m_state'[g] = "freed" /\ [m_state EXCEPT ![f] = state][g] \in Rests
    <2>1. \A g \in Fibers : [m_state EXCEPT ![f] = state][g] \in State /\ ~Needed(g)' =>
              [m_state EXCEPT ![f] = state][g] \in Rests
        BY <1>d DEF IInv, TypeOK, Bodies, BodyOf, Needed, State, Rests
    <2> QED
        BY <2>1, Settled, <1>d DEF IInv, TypeOK, State
<1>1. TypeOK' /\ ~failed'
    <2>1. \A u \in Threads : m_state'[u] \in {"none", "EXEC", "freed"}
        BY <1>s, Disjoint DEF IInv, TypeOK
    <2> QED
        BY <2>1, <1>d, <1>s DEF IInv, TypeOK, Place
<1>2. Contexts'
    BY <1>d DEF IInv, Contexts
<1>3. Loops'
    <2>1. /\ f \notin Threads \cup {Root}
          /\ \A o \in Objects \ Fibers : m_state'[o] = m_state[o]
        BY <1>s, Disjoint DEF IInv, TypeOK
    <2>2. \A o \in Objects : pc'[o] = IF o = f THEN "last" ELSE pc[o]
        BY <1>d DEF IInv, TypeOK
    <2>3. RootOK'
        BY <1>d, <2>1, <2>2, Disjoint DEF IInv, Loops, RootOK
    <2> SUFFICES ASSUME NEW u \in Threads PROVE LoopOf(u)' /\ ThreadOf(u)' /\ CallerOf(u)'
        BY <2>3 DEF Loops
    <2>4. Home(u) # f /\ Home(u) \in Objects \ Fibers /\ u \in Objects \ Fibers /\ Home(u)' = Home(u)
        BY <2>1, Disjoint
    <2>5. LoopOf(u)'
        <3>1. Chosen(u)' = Chosen(u) /\ pc'[Home(u)] = pc[Home(u)]
            BY <1>d, <2>2, <2>4 DEF Chosen
        <3>2. \A o \in Fibers : /\ pc[o] # "start" => pc'[o] # "start"
                                /\ pc[o] \in {"on", "last"} => pc'[o] \in {"on", "last"}
            BY <2>2, Disjoint
        <3> QED
            BY <1>d, <2>4, <3>1, <3>2 DEF IInv, Loops, LoopOf
    <2>6. ThreadOf(u)' /\ CallerOf(u)'
        BY <1>d, <2>1, <2>2, Disjoint DEF IInv, Loops, ThreadOf, CallerOf
    <2> QED
        BY <2>5, <2>6
<1>4. Bodies'
    BY <1>c, <1>d, <1>s DEF IInv, TypeOK, Bodies, BodyOf, Rests
<1>5. Kept'
    BY <1>d, <1>s DEF IInv, Kept, Refers, State, Needed
<1>6. Apart'
    BY <1>d DEF IInv, Apart, Refers
<1>7. Owned'
    BY <1>a, <1>b, <1>c, <1>d, <1>s DEF IInv, TypeOK, Owned, OwnOf, Refers, Locals, Chosen
<1> QED
    BY <1>1, <1>2, <1>3, <1>4, <1>5, <1>6, <1>7 DEF IInv

LEMMA TakeEndedKeeps == ASSUME IInv, NEW t \in Threads, NEW f \in Fibers, TakeFiber(t, f),
           m_state[f] \in {"TERM", "EXCEPT"} PROVE IInv'
<1>a. /\ UNCHANGED <<m_ctx, t_fiber, mainFiber, exec, pc, cur, locals, mine>>
      /\ m_fibers' = m_fibers \ {f} /\ Settle(m_state, TRUE)
    BY DEF TakeFiber
<1>s. /\ ~failed' /\ failed' \in BOOLEAN /\
             m_state' \in [Objects -> State \cup {"none", "freed"}]
      /\ \A o \in Objects \ Fibers : m_state'[o] = m_state[o]
      /\ \A g \in Fibers : Needed(g)' => m_state'[g] = m_state[g]
      /\ \A g \in Fibers : (\E u \in Threads : Refers(u, g)') => m_state'[g] = m_state[g]
      /\ \A g \in Fibers : m_state'[g] # m_state[g] =>
             m_state'[g] = "freed" /\ m_state[g] \in Rests
    <2>1. \A g \in Fibers : m_state[g] \in State /\ ~Needed(g)' => m_state[g] \in Rests
        BY <1>a DEF IInv, Bodies, BodyOf, Needed, State, Rests
    <2> QED
        BY <2>1, Settled, <1>a DEF IInv, TypeOK
<1>1. TypeOK' /\ ~failed'
    <2>1. \A u \in Threads : m_state'[u] \in {"none", "EXEC", "freed"}
        BY <1>s, Disjoint DEF IInv, TypeOK
    <2> QED
        BY <1>a, <1>s, Disjoint DEF IInv, TypeOK
<1>2. Contexts'
    BY <1>a DEF IInv, Contexts
<1>3. Loops'
    BY <1>a, <1>s, Disjoint DEF IInv, Loops, RootOK, LoopOf, ThreadOf, CallerOf, Chosen
<1>4. Bodies'
    BY <1>a, <1>s DEF IInv, Bodies, BodyOf, Rests
<1>5. Kept'
    BY <1>a, <1>s DEF IInv, Kept, Refers, Needed
<1>6. Apart'
    BY <1>a DEF IInv, Apart, Refers
<1>7. Owned'
    BY <1>a, <1>s DEF IInv, TypeOK, Owned, OwnOf, Refers, Locals
<1> QED
    BY <1>1, <1>2, <1>3, <1>4, <1>5, <1>6, <1>7 DEF IInv

(* What the three have in common that switch to a fiber: f is taken by t   *)
(* alone, as ft.fiber, as cb_fiber or as idle_fiber.                       *)
Chooses(t, f) ==
    /\ UNCHANGED <<mine, mainFiber>>
    /\ m_fibers' \subseteq m_fibers \ {f}
    /\ locals' \in [Threads -> Locals]
    /\ \A u \in Threads \ {t} : locals'[u] = locals[u] /\ ~Refers(u, f)
    /\ locals'[t].idle = locals[t].idle
    /\ locals'[t].ft = IF locals'[t].to = "ft" THEN f ELSE None
    /\ locals'[t].cb = IF locals'[t].to = "cb" THEN f ELSE locals[t].cb
    /\ (locals'[t].to = "idle") <=> (f = locals[t].idle)
    /\ locals'[t].to # "cb" => f # locals[t].cb

LEMMA SwitchKeeps ==
    ASSUME IInv, NEW t \in Threads, NEW f \in Fibers, NEW STATE state, NEW STATE asserted,
           InLoop(t), SwapIn(t, f, state, asserted), asserted,
           state \in [Objects -> State \cup {"none", "freed"}],
           state[f] # "EXEC", \A o \in Objects \ {f} : state[o] = m_state[o],
           pc[f] \in {"start", "on"},
           Chooses(t, f)
    PROVE  IInv'
<1> DEFINE st == [state EXCEPT ![f] = "EXEC"]
<1>a. exec[t] = Home(t) /\ mainFiber[t] = Home(t) /\ pc[Home(t)] = "loop"
    BY AtHome DEF InLoop
<1>b. m_ctx[f] = f /\ [m_ctx EXCEPT ![Home(t)] = Home(t)] = m_ctx
    BY Disjoint DEF IInv, TypeOK, Contexts
<1>c. /\ m_ctx' = m_ctx
      /\ t_fiber' = [t_fiber EXCEPT ![t] = f] /\ exec' = [exec EXCEPT ![t] = f]
      /\ pc' = [pc EXCEPT ![Home(t)] = "swap", ![f] = "on"]
    BY <1>a, <1>b DEF SwapIn, SetThis, GetMainFiber
<1>d. cur' = [cur EXCEPT ![f] = f]
    <2>1. cur' = [cur EXCEPT ![f] = IF pc[f] = "start" THEN t_fiber'[t] ELSE cur[f]]
        BY <1>b DEF SwapIn
    <2>2. t_fiber'[t] = f
        BY <1>c DEF IInv, TypeOK
    <2>3. pc[f] # "start" => cur[f] = f
        BY DEF IInv, Bodies, BodyOf
    <2> QED
        BY <2>1, <2>2, <2>3
<1>e. Settle(st, TRUE)
    BY <1>b DEF SwapIn
<1>f. Refers(t, f)' /\ Chosen(t)' = f
    BY DEF Chooses, Refers, Chosen, Locals
<1>g. /\ \A g \in Fibers : Refers(t, g)' => g = f \/ Refers(t, g)
      /\ \A u \in Threads \ {t}, g \in Fibers : Refers(u, g)' => Refers(u, g) /\ g # f
    BY FiberAssumption DEF Chooses, Refers
<1>s. /\ ~failed' /\ failed' \in BOOLEAN /\
             m_state' \in [Objects -> State \cup {"none", "freed"}]
      /\ \A o \in Objects \ Fibers : m_state'[o] = m_state[o]
      /\ m_state'[f] = "EXEC"
      /\ \A g \in Fibers \ {f} : Needed(g)' \/ (\E u \in Threads : Refers(u, g)') =>
             m_state'[g] = m_state[g]
      /\ \A g \in Fibers \ {f} : m_state'[g] # m_state[g] =>
             m_state'[g] = "freed" /\ m_state[g] \in Rests
    <2>1. st \in [Objects -> State \cup {"none", "freed"}] /\ st[f] = "EXEC"
          /\ \A o \in Objects \ {f} : st[o] = m_state[o]
        BY Disjoint DEF State
    <2>2. \A g \in Fibers : st[g] \in State /\ ~Needed(g)' => st[g] \in Rests
        BY <1>c, <1>d, Disjoint DEF IInv, TypeOK, Bodies, BodyOf, Needed, State, Rests
    <2> HIDE DEF st
    <2> QED
        <3>1. /\ ~failed' /\ failed' \in BOOLEAN /\
                     m_state' \in [Objects -> State \cup {"none", "freed"}]
              /\ \A o \in Objects \ Fibers : m_state'[o] = st[o]
              /\ \A g \in Fibers : Needed(g)' => m_state'[g] = st[g]
              /\ \A g \in Fibers : (\E u \in Threads : Refers(u, g)') => m_state'[g] = st[g]
              /\ \A g \in Fibers : m_state'[g] # st[g] =>
                     m_state'[g] = "freed" /\ st[g] \in Rests
            BY <1>e, <2>1, <2>2, Settled DEF IInv
        <3> QED
            BY <1>f, <2>1, <3>1, Disjoint
<1> HIDE DEF st
<1>1. TypeOK' /\ ~failed'
    <2>1. \A u \in Threads : m_state'[u] \in {"none", "EXEC", "freed"}
        BY <1>s, Disjoint DEF IInv, TypeOK
    <2> QED
        BY <1>c, <1>d, <1>s, Disjoint DEF Chooses, IInv, TypeOK, Place
<1>2. Contexts'
    BY <1>c DEF IInv, Contexts
<1>3. Loops'
    BY <1>a, <1>c, <1>d, <1>f, <1>s, Disjoint
    DEF Chooses, IInv, TypeOK, Loops, RootOK, LoopOf, ThreadOf, CallerOf, Chosen, Place
<1>4. Bodies'
    BY <1>a, <1>c, <1>d, <1>s, Disjoint DEF IInv, TypeOK, Bodies, BodyOf, Rests
<1>5. Kept'
    BY <1>g, <1>s DEF Chooses, IInv, Kept, Needed, State
<1>6. Apart'
    <2>1. ASSUME NEW g \in Fibers, NEW u \in Threads, NEW v \in Threads,
                 Refers(u, g)', Refers(v, g)'
          PROVE  u = v
        BY <2>1, <1>g DEF IInv, Apart
    <2>2. ASSUME NEW g \in m_fibers', NEW u \in Threads PROVE ~Refers(u, g)'
        BY <1>g DEF Chooses, IInv, TypeOK, Apart
    <2>3. ASSUME NEW u \in Threads PROVE locals'[u].idle \notin mine'
        BY DEF Chooses, IInv, Apart
    <2> QED
        BY <2>1, <2>2, <2>3 DEF Apart
<1>7. Owned'
    <2> SUFFICES ASSUME NEW u \in Threads PROVE OwnOf(u)'
        BY DEF Owned
    <2>1. OwnOf(u) /\ locals[u] \in Locals /\ locals'[u] \in Locals
        BY DEF Chooses, IInv, TypeOK, Owned
    <2>2. /\ locals'[u].cb \notin {None, f} => m_state'[locals'[u].cb] = m_state[locals'[u].cb]
          /\ locals'[u].idle \notin {None, f} =>
                 m_state'[locals'[u].idle] = m_state[locals'[u].idle]
        BY <2>1, <1>s DEF Locals, Refers
    <2>3. u # t => pc'[Home(u)] = pc[Home(u)] /\ locals'[u].cb # f /\ locals'[u].idle # f
        BY <1>c, Disjoint DEF Chooses, IInv, TypeOK, Refers
    <2>4. pc'[Home(t)] = "swap"
        BY <1>c, Disjoint DEF IInv, TypeOK
    <2>5. CASE u = t
        BY <2>1, <2>2, <2>4, <2>5, <1>a, <1>s DEF Chooses, OwnOf
    <2>6. CASE u # t
        BY <2>1, <2>2, <2>3, <2>6 DEF Chooses, OwnOf
    <2> QED
        BY <2>5, <2>6
<1> QED
    BY <1>1, <1>2, <1>3, <1>4, <1>5, <1>6, <1>7 DEF IInv

LEMMA TakeFiberKeeps ==
    ASSUME IInv, NEW t \in Threads, NEW f \in Fibers, TakeFiber(t, f)
    PROVE IInv'
<1>1. CASE m_state[f] \in {"TERM", "EXCEPT"}
    BY <1>1, TakeEndedKeeps
<1>2. CASE m_state[f] \notin {"TERM", "EXCEPT"}
    <2>1. /\ InLoop(t) /\ SwapIn(t, f, m_state, TRUE) /\ m_state[f] # "EXEC"
          /\ mine' = mine /\ mainFiber' = mainFiber /\ m_fibers' = m_fibers \ {f} /\
                 f \in m_fibers
          /\ locals' = [locals EXCEPT ![t].ft = f, ![t].to = "ft"]
        BY <1>2 DEF TakeFiber
    <2>2. pc[f] \in {"start", "on"} /\ \A u \in Threads : ~Refers(u, f)
        BY <1>2, <2>1 DEF IInv, Bodies, BodyOf, Kept, Apart, State
    <2>3. /\ locals' \in [Threads -> Locals] /\ \A u \in Threads \ {t} : locals'[u] = locals[u]
          /\ locals'[t].ft = f /\ locals'[t].to = "ft"
          /\ locals'[t].cb = locals[t].cb /\ locals'[t].idle = locals[t].idle
        BY <2>1 DEF IInv, TypeOK, Locals
    <2> QED
        <3>1. Chooses(t, f)
            BY <2>1, <2>2, <2>3 DEF Chooses, Refers
        <3>2. m_state \in [Objects -> State \cup {"none", "freed"}]
            BY DEF IInv, TypeOK
        <3> QED
            BY <2>1, <2>2, <3>1, <3>2, SwitchKeeps
<1> QED
    BY <1>1, <1>2

LEMMA TakeCallbackKeeps ==
    ASSUME IInv, NEW t \in Threads, NEW f \in Fibers, TakeCallback(t, f)
    PROVE IInv'
<1>1. /\ InLoop(t) /\ SwapIn(t, f, Made(f), m_state[f] \in Rests \cup {"none"})
      /\ IF locals[t].cb = None THEN m_state[f] = "none" ELSE f = locals[t].cb
      /\ mine' = mine /\ mainFiber' = mainFiber /\ m_fibers' = m_fibers
      /\ locals' = [locals EXCEPT ![t].cb = f, ![t].to = "cb"]
    BY DEF TakeCallback, Fresh
<1>2. exec[t] = Home(t) /\ pc[Home(t)] = "loop" /\ locals[t].ft = None
    BY <1>1, AtHome DEF InLoop, IInv, Owned, OwnOf
<1>3. /\ m_state[f] \in {"none", "INIT"} /\ f \notin m_fibers /\ f # locals[t].idle
      /\ \A u \in Threads \ {t} : ~Refers(u, f)
    <2>1. CASE locals[t].cb = None
        BY <1>1, <2>1 DEF IInv, Kept, Refers, State
    <2>2. CASE locals[t].cb # None
        BY <1>1, <1>2, <2>2 DEF IInv, Apart, Owned, OwnOf, Refers
    <2> QED
        BY <2>1, <2>2
<1>4. pc[f] = "start"
    BY <1>3 DEF IInv, Bodies, BodyOf
<1>5. /\ locals' \in [Threads -> Locals] /\ \A u \in Threads \ {t} : locals'[u] = locals[u]
      /\ locals'[t].cb = f /\ locals'[t].to = "cb"
      /\ locals'[t].ft = locals[t].ft /\ locals'[t].idle = locals[t].idle
    BY <1>1 DEF IInv, TypeOK, Locals
<1>6. /\ Made(f) \in [Objects -> State \cup {"none", "freed"}] /\ Made(f)[f] = "INIT"
      /\ \A o \in Objects \ {f} : Made(f)[o] = m_state[o]
    BY Disjoint DEF Made, IInv, TypeOK, State
<1>7. SwapIn(t, f, Made(f), TRUE)
    BY <1>1, <1>3 DEF Rests
<1>8. Chooses(t, f)
    BY <1>1, <1>2, <1>3, <1>5 DEF Chooses
<1> QED
    BY <1>1, <1>4, <1>6, <1>7, <1>8, SwitchKeeps

LEMMA SwitchToIdleKeeps == ASSUME IInv, NEW t \in Threads, SwitchToIdle(t) PROVE IInv'
<1>1. locals[t].idle \in Fibers /\ pc[exec[t]] = "loop" /\ exec[t] = Home(t)
    BY AtHome DEF SwitchToIdle, InLoop
<1>2. PICK f \in Fibers : f = locals[t].idle
    BY <1>1
<1>3. /\ InLoop(t) /\ SwapIn(t, f, m_state, TRUE) /\ m_state[f] # "TERM"
      /\ mine' = mine /\ mainFiber' = mainFiber /\ m_fibers' = m_fibers
      /\ locals' = [locals EXCEPT ![t].to = "idle"]
    BY <1>2 DEF SwitchToIdle
<1>4. /\ m_state[f] \in State \ {"EXEC", "TERM", "EXCEPT"} /\ f # locals[t].cb /\
             locals[t].ft = None
      /\ f \notin m_fibers /\ \A u \in Threads \ {t} : ~Refers(u, f)
    BY <1>1, <1>2, <1>3, AtHome, FiberAssumption DEF IInv, Kept, Apart, Owned, OwnOf, Refers
<1>5. pc[f] \in {"start", "on"}
    BY <1>4 DEF IInv, Bodies, BodyOf, State
<1>6. /\ locals' \in [Threads -> Locals] /\ \A u \in Threads \ {t} : locals'[u] = locals[u]
      /\ locals'[t].to = "idle" /\ locals'[t].ft = locals[t].ft
      /\ locals'[t].cb = locals[t].cb /\ locals'[t].idle = locals[t].idle
    BY <1>3 DEF IInv, TypeOK, Locals
<1>7. m_state \in [Objects -> State \cup {"none", "freed"}]
    BY DEF IInv, TypeOK
<1>8. Chooses(t, f)
    BY <1>2, <1>3, <1>4, <1>6 DEF Chooses
<1> QED
    BY <1>3, <1>4, <1>5, <1>7, <1>8, SwitchKeeps

-----------------------------------------------------------------------------
(* The theorems *)

LEMMA NextKeeps == IInv /\ [Next]_vars => IInv'
<1> SUFFICES ASSUME IInv, [Next]_vars PROVE IInv'
    OBVIOUS
<1>1. CASE UNCHANGED vars
    BY <1>1
    DEF vars, IInv, TypeOK, Contexts, Loops, RootOK, LoopOf, ThreadOf, CallerOf, Bodies, BodyOf,
        Kept, Apart, Owned, OwnOf, Refers, Chosen
<1>2. CASE Program
    BY <1>2, CreateKeeps, ScheduleKeeps, ForgetKeeps DEF Program
<1>3. CASE Construct \/ CallEnded
    BY <1>3, ConstructKeeps, CallEndedKeeps
<1>4. CASE \E f \in Fibers : Call(f) \/ \E t \in Threads : Enter(t, f)
    BY <1>4, CallKeeps, EnterKeeps
<1>5. ASSUME NEW t \in Threads, Loop(t) PROVE IInv'
    <2>1. CASE \E f \in Fibers : TakeFiber(t, f) \/ TakeCallback(t, f)
        BY <2>1, TakeFiberKeeps, TakeCallbackKeeps
    <2>2. CASE SwitchToIdle(t) \/ AfterFiber(t) \/ AfterIdle(t)
        BY <2>2, SwitchToIdleKeeps, AfterFiberKeeps, AfterIdleKeeps
    <2>3. CASE AfterCallback(t)
        BY <2>3, EndedCallbackKeeps, YieldedCallbackKeeps
    <2>4. CASE LeavePool(t) \/ LeaveRoot(t)
        BY <2>4, LeavePoolKeeps, LeaveRootKeeps
    <2> QED
        BY <1>5, <2>1, <2>2, <2>3, <2>4 DEF Loop
<1>6. ASSUME NEW t \in Threads, Body(t) PROVE IInv'
    BY <1>6, YieldKeeps, FinishKeeps, LastSwapOutKeeps, PublishKeeps DEF Body
<1> QED
    BY <1>1, <1>2, <1>3, <1>4, <1>5, <1>6 DEF Next

LEMMA InvariantHolds == Spec => []IInv
<1> QED
    BY InitHolds, NextKeeps, PTL DEF Spec

(* The variables of module Fiber have their types.  What the code does to  *)
(* the fiber GetThis answers with (YieldToReady, MainFunc) is never done   *)
(* to the fiber of a thread: it stays EXEC until the thread ends.          *)
THEOREM TypeCorrect == Spec => []TypeOK
<1>1. IInv => TypeOK
    BY DEF IInv
<1> QED
    BY <1>1, InvariantHolds, PTL

(* On the stack of a fiber GetThis() answers with the fiber and MainFunc   *)
(* works on it, for any threads and fibers (fiber.cc, t_fiber).            *)
THEOREM GetThisIsAlwaysRight == Spec => []GetThisIsRight
<1>1. IInv => GetThisIsRight
    BY InFiber, Disjoint DEF IInv, Contexts, GetThisIsRight
<1> QED
    BY <1>1, InvariantHolds, PTL

(* A thread in a fiber can go back: swapOut and back() restore the context *)
(* of the loop that was left, and no two threads are on one stack          *)
(* (Fiber::swapIn, swapOut, call and back).                                *)
THEOREM ThereIsAWayBack == Spec => []WayBack
<1>1. ASSUME IInv PROVE WayBack
    <2>1. ASSUME NEW t \in Threads, exec[t] \in Fibers
          PROVE  LET m == mainFiber[t] IN m_ctx[m] = m /\ pc[m] = "swap"
        BY <1>1, <2>1, InFiber, Disjoint DEF IInv, Contexts
    <2>2. ASSUME NEW t \in Threads, exec[t] # t, t = Caller
          PROVE  m_ctx[t] = t /\ pc[t] = "call"
        BY <1>1, <2>2, Disjoint DEF IInv, Contexts, Loops, CallerOf
    <2>3. ASSUME NEW t \in Threads, NEW u \in Threads \ {t}, exec[u] = exec[t]
          PROVE  FALSE
        <3>1. CASE exec[t] \in Fibers
            BY <1>1, <2>3, <3>1, InFiber
        <3>2. CASE exec[t] \notin Fibers
            BY <1>1, <2>3, <3>2, Disjoint DEF IInv, Loops, LoopOf
        <3> QED
            BY <3>1, <3>2
    <2> QED
        BY <2>1, <2>2, <2>3 DEF WayBack
<1> QED
    BY <1>1, InvariantHolds, PTL

(* No fiber is destroyed while its stack is executed, up to the last       *)
(* swapOut behind cur.reset(), or while something is left on it; no        *)
(* assertion of ~Fiber, reset and swapIn fails, and no stack is resumed    *)
(* behind its last switch but the root fiber's, by a later stop()          *)
(* (Fiber::MainFunc, Scheduler::run).                                      *)
THEOREM FibersLiveWhileUsed == Spec => []LivesWhileUsed
<1>1. ASSUME IInv PROVE LivesWhileUsed
    <2>1. ASSUME NEW t \in Threads, pc[t] # "over" PROVE m_state[exec[t]] # "freed"
        <3>1. CASE exec[t] \in Fibers
            BY <1>1, <3>1, InFiber DEF State
        <3>2. CASE exec[t] \notin Fibers
            BY <1>1, <2>1, <3>2 DEF IInv, Loops, RootOK, LoopOf, ThreadOf, Home
        <3> QED
            BY <3>1, <3>2
    <2>2. ASSUME NEW t \in Threads, NeverReach(t) PROVE t = Caller /\ exec[t] = Root
        <3>1. exec[t] \notin Fibers
            BY <1>1, <2>2, InFiber DEF NeverReach
        <3> QED
            BY <1>1, <2>2, <3>1 DEF IInv, Loops, LoopOf, ThreadOf, CallerOf, Home, NeverReach
    <2> QED
        BY <1>1, <2>1, <2>2 DEF IInv, LivesWhileUsed
<1> QED
    BY <1>1, InvariantHolds, PTL
=============================================================================
