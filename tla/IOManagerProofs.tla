--------------------------- MODULE IOManagerProofs ---------------------------
(* What the epoll manager keeps in step without one lock for it all, for    *)
(* any number of threads, descriptors and tasks.                            *)
EXTENDS IOManagerInvariant, FiniteSetTheorems, SequenceTheorems, TLAPS

(* The lists of events an operation works through. *)
LEMMA TodoSets ==
    /\ Todos \subseteq Seq(Event)
    /\ \A s \in Todos :
          /\ ToSet(s) \subseteq Event
          /\ s = <<>> <=> ToSet(s) = {}
          /\ s # <<>> => /\ Head(s) \in ToSet(s)
                         /\ Tail(s) \in Todos
                         /\ ToSet(Tail(s)) = ToSet(s) \ {Head(s)}
    /\ \A e \in Event : <<e>> \in Todos /\ ToSet(<<e>>) = {e} /\ Head(<<e>>) = e /\ <<e>> # <<>>
<1>1. ToSet(<<>>) = {} /\ ToSet(<<"READ">>) = {"READ"} /\ ToSet(<<"WRITE">>) = {"WRITE"}
    BY DEF ToSet
<1>2. ToSet(<<"READ", "WRITE">>) = {"READ", "WRITE"}
  <2>1. DOMAIN <<"READ", "WRITE">> = {1, 2}
      OBVIOUS
  <2> QED
      BY <2>1 DEF ToSet
<1>3. Tail(<<"READ">>) = <<>> /\ Tail(<<"WRITE">>) = <<>> /\ Tail(<<"READ", "WRITE">>) = <<"WRITE">>
    OBVIOUS
<1>4. Todos \subseteq Seq(Event)
    BY DEF Todos, Event
<1>5. ASSUME NEW s \in Todos
      PROVE  /\ ToSet(s) \subseteq Event
             /\ s = <<>> <=> ToSet(s) = {}
             /\ s # <<>> => /\ Head(s) \in ToSet(s)
                            /\ Tail(s) \in Todos
                            /\ ToSet(Tail(s)) = ToSet(s) \ {Head(s)}
  <2>1. CASE s = <<>>
      BY <1>1, <2>1
  <2>2. CASE s = <<"READ">>
      BY <1>1, <1>3, <2>2 DEF Todos, Event
  <2>3. CASE s = <<"WRITE">>
      BY <1>1, <1>3, <2>3 DEF Todos, Event
  <2>4. CASE s = <<"READ", "WRITE">>
    <3>1. Head(s) = "READ" /\ Tail(s) = <<"WRITE">> /\ s # <<>>
        BY <1>3, <2>4
    <3> QED
        BY <1>1, <1>2, <2>4, <3>1 DEF Todos, Event
  <2> QED
      BY <2>1, <2>2, <2>3, <2>4 DEF Todos
<1>6. ASSUME NEW e \in Event
      PROVE  <<e>> \in Todos /\ ToSet(<<e>>) = {e} /\ Head(<<e>>) = e /\ <<e>> # <<>>
    BY <1>1 DEF Todos, Event
<1> QED
    BY <1>4, <1>5, <1>6

LEMMA ReadThenWriteOf ==
    ASSUME NEW es \in SUBSET Event
    PROVE  ReadThenWrite(es) \in Todos /\ ToSet(ReadThenWrite(es)) = es
<1>1. ToSet(<<>>) = {} /\ ToSet(<<"READ">>) = {"READ"} /\ ToSet(<<"WRITE">>) = {"WRITE"}
    BY DEF ToSet
<1>2. ToSet(<<"READ", "WRITE">>) = {"READ", "WRITE"}
  <2>1. DOMAIN <<"READ", "WRITE">> = {1, 2}
      OBVIOUS
  <2> QED
      BY <2>1 DEF ToSet
<1>3. <<>> \o <<>> = <<>> /\ <<"READ">> \o <<>> = <<"READ">> /\ <<>> \o <<"WRITE">> = <<"WRITE">>
    OBVIOUS
<1>4. <<"READ">> \o <<"WRITE">> = <<"READ", "WRITE">>
  <2>1. /\ <<"READ">> \o <<"WRITE">> \in Seq(Event)
        /\ <<"READ", "WRITE">> \in Seq(Event)
        /\ Len(<<"READ">> \o <<"WRITE">>) = 2 /\ Len(<<"READ", "WRITE">>) = 2
      BY DEF Event
  <2>2. \A i \in 1 .. 2 : (<<"READ">> \o <<"WRITE">>)[i] = <<"READ", "WRITE">>[i]
      OBVIOUS
  <2> QED
      BY <2>1, <2>2, SeqEqual
<1>5. CASE es = {}
    BY <1>1, <1>3, <1>5 DEF ReadThenWrite, Todos
<1>6. CASE es = {"READ"}
    BY <1>1, <1>3, <1>6 DEF ReadThenWrite, Todos
<1>7. CASE es = {"WRITE"}
    BY <1>1, <1>3, <1>7 DEF ReadThenWrite, Todos
<1>8. CASE es = {"READ", "WRITE"}
    BY <1>2, <1>4, <1>8 DEF ReadThenWrite, Todos
<1> QED
    BY <1>5, <1>6, <1>7, <1>8 DEF Event

(* The threads at certain places of run(), when one of them moves. *)
LEMMA RunnersFinite == IsFiniteSet(Runners) /\ IsFiniteSet(Actors)
    BY IOManagerAssumption, FS_AddElement DEF Runners, Actors

LEMMA CountMoves ==
    ASSUME NEW S, NEW t \in Runners, \A u \in Runners \ {t} : pc'[u] = pc[u]
    PROVE  /\ Cardinality(At(S)) \in Nat
           /\ pc[t] \in S <=> pc'[t] \in S => Cardinality(At(S)') = Cardinality(At(S))
           /\ pc[t] \notin S /\ pc'[t] \in S => Cardinality(At(S)') = Cardinality(At(S)) + 1
           /\ pc[t] \in S /\ pc'[t] \notin S => Cardinality(At(S)') = Cardinality(At(S)) - 1
<1>1. IsFiniteSet(At(S)) /\ IsFiniteSet(At(S)')
    BY RunnersFinite, FS_Subset DEF At
<1>2. CASE pc[t] \in S <=> pc'[t] \in S
  <2>1. At(S)' = At(S)
      BY <1>2 DEF At
  <2> QED
      BY <1>1, <1>2, <2>1, FS_CardinalityType
<1>3. CASE pc[t] \notin S /\ pc'[t] \in S
  <2>1. At(S)' = At(S) \cup {t} /\ t \notin At(S)
      BY <1>3 DEF At
  <2> QED
      BY <1>1, <1>3, <2>1, FS_AddElement, FS_CardinalityType
<1>4. CASE pc[t] \in S /\ pc'[t] \notin S
  <2>1. At(S)' = At(S) \ {t} /\ t \in At(S)
      BY <1>4 DEF At
  <2> QED
      BY <1>1, <1>4, <2>1, FS_RemoveElement, FS_CardinalityType
<1> QED
    BY <1>2, <1>3, <1>4

LEMMA CountsInRange ==
    ASSUME NEW S
    PROVE  /\ Cardinality(At(S)) \in 0 .. Cardinality(Runners)
           /\ Cardinality(At(S)') \in 0 .. Cardinality(Runners)
<1>1. At(S) \in SUBSET Runners /\ At(S)' \in SUBSET Runners
    BY DEF At
<1>2. /\ Cardinality(At(S)) \in Nat /\ Cardinality(At(S)) <= Cardinality(Runners)
      /\ Cardinality(At(S)') \in Nat /\ Cardinality(At(S)') <= Cardinality(Runners)
      /\ Cardinality(Runners) \in Nat
    BY <1>1, RunnersFinite, FS_Subset, FS_CardinalityType
<1> QED
    BY <1>2

-----------------------------------------------------------------------------
(* A conjunct stays as it is when its variables do. *)
LEMMA Frames ==
    ASSUME IInv
    PROVE  /\ UNCHANGED job => Locks'
           /\ UNCHANGED <<job, events, interest>> => Shapes' /\ FreeAgrees'
           /\ UNCHANGED <<events, ctx>> => EventHasTask'
           /\ UNCHANGED <<interest, level, edge, got>> => OnItsWay'
           /\ UNCHANGED <<task, pc, gotPipe, got>> => Locals'
           /\ UNCHANGED <<pc, m_activeThreadCount, m_idleThreadCount>> => Counts'
           /\ UNCHANGED <<m_pendingEventCount, events, job>> => PendingAgrees'
           /\ UNCHANGED <<m_fibers, ctx, job, task, born, ended, deleted>> => Homes'
           /\ UNCHANGED <<job, tickles, pc, main, m_stopping, idleTerm>> => Stages'
           /\ UNCHANGED <<m_fibers, pc, main>> => TakerLeft'
           /\ UNCHANGED <<events, got, job, level, stale, pc>> => Triggers'
<1>1. UNCHANGED job => Locks'
    BY DEF IInv, Agreement, Locks
<1>2. UNCHANGED <<job, events, interest>> => Shapes' /\ FreeAgrees'
    BY DEF IInv, Agreement, Shapes, Shape, Todo, FreeAgrees, Free
<1>3. UNCHANGED <<events, ctx>> => EventHasTask'
    BY DEF IInv, Agreement, EventHasTask
<1>4. UNCHANGED <<interest, level, edge, got>> => OnItsWay'
    BY DEF IInv, Agreement, OnItsWay
<1>5. UNCHANGED <<task, pc, gotPipe, got>> => Locals'
    BY DEF IInv, Agreement, Locals
<1>6. UNCHANGED <<pc, m_activeThreadCount, m_idleThreadCount>> => Counts'
    BY DEF IInv, Agreement, Counts, At
<1>7. UNCHANGED <<m_pendingEventCount, events, job>> => PendingAgrees'
    BY DEF IInv, Agreement, PendingAgrees, Registrations, Owing
<1>8. UNCHANGED <<m_fibers, ctx, job, task, born, ended, deleted>> => Homes'
    BY DEF IInv, Homes, Home, Alive, Listed, Awaited, Offered, Running, ListedOnce, AwaitedOnce,
           OfferedOnce, RunningOnce
<1>9. UNCHANGED <<job, tickles, pc, main, m_stopping, idleTerm>> => Stages'
    BY DEF IInv, Stages, InRun, PoolJoined
<1>10. UNCHANGED <<m_fibers, pc, main>> => TakerLeft'
    BY DEF IInv, TakerLeft, Gone
<1>11. UNCHANGED <<events, got, job, level, stale, pc>> => Triggers'
  <2>1. UNCHANGED <<events, got, job, level, stale>> => Reported'
      BY DEF IInv, Triggers, Reported, HungUp, Known, Adds, Todo
  <2>2. UNCHANGED <<events, job, level, stale, pc>> => Handled'
      BY DEF IInv, Triggers, Handled, Handles, HungUp, Todo
  <2> QED
      BY <2>1, <2>2 DEF Triggers
<1> QED
    BY <1>1, <1>2, <1>3, <1>4, <1>5, <1>6, <1>7, <1>8, <1>9, <1>10, <1>11

(* The events of a descriptor that are registered or about to be. *)
LEMMA KnownStays ==
    ASSUME NEW fd \in Fds, NEW D, events[fd] \ D \subseteq events'[fd],
           \A b \in Actors : Adds(b, fd) =>
               job'[b] = job[b] \/ Todo(b) \subseteq events'[fd]
    PROVE  Known(fd) \ D \subseteq Known(fd)'
<1>1. ASSUME NEW b \in Actors, Adds(b, fd), NEW x \in Todo(b)
      PROVE  x \in Known(fd)'
  <2>1. CASE job'[b] = job[b]
      BY <1>1, <2>1 DEF Known, Adds, Todo
  <2>2. CASE Todo(b) \subseteq events'[fd]
      BY <1>1, <2>2 DEF Known
  <2> QED
      BY <1>1, <2>1, <2>2
<1>2. events[fd] \ D \subseteq Known(fd)'
    BY DEF Known
<1> QED
    BY <1>1, <1>2 DEF Known

(* While nobody holds the mutex these are the registered ones; epoll is     *)
(* asked for no others.                                                     *)
LEMMA KnownEvents ==
    ASSUME IInv, NEW fd \in Fds
    PROVE  /\ Free(fd) => Known(fd) = events[fd]
           /\ interest[fd] \subseteq Known(fd)
<1>1. Free(fd) => Known(fd) = events[fd]
    BY DEF Free, Known, Adds
<1>2. CASE Free(fd)
    BY <1>1, <1>2 DEF IInv, Agreement, FreeAgrees
<1>3. CASE ~Free(fd)
  <2>1. PICK a \in Actors : job[a].fd = fd /\ fd # None
      BY <1>3, IOManagerAssumption DEF Free
  <2>2. Shape(a)
      BY DEF IInv, Agreement, Shapes
  <2>3. CASE job[a].add = None
    <3>1. interest[fd] \subseteq events[fd]
        BY <2>1, <2>2, <2>3 DEF Shape
    <3> QED
        BY <1>1, <3>1 DEF Known
  <2>4. CASE job[a].add # None
    <3>1. PICK e \in Event : job[a].todo = <<e>> /\ interest[fd] = events[fd] \cup {e}
        BY <2>1, <2>2, <2>4 DEF Shape
    <3>2. Todo(a) = {e}
        BY <3>1, TodoSets DEF Todo
    <3>3. Todo(a) \subseteq Known(fd) /\ events[fd] \subseteq Known(fd)
      <4>1. Adds(a, fd)
          BY <2>1, <2>4 DEF Adds
      <4> QED
          BY <4>1 DEF Known
    <3> QED
        BY <1>1, <3>1, <3>2, <3>3
  <2> QED
      BY <2>3, <2>4
<1> QED
    BY <1>1, <1>2, <1>3

(* A report stays good while no event is taken away, or it becomes stale. *)
LEMMA ReportedStays ==
    ASSUME IInv,
           \A t \in Runners : \/ stale[t] \subseteq stale'[t]
                              \/ \A f \in Fds : got'[t][f] = {},
           \A t \in Runners, f \in Fds : got'[t][f] = got[t][f] \/ got'[t][f] = {},
           \A f \in Fds : HungUp(f) => HungUp(f)',
           \A f \in Fds : Known(f) \subseteq Known(f)'
    PROVE  Reported'
<1>1. SUFFICES ASSUME NEW t \in Runners, NEW f \in Fds, got'[t][f] # {}
               PROVE  f \in stale'[t] \/ HungUp(f)' \/ RealEvents(got'[t][f]) \subseteq Known(f)'
  <2>1. RealEvents({}) = {}
      BY DEF RealEvents
  <2> QED
      BY <1>1, <2>1 DEF Reported
<1>2. stale[t] \subseteq stale'[t] /\ got'[t][f] = got[t][f]
    BY <1>1
<1>3. f \in stale[t] \/ HungUp(f) \/ RealEvents(got[t][f]) \subseteq Known(f)
    BY DEF IInv, Triggers, Reported
<1>4. Known(f) \subseteq Known(f)' /\ (HungUp(f) => HungUp(f)')
    OBVIOUS
<1> QED
    BY <1>2, <1>3, <1>4

LEMMA Outdates ==
    ASSUME IInv, NEW fd \in Fds, NEW e \in Event, Outdate(fd, e), UNCHANGED <<got, level>>,
           Known(fd) \ {e} \subseteq Known(fd)',
           \A f \in Fds \ {fd} : Known(f) \subseteq Known(f)'
    PROVE  /\ Reported' /\ stale' \in [Runners -> SUBSET Fds]
           /\ \A t \in Runners : stale[t] \subseteq stale'[t]
<1>1. stale \in [Runners -> SUBSET Fds]
    BY DEF IInv, Agreement, TypeOK
<1>2. /\ stale' \in [Runners -> SUBSET Fds]
      /\ \A t \in Runners : stale[t] \subseteq stale'[t]
      /\ \A t \in Runners : e \in RealEvents(got[t][fd]) => fd \in stale'[t]
    BY <1>1 DEF Outdate
<1>3. ASSUME NEW t \in Runners, NEW f \in Fds
      PROVE  f \in stale'[t] \/ HungUp(f)' \/ RealEvents(got'[t][f]) \subseteq Known(f)'
  <2>1. f \in stale[t] \/ HungUp(f) \/ RealEvents(got[t][f]) \subseteq Known(f)
      BY DEF IInv, Triggers, Reported
  <2>2. (HungUp(f) => HungUp(f)') /\ got'[t][f] = got[t][f]
      BY DEF HungUp
  <2>3. CASE f # fd
    <3>1. Known(f) \subseteq Known(f)'
        BY <2>3
    <3> QED
        BY <1>2, <2>1, <2>2, <3>1
  <2>4. CASE f = fd
      BY <1>2, <2>1, <2>2, <2>4
  <2> QED
      BY <2>3, <2>4
<1> QED
    BY <1>2, <1>3 DEF Reported

(* What the others do under their mutexes is not disturbed. *)
LEMMA HandledStays ==
    ASSUME IInv, NEW a \in Actors, Handles(a)',
           \A b \in Actors \ {a} : job'[b] = job[b],
           \A b \in Actors \ {a} : job[b].fd # None => events'[job[b].fd] = events[job[b].fd],
           \A f \in Fds : HungUp(f) => HungUp(f)',
           \A t \in Runners : job[t].fd # None =>
               /\ stale[t] \subseteq stale'[t]
               /\ (pc[t] = "events" => pc'[t] = "events")
    PROVE  Handled'
<1>1. ASSUME NEW b \in Actors \ {a}, job[b].fd # None, job[b].add = None
      PROVE  Handles(b)'
  <2>1. Handles(b) /\ job[b].fd \in Fds
      BY <1>1 DEF IInv, Agreement, TypeOK, Job, Triggers, Handled
  <2>2. CASE Todo(b) \subseteq events[job[b].fd]
      BY <1>1, <2>2 DEF Handles, Todo
  <2>3. CASE b \in Runners /\ pc[b] = "events" /\ (job[b].fd \in stale[b] \/ HungUp(job[b].fd))
    <3>1. pc'[b] = "events" /\ stale[b] \subseteq stale'[b]
      <4>1. PICK t \in Runners : t = b
          BY <2>3
      <4>2. job[t].fd # None /\ pc[t] = "events"
          BY <1>1, <2>3, <4>1
      <4> QED
          BY <4>1, <4>2
    <3>2. HungUp(job[b].fd) => HungUp(job[b].fd)'
      <4>1. ASSUME NEW f \in Fds, f = job[b].fd, HungUp(f)
            PROVE  HungUp(job[b].fd)'
        <5>1. HungUp(f)' /\ f = job'[b].fd
            BY <4>1
        <5> QED
            BY <4>1, <5>1 DEF HungUp
      <4> QED
          BY <2>1, <4>1
    <3> QED
        BY <1>1, <2>3, <3>1, <3>2 DEF Handles
  <2> QED
      BY <1>1, <2>1, <2>2, <2>3 DEF Handles
<1>2. ASSUME NEW b \in Actors \ {a}
      PROVE  Handles(b)'
    BY <1>1 DEF Handles
<1> QED
    BY <1>2 DEF Handled

LEMMA TriggersStay ==
    ASSUME IInv, UNCHANGED <<events, job>>,
           \A f \in Fds : HungUp(f) => HungUp(f)',
           \A t \in Runners : \/ stale[t] \subseteq stale'[t]
                              \/ job[t].fd = None /\ \A f \in Fds : got'[t][f] = {},
           \A t \in Runners, f \in Fds : got'[t][f] = got[t][f] \/ got'[t][f] = {},
           \A t \in Runners : job[t].fd # None /\ pc[t] = "events" => pc'[t] = "events"
    PROVE  Triggers'
<1>1. Reported'
  <2>1. \A f \in Fds : Known(f) \subseteq Known(f)'
      BY DEF Known, Adds, Todo
  <2> QED
      BY <2>1, ReportedStays
<1>2. ASSUME NEW a \in Actors
      PROVE  Handles(a)'
  <2>1. Handles(a) /\ job[a].fd \in Fds \cup {None}
      BY DEF IInv, Agreement, TypeOK, Job, Triggers, Handled
  <2>2. ASSUME a \in Runners, pc[a] = "events", job[a].fd # None, job[a].fd \in stale[a] \/ HungUp(job[a].fd)
        PROVE  pc'[a] = "events" /\ (job[a].fd \in stale'[a] \/ HungUp(job[a].fd)')
    <3>1. PICK f \in Fds : f = job[a].fd
        BY <2>1, <2>2
    <3>2. f \in stale'[a] \/ HungUp(f)'
        BY <2>2, <3>1
    <3> QED
        BY <2>2, <3>1, <3>2 DEF HungUp
  <2> QED
      BY <2>1, <2>2 DEF Handles, Todo
<1> QED
    BY <1>1, <1>2 DEF Triggers, Handled

(* A thread goes on to another place of run() or idle(). *)
LEMMA Moves ==
    ASSUME IInv, NEW t \in Runners,
           NEW l \in {"loop", "body", "none", "idle", "idle2", "wait", "events", "exited"},
           Goto(t, l), pc[t] \notin {"off", "exited"},
           UNCHANGED <<job, tickles, main, m_stopping>>,
           pc[t] \in {"body", "events"} => ~Busy(t),
           idleTerm' = idleTerm \/ (idleTerm' = idleTerm \cup {t} /\ m_stopping),
           l = "exited" => t \in idleTerm /\ m_fibers' = <<>>,
           m_activeThreadCount' = m_activeThreadCount
               + (IF l = "body" THEN 1 ELSE 0) - (IF pc[t] = "body" THEN 1 ELSE 0),
           m_idleThreadCount' = m_idleThreadCount
               + (IF l \in Idling THEN 1 ELSE 0) - (IF pc[t] \in Idling THEN 1 ELSE 0)
    PROVE  /\ Stages' /\ TakerLeft' /\ Counts'
           /\ pc' \in [Runners -> {"off", "loop", "body", "none",
              "idle", "idle2", "wait", "events", "exited"}]
           /\ m_activeThreadCount' \in 0 .. Cardinality(Runners)
           /\ m_idleThreadCount' \in 0 .. Cardinality(Runners)
           /\ pc'[t] = l /\ \A u \in Runners \ {t} : pc'[u] = pc[u]
<1>1. /\ pc' \in [Runners -> {"off", "loop", "body", "none", "idle", "idle2", "wait", "events",
                              "exited"}]
      /\ pc'[t] = l /\ \A u \in Runners \ {t} : pc'[u] = pc[u]
    BY DEF IInv, Agreement, TypeOK, Goto
<1>2. t = Root => main = "in_call"
    BY DEF IInv, Agreement, TypeOK, Stages
<1>3. /\ \A a \in Actors : job[a].fd # None => InRun(a)' \/ (a = Root /\ main = "up")
      /\ \A a \in Actors : tickles[a] > 0 => InRun(a)' \/ (a = Root /\ main \in {"up", "call", "join"})
    BY <1>1, <1>2 DEF IInv, Stages, InRun, Busy
<1>4. Stages'
  <2>1. /\ main = "stopped" => PoolJoined'
        /\ idleTerm' # {} => m_stopping
        /\ \A u \in Runners : pc'[u] = "exited" => u \in idleTerm'
      BY <1>1, <1>2 DEF IInv, Stages, PoolJoined, Runners
  <2>2. /\ \A u \in Pool : pc'[u] # "off"
        /\ Root \in Runners /\ main \in {"up", "set", "call", "call2"} => pc'[Root] = "off"
        /\ Root \in Runners /\ main \in {"join", "stopped"} => pc'[Root] \in {"off", "exited"}
      BY <1>1, <1>2 DEF IInv, Stages, Runners
  <2> QED
      BY <1>3, <2>1, <2>2 DEF IInv, Stages
<1>5. TakerLeft'
  <2>1. CASE l = "exited"
      BY <2>1 DEF TakerLeft
  <2>2. CASE l # "exited"
      BY <1>1, <2>2 DEF TakerLeft, Gone
  <2> QED
      BY <2>1, <2>2
<1>6. Counts'
  <2>1. /\ m_activeThreadCount = Cardinality(At({"body"}))
        /\ m_idleThreadCount = Cardinality(At(Idling))
      BY DEF IInv, Agreement, Counts
  <2>2. m_activeThreadCount' = Cardinality(At({"body"})')
    <3>1. m_activeThreadCount' = m_activeThreadCount
             + (IF pc'[t] \in {"body"} THEN 1 ELSE 0) - (IF pc[t] \in {"body"} THEN 1 ELSE 0)
        BY <1>1
    <3>2. /\ Cardinality(At({"body"})) \in Nat
          /\ pc[t] \in {"body"} <=> pc'[t] \in {"body"} =>
                Cardinality(At({"body"})') = Cardinality(At({"body"}))
          /\ pc[t] \notin {"body"} /\ pc'[t] \in {"body"} =>
                Cardinality(At({"body"})') = Cardinality(At({"body"})) + 1
          /\ pc[t] \in {"body"} /\ pc'[t] \notin {"body"} =>
                Cardinality(At({"body"})') = Cardinality(At({"body"})) - 1
        BY <1>1, CountMoves
    <3> QED
        BY <2>1, <3>1, <3>2
  <2>3. m_idleThreadCount' = Cardinality(At(Idling)')
    <3>1. m_idleThreadCount' = m_idleThreadCount
             + (IF pc'[t] \in Idling THEN 1 ELSE 0) - (IF pc[t] \in Idling THEN 1 ELSE 0)
        BY <1>1
    <3>2. /\ Cardinality(At(Idling)) \in Nat
          /\ pc[t] \in Idling <=> pc'[t] \in Idling => Cardinality(At(Idling)') = Cardinality(At(Idling))
          /\ pc[t] \notin Idling /\ pc'[t] \in Idling =>
                Cardinality(At(Idling)') = Cardinality(At(Idling)) + 1
          /\ pc[t] \in Idling /\ pc'[t] \notin Idling =>
                Cardinality(At(Idling)') = Cardinality(At(Idling)) - 1
        BY <1>1, CountMoves
    <3> QED
        BY <2>1, <3>1, <3>2
  <2> QED
      BY <2>2, <2>3 DEF Counts
<1>7. /\ m_activeThreadCount' \in 0 .. Cardinality(Runners)
      /\ m_idleThreadCount' \in 0 .. Cardinality(Runners)
    BY <1>6, CountsInRange DEF Counts
<1> QED
    BY <1>1, <1>4, <1>5, <1>6, <1>7
(* epoll_ctl looks at what holds now. *)
LEMMA EpollKeeps ==
    ASSUME IInv, NEW fd \in Fds, NEW want \in SUBSET Event, EpollCtl(fd, want), UNCHANGED level,
           \A t \in Runners, f \in Fds \ {fd} : got'[t][f] = got[t][f]
    PROVE  /\ OnItsWay'
           /\ interest' \in [Fds -> SUBSET Event] /\ interest'[fd] = want
           /\ \A f \in Fds \ {fd} : interest'[f] = interest[f]
           /\ edge' \subseteq Fds
<1>1. interest \in [Fds -> SUBSET Event] /\ edge \subseteq Fds
    BY DEF IInv, Agreement, TypeOK
<1>2. /\ interest' \in [Fds -> SUBSET Event] /\ interest'[fd] = want
      /\ \A f \in Fds \ {fd} : interest'[f] = interest[f]
      /\ edge' \subseteq Fds
    BY <1>1 DEF EpollCtl
<1>3. ASSUME NEW f \in Fds \ Refused, NEW e \in interest'[f], Wanted(e) \in level[f]
      PROVE  f \in edge' \/ \E t \in Runners : Wanted(e) \in got'[t][f]
  <2>1. CASE f = fd
    <3>1. Wanted(e) \in Reports(want, level[fd])
        BY <1>2, <1>3, <2>1 DEF Reports
    <3> QED
        BY <2>1, <3>1 DEF EpollCtl
  <2>2. CASE f # fd
    <3>1. f \in edge \/ \E t \in Runners : Wanted(e) \in got[t][f]
        BY <1>2, <1>3, <2>2 DEF IInv, Agreement, OnItsWay
    <3>2. f \in edge => f \in edge'
        BY <2>2 DEF EpollCtl
    <3> QED
        BY <2>2, <3>1, <3>2
  <2> QED
      BY <2>1, <2>2
<1> QED
    BY <1>2, <1>3 DEF OnItsWay, Wanted

(* An operation takes the mutex of a descriptor and asks epoll. *)
LEMMA Begins ==
    ASSUME IInv, NEW a \in Actors, NEW fd \in Fds, NEW want \in SUBSET Event, NEW j \in Job,
           Free(fd), ~Busy(a), EpollCtl(fd, want), SetJob(a, j),
           j.fd = fd, ~j.owed, j.todo \in Todos,
           IF j.add # None
           THEN \E e \in Event \ events[fd] : j.todo = <<e>> /\ want = events[fd] \cup {e}
           ELSE want = events[fd] \ ToSet(j.todo) /\ j.todo # <<>>,
           UNCHANGED <<events, level, m_pendingEventCount, tickles, pc, main, m_stopping, idleTerm>>,
           InRun(a) \/ (a = Root /\ main = "up"),
           \A t \in Runners, f \in Fds \ {fd} : got'[t][f] = got[t][f]
    PROVE  /\ Locks' /\ Shapes' /\ FreeAgrees' /\ OnItsWay' /\ PendingAgrees' /\ Stages'
           /\ job' \in [Actors -> Job] /\ interest' \in [Fds -> SUBSET Event]
           /\ edge' \subseteq Fds /\ job[a].add = None /\ job'[a] = j
           /\ \A b \in Actors \ {a} : job'[b] = job[b] /\ job[b].fd # fd
<1>1. /\ job \in [Actors -> Job] /\ interest \in [Fds -> SUBSET Event] /\ edge \subseteq Fds
      /\ level \in [Fds -> SUBSET Conditions] /\ tickles \in [Actors -> Nat]
    BY DEF IInv, Agreement, TypeOK
<1>2. /\ job' \in [Actors -> Job] /\ job'[a] = j
      /\ \A b \in Actors \ {a} : job'[b] = job[b] /\ job[b].fd # fd
    BY <1>1 DEF SetJob, Free
<1>3. /\ interest' \in [Fds -> SUBSET Event] /\ interest'[fd] = want
      /\ \A f \in Fds \ {fd} : interest'[f] = interest[f]
      /\ edge' \subseteq Fds
    BY EpollKeeps
<1>4. job[a].fd = None /\ job[a].add = None /\ ~job[a].owed
    BY DEF IInv, Agreement, Shapes, Shape, Busy
<1>5. \A f \in Fds : f # None
    BY IOManagerAssumption
<1>6. Locks'
    BY <1>2 DEF IInv, Agreement, Locks
<1>7. Shapes'
  <2>1. Shape(a)'
      BY <1>2, <1>3, <1>5 DEF Shape, Todo
  <2>2. ASSUME NEW b \in Actors \ {a}
        PROVE  Shape(b)'
    <3>1. Shape(b) /\ job'[b] = job[b] /\ job[b].fd # fd /\ job[b].fd \in Fds \cup {None}
        BY <1>1, <1>2 DEF IInv, Agreement, Shapes, Job
    <3>2. job[b].fd # None => interest'[job[b].fd] = interest[job[b].fd]
        BY <1>3, <3>1
    <3> QED
        BY <3>1, <3>2 DEF Shape, Todo
  <2> QED
      BY <2>1, <2>2 DEF Shapes
<1>8. FreeAgrees'
    BY <1>2, <1>3, <1>4, <1>5 DEF IInv, Agreement, FreeAgrees, Free
<1>9. OnItsWay'
    BY EpollKeeps
<1>10. PendingAgrees'
  <2>1. Owing' = Owing /\ Registrations' = Registrations
      BY <1>2, <1>4 DEF Owing, Registrations
  <2> QED
      BY <2>1 DEF IInv, Agreement, PendingAgrees
<1>11. Stages'
  <2>1. /\ \A b \in Actors : job'[b].fd # None => InRun(b)' \/ (b = Root /\ main = "up")
        /\ \A b \in Actors : tickles[b] > 0 => InRun(b)' \/ (b = Root /\ main \in {"up", "call", "join"})
      BY <1>2 DEF IInv, Stages, InRun
  <2> QED
      BY <2>1 DEF IInv, Stages, PoolJoined
<1> QED
    BY <1>2, <1>3, <1>4, <1>6, <1>7, <1>8, <1>9, <1>10, <1>11

(* Whoever holds a mutex goes on under it, or releases it. *)
LEMMA GoesOn ==
    ASSUME IInv, NEW a \in Actors, NEW fd \in Fds, NEW j \in Job,
           job[a].fd = fd, SetJob(a, j), UNCHANGED interest,
           \A f \in Fds \ {fd} : events'[f] = events[f],
           j.fd = fd \/ (j.fd = None /\ interest[fd] = events'[fd]),
           job'[a] = j => Shape(a)'
    PROVE  /\ Locks' /\ Shapes' /\ FreeAgrees' /\ job' \in [Actors -> Job] /\ job'[a] = j
           /\ \A b \in Actors \ {a} : job'[b] = job[b] /\ job[b].fd # fd
<1>1. job \in [Actors -> Job] /\ \A f \in Fds : f # None
    BY IOManagerAssumption DEF IInv, Agreement, TypeOK
<1>2. /\ job' \in [Actors -> Job] /\ job'[a] = j
      /\ \A b \in Actors \ {a} : job'[b] = job[b] /\ job[b].fd # fd
    BY <1>1 DEF SetJob, IInv, Agreement, Locks
<1>3. Locks'
    BY <1>1, <1>2 DEF IInv, Agreement, Locks
<1>4. Shapes'
  <2>1. ASSUME NEW b \in Actors \ {a}
        PROVE  Shape(b)'
    <3>1. Shape(b) /\ job'[b] = job[b] /\ job[b].fd # fd /\ job[b].fd \in Fds \cup {None}
        BY <1>1, <1>2 DEF IInv, Agreement, Shapes, Job
    <3>2. job[b].fd # None => events'[job[b].fd] = events[job[b].fd]
        BY <3>1
    <3> QED
        BY <3>1, <3>2 DEF Shape, Todo
  <2> QED
      BY <1>2, <2>1 DEF Shapes
<1>5. FreeAgrees'
  <2>1. SUFFICES ASSUME NEW f \in Fds, Free(f)'
                 PROVE  interest[f] = events'[f]
      BY DEF FreeAgrees
  <2>2. CASE f = fd
      BY <1>2, <2>1, <2>2 DEF Free
  <2>3. CASE f # fd
    <3>1. Free(f)
        BY <1>2, <2>1, <2>3 DEF Free
    <3> QED
        BY <2>3, <3>1 DEF IInv, Agreement, FreeAgrees
  <2> QED
      BY <2>2, <2>3
<1> QED
    BY <1>2, <1>3, <1>4, <1>5

(* Registered events, and decrements that are owed, are counted. *)
LEMMA RegistrationsFinite == IsFiniteSet(Fds \X Event)
<1>1. Event = {"READ"} \cup {"WRITE"}
    BY DEF Event
<1>2. IsFiniteSet({"READ"} \cup {"WRITE"})
    BY FS_AddElement, FS_Singleton
<1> QED
    BY <1>1, <1>2, IOManagerAssumption, FS_Product

LEMMA RegistrationsMove ==
    ASSUME NEW fd \in Fds, NEW e \in Event,
           \A f \in Fds \ {fd} : events'[f] = events[f]
    PROVE  /\ Cardinality(Registrations) \in Nat
           /\ e \notin events[fd] /\ events'[fd] = events[fd] \cup {e} =>
                 Cardinality(Registrations') = Cardinality(Registrations) + 1
           /\ e \in events[fd] /\ events'[fd] = events[fd] \ {e} =>
                 Cardinality(Registrations') = Cardinality(Registrations) - 1
<1>1. IsFiniteSet(Registrations) /\ IsFiniteSet(Registrations')
    BY RegistrationsFinite, FS_Subset DEF Registrations
<1>2. CASE e \notin events[fd] /\ events'[fd] = events[fd] \cup {e}
  <2>1. <<fd, e>> \notin Registrations
      BY <1>2 DEF Registrations
  <2>2. Registrations' = Registrations \cup {<<fd, e>>}
    <3>1. ASSUME NEW f \in Fds, NEW d \in Event
          PROVE  <<f, d>> \in Registrations' <=> <<f, d>> \in Registrations \/ (f = fd /\ d = e)
        BY <1>2 DEF Registrations
    <3> QED
        BY <3>1 DEF Registrations
  <2> QED
      BY <1>1, <1>2, <2>1, <2>2, FS_AddElement, FS_CardinalityType
<1>3. CASE e \in events[fd] /\ events'[fd] = events[fd] \ {e}
  <2>1. <<fd, e>> \in Registrations
      BY <1>3 DEF Registrations
  <2>2. Registrations' = Registrations \ {<<fd, e>>}
    <3>1. ASSUME NEW f \in Fds, NEW d \in Event
          PROVE  <<f, d>> \in Registrations' <=> <<f, d>> \in Registrations /\ ~(f = fd /\ d = e)
        BY <1>3 DEF Registrations
    <3> QED
        BY <3>1 DEF Registrations
  <2> QED
      BY <1>1, <1>3, <2>1, <2>2, FS_RemoveElement, FS_CardinalityType
<1> QED
    BY <1>1, <1>2, <1>3, FS_CardinalityType

LEMMA OwingMoves ==
    ASSUME NEW a \in Actors, \A b \in Actors \ {a} : job'[b] = job[b]
    PROVE  /\ Cardinality(Owing) \in Nat
           /\ (job[a].owed <=> job'[a].owed) => Cardinality(Owing') = Cardinality(Owing)
           /\ ~job[a].owed /\ job'[a].owed => Cardinality(Owing') = Cardinality(Owing) + 1
           /\ job[a].owed /\ ~job'[a].owed => Cardinality(Owing') = Cardinality(Owing) - 1
<1>1. IsFiniteSet(Owing) /\ IsFiniteSet(Owing')
    BY RunnersFinite, FS_Subset DEF Owing
<1>2. CASE job[a].owed <=> job'[a].owed
  <2>1. Owing' = Owing
      BY <1>2 DEF Owing
  <2> QED
      BY <1>1, <1>2, <2>1, FS_CardinalityType
<1>3. CASE ~job[a].owed /\ job'[a].owed
  <2>1. Owing' = Owing \cup {a} /\ a \notin Owing
      BY <1>3 DEF Owing
  <2> QED
      BY <1>1, <1>3, <2>1, FS_AddElement, FS_CardinalityType
<1>4. CASE job[a].owed /\ ~job'[a].owed
  <2>1. Owing' = Owing \ {a} /\ a \in Owing
      BY <1>4 DEF Owing
  <2> QED
      BY <1>1, <1>4, <2>1, FS_RemoveElement, FS_CardinalityType
<1> QED
    BY <1>1, <1>2, <1>3, <1>4, FS_CardinalityType

(* No task changes its place. *)
LEMMA HomesStay ==
    ASSUME IInv, UNCHANGED <<m_fibers, ctx, task, born, ended, deleted>>,
           \A b \in Actors : job'[b].add = job[b].add
    PROVE  Homes'
<1>1. ASSUME NEW c \in Tasks
      PROVE  /\ Alive(c)' <=> Alive(c)
             /\ Listed(c)' <=> Listed(c)
             /\ Awaited(c)' <=> Awaited(c)
             /\ Offered(c)' <=> Offered(c)
             /\ Running(c)' <=> Running(c)
    BY DEF Alive, Listed, Awaited, Offered, Running
<1>2. ASSUME NEW c \in Tasks
      PROVE  ListedOnce(c)' /\ AwaitedOnce(c)' /\ OfferedOnce(c)' /\ RunningOnce(c)'
    BY DEF IInv, Homes, ListedOnce, AwaitedOnce, OfferedOnce, RunningOnce
<1>3. ASSUME NEW c \in Tasks
      PROVE  Home(c)'
    BY <1>1 DEF IInv, Homes, Home
<1> QED
    BY <1>2, <1>3 DEF IInv, Homes
(* schedule() puts a task at the end of the list. *)
LEMMA Appends ==
    ASSUME m_fibers \in Seq(Tasks), NEW c \in Tasks, m_fibers' = Append(m_fibers, c)
    PROVE  /\ m_fibers' \in Seq(Tasks) /\ Listed(c)'
           /\ \A d \in Tasks \ {c} : Listed(d)' <=> Listed(d)
           /\ \A d \in Tasks \ {c} : ListedOnce(d) => ListedOnce(d)'
           /\ ~Listed(c) => ListedOnce(c)'
<1>1. /\ DOMAIN m_fibers = 1 .. Len(m_fibers) /\ Len(m_fibers) \in Nat
      /\ DOMAIN m_fibers' = 1 .. Len(m_fibers) + 1
      /\ \A i \in DOMAIN m_fibers : m_fibers'[i] = m_fibers[i]
      /\ m_fibers'[Len(m_fibers) + 1] = c
      /\ m_fibers' \in Seq(Tasks)
    BY AppendProperties, LenProperties
<1>2. \A i \in DOMAIN m_fibers' : i \in DOMAIN m_fibers \/ m_fibers'[i] = c
    BY <1>1
<1>3. \A i \in DOMAIN m_fibers : i \in DOMAIN m_fibers'
    BY <1>1
<1>4. Listed(c)'
    BY <1>1 DEF Listed
<1>5. ASSUME NEW d \in Tasks \ {c}
      PROVE  /\ Listed(d)' <=> Listed(d)
             /\ ListedOnce(d) => ListedOnce(d)'
    BY <1>1, <1>2, <1>3 DEF Listed, ListedOnce
<1>6. ~Listed(c) => ListedOnce(c)'
  <2>1. SUFFICES ASSUME ~Listed(c), NEW i \in DOMAIN m_fibers', NEW j \in DOMAIN m_fibers',
                        m_fibers'[i] = c, m_fibers'[j] = c
                 PROVE  i = j
      BY DEF ListedOnce
  <2>2. i = Len(m_fibers) + 1 /\ j = Len(m_fibers) + 1
      BY <1>1, <2>1 DEF Listed
  <2> QED
      BY <2>2
<1> QED
    BY <1>1, <1>4, <1>5, <1>6

(* run() takes the first task of the list. *)
LEMMA TakesFirst ==
    ASSUME m_fibers \in Seq(Tasks), m_fibers # <<>>, m_fibers' = Tail(m_fibers),
           ListedOnce(Head(m_fibers))
    PROVE  /\ m_fibers' \in Seq(Tasks) /\ Head(m_fibers) \in Tasks
           /\ Listed(Head(m_fibers)) /\ ~\E i \in DOMAIN m_fibers' : m_fibers'[i] = Head(m_fibers)
           /\ \A d \in Tasks \ {Head(m_fibers)} : Listed(d)' <=> Listed(d)
           /\ \A d \in Tasks : ListedOnce(d) => ListedOnce(d)'
<1>1. /\ DOMAIN m_fibers = 1 .. Len(m_fibers) /\ Len(m_fibers) \in Nat \ {0}
      /\ DOMAIN m_fibers' = 1 .. Len(m_fibers) - 1
      /\ \A i \in DOMAIN m_fibers' : m_fibers'[i] = m_fibers[i + 1]
      /\ m_fibers' \in Seq(Tasks) /\ Head(m_fibers) = m_fibers[1] /\ Head(m_fibers) \in Tasks
    BY HeadTailProperties, LenProperties, EmptySeq
<1>2. \A i \in DOMAIN m_fibers' : i + 1 \in DOMAIN m_fibers /\ i + 1 # 1 /\ i \in Nat
    BY <1>1
<1>3. \A i \in DOMAIN m_fibers : i = 1 \/ (i - 1 \in DOMAIN m_fibers' /\ (i - 1) + 1 = i)
    BY <1>1
<1>4. 1 \in DOMAIN m_fibers
    BY <1>1
<1>5. Listed(Head(m_fibers))
    BY <1>1, <1>4 DEF Listed
<1>6. ~\E i \in DOMAIN m_fibers' : m_fibers'[i] = Head(m_fibers)
    BY <1>1, <1>2, <1>4 DEF ListedOnce
<1>7. ASSUME NEW d \in Tasks \ {Head(m_fibers)}
      PROVE  Listed(d)' <=> Listed(d)
  <2>1. ASSUME NEW i \in DOMAIN m_fibers, m_fibers[i] = d
        PROVE  i - 1 \in DOMAIN m_fibers' /\ m_fibers'[i - 1] = d
      BY <1>1, <1>3, <1>7, <2>1
  <2>2. Listed(d) => Listed(d)'
      BY <2>1 DEF Listed
  <2>3. Listed(d)' => Listed(d)
      BY <1>1, <1>2 DEF Listed
  <2> QED
      BY <2>2, <2>3
<1>8. ASSUME NEW d \in Tasks, ListedOnce(d)
      PROVE  ListedOnce(d)'
  <2>1. SUFFICES ASSUME NEW i \in DOMAIN m_fibers', NEW j \in DOMAIN m_fibers',
                        m_fibers'[i] = d, m_fibers'[j] = d
                 PROVE  i = j
      BY DEF ListedOnce
  <2>2. i + 1 = j + 1
      BY <1>1, <1>2, <1>8, <2>1 DEF ListedOnce
  <2> QED
      BY <1>2, <2>2
<1> QED
    BY <1>1, <1>5, <1>6, <1>7, <1>8

(* Who can schedule a task is a thread that is in run(), or Root before it  *)
(* calls stop(); then nobody has left run().                                *)
LEMMA SomeoneIsThere ==
    ASSUME IInv, NEW a \in Actors, InRun(a) \/ (a = Root /\ main = "up")
    PROVE  \E t \in Runners : ~Gone(t)
<1>1. CASE InRun(a)
    BY <1>1 DEF InRun, Gone
<1>2. CASE main = "up"
    BY <1>2, IOManagerAssumption DEF IInv, Stages, Gone
<1> QED
    BY <1>1, <1>2

LEMMA CallersAreThere ==
    ASSUME NEW a \in Actors, MayCall(a)
    PROVE  ~Busy(a) /\ (InRun(a) \/ (a = Root /\ main = "up"))
    BY DEF MayCall, InRun

-----------------------------------------------------------------------------
(* The kernel *)

LEMMA KernelKeeps ==
    ASSUME IInv, Kernel
    PROVE  IInv'
<1>1. PICK fd \in Fds, cond \in Conditions : Arises(fd, cond) \/ Subsides(fd, cond)
    BY DEF Kernel
<1>2. UNCHANGED <<m_fibers, m_activeThreadCount, m_idleThreadCount, m_stopping, m_autoStop, main,
                  events, ctx, m_pendingEventCount, interest, pc, idleTerm, task, got, gotPipe,
                  job, tickles, born, ended, deleted, stale, failed, pipe, pipeEdge>>
    BY <1>1 DEF Arises, Subsides, schedVars, stopVars, fdVars, runVars, callVars, histVars
<1>3. level \in [Fds -> SUBSET Conditions] /\ edge \subseteq Fds
      /\ interest \in [Fds -> SUBSET Event]
    BY DEF IInv, Agreement, TypeOK
<1>4. level' \in [Fds -> SUBSET Conditions] /\ edge' \subseteq Fds
    BY <1>1, <1>3 DEF Arises, Subsides
<1>5. OnItsWay'
  <2>1. SUFFICES ASSUME NEW f \in Fds \ Refused, NEW e \in interest[f], Wanted(e) \in level'[f]
                 PROVE  f \in edge' \/ \E t \in Runners : Wanted(e) \in got[t][f]
      BY <1>2 DEF OnItsWay, Wanted
  <2>2. Wanted(e) \in level[f] => f \in edge \/ \E t \in Runners : Wanted(e) \in got[t][f]
      BY DEF IInv, Agreement, OnItsWay
  <2>3. CASE Arises(fd, cond)
    <3>1. edge \subseteq edge'
        BY <2>3 DEF Arises
    <3>2. Wanted(e) \in level[f] \/ (f = fd /\ Wanted(e) = cond)
        BY <1>3, <2>1, <2>3 DEF Arises
    <3>3. f = fd /\ Wanted(e) = cond => cond \in Reports(interest[fd], {cond})
        BY <1>3 DEF Reports
    <3>4. f = fd /\ Wanted(e) = cond => f \in edge'
        BY <2>3, <3>3 DEF Arises
    <3> QED
        BY <2>2, <3>1, <3>2, <3>4
  <2>4. CASE Subsides(fd, cond)
    <3>1. edge' = edge /\ Wanted(e) \in level[f]
        BY <1>3, <2>1, <2>4 DEF Subsides
    <3> QED
        BY <2>2, <3>1
  <2> QED
      BY <1>1, <2>3, <2>4
<1>6. TypeOK'
    BY <1>2, <1>4 DEF IInv, Agreement, TypeOK
<1>7. \A f \in Fds : HungUp(f) => HungUp(f)'
    BY <1>1, <1>3 DEF Arises, Subsides, HungUp
<1>8. Triggers'
    BY <1>2, <1>7, TriggersStay
<1> QED
    BY <1>2, <1>5, <1>6, <1>8, Frames DEF IInv, Agreement

-----------------------------------------------------------------------------
(* What the program does *)

LEMMA TickleKeeps ==
    ASSUME IInv, NEW a \in Actors, Tickle(a)
    PROVE  IInv'
<1>1. UNCHANGED <<m_fibers, m_activeThreadCount, m_idleThreadCount, m_stopping, m_autoStop, main,
                  events, ctx, m_pendingEventCount, interest, level, edge, pc, idleTerm, task, got,
                  gotPipe, job, born, ended, deleted, stale, failed>>
    BY DEF Tickle, schedVars, stopVars, fdVars, runVars, histVars
<1>2. /\ tickles' \in [Actors -> Nat] /\ pipe' \in BOOLEAN /\ pipeEdge' \in BOOLEAN
      /\ \A b \in Actors : tickles'[b] > 0 => tickles[b] > 0
  <2>1. tickles \in [Actors -> Nat] /\ pipe \in BOOLEAN /\ pipeEdge \in BOOLEAN
      BY DEF IInv, Agreement, TypeOK
  <2>2. pipe' \in BOOLEAN /\ pipeEdge' \in BOOLEAN
      BY <2>1 DEF Tickle
  <2>3. tickles[a] - 1 \in Nat /\ tickles' = [tickles EXCEPT ![a] = tickles[a] - 1] /\ tickles[a] > 0
      BY <2>1 DEF Tickle
  <2>4. tickles' \in [Actors -> Nat] /\ tickles'[a] = tickles[a] - 1
        /\ \A b \in Actors \ {a} : tickles'[b] = tickles[b]
      BY <2>1, <2>3
  <2> QED
      BY <2>1, <2>2, <2>3, <2>4
<1>3. Stages'
  <2>1. main # "stopped" \/ tickles'[Root] = 0
    <3>1. Root \in Actors
        BY DEF Actors
    <3>2. main = "stopped" => tickles[Root] = 0
        BY DEF IInv, Stages
    <3>3. tickles'[Root] \in Nat /\ (tickles'[Root] > 0 => tickles[Root] > 0)
        BY <1>2, <3>1
    <3> QED
        BY <3>2, <3>3
  <2> QED
      BY <1>1, <1>2, <2>1 DEF IInv, Stages, InRun, PoolJoined
<1>4. TypeOK'
    BY <1>1, <1>2 DEF IInv, Agreement, TypeOK
<1> QED
    BY <1>1, <1>3, <1>4, Frames DEF IInv, Agreement

LEMMA ScheduleTaskKeeps ==
    ASSUME IInv, NEW a \in Actors, ScheduleTask(a)
    PROVE  IInv'
<1>1. PICK c \in Tasks \ born : Schedule(a, c) /\ born' = born \cup {c}
    BY DEF ScheduleTask
<1>2. UNCHANGED <<m_activeThreadCount, m_idleThreadCount, m_stopping, m_autoStop, main,
                  events, ctx, m_pendingEventCount, interest, level, edge, pipe, pipeEdge, pc,
                  idleTerm, task, got, gotPipe, job, ended, deleted, stale, failed>>
    BY DEF ScheduleTask, stopVars, fdVars, kernVars, runVars
<1>3. m_fibers \in Seq(Tasks) /\ m_fibers' = Append(m_fibers, c)
    BY <1>1 DEF IInv, Agreement, TypeOK, Schedule
<1>4. InRun(a) \/ (a = Root /\ main = "up")
    BY CallersAreThere DEF ScheduleTask
<1>5. /\ tickles' \in [Actors -> Nat]
      /\ \A b \in Actors \ {a} : tickles'[b] = tickles[b]
    BY <1>1 DEF IInv, Agreement, TypeOK, Schedule
<1>6. Homes'
  <2>1. ~Alive(c) /\ ~Listed(c) /\ ~Awaited(c) /\ ~Offered(c) /\ ~Running(c)
      BY <1>1 DEF IInv, Homes, Home, Alive
  <2>2. Alive(c)' /\ Listed(c)' /\ ~Awaited(c)' /\ ~Offered(c)' /\ ~Running(c)'
      BY <1>1, <1>2, <1>3, <2>1, Appends DEF IInv, Homes, Alive, Awaited, Offered, Running
  <2>3. \A d \in Tasks \ {c} :
           /\ Alive(d)' <=> Alive(d)
           /\ Listed(d)' <=> Listed(d)
           /\ Awaited(d)' <=> Awaited(d)
           /\ Offered(d)' <=> Offered(d)
           /\ Running(d)' <=> Running(d)
      BY <1>1, <1>2, <1>3, Appends DEF Alive, Awaited, Offered, Running
  <2>4. \A d \in Tasks : Home(d)'
      BY <2>2, <2>3 DEF IInv, Homes, Home
  <2>5. \A d \in Tasks : ListedOnce(d)'
      BY <1>3, <2>1, Appends DEF IInv, Homes
  <2>6. \A d \in Tasks : AwaitedOnce(d)' /\ OfferedOnce(d)' /\ RunningOnce(d)'
      BY <1>2 DEF IInv, Homes, AwaitedOnce, OfferedOnce, RunningOnce
  <2> QED
      BY <1>1, <1>2, <2>4, <2>5, <2>6 DEF IInv, Homes
<1>7. Stages'
  <2>1. main # "stopped" \/ tickles'[Root] = 0
      BY <1>4, <1>5 DEF IInv, Stages, InRun, PoolJoined, Actors, Runners
  <2>2. \A b \in Actors : tickles'[b] > 0 =>
                             InRun(b) \/ (b = Root /\ main \in {"up", "call", "join"})
      BY <1>4, <1>5 DEF IInv, Stages
  <2> QED
      BY <1>2, <2>1, <2>2 DEF IInv, Stages, InRun, PoolJoined
<1>8. TakerLeft'
    BY <1>2, <1>4, SomeoneIsThere DEF TakerLeft, Gone
<1>9. TypeOK'
    BY <1>1, <1>2, <1>3, <1>5, Appends DEF IInv, Agreement, TypeOK
<1> QED
    BY <1>2, <1>6, <1>7, <1>8, <1>9, Frames DEF IInv, Agreement

LEMMA AddEventKeeps ==
    ASSUME IInv, NEW a \in Actors, AddEvent(a)
    PROVE  IInv'
<1>1. PICK fd \in Fds, c \in Tasks \ born : \E e \in EventsOf[fd] \ events[fd] :
          /\ Free(fd)
          /\ EpollCtl(fd, With(fd, e))
          /\ SetJob(a, [Work(fd, <<e>>) EXCEPT !.add = c])
          /\ born' = born \cup {c}
    BY DEF AddEvent
<1>2. PICK e \in EventsOf[fd] \ events[fd] :
          /\ Free(fd)
          /\ EpollCtl(fd, With(fd, e))
          /\ SetJob(a, [Work(fd, <<e>>) EXCEPT !.add = c])
          /\ born' = born \cup {c}
    BY <1>1
<1>3. UNCHANGED <<m_fibers, m_activeThreadCount, m_idleThreadCount, m_stopping, m_autoStop, main,
                  events, ctx, m_pendingEventCount, level, pipe, pipeEdge, pc, idleTerm, task, got,
                  gotPipe, tickles, ended, deleted, stale, failed>>
    BY DEF AddEvent, schedVars, stopVars, fdVars, runVars
<1>4. e \in Event /\ events[fd] \in SUBSET Event
    BY IOManagerAssumption DEF IInv, Agreement, TypeOK
<1>5. c # None /\ \A d \in Tasks : d # None
    BY IOManagerAssumption
<1> DEFINE j == [Work(fd, <<e>>) EXCEPT !.add = c]
<1>6. /\ j \in Job /\ j.fd = fd /\ j.todo = <<e>> /\ j.add = c /\ ~j.owed
      /\ j.todo \in Todos /\ ToSet(j.todo) = {e}
    BY <1>4, TodoSets DEF Work, NoJob, Job
<1>7. InRun(a) \/ (a = Root /\ main = "up")
    BY CallersAreThere DEF AddEvent, MayAdd
<1>8. ~Busy(a)
    BY CallersAreThere DEF AddEvent, MayAdd
<1>9. With(fd, e) \in SUBSET Event /\ With(fd, e) = events[fd] \cup {e}
    BY <1>4 DEF With
<1>10. SetJob(a, j)
    BY <1>2
<1> HIDE DEF j
<1>11. IF j.add # None
       THEN \E d \in Event \ events[fd] : j.todo = <<d>> /\ With(fd, e) = events[fd] \cup {d}
       ELSE With(fd, e) = events[fd] \ ToSet(j.todo) /\ j.todo # <<>>
    BY <1>2, <1>4, <1>5, <1>6, <1>9
<1>12. /\ Locks' /\ Shapes' /\ FreeAgrees' /\ OnItsWay' /\ PendingAgrees' /\ Stages'
       /\ job' \in [Actors -> Job] /\ interest' \in [Fds -> SUBSET Event]
       /\ edge' \subseteq Fds /\ job[a].add = None /\ job'[a] = j
       /\ \A b \in Actors \ {a} : job'[b] = job[b] /\ job[b].fd # fd
    BY <1>2, <1>3, <1>6, <1>7, <1>8, <1>9, <1>10, <1>11, Begins
<1>13. Homes'
  <2>1. ~Alive(c) /\ ~Listed(c) /\ ~Awaited(c) /\ ~Offered(c) /\ ~Running(c)
      BY <1>1 DEF IInv, Homes, Home, Alive
  <2>2. Alive(c)' /\ ~Listed(c)' /\ ~Awaited(c)' /\ Offered(c)' /\ ~Running(c)'
      BY <1>1, <1>3, <1>6, <1>12, <2>1 DEF IInv, Homes, Alive, Listed, Awaited, Offered, Running
  <2>3. \A d \in Tasks \ {c} :
           /\ Alive(d)' <=> Alive(d)
           /\ Listed(d)' <=> Listed(d)
           /\ Awaited(d)' <=> Awaited(d)
           /\ Offered(d)' <=> Offered(d)
           /\ Running(d)' <=> Running(d)
    <3>1. \A d \in Tasks \ {c}, b \in Actors : job'[b].add = d <=> job[b].add = d
        BY <1>5, <1>6, <1>12
    <3> QED
        BY <1>1, <1>3, <3>1 DEF Alive, Listed, Awaited, Offered, Running
  <2>4. \A d \in Tasks : Home(d)'
      BY <2>2, <2>3 DEF IInv, Homes, Home
  <2>5. \A d \in Tasks : OfferedOnce(d)'
    <3>1. \A b \in Actors \ {a} : job'[b].add # c
        BY <1>12, <2>1 DEF Offered
    <3>2. \A d \in Tasks \ {c}, b \in Actors : job'[b].add = d <=> job[b].add = d
        BY <1>5, <1>6, <1>12
    <3> QED
        BY <3>1, <3>2 DEF IInv, Homes, OfferedOnce
  <2>6. \A d \in Tasks : AwaitedOnce(d)' /\ ListedOnce(d)' /\ RunningOnce(d)'
      BY <1>3 DEF IInv, Homes, AwaitedOnce, ListedOnce, RunningOnce
  <2> QED
      BY <1>1, <1>3, <2>4, <2>5, <2>6 DEF IInv, Homes
<1>14. Triggers'
  <2>1. \A f \in Fds : Known(f) \subseteq Known(f)'
    <3>1. ASSUME NEW f \in Fds
          PROVE  Known(f) \ {} \subseteq Known(f)'
      <4>1. \A b \in Actors : Adds(b, f) => job'[b] = job[b]
          BY <1>12 DEF Adds
      <4> QED
          BY <1>3, <4>1, KnownStays
    <3> QED
        BY <3>1
  <2>2. Reported'
      BY <1>3, <2>1, ReportedStays DEF HungUp
  <2>3. Handles(a)'
      BY <1>5, <1>6, <1>12 DEF Handles
  <2>4. Handled'
      BY <1>3, <1>12, <2>3, HandledStays DEF HungUp
  <2> QED
      BY <2>2, <2>4 DEF Triggers
<1>15. TypeOK'
    BY <1>1, <1>3, <1>12 DEF IInv, Agreement, TypeOK
<1> QED
    BY <1>3, <1>12, <1>13, <1>14, <1>15, Frames DEF IInv, Agreement

LEMMA AddEventTwiceKeeps ==
    ASSUME IInv, NEW a \in Actors, AddEventTwice(a)
    PROVE  IInv'
<1>1. UNCHANGED <<m_fibers, m_activeThreadCount, m_idleThreadCount, m_stopping, m_autoStop, main,
                  events, ctx, m_pendingEventCount, interest, level, edge, pipe, pipeEdge, pc,
                  idleTerm, task, got, gotPipe, job, tickles, born, ended, deleted, stale>>
      /\ failed' = "addEvent"
    BY DEF AddEventTwice, schedVars, stopVars, fdVars, kernVars, runVars, callVars
<1>2. TypeOK'
    BY <1>1 DEF IInv, Agreement, TypeOK
<1> QED
    BY <1>1, <1>2, Frames DEF IInv, Agreement

(* Events of a descriptor are going to be triggered. *)
LEMMA Cancels ==
    ASSUME IInv, NEW a \in Actors, NEW fd \in Fds, NEW s \in Todos,
           s # <<>>, Free(fd), ~Busy(a), EpollCtl(fd, events[fd] \ ToSet(s)),
           SetJob(a, Work(fd, s)),
           InRun(a) \/ (a = Root /\ main = "up"),
           UNCHANGED <<schedVars, stopVars, fdVars, level, pipe, pipeEdge, pc, idleTerm, task,
                       gotPipe, tickles, histVars>>,
           got' \in [Runners -> [Fds -> SUBSET Conditions]],
           \A t \in Runners, f \in Fds \ {fd} : got'[t][f] = got[t][f],
           \A t \in Runners : got'[t][fd] = got[t][fd] \/ got'[t][fd] = {},
           \/ ToSet(s) \subseteq events[fd]
           \/ a \in Runners /\ pc[a] = "events" /\ (fd \in stale[a] \/ HungUp(fd))
    PROVE  IInv'
<1> DEFINE j == Work(fd, s)
           want == events[fd] \ ToSet(s)
<1>1. UNCHANGED <<m_fibers, m_activeThreadCount, m_idleThreadCount, m_stopping, m_autoStop, main,
                  events, ctx, m_pendingEventCount, born, ended, deleted, stale, failed>>
    BY DEF schedVars, stopVars, fdVars, histVars
<1>2. /\ j \in Job /\ j.fd = fd /\ j.todo = s /\ j.add = None /\ ~j.owed
    BY TodoSets DEF Work, NoJob, Job
<1>3. want \in SUBSET Event
    BY DEF IInv, Agreement, TypeOK
<1>4. SetJob(a, j) /\ EpollCtl(fd, want) /\ want = events[fd] \ ToSet(j.todo)
    BY <1>2
<1> HIDE DEF j, want
<1>5. /\ Locks' /\ Shapes' /\ FreeAgrees' /\ OnItsWay' /\ PendingAgrees' /\ Stages'
      /\ job' \in [Actors -> Job] /\ interest' \in [Fds -> SUBSET Event]
      /\ edge' \subseteq Fds /\ job[a].add = None /\ job'[a] = j
      /\ \A b \in Actors \ {a} : job'[b] = job[b] /\ job[b].fd # fd
    BY <1>1, <1>2, <1>3, <1>4, Begins
<1>6. Homes'
    BY <1>1, <1>2, <1>5, HomesStay
<1>7. Locals'
  <2>1. \A t \in Runners, f \in Fds : got[t][f] = {} => got'[t][f] = {}
      BY DEF IInv, Agreement, TypeOK
  <2> QED
      BY <2>1 DEF IInv, Agreement, Locals
<1>8. Triggers'
  <2>1. \A f \in Fds : Known(f) \subseteq Known(f)'
    <3>1. ASSUME NEW f \in Fds
          PROVE  Known(f) \ {} \subseteq Known(f)'
      <4>1. \A b \in Actors : Adds(b, f) => job'[b] = job[b]
          BY <1>5 DEF Adds
      <4> QED
          BY <1>1, <4>1, KnownStays
    <3> QED
        BY <3>1
  <2>2. \A t \in Runners, f \in Fds : got'[t][f] = got[t][f] \/ got'[t][f] = {}
      OBVIOUS
  <2>3. UNCHANGED <<level, stale, pc>>
      BY DEF histVars
  <2>4. Reported'
      BY <2>1, <2>2, <2>3, ReportedStays DEF HungUp
  <2>5. Handles(a)'
      BY <1>1, <1>2, <1>5, <2>3 DEF Handles, Todo, HungUp
  <2>6. Handled'
      BY <1>1, <1>5, <2>3, <2>5, HandledStays DEF HungUp
  <2> QED
      BY <2>4, <2>6 DEF Triggers
<1>9. TypeOK'
    BY <1>1, <1>5 DEF IInv, Agreement, TypeOK
<1> QED
    BY <1>1, <1>5, <1>6, <1>7, <1>8, <1>9, Frames DEF IInv, Agreement

LEMMA CancelKeeps ==
    ASSUME IInv, NEW a \in Actors, CancelEvent(a) \/ CancelAll(a)
    PROVE  IInv'
<1>1. ~Busy(a) /\ (InRun(a) \/ (a = Root /\ main = "up"))
    BY CallersAreThere DEF CancelEvent, CancelAll
<1>2. UNCHANGED <<schedVars, stopVars, fdVars, level, pipe, pipeEdge, pc, idleTerm, task,
                  gotPipe, got, tickles, histVars>>
    BY DEF CancelEvent, CancelAll, runVars
<1>3. /\ got \in [Runners -> [Fds -> SUBSET Conditions]]
      /\ events \in [Fds -> SUBSET Event]
    BY DEF IInv, Agreement, TypeOK
<1>4. CASE CancelEvent(a)
  <2>1. PICK fd \in Fds : \E e \in events[fd] :
           Free(fd) /\ EpollCtl(fd, Without(fd, e)) /\ SetJob(a, Work(fd, <<e>>))
      BY <1>4 DEF CancelEvent
  <2>2. PICK e \in events[fd] :
           Free(fd) /\ EpollCtl(fd, Without(fd, e)) /\ SetJob(a, Work(fd, <<e>>))
      BY <2>1
  <2>3. <<e>> \in Todos /\ <<e>> # <<>> /\ ToSet(<<e>>) = {e}
      BY <1>3, TodoSets
  <2>4. EpollCtl(fd, events[fd] \ ToSet(<<e>>)) /\ ToSet(<<e>>) \subseteq events[fd]
      BY <2>2, <2>3 DEF Without
  <2> QED
      BY <1>1, <1>2, <1>3, <2>2, <2>3, <2>4, Cancels
<1>5. CASE CancelAll(a)
  <2>1. PICK fd \in Fds : /\ events[fd] # {} /\ Free(fd) /\ EpollCtl(fd, {})
                          /\ SetJob(a, Work(fd, ReadThenWrite(events[fd])))
      BY <1>5 DEF CancelAll
  <2>2. /\ ReadThenWrite(events[fd]) \in Todos
        /\ ToSet(ReadThenWrite(events[fd])) = events[fd]
        /\ ReadThenWrite(events[fd]) # <<>>
      BY <1>3, <2>1, ReadThenWriteOf, TodoSets
  <2>3. EpollCtl(fd, events[fd] \ ToSet(ReadThenWrite(events[fd])))
      BY <2>1, <2>2
  <2> QED
      BY <1>1, <1>2, <1>3, <2>1, <2>2, <2>3, Cancels
<1> QED
    BY <1>4, <1>5

(* idle() takes up what epoll reported of one descriptor. *)
LEMMA HandleFdKeeps ==
    ASSUME IInv, NEW t \in Runners, HandleFd(t)
    PROVE  IInv'
<1>1. PICK fd \in Fds :
          /\ got[t][fd] # {}
          /\ Free(fd)
          /\ got' = [got EXCEPT ![t][fd] = {}]
          /\ \/ /\ events[fd] \cap RealEvents(got[t][fd]) # {}
                /\ EpollCtl(fd, events[fd] \ RealEvents(got[t][fd]))
                /\ SetJob(t, Work(fd, ReadThenWrite(RealEvents(got[t][fd]))))
             \/ /\ events[fd] \cap RealEvents(got[t][fd]) = {} \/ fd \in Refused
                /\ UNCHANGED <<interest, edge, job>>
    BY DEF HandleFd
<1>2. /\ UNCHANGED <<schedVars, stopVars, fdVars, level, pipe, pipeEdge, pc, idleTerm, task,
                     gotPipe, tickles, histVars>>
      /\ pc[t] = "events" /\ ~Busy(t) /\ t \in Actors
    BY DEF HandleFd, Runners, Actors
<1>3. /\ got \in [Runners -> [Fds -> SUBSET Conditions]]
      /\ events \in [Fds -> SUBSET Event]
      /\ level \in [Fds -> SUBSET Conditions]
      /\ interest \in [Fds -> SUBSET Event]
    BY DEF IInv, Agreement, TypeOK
<1>4. /\ got' \in [Runners -> [Fds -> SUBSET Conditions]]
      /\ got'[t][fd] = {}
      /\ \A u \in Runners, f \in Fds : u # t \/ f # fd => got'[u][f] = got[u][f]
    BY <1>1, <1>3
<1> DEFINE real == RealEvents(got[t][fd])
<1>5. real \in SUBSET Event /\ real = {e \in Event : Wanted(e) \in got[t][fd] \/ "HUP" \in got[t][fd]}
    BY DEF RealEvents
<1> HIDE DEF real
<1>6. ASSUME events[fd] \cap real = {} \/ fd \in Refused, UNCHANGED <<interest, edge, job>>
      PROVE  IInv'
  <2>1. UNCHANGED <<m_fibers, m_activeThreadCount, m_idleThreadCount, m_stopping, m_autoStop, main,
                    events, ctx, m_pendingEventCount, level, pc, idleTerm, task, pipe, pipeEdge,
                    gotPipe, tickles, born, ended, deleted, stale, failed, interest, edge, job>>
      BY <1>1, <1>2, <1>6 DEF schedVars, stopVars, fdVars, histVars, real
  <2>2. OnItsWay'
    <3>1. SUFFICES ASSUME NEW f \in Fds \ Refused, NEW e \in interest[f], Wanted(e) \in level[f]
                   PROVE  f \in edge \/ \E u \in Runners : Wanted(e) \in got'[u][f]
        BY <2>1 DEF OnItsWay, Wanted
    <3>2. f \in edge \/ \E u \in Runners : Wanted(e) \in got[u][f]
        BY <3>1 DEF IInv, Agreement, OnItsWay
    <3>3. f = fd => e \in events[fd]
        BY <1>1 DEF IInv, Agreement, FreeAgrees
    <3>4. f = fd => Wanted(e) \notin got[t][fd]
        BY <1>3, <1>5, <1>6, <3>3
    <3> QED
        BY <1>4, <3>2, <3>4
  <2>3. Locals'
      BY <1>2, <1>4, <2>1 DEF IInv, Agreement, Locals
  <2>4. Triggers'
    <3>1. \A u \in Runners, f \in Fds : got'[u][f] = got[u][f] \/ got'[u][f] = {}
        BY <1>4
    <3> QED
        BY <2>1, <3>1, TriggersStay DEF HungUp
  <2>5. TypeOK'
      BY <1>4, <2>1 DEF IInv, Agreement, TypeOK
  <2> QED
      BY <2>1, <2>2, <2>3, <2>4, <2>5, Frames DEF IInv, Agreement
<1>7. ASSUME events[fd] \cap real # {}, EpollCtl(fd, events[fd] \ real),
             SetJob(t, Work(fd, ReadThenWrite(real)))
      PROVE  IInv'
  <2> DEFINE s == ReadThenWrite(real)
  <2>1. s \in Todos /\ ToSet(s) = real
      BY <1>5, ReadThenWriteOf
  <2>2. SetJob(t, Work(fd, s)) /\ EpollCtl(fd, events[fd] \ real)
      BY <1>7
  <2> HIDE DEF s
  <2>3. s # <<>> /\ EpollCtl(fd, events[fd] \ ToSet(s))
      BY <1>7, <2>1, <2>2, TodoSets
  <2>4. ToSet(s) \subseteq events[fd] \/ fd \in stale[t] \/ HungUp(fd)
    <3>1. Known(fd) = events[fd]
        BY <1>1, KnownEvents
    <3>2. fd \in stale[t] \/ HungUp(fd) \/ real \subseteq Known(fd)
        BY DEF IInv, Triggers, Reported, real
    <3> QED
        BY <2>1, <3>1, <3>2
  <2>5. InRun(t)
      BY <1>2 DEF InRun
  <2> QED
      BY <1>1, <1>2, <1>4, <2>1, <2>2, <2>3, <2>4, <2>5, Cancels
<1> QED
    BY <1>1, <1>6, <1>7 DEF real

LEMMA DelEventKeeps ==
    ASSUME IInv, NEW a \in Actors, DelEvent(a)
    PROVE  IInv'
<1>1. PICK fd \in Fds : \E e \in events[fd] :
          /\ Free(fd)
          /\ EpollCtl(fd, Without(fd, e))
          /\ CountDown
          /\ ClearEvent(fd, e)
          /\ ClearCtx(fd, e)
          /\ deleted' = deleted \cup {ctx[fd][e]}
          /\ Outdate(fd, e)
    BY DEF DelEvent
<1>2. PICK e \in events[fd] :
          /\ Free(fd)
          /\ EpollCtl(fd, Without(fd, e))
          /\ CountDown
          /\ ClearEvent(fd, e)
          /\ ClearCtx(fd, e)
          /\ deleted' = deleted \cup {ctx[fd][e]}
          /\ Outdate(fd, e)
    BY <1>1
<1>3. UNCHANGED <<m_fibers, m_activeThreadCount, m_idleThreadCount, m_stopping, m_autoStop, main,
                  level, pipe, pipeEdge, pc, idleTerm, task, got, gotPipe, job, tickles, born, ended,
                  failed>>
    BY DEF DelEvent, schedVars, stopVars, runVars, callVars
<1>4. /\ events \in [Fds -> SUBSET Event]
      /\ ctx \in [Fds -> [Event -> Tasks \cup {None}]]
    BY DEF IInv, Agreement, TypeOK
<1>5. e \in Event
    BY <1>4
<1>6. /\ events' \in [Fds -> SUBSET Event] /\ events'[fd] = events[fd] \ {e}
      /\ \A f \in Fds \ {fd} : events'[f] = events[f]
    BY <1>2, <1>4 DEF ClearEvent
<1>7. /\ ctx' \in [Fds -> [Event -> Tasks \cup {None}]] /\ ctx'[fd][e] = None
      /\ \A f \in Fds, d \in Event : f # fd \/ d # e => ctx'[f][d] = ctx[f][d]
    BY <1>2, <1>4, <1>5 DEF ClearCtx
<1>8. PICK c \in Tasks : c = ctx[fd][e] /\ c # None
    BY <1>4, <1>5 DEF IInv, Agreement, EventHasTask
<1>9. Without(fd, e) \in SUBSET Event /\ Without(fd, e) = events[fd] \ {e}
    BY <1>4 DEF Without
<1>10. /\ OnItsWay' /\ interest' \in [Fds -> SUBSET Event] /\ edge' \subseteq Fds
       /\ interest'[fd] = events[fd] \ {e}
       /\ \A f \in Fds \ {fd} : interest'[f] = interest[f]
    BY <1>2, <1>3, <1>9, EpollKeeps
<1>11. \A b \in Actors : job[b].fd # fd
    BY <1>2 DEF Free
<1>12. Shapes'
  <2>1. ASSUME NEW b \in Actors
        PROVE  Shape(b)'
    <3>1. Shape(b) /\ job[b].fd # fd /\ job[b].fd \in Fds \cup {None}
        BY <1>11 DEF IInv, Agreement, Shapes, TypeOK, Job
    <3>2. job[b].fd # None => /\ events'[job[b].fd] = events[job[b].fd]
                              /\ interest'[job[b].fd] = interest[job[b].fd]
        BY <1>6, <1>10, <3>1
    <3> QED
        BY <1>3, <3>1, <3>2 DEF Shape, Todo
  <2> QED
      BY <2>1 DEF Shapes
<1>13. FreeAgrees'
    BY <1>3, <1>6, <1>10 DEF IInv, Agreement, FreeAgrees, Free
<1>14. EventHasTask'
    BY <1>6, <1>7 DEF IInv, Agreement, EventHasTask
<1>15. PendingAgrees' /\ m_pendingEventCount' \in Nat
  <2>1. Owing' = Owing
      BY <1>3 DEF Owing
  <2>2. Cardinality(Registrations') = Cardinality(Registrations) - 1
      BY <1>2, <1>5, <1>6, RegistrationsMove
  <2>3. Cardinality(Registrations) \in Nat /\ Cardinality(Owing) \in Nat
      BY RegistrationsMove, OwingMoves, <1>5, <1>6, <1>3
  <2>4. Cardinality(Registrations') \in Nat
      BY RegistrationsFinite, FS_Subset, FS_CardinalityType DEF Registrations
  <2>5. PendingAgrees'
      BY <1>2, <2>1, <2>2, <2>3 DEF CountDown, IInv, Agreement, PendingAgrees
  <2> QED
      BY <2>1, <2>3, <2>4, <2>5 DEF PendingAgrees
<1>16. Homes'
  <2>1. Awaited(c)
      BY <1>5, <1>8 DEF Awaited
  <2>2. Alive(c) /\ ~Listed(c) /\ ~Offered(c) /\ ~Running(c)
      BY <1>8, <2>1 DEF IInv, Homes, Home
  <2>3. ~Alive(c)' /\ ~Listed(c)' /\ ~Offered(c)' /\ ~Running(c)'
      BY <1>2, <1>3, <1>8, <2>2 DEF Alive, Listed, Offered, Running
  <2>4. ~Awaited(c)'
    <3>1. AwaitedOnce(c)
        BY <1>8 DEF IInv, Homes
    <3> QED
        BY <1>5, <1>7, <1>8, <3>1 DEF AwaitedOnce, Awaited
  <2>5. \A d \in Tasks \ {c} :
           /\ Alive(d)' <=> Alive(d)
           /\ Listed(d)' <=> Listed(d)
           /\ Awaited(d)' <=> Awaited(d)
           /\ Offered(d)' <=> Offered(d)
           /\ Running(d)' <=> Running(d)
    <3>1. \A d \in Tasks \ {c}, f \in Fds, g \in Event : ctx'[f][g] = d <=> ctx[f][g] = d
        BY <1>7, <1>8, IOManagerAssumption
    <3> QED
        BY <1>2, <1>3, <1>8, <3>1 DEF Alive, Listed, Awaited, Offered, Running
  <2>6. \A d \in Tasks : Home(d)'
      BY <2>3, <2>4, <2>5 DEF IInv, Homes, Home
  <2>7. \A d \in Tasks : AwaitedOnce(d)'
    <3>1. \A d \in Tasks, f \in Fds, g \in Event : ctx'[f][g] = d => ctx[f][g] = d
        BY <1>7, IOManagerAssumption
    <3> QED
        BY <3>1 DEF IInv, Homes, AwaitedOnce
  <2>8. \A d \in Tasks : OfferedOnce(d)' /\ ListedOnce(d)' /\ RunningOnce(d)'
      BY <1>3 DEF IInv, Homes, OfferedOnce, ListedOnce, RunningOnce
  <2>9. ended' \cup deleted' \subseteq born'
      BY <1>2, <1>3, <1>8, <2>2 DEF IInv, Homes, Alive
  <2> QED
      BY <2>6, <2>7, <2>8, <2>9 DEF Homes
<1>17. Triggers' /\ stale' \in [Runners -> SUBSET Fds]
  <2>1. ASSUME NEW f \in Fds, NEW D, f # fd \/ e \in D
        PROVE  Known(f) \ D \subseteq Known(f)'
    <3>1. events[f] \ D \subseteq events'[f]
        BY <1>6, <2>1
    <3> QED
        BY <1>3, <3>1, KnownStays
  <2>2. Known(fd) \ {e} \subseteq Known(fd)' /\ \A f \in Fds \ {fd} : Known(f) \subseteq Known(f)'
    <3>1. \A f \in Fds \ {fd} : Known(f) \ {} \subseteq Known(f)'
        BY <2>1
    <3> QED
        BY <2>1, <3>1
  <2>3. /\ Reported' /\ stale' \in [Runners -> SUBSET Fds]
        /\ \A t \in Runners : stale[t] \subseteq stale'[t]
      BY <1>2, <1>3, <1>5, <2>2, Outdates
  <2>4. \A b \in Actors : job[b].fd # None => events'[job[b].fd] = events[job[b].fd]
      BY <1>6, <1>11 DEF IInv, Agreement, TypeOK, Job
  <2>5. Handles(a)'
    <3>1. job[a].fd = None
        BY <1>2, CallersAreThere DEF DelEvent, Busy
    <3> QED
        BY <1>3, <3>1 DEF Handles
  <2>6. Handled'
      BY <1>3, <2>3, <2>4, <2>5, HandledStays DEF HungUp
  <2> QED
      BY <2>3, <2>6 DEF Triggers
<1>18. TypeOK'
    BY <1>2, <1>3, <1>6, <1>7, <1>8, <1>10, <1>15, <1>17 DEF IInv, Agreement, TypeOK
<1> QED
    BY <1>3, <1>10, <1>12, <1>13, <1>14, <1>15, <1>16, <1>17, <1>18, Frames DEF IInv, Agreement

LEMMA AddEventDoneKeeps ==
    ASSUME IInv, NEW a \in Actors, AddEventDone(a)
    PROVE  IInv'
<1>1. UNCHANGED <<m_fibers, m_activeThreadCount, m_idleThreadCount, m_stopping, m_autoStop, main,
                  interest, level, edge, pipe, pipeEdge, pc, idleTerm, task, got, gotPipe, tickles,
                  born, ended, deleted, stale, failed>>
    BY DEF AddEventDone, schedVars, stopVars, kernVars, runVars, histVars
<1>2. /\ events \in [Fds -> SUBSET Event] /\ job \in [Actors -> Job]
      /\ ctx \in [Fds -> [Event -> Tasks \cup {None}]]
    BY DEF IInv, Agreement, TypeOK
<1>3. Shape(a) /\ job[a].add # None /\ job[a] \in Job
    BY <1>2 DEF AddEventDone, IInv, Agreement, Shapes
<1>4. PICK c \in Tasks : job[a].add = c /\ c # None
    BY <1>3 DEF Job
<1>5. PICK fd \in Fds : job[a].fd = fd
    BY <1>3 DEF Shape, Job
<1>6. PICK e \in Event \ events[fd] :
         job[a].todo = <<e>> /\ interest[fd] = events[fd] \cup {e} /\ ~job[a].owed
    BY <1>3, <1>5, IOManagerAssumption DEF Shape
<1>7. /\ events' \in [Fds -> SUBSET Event] /\ events'[fd] = events[fd] \cup {e}
      /\ \A f \in Fds \ {fd} : events'[f] = events[f]
  <2>1. events' = [events EXCEPT ![fd] = events[fd] \cup {e}]
      BY <1>5, <1>6 DEF AddEventDone
  <2> QED
      BY <1>2, <2>1
<1>8. /\ ctx' \in [Fds -> [Event -> Tasks \cup {None}]] /\ ctx'[fd][e] = c
      /\ \A f \in Fds, g \in Event : f # fd \/ g # e => ctx'[f][g] = ctx[f][g]
  <2>1. ctx' = [ctx EXCEPT ![fd][e] = c]
      BY <1>4, <1>5, <1>6 DEF AddEventDone
  <2> QED
      BY <1>2, <2>1
<1>9. NoJob \in Job /\ NoJob.fd = None /\ NoJob.add = None /\ ~NoJob.owed /\ NoJob.todo = <<>>
    BY DEF NoJob, Job
<1>10. SetJob(a, NoJob) /\ m_pendingEventCount' = m_pendingEventCount + 1
    BY DEF AddEventDone
<1>11. ctx[fd][e] = None
    BY DEF IInv, Agreement, EventHasTask
<1>12. /\ Locks' /\ Shapes' /\ FreeAgrees' /\ job' \in [Actors -> Job] /\ job'[a] = NoJob
       /\ \A b \in Actors \ {a} : job'[b] = job[b] /\ job[b].fd # fd
  <2>1. job'[a] = NoJob => Shape(a)'
      BY <1>9 DEF Shape, Todos
  <2>2. interest[fd] = events'[fd] /\ UNCHANGED interest
      BY <1>1, <1>6, <1>7
  <2>3. \A f \in Fds \ {fd} : events'[f] = events[f]
      BY <1>7
  <2> QED
      BY <1>5, <1>9, <1>10, <2>1, <2>2, <2>3, GoesOn
<1>13. EventHasTask'
    BY <1>4, <1>7, <1>8 DEF IInv, Agreement, EventHasTask
<1>14. PendingAgrees' /\ m_pendingEventCount' \in Nat
  <2>1. Cardinality(Owing') = Cardinality(Owing) /\ Cardinality(Owing) \in Nat
      BY <1>6, <1>9, <1>12, OwingMoves
  <2>2. /\ Cardinality(Registrations') = Cardinality(Registrations) + 1
        /\ Cardinality(Registrations) \in Nat
      BY <1>7, RegistrationsMove
  <2> QED
      BY <1>10, <2>1, <2>2 DEF IInv, Agreement, PendingAgrees
<1>15. Homes'
  <2>1. Offered(c)
      BY <1>4 DEF Offered
  <2>2. Alive(c) /\ ~Listed(c) /\ ~Awaited(c) /\ ~Running(c)
      BY <2>1 DEF IInv, Homes, Home
  <2>3. Alive(c)' /\ ~Listed(c)' /\ Awaited(c)' /\ ~Running(c)'
    <3>1. Alive(c)' /\ ~Listed(c)' /\ ~Running(c)'
        BY <1>1, <2>2 DEF Alive, Listed, Running
    <3>2. Awaited(c)'
        BY <1>8 DEF Awaited
    <3> QED
        BY <3>1, <3>2
  <2>4. ~Offered(c)'
    <3>1. \A b \in Actors \ {a} : job[b].add # c
        BY <1>4 DEF IInv, Homes, OfferedOnce
    <3> QED
        BY <1>4, <1>9, <1>12, <3>1 DEF Offered
  <2>5. \A x \in Tasks \ {c}, f \in Fds, g \in Event : ctx'[f][g] = x <=> ctx[f][g] = x
      BY <1>8, <1>11, IOManagerAssumption
  <2>6. \A x \in Tasks \ {c}, b \in Actors : job'[b].add = x <=> job[b].add = x
      BY <1>4, <1>9, <1>12, IOManagerAssumption
  <2>7. \A x \in Tasks \ {c} :
           /\ Alive(x)' <=> Alive(x)
           /\ Listed(x)' <=> Listed(x)
           /\ Awaited(x)' <=> Awaited(x)
           /\ Offered(x)' <=> Offered(x)
           /\ Running(x)' <=> Running(x)
      BY <1>1, <2>5, <2>6 DEF Alive, Listed, Awaited, Offered, Running
  <2>8. \A x \in Tasks : Home(x)'
      BY <2>3, <2>4, <2>7 DEF IInv, Homes, Home
  <2>9. \A x \in Tasks : AwaitedOnce(x)'
    <3>1. AwaitedOnce(c)'
        BY <1>8, <2>2 DEF AwaitedOnce, Awaited
    <3>2. \A x \in Tasks \ {c} : AwaitedOnce(x)'
        BY <2>5 DEF IInv, Homes, AwaitedOnce
    <3> QED
        BY <3>1, <3>2
  <2>10. \A x \in Tasks : OfferedOnce(x)'
    <3>1. OfferedOnce(c)'
        BY <2>4 DEF OfferedOnce, Offered
    <3>2. \A x \in Tasks \ {c} : OfferedOnce(x)'
        BY <2>6 DEF IInv, Homes, OfferedOnce
    <3> QED
        BY <3>1, <3>2
  <2>11. \A x \in Tasks : ListedOnce(x)' /\ RunningOnce(x)'
      BY <1>1 DEF IInv, Homes, ListedOnce, RunningOnce
  <2> QED
      BY <1>1, <2>8, <2>9, <2>10, <2>11 DEF IInv, Homes
<1>16. Stages'
    BY <1>1, <1>9, <1>12 DEF IInv, Stages, InRun, PoolJoined
<1>17. Triggers'
  <2>1. \A f \in Fds : Known(f) \subseteq Known(f)'
    <3>1. ASSUME NEW f \in Fds
          PROVE  Known(f) \ {} \subseteq Known(f)'
      <4>1. events[f] \ {} \subseteq events'[f]
          BY <1>7
      <4>2. Todo(a) = {e}
          BY <1>6, TodoSets DEF Todo
      <4>3. Adds(a, f) => Todo(a) \subseteq events'[f]
          BY <1>5, <1>7, <4>2 DEF Adds
      <4>4. \A b \in Actors : Adds(b, f) => job'[b] = job[b] \/ Todo(b) \subseteq events'[f]
          BY <1>12, <4>3
      <4> QED
          BY <4>1, <4>4, KnownStays
    <3> QED
        BY <3>1
  <2>2. Reported'
      BY <1>1, <2>1, ReportedStays DEF HungUp
  <2>3. \A b \in Actors \ {a} : job[b].fd # None => events'[job[b].fd] = events[job[b].fd]
      BY <1>2, <1>7, <1>12 DEF Job
  <2>4. Handles(a)'
      BY <1>9, <1>12 DEF Handles
  <2>5. Handled'
      BY <1>1, <1>12, <2>3, <2>4, HandledStays DEF HungUp
  <2> QED
      BY <2>2, <2>5 DEF Triggers
<1>18. TypeOK'
    BY <1>1, <1>7, <1>8, <1>12, <1>14 DEF IInv, Agreement, TypeOK
<1> QED
    BY <1>1, <1>12, <1>13, <1>14, <1>15, <1>16, <1>17, <1>18, Frames DEF IInv, Agreement

LEMMA TriggerEventKeeps ==
    ASSUME IInv, NEW a \in Actors, TriggerEvent(a)
    PROVE  IInv'
<1>1. UNCHANGED <<m_activeThreadCount, m_idleThreadCount, m_stopping, m_autoStop, main,
                  m_pendingEventCount, interest, level, edge, pipe, pipeEdge, pc, idleTerm, task, got,
                  gotPipe, born, ended, deleted>>
    BY DEF TriggerEvent, stopVars, kernVars, runVars
<1>2. /\ events \in [Fds -> SUBSET Event] /\ job \in [Actors -> Job]
      /\ ctx \in [Fds -> [Event -> Tasks \cup {None}]] /\ tickles \in [Actors -> Nat]
      /\ m_fibers \in Seq(Tasks)
    BY DEF IInv, Agreement, TypeOK
<1>3. /\ Shape(a) /\ job[a] \in Job
      /\ job[a].fd # None /\ job[a].add = None /\ ~job[a].owed
    BY <1>2 DEF TriggerEvent, IInv, Agreement, Shapes
<1>4. PICK fd \in Fds : job[a].fd = fd
    BY <1>3 DEF Job
<1>5. PICK s \in Todos : job[a].todo = s /\ s # <<>> /\ interest[fd] = events[fd] \ ToSet(s)
    BY <1>3, <1>4 DEF Shape, Todo
<1>6. PICK e \in Event : e = Head(s) /\ e \in ToSet(s)
    BY <1>5, TodoSets
<1>7. CASE e \notin events[fd]
  <2>1. failed' = "triggerEvent" /\ UNCHANGED <<m_fibers, job, tickles, events, ctx, stale>>
      BY <1>4, <1>5, <1>6, <1>7 DEF TriggerEvent, callVars
  <2>2. TypeOK'
      BY <1>1, <2>1 DEF IInv, Agreement, TypeOK
  <2> QED
      BY <1>1, <2>1, <2>2, Frames DEF IInv, Agreement
<1>8. CASE e \in events[fd]
  <2> DEFINE j == [job[a] EXCEPT !.owed = TRUE, !.todo = Tail(job[a].todo)]
  <2>1. /\ j \in Job /\ j.fd = fd /\ j.add = None /\ j.owed /\ j.todo = Tail(s)
        /\ j.todo \in Todos /\ ToSet(j.todo) = ToSet(s) \ {e}
    <3>1. Tail(s) \in Todos /\ Tail(s) \in Seq(Event) /\ ToSet(Tail(s)) = ToSet(s) \ {e}
        BY <1>5, <1>6, TodoSets
    <3> QED
        BY <1>3, <1>4, <1>5, <3>1 DEF Job
  <2>2. PICK c \in Tasks : c = ctx[fd][e] /\ c # None
      BY <1>2, <1>8 DEF IInv, Agreement, EventHasTask
  <2>3. /\ ClearEvent(fd, e) /\ ClearCtx(fd, e) /\ Schedule(a, c) /\ UNCHANGED failed
        /\ SetJob(a, j) /\ Outdate(fd, e)
      BY <1>4, <1>5, <1>6, <1>8, <2>2 DEF TriggerEvent
  <2> HIDE DEF j
  <2>4. /\ events' \in [Fds -> SUBSET Event] /\ events'[fd] = events[fd] \ {e}
        /\ \A f \in Fds \ {fd} : events'[f] = events[f]
      BY <1>2, <2>3 DEF ClearEvent
  <2>5. /\ ctx' \in [Fds -> [Event -> Tasks \cup {None}]] /\ ctx'[fd][e] = None
        /\ \A f \in Fds, d \in Event : f # fd \/ d # e => ctx'[f][d] = ctx[f][d]
      BY <1>2, <2>3 DEF ClearCtx
  <2>6. m_fibers' = Append(m_fibers, c)
      BY <2>3 DEF Schedule
  <2>7. tickles' \in [Actors -> Nat] /\ \A b \in Actors \ {a} : tickles'[b] = tickles[b]
      BY <1>2, <2>3 DEF Schedule
  <2>8. /\ Locks' /\ Shapes' /\ FreeAgrees' /\ job' \in [Actors -> Job] /\ job'[a] = j
        /\ \A b \in Actors \ {a} : job'[b] = job[b] /\ job[b].fd # fd
    <3>1. ASSUME job'[a] = j
          PROVE  Shape(a)'
      <4>1. interest[fd] = events'[fd] \ ToSet(j.todo)
          BY <1>5, <1>6, <2>1, <2>4
      <4>2. job'[a].fd = fd /\ job'[a].add = None /\ job'[a].owed /\ job'[a].todo = j.todo
          BY <2>1, <3>1
      <4> QED
          BY <1>1, <2>1, <4>1, <4>2, IOManagerAssumption DEF Shape, Todo
    <3>2. UNCHANGED interest
        BY <1>1
    <3> QED
        BY <1>4, <2>1, <2>3, <2>4, <3>1, <3>2, GoesOn
  <2>9. EventHasTask'
      BY <2>4, <2>5 DEF IInv, Agreement, EventHasTask
  <2>10. PendingAgrees'
    <3>1. Cardinality(Owing') = Cardinality(Owing) + 1 /\ Cardinality(Owing) \in Nat
        BY <1>3, <2>1, <2>8, OwingMoves
    <3>2. /\ Cardinality(Registrations') = Cardinality(Registrations) - 1
          /\ Cardinality(Registrations) \in Nat
        BY <1>8, <2>4, RegistrationsMove
    <3> QED
        BY <1>1, <3>1, <3>2 DEF IInv, Agreement, PendingAgrees
  <2>11. Homes'
    <3>1. Awaited(c)
        BY <2>2 DEF Awaited
    <3>2. Alive(c) /\ ~Listed(c) /\ ~Offered(c) /\ ~Running(c)
        BY <3>1 DEF IInv, Homes, Home
    <3>3. \A x \in Tasks, b \in Actors : job'[b].add = x <=> job[b].add = x
        BY <1>3, <2>1, <2>8
    <3>4. \A x \in Tasks, f \in Fds, g \in Event : ctx'[f][g] = x => ctx[f][g] = x
        BY <2>5, IOManagerAssumption
    <3>5. \A x \in Tasks \ {c}, f \in Fds, g \in Event : ctx[f][g] = x => ctx'[f][g] = x
        BY <2>2, <2>5
    <3>6. ~Awaited(c)'
      <4>1. AwaitedOnce(c)
          BY DEF IInv, Homes
      <4> QED
          BY <2>2, <2>5, <4>1 DEF AwaitedOnce, Awaited
    <3>7. Listed(c)'
        BY <1>2, <2>6, Appends
    <3>8. Alive(c)' /\ ~Offered(c)' /\ ~Running(c)'
        BY <1>1, <3>2, <3>3 DEF Alive, Offered, Running
    <3>9. \A x \in Tasks \ {c} :
             /\ Alive(x)' <=> Alive(x)
             /\ Listed(x)' <=> Listed(x)
             /\ Awaited(x)' <=> Awaited(x)
             /\ Offered(x)' <=> Offered(x)
             /\ Running(x)' <=> Running(x)
      <4>1. \A x \in Tasks \ {c} : Listed(x)' <=> Listed(x)
          BY <1>2, <2>6, Appends
      <4>2. \A x \in Tasks \ {c} : Awaited(x)' <=> Awaited(x)
          BY <3>4, <3>5 DEF Awaited
      <4> QED
          BY <1>1, <3>3, <4>1, <4>2 DEF Alive, Offered, Running
    <3>10. \A x \in Tasks : Home(x)'
        BY <3>6, <3>7, <3>8, <3>9 DEF IInv, Homes, Home
    <3>11. \A x \in Tasks : ListedOnce(x)'
        BY <1>2, <2>6, <3>2, Appends DEF IInv, Homes
    <3>12. \A x \in Tasks : AwaitedOnce(x)'
        BY <3>4 DEF IInv, Homes, AwaitedOnce
    <3>13. \A x \in Tasks : OfferedOnce(x)' /\ RunningOnce(x)'
        BY <1>1, <3>3 DEF IInv, Homes, OfferedOnce, RunningOnce
    <3> QED
        BY <1>1, <3>10, <3>11, <3>12, <3>13 DEF IInv, Homes
  <2>12. InRun(a) \/ (a = Root /\ main = "up")
      BY <1>3 DEF IInv, Stages
  <2>13. Stages'
    <3>1. main # "stopped" \/ tickles'[Root] = 0
        BY <2>7, <2>12 DEF IInv, Stages, InRun, PoolJoined, Actors, Runners
    <3>2. \A b \in Actors : tickles'[b] > 0 =>
                              InRun(b) \/ (b = Root /\ main \in {"up", "call", "join"})
        BY <2>7, <2>12 DEF IInv, Stages
    <3>3. \A b \in Actors : job'[b].fd # None => InRun(b) \/ (b = Root /\ main = "up")
        BY <2>8, <2>12 DEF IInv, Stages
    <3> QED
        BY <1>1, <3>1, <3>2, <3>3 DEF IInv, Stages, InRun, PoolJoined
  <2>14. TakerLeft'
      BY <1>1, <2>12, SomeoneIsThere DEF TakerLeft, Gone
  <2>15. Triggers' /\ stale' \in [Runners -> SUBSET Fds]
    <3>1. ASSUME NEW f \in Fds, NEW D, f # fd \/ e \in D
          PROVE  Known(f) \ D \subseteq Known(f)'
      <4>1. events[f] \ D \subseteq events'[f]
          BY <2>4, <3>1
      <4>2. \A b \in Actors : Adds(b, f) => job'[b] = job[b]
          BY <1>3, <2>8 DEF Adds
      <4> QED
          BY <4>1, <4>2, KnownStays
    <3>2. Known(fd) \ {e} \subseteq Known(fd)' /\ \A f \in Fds \ {fd} : Known(f) \subseteq Known(f)'
      <4>1. \A f \in Fds \ {fd} : Known(f) \ {} \subseteq Known(f)'
          BY <3>1
      <4> QED
          BY <3>1, <4>1
    <3>3. /\ Reported' /\ stale' \in [Runners -> SUBSET Fds]
          /\ \A t \in Runners : stale[t] \subseteq stale'[t]
        BY <1>1, <2>3, <3>2, Outdates
    <3>4. \A b \in Actors \ {a} : job[b].fd # None => events'[job[b].fd] = events[job[b].fd]
        BY <1>2, <2>4, <2>8 DEF Job
    <3>5. Handles(a)'
      <4>1. Handles(a)
          BY DEF IInv, Triggers, Handled
      <4>2. CASE ToSet(s) \subseteq events[fd]
          BY <2>1, <2>4, <2>8, <4>2 DEF Handles, Todo
      <4>3. CASE a \in Runners /\ pc[a] = "events" /\ (fd \in stale[a] \/ HungUp(fd))
          BY <1>1, <2>1, <2>8, <3>3, <4>3 DEF Handles, HungUp
      <4> QED
          BY <1>3, <1>4, <1>5, <4>1, <4>2, <4>3 DEF Handles, Todo
    <3>6. Handled'
        BY <1>1, <2>8, <3>3, <3>4, <3>5, HandledStays DEF HungUp
    <3> QED
        BY <3>3, <3>6 DEF Triggers
  <2>16. TypeOK'
      BY <1>1, <1>2, <2>3, <2>4, <2>5, <2>6, <2>7, <2>8, <2>15, Appends DEF IInv, Agreement, TypeOK
  <2> QED
      BY <1>1, <2>8, <2>9, <2>10, <2>11, <2>13, <2>14, <2>15, <2>16, Frames DEF IInv, Agreement
<1> QED
    BY <1>7, <1>8

LEMMA CountedKeeps ==
    ASSUME IInv, NEW a \in Actors, Counted(a)
    PROVE  IInv'
<1>1. UNCHANGED <<m_fibers, m_activeThreadCount, m_idleThreadCount, m_stopping, m_autoStop, main,
                  events, ctx, interest, level, edge, pipe, pipeEdge, pc, idleTerm, task, got,
                  gotPipe, tickles, born, ended, deleted, stale, failed>>
    BY DEF Counted, schedVars, stopVars, kernVars, runVars, histVars
<1>2. job \in [Actors -> Job]
    BY DEF IInv, Agreement, TypeOK
<1>3. Shape(a) /\ job[a] \in Job /\ job[a].owed
    BY <1>2 DEF Counted, IInv, Agreement, Shapes
<1>4. job[a].add = None /\ job[a].fd # None
    BY <1>3 DEF Shape
<1>5. PICK fd \in Fds : job[a].fd = fd
    BY <1>3, <1>4 DEF Job
<1> DEFINE j == IF job[a].todo # <<>> THEN [job[a] EXCEPT !.owed = FALSE] ELSE NoJob
<1>6. /\ j \in Job /\ j.add = None /\ ~j.owed /\ j.todo = job[a].todo
      /\ j.fd = IF job[a].todo # <<>> THEN fd ELSE None
    BY <1>3, <1>4, <1>5 DEF Job, NoJob
<1>7. SetJob(a, j) /\ CountDown
    BY DEF Counted
<1>8. PICK k \in Job : k = j
    BY <1>6
<1> HIDE DEF j
<1>9. interest[fd] = events[fd] \ ToSet(job[a].todo) /\ job[a].todo \in Todos
    BY <1>3, <1>4, <1>5 DEF Shape, Todo
<1>10. /\ Locks' /\ Shapes' /\ FreeAgrees' /\ job' \in [Actors -> Job] /\ job'[a] = k
       /\ \A b \in Actors \ {a} : job'[b] = job[b] /\ job[b].fd # fd
  <2>1. ASSUME job'[a] = k
        PROVE  Shape(a)'
    <3>1. /\ job'[a].todo = job[a].todo /\ job'[a].add = None /\ ~job'[a].owed
          /\ job'[a].fd = IF job[a].todo # <<>> THEN fd ELSE None
        BY <1>6, <1>8, <2>1
    <3>2. CASE job[a].todo # <<>>
        BY <1>1, <1>4, <1>5, <1>9, <3>1, <3>2 DEF Shape, Todo
    <3>3. CASE job[a].todo = <<>>
        BY <1>1, <1>9, <3>1, <3>3 DEF Shape, Todo
    <3> QED
        BY <3>2, <3>3
  <2>2. UNCHANGED interest /\ UNCHANGED events
      BY <1>1
  <2>3. job[a].todo = <<>> => interest[fd] = events'[fd]
    <3>1. job[a].todo = <<>> => ToSet(job[a].todo) = {}
        BY <1>9, TodoSets
    <3> QED
        BY <1>1, <1>9, <3>1
  <2>4. k.fd = fd \/ (k.fd = None /\ interest[fd] = events'[fd])
      BY <1>6, <1>8, <2>3
  <2> QED
      BY <1>5, <1>7, <1>8, <2>1, <2>2, <2>4, GoesOn
<1>11. PendingAgrees' /\ m_pendingEventCount' \in Nat
  <2>1. Cardinality(Owing') = Cardinality(Owing) - 1 /\ Cardinality(Owing) \in Nat
      BY <1>3, <1>6, <1>8, <1>10, OwingMoves
  <2>2. Registrations' = Registrations /\ Cardinality(Registrations) \in Nat
      BY <1>1, RegistrationsFinite, FS_Subset, FS_CardinalityType DEF Registrations
  <2>3. Cardinality(Owing') \in Nat
      BY RunnersFinite, FS_Subset, FS_CardinalityType DEF Owing
  <2> QED
      BY <1>7, <2>1, <2>2, <2>3 DEF CountDown, IInv, Agreement, PendingAgrees
<1>12. Homes'
    BY <1>1, <1>4, <1>6, <1>8, <1>10, HomesStay
<1>13. Stages'
  <2>1. \A b \in Actors : job'[b].fd # None => job[b].fd # None
      BY <1>4, <1>10
  <2> QED
      BY <1>1, <2>1 DEF IInv, Stages, InRun, PoolJoined
<1>14. Triggers'
  <2>1. \A f \in Fds : Known(f) \subseteq Known(f)'
    <3>1. ASSUME NEW f \in Fds
          PROVE  Known(f) \ {} \subseteq Known(f)'
      <4>1. \A b \in Actors : Adds(b, f) => job'[b] = job[b]
          BY <1>4, <1>10 DEF Adds
      <4> QED
          BY <1>1, <4>1, KnownStays
    <3> QED
        BY <3>1
  <2>2. Reported'
      BY <1>1, <2>1, ReportedStays DEF HungUp
  <2>3. Handles(a)'
    <3>1. /\ job'[a].todo = job[a].todo
          /\ job'[a].fd = None \/ job'[a].fd = job[a].fd
        BY <1>5, <1>6, <1>8, <1>10
    <3>2. Handles(a)
        BY DEF IInv, Triggers, Handled
    <3> QED
        BY <1>1, <1>4, <3>1, <3>2 DEF Handles, Todo, HungUp
  <2>4. Handled'
      BY <1>1, <1>10, <2>3, HandledStays DEF HungUp
  <2> QED
      BY <2>2, <2>4 DEF Triggers
<1>15. TypeOK'
    BY <1>1, <1>10, <1>11 DEF IInv, Agreement, TypeOK
<1> QED
    BY <1>1, <1>10, <1>11, <1>12, <1>13, <1>14, <1>15, Frames DEF IInv, Agreement

-----------------------------------------------------------------------------
(* run() and idle() *)

LEMMA PickKeeps ==
    ASSUME IInv, NEW t \in Runners, Pick(t)
    PROVE  IInv'
<1>1. UNCHANGED <<m_idleThreadCount, m_stopping, m_autoStop, main, events, ctx, m_pendingEventCount,
                  interest, level, edge, pipe, pipeEdge, idleTerm, got, gotPipe, job, tickles,
                  born, ended, deleted, stale, failed>>
    BY DEF Pick, stopVars, fdVars, kernVars, callVars, histVars
<1>2. /\ m_fibers \in Seq(Tasks) /\ task \in [Runners -> Tasks \cup {None}]
      /\ m_activeThreadCount \in Nat
    BY RunnersFinite, FS_CardinalityType DEF IInv, Agreement, TypeOK
<1>3. m_fibers # <<>> /\ m_fibers' = Tail(m_fibers) /\ pc[t] = "loop" /\ Goto(t, "body")
    BY DEF Pick
<1>4. PICK c \in Tasks : c = Head(m_fibers)
    BY <1>2, <1>3, HeadTailProperties
<1>5. /\ task' \in [Runners -> Tasks \cup {None}] /\ task'[t] = c
      /\ \A u \in Runners \ {t} : task'[u] = task[u]
    BY <1>2, <1>4 DEF Pick
<1>6. task[t] = None
    BY <1>3 DEF IInv, Agreement, Locals
<1>7. /\ Stages' /\ TakerLeft' /\ Counts'
      /\ pc' \in [Runners -> {"off", "loop", "body", "none", "idle", "idle2", "wait", "events",
                              "exited"}]
      /\ m_activeThreadCount' \in 0 .. Cardinality(Runners)
      /\ m_idleThreadCount' \in 0 .. Cardinality(Runners)
      /\ pc'[t] = "body" /\ \A u \in Runners \ {t} : pc'[u] = pc[u]
  <2>1. m_activeThreadCount' = m_activeThreadCount + 1 - 0
      BY <1>2 DEF Pick
  <2>2. m_idleThreadCount' = m_idleThreadCount + 0 - 0
      BY <1>1, RunnersFinite, FS_CardinalityType DEF IInv, Agreement, TypeOK
  <2> QED
      BY <1>1, <1>3, <2>1, <2>2, Moves DEF Idling
<1>8. Locals'
    BY <1>1, <1>3, <1>4, <1>5, <1>7, IOManagerAssumption DEF IInv, Agreement, Locals
<1>9. Homes'
  <2>1. ListedOnce(c)
      BY DEF IInv, Homes
  <2>2. /\ m_fibers' \in Seq(Tasks) /\ Listed(c)
        /\ ~\E i \in DOMAIN m_fibers' : m_fibers'[i] = c
        /\ \A d \in Tasks \ {c} : Listed(d)' <=> Listed(d)
        /\ \A d \in Tasks : ListedOnce(d) => ListedOnce(d)'
      BY <1>2, <1>3, <1>4, <2>1, TakesFirst
  <2>3. Alive(c) /\ ~Awaited(c) /\ ~Offered(c) /\ ~Running(c)
      BY <2>2 DEF IInv, Homes, Home
  <2>4. Alive(c)' /\ ~Awaited(c)' /\ ~Offered(c)' /\ ~Listed(c)' /\ Running(c)'
      BY <1>1, <1>5, <2>2, <2>3 DEF Alive, Awaited, Offered, Listed, Running
  <2>5. \A x \in Tasks \ {c}, u \in Runners : task'[u] = x <=> task[u] = x
      BY <1>5, <1>6, IOManagerAssumption
  <2>6. \A x \in Tasks \ {c} :
           /\ Alive(x)' <=> Alive(x)
           /\ Listed(x)' <=> Listed(x)
           /\ Awaited(x)' <=> Awaited(x)
           /\ Offered(x)' <=> Offered(x)
           /\ Running(x)' <=> Running(x)
      BY <1>1, <2>2, <2>5 DEF Alive, Awaited, Offered, Running
  <2>7. \A x \in Tasks : Home(x)'
      BY <2>4, <2>6 DEF IInv, Homes, Home
  <2>8. \A x \in Tasks : RunningOnce(x)'
    <3>1. RunningOnce(c)'
        BY <1>5, <2>3 DEF RunningOnce, Running
    <3>2. \A x \in Tasks \ {c} : RunningOnce(x)'
        BY <2>5 DEF IInv, Homes, RunningOnce
    <3> QED
        BY <3>1, <3>2
  <2>9. \A x \in Tasks : ListedOnce(x)'
      BY <2>2 DEF IInv, Homes
  <2>10. \A x \in Tasks : AwaitedOnce(x)' /\ OfferedOnce(x)'
      BY <1>1 DEF IInv, Homes, AwaitedOnce, OfferedOnce
  <2> QED
      BY <1>1, <2>7, <2>8, <2>9, <2>10 DEF IInv, Homes
<1>10. m_fibers' \in Seq(Tasks)
    BY <1>2, <1>3, HeadTailProperties
<1>11. TypeOK'
    BY <1>1, <1>5, <1>7, <1>10 DEF IInv, Agreement, TypeOK
<1>12. Triggers'
    BY <1>1, <1>3, <1>7, TriggersStay DEF HungUp
<1> QED
    BY <1>1, <1>7, <1>8, <1>9, <1>11, <1>12, Frames DEF IInv, Agreement

LEMMA EndTaskKeeps ==
    ASSUME IInv, NEW t \in Runners, EndTask(t)
    PROVE  IInv'
<1>1. UNCHANGED <<m_fibers, m_idleThreadCount, m_stopping, m_autoStop, main, events, ctx,
                  m_pendingEventCount, interest, level, edge, pipe, pipeEdge, idleTerm, got, gotPipe,
                  job, tickles, born, deleted, stale, failed>>
    BY DEF EndTask, stopVars, fdVars, kernVars, callVars
<1>2. /\ task \in [Runners -> Tasks \cup {None}]
      /\ m_activeThreadCount \in Nat /\ m_idleThreadCount \in Nat
    BY RunnersFinite, FS_CardinalityType DEF IInv, Agreement, TypeOK
<1>3. pc[t] = "body" /\ ~Busy(t) /\ Goto(t, "loop")
    BY DEF EndTask
<1>4. PICK c \in Tasks : c = task[t]
    BY <1>2, <1>3 DEF IInv, Agreement, Locals
<1>5. /\ task' \in [Runners -> Tasks \cup {None}] /\ task'[t] = None
      /\ \A u \in Runners \ {t} : task'[u] = task[u]
      /\ ended' = ended \cup {c}
    BY <1>2, <1>4 DEF EndTask
<1>6. /\ Stages' /\ TakerLeft' /\ Counts'
      /\ pc' \in [Runners -> {"off", "loop", "body", "none", "idle", "idle2", "wait", "events",
                              "exited"}]
      /\ m_activeThreadCount' \in 0 .. Cardinality(Runners)
      /\ m_idleThreadCount' \in 0 .. Cardinality(Runners)
      /\ pc'[t] = "loop" /\ \A u \in Runners \ {t} : pc'[u] = pc[u]
  <2>1. m_activeThreadCount' = m_activeThreadCount + 0 - 1
      BY <1>2 DEF EndTask
  <2>2. m_idleThreadCount' = m_idleThreadCount + 0 - 0
      BY <1>1, <1>2
  <2> QED
      BY <1>1, <1>3, <2>1, <2>2, Moves DEF Idling
<1>7. Locals'
    BY <1>1, <1>3, <1>5, <1>6 DEF IInv, Agreement, Locals
<1>8. Homes'
  <2>1. Running(c)
      BY <1>4 DEF Running
  <2>2. Alive(c) /\ ~Awaited(c) /\ ~Offered(c) /\ ~Listed(c)
      BY <2>1 DEF IInv, Homes, Home
  <2>3. ~Alive(c)' /\ ~Awaited(c)' /\ ~Offered(c)' /\ ~Listed(c)'
      BY <1>1, <1>5, <2>2 DEF Alive, Awaited, Offered, Listed
  <2>4. ~Running(c)'
    <3>1. RunningOnce(c)
        BY DEF IInv, Homes
    <3> QED
        BY <1>4, <1>5, <3>1, IOManagerAssumption DEF RunningOnce, Running
  <2>5. \A x \in Tasks, u \in Runners : task'[u] = x => task[u] = x
      BY <1>5, IOManagerAssumption
  <2>6. \A x \in Tasks \ {c}, u \in Runners : task[u] = x => task'[u] = x
      BY <1>4, <1>5
  <2>7. \A x \in Tasks \ {c} :
           /\ Alive(x)' <=> Alive(x)
           /\ Listed(x)' <=> Listed(x)
           /\ Awaited(x)' <=> Awaited(x)
           /\ Offered(x)' <=> Offered(x)
           /\ Running(x)' <=> Running(x)
      BY <1>1, <1>5, <2>5, <2>6 DEF Alive, Listed, Awaited, Offered, Running
  <2>8. \A x \in Tasks : Home(x)'
      BY <2>3, <2>4, <2>7 DEF IInv, Homes, Home
  <2>9. \A x \in Tasks : RunningOnce(x)'
      BY <2>5 DEF IInv, Homes, RunningOnce
  <2>10. \A x \in Tasks : ListedOnce(x)' /\ AwaitedOnce(x)' /\ OfferedOnce(x)'
      BY <1>1 DEF IInv, Homes, ListedOnce, AwaitedOnce, OfferedOnce
  <2>11. ended' \cup deleted' \subseteq born'
      BY <1>1, <1>5, <2>2 DEF IInv, Homes, Alive
  <2> QED
      BY <2>8, <2>9, <2>10, <2>11 DEF Homes
<1>9. TypeOK'
    BY <1>1, <1>5, <1>6 DEF IInv, Agreement, TypeOK
<1>10. Triggers'
    BY <1>1, <1>3, <1>6, TriggersStay DEF HungUp
<1> QED
    BY <1>1, <1>6, <1>7, <1>8, <1>9, <1>10, Frames DEF IInv, Agreement

(* A thread goes on without a task and without an event. *)
LEMMA GoesIdly ==
    ASSUME IInv, NEW t \in Runners,
           NEW l \in {"loop", "none", "idle", "idle2", "wait", "events", "exited"},
           Goto(t, l), pc[t] \notin {"off", "body", "exited"},
           UNCHANGED <<m_fibers, m_activeThreadCount, stopVars, fdVars, kernVars, task, got, gotPipe,
                       callVars, born, ended, deleted, failed>>,
           stale' \in [Runners -> SUBSET Fds],
           \A u \in Runners : stale[u] \subseteq stale'[u] \/ (u = t /\ pc[t] = "events"),
           pc[t] = "events" => ~Busy(t) /\ ~gotPipe[t] /\ \A fd \in Fds : got[t][fd] = {},
           idleTerm' = idleTerm \/ (idleTerm' = idleTerm \cup {t} /\ m_stopping),
           l = "exited" => t \in idleTerm /\ m_fibers = <<>>,
           m_idleThreadCount' = m_idleThreadCount
               + (IF l \in Idling THEN 1 ELSE 0) - (IF pc[t] \in Idling THEN 1 ELSE 0)
    PROVE  IInv'
<1>1. UNCHANGED <<m_fibers, m_activeThreadCount, m_stopping, m_autoStop, main, events, ctx,
                  m_pendingEventCount, interest, level, edge, pipe, pipeEdge, task, got, gotPipe,
                  job, tickles, born, ended, deleted, failed>>
    BY DEF stopVars, fdVars, kernVars, callVars
<1>2. m_activeThreadCount' = m_activeThreadCount
         + (IF l = "body" THEN 1 ELSE 0) - (IF pc[t] = "body" THEN 1 ELSE 0)
  <2>1. m_activeThreadCount \in Nat
      BY RunnersFinite, FS_CardinalityType DEF IInv, Agreement, TypeOK
  <2> QED
      BY <1>1, <2>1
<1>3. /\ Stages' /\ TakerLeft' /\ Counts'
      /\ pc' \in [Runners -> {"off", "loop", "body", "none", "idle", "idle2", "wait", "events",
                              "exited"}]
      /\ m_activeThreadCount' \in 0 .. Cardinality(Runners)
      /\ m_idleThreadCount' \in 0 .. Cardinality(Runners)
      /\ pc'[t] = l /\ \A u \in Runners \ {t} : pc'[u] = pc[u]
    BY <1>1, <1>2, Moves
<1>4. Locals'
    BY <1>1, <1>3 DEF IInv, Agreement, Locals
<1>5. TypeOK'
    BY <1>1, <1>3 DEF IInv, Agreement, TypeOK
<1>6. Triggers'
  <2>1. \A u \in Runners : \/ stale[u] \subseteq stale'[u]
                           \/ job[u].fd = None /\ \A f \in Fds : got'[u][f] = {}
      BY <1>1 DEF Busy
  <2>2. \A u \in Runners : job[u].fd # None /\ pc[u] = "events" => pc'[u] = "events"
      BY <1>3 DEF Busy
  <2> QED
      BY <1>1, <2>1, <2>2, TriggersStay DEF HungUp
<1> QED
    BY <1>1, <1>3, <1>4, <1>5, <1>6, Frames DEF IInv, Agreement

LEMMA IdleKeeps ==
    ASSUME IInv, NEW t \in Runners,
           \/ PickNothing(t) \/ EnterIdle(t) \/ CheckPending(t) \/ CheckStopping(t)
           \/ WaitTimeout(t) \/ LeaveIdle(t)
    PROVE  IInv'
<1>1. m_idleThreadCount \in Nat /\ stale \in [Runners -> SUBSET Fds]
    BY RunnersFinite, FS_CardinalityType DEF IInv, Agreement, TypeOK
<1>2. CASE PickNothing(t)
  <2>1. PICK l \in {"exited", "none"} : Goto(t, l) /\ (l = "exited" => t \in idleTerm)
      BY <1>2 DEF PickNothing
  <2>2. m_idleThreadCount' = m_idleThreadCount + 0 - 0
      BY <1>1, <1>2 DEF PickNothing, schedVars
  <2> QED
      BY <1>1, <1>2, <2>1, <2>2, GoesIdly DEF PickNothing, schedVars, Idling, histVars
<1>3. CASE EnterIdle(t)
  <2>1. m_idleThreadCount' = m_idleThreadCount + 1 - 0
      BY <1>1, <1>3 DEF EnterIdle
  <2> QED
      BY <1>1, <1>3, <2>1, GoesIdly DEF EnterIdle, Idling, histVars
<1>4. CASE CheckPending(t)
  <2>1. PICK l \in {"idle2", "wait"} : Goto(t, l)
      BY <1>4 DEF CheckPending
  <2>2. m_idleThreadCount' = m_idleThreadCount + 1 - 1
      BY <1>1, <1>4 DEF CheckPending, schedVars
  <2> QED
      BY <1>1, <1>4, <2>1, <2>2, GoesIdly DEF CheckPending, schedVars, Idling, histVars
<1>5. CASE CheckStopping(t) /\ BaseStopping
  <2>1. m_idleThreadCount' = m_idleThreadCount + 0 - 1
      BY <1>1, <1>5 DEF CheckStopping, IdleDown
  <2> QED
      BY <1>1, <1>5, <2>1, GoesIdly DEF CheckStopping, BaseStopping, Idling, histVars
<1>6. CASE CheckStopping(t) /\ ~BaseStopping
  <2>1. m_idleThreadCount' = m_idleThreadCount + 1 - 1
      BY <1>1, <1>6 DEF CheckStopping
  <2> QED
      BY <1>1, <1>6, <2>1, GoesIdly DEF CheckStopping, Idling, histVars
<1>7. CASE WaitTimeout(t)
  <2>1. m_idleThreadCount' = m_idleThreadCount + 1 - 1
      BY <1>1, <1>7 DEF WaitTimeout, schedVars
  <2> QED
      BY <1>1, <1>7, <2>1, GoesIdly DEF WaitTimeout, schedVars, Idling, histVars
<1>8. CASE LeaveIdle(t)
  <2>1. m_idleThreadCount' = m_idleThreadCount + 0 - 1
      BY <1>1, <1>8 DEF LeaveIdle, IdleDown
  <2>2. /\ stale' \in [Runners -> SUBSET Fds]
        /\ \A u \in Runners : stale[u] \subseteq stale'[u] \/ u = t
      BY <1>1, <1>8 DEF LeaveIdle
  <2> QED
      BY <1>8, <2>1, <2>2, GoesIdly DEF LeaveIdle, Idling
<1> QED
    BY <1>2, <1>3, <1>4, <1>5, <1>6, <1>7, <1>8

LEMMA WaitReturnsKeeps ==
    ASSUME IInv, NEW t \in Runners, WaitReturns(t)
    PROVE  IInv'
<1>1. UNCHANGED <<m_fibers, m_activeThreadCount, m_idleThreadCount, m_stopping, m_autoStop, main,
                  events, ctx, m_pendingEventCount, interest, level, pipe, idleTerm, task, job,
                  tickles, born, ended, deleted, stale, failed>>
    BY DEF WaitReturns, schedVars, stopVars, fdVars, callVars, histVars
<1>2. /\ m_activeThreadCount \in Nat /\ m_idleThreadCount \in Nat
      /\ got \in [Runners -> [Fds -> SUBSET Conditions]] /\ gotPipe \in [Runners -> BOOLEAN]
      /\ level \in [Fds -> SUBSET Conditions] /\ pipe \in BOOLEAN /\ pipeEdge \in BOOLEAN
    BY RunnersFinite, FS_CardinalityType DEF IInv, Agreement, TypeOK
<1>3. pc[t] = "wait" /\ Goto(t, "events") /\ edge' = {} /\ pipeEdge' = FALSE
    BY DEF WaitReturns
<1>4. /\ Stages' /\ TakerLeft' /\ Counts'
      /\ pc' \in [Runners -> {"off", "loop", "body", "none", "idle", "idle2", "wait", "events",
                              "exited"}]
      /\ m_activeThreadCount' \in 0 .. Cardinality(Runners)
      /\ m_idleThreadCount' \in 0 .. Cardinality(Runners)
      /\ pc'[t] = "events" /\ \A u \in Runners \ {t} : pc'[u] = pc[u]
  <2>1. m_activeThreadCount' = m_activeThreadCount + 0 - 0
      BY <1>1, <1>2
  <2>2. m_idleThreadCount' = m_idleThreadCount + 1 - 1
      BY <1>1, <1>2
  <2> QED
      BY <1>1, <1>3, <2>1, <2>2, Moves DEF Idling
<1>5. \A fd \in Fds : Reports(interest[fd], level[fd]) \in SUBSET Conditions
    BY <1>2 DEF Reports
<1>6. /\ got' \in [Runners -> [Fds -> SUBSET Conditions]]
      /\ \A fd \in Fds : got'[t][fd] = IF fd \in ReadyFds THEN Reports(interest[fd], level[fd]) ELSE {}
      /\ \A u \in Runners \ {t} : got'[u] = got[u]
    BY <1>2, <1>5 DEF WaitReturns
<1>7. /\ gotPipe' \in [Runners -> BOOLEAN]
      /\ \A u \in Runners \ {t} : gotPipe'[u] = gotPipe[u]
    BY <1>2 DEF WaitReturns, ReadyPipe
<1>8. OnItsWay'
  <2>1. SUFFICES ASSUME NEW f \in Fds \ Refused, NEW e \in interest[f], Wanted(e) \in level[f]
                 PROVE  \E u \in Runners : Wanted(e) \in got'[u][f]
      BY <1>1 DEF OnItsWay, Wanted
  <2>2. f \in edge \/ \E u \in Runners : Wanted(e) \in got[u][f]
      BY <2>1 DEF IInv, Agreement, OnItsWay
  <2>3. CASE f \in edge
    <3>1. Wanted(e) \in Reports(interest[f], level[f])
        BY <2>1 DEF Reports
    <3>2. f \in ReadyFds
        BY <2>3, <3>1 DEF ReadyFds
    <3> QED
        BY <1>6, <3>1, <3>2
  <2>4. ASSUME NEW u \in Runners, Wanted(e) \in got[u][f]
        PROVE  Wanted(e) \in got'[u][f]
    <3>1. u # t
        BY <1>3, <2>4 DEF IInv, Agreement, Locals
    <3> QED
        BY <1>6, <2>4, <3>1
  <2> QED
      BY <2>2, <2>3, <2>4
<1>9. Locals'
    BY <1>1, <1>3, <1>4, <1>6, <1>7 DEF IInv, Agreement, Locals
<1>10. Triggers'
  <2>1. \A f \in Fds : Known(f)' = Known(f)
      BY <1>1 DEF Known, Adds, Todo
  <2>2. ASSUME NEW f \in Fds, ~HungUp(f)
        PROVE  RealEvents(got'[t][f]) \subseteq Known(f)
    <3>1. got'[t][f] \subseteq {Wanted(e) : e \in interest[f]}
        BY <1>6, <2>2 DEF Reports, HungUp
    <3>2. "HUP" \notin got'[t][f] /\ interest[f] \subseteq Event
        BY <3>1 DEF Wanted, IInv, Agreement, TypeOK
    <3>3. ASSUME NEW e \in Event, Wanted(e) \in got'[t][f]
          PROVE  e \in interest[f]
        BY <3>1, <3>2, <3>3 DEF Wanted, Event
    <3> QED
        BY <3>2, <3>3, KnownEvents DEF RealEvents
  <2>3. Reported'
    <3>1. ASSUME NEW u \in Runners, NEW f \in Fds
          PROVE  f \in stale[u] \/ HungUp(f) \/ RealEvents(got'[u][f]) \subseteq Known(f)
      <4>1. CASE u = t
          BY <2>2, <4>1
      <4>2. CASE u # t
          BY <1>6, <4>2 DEF IInv, Triggers, Reported
      <4> QED
          BY <4>1, <4>2
    <3> QED
        BY <1>1, <2>1, <3>1 DEF Reported, HungUp
  <2>4. Handled'
    <3>1. \A u \in Runners : pc[u] = "events" => pc'[u] = "events"
        BY <1>3, <1>4
    <3> QED
        BY <1>1, <3>1 DEF IInv, Triggers, Handled, Handles, HungUp, Todo
  <2> QED
      BY <2>3, <2>4 DEF Triggers
<1>11. TypeOK'
    BY <1>1, <1>3, <1>4, <1>6, <1>7 DEF IInv, Agreement, TypeOK
<1> QED
    BY <1>1, <1>4, <1>8, <1>9, <1>10, <1>11, Frames DEF IInv, Agreement

LEMMA DrainPipeKeeps ==
    ASSUME IInv, NEW t \in Runners, DrainPipe(t)
    PROVE  IInv'
<1>1. UNCHANGED <<m_fibers, m_activeThreadCount, m_idleThreadCount, m_stopping, m_autoStop, main,
                  events, ctx, m_pendingEventCount, interest, level, edge, pipeEdge, pc, idleTerm,
                  task, got, job, tickles, born, ended, deleted, stale, failed>>
    BY DEF DrainPipe, schedVars, stopVars, fdVars, callVars, histVars
<1>2. /\ gotPipe' \in [Runners -> BOOLEAN] /\ pipe' \in BOOLEAN
      /\ \A u \in Runners : gotPipe'[u] => gotPipe[u]
    BY DEF DrainPipe, IInv, Agreement, TypeOK
<1>3. Locals'
    BY <1>1, <1>2 DEF IInv, Agreement, Locals
<1>4. TypeOK'
    BY <1>1, <1>2 DEF IInv, Agreement, TypeOK
<1> QED
    BY <1>1, <1>3, <1>4, Frames DEF IInv, Agreement

-----------------------------------------------------------------------------
(* stop() *)

(* Root goes on in stop(), outside of run(). *)
LEMMA StopsOn ==
    ASSUME IInv,
           UNCHANGED <<schedVars, fdVars, kernVars, runVars, job, histVars>>,
           Stages', TakerLeft',
           main' \in {"up", "set", "call", "call2", "in_call", "join", "stopped"},
           m_stopping' \in BOOLEAN, m_autoStop' \in BOOLEAN, tickles' \in [Actors -> Nat]
    PROVE  IInv'
<1>1. UNCHANGED <<m_fibers, m_activeThreadCount, m_idleThreadCount, events, ctx, m_pendingEventCount,
                  interest, level, edge, pipe, pipeEdge, pc, idleTerm, task, got, gotPipe, job,
                  born, ended, deleted, stale, failed>>
    BY DEF schedVars, fdVars, kernVars, runVars, histVars
<1>2. TypeOK'
    BY <1>1 DEF IInv, Agreement, TypeOK
<1> QED
    BY <1>1, <1>2, Frames DEF IInv, Agreement

(* Root enters run() inside stop(). *)
LEMMA RootCallsKeeps ==
    ASSUME IInv, RootCalls, main \in {"call", "call2"},
           UNCHANGED <<schedVars, m_stopping, m_autoStop, fdVars, kernVars, idleTerm, task, got,
                       gotPipe, callVars, histVars>>,
           tickles[Root] = 0
    PROVE  IInv'
<1>1. UNCHANGED <<m_fibers, m_activeThreadCount, m_idleThreadCount, m_stopping, m_autoStop, events,
                  ctx, m_pendingEventCount, interest, level, edge, pipe, pipeEdge, idleTerm, task,
                  got, gotPipe, job, tickles, born, ended, deleted, stale, failed>>
    BY DEF schedVars, fdVars, kernVars, callVars, histVars
<1>2. Root \in Runners /\ UseCaller /\ pc[Root] = "off"
    BY DEF IInv, Stages, Runners
<1>3. /\ pc' \in [Runners -> {"off", "loop", "body", "none", "idle", "idle2", "wait", "events",
                              "exited"}]
      /\ pc'[Root] = "loop" /\ \A u \in Runners \ {Root} : pc'[u] = pc[u]
      /\ main' = "in_call"
    BY <1>2 DEF RootCalls, Goto, IInv, Agreement, TypeOK
<1>4. Stages'
  <2>1. /\ \A b \in Actors : job[b].fd # None => InRun(b)'
        /\ \A b \in Actors : tickles[b] > 0 => InRun(b)'
      BY <1>2, <1>3 DEF IInv, Stages, InRun
  <2>2. Root \notin Pool
      BY IOManagerAssumption
  <2> QED
      BY <1>1, <1>2, <1>3, <2>1, <2>2 DEF IInv, Stages, Runners
<1>5. TakerLeft'
    BY <1>2, <1>3 DEF TakerLeft, Gone
<1>6. Counts'
  <2>1. At({"body"})' = At({"body"}) /\ At(Idling)' = At(Idling)
      BY <1>2, <1>3 DEF At, Idling
  <2> QED
      BY <1>1, <2>1 DEF IInv, Agreement, Counts
<1>7. Locals'
    BY <1>1, <1>2, <1>3 DEF IInv, Agreement, Locals
<1>8. TypeOK'
    BY <1>1, <1>3 DEF IInv, Agreement, TypeOK
<1>9. Triggers'
    BY <1>1, <1>2, <1>3, TriggersStay DEF HungUp
<1> QED
    BY <1>1, <1>4, <1>5, <1>6, <1>7, <1>8, <1>9, Frames DEF IInv, Agreement

LEMMA StopKeeps ==
    ASSUME IInv, main # "stopped", Stop
    PROVE  IInv'
<1>1. /\ tickles \in [Actors -> Nat] /\ Root \in Actors /\ Root \notin Pool
      /\ m_stopping \in BOOLEAN /\ m_autoStop \in BOOLEAN
      /\ Cardinality(Runners) \in Nat
    BY RunnersFinite, FS_CardinalityType, IOManagerAssumption DEF IInv, Agreement, TypeOK, Actors
<1>2. CASE StopBegin
  <2>1. /\ UNCHANGED <<schedVars, fdVars, kernVars, runVars, job, tickles, histVars>>
        /\ UNCHANGED <<m_fibers, pc, idleTerm>>
        /\ main = "up" /\ m_autoStop' = TRUE
      BY <1>2 DEF StopBegin, callVars, schedVars, runVars
  <2>2. /\ job[Root].fd = None /\ tickles[Root] = 0
      BY <1>1, <1>2 DEF StopBegin, Busy
  <2>3. \/ m_stopping' = m_stopping /\ main' = "set"
        \/ m_stopping' = TRUE /\ Pool = {} /\ main' = "set"
        \/ m_stopping' = TRUE /\ Pool = {} /\ main' = "stopped" /\ m_fibers = <<>>
      BY <1>2 DEF StopBegin
  <2>4. Stages'
      BY <2>1, <2>2, <2>3 DEF IInv, Stages, InRun, PoolJoined
  <2>5. TakerLeft'
      BY <2>1, <2>3 DEF IInv, TakerLeft, Gone
  <2> QED
      BY <1>1, <2>1, <2>3, <2>4, <2>5, StopsOn
<1>3. CASE StopSet
  <2>1. /\ UNCHANGED <<schedVars, fdVars, kernVars, runVars, job, histVars, m_autoStop>>
        /\ UNCHANGED <<m_fibers, pc, idleTerm>>
        /\ main = "set" /\ m_stopping' = TRUE
        /\ main' = IF UseCaller THEN "call" ELSE "join"
      BY <1>3 DEF StopSet, schedVars, runVars
  <2>2. tickles' \in [Actors -> Nat] /\ \A b \in Actors \ {Root} : tickles'[b] = tickles[b]
      BY <1>1, <1>3 DEF StopSet
  <2>3. ~UseCaller => Root \notin Runners
      BY <1>1 DEF Runners
  <2>4. Stages'
      BY <2>1, <2>2, <2>3 DEF IInv, Stages, InRun, PoolJoined
  <2>5. TakerLeft'
      BY <2>1, <2>3 DEF IInv, TakerLeft, Gone
  <2> QED
      BY <1>1, <2>1, <2>2, <2>4, <2>5, StopsOn
<1>4. CASE StopPending
  <2>1. /\ UNCHANGED <<schedVars, m_stopping, m_autoStop, fdVars, kernVars, idleTerm, task, got,
                       gotPipe, callVars, histVars>>
        /\ main = "call" /\ tickles[Root] = 0
      BY <1>4 DEF StopPending
  <2>2. CASE RootCalls
      BY <2>1, <2>2, RootCallsKeeps
  <2>3. CASE main' = "call2" /\ UNCHANGED pc
    <3>1. UNCHANGED <<schedVars, fdVars, kernVars, runVars, job, histVars, m_autoStop, m_stopping,
                      tickles, m_fibers, pc, idleTerm>>
        BY <2>1, <2>3 DEF schedVars, runVars, callVars
    <3>2. Stages'
        BY <2>1, <2>3, <3>1 DEF IInv, Stages, InRun, PoolJoined
    <3>3. TakerLeft'
        BY <2>1, <2>3, <3>1 DEF IInv, TakerLeft, Gone
    <3> QED
        BY <1>1, <2>3, <3>1, <3>2, <3>3, StopsOn
  <2> QED
      BY <1>4, <2>2, <2>3 DEF StopPending
<1>5. CASE StopCall
  <2>1. /\ UNCHANGED <<schedVars, m_stopping, m_autoStop, fdVars, kernVars, idleTerm, task, got,
                       gotPipe, callVars, histVars>>
        /\ main = "call2"
      BY <1>5 DEF StopCall
  <2>2. tickles[Root] = 0
    <3>1. ~InRun(Root)
        BY <2>1 DEF IInv, Stages, InRun
    <3>2. tickles[Root] \in Nat /\ ~(tickles[Root] > 0)
        BY <1>1, <2>1, <3>1 DEF IInv, Stages
    <3> QED
        BY <3>2
  <2>3. CASE RootCalls
      BY <2>1, <2>2, <2>3, RootCallsKeeps
  <2>4. CASE BaseStopping /\ main' = "join" /\ UNCHANGED pc
    <3>1. UNCHANGED <<schedVars, fdVars, kernVars, runVars, job, histVars, m_autoStop, m_stopping,
                      tickles, m_fibers, pc, idleTerm>>
        BY <2>1, <2>4 DEF schedVars, runVars, callVars
    <3>2. Stages'
        BY <2>1, <2>4, <3>1 DEF IInv, Stages, InRun, PoolJoined
    <3>3. TakerLeft'
        BY <2>4, <3>1 DEF BaseStopping, TakerLeft
    <3> QED
        BY <1>1, <2>4, <3>1, <3>2, <3>3, StopsOn
  <2> QED
      BY <1>5, <2>3, <2>4 DEF StopCall
<1>6. CASE StopCallReturns
  <2>1. /\ UNCHANGED <<schedVars, fdVars, kernVars, runVars, job, histVars, m_autoStop, m_stopping,
                       tickles, m_fibers, pc, idleTerm>>
        /\ main = "in_call" /\ main' = "join" /\ pc[Root] = "exited"
      BY <1>6 DEF StopCallReturns, schedVars, runVars, callVars
  <2>2. Stages'
      BY <2>1 DEF IInv, Stages, InRun, PoolJoined
  <2>3. TakerLeft'
      BY <2>1 DEF IInv, TakerLeft, Gone
  <2> QED
      BY <1>1, <2>1, <2>2, <2>3, StopsOn
<1>7. CASE StopJoin
  <2>1. /\ UNCHANGED <<schedVars, fdVars, kernVars, runVars, job, histVars, m_autoStop, m_stopping,
                       tickles, m_fibers, pc, idleTerm>>
        /\ main = "join" /\ main' = "stopped" /\ tickles[Root] = 0 /\ PoolJoined
      BY <1>7 DEF StopJoin, schedVars, runVars, callVars
  <2>2. Stages'
      BY <2>1 DEF IInv, Stages, InRun, PoolJoined
  <2>3. TakerLeft'
      BY <2>1 DEF IInv, TakerLeft, Gone
  <2> QED
      BY <1>1, <2>1, <2>2, <2>3, StopsOn
<1> QED
    BY <1>2, <1>3, <1>4, <1>5, <1>6, <1>7 DEF Stop

-----------------------------------------------------------------------------
(* The invariant *)

LEMMA InvInit == Init => IInv
<1> SUFFICES ASSUME Init
             PROVE  IInv
    OBVIOUS
<1>1. /\ \A a \in Actors : /\ job[a].fd = None /\ job[a].add = None /\ ~job[a].owed
                           /\ job[a].todo = <<>> /\ tickles[a] = 0
      /\ job \in [Actors -> Job] /\ tickles \in [Actors -> Nat]
    BY DEF Init, NoJob, Job
<1>2. /\ pc \in [Runners -> {"loop", "off"}]
      /\ \A t \in Pool : pc[t] = "loop"
      /\ Root \in Runners => pc[Root] = "off"
    BY IOManagerAssumption DEF Init, Runners
<1>3. /\ At({"body"}) = {} /\ At(Idling) = {} /\ Owing = {} /\ Registrations = {}
    BY <1>1, <1>2 DEF At, Idling, Owing, Registrations, Init
<1>4. Cardinality(Runners) \in Nat /\ Cardinality({}) = 0
    BY RunnersFinite, FS_CardinalityType, FS_EmptySet
<1>5. TypeOK
  <2>1. /\ m_fibers \in Seq(Tasks) /\ m_activeThreadCount \in 0 .. Cardinality(Runners)
        /\ m_idleThreadCount \in 0 .. Cardinality(Runners) /\ m_pendingEventCount \in Nat
      BY <1>4 DEF Init
  <2>2. /\ events \in [Fds -> SUBSET Event] /\ interest \in [Fds -> SUBSET Event]
        /\ level \in [Fds -> SUBSET Conditions]
      BY DEF Init
  <2>3. ctx \in [Fds -> [Event -> Tasks \cup {None}]]
      BY DEF Init
  <2>4. got \in [Runners -> [Fds -> SUBSET Conditions]]
      BY DEF Init
  <2>5. gotPipe \in [Runners -> BOOLEAN] /\ task \in [Runners -> Tasks \cup {None}]
      BY DEF Init
  <2>6. /\ edge \subseteq Fds /\ pipe \in BOOLEAN /\ pipeEdge \in BOOLEAN /\ idleTerm \subseteq Runners
        /\ born \subseteq Tasks /\ ended \subseteq Tasks /\ deleted \subseteq Tasks
        /\ stale \in [Runners -> SUBSET Fds] /\ failed = "no" /\ m_stopping \in BOOLEAN /\ m_autoStop \in BOOLEAN /\ main = "up"
      BY DEF Init
  <2> QED
      BY <1>1, <1>2, <2>1, <2>2, <2>3, <2>4, <2>5, <2>6 DEF TypeOK
<1>6. Locks /\ Shapes /\ FreeAgrees /\ EventHasTask /\ OnItsWay /\ Locals
    BY <1>1, <1>2 DEF Init, Locks, Shapes, Shape, Todos, FreeAgrees, EventHasTask, OnItsWay, Locals
<1>7. Counts /\ PendingAgrees
  <2>1. /\ Cardinality(At({"body"})) = 0 /\ Cardinality(At(Idling)) = 0
        /\ Cardinality(Owing) = 0 /\ Cardinality(Registrations) = 0
      BY <1>3, <1>4
  <2>2. m_activeThreadCount = 0 /\ m_idleThreadCount = 0 /\ m_pendingEventCount = 0
      BY DEF Init
  <2> QED
      BY <2>1, <2>2 DEF Counts, PendingAgrees
<1>8. Homes
  <2>1. \A c \in Tasks : ~Alive(c) /\ ~Listed(c) /\ ~Awaited(c) /\ ~Offered(c) /\ ~Running(c)
      BY <1>1, IOManagerAssumption DEF Init, Alive, Listed, Awaited, Offered, Running
  <2> QED
      BY <2>1 DEF Init, Homes, Home, ListedOnce, AwaitedOnce, OfferedOnce, RunningOnce, Listed, Awaited,
                  Offered, Running
<1>9. Stages /\ TakerLeft
  <2>1. main = "up" /\ ~m_stopping /\ idleTerm = {} /\ m_fibers = <<>>
      BY DEF Init
  <2>2. \A a \in Actors : job[a].fd = None /\ ~(tickles[a] > 0)
      BY <1>1
  <2>3. \A t \in Runners : pc[t] # "exited"
      BY <1>2
  <2> QED
      BY <1>2, <2>1, <2>2, <2>3 DEF Stages, TakerLeft
<1>10. Triggers
  <2>1. Reported
      BY DEF Init, Reported, RealEvents
  <2>2. Handled
      BY <1>1 DEF Handled, Handles
  <2> QED
      BY <2>1, <2>2 DEF Triggers
<1> QED
    BY <1>5, <1>6, <1>7, <1>8, <1>9, <1>10 DEF IInv, Agreement

LEMMA InvStep ==
    ASSUME IInv, [Next]_vars
    PROVE  IInv'
<1>1. CASE UNCHANGED vars
  <2>1. TypeOK'
      BY <1>1 DEF IInv, Agreement, TypeOK, vars, schedVars, stopVars, fdVars, kernVars, runVars,
                  callVars, histVars
  <2> QED
      BY <1>1, <2>1, Frames DEF IInv, Agreement, vars, schedVars, stopVars, fdVars, kernVars, runVars,
                                callVars, histVars
<1>2. CASE Kernel
    BY <1>2, KernelKeeps
<1>3. CASE ~Over /\ Stop
    BY <1>3, StopKeeps DEF Over
<1>4. ASSUME NEW a \in Actors, Calls(a) \/ Works(a)
      PROVE  IInv'
    BY <1>4, ScheduleTaskKeeps, AddEventKeeps, AddEventTwiceKeeps, DelEventKeeps, CancelKeeps, TickleKeeps,
       AddEventDoneKeeps, TriggerEventKeeps, CountedKeeps DEF Calls, Works
<1>5. ASSUME NEW t \in Runners, Run(t)
      PROVE  IInv'
    BY <1>5, PickKeeps, EndTaskKeeps, IdleKeeps, WaitReturnsKeeps, DrainPipeKeeps, HandleFdKeeps DEF Run
<1> QED
    BY <1>1, <1>2, <1>3, <1>4, <1>5 DEF Next, Ended

(* The inductive invariant of the epoll manager: what each actor still has  *)
(* to do under a mutex accounts for every difference between the contexts,  *)
(* epoll and the counters (iomanager.cc:89-353).                            *)
THEOREM InvariantHolds == Spec => []IInv
<1>1. Init => IInv
    BY InvInit
<1>2. IInv /\ [Next]_vars => IInv'
    BY InvStep
<1> QED
    BY <1>1, <1>2, PTL DEF Spec

-----------------------------------------------------------------------------
(* What follows from it *)

(* m_pendingEventCount is the number of registered events, and of triggers  *)
(* not yet counted (iomanager.cc:124, 168, 203, 337): stopping() reads it   *)
(* without a lock and still never sees 0 while an event is registered.      *)
THEOREM PendingCountAgrees == Spec => []PendingAgrees
<1>1. IInv => PendingAgrees
    BY DEF IInv, Agreement
<1> QED
    BY <1>1, InvariantHolds, PTL

(* While nobody holds FdContext::mutex, epoll is asked for the registered   *)
(* events, and exactly those have a task (iomanager.cc:106-138, 326-342).   *)
THEOREM ContextsAgree == Spec => []ContextAgrees
<1>1. IInv => ContextAgrees
    BY DEF IInv, Agreement, FreeAgrees, EventHasTask, ContextAgrees
<1> QED
    BY <1>1, InvariantHolds, PTL

(* An event that is registered and holds is in epoll's ready list or in the *)
(* array of a thread in idle(): the edge-triggered epoll, which reports an  *)
(* edge once, loses none over the re-arming of line 326, unless epoll_ctl   *)
(* may fail for the descriptor (line 331).                                  *)
THEOREM NothingForgotten == Spec => []NotForgotten
<1>1. IInv => NotForgotten
    BY DEF IInv, Agreement, FreeAgrees, OnItsWay, NotForgotten
<1> QED
    BY <1>1, InvariantHolds, PTL

(* A set with at most one element. *)
LEMMA AtMostOne ==
    ASSUME NEW S, \A x, y \in S : x = y
    PROVE  Cardinality(S) = IF S = {} THEN 0 ELSE 1
<1>1. CASE S = {}
    BY <1>1, FS_EmptySet
<1>2. CASE S # {}
  <2>1. PICK x \in S : TRUE
      BY <1>2
  <2>2. S = {x}
      BY <2>1
  <2> QED
      BY <1>2, <2>2, FS_Singleton
<1> QED
    BY <1>1, <1>2

(* A task handed to schedule() or addEvent() is in one place until it has   *)
(* run or delEvent() has dropped it: triggerEvent and delEvent cannot both  *)
(* take it, and no thread takes it twice (iomanager.cc:34-46, 131-171).     *)
THEOREM TasksHaveOneHome == Spec => []OneHome
<1>1. IInv => OneHome
  <2>1. SUFFICES ASSUME IInv, NEW c \in Tasks
                 PROVE  Places(c) = IF Alive(c) THEN 1 ELSE 0
      BY DEF OneHome, Alive
  <2>2. /\ ListedOnce(c) /\ AwaitedOnce(c) /\ OfferedOnce(c) /\ RunningOnce(c) /\ Home(c)
      BY <2>1 DEF IInv, Homes
  <2> DEFINE L == {i \in DOMAIN m_fibers : m_fibers[i] = c}
             X == {p \in Fds \X Event : ctx[p[1]][p[2]] = c}
             O == {a \in Actors : job[a].add = c}
             R == {t \in Runners : task[t] = c}
  <2>3. Cardinality(L) = IF Listed(c) THEN 1 ELSE 0
    <3>1. \A x, y \in L : x = y
        BY <2>2 DEF ListedOnce
    <3>2. L = {} <=> ~Listed(c)
        BY DEF Listed
    <3> HIDE DEF L
    <3> QED
        BY <3>1, <3>2, AtMostOne
  <2>4. Cardinality(X) = IF Awaited(c) THEN 1 ELSE 0
    <3>1. \A x, y \in X : x = y
        BY <2>2 DEF AwaitedOnce
    <3>2. X = {} <=> ~Awaited(c)
      <4>1. ASSUME NEW fd \in Fds, NEW e \in Event, ctx[fd][e] = c
            PROVE  <<fd, e>> \in X
          BY <4>1
      <4>2. ASSUME NEW p \in X
            PROVE  Awaited(c)
          BY <4>2 DEF Awaited
      <4> QED
          BY <4>1, <4>2 DEF Awaited
    <3> HIDE DEF X
    <3> QED
        BY <3>1, <3>2, AtMostOne
  <2>5. Cardinality(O) = IF Offered(c) THEN 1 ELSE 0
    <3>1. \A x, y \in O : x = y
        BY <2>2 DEF OfferedOnce
    <3>2. O = {} <=> ~Offered(c)
        BY DEF Offered
    <3> HIDE DEF O
    <3> QED
        BY <3>1, <3>2, AtMostOne
  <2>6. Cardinality(R) = IF Running(c) THEN 1 ELSE 0
    <3>1. \A x, y \in R : x = y
        BY <2>2 DEF RunningOnce
    <3>2. R = {} <=> ~Running(c)
        BY DEF Running
    <3> HIDE DEF R
    <3> QED
        BY <3>1, <3>2, AtMostOne
  <2>7. Places(c) = Cardinality(L) + Cardinality(X) + Cardinality(O) + Cardinality(R)
      BY DEF Places
  <2> HIDE DEF L, X, O, R
  <2> QED
      BY <2>2, <2>3, <2>4, <2>5, <2>6, <2>7 DEF Home
<1> QED
    BY <1>1, InvariantHolds, PTL

(* When ~IOManager's stop() has returned, every thread has left run(), the  *)
(* list is empty and nobody is inside an operation: the thread that would   *)
(* have to take the last task cannot have left before it (scheduler.cc:85-  *)
(* 136 with IOManager::stopping, iomanager.cc:263).                         *)
THEOREM StopLeavesNothing == Spec => []StopDrains
<1>1. IInv => StopDrains
  <2>1. SUFFICES ASSUME IInv, main = "stopped"
                 PROVE  /\ m_fibers = <<>>
                        /\ \A t \in Runners : pc[t] \in {"off", "exited"}
                        /\ \A a \in Actors : ~Busy(a)
      BY DEF StopDrains
  <2>2. \A t \in Runners : pc[t] \in {"off", "exited"} /\ Gone(t)
      BY <2>1 DEF IInv, Stages, PoolJoined, Gone, Runners
  <2>3. m_fibers = <<>>
      BY <2>1, <2>2 DEF IInv, TakerLeft
  <2>4. \A a \in Actors : ~InRun(a)
      BY <2>2 DEF InRun
  <2>5. \A a \in Actors : ~Busy(a)
      BY <2>1, <2>4 DEF IInv, Stages, Busy
  <2> QED
      BY <2>2, <2>3, <2>5
<1> QED
    BY <1>1, InvariantHolds, PTL

(* triggerEvent's assertion (iomanager.cc:36) fails only in idle(), and only *)
(* with a report of a hang-up or one that another thread has outdated, since *)
(* epoll_wait returned it, by deleting, canceling or triggering one of its  *)
(* events (iomanager.cc:307-342): for any number of events, descriptors and *)
(* threads.                                                                 *)
THEOREM TriggersExplained == Spec => []OnlyStaleTriggers
<1>1. IInv => OnlyStaleTriggers
  <2>1. SUFFICES ASSUME IInv, NEW a \in Actors, Mistaken(a)
                 PROVE  /\ a \in Runners /\ pc[a] = "events"
                        /\ job[a].fd \in stale[a] \/ "HUP" \in level[job[a].fd]
      BY DEF OnlyStaleTriggers
  <2>2. Shape(a) /\ Handles(a)
      BY <2>1 DEF IInv, Agreement, Shapes, Triggers, Handled
  <2>3. job[a].todo \in Todos /\ job[a].todo # <<>>
      BY <2>1, <2>2 DEF Mistaken, Shape
  <2>4. Head(job[a].todo) \in Todo(a)
      BY <2>3, TodoSets DEF Todo
  <2>5. ~(Todo(a) \subseteq events[job[a].fd])
      BY <2>1, <2>4 DEF Mistaken
  <2> QED
      BY <2>1, <2>2, <2>5 DEF Mistaken, Handles, HungUp
<1> QED
    BY <1>1, InvariantHolds, PTL
=============================================================================
