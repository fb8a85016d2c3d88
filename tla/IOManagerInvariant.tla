------------------------- MODULE IOManagerInvariant -------------------------
(***************************************************************************)
(* Why epoll_wait, the contexts and the count of pending events agree,     *)
(* although only one of them is under a lock: an operation on a descriptor *)
(* holds FdContext::mutex from its epoll_ctl to its last assignment, so    *)
(* what it has not yet done can be read off its local variables.           *)
(***************************************************************************)
EXTENDS IOManager

(* The events an operation is still to add or to trigger. *)
Todo(a) == ToSet(job[a].todo)

(* FdContext::mutex is a mutex. *)
Locks == \A a, b \in Actors : job[a].fd # None /\ job[a].fd = job[b].fd => a = b

(* What an operation under the mutex has before it: addEvent one event that *)
(* is not registered yet; cancelEvent, cancelAll and idle() events that     *)
(* epoll is no longer asked for, or a decrement.                            *)
Todos == {<<>>, <<"READ">>, <<"WRITE">>, <<"READ", "WRITE">>}

Shape(a) ==
    LET j == job[a] IN
    /\ j.todo \in Todos
    /\ IF j.fd = None
       THEN j.todo = <<>> /\ j.add = None /\ ~j.owed
       ELSE IF j.add # None
       THEN /\ ~j.owed
            /\ \E e \in Event \ events[j.fd] :
                  j.todo = <<e>> /\ interest[j.fd] = events[j.fd] \cup {e}
       ELSE /\ interest[j.fd] = events[j.fd] \ Todo(a)
            /\ j.owed \/ j.todo # <<>>

Shapes == \A a \in Actors : Shape(a)

FreeAgrees == \A fd \in Fds : Free(fd) => interest[fd] = events[fd]

EventHasTask == \A fd \in Fds, e \in Event : e \in events[fd] <=> ctx[fd][e] # None

(* An event that epoll is asked for and that holds is on its way. *)
OnItsWay ==
    \A fd \in Fds \ Refused : \A e \in interest[fd] : Wanted(e) \in level[fd] =>
        fd \in edge \/ \E t \in Runners : Wanted(e) \in got[t][fd]

(* The variables of run() and idle(), and the two counts, by where the      *)
(* threads are.                                                             *)
Idling == {"idle", "idle2", "wait", "events"}

Locals ==
    \A t \in Runners : /\ task[t] # None <=> pc[t] = "body"
                       /\ pc[t] # "events" => ~gotPipe[t] /\ \A fd \in Fds : got[t][fd] = {}

At(labels) == {t \in Runners : pc[t] \in labels}

Counts == /\ m_activeThreadCount = Cardinality(At({"body"}))
          /\ m_idleThreadCount = Cardinality(At(Idling))

Agreement == /\ TypeOK /\ Locks /\ Shapes /\ FreeAgrees /\ EventHasTask
             /\ OnItsWay /\ Locals /\ Counts /\ PendingAgrees

-----------------------------------------------------------------------------
(* Where a task is: in the list, in a context, with an addEvent under way,  *)
(* or with a thread.  It is in one of these until it has run or is deleted, *)
(* and there once.                                                          *)
Listed(c)  == \E i \in DOMAIN m_fibers : m_fibers[i] = c
Awaited(c) == \E fd \in Fds, e \in Event : ctx[fd][e] = c
Offered(c) == \E a \in Actors : job[a].add = c
Running(c) == \E t \in Runners : task[t] = c
Alive(c)   == c \in born \ (ended \cup deleted)

ListedOnce(c)  == \A i, j \in DOMAIN m_fibers : m_fibers[i] = c /\ m_fibers[j] = c => i = j
AwaitedOnce(c) == \A f, g \in Fds, d, e \in Event :
                     ctx[f][d] = c /\ ctx[g][e] = c => f = g /\ d = e
OfferedOnce(c) == \A a, b \in Actors : job[a].add = c /\ job[b].add = c => a = b
RunningOnce(c) == \A t, u \in Runners : task[t] = c /\ task[u] = c => t = u

Home(c) == /\ Alive(c) <=> Listed(c) \/ Awaited(c) \/ Offered(c) \/ Running(c)
           /\ Listed(c) => ~Awaited(c) /\ ~Offered(c) /\ ~Running(c)
           /\ Awaited(c) => ~Offered(c) /\ ~Running(c)
           /\ Offered(c) => ~Running(c)

Homes == /\ ended \cup deleted \subseteq born
         /\ \A c \in Tasks : /\ ListedOnce(c) /\ AwaitedOnce(c)
                             /\ OfferedOnce(c) /\ RunningOnce(c)
                             /\ Home(c)

-----------------------------------------------------------------------------
(* What a thread was told in epoll_wait is registered, or about to be: if   *)
(* not the report is stale, or of a hang-up.  And an operation triggers     *)
(* what is registered, but for idle() with such a report.                   *)
HungUp(fd) == "HUP" \in level[fd]

Adds(a, fd) == job[a].fd = fd /\ job[a].add # None

Known(fd) == events[fd] \cup UNION {Todo(a) : a \in {b \in Actors : Adds(b, fd)}}

Reported ==
    \A t \in Runners, fd \in Fds :
        fd \in stale[t] \/ HungUp(fd) \/ RealEvents(got[t][fd]) \subseteq Known(fd)

Handles(a) == LET fd == job[a].fd IN
    fd # None /\ job[a].add = None =>
       \/ Todo(a) \subseteq events[fd]
       \/ a \in Runners /\ pc[a] = "events" /\ (fd \in stale[a] \/ HungUp(fd))

Handled == \A a \in Actors : Handles(a)

Triggers == Reported /\ Handled

-----------------------------------------------------------------------------
(* Where Root and the others are between the begin and the end of stop(). *)
InRun(a) == a \in Runners /\ pc[a] \in {"body", "events"}

Gone(t) == \/ pc[t] = "exited"
           \/ t = Root /\ pc[t] = "off" /\ main \in {"join", "stopped"}

Stages ==
    /\ \A a \in Actors :
          /\ job[a].fd # None => InRun(a) \/ (a = Root /\ main = "up")
          /\ tickles[a] > 0 => InRun(a) \/ (a = Root /\ main \in {"up", "call", "join"})
    /\ main = "up" => ~m_stopping
    /\ main \in {"call", "call2", "in_call"} => UseCaller
    /\ \A t \in Pool : pc[t] # "off"
    /\ Root \in Runners /\ main \in {"up", "set", "call", "call2"} => pc[Root] = "off"
    /\ Root \in Runners /\ main \in {"join", "stopped"} => pc[Root] \in {"off", "exited"}
    /\ main = "stopped" => PoolJoined /\ tickles[Root] = 0
    /\ idleTerm # {} => m_stopping
    /\ \A t \in Runners : pc[t] = "exited" => t \in idleTerm

TakerLeft == m_fibers # <<>> => \E t \in Runners : ~Gone(t)

IInv == Agreement /\ Homes /\ Stages /\ TakerLeft /\ Triggers
=============================================================================
