# vity in TLA+

vity is a C++ server framework: coroutines on `ucontext`, an M:N scheduler of coroutines on
threads, an epoll event loop on top of the scheduler, a table of configuration variables with
change listeners, and a logger that is configured through it. This directory models the parts in
which threads meet, checks them with TLC on small instances, and proves the safety properties with
TLAPS for every size.

Paths below are relative to `src/vity/`. The code is compiled without `NDEBUG` (`CMakeLists.txt`),
so `VITY_ASSERT` aborts the program, and with `-O0`.

## 1. Inventory

| component | state | operations | meets |
|---|---|---|---|
| **Scheduler** (`scheduler.h/.cc`) | `m_fibers` (list of `FiberAndThread`), `m_mutex`, `m_activeThreadCount`, `m_idleThreadCount`, `m_stopping`, `m_autoStop`, the threads; per thread the locals of `run()` (`ft`, `cb_fiber`, the idle fiber) | `start`, `schedule`, `run`, `idle`, `stopping`, `stop`, `tickle` | every thread; bodies call `schedule` on it; IOManager derives from it |
| **Fiber** (`fiber.h/.cc`) | `m_state`, `m_cb`, the context; thread-locals `t_fiber`, `t_threadFiber`, the caller's context | `reset`, `swapIn`, `swapOut`, `call`, `back`, `YieldToReady`, `YieldToHold`, `MainFunc`, `CallerMainFunc` | the thread that runs it writes `m_state`, every thread that scans the list reads it, with no lock |
| **IOManager** (`iomanager.h/.cc`) | `m_fdContexts` with `events`, `read`, `write` and a mutex each; `m_pendingEventCount`; the epoll set; the tickle pipe | `addEvent`, `delEvent`, `cancelEvent`, `cancelAll`, `triggerEvent`, `tickle`, `idle`, `stopping`, `contextResize` | the kernel; the scheduler's list, counters and `stopping()` |
| **Thread, Semphore** (`thread.h/.cc`) | the pthread, a semaphore for the start | constructor, `run`, `join`, destructor | Scheduler::start and stop |
| **Locks** (`thread.h`) | | `Mutex`, `RWMutex`, `Spinlock`, `CASLock` and their scoped guards | everyone |
| **Config** (`config.h/.cc`) | the table `s_datas` under one `RWMutex`; per variable `m_val`, `m_cbs` under one `RWMutex`; per type the static `s_fun_id` | `Lookup` (two forms), `LookupBase`, `LoadFromYaml`, `Visit`, `setValue`, `fromString`, `addListener`, `delListener`, `clearListener`, and readers | any thread; listeners are called under a lock; the logger is one |
| **Log configuration** (`log.h/.cc`) | `LogManager::m_loggers`; per `Logger` level, formatter, appenders; per appender level, formatter, `m_hasFormatter` | `getLogger`, `addAppender`, `delAppender`, `clearAppender`, `setFormatter`, the listener for `"logs"` | Config; every thread that logs |
| **Log formatting** (`log.cc`) | the parsed items of a pattern | `LogFormatter::init`, `format` | |
| **Utilities** (`utils`, `macro.h`, `singleton.h`) | none | thread ids, backtraces, assertions | |

What is hard, and what makes each part correct:

* **Scheduler and Fiber.** A fiber migrates between threads. No lock guards it: what keeps two
  threads off one stack is that its `Fiber::ptr` is in one place at a time. `m_state` says HOLD or
  READY *before* the stack is left (`fiber.cc:221`, `229`), the active count goes down *before* a
  READY fiber is back in the list (`scheduler.cc:206`, `233`), `stopping()` is asked by each thread
  for itself. Correct means: no stack shared, no task lost, doubled, or run by a thread it was not
  meant for; counters agree with the threads; `stop()` returns, and with nothing left.
* **IOManager.** epoll is edge triggered and needs no lock; contexts are guarded one by one; the
  count of pending events by none. Correct means: count, contexts and epoll agree; no readiness is
  lost; a task waiting for an event is run once or deleted; a sleeping thread wakes; `stop()`
  returns when nothing is pending and not before.
* **Config.** `setValue` notifies under one lock and assigns under the next; a table lock, variable
  locks, listeners that may throw. Correct means: one variable per name; listeners in step with the
  value; keys that identify; no lock left held.
* **Fiber, on its own.** `t_fiber`, the pointer of `GetMainFiber()` and the saved contexts are kept per
  thread, but a fiber goes from thread to thread; `MainFunc` lets go of its own fiber before it leaves its
  stack. Correct means: on a fiber's stack `GetThis()` is that fiber; there is always a way back; no fiber
  is destroyed while someone is on its stack.
* **Log configuration.** Reconfiguration while others log; a diff of old and new definitions that
  relies on hand-written comparisons. Correct means: after any sequence of reloads the loggers are what
  `"logs"` says; no message is lost on the way that root takes; no appender is without a formatter; text
  reads back as what was written, as far as it is read.

`PROJECT.json` lists the hazards line by line, with the property that watches each or the reason
why none does yet.

## 2. Plan and state of the work

| # | module | subject | state |
|---|---|---|---|
| 1 | `Scheduler` | run, schedule, start, stop, with fibers | done |
| 2 | `TaskPool`, `SchedulerRefinement` | what the scheduler promises, and that it does | done |
| 3 | `SchedulerInvariant`, `SchedulerProofs`, `SchedulerTaskProofs`, `SchedulerRefinementProofs` | the inductive invariant of the scheduler; types and ownership; tasks, counters, assertions and `stop()`; the refinement | all safety properties proved, and the refinement |
| 4 | `IOManager`, `IOManagerInvariant`, `IOManagerProofs` | event loop on a simplified scheduler | done; all safety properties proved |
| 5 | `Config`, `ConfigInvariant`, `ConfigProofs` | variables, listeners, YAML | done; all safety properties proved |
| 6 | `LogConfig`, `LogPattern`, `LogConfigProofs`, `LogPatternProofs` | LogManager, appenders, formatters, the listener for `"logs"`, its conversions; the pattern parser | done; all safety properties proved |
| 7 | `Fiber`, `FiberProofs` | `t_fiber`, the saved contexts, the lifetime of the objects | done; all invariants proved |
| 8 | `FdTable` | growth of `m_fdContexts` by two `addEvent`s at once (`iomanager.cc:92-101`) | not done, see section 6 |
| 9 | `SchedulerInvariant`, `SchedulerTaskProofs` (last sections) | the scheduler with one runner, wakers at any time and pointers scheduled twice (`SoloInv`) | done; its safety properties proved |

## 3. The modules and the code

Every module declares the sizes as CONSTANTS, with a named ASSUME where it needs one, has one
action per step that another thread can tell apart, and names each bound. Definitions carry the names
of the source; `PROJECT.json` maps each to its lines. The block "Wrong on purpose" in a module
holds deliberately faulty versions of single lines: replacing the right definition by one of these
must break the property that is about it.

### Scheduler

A *runner* is a thread in `run()`: the pool threads, and Root (the thread that constructs the
scheduler) if `use_caller`. `pc[t]` is the place in `run()`, `ft[t]` and `cb_fiber[t]` its locals.

| code | actions |
|---|---|
| `run()` 160-194, taking an entry under `m_mutex` | `Pick`, `PickNothing` (with `Takes`: the thread pin and the EXEC test) |
| 200-204, 220-231, 248-253 | `DispatchFiber`, `DispatchCb`, `DropEnded` |
| `swapIn` | `SwapInCheck` (the assertion), `SwapIn` (the switch): two steps |
| the body | `BodySchedule`, `BodyWake`, `YieldToReady`, `Arm` + `YieldToHold`, `Return`, `Throw` |
| `swapOut` | the state is written by the yield, `SwapOut` leaves the stack: two steps |
| 205-219, 232-247 after the switch | `Deactivate`, then `Requeue`, `LetGo`, `KeepSpare` or `HoldCb` |
| 258-267 and `idle()` | `EnterIdle`, `IdleCheck`, `LeaveIdle`, `ExitRun` |
| `start()`, `stop()` | `Start`, `StopBegin`, `StopEarly`, `StopSet`, `StopCall`, `StopCallReturns`, `StopJoin` |
| the program | `MainScheduleCb`, `MainScheduleFiber`, `MainScheduleAgain`, `MainWake` |

A fiber that holds itself with `YieldToHold` needs someone to schedule it again: `waker` is the set
of fibers somebody (an event context, `iomanager.cc:131-138`) holds the pointer of. `PromptWake`
says whether that somebody may fire before the fiber's thread has put it away. The code does
nothing to prevent it; `SchedPromptWake` shows what happens then, `sched_pool`, `sched_caller` and most of
the proofs take it as excluded, as a program that must not hit this flaw has to see to itself.
With a single runner it does no harm, which is proved too (`SoloInv`).

`tickle()` and the pipe do nothing in this class. The overload of `schedule` for iterators does not
compile when used (`scheduler.h:61`) and is left out. The stack of the idle fiber, allocation and
`ucontext` are abstracted to `onStack`, the set of threads executing on a fiber's stack.

An assertion that fails aborts the program. Three of them end the model in a state of its own (`failed`): `swapIn`
on a fiber that executes (`fiber.cc:204`), `run()` finding the fiber it left EXEC (`scheduler.cc:215`), "never
reach" (`fiber.cc:196`). The others are read off the state in which they are reached, by `NoAssertFailure`: an entry that
names nothing (`scheduler.cc:180`), a spare fiber `reset()` refuses (`fiber.cc:112`), a switch to a fiber that
has returned (`fiber.cc:169`).

### TaskPool and SchedulerRefinement

`TaskPool` is the promise of `schedule`/`stop` with no list, fiber, counter or lock: tasks are new,
pending, running, parked or done, a worker runs one at a time, the pool closes only when nothing is
pending or running. `SchedulerRefinement` maps: a worker is in a task between the two context
switches of the task's fiber; a task is parked when its fiber is HOLD with a waker; entries,
locals of `run()` and fibers on their way are all "pending".

### IOManager

The same threads with a coarser `run()`: a task has no fiber (that is the subject of Scheduler) and
runs to its end on the thread that takes it. What is refined instead is the idle fiber: `stopping()` is two reads
(`CheckPending`, `CheckStopping`), `epoll_wait` returns what is ready or times out
(`WaitReturns`, `WaitTimeout`), then the pipe is drained and each reported descriptor handled
under its mutex (`DrainPipe`, `HandleFd`, `LeaveIdle`).

An operation on a descriptor takes its mutex and keeps it for several steps, because epoll, the
scheduler's list and the counters are visible to others meanwhile. `job[a]` is what actor `a` has still to do
under a mutex: events to trigger (`TriggerEvent`, one `tickle()` if the list was empty, then
`Counted`) or the second half of `addEvent` (`AddEventDone`). A descriptor's mutex is free when it
is in nobody's job (`Free`).

The kernel is external and modelled from its use: `level` are the conditions that hold, `interest`
what epoll was asked for, `edge` the ready list. A condition that arises puts the descriptor in
the list if it is asked for; `epoll_ctl` puts it there if one already holds; `epoll_wait` empties
the list. `Conditions` says which conditions occur, `EPOLLHUP` (which also stands for `EPOLLERR`)
among them if wanted. The program reads or writes until the condition ends, but not while it waits
for the event. Nobody closes a descriptor that has events registered.

`epoll_ctl` may fail on the descriptors in `Refused`: `addEvent`, `delEvent`, `cancelEvent` and `cancelAll` then return
with nothing changed (`iomanager.cc:116-122` and its like: no action), and `idle()` goes on to the next report with this one
consumed and nothing triggered (326-332, in `HandleFd`). Two assertions abort the program: `addEvent` of an event that is registered
(108, `AddEventTwice`), and `triggerEvent` of one that is not (36). `stale` is a history variable: the descriptors in
a thread's report of which an event has been deleted, canceled or triggered since `epoll_wait` returned it.

### Config

`s_datas`, `m_val`, `m_cbs` and the counter `s_fun_id` of each type are as in the code. A reader-writer
lock is the set of its readers and its writer. `Lookup` is two steps under the table's write lock:
`find()`, then hand out or create. `setValue` is `SetSame`, or `SetBegin`, a `Notify` per listener
(which may throw), `NotifyEnd` and, under the second lock, `Assign`. `addListener` is three steps
under the variable's lock, because `++s_fun_id`, `m_cbs[s_fun_id]` and `return s_fun_id` each access a
static that all variables of the type share; `overlapped` is the history of types for which two threads were there at once,
each with a variable of its own. `LoadFromYaml` takes the nodes of a document one by one:
look up, convert (text that does not convert is caught), set. Names are atoms; the flattening of
a YAML tree (`ListAllMember`) is given with the constant `Roots`. Listeners call nothing back: one
that sets or listens to its own variable waits for itself.

### LogConfig and LogPattern

The loggers are `m_level`, `m_formatter` and `m_appenders` by name; `m_loggers` are those that have been
asked for. A message is three steps, since the level is read without a lock, the own list under the
logger's Spinlock and the root's list under the root's with the first still held (`Event`, `Log`,
`LogRoot`). `lost` is the history of the levels of messages that came to no appender: those that root has none for, and
those of a bare logger that root's own level turns away (`log.cc:407`, 396); `top` is the highest level root has had. The program
changes the loggers in `ByHand`, in any way there is (`SetFormatter` installs a formatter unseen, one in error
too; `SetPattern` is the overload that looks at `isError()`; `FormatAppender` and `LevelAppender` go to an appender
directly); the listener of `"logs"` changes the others:

| code | actions |
|---|---|
| `log.cc` 742-753: look at an entry | `TakeEntry`, `UseNull` (the pointer stays null) |
| 754, 755-757, 759, 760-778 | `TakeLevel`, `TakeFormatter`, `ClearOld`, `AddNew` once for each appender |
| 781-789: an entry that is gone | `DropEntry`, `WipeOld` |
| `setValue` before and after | `Reload` (with `SameValue`, that is `LogDefine::operator==`), `Assign` |

Documents are sequences of entries in which a name, a type, a formatter may be missing. `Convert` is the
conversion to `std::set<LogDefine>` with all it leaves out, the levels of appenders among it (654-683), `ValueText` the
one back (which drops the formatters of entries, `log.cc:703`), `LoggersText` is `LogManager::toYamlString`; both write
the levels of appenders (519, 549, 715). Locks of appenders, their files, and what is written are left out. A program may not give a null formatter
(`setFormatter(nullptr)`): `log.cc:511` would use it.

Which patterns are valid is what the parser says: `LogConfig` extends `LogPattern`, which is
`LogFormatter::init`. Of a character it keeps what the parser asks: a percent sign, a brace, a letter
that names an item, another letter, or anything else. `%%` is one percent sign and then looked at
again, a closing brace does not end a name, an opening brace needs its partner. The reference is
`Write`, which puts a pattern together from items; `ReadsBack` and `NothingDropped` compare the two
on all lists of `MaxItems` items and all patterns of `MaxText` characters, three and five in the run, any
number in the theorem. `Convert` reads the appenders of an entry in a loop of its own (`Readable`), which
leaves out those without a type or a file.

### Fiber

The loop of `run()` again, this time with what Scheduler abstracts: a context that is saved in an object
and continued later, `t_fiber`, `scheduler.cc`'s `t_fiber` (`mainFiber`), the fiber that stands for the
thread's own stack, and the reference counts. `exec[t]` is the stack thread `t` executes, `pc` where each
stack is, `cur` the fiber `MainFunc` refers to. Every step ends in `Settle`, which destroys what nothing refers to any more and
asserts what `~Fiber` asserts. A stack that is resumed behind its last switch is at "never reach" (`NeverReach`), where
the program ends. Which entry the loop takes is left open, and the list is a set.

| code | actions |
|---|---|
| `Scheduler::Scheduler`, `stop()` | `Construct`, `Call` (`m_rootFiber->call()`), `CallEnded` (a later `stop()` calls it again) |
| `run()` up to the loop, and its return | `Enter`, `LeavePool`, `LeaveRoot` (`CallerMainFunc`, `back()`) |
| the switches | `TakeFiber`, `TakeCallback`, `SwitchToIdle`, each with `SwapIn` |
| behind them | `AfterFiber`, `AfterCallback` (with `reset(nullptr)`), `AfterIdle` |
| on the stack of a fiber | `Yield`, `Publish` (`GetThis`), `Finish` up to `cur.reset()`, `LastSwapOut` |
| the program | `Create`, `Schedule`, `Forget` |

As in `sched_pool`, a fiber is scheduled again only when the thread that switched to it has let go of it.

## 4. The runs

| run | instance | shows |
|---|---|---|
| `sched_pool` | 2 pool threads, Root a client; 2 callbacks, 2 fibers, 2 suspensions, 2 rounds of start/stop; Root pins to any thread, bodies to their own | the inductive invariant `IInv`, exclusive stacks, no assertion fails, counts agree, no task lost, no entry for a thread that left, `stop()` drains, pinned tasks start where they should, and `TaskPool` is implemented |
| `sched_solo` | no pool thread: Root runs 3 callbacks in `stop()`; wakers at any time, one pointer scheduled twice; 2 rounds of start/stop | the inductive invariant `SoloInv`; each body is entered once at most, `stop()` drains (the early return of line 96 included), and no assertion fails but "never reach", by a second `stop()` that finds a task left |
| `sched_caller` | 1 pool thread and Root as runners, 2 callbacks; fair threads | every task starts, `stop()` returns |
| `sched_ready_window` | as `sched_pool`, bodies pin to any thread | **violation** of `StopDrains` |
| `sched_prompt_wake` | as `sched_pool` with one round, wakers at any time | **violation** of `SkipsExecuting` |
| `io_events` | 1 pool thread and Root; a descriptor that is read and written, one that is written, hangs up, and for which `epoll_ctl` may fail; 3 tasks | the inductive invariant `IInv`; counts, contexts and epoll agree, no readiness is forgotten where `epoll_ctl` works, each task in one place, `stop()` drains; an event that is not registered is triggered by `idle()` only, with a report that is stale or of a hang-up |
| `io_live` | the same threads, 1 descriptor; fair threads, awaited conditions occur | every task runs or is deleted, `stop()` returns |
| `config` | 2 threads, one of which sets; 2 names of one type, so that they share `s_fun_id`, one looked up with a wrong type too, an invalid name, a document with text that does not convert; 2 listeners, one may throw; 7 calls; fair threads | the inductive invariant `IInv`; one variable per name, keys hold as long as no two `addListener`s for two variables of the type overlapped, listeners in step, rounds stable, every call ends |
| `log_config` | a thread that logs, the thread that reloads, the program; the root logger and two more, one of them changed by hand; five documents, three patterns (one in error), two destinations, appenders with levels | types, loggers follow the configuration, appenders have formatters, messages are lost below a level of root's only, texts and patterns read back as far as they are read |
| `log_reload` | the same | **violation** of `UnchangedAreLeftAlone` |
| `fiber` | a thread of the pool and the caller, 4 fibers; `stop()` called again | types, `GetThis()` is right on a fiber, there is a way back, fibers live while they are used, only the root fiber is resumed behind its end |
| `fiber_current` | the same | **violation** of `CurrentExists` |

**Bounds.** Two runners are enough for every race between two threads on one fiber, descriptor or
variable; with `sched_pool` Root is a third actor. Two callbacks and two fibers let one task
schedule, wake or overtake the other and let a fiber be reused by the second callback; two
suspensions let a fiber go round the list, be woken, and go round again, on either thread; two
rounds show that `start()` finds what `stop()` leaves, and what a second `stop()` does to a root fiber
that has returned. In IOManager three tasks let one task register
an event, a second wait for another, and a third be scheduled on top; with two descriptors two
threads can be inside two mutexes, and with both events on one of them a report can be half out of date when its turn comes. Seven calls make the longest interesting story of Config: a
lookup, two listeners, a set each way, a deletion, and one more call of the other thread. The five
documents of `log_config` hold each case the listener tells apart: an entry that is new, changed in its
level, changed in its appenders only (which `operator==` does not see), gone; the root logger alone and
with others; a valid, an invalid and no pattern; a name twice; entries and appenders that are left out. One
appender added by hand is enough for an order of adding and formatting to matter. Four fibers are two idle
fibers and two that can be callback, cb_fiber and entry of the list, on either thread; with five fibers
the run finds nothing more. `fiber` does not check for deadlock, since every thread may have left `run()`.
Symmetry is used for threads, callbacks, fibers and tasks, in runs without liveness properties only.

**Fairness.** Each thread keeps running (weak fairness of the steps of each runner, of Root inside
`stop()`, of a thread inside a call): threads are kernel threads, and no step can be enabled for ever and not
taken. Bodies end because they are finite (`MaxYields`). Root need not call `stop()` in IOManager;
if it begins it goes on. In `io_live` awaited conditions occur (`EventsOccur`), which is
the environment's part and not the code's. In `config` no starvation on the reader-preferring
lock can arise, since calls are bounded by `MaxCalls`: `EveryCallEnds` is about locks left held and cycles, not about
a never-ending stream of readers. No strong fairness is used.

**The violations** of listed runs are written out under `findings` in `PROJECT.json`: the window in
which a READY fiber is counted nowhere (`sched_ready_window`), the fiber that is woken while still executing
(`sched_prompt_wake`), the null logger of an entry that did not change (`log_reload`), and `t_fiber`
naming a fiber that has been destroyed (`fiber_current`). Four more disagreements of the code with its
comments can be seen by running TLC on a configuration kept here for it:

| `tlc -config` | property | what the code does |
|---|---|---|
| `IOHangup.cfg MCIOManager` | `TriggersRegistered` | `idle()` turns `EPOLLERR`, `EPOLLHUP` into IN and OUT and triggers both unmasked (`iomanager.cc:307-342`); `triggerEvent` asserts `events & event` (36) |
| `IOStopRace.cfg MCIOManager` | `StopLeavesNoEvent` | `stopping()` reads the pending count before the rest (265), and a thread whose idle fiber has ended still takes tasks: `stop()` returns with an event registered, while `~IOManager` says that all has ended (77) |
| `IOTickle.cfg MCIOManager` | `TickleWakes` | `tickle()` returns when a thread is idle and writes to the pipe when none is (254): the test is the wrong way round for what line 258 says it is for |
| `ConfigKeys.cfg MCConfig` | `KeysUnique` | `s_fun_id` is shared by all variables of a type but guarded by the lock of one (`config.h:387-392`); keys have to be unique (415) |

Where a passing run checks a property that one of these breaks, its instance excludes the cause by
a named constant:

* `Pins` is "self" or "none": no body pins a task to another thread (`sched_ready_window`);
* `PromptWake` is FALSE: a waker fires after the fiber was put away (`sched_prompt_wake`).

In three runs the cause does occur, and the property says what holds nevertheless:

* `OnlyStaleTriggers` of `io_events`: the assertion of `triggerEvent` fails, for a hang-up (`IOHangup.cfg`) and without one
  (`epoll_wait` reports READ and WRITE, WRITE is deleted before the descriptor's turn comes, and `real_events` is triggered
  unmasked), and in no other way; `cancelEvent` and `cancelAll` never cause it;
* `KeysHold` of `config`: a key is its listener's until two `addListener`s for two variables of one type overlap
  (`ConfigKeys.cfg`); that two calls follow one another, or one waits for the other's lock, does no harm;
* `NoneLost` of `log_config`: a message that meets its logger between `clearAppenders()` and the first `addAppender`
  (`log.cc:759-778`) is dropped if it is below root's level (407, 396), though its logger takes it before and after. One
  that passes every level root has had is not lost while root has an appender.

In `log_config` nothing is excluded: a behaviour ends where the null pointer is used, and the properties of the
configuration are about those that have not come there.

Three further limits have no run of their own: where `epoll_ctl` fails in `idle()` the report is gone and the event stays
registered (`iomanager.cc:326-332`), which is why `NotForgotten` leaves out the descriptors in `Refused`; with two threads that set one variable the listeners
may be told in one order and the values assigned in another (`ListenersInStep` needs one setter),
and a listener added between notification and assignment misses that change.

## 5. What is proved

Each component has its inductive invariant in a module without proofs (`SchedulerInvariant`,
`IOManagerInvariant`, `ConfigInvariant`; for `LogConfig` and `Fiber` it stands at the head of the proofs), so that
TLC can check it on an instance first: `sched_pool`, `io_events` and `config` have `IInv` among their
invariants, and `sched_solo` has `SoloInv`. The theorems hold for any number of threads, fibers, callbacks, descriptors, names, documents,
rounds and suspensions, and rest on the named assumption of the module (`SchedulerAssumption`,
`IOManagerAssumption`, ...) and on what the third column says.

| theorem | statement | under |
|---|---|---|
| **`SchedulerProofs`** | | |
| `TypeCorrect` | `[]TypeOK` | |
| `OwnershipHolds` | `[]SchedulerInv` | (w) |
| `StackIsExclusive` | `[]ExclusiveStack` | (w) |
| **`SchedulerTaskProofs`** | | |
| `TasksAreKept` | `[]TaskInv` | (w) |
| `CallbackEnteredOnce` | `[]AtMostOnce` | (w) |
| `TasksAreConserved` | `[]Conserved` | (w) |
| `TasksStartWherePinned` | `StartsWherePinned` | (w) |
| `CountersAgree` | `[]Counted` | |
| `AssertionsHold` | `[]NoAssertFailure` | (w) |
| `NothingOrphaned` | `[]NoOrphan` | (w), (r), (p) |
| `StopLeavesNothing` | `[]StopDrains` | (w), (r), (p) |
| `InvariantHolds` | `[]IInv` | (w), (r), (p) |
| `SoloInvariantHolds` | `[]SoloInv` | (1) |
| `SoloEnteredOnce` | `[]AtMostOnce` | (1) |
| `SoloAssertionsHold` | `[]NoAssertFailure` | (1) |
| `SoloStopLeavesNothing` | `[]StopDrains` | (1) |
| **`SchedulerRefinementProofs`** | | |
| `SchedulerImplementsPool` | `ImplementsTaskPool` | (w), (r), (p) |
| `PoolIsExclusive` | in `TaskPool` a running task has one worker and a closed pool is quiet | |
| `PoolPromiseKept` | the same of the scheduler, through the refinement | (w), (r), (p) |
| **`IOManagerProofs`** | | |
| `InvariantHolds` | `[]IInv` | |
| `PendingCountAgrees` | `[]PendingAgrees` | |
| `ContextsAgree` | `[]ContextAgrees` | |
| `NothingForgotten` | `[]NotForgotten` | |
| `TasksHaveOneHome` | `[]OneHome` | |
| `StopLeavesNothing` | `[]StopDrains` | |
| `TriggersExplained` | `[]OnlyStaleTriggers` | |
| **`ConfigProofs`** | | |
| `InvariantHolds` | `[]IInv` | |
| `TypeCorrect` | `[]TypeOK` | |
| `OneVariableOfAName` | `[]OneVariable` | |
| `RoundsAreStable` | `RoundIsStable` | |
| `KeysAlwaysHold` | `[]KeysHold` | |
| `ListenersStayInStep` | `[]ListenersInStep` | (s) |
| **`LogConfigProofs`** | | |
| `TypeCorrect` | `[]TypeOK` | |
| `AlwaysFormatted` | `[]AppendersFormatted` | |
| `NoMessageLost` | `[]NoneLost` | |
| `LoggersAlwaysFollow` | `[]LoggersFollow` | |
| `TextsReadBack` | `[]TextReadsBack` | |
| `PatternsAreRead` | `[]PatternsRead` | |
| **`LogPatternProofs`** | | |
| `PatternsReadBack` | `ReadsBack`, `NothingDropped`, for all patterns | |
| **`FiberProofs`** | | |
| `TypeCorrect` | `[]TypeOK` | |
| `GetThisIsAlwaysRight` | `[]GetThisIsRight` | |
| `ThereIsAWayBack` | `[]WayBack` | |
| `FibersLiveWhileUsed` | `[]LivesWhileUsed` | |

The conditions are the causes that section 4 names, each with the configuration that shows the property fail
without it where there is one:

* (w) `PromptWake = FALSE`, `MaxDups = 0`: a waker fires after the fiber was put away
  (`SchedPromptWake.cfg`), and the program does not schedule a pointer twice, which would put it in two places by
  definition.
* (p) `Pins # "any"`: a body names no thread but its own in `schedule()` (`SchedReadyWindow.cfg`). Root still
  pins to whom it likes.
* (r) `UseCaller => MaxStarts <= 1`: a scheduler that uses its caller's thread is started once. `m_rootFiber` is made in
  the constructor and is not reset: after the first `stop()` Root takes no entry any more, and a second `stop()` that finds
  one left calls a fiber that has returned (`scheduler.cc:119-123`) and aborts behind it (`fiber.cc:196`). So an entry for Root may be
  left with nobody to take it. The assertions need no (r): `NoAssertFailure` says that this one fails in this way only.
* (1) `Runners = {r}`: one thread is in `run()`, the caller's or that of a pool of one; wakers fire at any time and a
  pointer may be scheduled again wherever its fiber is. What (p) excludes cannot occur, there being no other thread to name.
* (s) `OneSetter`: a single thread sets variables.

Two assumptions on constants are there for the proofs: the sets of pool threads and of descriptors are finite, since the
counters are compared with cardinalities, and there is a runner, which is `VITY_ASSERT(threads > 0)`
(`scheduler.cc:18`).

*The scheduler.* The invariant comes in three layers. `SchedulerInv` is ownership. `ExclusiveStack` is not
inductive: that nobody is on a fiber's stack when a thread switches to it depends on who else could
hold the pointer. So: a fiber is in the list once (`QueuedOnce`); one in the list is in no thread's hands
and has no waker (`QueuedIsFree`); a fiber is in one thread's hands and in one of its two variables
(`HeldOnce`); one that has a waker and is still in a thread's hands is the one that thread is
suspending, and has said HOLD once it is past the assignment (`ArmedSuspends`); a thread inside a task has a
fiber (`TaskHasFiber`); a thread is on the stack of that fiber only (`OnStackOfCur`). `Phases` adds that pool
threads run between start and stop only, and Root inside `stop()` only.

`TaskInv` is about the tasks. `FiberLife` says, for each place a fiber can be in, what its `m_state` and its
callback are there: in the list it waits and has a task to go on with; in a thread's hands it depends on how
far that thread is between and behind the two switches (`Fits`); with a waker it is HOLD once no
thread holds it; cb_fiber between two callbacks has none and is INIT; and a fiber with a task is in one of these
places. `CallbackLife` says that a callback which was scheduled and has not ended is in one entry, in one
thread's `ft`, or in one fiber. `Conserved` and `AtMostOnce` follow. `CountersAgree` needs only the types and
`Phases`: that a READY fiber is counted nowhere for a moment (the hazard at `scheduler.cc:206`) is no disagreement
of the counters but of what `stopping()` makes of them. `TaskAssertions` reads the assertions off `FiberLife`; that "never
reach" needs a caller and a second round is `OnlyRestart`, with `Rounds`: Root's `run()` is not begun before its first
`stop()` calls it, and is begun once.

`StopInv` is about the end. `stopping()` is asked by each thread for itself, and a thread whose idle fiber
has ended goes on taking entries until it finds none. `HasTaker` is the reason why nothing is left: each entry
has a thread that may take it and is not `Gone`, that is, has not looked through the list in vain since its
idle fiber ended. A body that schedules is on a thread that is not gone; Root schedules only
while no pool thread may end (`Rounds`), and with (r) Root's `run()` is still to come. This is where a body that pins an entry to another thread breaks it.
`PinKept` says that the thread an entry names stays with the task until it is entered.

The refinement has one lemma for each kind of abstract step (`PoolSubmits`, `PoolTakes`, `PoolLeaves`,
`PoolWakes`, `PoolStays`) and shows for each action what becomes of the status and the worker of each task. Most
steps of `run()` leave both alone. `SwapIn` takes the task; `YieldToReady`, `YieldToHold`, `Return` and `Throw`
leave it, although the thread is on the fiber's stack a little longer. Where `stop()` returns, `Close` asks
that nothing is pending or running, which is `StopInv` once more.

*One runner.* Without (w) a fiber may be in the list twice, be there while it executes, and be there with a waker, so
`SchedulerInv` does not hold. Its place is taken by what a lone thread can rely on. A fiber in the list, with a waker or with a
handle is `Sound`: it has a task and can be resumed, or it has ended; no other thread can change that between the look at
`m_state` and the switch (`SoloFits`), and one that has ended is dropped at lines 201 and 250-253. A fiber with a task is in
the list, in the thread's hands, or on HOLD with a waker; when it was woken before the thread put it away it is in
the list already, and loses nothing by being marked HOLD (`Parking`). `cb_fiber` is the delicate one:
its body may hand out a pointer to it and have it scheduled before it returns from its suspension, and it is reused for the
next callback unless line 237 or 246 lets go of it; so a pointer to it is left to somebody only while its body is
suspending (`SoloFiber`). What remains of `HasTaker` is that the list is empty once the thread is `Gone`, for Root from
its `call()` on (`GoneIsEmpty`): what Root schedules in a later round keeps `stop()` from returning and leads it to "never reach", so that `stop()` returns with an
empty list in any round. `AtMostOnce` does not need the rounds of `start()` and `stop()`,
so its proof uses `SoloTaskInv` only.

*IOManager.* The count of pending events is atomic, the contexts have a mutex each, epoll and the list have
none in common with them, so none of `PendingAgrees`, `ContextAgrees` and `OneHome` is inductive.
`Agreement` reads off `job[a]` what is still to be done: an actor inside a mutex has before it one event that is in epoll
and not yet in the context, or events that are out of epoll and still to be triggered, or a decrement (`Shape`); one actor
is in a mutex (`Locks`); a descriptor whose mutex is free agrees with epoll (`FreeAgrees`). `OnItsWay` is
edge triggering: an event asked for whose condition holds is in epoll's ready list or among those
a thread took from it. `Homes` gives each task its one place. `Stages` says where the actors are
during `stop()`, and `TakerLeft` that a list which is not empty has a thread that has not left `run()`.
`Triggers` is about the assertion of `triggerEvent`: what a thread holds a report of is registered, or will be by the
`addEvent` under way, unless the report is `stale` or the descriptor hung up (`Reported`); and what is still to be triggered is
registered, unless `idle()` triggers it with such a report (`Handled`). Every operation that takes an event away
makes the reports of it stale in the same step (`Outdate`).

*Config.* `OneVariable` speaks of pointers handed out. `TableInv` adds that the table agrees with them,
that variables in the table have been made and are not shared by two names, and that a thread between
`find()` and the insertion holds the table's lock, so that what it found is still so. `RoundIsStable`
speaks of steps; `RoundInv` says why: a thread that notifies is a reader of the variable it notifies
for, one that adds a listener is its writer, and a lock never has both, so a step that changes
the value or the listeners of a variable finds no reader there. `CallInv` says what a call has in its
arguments, and that a variable is in the table under a name of its type. The other two properties are about
time in which no lock is held. `KeyInv` is about the types that are not `overlapped`: one thread at a time is between the three accesses to
`s_fun_id` (`Alone`, for one variable by its lock), so the counter is what the thread read (`Keyed`), and no key in use by any
variable of the type is above it (`KeysBelow`).
`SetInv`: a thread that notifies has told a prefix of the listeners, one about to assign has told all, and what
they heard is what it will assign; `PlaceInv` is needed for it, since a listener that was in two lists, or in
one before it is inserted, would hear of two variables.

*The loggers.* `NoneLost` needs to know that a logger other than the root always hands on what it has no
appender for and root's level lets pass, that root's level has never been above `top`, and that a root logger without
appenders has been noticed (`RootServes`). `LoggersFollow`
is about moments when no reload is under way; `Follow` says what is so in between: the entries not yet
looked at are as the old value has them (`Kept`), the one at hand is done up to the stage it is in
(`AtHand`, with the appenders added so far a prefix of those of the entry), the others are done.
For `TextReadsBack`, `Texts` says that an appender in the value has no level, and on standard output no formatter of its own,
since `Readable` reads none (`PlainValue`), that in a logger the program keeps its hands off it has its logger's (`Alike`), and
that what is written is a finite set: from that `Convert` of a text is what the text was made of, but for what it does not
read.

*The patterns.* What a recursive function computes for every input calls for induction, and the induction
theorems of the library cannot be used here. `LeastElement`, an instance of the well-foundedness of `<`,
takes their place: the set of positions at which a claim is false would have a least element.
`Backwards` and `Forwards` conclude from it, for a set of positions, that it has all of them; from these
come that `rest` of `Parse` and the function inside `FlattenSeq` exist, what `Parse` is at each position, and what
`Write` is of a list that begins with an item. The theorem has two halves. `RestSpelled`: from each position on, the
items of an accepted pattern without empty braces spell what is left of it. `TailRead`: where a tail of the
written list begins in the pattern the parser finds the items of this tail; that nothing behind an item
prolongs its name or closes its format early is what `Separated` and the alphabet of `Formats` are for.

*The fibers.* None of the three properties is inductive. `IInv` says where each thread is and
what that says of the fibers it refers to: every context is saved in the object of its own stack (`Contexts`);
a thread is outside `run()`, in the loop, in a fiber or back from it, and then in the one it chose (`Loops`);
how far a body has come says what the state of its fiber is (`Bodies`); what is referred to exists (`Kept`);
no two loops, and no loop and the list, refer to one fiber (`Apart`); `cb_fiber` is INIT between two
callbacks, and `ft.fiber` only set while its fiber is switched to (`Owned`). A root fiber that was called again is at its
end, and the model with it (`NeverReach`); a fiber of the loop is never called there, since it is TERM by then. The proof has a lemma for each action; the three
switches share one (`SwitchKeeps`), and `Settled` says what a step may destroy.

*Only model-checked.* Liveness (`EveryTaskStarts`, `StopReturns`, `TaskRuns`, `EveryCallEnds`) is beyond
the prover, which cannot reason about ENABLED. Every safety property the runs check is proved. Nothing is proved
of several runners without (w), where `SkipsExecuting` fails (`SchedPromptWake.cfg`).

## 6. What is not modelled

* The growth of the table of descriptors: it is two critical sections of `addEvent` and a loop. The model of
  IOManager fixes the table, as large as the descriptors ask for; that the later of two callers can shrink it is visible
  from lines 92-101 (`contextResize(fd * 1.5)` without a second look at the size).
* A program that calls `swapIn`, `swapOut` or `call` on fibers of its own, with no scheduler (`tests/test_fiber.cc`):
  `GetMainFiber()` is null there.
* `LexicalCast` but for that of `"logs"`, and what the items of a pattern write: text only.
* The handshake in Thread's constructor: the thread's id is set before the semaphore is posted;
  the scheduler uses nothing else of it.
* `Spinlock`, `CASLock`, `Singleton`, utilities: one library call each, or no state.
* Exhaustion (threads, stacks, descriptors, a full tickle pipe).
