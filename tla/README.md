# XianNet in TLA+

A verification project for XianNet, an actor framework in C++: services with message queues, a pool of
worker threads, a socket thread on edge-triggered epoll, and services written in script that run in V8.
The modules are translated from `src/source`; a comment above each definition says what code it stands for.

## 1. The system

| component | state | operations | talks to |
|---|---|---|---|
| scheduler (`xian_net.cc`, `worker/service_worker.*`) | `global_service_queue_`, `sleep_count_`, mutex and condition variable, the workers | `SendMessage`, `CheckAndPushGlobalServiceQueue`, `CheckAndWeakUpWorker`, `PopGlobalServiceQueue`, `BlockWorker`, `ServiceWorker::operator()` | services (queues, flags), map |
| service (`service/base_service.*`) | `message_queue_`, `is_in_global_queue_`, `is_existing_`, `id_` | `PushMessage`, `ProcessMessages`, `IsMessageQueueEmpty`, the handlers | called by the workers, calls `SendMessage`, `NewService` |
| service map (`service/service_map.h`) | `map_`, `auto_increment_id_` | `AddService`, `Find`, `Erase` | used by every thread |
| socket worker (`worker/socket_worker.*`) | the epoll instance | `operator()`, `OnEvent`, `OnAccept`, `OnRW`, `AddEvent`, `ModifyEvent`, `RemoveEvent` | kernel, connection map, gateway (messages) |
| connections (`xian_net.cc`, `common/network`) | `connection_map_` | `Listen`, `AddConnection`, `RemoveConnection`, `CloseConnection` | main thread, socket thread |
| gateway (`service/gateway_service.*`) | none of its own | `ProcessSocketAcceptMessage`, `ProcessSocketRwMessage` (`Read`, `Write`) | kernel, run by the workers |
| script service (`service/script_service.*`) | isolate, context with `service_id`, `js_function_map_` | constructor, `OnInitialization`, `ExecuteJsFunction`, the script calls `newService` and `send` | scheduler, map |
| containers and locks (`common/`) | a queue, a value or a hash table, and its lock | `Push`, `PopFront`, `IsEmpty`, `GetSize`, `GetValue`, `SetValue`, `SetCurrentAndGetPrevious`, `Find`, `Emplace`, `Erase` | everybody |
| logger (`common/logger`) | console and log file, level, a spin lock | `Log`, `Output` | everybody, calendar |
| calendar (`lib/opentime`) | a date, a time zone and the Unix time they stand for | constructors, setters, `addTime` .. `addYear`, `fromString`, `fromGMT` | logger |
| config, `main.cc` | configuration | load once, start | everybody |

How they interact: `SendMessage` looks the target up in the service map, pushes into its queue, and when it
wins the flag `is_in_global_queue_` it pushes the service into the global queue and may signal the condition
variable. A worker pops a service, clears its flag, handles at most `1 << i` messages, and puts the service
back if its queue is not empty. A worker that pops nothing waits. The socket thread turns epoll events into
messages for the gateway. Handlers run user code, which sends and creates services again.

What is hard here: the flag, the queue push and the put-back are separate critical sections; the flag is
cleared *before* the batch; the wake-up test reads two values without their locks; the wait is not preceded by
a second look at the queue; epoll reports an edge once; descriptors are reused by the kernel; a service id
exists only after the constructor that already uses it; scripts nest on one thread's stack.

What makes each component correct: the scheduler hands every message to one handler and forgets none
(`OneTicket`, `NoStrandedMessage`, `OnePlace`, `ImplementsMailboxes`, `AwakePoolDelivers`); the sleep protocol
counts its sleepers (`SleepCountExact`, `IdlePoolWakes`); the socket side loses no edge and never mistakes a
descriptor (`UnreadIsAnnounced`, `EventFindsConnection`, `AcceptStartsFirst`, `ConnectionIsOpen`); the gateway
answers what it reads (`ReadIsAnswered`, `DataIsAnswered`); scripts get the right ids and no isolate is entered
twice by one thread or while it is built (`KnownIdsNameTheService`, `NoReentry`, `RegisteredIsEvaluated`); a
container's method takes effect at once for its callers (`ImplementsAtomic`, `RaceFree`, `LocksHeld`,
`ReadIsFresh`); a calendar object's date and Unix time stand for one instant (`DateFollowsClock`,
`ClockFollowsDate`, `MonthsKeepTheDay`).

## 2. Modules

```
Mailboxes          abstract: mailboxes, handlers started in order, each message finished once
  ^ refined by           ^ used by (Post, Start, Finish)
Scheduler          SocketServer              ScriptService          one action per step of the code
SchedulerProperties  SocketProperties        ScriptProperties       what must hold
SchedulerProofs      SocketProofs            ScriptProofs           proofs
MailboxProofs        GatewayProofs                                  proofs of the refinement; of the messages
        MailboxLemmas (used by MailboxProofs, GatewayProofs, ScriptProofs)    facts about queues
MCScheduler          MCSocket                MCScript               what TLC runs, some with symmetry

AtomicContainers   abstract: every method takes effect in one step
  ^ refined by
Containers         queue, flag, maps and logger with their locks    OpenTime            one calendar object
ContainersProperties                                                OpenTimeProperties
ContainersProofs                                                    OpenTimeProofs
MCContainers                                                        MCOpenTime
```

Composition is by refinement: `Scheduler` implements `Mailboxes` (checked as `ImplementsMailboxes`), and the two
other modules take `Mailboxes` for the scheduler. They keep the one thing that is unusual about it: two workers
may run handlers of one service at the same time, so `Mailboxes` does not exclude it. `Containers` implements
`AtomicContainers`, whose steps are the ones those three modules take for one call of a container: that a
critical section is one step is shown there, not assumed.

Next to some definitions stands a one-line *variant*: the same operator with a plausible bug. No specification
uses a variant; each is there to show that a property notices that bug (`mutants` in PROJECT.json).

### Scheduler

A thread's `pc` names its next step; a step is the code between two accesses to shared state, and one critical
section of a spin lock, or of the map's rwlock, is one step.

| code | actions |
|---|---|
| `SendMessage` | `SendMessage` (lookup), `PushMessage`, `CheckAndMark`, `PushGlobal`, `ReadSleepCount`, `ReadQueueSize`, `Signal` |
| `PopGlobalServiceQueue` | `PopGlobal`, `UnsetInGlobal` |
| `ProcessMessages` | `ProcessNext`, `FinishHandler`, `EndBatch` |
| `CheckAndPutGlobal` | `CheckExiting`, `CheckEmpty`, `Remark`, `Repush` |
| `BlockWorker` | `Block`, `Sleep`, `Wake`, and `SpuriousWakeup` of the condition variable |
| `NewService`, `KillService` | `NewService`; `KillService`, `SetExisting`, `EraseService` |

Data races are choices: `GetSize` takes no lock, so while another thread may write the queue it returns any
number; `sleep_count_` is read without the mutex, and the compiler may read it once or twice, so the second
condition uses the old or the current value. A handler is user code: it may send any number of messages, create
services and, for the ids in `Killable`, kill its own service. `KillService` is private and nothing calls it;
the header documents the call from a service, which is how it is modelled. Callers outside the pool are the
main and the socket thread.

### SocketServer

The kernel and the clients are the environment (marked external in the map): descriptors are handed out
lowest first, a closed one is free again, edge-triggered epoll puts a watched file on the ready list when
something happens to it, and ADD and MOD look at once. Descriptor 0 is left out: it is the standard input, and
`Listen` refuses it, leaving it open as it leaves one that `bind` refuses. The main thread runs `Listen` (`Listen`,
`AddConnection`, `AddEvent`). `ModifyEvent` and `CloseConnection` (`RemoveConnection`, `Close`, `RemoveEvent`) are
called by no code yet; any number of threads (`Closers`) may be in `CloseConnection` at once, with any descriptor,
and as in the code it closes one it finds no connection for as well (`xian_net.cc:174-180`), without the `RemoveEvent`
then. The socket thread runs `WaitForEvents`, `OnEvent` (with `OnRW`) and
`OnAccept` (`Accept`, `AddConnection`, `AddEvent`, `Announce`). Handlers run `StartHandler`, `ReadOnce` (a turn of
`Read`'s loop), `Write`, `FinishHandler`. `AddConnection` and `AddEvent` serve both threads. The order in which the
events of one `epoll_wait` are handled is left open, and its array of 64 is larger than any descriptor table here.
EPOLLOUT is reported with an edge or when `ModifyEvent` asks for it, not when the peer drains its window:
`Write` never waits for room. A chunk of data is named by its client and its number, so that it can be followed
from `unread` through a handler's `result` to `answered`. SIGPIPE is ignored by the program, so writing to a closed peer is no event.

### ScriptService

`NewScriptService` allocates and starts the constructor, in which the module's code runs and may already call
`newService` and `send`; `CollectFunctions` ends it (with any set of exports: none when the module cannot be
instantiated); `AddService` gives the id; `OnInit` runs if it is exported; `ReturnId` hands the id to the calling
script. All of that is on one thread's `stack`. `Garbage` is the set of values an `id_` may have before it is
assigned. `content_` is not modelled: `send` converts its third argument and drops it (`script_service.cc:252`),
so every handler gets an empty content although `xian_net.d.ts` offers a message argument.

### Containers

One object under use (`subject`): a `SpinlockQueue`, a `SpinlockObject`, an `RwlockUnorderedMap`, the
`ServiceMap` or the `Logger`. No method of one calls another one, so they need not be combined. A method goes
`Invoke`, `Lock`, `Read` (its first look at the data), `Write` (data changing while the thread is at `write`),
`Unlock`; `GetSize`, and `Log` below the level, have no lock and end with `Return`.

| code | steps |
|---|---|
| `SpinLock::Lock`, `RwLock::LockWrite`, `LockRead`; `Unlock` | `Lock` (`LockWrite`, or `LockRead` for `Find`); `Unlock` |
| `PopFront`, `IsEmpty`, `GetSize`, `Push` | `ReadFront`, `ReadEmpty`, `ReadSize`; `WriteQueue` |
| `GetValue`, `SetValue`, `SetCurrentAndGetPrevious` | `ReadValue`; `WriteObject` |
| `Find`, `Emplace`, `Erase`; `AddService` | `Lookup`, `AssignId`; `WriteMap`, `WriteService` |
| `Logger::Log`, `Output` | `ReadLevel`; `WriteLine` |

`GetSize` while another thread writes the queue is a data race: any number of `Sizes`. `AtomicContainers` allows
it no more than that: its size is exact unless a `Push` or `PopFront` has been called and has not taken effect.
This is what `ReadQueueSize` of the scheduler takes over.

### OpenTime

One object and the calls on it, in the code's arithmetic: `unixtimeToDate` with its loops over years and months
(and its missing `return`), `dateToUnixtime` with the `int` product that overflows (undefined behaviour: the
exact or the wrapped product), `uint16_t` fields that wrap (a zone is asked for as -17 to 17 and stored as a number
from 0 to 65535),  `adjustMonth`. An action is a call: a `ClockCall` changes the Unix time
or the zone and derives the date, a `DateCall` changes the date and derives the Unix time, and `fromGMTFails` is
the one that changes the date and derives nothing. TLC's integers have 32 bits, so an instant is a day and a
second of it. `OpenTimeProperties` says what a date is in terms of the Gregorian calendar, with no code of the
program; the zone is the signed number that `timezone_` is documented to be. `last` records which of the two a call
changed.

Three widths of the code are bounds of the model. `MaxDay` (10^9 days, either side of 1970) is where neither
`year_` nor `unixtime_` wraps; `MaxYear` (2177) is the last year in which the `int` product wraps no more than
once; `IntDays` (24855) is the largest number of days whose seconds fit an `int`. Months that `addMonth` would take
past 65535, and the month 0 they would wrap to, are left out: `adjustMonth` looks up `month_ - 1` in an array of 12,
and there it would read before it. `addYear` and `addMonth` do not go below the year 0.

## 3. Runs

| run | instance | shows |
|---|---|---|
| `scheduler_safety` | 2 workers, 1 outside caller, 2 services (one may kill itself), 3 messages; 0.7 million states | types, `OneTicket`, `NoStrandedMessage`, `SleepCountExact`, `OnePlace`, and that the scheduler implements `Mailboxes` |
| `scheduler_live` | 2 workers, 2 outside callers, 2 services, 2 messages, fair; 0.25 million states | `AwakePoolDelivers`, `IdlePoolWakes` |
| `scheduler_stall` | 1 service, 3 messages, fair | **violated**: `xian_net.cc:88` says a missed wake-up is made good by the next |
| `socket_safety` | 2 clients, 3 descriptors, 1 handler, 1 chunk each, 2 threads that make 2 calls of `CloseConnection`; 2.3 million states up to symmetry | types, `UnreadIsAnnounced`, `AcceptStartsFirst`, `EventFindsConnection`, `ConnectionIsOpen` |
| `socket_live` | 1 client with 3 chunks, 2 handlers, 1 `ModifyEvent`, fair | `UnreadIsAnnounced`, `ReadIsAnswered`, `DataIsAnswered` |
| `socket_backlog` | 2 clients | **violated**: `socket_worker.h:54` says `OnAccept` stores the new connection; of two connections in one edge one stays in the backlog |
| `socket_clientfd` | 2 clients, 2 descriptors | **violated**: `message.h:38` says `client_fd_` is the client's socket; after a failed `accept` it is -1 |
| `script_safety` | 3 services, 3 threads, 2 messages; 1.2 million states | types, `KnownIdsNameTheService`, `RegisteredIsEvaluated`, `NoReentry` |
| `script_source` | the same with 1 message | **violated**: `message.h:28` says `source_` is the sender; it is the unset id |
| `containers` | 3 threads, 2 values, 3 elements, 2 keys; 25 thousand states up to symmetry | types, `LocksHeld`, `RaceFree`, `ReadIsFresh`, and that the methods implement `AtomicContainers` |
| `calendar` | 2 calls from 14 days (1970 to 2100), 2 times of day, zones 8 and -5; 0.7 million states | types, `DateFollowsClock`, `ClockFollowsDate`, `MonthsKeepTheDay` |
| `calendar_leap` | the last day of 2023, 1 call | **violated**: `opentime.h:68` says `addDay` leads to the next day; into 2024 it leads to December |

Why the bounds are enough for these questions. Two workers are the least for two handlers of one service, a
worker that sleeps while the other pops, and a put-back that races a send; worker 0 takes one message and
worker 1 two, so both a batch that leaves messages behind and one that finds the queue empty half way occur.
Two services compete for the global queue and one can be killed with messages waiting; the three messages of
`scheduler_safety` let a sender race a handler that sends as well, and let a service that puts itself back compete
with another one that waits. `scheduler_live` has two messages, enough for a put-back, but not for one with another
service waiting; its two senders make one read the count and the size while the other pushes. With three
descriptors the listener, two clients, a reused descriptor and the failure of `accept` fit. One chunk meets every
position of an edge relative to accept and AddEvent; the chunks that arrive during and after `Read`'s loop, and two
handlers on one descriptor, are the business of `socket_live`. Two threads in `CloseConnection` race each other for
one entry and `OnAccept` for the descriptor. Three services let one be
created in the `OnInit` of another while a third thread creates one too. Three threads are a writer, a reader and
one that waits; two keys a hit and a miss. The days of `calendar` are the first and last of a year, 29 February,
days 29 to 31 of other months, early years, leap years and years between, the last year in which `dateToUnixtime`
does not overflow, and the last days of 2099 and of the common year 2100; the second call starts
from wherever the first one led. A property of dates is checked in the years its comment names.

`CHECK_DEADLOCK FALSE` is used for the socket, the script and the calendar runs only: clients go away and bounds
end the sends and the calls, so those systems really stop. In the scheduler a sleeping pool can always have a spurious wake-up.

### Fairness

`Scheduler!Fairness`: each thread is scheduled by the operating system, so `SendStep`, `ServeStep`, `SleepStep`
and `KillStep` are weakly fair per thread. Handlers are assumed to return. Creating, sending and killing are
choices of user code and spurious wake-ups are the system's: none of them is fair. Weak fairness of taking
the mutex suffices because it is free again after two steps of its holder and the runs have two workers.
`SocketServer!Fairness` makes the threads' own steps fair and the steps of a handler that has been started, but not
the start of a message that waits: the scheduler grants that only while its pool is awake (`AwakePoolDelivers`),
and after a lost wake-up it does not (`scheduler_stall`). `DataIsAnswered` names what it needs instead, in its
premise `GatewayServed`: no message waits for ever while no handler runs.

### Disagreements

- *Lost wake-up* (`scheduler_stall`). A worker pops nothing; a sender pushes a service, sees `sleep_count_ = 0`
  and returns; the worker counts itself asleep and waits. The next message for that service finds the flag set,
  so `SendMessage` does not reach the wake-up: with all workers asleep the messages stay until another service gets
  a message or the system wakes somebody for no reason.
- *One accept per edge* (`socket_backlog`), *accept's failure* (`socket_clientfd`), *unset source*
  (`script_source`), as in the table.
- `CloseConnection` calls `RemoveEvent` after `close`. Between the two `OnAccept` may get the same descriptor; its
  events are then switched off and its client's data is never announced. The code does not say otherwise and
  nothing calls it, so there is no run for it: the properties of the socket server are stated for descriptors
  that `CloseConnection` was never called for, and `ConnectionIsOpen` shows what holds even then.
- `CloseConnection` of a descriptor that is not in the map closes it. If `OnAccept` has just been given that
  descriptor, the map comes to name a closed file. `ConnectionIsOpen` is about all other descriptors (`missed` is the
  set of these); no comment speaks of the case and no code calls the function, so there is no run for it.
- *Leap years* (`calendar_leap`). The loop over the months in `unixtimeToDate` returns in common years and in 1972, and goes on in
  every other leap year (`opentime.cpp:319` misses the `return`): the month comes out as December. The stamps of
  the log are dates of this kind all through 2024 and 2028. `DateFollowsClock` claims nothing of month and day in
  those years, so it stays true when the `return` is put in.
- *Strings.* `fromGMT` on a string that ends early leaves the fields it has read and an old Unix time. `toGMT`
  prints the local fields with the label GMT (`opentime.cpp:585`). The example at `opentime.h:84` is two months
  off: 1678715100 is 21:45 on 13 March 2023 in the zone of the program, as the code has it. The formatting is not modelled.
- *Log stamps.* `Logger` takes the seconds and the milliseconds from two readings of the clock
  (`logger.cc:18`), and the milliseconds are printed with no leading zeros. `SendMessage` and `Wait` write to
  `cout` without the logger's lock (`xian_net.cc:186`).

Remarks on the code that no run is about:

- *The flag of a service that is processed.* `base_service.h:15` says it is true then; `gateway_service.h:17`, in a
  comment on `ProcessMessages`, says it is set to false, and so it is, in `PopGlobalServiceQueue`. A sender may
  therefore queue the service again and a second worker take it; `OnePlace` and `Mailboxes` allow for it. For a
  `ScriptService` it is two threads in one V8 isolate without a locker.
- *A return value.* The comment at `xian_net.cc:202` says of `CheckAndPushGlobalServiceQueue` the opposite of
  `return !is_in_global_queue_previous`. The caller uses it as the code has it, so nothing goes wrong.
- *The calendar's width.* `timezone_` is a `uint16_t` although `opentime.h:31` gives its range as -17 to 17, so a
  negative zone shifts the date by 65536 hours. `dateToUnixtime` multiplies in `int` and overflows from 2042 on
  (`opentime.cpp:347`), although `opentime.h:29` gives the years as 1970 to 2100. The model has both;
  `DateFollowsClock` and `ClockFollowsDate` are stated for zones from 0, the latter for years up to 2041.
  `addYear` leaves 29 February in a common year, which then counts on into March.

## 4. Proofs

`SchedulerProofs`, for any number (1 to 31) of workers, any callers, services and messages, from
`SchedulerAssumption`:

- `TypeCorrect`: `TypeOK` is inductive. Its part `LocalsSet` ties each pointer to the labels at which the code
  uses it; that is why no queue or flag of `nullptr` is touched.
- `TicketUnique`: `OneTicket` is inductive given `TypeOK`. Every step is quiet (touches no ticket), takes the
  flag (`TakeTicket`), moves a ticket into the queue (`QueueTicket`), out of it (`PopTicket`), or gives it up
  (`DropTicket`); there is a lemma for each.
- `NothingStranded`: `NoStrandedMessage` needs `TypeOK` alone: a step that ends the attention of one thread to a
  service either found its queue empty or its flag set.
- `SleepCounted`: `SleepCountExact` counts a finite set whose members enter and leave one at a time.

`MailboxProofs`, from the same assumption:

- `MessageInOnePlace`: `OnePlace` is strengthened with `Allocated`: whatever is in a hand, a queue, a handler or
  among the handled messages has been allocated, so that the next one to be allocated is nowhere yet. `Apart` is
  `OnePlace` as an operator of the four places; each step that moves a message (`SendMessage`, `PushMessage`,
  `ProcessNext`, `FinishHandler`) has a lemma, and all others are `Quiet`.
- `SchedulerImplementsMailboxes`: under that invariant the same four steps are a stutter, `Post`, `Start` and
  `Finish`. `Post` needs that the message was not accepted before and `Finish` that no other worker has it: both
  are `OnePlace`. A quiet step also has to leave the service of a worker that handles a message alone.

`ContainersProofs`, for any number of threads, any values, keys and lengths, from `ContainersAssumption`:

- `LocksCorrect`, `NoDataRace`, `ReadsStayFresh` from one inductive invariant: `TypeOK`, `LocksHeld`,
  `ReadIsFresh` and `NothingToAnswer` (a method without a result hands back nothing). `LocksHeld` is what makes
  the others inductive: a thread at `write` is the writer, so it is alone inside, and what it has read stays true.
- `MethodsAreAtomic`: invocation, taking effect and return of `AtomicContainers` are `Invoke`, the last step
  before `unlock`, and `Unlock` or `Return`; every other step is a stutter. `ReadIsFresh` is what lets the write of
  `PopFront`, `SetCurrentAndGetPrevious`, `AddService` and `Erase` count as their single step.

`SocketProofs`, for any number of clients, handlers, descriptors and threads in `CloseConnection`, from
`SocketAssumption`:

- `EventsConnected`: `EventFindsConnection` is strengthened to `WatchedIsConnected`, which speaks of every stage
  an event passes: watched, ready, in the batch, or about to be watched.
- `MapIsOpen`: `ConnectionIsOpen` is strengthened to `OpenInvariant`: a descriptor on its way into the map is open
  and has no entry, one on its way to `close` after a successful `Erase` is open, has none either, is not the one on
  its way in, and no second thread is about to close it. All of this is for descriptors outside `missed`.

Steps of clients and handlers are dealt with together: they leave these variables alone (`Outside`).

`GatewayProofs`, from the same assumption and the invariant of `SocketProofs`: `SocketTypes` (`TypeOK`),
`UnreadAnnounced`, `AcceptFirst` and `ReadAnswered` from one inductive invariant, `GatewayInvariant`:

- `MailTypes`, `HandledOnce`, `ReadsDescriptors`: a message is in the queue, in one handler, or done, every
  message has an id below the next one, and what a handler reads or writes is a descriptor.
- `ClientsAnnounced`: a client in the map has been announced, or the socket thread is between its `AddConnection` and
  its `Announce`; and of the queue every message to read has an announcement ahead of it or started (`AcceptAhead`,
  which `Start` and `Post` keep because the queue is first in, first out). `AddEvent` comes before `Announce`, so an
  edge may be ready first; it is the socket thread that turns it into a message, and it is busy.
- `ClientTypes`, `AcceptedOnce`: a client waits in the backlog once and then has one descriptor. Without it, reading
  from one descriptor could consume what another one was told of.
- `ResultsAreTaken`: the chunks in a handler's hand have left the socket, and their client, if it still has a
  descriptor, has the one the handler works on. So the `Write` of the handler reaches the client it has read from.
- `ConnectedIsWatched`: a client in the map is watched, or is about to be, and what is about to be is not. So the
  `AddEvent` to come is an ADD that succeeds, and it looks at what arrived before the watch.

`ScriptProofs`, for any number of threads, modules, services and messages, from `ScriptAssumption`: `ScriptTypes`
(`TypeOK`), `KnownIds`, `RegisteredEvaluated` and `NoThreadReenters` from `ScriptInvariant`, which relates every two
frames of every two stacks:

- `OnlyAllocated`: no frame, map entry or message is one of a service that does not exist yet, so the next one to be
  allocated is on no stack.
- `BuiltOnce`: a service is built by one frame of one thread, and a thread is in an isolate once.
- `RegisteredOnce`: before `AddService` a service has no id, after it the id is its own: ids are handed out by
  counting, while other threads create services between the constructor, `AddService` and `ReturnId`.
- `HandledOnce`: a message is in one mailbox, one frame, or done. It is what keeps a handler's frame from appearing
  twice.

`NoReentry` speaks of one thread. Two threads may well be in one isolate: see *the flag of a service that is
processed* in section 3.

`ContainersTypes` is `TypeOK` of the containers, part of the inductive invariant above.

`OpenTimeProofs`, for any days, times, amounts and numbers of calls, from `OpenTimeAssumption`:

- The loops of the code and the sums of the calendar are recursive functions. `Induction` is derived from the
  well-foundedness of the naturals, as a lemma about a set of numbers; `LoopRuns` and `LoopGoesOn` then say that such
  a function exists, has its type and obeys its equation.
- The calendar: `NewYears` (leap years counted with a cardinality), `MonthsBeforeIs`, `DayNumberIs`. The code:
  `YearFound` (cycles of four years), `MonthLoopFinds` (the loop, where it has its `return`, stops at the month that
  holds the day), `DateDerived`, `UnixtimeDerived` (every year up to 2041), `MonthsOnIs`.
- `CalendarTypes`, `DateShowsClock` and `ClockShowsDate` from `CalendarInvariant`, whose part `MonthCounts` says that
  the month is never 0. `MonthsMoveOn` is a property of one step of it.

`DateShowsClock` is about every day up to 2100 and `ClockShowsDate` about every date from 1970 to 2041, both in the
zones from 0 to 17, in which `timezone_` is the zone (`LocalTimes`); the run tries a few of them.

What proving changed in the models: a `CASE` with overlapping guards chose a handler's first step, right in TLC
(which takes the first) and of unknown value to a prover; it is `FirstStep` now. A refused socket was a bare string
that nothing kept apart from a client; it is the constant `unbound`, with an assumption. `OpenTime` used numbers
wider than the code's without saying where that begins to matter: hence its three bounds.

Only model-checked: liveness (`AwakePoolDelivers`, `IdlePoolWakes`, `DataIsAnswered`), which with `ENABLED` is out of
the prover's reach, and the five expected violations. Every invariant and action property of the passing runs, and
both refinements, are proved.

## 5. Not modelled, and why

- Memory: a message's 100 MB load is never freed, and messages to a missing target are leaked as well. The
  objects themselves are never deleted, which is why a killed service's pointer stays usable in the model.
- A client that leaves: `Read` returns at end of file and nothing closes the descriptor, so descriptors run out;
  the model has this (`socket_clientfd` meets the limit), and there is no property it could violate that the
  code promises.
- `new thread(*socket_worker_)` copies the worker, whose destructor closes the epoll instance. Whether a temporary
  copy is destroyed depends on the C++ library; the model takes one that copies in place.
- `Wait` with no worker threads; the assumption on `ThreadSize` excludes it.
- Configuration, the TOML parser, V8 and its handles: read once or third-party. `toml.hpp` and the V8 headers are
  about 45 000 of the repository's 47 800 lines, so a map of XianNet's own code, about 2 600 lines, covers a small
  share of them whatever it does.
- The logger's text and `Initialize`, which runs once before any thread; `GetValue` of its level.
- The calendar's reading functions (comparison, `isQuarterLastDay`, weekday, `alignDay`, formatting): they
  change no object.
- `Connection::ReadString`/`WriteString`, `SocketWorker`'s error branch (prints only), code in comments.

## 6. Plan

Done: `Mailboxes` and `Scheduler`, `SocketServer`, `ScriptService`, `AtomicContainers` and `Containers`, `OpenTime`,
with the proofs of their safety properties and of both refinements.

1. Which descriptors a `SOCKET_RW` message may name once `CloseConnection` has callers.
2. Several services behind the listener, and `OnExit` of a script, once something calls `KillService`.
