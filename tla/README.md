# TLA+ models of phosphor-time-manager

TLA+ specifications of the programs in this repository, the TLC configurations
that check them on small instances, and theorems that TLAPS proves for every
value of the constants. File and line references are to `src/`.

## The system

The repository builds three programs.

**phosphor-time-manager** keeps a BMC's time mode and offers its clock on D-Bus.

| component | state | operations | interacts with |
|---|---|---|---|
| `Manager` (`manager.cpp`) | `timeMode` | constructor; `onSettingsChanged`; `onTimedateChanged` | the settings daemon (`TimeSyncMethod`), timedated (`SetNTP`, the `NTP` property) |
| `BmcEpoch` (`bmc_epoch.cpp`) | none of its own: the clock | get and set `Elapsed`; drain of the time-change timerfd | timedated (`SetTime`) |
| `utils`, `settings::Objects` | cached D-Bus paths | `getProperty`, `setProperty`, string conversions | the object mapper |

**erot-time-manager** (`oem/nvidia`) sends the BMC's time to the external roots
of trust (ERoTs) it finds over MCTP.

| component | state | operations | interacts with |
|---|---|---|---|
| `ErotTimeManager` | `mctpInfoMap`, `queuedMctpInfos`, `setErotTimeHandle`, `erotTimeSyncLast` | `handleMctpEndpoints`, `handleTimeChange`, the coroutines `handleMctpEndpointsTask`, `setTimeOnErots`, `setTimeOnErot` | called by `MctpDiscovery` and a timerfd; awaits the request layer |
| `requester::Handler` (`handler.hpp`) | `handlers`, `removeRequestContainer` | `registerRequest`, `runRegisteredRequest`, `handleResponse`, the expiry callback, `removeRequestEntry` | resumes the coroutine through the response handler |
| `RequestRetryTimer` (`request.hpp`) | `numRetries`, the timer | `start`, `stop`, the timer callback | a socket |
| `InstanceIdMgr` (`instance_id.hpp`) | 32 bits per endpoint | `getInstanceId`, `markFree` | called by the coroutine and by `Handler` |
| `SendRecvMctpVdmMsg`, `Coroutine` (`handler.hpp`) | the suspended coroutine | suspend, resume | `Handler` |
| `mctp_socket::Handler`, `Manager` | `eidToSockMap`, `socketInfoMap`, `eidToFd` | `registerMctpEndpoint`, `activateSockets`, `deactivateSockets`, receive | opened and closed by the coroutine around each list; passes answers to `requester::Handler` |
| `MctpDiscovery` | - | constructor, `discoverEndpoints` | registers endpoints with the sockets, passes them to `ErotTimeManager` |

**hmc-time-sync** pushes the BMC's time to another controller (the HMC) over
HTTP, with ten attempts. It is a oneshot program: what persists between its runs
is the state of its systemd service (restart on failure, start limit) and timer.

What is hard here:

- Both daemons are single threaded, but they are not sequential. In
  phosphor-time-manager, signals wait in the D-Bus connection while a handler's
  blocking calls change what they are about. In erot-time-manager, the request
  layer resumes a coroutine in the middle of its own event handlers, and the
  coroutine calls back into the same maps.
- Timers, retries and answers race: the instance ID expiry (15 s) against
  retries (5 s) and late answers; the removal of an expired request is deferred.
- Calls fail and nobody repeats them: a `SetNTP` call, the send of a queued
  request, the read of `Elapsed`.
- Both daemons are restarted by systemd and keep nothing.
- Two services are kept in step in both directions, which can become a loop.
- Descriptors are closed and their numbers handed out again while requests that
  were registered with them are still in the map.
- The HMC may come up while the start limit refuses the service a start.
- One coroutine handle serves discoveries and time changes.

What makes each part correct is listed with the runs below. `PROJECT.json` lists
the hazards, each at its line, with the properties that cover it.

## Modules

| module | models | state and actions |
|---|---|---|
| `InstanceIds` | `instance_id.hpp` | which numbers an endpoint's bitset has; lowest free number; freeing |
| `Requester` | `handler.hpp`, `request.hpp` and `InstanceIds`, with one coroutine and the endpoints | below |
| `RequestContract` | what `handler.hpp:65-72` promises the coroutine | ask; decided once, by an answer or by the end of the interval; resume once |
| `RequesterProofs` | | the proofs about `Requester` |
| `ErotTimeManager` | `erot_time_manager.cpp`, on top of `RequestContract` | below |
| `Sockets` | `socket_handler.*`, `socket_manager.hpp` and the lists of the coroutine, on top of `Requester` | below |
| `SocketsProofs` | | the proofs about `Sockets`, with those of `Requester` |
| `MCErotTimeManager` | | three endpoints of two ERoTs with their media, for TLC |
| `ErotTimeManagerProofs` | | the proofs about `ErotTimeManager` |
| `Daemon` | `ErotTimeManager` on `Requester` in place of the contract | below |
| `DaemonProofs` | | that `Daemon` implements `ErotTimeManager`, and what follows |
| `TimeManager` | `manager.cpp`, the settable part of `bmc_epoch.cpp`, the settings daemon and timedated as its partners | below |
| `TimeMode` | what `README.md` promises of `phosphor-time-manager` | one mode, chosen by people; views that follow it; a clock that is set in Manual mode |
| `TimeManagerProofs` | | the proofs about `TimeManager` |
| `HmcTimeSync` | `hmc_time_sync.cpp`, `set-hmc-time.service`, `set-hmc-time.timer` | below |
| `HmcTimeSyncProofs` | | the proofs about `HmcTimeSync` |

```
RequestContract <--refines-- Requester <--extended by-- Sockets      TimeMode <--refines-- TimeManager
      ^                          ^
  client of                 extended by                              HmcTimeSync
      |                          |
ErotTimeManager <--refines--- Daemon
```

An operator under a comment that starts with "Deviation" is not part of a model:
it is the form a definition would have with a plausible bug in the code, used to
see that a property notices.

### Requester

One step is the part of an event handler up to a call of the response handler,
or the rest of it. `call` is the response handler being called and `after` the
event handler that goes on afterwards (`HandleResponse` then
`ReturnToHandleResponse`; `InstanceIdExpiry` then `ReturnToExpiry`). Between the
two the client coroutine runs: `ResumeAwaiter`, any number of `SendRecv` until it
suspends, or `FinishBatch`. This is the nesting the code has: the expiry callback
(`handler.hpp:126-161`) resumes the coroutine while the expired entry is in the
map, and the coroutine registers its next request on top of it.

`handlers` is the map, one entry per key (endpoint and instance ID; type and
command are constant). An entry is absent, queued (expiry timer stopped) or
running; `left` is the `uint8_t` retry counter, with its width. `Starts` is
`runRegisteredRequest`: it takes whichever queued entry of the endpoint the
unordered map yields, unless one is running. `wire` holds the answers on their
way, to the request now under a key or to an earlier one; `ready` is the one
answer a socket may already hold when a Defer is queued, since the event loop
may read it first. What happens when a response handler's awaiter is gone is
undefined behaviour: no effect, the resumption of whatever coroutine waits now,
or a crash (`DeadHandler`, `Restart`).

Exhausted instance IDs are a disabled `SendRecv`, where `getInstanceId` throws.
`StartFaults`, `LateAnswers` and `ForeignIds` say what the environment may do.
Time is not modelled; its consequences are: at most `ExpiryPeriods` retry periods
fit into the expiry interval, and a Defer comes before later timers.

### Sockets

Every action is an action of `Requester` together with what happens to the
sockets, or leaves the request layer alone. In `Requester` a failed send is the
environment's choice; here it is decided: `requestFd` is the descriptor each
entry was registered with (`handler.hpp:163-171`), and a send works if that
number is open (`Sendable`) and no send fault strikes. `socket()` returns the
lowest free number, so that a number that was closed soon belongs to another
daemon's socket.

`build` says whether sockets are those of the demux daemons, opened by
`activateSockets` for each list and closed by `deactivateSockets`, or the
kernel's one socket that stays. There are two kinds of list, as in the code:
`HandleTimeChange` starts the coroutine with one of any endpoints that are known,
and it ends with that (`erot_time_manager.cpp:116-121, 134-166`);
`HandleMctpEndpoints` starts the coroutine that works off the queue, whose lists are
of one endpoint each, and goes on with `NextList` (234-248). `fromQueue` tells
them apart. The queue itself is in `ErotTimeManager`; here a list of it may be of any
endpoint that is known. The endpoints of a list are in `opening`, then in `asking`;
`ActivateSocket` is one turn of the loop in `activateSockets`, `SetTimeOnErot` asks one
endpoint, `EndOfLists` and `NextList` deactivate. `held` says whether the socket of the answer in
`ready` has survived; a socket that is closed takes its answers along. An
endpoint that has no open socket is not an error to `activateSockets` (`Skip`),
and `eidToFd` then yields 0. `RestartDaemon` is also the end of the event loop
after a closed socket (`socket_handler.cpp:100-109`).

### ErotTimeManager

The coroutine is the client of `RequestContract`, instantiated over the same
variables: `client` is none, running or waiting. `task` says which coroutine
`setErotTimeHandle` refers to, `rest` what is left of the list it iterates over,
`elapsed` the time it sends. `HandleTimeChange` and `HandleMctpEndpoints` create
it; `Ask`, `AskFails`, `Resume`, `NextList`, `EndTask` are its steps. `handling`
is the part of `handleTimeChange` after the coroutine's first suspension
(`ReturnToHandleTimeChange`, which sets `erotTimeSyncLast`); `handleMctpEndpoints`
has no effect there. The BMC's `time` is the number of the change that set it,
`erot` the time each ERoT has. `recent` stands for the 60 s interval; it may
already be true at start, since `erotTimeSyncLast` is initially the boot.

A signal of `MctpDiscovery` yields one endpoint or none (`Found`). Its
constructor yields none: it calls `GetSubTree` without arguments
(`mctp_endpoint_discovery.cpp:41-45`), which the mapper refuses.

A request whose send fails stays in the map of the request layer with the time it
was made with. `unsent` has these times; the layer may send them later, and
`NeverSetBack` allows for that and for nothing else.

Three pieces of undefined behaviour in this file are choices of the model. The
vector `setTimeOnErots` iterates over is a local of `handleTimeChange` and gone
after the first suspension, so that later elements are read as anything in
`Garbage`, or as what they were. A coroutine that is done at once is destroyed
twice by `handleMctpEndpoints` (296, 308 and `~Coroutine`), and `setTimeOnErots`
ends without `co_return`: no effect, or `Restart`.

What the sockets do is seen here only as a request that cannot be sent,
`AskFails`.

### Daemon

The client coroutine of `Requester` becomes the coroutine of `ErotTimeManager`:
`Dispatch` is an event handler of `ErotTimeManager` that starts the coroutine
(`StartBatch`) or does not, `SetTimeOnErot` is `SendRecv` for an element of the list,
`Resumed` is `ResumeAwaiter` together with what the ERoT made of the request
(`Handled`), `EndTask` is `FinishBatch`, and `Layer` the timers, removals and answers
in between. `asked` and `outcome` of the contract are read off the awaited key and
the call of the response handler, as in the refinement of `RequestContract`.
`message` is new: the time in the message that was registered under a key, which
`registerRequest` does not replace when the map already has the key
(`handler.hpp:163-174`). It is what an ERoT is told, where `ErotTimeManager` takes
the coroutine's time or one left behind. Messages of requests that nobody awaits any
more are not followed to the ERoT. Also in a clean environment there may be one: an
expired request is sent again when the next one of its endpoint is registered before the
Defer (`RemovalHitsExpired` allows it), with the time it was made with. `Daemon` says
nothing of what it does to the ERoT, or of any message that takes effect after its
request was given up. Outside a clean environment the composition does differ: with `StartFaults = {"send"}` `ErotSpec` is violated.

### TimeManager

`setting` is `TimeSyncMethod` in the settings daemon, `service` and `job` are the
NTP service under timedated, `inbox` the signals that wait for the daemon, oldest
first. The daemon's calls block it, so a handler is one step; the constructor is
three, because signals arrive between its match rules, its read and its forced
call (`Subscribe`, `ReadSetting`, `ForceMode`). `SetNTP` starts a job, which ends
later and signals the state it reached. `SetElapsed` is refused while the service
has not stopped, as timedated does. `Crash` loses the inbox and `timeMode`.
`CallFaults` says which calls may fail.

`OneMode` is `TimeMode`'s specification with `chosen` replaced by the mode asked
for last (`LastAsked`: the other mode than the stored one while timedated, or a signal
of it, is on its way to that, the stored one otherwise), `settled` by `Quiet`, and `ntp`
by the state of the NTP service.

### HmcTimeSync

`phase` is what the service is doing: inactive, queued to start, in
`patchHmcTime`, or asleep between two attempts. `Patch` writes the body with the
time of that moment, `Apply` is the HMC accepting it, `Succeed` and `Fail` the
end of the attempt, `Retry` the next one; a program that fails for the last time
is queued again by systemd (`AfterLast`). `window` and `starts` are systemd's
start limit, `sinceStart` the timer. The HMC comes up and goes down, and the
BMC's clock may be set, at any moment. `Tick` lets a unit of time pass, but not
past what is due; `behind` is how long an HMC that is up has waited for the
BMC's time.

"Up" is an assumption on the environment: the HMC answers a PATCH with a 2xx within
the transfer timeout, so that `Fail` needs an HMC that was not up all through the
attempt. The code fails on any other status and on an answer that is late, too
(`hmc_time_sync.cpp:75, 89-100`); an HMC that gives those is one that is not up, and
none of the bounds in time hold of it.

`interval` is not one number. The unit has `StartLimitIntervalSec` in its
`[Service]` section (`set-hmc-time.service:12`), where systemd does not know it,
so that the default of 10 s may hold instead of the 300 s meant. Both kinds are
in `LimitIntervals`: one that the fastest failures never meet (`Slow`), and one
that they do.

## Runs

| run | question | result |
|---|---|---|
| `requester_clean` | Does the request layer keep its promises, and the contract, when nothing fails at the start of a request and answers come in time or never? | yes: 3866 states |
| `requester_faults` | What is left when everything may fail, answers are late and others use the endpoints? | types, and one request in flight per endpoint: 3.0 million states |
| `sockets_faults` | Is an awaited request on its endpoint's open socket, in both builds, when sockets do not open, sends fail and others' answers come? Does the layer keep its promises on the kernel's socket, or on that of one demux daemon? | yes: 920,350 states |
| `sockets_stale` | And on the sockets of two demux daemons, with nothing failing by itself? | no |
| `erot_clean` | Are all discovered ERoTs told the time, and all lists worked off, in a calm environment? Does a list ever wait for nobody? | they are, and none does: 58,833 states |
| `erot_faults` | Can an ERoT be set back, under every fault and interleaving? | only by a request left behind unsent: 2,880,957 states |
| `erot_stranded` | Is every list worked off if discoveries come during a time change? | no |
| `timemanager_clean` | Do setting, `timeMode` and NTP service agree at rest? | yes: 6480 states |
| `timemanager_faults` | And if calls fail? | `timeMode` still follows the setting: 11685 states |
| `timemanager_patient` | Does the daemon keep the users' setting, and does everything come to rest, nearer with every step, if people wait between changes? Is it an implementation of `TimeMode`? | yes: 2119 states |
| `timemanager_hasty` | And if they do not? | no |
| `hmc_hourly` | How long does an HMC that is up wait for the time, and how old is what it gets? Does the start limit ever refuse the timer? | an hour and a transfer at most; no older than a transfer; never: 213,189 states |

The properties are stated, with the code they are about, at the end of each
module. The three runs that fail show the following.

- `sockets_stale`: a time change has two ERoTs of two daemons told, e1 and e2, whose sockets
  get the numbers 1 and 2. e2 does not answer. The expiry callback resumes the coroutine,
  which closes the sockets and ends (`erot_time_manager.cpp:164-166`); the expired entry
  waits in the map for its Defer. Before that runs, the signal of a discovery of e1 is
  handled, and starts `handleMctpEndpointsTask`. Its queue has e2, which was discovered
  again while the time change's coroutine waited (and is only queued then, 284-300), and
  e1. For the list of e2 its socket gets the number 1. The new request makes
  `runRegisteredRequest` start the old entry, on number 2. That is closed, so the send
  fails, and `registerRequest` reports it as the failure of the new request, which stays
  in the map. For the list of e1 its socket gets the number 1. The Defer runs and starts
  the new request of e2 on number 1, now e1's socket; when it expires, it calls the
  response handler of an awaiter that is gone.
  The trace has the coroutine's steps, not the signals: `HandleMctpEndpoints(e2)` is the
  coroutine with the list of e2, `NextList(e1)` the list of the signal that started it.
  That a signal is handled between an expiry and its Defer needs both sources
  to be readable in one iteration of the event loop: the Defer is made pending in the
  iteration of the timer, so that it need not come before a message that was there by
  then, as all have the same priority. `Requester` assumes the same of an answer
  (`ready`). Later messages come after the Defer; that the trace needs one only is due to
  the queue.
- `erot_stranded`: an endpoint is discovered while a time change's coroutine waits.
  `handleMctpEndpoints` queues it and returns; the coroutine ends without looking at
  the queue.
- `timemanager_hasty`: the signal of the job of an earlier mode is handled after a
  user chose another mode, and the daemon writes the earlier mode back. Two such
  signals of opposite modes even keep the two services alternating forever:
  `ComesToRest` fails too when `Patient` is FALSE.

Other weaknesses that show in the models and have no run of their own:

- The expiry callback leaves the entry in the map until a Defer removes it; an
  answer read in between calls the handler of an awaiter that no longer exists, and
  as the instance ID was freed at once, a late answer may complete a later request
  (with `LateAnswers`, `HandlerCalledOnce` fails).
- A queued request whose send fails when its turn comes is never answered: the
  failure is ignored, the coroutine waits forever, and `ErotTimeManager` with it
  (with `StartFaults = {"send"}`, `EventuallyAnswered` fails).
- An answer to another program's message frees the instance ID of a live request
  (with `ForeignIds`, `WakeupPending` fails).
- A discovery that is dispatched before a time change makes that change find a
  coroutine waiting, and it is dropped: ERoTs known before keep the old time (without
  `"overlap"` in `Calm`, `SyncedAtRest` fails).
- `erotTimeSyncLast` counts attempts although `erot_time_manager.hpp:131` says
  "successful" (without `"hurry"` in `Calm`, `SyncedAtRest` fails).
- A daemon that starts after its endpoints were published does not know them, because
  the constructor's `GetSubTree` always fails.
- After a failed `SetNTP` the clock can be set in NTP mode (with
  `CallFaults = {"setNtp"}`, `SetOnlyInManual` fails).
- With a start limit that fast failures meet, an HMC that comes up is set only when
  the timer elapses, within the hour (`SetWhenUp` has `Slow` for that reason).

### Bounds

- `Requester`: `requester_clean` uses two endpoints, because endpoints share only
  the event loop, the one coroutine and the deferred removals; three instance IDs,
  because `TwoIdsSuffice` shows that a third is never needed; the code's three
  retries, three periods and 256 counter values. There is no bound on the number of
  requests, retries or restarts. `requester_faults` has one endpoint, three IDs (so
  that IDs run out), one retry, one period and a counter modulo 2: everything wraps
  and is exhausted within a few steps. The theorems remove these bounds.
- `Sockets`: two endpoints, each of either daemon; two descriptors, which is as many
  as daemons, so that a number changes hands in the second of `MaxLists` two lists
  (three in `sockets_stale`: that of a time change and two of the queue). A run looks at all faults together and at none. Two instance IDs suffice
  because of `TwoIdsSuffice`; one retry and one period, since the timing of retries is
  checked in `requester_clean`.
- `ErotTimeManager`: two ERoTs, one with two endpoints of different media, so that
  `top()` matters; a discovery has one endpoint or none, and only a time change makes
  a list of several; `MaxTime = 3`, two changes, so that one may meet what another
  left; `MaxSignals` discoveries per run of the daemon, four in `erot_clean` so that
  three lists may queue behind the one at hand, three in
  `erot_faults`. Restarts are unbounded.
- `TimeManager`: `MaxEdits`, `MaxAdmin` and `MaxCrashes` bound changes from outside,
  `MaxSets` successful settings, `MaxInbox` the signals that wait when others add
  one. Two edits and a change by an administrator give every pair of signals of
  either source in either order; three edits and two crashes are used where the
  order of whole episodes matters.
- `HmcTimeSync`: time in coarse units: three attempts, delay and timeout of two, an
  hour of 24, a burst of three, limit intervals of 4 and 16. What matters is kept: a
  delay and a timeout are shorter than the hour, a failing start takes at least four
  units, so that three of them (12) meet an interval of 16 and not one of 4. The
  theorems hold for the code's own numbers. No counter is capped by hand: `age` and
  `bodyAge` are bounded by the timers, `window` stops once it exceeds the interval.

Deadlock is not checked, but in `hmc_hourly`. In `Requester`, `Sockets` and
`ErotTimeManager` a restart is always enabled, so that the check would say nothing;
an idle `TimeManager` whose bounds are used up rightly rests. The liveness properties
stand in for it.

### Fairness

- `Requester`: code runs on (`Handler`), the armed expiry timer elapses, a queued
  Defer is dispatched. Nothing is assumed of endpoints, of answers or of the next
  request of the client.
- `Sockets`: the same. `KernelAnswers` needs nothing of the sockets but that they work.
- `ErotTimeManager`: code runs on, the event loop dispatches the timerfd, and the
  request layer decides, which is what `EventuallyAnswered` shows of `Requester`.
  Discoveries, changes and restarts are not fair.
- `TimeManager`: systemd completes the start, signals are dispatched, timedated ends
  its jobs. Users, administrators and crashes are not fair.
- `HmcTimeSync`: the program and systemd go on, an HMC that is up handles the request
  it has received, time passes. The HMC need not ever be up; `EventuallySet` says what
  happens if it is, for good, and the clock is no longer set.

## Proofs

`tlapm` checks six modules. The theorems hold for every value of the constants
that satisfies the named assumptions, and so beyond the bounds of the runs. Every
invariant and every action property of a passing run is proved, some under a condition
on the environment, which is a hypothesis of the theorem.

**`RequesterProofs`.** `TypeCorrect` and `OneInFlightAlways` hold whatever fails;
`OneInFlight` is inductive together with the types, because every start goes
through `Starts`, which looks for a running entry of the endpoint first.
`RetriesWithinBudget` needs that the expiry timer always starts: an entry left
behind with its retry timer armed would wrap its counter. Two more need less than a
clean environment. `IdsAlwaysInStep` allows late answers, but no failing start and no
foreign answer: `IdsStep` goes through the places where an ID is taken or freed, the
outcomes of a start among them. `RemovalAlwaysHitsExpired` allows failing starts,
but no late or foreign answer; its invariant is `ExpiredInPlace`: whatever is started or
erased, the entry a Defer was queued for stays, and an answer to it is not read.
The other promises hold in a clean environment (`Clean`: no failing start, no late answer, no foreign
answer). None is inductive alone. `CleanInv` is: the awaited request is the only
one with a live handler; every other entry in the map is an expired one, of which
there is at most one, whose answer no socket holds; what is queued waits behind
the expired one; and the IDs in use are those of the map. From it follow
`HandlerCalledOnceAlways`, `WakeupAlwaysPending` and `TwoIdsAlwaysSuffice`. Here every
part of `Clean` is needed: TLC finds each of the three violated with late answers,
with foreign answers, and with each of the failing starts alone. The step is proved of `CleanNext`,
the steps that no fault touches, so that it can be used where the environment is not
clean as a constant but turns out to be. `KeepsContract` shows that every step maps
to a step of `RequestContract` or to none, with `asked` read off the awaited key and
`outcome` off the call being made.

**`SocketsProofs`.** `LayerStep`: every step of the composition is a step of
`Requester` or none, so that everything proved of any environment holds here
(`SocketsOneInFlight`). `AwaitedOnItsSocketAlways` from `SocketInv`: a live entry is
the awaited one, the socket manager knows the open socket of an endpoint or none, and
an entry has that number or one that nothing is sent on. It holds for any number of
daemons, descriptors and lists and under every fault. `KernelAlwaysKeepsPromises`
shows by `KernelFds` (what is registered, and what is about to be, has the number of
the kernel's open socket) that every step of the kernel's build without faults is one
of `CleanNext`, and takes the promises over from `RequesterProofs`.
`OneDaemonAlwaysKeepsPromises` says the same of the other build as long as the endpoints
known so far share one address, which is where `sockets_stale` stops being possible. It
is harder, since the socket is closed with every list, and an expired request may be
started again by the event handlers in between. `DaemonFds`: the socket has the same
number whenever it is open, and it is open while an endpoint is to be asked or its answer
awaited. `AskedOnce`: an endpoint is asked once in a list, so that what the socket held
when a request expired is not of its endpoint, and `handleResponse` comes upon an expired
request only while another one is awaited, with the socket open. Both rest on `CleanInv`
and it on them, so that the three are one invariant. Its condition is one on the history
(addresses are only added), which a restart resets.

**`ErotTimeManagerProofs`.** `TypeCorrect`, and `NeverSetBackAlways` from
`TimesInOrder`: no ERoT is ahead of the BMC, and while there is a coroutine none is
ahead of the time it sends. The condition on the coroutine is needed because a
restart forgets what was sent. `NoneEverLost`, where requests are sent and succeed,
from `ListsInOrder`: there is a coroutine as long as there is a task, and a discovery's
coroutine works off the first list of the queue, which stays there until all of it has
been told. `AlwaysSyncedAtRest`, in a calm environment, from
`ToldOrListed`: a known ERoT has the BMC's time, or an endpoint of it is being asked or
in a list that will be, with that time. `QueueAlwaysAttended` is the safety part of
`QueueServed`: when discoveries do not meet time changes and `Elapsed` can be read, a
list in the queue has the discovery's coroutine, or one that is about to be, before it,
whatever requests come to. `Handled`, what comes of one request, is an operator of its own,
because `Daemon` uses it too.

**`DaemonProofs`.** The theorems above are about a coroutine that asks the contract of
the request layer, and about a layer with a coroutine that asks anything. This module
puts the two together for a clean environment. `RequesterSpec`: `Daemon` only restricts
`Requester`, so that `CleanInv` holds of it. `MessageAlwaysInStep` is what the composition adds:
the awaited key has the message of the current task, because a number that
is free belongs to no key in the map (`FreshKey`, from `IdsInStep`). With it every step maps to a step of
`ErotTimeManager` or to none, one lemma for each kind (`AskStep`, `ResumedStep`,
`LayerStep`): `DaemonImplementsErot`. So the theorems of `ErotTimeManagerProofs` hold of
the daemon and the requests it awaits: `DaemonNeverSetsBack` (without the exception for
requests left behind; what an expired request does that is sent again is not followed),
`DaemonAttendsQueue`, `DaemonLosesNone`, `DaemonSyncedAtRest`. `ErotParameters` repeats
the assumptions of `ErotTimeManager` about its constants. No run checks `Daemon`; it
was explored with TLC while it was written, with two ERoTs and a third endpoint, three
instance IDs, two times and two discoveries (112,739 states, every action taken).

**`TimeManagerProofs`.** `TypeCorrect`; `SettingAlwaysFollowed`, whatever fails, from
`SettingTold`: the newest signal of the settings daemon that waits, or `timeMode` if
none waits, is the stored setting. `InStepAlways`, without failed calls, adds
`NtpTold`, the same of timedated once its job is done; `AgreementAlways` and
`SetOnlyInManualAlways` follow. For patient users and administrators `AskedAlone` (what
is asked of timedated is the only thing under way) is kept too, which gives
`DaemonAlwaysKeepsSetting`, and `KeepsOneMode`: every step maps to a step of `TimeMode`
or to none. `AlwaysNearerToRest` is the safety part of `ComesToRest`: `Unrest`, what the
stages of a start, a job and the signals under way still cost, is a natural number, zero
exactly at rest, and every step of the daemon, timedated or systemd lowers it. It needs
`BehindAlone`: while one view is behind what was asked, nothing else is under way that
could make the other follow an older one.

**`HmcTimeSyncProofs`.** `TypeCorrect`; `LagAlwaysBounded`, `AlwaysSetWithinTheHour` and
`HourlyStartAlwaysGranted` from `HmcInv`: a PATCH or a sleep has lasted no longer than
its timer, and what the HMC has waited it has waited since the body was written, the
service was started or the hour began. `AlwaysSetWhenUp` adds `FailuresTakeTime` (the
window has lasted as long as the attempts of the starts it counts, so that a `Slow`
service is below the limit) and `CaughtInStep`. The bounds in time would be worth little
if the model could hold up time. `TimeIsNeverHeldUp` says that it cannot: when `Tick` is
not allowed, one of the steps that `Due` waits for is possible, and all steps of program,
systemd and HMC lower `Work`, the attempts and starts that are left before time has to
pass, also with a retry delay of 0.

Only model-checked: the liveness properties (`EventuallyAnswered`, `KernelAnswers`,
`QueueServed`, `ComesToRest`, `EventuallySet`) and the liveness part of the two
refinements (`ContractSpec`, `OneMode`), which are outside what the prover does. What
of them is safety is proved: `WakeupAlwaysPending` for the first two,
`QueueAlwaysAttended`, `AlwaysNearerToRest`, `TimeIsNeverHeldUp`, `KeepsContract` and
`KeepsOneMode`.

## Not modelled

- Which objects of D-Bus qualify in `MctpDiscovery::populateMctpInfo`: the models have
  its outcome, an endpoint or none.
- `Manager::setTimeMode`: its one caller, `BmcEpoch::onModeChanged`, is called by a test
  only. The getter of `Elapsed` and the drain of the time-change timerfd change nothing.
- An exhausted instance ID pool throws inside a coroutine that swallows exceptions; the
  models only do not ask then, and `TwoIdsSuffice` shows when it cannot happen.
- Log entries, D-Bus paths and lookups, message layout: no property depends on them.
- The helpers of `oem/nvidia/utils.*` and the two `main` functions: logging, a wrapper of
  a descriptor, and wiring.
- A message that takes effect in an ERoT after its request was given up, that of an
  expired request that is sent again included.
- A hmc-time-sync program that is killed; a sending HMC that applies one PATCH twice.

## Plan

Done: `InstanceIds`, `Requester`, `RequestContract` and the refinement; `Sockets` on top
of `Requester`; `ErotTimeManager` on the contract; `TimeManager`, `TimeMode` and the
refinement; `HmcTimeSync`; `Daemon`, with what `ErotTimeManager` keeps on the request
layer; the proofs above.

Left:

1. `Daemon` on `Sockets`, to see which of its lists meet a stale descriptor, and the
   growth of the priority queues (`erot_time_manager.cpp:270`).
2. `TimeManager` with impatient users: what the daemon does promise then. That the last
   choice wins is not it (`timemanager_hasty`).
