# Verification of the OpenClaw gateway core in belagent-infra

TLA+ specifications of the parts of this repository that queue, order, retry and
restart work, model-checked with TLC on small instances and, where that is
possible, proved with TLAPS for every instance. Paths below that start with a
directory such as `process/` are relative to `src/openclaw/src/`.

## 1. The system

belagent-infra deploys a personal agent per client. Its own code is small: a Kanban
API over a JSON file (`src/kanban-api/server.js`), a server of markdown files
(`src/memory-server/index.js`), a context watcher (`src/scripts/context_manager.py`)
and shell scripts, units and tunnels. What it deploys is the embedded OpenClaw tree
(`src/openclaw`): one Node process per client, the *gateway*, that takes messages from
chat channels, runs agents and sends the replies. All core logic of the system is there.

The gateway is one event loop. Nothing is preempted, but every `await` lets other
work in, so the hard behaviours are interleavings at awaits, state that is read before
an await and used after it, timers that race with answers, restarts in the process
(globals survive, the code goes on) and crashes (only files survive).

How a message goes through it:

    channel -> inbound debounce -> is a run active for the session?
                 | yes                           | no
                 v                               v
           followup queue --(drain)--> embedded agent run
                                         = session lane, and inside it a shared lane
                                           (command queue)
                                                 |
                                                 v
                 reply dispatcher -> outbound delivery queue (disk) -> channel
    run loop: starts the server, drains the command queue, restarts in place;
              every start runs a recovery of the delivery queue and starts the
              cron service and a heartbeat runner

The other actors of the same process: the cron service starts runs on its own schedule
(its manual runs hold lane "cron"), the heartbeat wakes the agent and backs off while the
main lane is busy, every run takes the write lock of its session's file, and node calls
of a run wait for approvals and for the node's answer.

### Inventory

| component | state | operations | hard behaviour | what makes it correct |
|---|---|---|---|---|
| command queue (`process/command-queue.ts`, lanes) | per lane: waiting entries, active task ids, cap, generation; a draining flag | enqueue, pump, complete, clear lane, set concurrency, mark draining, reset all | nested lanes; completions from before a reset; wake-ups only by pumps | slots and queues accounted for, no idle slot while work waits, FIFO within the cap, one run per session, no deadlock of nested lanes |
| gateway run loop (`cli/gateway-cli/run-loop.ts`, `infra/restart.ts`) | server handle, lock, shutdown in progress, restart timer, deferral polls | signals, schedule, defer, drain with timeout, close, respawn, restart in place, failed start | three activities that interleave; failures and timeouts at each step | a serving gateway accepts work and holds its lock, the port is free at each start, a drained restart never overlaps runs, every drain window ends |
| followup queue (`auto-reply/reply/queue`, `utils/queue-helpers.ts`) | a registry of queue objects per session, callbacks, recent message ids | enqueue with dedupe and drop policy, drain in two modes, clear, retry | a drain keeps its object across awaits while enqueues, overflows and clears change it | no message lost or told twice, order, cap, drains end, no lost wake-up |
| outbound delivery queue (`infra/outbound/delivery-queue-*.ts`) | one file per entry, a marker file, `failed/` | write-ahead enqueue, two-phase ack, fail, move to failed, recovery with backoff and budget | crashes, I/O errors, a recovery beside live sends and beside another recovery | what was written is kept until sent or set aside, not sent twice without a crash, retries end |
| cron service (`cron/service`) | the store file, a copy in memory, a running marker in each job, one timer | start with catch-up, tick, manual run, add, update, remove, read, reload of the configuration | jobs run outside of the store's lock; a tick reloads the file under them; crashes; two services after a change of the configuration | a job has one run at a time, markers match runs, the timer stays armed, a one-shot succeeds once, no due slot is given up unrun |
| session write lock (`agents/session-write-lock.ts`) | the lock file, `HELD_LOCKS` with a count, a watchdog | acquire, reclaim a stale file, release, forced release, clean-up at a start, exit | check and remove of a stale file by two waiters; a reclaim from a holder that is too slow; death of the owner | one process writes, nested holders are counted, a dead owner blocks nobody |
| heartbeat (`infra/heartbeat-wake.ts`, `infra/heartbeat-runner.ts`) | pending wakes, one timer, two flags; per runner an interval timer | request, fire, retry, replace the handler, run, reload, stop | a handler replaced during a run; a busy lane; errors; one-shot timers | no event lost, no two runs at a time, the interval goes on |
| exec approvals (`gateway/exec-approval-manager.ts`) | records with timers, promises | register, resolve, expire, consume once, wait | resolve against expiry; consumption in the grace window | one decision, told to the requester, allow-once used once |
| node registry (`gateway/node-registry.ts`, `node.invoke`) | sessions by node and by connection, pending invokes | register, unregister, invoke, result, timeout | a reconnect before the old connection closes | calls have a session and are answered, commands run with their approval |
| file lock, gateway lock (`plugin-sdk/file-lock.ts`, `infra/gateway-lock.ts`) | lock files | acquire, reclaim, release | as in the session write lock | exclusion |
| subagent announce queue, reply dispatcher, inbound debounce | small in-memory queues | enqueue, drain, flush | as in the followup queue | as in the followup queue |
| subagent registry, ACP control plane, pairing, supervisor | stores and actors | see PROJECT.json | persistence, timers | later candidates |
| Kanban API | board file | requests on columns, cards, archive | sequences of requests | every card in an existing column, in one place |
| memory server, context manager, deployment, clients, channels, apps, UI | none, or files written by one writer | | I/O and configuration | not modelled |

The hazards behind this table are listed with their source lines in `PROJECT.json`
(`hazards`), each with the properties that cover it or the reason why none does.

## 2. The modules

| module | models | built on |
|---|---|---|
| `CommandQueue` | lanes, entries, nesting of agent runs | - |
| `GatewayRunLoop` | run loop and restart scheduler, with work going on in the lanes | EXTENDS `CommandQueue` |
| `FollowupQueue` | the queue objects and drains of one session key | - |
| `DeliveryPromise` | abstract: what the delivery queue promises | - |
| `DeliveryQueue` | files, live sends, recoveries, crashes | implements `DeliveryPromise` |
| `CronJobs` | the pure functions on jobs: next runs, due, result of a run | - |
| `CronService` | start, ticks, manual runs, edits, reloads and crashes on one store | EXTENDS `CronJobs` |
| `SessionWriteLock` | the lock file of one session, its holders, waiters and processes | - |
| `HeartbeatWake` | the wake layer, and the runners on it | - |
| `ExecApproval` | approval records and the three methods on them | - |
| `NodeInvoke` | connections of a node and calls to it, under approvals | EXTENDS `ExecApproval` |
| `CommandQueueProofs`, `GatewayRunLoopProofs`, `FollowupQueueProofs`, `DeliveryQueueProofs`, `CronServiceProofs`, `SessionWriteLockProofs`, `HeartbeatWakeProofs`, `NodeInvokeProofs` | theorems | EXTEND their module |
| `MC...` | small instances for TLC | EXTEND their module |

`PROJECT.json` (`map`) gives for each definition the lines it stands for. Operators
with "Mutant" in their comment are not part of the specifications: they are wrong
versions of the operator after them, kept to show that the properties notice.

**CommandQueue.** `queue`, `activeTaskIds`, `maxConcurrent`, `generation` are the fields
of `LaneState`; `gatewayDraining` is the global flag; `task[e]` is the promise of an
entry. A run has an entry on its session's lane whose task is the enqueue of its entry on
a shared lane; that enqueue happens synchronously when the session entry starts, so
`DrainLanes` does both in one step. A manual cron run holds lane "cron" around both and
awaits before it enqueues, so `CronJobStartsRun` is an action of its own. Only the order
in which a reset pumps several session lanes is left open (`Orders`). Lanes that never
carry agent runs, wait warnings and logging are left out. The cap of a session lane is 1
and is never configured.

**GatewayRunLoop.** `loop` is where the `while (true)` awaits, `shutdown` where the
closure of `request` does. `Work` is any step of the command queue but the two that the
loop reserves. The listener takes an emitted SIGUSR1 synchronously, so emission,
authorisation and request are one step. `ForceExit` is the timer around drain and close.
`drainTimedOut`, `startFailed` and `portLeaked` are history variables that properties use.
`server?.close()` may throw before it comes to the HTTP servers, and a start may fail after
it has bound the port: `listening` then stays TRUE with no handle to it.
`SignalsDuringStart` says whether signals may arrive while `params.start()` is awaited.
The registry of embedded runs that the drain also polls holds a subset of the running
global entries; the model lets the drain end at any time, which covers it.

**FollowupQueue.** One session key. An object that `getFollowupQueue` creates stays
reachable from its drain after it left the registry, hence `registered` and `queue[q]`.
`Arrive` is the read of `isActive`; `Enqueue` comes later. `DrainStep` is one iteration
after the debounce up to the call of the followup run, `RunResolves` and `RunThrows` what
follows its await. Prompts are the sets of messages they are built from. Sending by route
is abstracted to `RouteOf`, and the age of the cached message ids is unbounded within a
behaviour.

**DeliveryQueue.** The live send (`Live`) and the recoveries are actors that interleave
between file operations; `phase[a][d]` is the operation that actor `a` has started for
delivery `d`. `ackDelivery` is rename and unlink, `failDelivery` is read and write, each
its own action. `Crash` ends all actors and keeps `disk`; `Boot` and `RestartInProcess`
begin a recovery. Time is abstract: a backoff has or has not elapsed, a budget is or is
not exceeded. What a channel does with a message is a choice: success, throw, abort, or
errors hidden by `bestEffort`.

**CronJobs, CronService.** `CronJobs` holds the functions of `jobs.ts` and
`applyJobResult`; a store is a function from the ids it holds to job records, and time is
a number of units of the shortest backoff. In `CronService` an action is one section under
`locked()`, which serialises the sections of all services of the process on one store;
`store` is the file and `mem[s]` the copy of service `s`, because the two differ between
sections: a tick reloads the file, a manual run applies its outcome to the copy and merges
one job into the reloaded file. Runs (`execs`) begin and end outside of the sections.
`Reload` stops the timer of the service in use, whatever that service is doing, leaves it
with its runs, batches and manual calls, and starts the next one beside it; the end of its
tick arms its timer again. `Crash` keeps the file alone. Two history variables carry the
exceptions of section 5: `excused` (jobs disabled, removed or stuck under a run of theirs)
and `beside`, set by a reload that leaves work behind and cleared when all is `Settled`: no
service ticks, starts or has a manual call, no marker is left, and the file, the copy and
the recorded successes agree. A tick's batch holds the objects of the copy until something reloads it
(`aliased`), which decides where a worker's fresh marker goes.

**SessionWriteLock.** A step ends where the code awaits the file system. An acquisition
has an id that stands for its `HeldLock` object and its file; `file` is what the path
names. `Rm(i)` removes whatever the path names although its caller means `i`, as
`fs.rm(lockPath)` does; `robbed` records whom that hit. `Age` and `Overrun` are the two
limits of time, `staleMs` of a file and `maxHoldMs` of a hold, and `lapsed` records the
acquisitions that outlasted one. `CleanRead` and `CleanRemove` are `cleanStaleLockFiles`,
which a gateway runs at its start and at each restart in place, while it already serves.
`handleTerminationSignal` releases the locks of its process at once and raises the signal
again only if nobody else listens to it. `Terminate` is the case in which the process ends
of it, or exits; in `Signal` it lives on, as the gateway does, whose run loop listens to
the same signals, and its holders write on without a lock (`signalled`).

**HeartbeatWake.** `pending`, `timer`, `scheduled`, `running` and `handler` are the
variables of `heartbeat-wake.ts`, which outlive an in-process restart; `batch[b]` is an
invocation of the timer's callback that awaits its handler, so there can be two after a
handler is replaced. Runners follow each other as iterations of the gateway do. Of the
interval of a runner only whether its timer is armed is kept: when a wake reaches it, an
agent may or may not be due. `HandlerThrows` is the wake layer's own error path; the
runner itself catches what its run throws.

**ExecApproval, NodeInvoke.** `record[i]` is the entry of the manager's map with its grace
period, `promise[i]` what its promise resolved to: the two part when an allow-once is
consumed. `RequestApproval`, the forwarder's answer and the response are separate actions
because the handler awaits between them. `NodeInvoke` adds one node with its connections:
`node` is `nodesById`, `byConn` is `nodesByConn`. `Invoke` is `node.invoke` up to its first
await; a call may wait for a reconnect before it is forwarded, and the check of its
approval comes after that wait. The code takes a record without decision and resolver for
timed out (`node-invoke-system-run-approval.ts:287-291`); a consumed record has a resolver,
since `exec-approval.ts:319-320` passes the name or else the id of the client, and the
connect frame is refused without a nonempty id (`gateway/protocol/schema/frames.ts:20-36`).

## 3. The runs

| run | instance | properties | shows |
|---|---|---|---|
| `command_queue` | 2 chat runs in 2 sessions and a manual cron run in the session of the first; caps of main {0,2}; 1 reset; fair | SlotAccounting QueueAccounting WorkConserving SessionExclusive StartsWithinCapInOrder AcceptedRunsSettle | accounting, wake-ups, caps and order over clears, reloads and a reset with late completions; nested lanes do not deadlock |
| `gateway_restart` | 2 runs of a session, 2 resets, 2 pending restarts, fair | ServingAcceptsWork StartFindsPortFree ServingHoldsLock DrainedRestartIsExclusive CommandQueueSpec DrainingEnds | the loop over stop, restart, failed starts, timeouts, a second restart; it uses the queue as the queue's specification allows |
| `restart_during_start` | signals during a start | ServingAcceptsWork (violated) | finding 1 |
| `followup_drain` | 3 messages, 2 routes, caps 1 and 2, both modes, drop policies summarize and old, 3 objects, 1 clear, 1 failed run, 1 redelivery, fair | FQTypeOK IdleQueueHasNoCallback ToldOnce Conservation TellsInOrder DrainsSettle | what holds of the queue when no overflow meets a running drain |
| `followup_lost` | cap 2, collect only, one object | EveryAcceptedMessageReachesTheAgent (violated) | finding 2 |
| `delivery_recovery` | a plain and a best-effort delivery, 1 live send, 2 recoveries that overlap, from an empty directory or from two entries a crashed process left (`TwoLeftOver`), 2 crashes, 1 I/O error, 1 exceeded budget, fair | DQTypeOK DeliveredOnce FailedIsFinal KeptUntilDelivered EntriesSettle | crash safety and concurrent recoveries; the queue implements `DeliveryPromise`; retries end if starts go on |
| `delivery_replay` | one delivery, no crash, no I/O error | NoReplayWithoutCrash (violated) | finding 3 |
| `delivery_lost` | one best-effort delivery | NothingLost (violated) | finding 4 |
| `cron_schedule` | a recurring job and a one-shot, three instants with a slot at the second, 1 manual run, 1 add or edit, 1 crash or reload at any time | CronTypeOK OneRunPerJob MarkersMatchRuns SchedulerArmed OneShotsRunOnce DueSlotsKept | ticks, catch-up, manual runs and edits around runs that go on outside of the lock, also of a service that a reload left behind |
| `session_lock` | a gateway with 2 callers, a second process with 1; 3 acquisitions, 2 deaths or signals outlived, 1 hold or file that lasts too long, 1 failed write, fair | SingleWriter HoldersAreCounted DeadLocksAreReclaimed | exclusion and counting for holders within their limits that no signal released; a dead owner blocks no waiter |
| `heartbeat_wake` | 2 runners, 2 batches in flight, 2 targets, 1 requested event, 1 rejection, 1 change of the configuration, fair | OneBatchPerHandler EventsAreKept IntervalGoesOn EventsAreAnswered | wakes over coalescing, retries, errors and an in-process restart |
| `node_invoke` | 2 connections of a node; a call and its retry with one approval, the retry with a fallback; fair | CallsHaveASession RunsAreApproved RequesterToldDecision CallsAreAnswered | approvals raced by expiry, clients and retries, calls raced by a reconnect |

**Bounds.** Every bound is a CONSTANT marked BOUND. Two runs of a session and one of
another are the fewest that make a session lane wait, a shared lane overflow and the
order matter. One reset gives two generations, and a task can only be told from "this
generation" or "an earlier one"; the gateway run has two resets so that a restart
scheduled in one iteration fires in the next. Three messages over a cap of two overflow
once, with one item of the batch gone; three objects are one more than a clear and a
drain in progress keep alive. Two actors are enough to interleave on a file, the third
(live and two recoveries) adds an overlap of recoveries. `MaxRetries` is 2 instead of 5:
the code compares it only with `retryCount`. Three instants let a slot be due, be missed
while a run goes on, and be caught up; a run lasts two at most and a marker counts as stuck
after one, so that a service also clears the marker of a run that still goes on. One
reload leaves two services that both act; a third adds no new pair. Three acquisitions are a dead owner's, and those of two waiters that reclaim
it. Two runners and two batches are the handler before and after a restart. Two
connections make a reconnect, and a call with its retry meets an allow-once twice.

**Deadlock** is checked in the runs of the command queue, the followup queue and the
delivery queue: something can always happen there (a reload of a cap, a turn of the agent,
a boot or a restart with its recovery). It is off in the others because they really stop: the gateway process may exit, the clock of the cron
run ends, processes die, every runner is stopped, every call is answered.

**Fairness.** `CompleteTask`: the event loop runs every continuation, and agent runs and
cron jobs carry a timeout, so their promises settle. Run loop: the drain and the close
are bounded by `DRAIN_TIMEOUT_MS` and `forceExitMs`, the lock by its own timeout, and
`start()` settles; no fairness makes anyone send a signal or submit work. Followup drain:
debounce timers fire and followup runs settle. Delivery: calls of a channel and of the
file system settle and the recovery loop goes on. Nothing in the code makes the gateway
start again, and only a start begins a recovery, so `EntriesSettle` is conditional: its
premise, `RecoveriesKeepComing`, is that boots and restarts go on. Strong fairness of `Retries` says that a backoff does not
meet every recovery unelapsed for ever (it is at most 10 minutes). Write lock: the event
loop of each process goes on, holders release in a `finally`, and a file that is left over
grows old. Heartbeat: an armed timer fires, a handler's call settles, and, strongly fair,
the main lane is not busy at every attempt to run an event. Node calls: timers fire, the
forwarder's call settles, and a settled promise resumes who awaits it. The cron run checks
no liveness: `SchedulerArmed` is the safety half of it.

## 4. What is proved

All theorems hold for every value of the constants (the bounds included) under the named
`ASSUME`s of the modules, which say only that sets are finite where the code's are and
that functions have the right domain.

* **CommandQueueProofs.** `TypeCorrect`, `SlotsAccounted`, `QueuesAccounted`,
  `NoIdleSlotWhileWaiting`, `SlotsNest`, `OneRunPerSession`. The invariant `IInv` joins all
  six, since none is inductive alone: that a pump leaves no idle slot needs to know that
  the slots counted are those of entries that run (SlotAccounting), a completion may only
  be pumped because the queue lists exactly the entries with task "queued"
  (QueueAccounting), and the entry that a session entry pushes is new because inner entries
  never outlive outer ones (SlotNesting). `PumpEffect` says what one pump of a lane does;
  `DrainLanesPreserves` lifts it to the synchronous cascade over lanes and is cited by every
  operation; `NextInvariant` is the induction step. The same lemmas carry `PumpSteps`,
  which says of a step what it may start: within the caps, oldest first, and a run comes to
  a shared lane only in the step that starts its session entry, outside the drain window.
  Its first half is `StartsRespectCapAndOrder` (StartsWithinCapInOrder).
* **GatewayRunLoopProofs.** `GatewayImplementsQueue`: every step of the gateway is a step of
  the command queue or leaves it alone, so the theorems above hold in the gateway
  (`GatewayQueueAccounting`). `DrainWindowCloses` (ServingAcceptsWork) and
  `EveryStartFindsPortFree`, from the invariant `LoopInv`, assume that no signal arrives
  while the server starts; finding 1 shows that the first needs it. The second says of
  every start that whoever listens is a server that a throwing close or a late failure left
  open (`portLeaked`). `LoopTypeCorrect`, and
  `LockHeldWhileServing` (ServingHoldsLock) from `LockInv`: the loop takes the lock back on
  the restart path exactly when it had it, so only a failed start may leave it without.
  `DrainedRestartsExclude` (DrainedRestartIsExclusive) needs no assumption on signals. Its
  invariant `DrainInv` follows a shutdown: a run at a shared lane holds its session's slot
  in the current generation, so the drain that begins waits for it (`TouchingIsHeld`); no
  run comes to a shared lane while the window is open (the second half of `PumpSteps`); so
  none is there when a drain that ended in time leads to the reset, and every run that is
  there later was started in the new generation, where `Exclusive` of `IInv` applies.
* **FollowupQueueProofs.** `FQTypeCorrect`, `NoWakeUpIsLost` (IdleQueueHasNoCallback),
  `TextsAreToldOnce` (ToldOnce), `AcceptedIsConserved` (Conservation) and
  `TextsKeepTheirOrder` (TellsInOrder), all from `FQInv` (`QueuesKeepTheirMessages`). It has
  two parts. Always: the messages that objects hold, as items or as what their run was
  given, are accepted ones, each held once and by one object and by none after it was told
  (`Accepted`, without which a retry could tell one twice), and items wait in the order of
  acceptance (`Ordered`). As long as none of the three interferences that set `unsafe` has
  happened (`Safe`): only the registered object works, a run removes exactly the items it
  was given, every accepted message is settled, and what was told was told in the order of
  acceptance and before anything that still waits. The second part depends on itself: that nothing is lost when a run ends
  needs that the items in front are the ones it was given.
* **DeliveryQueueProofs.** `QueueKeepsPromise`: `DeliveryQueue` implements
  `DeliveryPromise` under the refinement mapping of the module, with any number of
  recoveries, crashes and I/O errors. Every rename of an entry needs a reason, which is the
  invariant `AckInv` (`AckHasReason`): an actor that acknowledges a delivery has sent it, was
  aborted, or was hidden an error. `DQTypeCorrect`, `DeliveredOnlyOnce` (DeliveredOnce) and
  `FailedStaysFinal` (FailedIsFinal) come from `DInv` (`EveryDeliveryOwned`): a delivery
  that is not excused is worked on by at most one actor or listed in at most one recovery's
  `pending`, and a recovery that lists it remembers the `retryCount` of its file (`Owned`).
  DeliveredOnce is not inductive without it: a second send begins only with an owner, and
  what makes the first owner the last is that its entry has left the disk, or the `.json`
  name, before it lets go.
* **CronServiceProofs.** Three invariants, for every number of reloads and crashes at any
  time; no theorem has a hypothesis beyond the assumptions on the constants.
  `CronInv` holds with any number of services beside each other and gives `CronTypeCorrect`
  and `TimerStaysArmed` (SchedulerArmed). The timer rests on the records (`StoreInv`): a
  recomputation never returns a run time that is already past, or a one-shot whose next run
  lies behind its last would be found due for ever; and on the batches (`BatchInv`): the end
  of a tick arms the timer, so a tick that is on has to know what it still waits for.
  `LiveInv` holds whenever `beside` does not: one service acts, its copy and the file agree
  on jobs and slots, and a one-shot that succeeded is disabled. It gives
  `NoOneShotRunsTwice` (OneShotsRunOnce) and `DueSlotsStay` (DueSlotsKept). `MatchInv`, under
  the same condition: file and copy mark exactly the jobs that run or wait, and one holder
  has each, but for excused jobs. It gives `MarkersFollowRuns` (MarkersMatchRuns) and
  `RunsExcludeEachOther` (OneRunPerJob), where the second needs the first: a section takes a
  job because it is unmarked. A reload at rest keeps both invariants (`ReloadIs`); a reload
  in between sets `beside` and breaks them, and they are back as soon as all is settled
  (`SettledLive`, `SettlesMatch`), or after a crash that finds no lost success in the file.
  That no tick, start or manual call runs a job twice by itself follows from `BatchInv` and
  holds with older services beside, too. A job is excused once its marker is older than
  `STUCK_RUN_MS`, because `normalizeJobTickState` then clears it under the run.
* **HeartbeatWakeProofs.** `HeartbeatTypeCorrect`, `NoWakeIsLost`, `BatchesDoNotOverlap`,
  `EventsSurvive` and `IntervalSurvives`, from one invariant `HBInv`. Its parts need each
  other: that a pending wake has a timer or a batch whose end arms one needs that the
  running flag is up during a batch (`FlagIsUp`), or was cleared by an older one; and an
  interval is carried by a timer, a pending wake or a batch (`IntervalIsCarried`).
* **SessionWriteLockProofs.** `OneWriter` (SingleWriter) and `LockIsCounted`
  (HoldersAreCounted), from the invariant `LockInv`; `LocksAreOwned` is its first part. A
  holder is safe because the file at the path is its own (`FileIsTheirs`), and that needs
  to know who may remove a file: whoever writes a payload or unlinks does so alone
  (`Alone`), for which the last holder to release must be the only one (`Counted`, with
  `LastHolder` by counting), and what a waiter, a starting gateway or the watchdog removes
  is excused or its owner dead (`StaleIsForfeit`). `RemovalIsSafe` is the argument that all
  seven removing actions share.
* **NodeInvokeProofs.** `NodeTypeCorrect`, `PendingCallsHaveASession`, `OneRunPerAllowOnce`
  and `DecisionIsTold`, from `InvokeInv`. Its core is `RecordMatchesPromise`, which says
  how a record and its promise may differ, and `OnceIsConsumed`: once a call was let
  through by an allow-once the record is consumed or gone, so no retry finds it.

Every invariant and every action property that a run checks is a theorem, and so are both
refinements (CommandQueueSpec, KeptUntilDelivered). Only model-checked: liveness
(AcceptedRunsSettle, DrainingEnds, DrainsSettle, EntriesSettle, DeadLocksAreReclaimed,
EventsAreAnswered, CallsAreAnswered), which needs fairness and ENABLED and is out of the
prover's reach. What a fold or a recursive function computes for every input needs
induction over data, which is out of reach too; the models that are proved about say instead
what the result is: `Load` of the delivery queue takes the entries in the order in which they
were enqueued (`Earlier`, `Sorted`), and a new object of the followup queue is one that no
drain holds (`Fresh`). The theorems assume that the sets of runs, messages,
deliveries and actors of the lock are finite, and that a followup queue has some settings.

## 5. Findings

1. A restart request that arrives while `params.start()` is awaited sets the draining flag
   and starts no new iteration: the gateway then serves and refuses all work
   (`run-loop.ts:92`).
2. An overflow during a followup run makes the drain discard messages that no run was given
   (`drain.ts:130`).
3. The recovery of a start replays entries whose live send is still in flight
   (`delivery-queue-recovery.ts:154`).
4. A best-effort delivery whose retry by the recovery fails is acknowledged
   (`delivery-queue-recovery.ts:70`).

The properties that hold state their exceptions by name, as history variables that are
only set in the step that their comments name. Behind each is something the code does
against a comment or a document, or simply does not promise:

* `drainTimedOut`: after a drain that timed out, `resetAllLanes` lets a second run of a
  session start beside the first (`process/command-queue.ts:264`;
  `docs/concepts/queue.md:83` promises one run per session). SessionExclusive is therefore
  per generation.
* A run that is queued when a restart begins is refused if its turn comes in the drain
  window (`process/command-queue.ts:184`, against the comment at 251-253); QueueAccounting
  counts it as settled.
* `startFailed`: a failed in-process start gives its lock up.
* `portLeaked`: the loop logs an error of `close` and drops the handle
  (`cli/gateway-cli/run-loop.ts:165`), while `gateway/server-close.ts` closes the HTTP servers
  last, after awaits that may throw (lines 54, 71 and 76); and nothing closes a server that
  `start()` had bound before it failed. The next start then finds the port taken by its own
  process, and so does every later one until the process ends.
* `RecoveriesKeepComing` (DeliveryQueue): an entry whose live send failed waits for the next
  start of the gateway, however long that takes (`gateway/server.impl.ts:1021`).
* `Spins` (FollowupQueue): an object with dropped messages, no item and settings that send
  no summary. In mode "followup" its drain breaks off and schedules itself again for ever.
  In mode "collect", after `/queue drop:old` or `drop:new` (`docs/concepts/queue.md:67,75`
  offer them per session), nothing clears the count of dropped
  messages (`drain.ts:110-134`), and the agent is run on an empty prompt again and again
  until a message or a clear changes the object.
* `unsafe` (FollowupQueue): the messages that finding 2 loses. `excused` (DeliveryQueue):
  deliveries that a crash, an I/O error or finding 3 may send twice.
* Cron: `add` and the last section of a start advance slots that are due
  (DueSlotsKept names them). Disabling or removing a job clears the marker of its run
  (`excused`), and so does `STUCK_RUN_MS` for a run that outlasts it. A change of the
  configuration during a run (`beside`; `gateway/server-reload-handlers.ts:82-91`) starts a
  service whose first section clears the markers of runs that still go on, and both services
  then save their own copies. Without the exception TLC refutes all four properties within
  seconds: a job runs twice at a time (`CHANGELOG.md:2002` claims otherwise for ticks), a
  marker is missing or outlives its run, a one-shot that succeeded in the old service is
  started again by the new one, and a due slot is given up for a stale copy. `stop()` does
  not keep the end of a tick from arming the timer of a stopped service again, so the older
  service may go on for as long as the process lives. A one-shot that a crash
  interrupted is not caught up, but the next tick runs it again (`CHANGELOG.md:837`).
* Heartbeat: a wake that reaches its runner while heartbeats are switched off gives the
  interval up and nothing arms it again when they are switched on (`paused`,
  `docs/cli/system.md:50`). The end of a batch of a replaced handler clears the running flag
  under the new one (`unlocked`). Wakes that a batch of a stopped runner still holds are
  answered without a run. A change of the configuration during a run is overwritten by the
  next due time of that run.
* Write lock: a holder that outlasts its limits loses the lock while it writes (`lapsed`;
  `CHANGELOG.md:4454` promises a single writer). A second waiter that saw the same stale
  file removes the one that the first has just created, and the clean-up at a gateway start
  removes a fresh file whose payload is not written yet (`robbed`). A signal that has other
  listeners, as SIGINT and SIGTERM have in the gateway (`cli/gateway-cli/run-loop.ts:210`),
  releases the locks while the holders write on during the shutdown
  (`agents/session-write-lock.ts:244-260`, `signalled`;
  `agents/session-write-lock.test.ts:359-391` asserts the release).
* Node calls: closing an older connection takes the newer session of a reconnected node
  down with it. The fallback of a timed-out request works only for a call that finds the
  record in its grace period and before its `expiresAtMs`, which is the millisecond of the
  expiry itself.

## 6. Not modelled

The tree has more than 800,000 lines, nearly all of them channel adapters, user
interfaces, model and tool calls, configuration schemas and generated metadata: I/O and
data without state of its own that several actors share. The specifications keep to the
parts that hold the queues, locks, timers, retries and restarts of the gateway, so the
share of lines they cover is small. Each part that is left out is listed in `PROJECT.json`
(`components`) with its reason. Within the modelled parts these are left out: pids that
are reused and platforms without process start times (write lock), schedules of kind
"every", staggering, failure alerts and run logs (cron), prefix lookup of approval ids and
their binding to devices, pushes that wake a node and its background queue (node calls),
several agents of one heartbeat runner, several sessions of one followup queue.

## 7. Plan

Next, in this order:

1. The announce queue of subagents, on the drain of `FollowupQueue`; the reply dispatcher's
   reservation counter and the inbound debounce.
2. `KanbanBoard`: the requests of `src/kanban-api/server.js` as a sequential state machine.
3. The composition of `FollowupQueue` with the session lane of `CommandQueue`: a followup
   run is a run.

Proofs to add: the invariants of these. Of the modules that exist, the safety halves of the
liveness properties are proved (no lost wake-up, an armed timer, a session for a call);
what is left for the cron service is to say which jobs a save by an older service can
touch, so that `beside` excepts those jobs alone.
