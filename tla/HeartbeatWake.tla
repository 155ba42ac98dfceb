---------------------------- MODULE HeartbeatWake ----------------------------
(***************************************************************************)
(* The heartbeat (infra/heartbeat-wake.ts, infra/heartbeat-runner.ts): one *)
(* wake layer per process, which coalesces requests into batches and       *)
(* retries them while the main lane is busy, and one runner per iteration  *)
(* of the gateway, which registers itself as the handler of the wakes and  *)
(* keeps an interval timer.  The wake layer survives an in-process         *)
(* restart, and so does a batch that a handler is working on.              *)
(*                                                                         *)
(* Time is abstract: an armed timer fires at some time, of two due times   *)
(* either may be the earlier, and an agent may or may not be due when an   *)
(* interval wake reaches its runner.  A runner has one agent.              *)
(***************************************************************************)
EXTENDS Naturals

CONSTANTS
    All,          \* the target of a wake without agent and session
    Targeted,     \* the other targets
    MaxRunners,   \* BOUND: runners over the life of the process
    MaxBatches,   \* BOUND: batches in flight at a time
    MaxRequests,  \* BOUND: requests for an event
    MaxThrows,    \* BOUND: handlers that reject
    MaxChanges    \* BOUND: calls of set-heartbeats and changes of the configuration

ASSUME HeartbeatAssumption ==
    /\ All \notin Targeted
    /\ {MaxRunners, MaxBatches, MaxRequests, MaxThrows, MaxChanges} \subseteq Nat

Targets == {All} \cup Targeted
Runners == 1..MaxRunners
Batches == 1..MaxBatches
NoRunner == 0

\* Reasons in the order of their priority.  "event" stands for all but the interval.
Wakes == {"none", "interval", "event"}

VARIABLES
    handler,     \* the runner that is registered, or NoRunner
    pending,     \* pendingWakes: pending[t] is the reason of the wake of target t
    timer,       \* the wake timer is armed, as a normal timer or for a retry
    scheduled, running,  \* the flags of the wake layer
    batch,       \* batch[b]: a batch in flight
    enabled,     \* heartbeatsEnabled
    stopped,     \* the runners that were stopped
    configured,  \* the runners with an agent in state.agents
    interval,    \* the runners with an armed interval timer
    started, requests, throws, changes,  \* counters; started numbers the runners
    asked,       \* HISTORY: targets with an event that no run has answered
    unlocked,    \* HISTORY: runners whose running flag a batch of another one cleared
    paused       \* HISTORY: runners that gave up a wake while heartbeats were off, and have no timer

wakeLayer == <<handler, pending, timer, scheduled, running, batch>>
runnerState == <<enabled, stopped, configured, interval>>
counters == <<started, requests, throws, changes>>
history == <<asked, unlocked>>
hbVars == <<wakeLayer, runnerState, counters, history, paused>>

NoWakes == [t \in Targets |-> "none"]

\* todo: wakes not yet given to the handler; at: the one it works on; how: what its
\* call led to.
NoBatch == [by |-> NoRunner, all |-> NoWakes, todo |-> {}, at |-> All, how |-> "idle"]
BatchType == [by : Runners \cup {NoRunner}, all : [Targets -> Wakes], todo : SUBSET Targets,
              at : Targets, how : {"idle", "refused", "notDue", "runs"}]

InFlight(b) == batch[b].how # "idle"
Waiting(w) == {t \in Targets : w[t] # "none"}

HBInit ==
    /\ handler = NoRunner /\ pending = NoWakes
    /\ timer = FALSE /\ scheduled = FALSE /\ running = FALSE
    /\ batch = [b \in Batches |-> NoBatch]
    /\ enabled = TRUE /\ stopped = {} /\ configured = {} /\ interval = {}
    /\ started = 0 /\ requests = 0 /\ throws = 0 /\ changes = 0
    /\ asked = {} /\ unlocked = {} /\ paused = {}

-----------------------------------------------------------------------------
(* Helpers of the wake layer. *)

\* Mutant: the last request wins.
QueuedLast(w, t, reason) == [w EXCEPT ![t] = reason]

\* queuePendingWakeReason: a wake replaces one of the same or of a lower priority.
Queued(w, t, reason) ==
    [w EXCEPT ![t] = IF reason = "event" \/ @ = "none" THEN reason ELSE @]

\* All wakes of the record v are queued again.
Requeued(w, v) ==
    [t \in Targets |-> IF v[t] = "none" THEN w[t] ELSE Queued(w, t, v[t])[t]]

\* schedule(): of two timers the earlier stays, or the one of a retry.
Schedule == timer' = TRUE

\* requestHeartbeatNow
RequestHeartbeatNow(t, reason) ==
    /\ pending' = Queued(pending, t, reason)
    /\ Schedule

\* run() is called with a wake: what it does up to its first await.
Verdicts(g, reason) ==
    IF g \in stopped \/ ~enabled \/ g \notin configured THEN {"refused"}
    ELSE IF reason = "interval" THEN {"notDue", "runs"} ELSE {"runs"}

\* The handler is given the wake t of a batch.
Call(b, g, todo, all, t) ==
    \E how \in Verdicts(g, all[t]) :
        batch' = [batch EXCEPT ![b] =
            [by |-> g, all |-> all, todo |-> todo \ {t}, at |-> t, how |-> how]]

-----------------------------------------------------------------------------
(* The wake layer. *)

\* Any part of the gateway asks for a heartbeat.
Request(t) ==
    /\ requests < MaxRequests
    /\ requests' = requests + 1
    /\ RequestHeartbeatNow(t, "event")
    /\ asked' = asked \cup {t}
    /\ UNCHANGED <<handler, scheduled, running, batch, runnerState, started, throws, changes,
                   unlocked>>

\* The wake timer fires, and no handler is there.
FireWithoutHandler ==
    /\ timer /\ handler = NoRunner
    /\ timer' = FALSE /\ scheduled' = FALSE
    /\ UNCHANGED <<handler, pending, running, batch, runnerState, counters, history>>

\* It fires while a batch runs, and is armed again.
FireWhileRunning ==
    /\ timer /\ handler # NoRunner /\ running
    /\ scheduled' = TRUE
    /\ UNCHANGED <<handler, pending, timer, running, batch, runnerState, counters, history>>

\* Mutant: the flag is not looked at.
CanBeginAnyway(b) == ~InFlight(b) /\ \A c \in 1..(b - 1) : InFlight(c)

CanBegin(b) == ~running /\ ~InFlight(b) /\ \A c \in 1..(b - 1) : InFlight(c)

\* It fires, and a batch b of all pending wakes begins with t.  There always is one (see
\* TimersHaveWakes): an empty batch would not await anything.
Fire(b, t) ==
    /\ timer /\ handler # NoRunner
    /\ CanBegin(b) /\ t \in Waiting(pending)
    /\ timer' = FALSE /\ scheduled' = FALSE /\ running' = TRUE
    /\ pending' = NoWakes
    /\ Call(b, handler, Waiting(pending), pending, t)
    /\ UNCHANGED <<handler, runnerState, counters, asked, unlocked>>

\* Handlers whose batches lose the running flag when b ends.
UnlockedBy(b) ==
    {batch[c].by : c \in {d \in Batches \ {b} : InFlight(d) /\ batch[d].by # batch[b].by}}

\* What follows a result: the next wake of the batch, or its finally block.
GoesOn(b, w, retry) ==
    LET x == batch[b]
    IN  \/ \E t \in x.todo :
              /\ Call(b, x.by, x.todo, x.all, t)
              /\ timer' = (timer \/ retry)
              /\ UNCHANGED <<running, unlocked>>
        \/ /\ x.todo = {}
           /\ batch' = [batch EXCEPT ![b] = NoBatch]
           /\ running' = FALSE
           /\ unlocked' = unlocked \cup UnlockedBy(b)
           /\ timer' = (timer \/ retry \/ scheduled \/ Waiting(w) # {})

\* An event was answered, or dropped by a handler that refuses.
Answered(t, w) == asked' = IF w[t] = "event" THEN asked ELSE asked \ {t}

\* A handler that is stopped, has no agent or is switched off skips the wake.
Refused(b) ==
    /\ batch[b].how = "refused"
    /\ GoesOn(b, pending, FALSE)
    /\ Answered(batch[b].at, pending)
    /\ UNCHANGED <<handler, pending, scheduled, runnerState, counters>>

-----------------------------------------------------------------------------
(* The runner. *)

\* Mutant: the timer is not armed after a run.
ScheduleNextForgotten(g) == UNCHANGED interval

\* scheduleNext
ScheduleNext(g) ==
    interval' = IF g \in stopped THEN interval
                ELSE IF g \in configured THEN interval \cup {g} ELSE interval \ {g}

NotDue(b) ==
    /\ batch[b].how = "notDue"
    /\ ScheduleNext(batch[b].by)
    /\ GoesOn(b, pending, FALSE)
    /\ Answered(batch[b].at, pending)
    /\ UNCHANGED <<handler, pending, scheduled, enabled, stopped, configured, counters>>

\* runOnce runs, fails or finds nothing to do.
RunEnds(b, t) ==
    /\ batch[b].how = "runs" /\ batch[b].at = t
    /\ ScheduleNext(batch[b].by)
    /\ GoesOn(b, pending, FALSE)
    /\ Answered(t, pending)
    /\ UNCHANGED <<handler, pending, scheduled, enabled, stopped, configured, counters>>

\* runOnce finds requests in flight: the wake is queued again.  Only a targeted run
\* arms the interval timer.
LaneBusy(b, t) ==
    LET w == Queued(pending, t, batch[b].all[t])
    IN  /\ batch[b].how = "runs" /\ batch[b].at = t
        /\ IF t = All THEN UNCHANGED interval ELSE ScheduleNext(batch[b].by)
        /\ pending' = w
        /\ GoesOn(b, w, TRUE)
        /\ UNCHANGED <<handler, scheduled, enabled, stopped, configured, counters, asked>>

\* Mutant: the error path does not schedule.
HandlerThrowsQuietly(b) ==
    /\ throws < MaxThrows /\ throws' = throws + 1
    /\ batch[b].how = "runs"
    /\ pending' = Requeued(pending, batch[b].all)
    /\ UNCHANGED timer
    /\ running' = FALSE
    /\ batch' = [batch EXCEPT ![b] = NoBatch]
    /\ unlocked' = unlocked \cup UnlockedBy(b)
    /\ asked' = asked \cup {t \in Targets : batch[b].all[t] = "event"}
    /\ UNCHANGED <<handler, scheduled, runnerState, started, requests, changes>>

\* A handler rejects: the whole batch is queued again, and its finally block runs.
HandlerThrows(b) ==
    /\ throws < MaxThrows /\ throws' = throws + 1
    /\ batch[b].how = "runs"
    /\ pending' = Requeued(pending, batch[b].all)
    /\ Schedule
    /\ running' = FALSE
    /\ batch' = [batch EXCEPT ![b] = NoBatch]
    /\ unlocked' = unlocked \cup UnlockedBy(b)
    /\ asked' = asked \cup {t \in Targets : batch[b].all[t] = "event"}
    /\ UNCHANGED <<handler, scheduled, runnerState, started, requests, changes>>

\* nextDueMs is reached.
IntervalFires(g) ==
    /\ g \in interval
    /\ interval' = interval \ {g}
    /\ RequestHeartbeatNow(All, "interval")
    /\ UNCHANGED <<handler, scheduled, running, batch, enabled, stopped, configured, counters,
                   history>>

\* startHeartbeatRunner registers the handler over any other and arms its timer.
StartRunner ==
    LET g == started + 1
    IN  /\ started < MaxRunners
        /\ started' = g
        /\ handler' = g
        /\ timer' = (Waiting(pending) # {})
        /\ running' = FALSE /\ scheduled' = FALSE
        /\ configured' = configured \cup {g}
        /\ interval' = interval \cup {g}
        /\ UNCHANGED <<pending, batch, enabled, stopped, requests, throws, changes, history>>

\* Its cleanup; the disposer of a handler that was replaced does nothing.
StopRunner(g) ==
    /\ g <= started /\ g \notin stopped
    /\ stopped' = stopped \cup {g}
    /\ interval' = interval \ {g}
    /\ handler' = IF handler = g THEN NoRunner ELSE handler
    /\ UNCHANGED <<pending, timer, scheduled, running, batch, enabled, configured, counters,
                   history>>

\* updateConfig replaces the agents of the runner.
UpdateConfig(g, on) ==
    /\ changes < MaxChanges /\ changes' = changes + 1
    /\ g = handler /\ g # NoRunner
    /\ configured' = IF on THEN configured \cup {g} ELSE configured \ {g}
    /\ interval' = IF on THEN interval \cup {g} ELSE interval \ {g}
    /\ UNCHANGED <<wakeLayer, enabled, stopped, started, requests, throws, history>>

\* set-heartbeats
SetHeartbeatsEnabled ==
    /\ changes < MaxChanges /\ changes' = changes + 1
    /\ enabled' = ~enabled
    /\ UNCHANGED <<wakeLayer, stopped, configured, interval, started, requests, throws,
                   history>>

-----------------------------------------------------------------------------
(* The specification. *)

TimerFires == FireWithoutHandler \/ FireWhileRunning
              \/ \E b \in Batches, t \in Targets : Fire(b, t)

Result(b) == Refused(b) \/ NotDue(b) \/ HandlerThrows(b)
             \/ \E t \in Targets : RunEnds(b, t) \/ LaneBusy(b, t)

Runner(g) == IntervalFires(g) \/ StopRunner(g)
             \/ \E on \in BOOLEAN : UpdateConfig(g, on)

Step ==
    \/ \E t \in Targets : Request(t)
    \/ TimerFires
    \/ \E b \in Batches : Result(b)
    \/ \E g \in Runners : Runner(g)
    \/ StartRunner
    \/ SetHeartbeatsEnabled

GivenUp == {batch[b].by : b \in {c \in Batches : batch[c].how = "refused"}}

NotePause == paused' = (IF enabled THEN paused ELSE paused \cup GivenUp') \ interval'

HBNext == Step /\ NotePause

HBSpec == HBInit /\ [][HBNext]_hbVars

\* Timers fire, runs settle, and the main lane is not busy at every attempt.
HBFairness ==
    /\ WF_hbVars(TimerFires /\ NotePause)
    /\ \A b \in Batches : WF_hbVars(Result(b) /\ NotePause)
    /\ \A t \in Targets : SF_hbVars((\E b \in Batches : RunEnds(b, t)) /\ NotePause)

FairHBSpec == HBSpec /\ HBFairness

-----------------------------------------------------------------------------
(* Properties. *)

HBTypeOK ==
    /\ handler \in Runners \cup {NoRunner} /\ pending \in [Targets -> Wakes]
    /\ timer \in BOOLEAN /\ scheduled \in BOOLEAN /\ running \in BOOLEAN
    /\ batch \in [Batches -> BatchType]
    /\ enabled \in BOOLEAN
    /\ stopped \cup configured \cup interval \subseteq Runners
    /\ started \in 0..MaxRunners
    /\ asked \subseteq Targets /\ unlocked \cup paused \subseteq Runners

\* The wake timer never fires without a wake.
TimersHaveWakes == timer \/ scheduled => Waiting(pending) # {}

\* No lost wake-up: a wake that is pending while a handler is registered has an armed
\* timer, or a batch in flight whose finally block arms it.
PendingWakesHaveTimer ==
    (Waiting(pending) # {} /\ handler # NoRunner)
        => timer \/ \E b \in Batches : InFlight(b)

\* Heartbeats do not run side by side: a handler has two batches in flight only after
\* a batch of a handler before it has cleared the running flag under it.
OneBatchPerHandler ==
    \A b, c \in Batches :
        (b # c /\ InFlight(b) /\ InFlight(c) /\ batch[b].by = batch[c].by)
            => batch[b].by \in unlocked

\* An event is neither forgotten nor turned into an interval wake, which a handler may
\* skip, over coalescing, retries, errors and a change of the handler.
EventsAreKept ==
    \A t \in asked : pending[t] = "event"
        \/ \E b \in Batches : /\ InFlight(b) /\ batch[b].all[t] = "event"
                              /\ t \in batch[b].todo \cup {batch[b].at}

\* The interval goes on, whatever the outcome of a run: the registered runner has an
\* armed timer, or a wake that is pending or in flight and will arm it.  One that gave
\* up a wake while heartbeats were switched off is excepted: it does not arm it again.
IntervalGoesOn ==
    (handler \in configured /\ handler \notin paused) =>
        \/ handler \in interval
        \/ pending[All] # "none"
        \/ \E b \in Batches : /\ InFlight(b) /\ batch[b].by = handler
                              /\ All \in batch[b].todo \cup {batch[b].at}

\* Every event is answered in the end if a handler stays registered.
EventsAreAnswered ==
    \A t \in Targets : t \in asked ~> (t \notin asked \/ handler = NoRunner)
=============================================================================
