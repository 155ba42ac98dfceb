-------------------------- MODULE HeartbeatWakeProofs --------------------------
(***************************************************************************)
(* Type correctness of the heartbeat, and its safety properties: no wake   *)
(* is lost and none is imagined, a handler has one batch at a time, events *)
(* are kept, and the interval goes on.                                     *)
(***************************************************************************)
EXTENDS HeartbeatWake, TLAPS

Reasons == {"interval", "event"}

-----------------------------------------------------------------------------
(* Lemmas on the operators of the wake layer. *)

\* queuePendingWakeReason keeps every wake, and every event as an event.
LEMMA QueuedKeeps ==
  ASSUME NEW w \in [Targets -> Wakes], NEW t \in Targets, NEW r \in Reasons
  PROVE  /\ Queued(w, t, r) \in [Targets -> Wakes]
         /\ Queued(w, t, r)[t] # "none"
         /\ r = "event" => Queued(w, t, r)[t] = "event"
         /\ \A u \in Targets : w[u] # "none" => Queued(w, t, r)[u] # "none"
         /\ \A u \in Targets : w[u] = "event" => Queued(w, t, r)[u] = "event"
BY DEF Queued, Wakes, Reasons

\* Queueing the wakes of a batch again keeps those that came in the meantime.
LEMMA RequeuedKeeps ==
  ASSUME NEW w \in [Targets -> Wakes], NEW v \in [Targets -> Wakes]
  PROVE  /\ Requeued(w, v) \in [Targets -> Wakes]
         /\ \A u \in Targets : w[u] # "none" \/ v[u] # "none" => Requeued(w, v)[u] # "none"
         /\ \A u \in Targets : w[u] = "event" \/ v[u] = "event" => Requeued(w, v)[u] = "event"
<1>1. ASSUME NEW u \in Targets
      PROVE  /\ Requeued(w, v)[u] \in Wakes
             /\ w[u] # "none" \/ v[u] # "none" => Requeued(w, v)[u] # "none"
             /\ w[u] = "event" \/ v[u] = "event" => Requeued(w, v)[u] = "event"
  <2>1. CASE v[u] = "none"
    BY <2>1 DEF Requeued, Wakes
  <2>2. CASE v[u] # "none"
    <3>1. v[u] \in Reasons
      BY <2>2 DEF Wakes, Reasons
    <3>2. Requeued(w, v)[u] = Queued(w, u, v[u])[u]
      BY <2>2 DEF Requeued
    <3> QED
      BY <3>1, <3>2, QueuedKeeps DEF Wakes
  <2> QED
    BY <2>1, <2>2
<1>2. Requeued(w, v) = [u \in Targets |-> Requeued(w, v)[u]]
  BY DEF Requeued
<1> QED
  BY <1>1, <1>2

-----------------------------------------------------------------------------
(* The inductive invariant. *)

\* The batches in flight belong to runners that were started, and hold wakes.
BatchesAreWhole ==
  /\ handler <= started
  /\ \A b \in Batches : InFlight(b) =>
        /\ batch[b].by \in 1..started
        /\ batch[b].todo \cup {batch[b].at} \subseteq Waiting(batch[b].all)

\* While the running flag is down no batch of the handler is in flight, but for the
\* exception of OneBatchPerHandler.
FlagIsUp ==
  \A b \in Batches :
      (InFlight(b) /\ ~running /\ batch[b].by = handler) => handler \in unlocked

\* A batch that will arm the timer of the handler's interval.
Carrier(b) == /\ InFlight(b) /\ batch[b].by = handler
              /\ All \in batch[b].todo \/ (batch[b].at = All /\ batch[b].how # "refused")

IntervalIsCarried ==
  /\ handler \notin stopped /\ stopped \subseteq 1..started
  /\ (handler \in configured /\ handler \notin paused) =>
        handler \in interval \/ pending[All] # "none" \/ \E b \in Batches : Carrier(b)

HBInv == /\ HBTypeOK /\ BatchesAreWhole
         /\ TimersHaveWakes /\ PendingWakesHaveTimer
         /\ FlagIsUp /\ OneBatchPerHandler
         /\ EventsAreKept /\ IntervalIsCarried

LEMMA InitInv == HBInit => HBInv
<1> SUFFICES ASSUME HBInit PROVE HBInv
  OBVIOUS
<1>1. \A b \in Batches : ~InFlight(b)
  BY DEF HBInit, InFlight, NoBatch
<1>2. Waiting(pending) = {}
  BY DEF HBInit, Waiting, NoWakes
<1>3. HBTypeOK
  <2>1. NoWakes \in [Targets -> Wakes]
    BY DEF NoWakes, Wakes
  <2>2. NoBatch \in BatchType
    BY <2>1 DEF NoBatch, BatchType, Targets
  <2>3. 0 \in 0..MaxRunners
    BY HeartbeatAssumption
  <2> QED
    BY <2>1, <2>2, <2>3 DEF HBInit, HBTypeOK
<1>4. handler <= started /\ handler = NoRunner /\ asked = {} /\ configured = {}
      /\ stopped = {} /\ timer = FALSE /\ scheduled = FALSE
  BY DEF HBInit, NoRunner
<1> QED
  BY <1>1, <1>2, <1>3, <1>4
  DEF HBInv, BatchesAreWhole, TimersHaveWakes, PendingWakesHaveTimer, FlagIsUp,
      OneBatchPerHandler, EventsAreKept, IntervalIsCarried

-----------------------------------------------------------------------------
(* What a step does to the batches. *)

\* Batch b goes on with its next wake.
Advanced(b) ==
  /\ \E t \in batch[b].todo : \E how \in Verdicts(batch[b].by, batch[b].all[t]) :
        batch' = [batch EXCEPT ![b] =
            [by |-> batch[b].by, all |-> batch[b].all, todo |-> batch[b].todo \ {t},
             at |-> t, how |-> how]]
  /\ running' = running /\ unlocked' = unlocked

\* The finally block of batch b.
Ended(b) ==
  /\ batch' = [batch EXCEPT ![b] = NoBatch]
  /\ running' = FALSE /\ unlocked' = unlocked \cup UnlockedBy(b)

LEMMA GoesOnIs ==
  ASSUME NEW b \in Batches, NEW w, NEW retry, GoesOn(b, w, retry)
  PROVE  \/ Advanced(b) /\ timer' = (timer \/ retry)
         \/ /\ Ended(b) /\ batch[b].todo = {}
            /\ timer' = (timer \/ retry \/ scheduled \/ Waiting(w) # {})
BY DEF GoesOn, Call, Advanced, Ended

LEMMA ResultIs ==
  ASSUME NEW b \in Batches, Result(b)
  PROVE  /\ InFlight(b) /\ (Advanced(b) \/ Ended(b))
         /\ handler' = handler /\ started' = started
<1> DEFINE Goal == /\ InFlight(b) /\ (Advanced(b) \/ Ended(b))
                   /\ handler' = handler /\ started' = started
<1>1. CASE Refused(b)
  BY <1>1, GoesOnIs DEF Refused, InFlight, counters
<1>2. CASE NotDue(b)
  BY <1>2, GoesOnIs DEF NotDue, InFlight, counters
<1>3. CASE HandlerThrows(b)
  BY <1>3 DEF HandlerThrows, InFlight, Ended
<1>4. ASSUME NEW t \in Targets, RunEnds(b, t) PROVE Goal
  BY <1>4, GoesOnIs DEF RunEnds, InFlight, counters
<1>5. ASSUME NEW t \in Targets, LaneBusy(b, t) PROVE Goal
  BY <1>5, GoesOnIs DEF LaneBusy, InFlight, counters
<1> QED
  BY <1>1, <1>2, <1>3, <1>4, <1>5 DEF Result

LEMMA StepKinds ==
  ASSUME Step
  PROVE  \/ /\ UNCHANGED <<batch, running, unlocked, started>>
            /\ handler' \in {handler, NoRunner}
         \/ StartRunner
         \/ \E b \in Batches, t \in Targets : Fire(b, t)
         \/ \E b \in Batches : Result(b)
<1> DEFINE Quiet == /\ UNCHANGED <<batch, running, unlocked, started>>
                    /\ handler' \in {handler, NoRunner}
<1>1. ASSUME NEW t \in Targets, Request(t) PROVE Quiet
  BY <1>1 DEF Request
<1>2. CASE FireWithoutHandler
  BY <1>2 DEF FireWithoutHandler, counters, history
<1>3. CASE FireWhileRunning
  BY <1>3 DEF FireWhileRunning, counters, history
<1>4. ASSUME NEW g \in Runners, IntervalFires(g) PROVE Quiet
  BY <1>4 DEF IntervalFires, counters, history
<1>5. ASSUME NEW g \in Runners, StopRunner(g) PROVE Quiet
  BY <1>5 DEF StopRunner, counters, history
<1>6. ASSUME NEW g \in Runners, NEW on \in BOOLEAN, UpdateConfig(g, on) PROVE Quiet
  BY <1>6 DEF UpdateConfig, wakeLayer, history
<1>7. CASE SetHeartbeatsEnabled
  BY <1>7 DEF SetHeartbeatsEnabled, wakeLayer, history
<1> QED
  BY <1>1, <1>2, <1>3, <1>4, <1>5, <1>6, <1>7 DEF Step, TimerFires, Runner

\* Batches in flight belong to runners that were started, and hold wakes.
LEMMA BatchesStep ==
  ASSUME HBTypeOK, BatchesAreWhole, Step
  PROVE  BatchesAreWhole' /\ batch' \in [Batches -> BatchType]
<1>1. CASE UNCHANGED <<batch, running, unlocked, started>> /\ handler' \in {handler, NoRunner}
  BY <1>1 DEF HBTypeOK, BatchesAreWhole, InFlight, Waiting, NoRunner, Runners
<1>2. CASE StartRunner
  BY <1>2, HeartbeatAssumption DEF StartRunner, HBTypeOK, BatchesAreWhole, InFlight, Waiting
<1>3. ASSUME NEW b \in Batches, NEW t \in Targets, Fire(b, t)
      PROVE  BatchesAreWhole' /\ batch' \in [Batches -> BatchType]
  <2>1. PICK how \in {"refused", "notDue", "runs"} :
          batch' = [batch EXCEPT ![b] =
              [by |-> handler, all |-> pending, todo |-> Waiting(pending) \ {t}, at |-> t,
               how |-> how]]
    BY <1>3 DEF Fire, Call, Verdicts
  <2>2. handler \in 1..started /\ started' = started /\ handler' = handler
    BY <1>3 DEF Fire, HBTypeOK, BatchesAreWhole, Runners, NoRunner, counters
  <2>3. t \in Waiting(pending) /\ Waiting(pending) \subseteq Targets
    BY <1>3 DEF Fire, Waiting
  <2>4. [by |-> handler, all |-> pending, todo |-> Waiting(pending) \ {t}, at |-> t,
         how |-> how] \in BatchType
    BY <2>2, <2>3 DEF HBTypeOK, BatchType
  <2>5. batch' \in [Batches -> BatchType]
    BY <2>1, <2>4 DEF HBTypeOK
  <2>6. \A c \in Batches : c # b => batch'[c] = batch[c]
    BY <2>1 DEF HBTypeOK
  <2>7. /\ batch'[b].by = handler /\ batch'[b].all = pending
        /\ batch'[b].todo \cup {batch'[b].at} = Waiting(pending)
    BY <2>1, <2>3 DEF HBTypeOK
  <2> QED
    BY <2>2, <2>5, <2>6, <2>7 DEF BatchesAreWhole, InFlight
<1>4. ASSUME NEW b \in Batches, Result(b)
      PROVE  BatchesAreWhole' /\ batch' \in [Batches -> BatchType]
  <2>1. InFlight(b) /\ handler' = handler /\ started' = started
    BY <1>4, ResultIs
  <2>2. CASE Advanced(b)
    <3>1. PICK t \in batch[b].todo, how \in {"refused", "notDue", "runs"} :
            batch' = [batch EXCEPT ![b] =
                [by |-> batch[b].by, all |-> batch[b].all, todo |-> batch[b].todo \ {t},
                 at |-> t, how |-> how]]
      BY <2>2 DEF Advanced, Verdicts
    <3>2. batch[b] \in BatchType
      BY DEF HBTypeOK
    <3>3. [by |-> batch[b].by, all |-> batch[b].all, todo |-> batch[b].todo \ {t}, at |-> t,
           how |-> how] \in BatchType
      BY <3>2 DEF BatchType
    <3>4. batch' \in [Batches -> BatchType]
      BY <3>1, <3>3 DEF HBTypeOK
    <3>5. \A c \in Batches : c # b => batch'[c] = batch[c]
      BY <3>1 DEF HBTypeOK
    <3>6. /\ batch'[b].by = batch[b].by /\ batch'[b].all = batch[b].all
          /\ batch'[b].todo \cup {batch'[b].at} \subseteq batch[b].todo
      BY <3>1 DEF HBTypeOK
    <3> QED
      BY <2>1, <3>4, <3>5, <3>6 DEF BatchesAreWhole, InFlight
  <2>3. CASE Ended(b)
    <3>1. NoBatch \in BatchType
      BY DEF NoBatch, BatchType, Targets, NoWakes, Wakes
    <3>2. batch' \in [Batches -> BatchType]
      BY <2>3, <3>1 DEF HBTypeOK, Ended
    <3>3. \A c \in Batches : c # b => batch'[c] = batch[c]
      BY <2>3 DEF HBTypeOK, Ended
    <3>4. batch'[b].how = "idle"
      BY <2>3 DEF HBTypeOK, Ended, NoBatch
    <3> QED
      BY <2>1, <3>2, <3>3, <3>4 DEF BatchesAreWhole, InFlight
  <2> QED
    BY <1>4, <2>2, <2>3, ResultIs
<1> QED
  BY <1>1, <1>2, <1>3, <1>4, StepKinds

-----------------------------------------------------------------------------
(* One batch per handler. *)

LEMMA OneBatchStep ==
  ASSUME HBTypeOK, BatchesAreWhole, FlagIsUp, OneBatchPerHandler, Step
  PROVE  FlagIsUp' /\ OneBatchPerHandler'
<1>1. CASE UNCHANGED <<batch, running, unlocked, started>> /\ handler' \in {handler, NoRunner}
  BY <1>1 DEF HBTypeOK, BatchesAreWhole, FlagIsUp, OneBatchPerHandler, InFlight, NoRunner,
              Runners
<1>2. CASE StartRunner
  <2>1. handler' = started + 1 /\ batch' = batch /\ unlocked' = unlocked
    BY <1>2 DEF StartRunner, history
  <2>2. \A b \in Batches : InFlight(b) => batch[b].by # started + 1
    BY DEF BatchesAreWhole, HBTypeOK
  <2> QED
    BY <2>1, <2>2 DEF FlagIsUp, OneBatchPerHandler, InFlight
<1>3. ASSUME NEW b \in Batches, NEW t \in Targets, Fire(b, t)
      PROVE  FlagIsUp' /\ OneBatchPerHandler'
  <2>1. PICK how : batch' = [batch EXCEPT ![b] =
              [by |-> handler, all |-> pending, todo |-> Waiting(pending) \ {t}, at |-> t,
               how |-> how]]
    BY <1>3 DEF Fire, Call
  <2>2. \A c \in Batches : c # b => batch'[c] = batch[c]
    BY <2>1 DEF HBTypeOK
  <2>3. batch'[b].by = handler
    BY <2>1 DEF HBTypeOK
  <2>4. running' = TRUE /\ handler' = handler /\ unlocked' = unlocked /\ ~running
    BY <1>3 DEF Fire, CanBegin
  <2> QED
    BY <2>2, <2>3, <2>4 DEF FlagIsUp, OneBatchPerHandler, InFlight
<1>4. ASSUME NEW b \in Batches, Result(b) PROVE FlagIsUp' /\ OneBatchPerHandler'
  <2>1. InFlight(b) /\ handler' = handler
    BY <1>4, ResultIs
  <2>2. CASE Advanced(b)
    <3>1. PICK t, how : batch' = [batch EXCEPT ![b] =
                [by |-> batch[b].by, all |-> batch[b].all, todo |-> batch[b].todo \ {t},
                 at |-> t, how |-> how]]
      BY <2>2 DEF Advanced
    <3>2. \A c \in Batches : c # b => batch'[c] = batch[c]
      BY <3>1 DEF HBTypeOK
    <3>3. batch'[b].by = batch[b].by
      BY <3>1 DEF HBTypeOK
    <3>4. running' = running /\ unlocked' = unlocked
      BY <2>2 DEF Advanced
    <3> QED
      BY <2>1, <3>2, <3>3, <3>4 DEF FlagIsUp, OneBatchPerHandler, InFlight
  <2>3. CASE Ended(b)
    <3>1. \A c \in Batches : c # b => batch'[c] = batch[c]
      BY <2>3 DEF HBTypeOK, Ended
    <3>2. batch'[b].how = "idle"
      BY <2>3 DEF HBTypeOK, Ended, NoBatch
    <3>3. unlocked \subseteq unlocked'
      BY <2>3 DEF Ended
    <3>4. ASSUME NEW c \in Batches \ {b}, InFlight(c) PROVE batch[c].by \in unlocked'
      <4>1. CASE batch[c].by = batch[b].by
        BY <2>1, <3>3, <3>4, <4>1 DEF OneBatchPerHandler
      <4>2. CASE batch[c].by # batch[b].by
        BY <2>3, <3>4, <4>2 DEF Ended, UnlockedBy
      <4> QED
        BY <4>1, <4>2
    <3> QED
      BY <2>1, <3>1, <3>2, <3>3, <3>4 DEF FlagIsUp, OneBatchPerHandler, InFlight
  <2> QED
    BY <1>4, <2>2, <2>3, ResultIs
<1> QED
  BY <1>1, <1>2, <1>3, <1>4, StepKinds

-----------------------------------------------------------------------------
(* Wakes and the wake timer. *)

\* What becomes of the pending wakes and the flags in the result of a batch.
LEMMA ResultKeepsWakes ==
  ASSUME HBTypeOK, BatchesAreWhole, NEW b \in Batches, Result(b)
  PROVE  /\ pending' \in [Targets -> Wakes]
         /\ timer' \in BOOLEAN /\ scheduled' = scheduled
         /\ timer => timer'
         /\ \A t \in Targets : pending[t] # "none" => pending'[t] # "none"
         /\ \A t \in Targets : pending[t] = "event" => pending'[t] = "event"
         /\ timer' => timer \/ scheduled \/ Waiting(pending') # {}
         /\ Advanced(b) \/ timer' \/ Waiting(pending') = {}
<1> DEFINE Kept == /\ pending' \in [Targets -> Wakes]
                   /\ \A t \in Targets : pending[t] # "none" => pending'[t] # "none"
                   /\ \A t \in Targets : pending[t] = "event" => pending'[t] = "event"
           Flags == /\ timer' \in BOOLEAN /\ scheduled' = scheduled
                    /\ timer => timer'
                    /\ timer' => timer \/ scheduled \/ Waiting(pending') # {}
                    /\ Advanced(b) \/ timer' \/ Waiting(pending') = {}
<1>1. ASSUME pending' = pending, scheduled' = scheduled, GoesOn(b, pending, FALSE)
      PROVE  Kept /\ Flags
  BY <1>1, GoesOnIs DEF HBTypeOK, Waiting
<1>2. CASE Refused(b)
  BY <1>1, <1>2 DEF Refused
<1>3. CASE NotDue(b)
  BY <1>1, <1>3 DEF NotDue
<1>4. ASSUME NEW t \in Targets, RunEnds(b, t) PROVE Kept /\ Flags
  BY <1>1, <1>4 DEF RunEnds
<1>5. ASSUME NEW t \in Targets, LaneBusy(b, t) PROVE Kept /\ Flags
  <2>1. InFlight(b) /\ t \in Waiting(batch[b].all) /\ batch[b] \in BatchType
    BY <1>5, ResultIs DEF LaneBusy, BatchesAreWhole, HBTypeOK, InFlight
  <2>2. batch[b].all[t] \in Reasons
    BY <2>1 DEF Waiting, BatchType, Wakes, Reasons
  <2>3. pending' = Queued(pending, t, batch[b].all[t]) /\ GoesOn(b, pending', TRUE)
    BY <1>5 DEF LaneBusy
  <2>4. Kept /\ pending'[t] # "none"
    BY <2>2, <2>3, QueuedKeeps DEF HBTypeOK
  <2>5. Waiting(pending') # {}
    BY <2>4 DEF Waiting
  <2>6. timer' = TRUE /\ scheduled' = scheduled
    BY <1>5, <2>3, GoesOnIs DEF LaneBusy, HBTypeOK
  <2> QED
    BY <2>4, <2>5, <2>6 DEF HBTypeOK
<1>6. CASE HandlerThrows(b)
  <2>1. InFlight(b) /\ batch[b].at \in Waiting(batch[b].all) /\ batch[b] \in BatchType
    BY <1>6, ResultIs DEF BatchesAreWhole, HBTypeOK
  <2>2. pending' = Requeued(pending, batch[b].all) /\ timer' = TRUE /\ scheduled' = scheduled
    BY <1>6 DEF HandlerThrows, Schedule
  <2>3. Kept /\ \A t \in Waiting(batch[b].all) : pending'[t] # "none"
    BY <2>1, <2>2, RequeuedKeeps DEF HBTypeOK, BatchType, Waiting
  <2>4. Waiting(pending') # {}
    BY <2>1, <2>3 DEF Waiting
  <2> QED
    BY <2>2, <2>3, <2>4 DEF HBTypeOK
<1> QED
  BY <1>2, <1>3, <1>4, <1>5, <1>6 DEF Result

\* A step that asks for a heartbeat.
LEMMA RequestKeepsWakes ==
  ASSUME HBTypeOK, NEW t \in Targets, NEW r \in Reasons, RequestHeartbeatNow(t, r)
  PROVE  /\ pending' \in [Targets -> Wakes] /\ timer' = TRUE
         /\ pending'[t] # "none" /\ Waiting(pending') # {}
         /\ r = "event" => pending'[t] = "event"
         /\ \A u \in Targets : pending[u] # "none" => pending'[u] # "none"
         /\ \A u \in Targets : pending[u] = "event" => pending'[u] = "event"
<1>1. pending' = Queued(pending, t, r) /\ timer' = TRUE
  BY DEF RequestHeartbeatNow, Schedule
<1> QED
  BY <1>1, QueuedKeeps DEF HBTypeOK, Waiting

LEMMA WakesStep ==
  ASSUME HBTypeOK, BatchesAreWhole, TimersHaveWakes, PendingWakesHaveTimer, Step
  PROVE  /\ TimersHaveWakes' /\ PendingWakesHaveTimer'
         /\ pending' \in [Targets -> Wakes] /\ timer' \in BOOLEAN /\ scheduled' \in BOOLEAN
<1> DEFINE Goal == /\ TimersHaveWakes' /\ PendingWakesHaveTimer'
                   /\ pending' \in [Targets -> Wakes]
                   /\ timer' \in BOOLEAN /\ scheduled' \in BOOLEAN
<1>1. ASSUME NEW t \in Targets, Request(t) PROVE Goal
  <2>1. RequestHeartbeatNow(t, "event") /\ scheduled' = scheduled
    BY <1>1 DEF Request
  <2> QED
    BY <2>1, RequestKeepsWakes DEF HBTypeOK, TimersHaveWakes, PendingWakesHaveTimer, Reasons
<1>2. CASE FireWithoutHandler
  BY <1>2 DEF FireWithoutHandler, HBTypeOK, TimersHaveWakes, PendingWakesHaveTimer
<1>3. CASE FireWhileRunning
  BY <1>3 DEF FireWhileRunning, HBTypeOK, TimersHaveWakes, PendingWakesHaveTimer, Waiting
<1>4. ASSUME NEW b \in Batches, NEW t \in Targets, Fire(b, t) PROVE Goal
  <2>1. pending' = NoWakes /\ timer' = FALSE /\ scheduled' = FALSE
    BY <1>4 DEF Fire
  <2>2. Waiting(pending') = {} /\ pending' \in [Targets -> Wakes]
    BY <2>1 DEF NoWakes, Waiting, Wakes
  <2> QED
    BY <2>1, <2>2 DEF TimersHaveWakes, PendingWakesHaveTimer
<1>5. ASSUME NEW b \in Batches, Result(b) PROVE Goal
  <2>1. Advanced(b) => InFlight(b)'
    <3> SUFFICES ASSUME Advanced(b) PROVE InFlight(b)'
      OBVIOUS
    <3>1. PICK t \in batch[b].todo, how \in {"refused", "notDue", "runs"} :
            batch' = [batch EXCEPT ![b] =
                [by |-> batch[b].by, all |-> batch[b].all, todo |-> batch[b].todo \ {t},
                 at |-> t, how |-> how]]
      BY DEF Advanced, Verdicts
    <3> QED
      BY <3>1 DEF HBTypeOK, InFlight
  <2>2. Waiting(pending) # {} => Waiting(pending') # {}
    BY <1>5, ResultKeepsWakes DEF Waiting
  <2>3. TimersHaveWakes'
    BY <1>5, <2>2, ResultKeepsWakes DEF TimersHaveWakes
  <2>4. PendingWakesHaveTimer'
    BY <1>5, <2>1, ResultKeepsWakes DEF PendingWakesHaveTimer
  <2> QED
    BY <1>5, <2>3, <2>4, ResultKeepsWakes DEF HBTypeOK
<1>6. ASSUME NEW g \in Runners, IntervalFires(g) PROVE Goal
  <2>1. RequestHeartbeatNow(All, "interval") /\ scheduled' = scheduled /\ All \in Targets
    BY <1>6 DEF IntervalFires, Targets
  <2> QED
    BY <2>1, RequestKeepsWakes DEF HBTypeOK, TimersHaveWakes, PendingWakesHaveTimer, Reasons
<1>7. ASSUME NEW g \in Runners, StopRunner(g) PROVE Goal
  BY <1>7 DEF StopRunner, HBTypeOK, TimersHaveWakes, PendingWakesHaveTimer, Waiting, InFlight
<1>8. ASSUME NEW g \in Runners, NEW on \in BOOLEAN, UpdateConfig(g, on) PROVE Goal
  BY <1>8 DEF UpdateConfig, wakeLayer, HBTypeOK, TimersHaveWakes, PendingWakesHaveTimer,
              Waiting, InFlight
<1>9. CASE SetHeartbeatsEnabled
  BY <1>9 DEF SetHeartbeatsEnabled, wakeLayer, HBTypeOK, TimersHaveWakes,
              PendingWakesHaveTimer, Waiting, InFlight
<1>10. CASE StartRunner
  BY <1>10 DEF StartRunner, HBTypeOK, TimersHaveWakes, PendingWakesHaveTimer, Waiting, InFlight
<1> QED
  BY <1>1, <1>2, <1>3, <1>4, <1>5, <1>6, <1>7, <1>8, <1>9, <1>10
  DEF Step, TimerFires, Runner

-----------------------------------------------------------------------------
(* Type correctness. *)

\* What the result of a batch does to the state of the runners.
LEMMA ResultKeepsRunners ==
  ASSUME HBTypeOK, NEW b \in Batches, Result(b)
  PROVE  /\ enabled' = enabled /\ stopped' = stopped /\ configured' = configured
         /\ requests' = requests /\ changes' = changes
         /\ interval' = interval \/ ScheduleNext(batch[b].by)
BY DEF Result, Refused, NotDue, RunEnds, LaneBusy, HandlerThrows, runnerState, counters

LEMMA TypeStep ==
  ASSUME HBTypeOK, BatchesAreWhole, TimersHaveWakes, PendingWakesHaveTimer, HBNext
  PROVE  HBTypeOK'
<1> Step /\ NotePause
  BY DEF HBNext
<1>1. batch' \in [Batches -> BatchType] /\ BatchesAreWhole'
  BY BatchesStep
<1>2. pending' \in [Targets -> Wakes] /\ timer' \in BOOLEAN /\ scheduled' \in BOOLEAN
  BY WakesStep
<1> DEFINE Rest == /\ handler \in Runners \cup {NoRunner} /\ running \in BOOLEAN
                   /\ enabled \in BOOLEAN
                   /\ stopped \subseteq Runners /\ configured \subseteq Runners
                   /\ interval \subseteq Runners /\ started \in 0..MaxRunners
                   /\ asked \subseteq Targets /\ unlocked \subseteq Runners
<1>3. Rest
  BY DEF HBTypeOK
<1>4. ASSUME NEW t \in Targets, Request(t) PROVE Rest'
  BY <1>3, <1>4 DEF Request, runnerState
<1>5. ASSUME FireWithoutHandler PROVE Rest'
  BY <1>3, <1>5 DEF FireWithoutHandler, runnerState, counters, history
<1>6. ASSUME FireWhileRunning PROVE Rest'
  BY <1>3, <1>6 DEF FireWhileRunning, runnerState, counters, history
<1>7. ASSUME NEW b \in Batches, NEW t \in Targets, Fire(b, t) PROVE Rest'
  BY <1>3, <1>7 DEF Fire, runnerState, counters
<1>8. ASSUME NEW b \in Batches, Result(b) PROVE Rest'
  <2>1. handler' = handler /\ started' = started /\ InFlight(b)
    BY <1>8, ResultIs
  <2>2. UnlockedBy(b) \subseteq Runners
    BY <1>3, HeartbeatAssumption DEF UnlockedBy, BatchesAreWhole, Runners
  <2>3. running' \in BOOLEAN /\ unlocked' \subseteq Runners
    BY <1>3, <1>8, <2>2, ResultIs DEF Advanced, Ended
  <2>4. enabled' \in BOOLEAN /\ stopped' \subseteq Runners /\ configured' \subseteq Runners
    BY <1>3, <1>8, ResultKeepsRunners
  <2>5. interval' \subseteq Runners
    BY <1>3, <1>8, ResultKeepsRunners DEF ScheduleNext
  <2>6. asked' \subseteq Targets
    BY <1>3, <1>8 DEF Result, Refused, NotDue, RunEnds, LaneBusy, HandlerThrows, Answered
  <2> QED
    BY <1>3, <2>1, <2>3, <2>4, <2>5, <2>6
<1>9. ASSUME NEW g \in Runners, IntervalFires(g) PROVE Rest'
  BY <1>3, <1>9 DEF IntervalFires, counters, history
<1>10. ASSUME NEW g \in Runners, StopRunner(g) PROVE Rest'
  BY <1>3, <1>10 DEF StopRunner, counters, history
<1>11. ASSUME NEW g \in Runners, NEW on \in BOOLEAN, UpdateConfig(g, on) PROVE Rest'
  BY <1>3, <1>11 DEF UpdateConfig, wakeLayer, history
<1>12. ASSUME SetHeartbeatsEnabled PROVE Rest'
  BY <1>3, <1>12 DEF SetHeartbeatsEnabled, wakeLayer, history
<1>13. ASSUME StartRunner PROVE Rest'
  <2>1. started + 1 \in Runners /\ started + 1 \in 0..MaxRunners
    BY <1>3, <1>13, HeartbeatAssumption DEF StartRunner, Runners
  <2> QED
    BY <1>3, <1>13, <2>1 DEF StartRunner, history
<1> HIDE DEF Rest
<1>14. Rest'
  BY <1>4, <1>5, <1>6, <1>7, <1>8, <1>9, <1>10, <1>11, <1>12, <1>13
  DEF Step, TimerFires, Runner
<1> USE DEF Rest
<1>15. GivenUp' \subseteq Runners
  <2>1. started' <= MaxRunners /\ started' \in Nat /\ MaxRunners \in Nat
    BY <1>14, HeartbeatAssumption
  <2>2. ASSUME NEW b \in Batches, batch'[b].how = "refused" PROVE batch'[b].by \in Runners
    BY <1>1, <2>1, <2>2 DEF BatchesAreWhole, InFlight, Runners
  <2> QED
    BY <2>2 DEF GivenUp
<1>16. paused' \subseteq Runners
  BY <1>15 DEF NotePause, HBTypeOK
<1> QED
  BY <1>1, <1>2, <1>14, <1>16 DEF HBTypeOK

-----------------------------------------------------------------------------
(* Events are kept. *)

\* t is an event that waits or that batch b has taken.
Held(b, t) == InFlight(b) /\ batch[b].all[t] = "event" /\ t \in batch[b].todo \cup {batch[b].at}

LEMMA EventsStep ==
  ASSUME HBTypeOK, BatchesAreWhole, EventsAreKept, Step
  PROVE  EventsAreKept'
<1>0. EventsAreKept = \A t \in asked : pending[t] = "event" \/ \E b \in Batches : Held(b, t)
  BY DEF EventsAreKept, Held
<1> SUFFICES ASSUME NEW t \in asked'
             PROVE  pending'[t] = "event" \/ \E b \in Batches : Held(b, t)'
  BY DEF EventsAreKept, Held
<1> asked \subseteq Targets
  BY DEF HBTypeOK
<1> DEFINE Goal == pending'[t] = "event" \/ \E b \in Batches : Held(b, t)'
<1>1. ASSUME batch' = batch, asked' = asked,
             \A u \in Targets : pending[u] = "event" => pending'[u] = "event"
      PROVE  Goal
  BY <1>0, <1>1 DEF Held, InFlight
<1>2. ASSUME NEW u \in Targets, Request(u) PROVE Goal
  <2>1. batch' = batch /\ asked' = asked \cup {u} /\ RequestHeartbeatNow(u, "event")
    BY <1>2 DEF Request
  <2> QED
    BY <1>0, <2>1, RequestKeepsWakes DEF Held, InFlight, Reasons
<1>3. CASE FireWithoutHandler \/ FireWhileRunning
  BY <1>1, <1>3 DEF FireWithoutHandler, FireWhileRunning, history
<1>4. ASSUME NEW b \in Batches, NEW u \in Targets, Fire(b, u) PROVE Goal
  <2>1. PICK how \in {"refused", "notDue", "runs"} :
          batch' = [batch EXCEPT ![b] =
              [by |-> handler, all |-> pending, todo |-> Waiting(pending) \ {u}, at |-> u,
               how |-> how]]
    BY <1>4 DEF Fire, Call, Verdicts
  <2>2. asked' = asked /\ ~InFlight(b)
    BY <1>4 DEF Fire, CanBegin
  <2>3. CASE pending[t] = "event"
    <3>1. t \in Waiting(pending)
      BY <2>2, <2>3 DEF Waiting
    <3>2. Held(b, t)'
      BY <2>1, <2>3, <3>1 DEF Held, InFlight, HBTypeOK
    <3> QED
      BY <3>2
  <2>4. ASSUME NEW c \in Batches, Held(c, t) PROVE Held(c, t)'
    <3>1. c # b
      BY <2>2, <2>4 DEF Held
    <3>2. batch'[c] = batch[c]
      BY <2>1, <3>1 DEF HBTypeOK
    <3> QED
      BY <2>4, <3>2 DEF Held, InFlight
  <2> QED
    BY <1>0, <2>2, <2>3, <2>4
<1>5. ASSUME NEW b \in Batches, Result(b) PROVE Goal
  <2>1. /\ \A u \in Targets : pending[u] = "event" => pending'[u] = "event"
        /\ InFlight(b) /\ (Advanced(b) \/ Ended(b))
    BY <1>5, ResultKeepsWakes, ResultIs
  <2>2. ASSUME NEW c \in Batches, c # b, Held(c, t) PROVE Held(c, t)'
    <3>1. batch'[c] = batch[c]
      BY <2>1, <2>2 DEF HBTypeOK, Advanced, Ended
    <3> QED
      BY <2>2, <3>1 DEF Held, InFlight
  <2>3. ASSUME Held(b, t), t \in batch[b].todo, Advanced(b) PROVE Held(b, t)'
    <3>1. PICK u \in batch[b].todo, how \in {"refused", "notDue", "runs"} :
            batch' = [batch EXCEPT ![b] =
                [by |-> batch[b].by, all |-> batch[b].all, todo |-> batch[b].todo \ {u},
                 at |-> u, how |-> how]]
      BY <2>3 DEF Advanced, Verdicts
    <3> QED
      BY <2>3, <3>1 DEF Held, InFlight, HBTypeOK
  <2>4. ASSUME GoesOn(b, pending, FALSE), Answered(batch[b].at, pending) PROVE Goal
    <3>1. t \in asked /\ (t = batch[b].at => pending[t] = "event")
      BY <2>4 DEF Answered
    <3>2. ASSUME Held(b, t), t # batch[b].at PROVE Held(b, t)'
      BY <2>3, <2>4, <3>2, GoesOnIs DEF Held
    <3> QED
      BY <1>0, <2>1, <2>2, <3>1, <3>2
  <2>5. CASE Refused(b)
    BY <2>4, <2>5 DEF Refused
  <2>6. CASE NotDue(b)
    BY <2>4, <2>6 DEF NotDue
  <2>7. ASSUME NEW u \in Targets, RunEnds(b, u) PROVE Goal
    BY <2>4, <2>7 DEF RunEnds
  <2>8. ASSUME NEW u \in Targets, LaneBusy(b, u) PROVE Goal
    <3>1. /\ asked' = asked /\ u = batch[b].at /\ GoesOn(b, pending', TRUE)
          /\ pending' = Queued(pending, u, batch[b].all[u])
      BY <2>8 DEF LaneBusy
    <3>2. batch[b].all[u] \in Reasons
      BY <2>1, <3>1 DEF BatchesAreWhole, HBTypeOK, BatchType, Waiting, Wakes, Reasons
    <3>3. ASSUME Held(b, t), t = u PROVE pending'[t] = "event"
      BY <3>1, <3>2, <3>3, QueuedKeeps DEF Held, HBTypeOK
    <3>4. ASSUME Held(b, t), t # u PROVE Held(b, t)'
      BY <2>3, <3>1, <3>4, GoesOnIs DEF Held
    <3> QED
      BY <1>0, <2>1, <2>2, <3>1, <3>3, <3>4
  <2>9. CASE HandlerThrows(b)
    <3>1. /\ asked' = asked \cup {u \in Targets : batch[b].all[u] = "event"}
          /\ pending' = Requeued(pending, batch[b].all)
      BY <2>9 DEF HandlerThrows
    <3>2. batch[b].all[t] = "event" /\ t \in Targets => pending'[t] = "event"
      BY <3>1, RequeuedKeeps DEF HBTypeOK, BatchType
    <3> QED
      BY <1>0, <2>1, <2>2, <3>1, <3>2 DEF Held
  <2> QED
    BY <1>5, <2>5, <2>6, <2>7, <2>8, <2>9 DEF Result
<1>6. ASSUME NEW g \in Runners, IntervalFires(g) PROVE Goal
  <2>1. RequestHeartbeatNow(All, "interval") /\ All \in Targets /\ batch' = batch /\ asked' = asked
    BY <1>6 DEF IntervalFires, Targets, history
  <2> QED
    BY <1>1, <2>1, RequestKeepsWakes DEF Reasons
<1>7. ASSUME NEW g \in Runners, StopRunner(g) PROVE Goal
  BY <1>1, <1>7 DEF StopRunner, history
<1>8. ASSUME NEW g \in Runners, NEW on \in BOOLEAN, UpdateConfig(g, on) PROVE Goal
  BY <1>1, <1>8 DEF UpdateConfig, wakeLayer, history
<1>9. CASE SetHeartbeatsEnabled
  BY <1>1, <1>9 DEF SetHeartbeatsEnabled, wakeLayer, history
<1>10. CASE StartRunner
  BY <1>1, <1>10 DEF StartRunner, history
<1> HIDE DEF Goal
<1> QED
  <2>1. Goal
    BY <1>2, <1>3, <1>4, <1>5, <1>6, <1>7, <1>8, <1>9, <1>10 DEF Step, TimerFires, Runner, Goal
  <2> QED
    BY <2>1 DEF Goal

-----------------------------------------------------------------------------
(* The interval goes on. *)

\* A runner that gives up a wake while heartbeats are off is noted, and one that is not
\* noted any more has armed its timer.
LEMMA PauseIsNoted ==
  ASSUME NotePause
  PROVE  /\ \A g : g \in paused /\ g \notin interval' => g \in paused'
         /\ \A b \in Batches : batch'[b].how = "refused" /\ ~enabled =>
               batch'[b].by \in paused' \cup interval'
BY DEF NotePause, GivenUp

LEMMA IntervalStep ==
  ASSUME HBTypeOK, BatchesAreWhole, IntervalIsCarried, HBNext
  PROVE  IntervalIsCarried'
<1> Step /\ NotePause /\ All \in Targets
  BY DEF HBNext, Targets
<1> DEFINE Lives == handler \notin stopped /\ stopped \subseteq 1..started
           Carried == \/ handler \notin configured \/ handler \in paused \cup interval
                      \/ pending[All] # "none" \/ \E b \in Batches : Carrier(b)
<1>0. Lives /\ Carried
  BY DEF IntervalIsCarried
<1>1. ASSUME batch' = batch, handler' = handler, configured' = configured,
             interval' = interval, stopped' = stopped, started' = started,
             pending[All] # "none" => pending'[All] # "none"
      PROVE  Lives' /\ Carried'
  BY <1>0, <1>1, PauseIsNoted DEF Carrier, InFlight
<1>2. ASSUME NEW t \in Targets, Request(t) PROVE Lives' /\ Carried'
  <2>1. RequestHeartbeatNow(t, "event")
    BY <1>2 DEF Request
  <2>2. pending[All] # "none" => pending'[All] # "none"
    BY <2>1, RequestKeepsWakes DEF Reasons
  <2> QED
    BY <1>1, <1>2, <2>2 DEF Request, runnerState
<1>3. ASSUME FireWithoutHandler \/ FireWhileRunning PROVE Lives' /\ Carried'
  BY <1>1, <1>3 DEF FireWithoutHandler, FireWhileRunning, runnerState, counters
<1>4. ASSUME NEW b \in Batches, NEW t \in Targets, Fire(b, t) PROVE Lives' /\ Carried'
  <2>1. PICK how \in Verdicts(handler, pending[t]) :
          batch' = [batch EXCEPT ![b] =
              [by |-> handler, all |-> pending, todo |-> Waiting(pending) \ {t}, at |-> t,
               how |-> how]]
    BY <1>4 DEF Fire, Call
  <2>2. /\ handler' = handler /\ stopped' = stopped /\ configured' = configured
        /\ interval' = interval /\ started' = started /\ ~InFlight(b)
    BY <1>4 DEF Fire, CanBegin, runnerState, counters
  <2>3. how \in {"refused", "notDue", "runs"}
    BY <2>1 DEF Verdicts
  <2>4. ASSUME NEW c \in Batches, Carrier(c) PROVE Carrier(c)'
    <3>1. c # b
      BY <2>2, <2>4 DEF Carrier
    <3>2. batch'[c] = batch[c]
      BY <2>1, <3>1 DEF HBTypeOK
    <3> QED
      BY <2>2, <2>4, <3>2 DEF Carrier, InFlight
  <2>5. ASSUME pending[All] # "none", handler \in configured, handler \notin paused' \cup interval'
        PROVE  Carrier(b)'
    <3>1. batch'[b] = [by |-> handler, all |-> pending, todo |-> Waiting(pending) \ {t},
                       at |-> t, how |-> how]
      BY <2>1 DEF HBTypeOK
    <3>2. how = "refused" => ~enabled
      BY <1>0, <2>1, <2>5 DEF Verdicts
    <3>3. how # "refused"
      BY <2>5, <3>1, <3>2, PauseIsNoted
    <3>4. All \in Waiting(pending)
      BY <2>5 DEF Waiting
    <3> QED
      BY <2>2, <2>3, <3>1, <3>3, <3>4 DEF Carrier, InFlight
  <2> QED
    BY <1>0, <2>2, <2>4, <2>5, PauseIsNoted
<1>5. ASSUME NEW b \in Batches, Result(b) PROVE Lives' /\ Carried'
  <2>1. /\ handler' = handler /\ stopped' = stopped /\ configured' = configured
        /\ InFlight(b) /\ (Advanced(b) \/ Ended(b)) /\ started' = started
        /\ interval' = interval \/ ScheduleNext(batch[b].by)
    BY <1>5, ResultIs, ResultKeepsRunners
  <2>2. pending[All] # "none" => pending'[All] # "none"
    BY <1>5, ResultKeepsWakes
  <2> SUFFICES ASSUME handler \in configured, handler \notin paused' \cup interval'
               PROVE  pending'[All] # "none" \/ \E c \in Batches : Carrier(c)'
    BY <1>0, <2>1
  <2>3. handler \notin interval /\ handler \notin paused
    BY <1>0, <2>1, PauseIsNoted DEF ScheduleNext
  <2>4. ASSUME NEW c \in Batches, c # b, Carrier(c) PROVE Carrier(c)'
    <3>1. batch'[c] = batch[c]
      BY <2>1, <2>4 DEF HBTypeOK, Advanced, Ended
    <3> QED
      BY <2>1, <2>4, <3>1 DEF Carrier, InFlight
  <2>5. ASSUME Advanced(b), Carrier(b), All \in batch[b].todo PROVE Carrier(b)'
    <3>1. PICK t \in batch[b].todo : \E how \in Verdicts(batch[b].by, batch[b].all[t]) :
            batch' = [batch EXCEPT ![b] =
                [by |-> batch[b].by, all |-> batch[b].all, todo |-> batch[b].todo \ {t},
                 at |-> t, how |-> how]]
      BY <2>5 DEF Advanced
    <3>2. PICK how \in Verdicts(batch[b].by, batch[b].all[t]) :
            batch' = [batch EXCEPT ![b] =
                [by |-> batch[b].by, all |-> batch[b].all, todo |-> batch[b].todo \ {t},
                 at |-> t, how |-> how]]
      BY <3>1
    <3>3. batch'[b] = [by |-> batch[b].by, all |-> batch[b].all, todo |-> batch[b].todo \ {t},
                       at |-> t, how |-> how]
      BY <3>2 DEF HBTypeOK
    <3>4. batch[b].by = handler /\ how \in {"refused", "notDue", "runs"}
      BY <2>5, <3>2 DEF Carrier, Verdicts
    <3>5. how = "refused" => ~enabled
      BY <1>0, <3>2, <3>4 DEF Verdicts
    <3>6. how # "refused"
      BY <3>3, <3>4, <3>5, PauseIsNoted
    <3> QED
      BY <2>1, <2>5, <3>3, <3>4, <3>6 DEF Carrier, InFlight
  <2>6. ASSUME Carrier(b) PROVE pending'[All] # "none" \/ Carrier(b)'
    <3>1. ASSUME NEW w, NEW retry, GoesOn(b, w, retry), All \in batch[b].todo
          PROVE  Carrier(b)'
      BY <2>5, <2>6, <3>1, GoesOnIs
    <3>2. ASSUME ScheduleNext(batch[b].by) PROVE FALSE
      BY <1>0, <2>6, <3>2 DEF ScheduleNext, Carrier
    <3>3. CASE Refused(b)
      BY <2>6, <3>1, <3>3 DEF Refused, Carrier
    <3>4. CASE NotDue(b)
      BY <3>2, <3>4 DEF NotDue
    <3>5. ASSUME NEW t \in Targets, RunEnds(b, t) PROVE FALSE
      BY <3>2, <3>5 DEF RunEnds
    <3>6. ASSUME NEW t \in Targets, LaneBusy(b, t) PROVE pending'[All] # "none"
      <4>1. t = All
        BY <3>2, <3>6 DEF LaneBusy
      <4>2. /\ batch[b].at = All /\ pending' = Queued(pending, All, batch[b].all[All])
        BY <3>6, <4>1 DEF LaneBusy
      <4>3. batch[b].all[All] \in Reasons
        BY <2>1, <4>2 DEF BatchesAreWhole, HBTypeOK, BatchType, Waiting, Wakes, Reasons
      <4> QED
        BY <4>2, <4>3, QueuedKeeps DEF HBTypeOK
    <3>7. ASSUME HandlerThrows(b) PROVE pending'[All] # "none"
      <4>1. pending' = Requeued(pending, batch[b].all) /\ batch[b].all \in [Targets -> Wakes]
        BY <3>7 DEF HandlerThrows, HBTypeOK, BatchType
      <4>2. batch[b].all[All] # "none"
        BY <2>1, <2>6 DEF BatchesAreWhole, Carrier, Waiting
      <4> QED
        BY <4>1, <4>2, RequeuedKeeps DEF HBTypeOK
    <3> QED
      BY <1>5, <3>3, <3>4, <3>5, <3>6, <3>7 DEF Result
  <2> QED
    BY <1>0, <2>2, <2>3, <2>4, <2>6
<1>6. ASSUME NEW g \in Runners, IntervalFires(g) PROVE Lives' /\ Carried'
  <2>1. /\ RequestHeartbeatNow(All, "interval")
        /\ stopped' = stopped /\ handler' = handler /\ started' = started
    BY <1>6 DEF IntervalFires, counters
  <2>2. pending'[All] # "none"
    BY <2>1, RequestKeepsWakes DEF Reasons
  <2> QED
    BY <1>0, <2>1, <2>2
<1>7. ASSUME NEW g \in Runners, StopRunner(g) PROVE Lives' /\ Carried'
  <2>1. handler = g => handler' \notin configured' /\ handler' \notin stopped'
    BY <1>7 DEF StopRunner, HBTypeOK, NoRunner, Runners
  <2>2. handler # g => handler' = handler /\ (handler \in interval => handler \in interval')
    BY <1>7 DEF StopRunner
  <2>3. /\ batch' = batch /\ pending' = pending /\ configured' = configured
        /\ stopped' = stopped \cup {g} /\ started' = started
    BY <1>7 DEF StopRunner, counters
  <2>4. stopped' \subseteq 1..started'
    BY <1>0, <1>7, <2>3 DEF StopRunner, Runners
  <2> QED
    BY <1>0, <2>1, <2>2, <2>3, <2>4, PauseIsNoted DEF Carrier, InFlight
<1>8. ASSUME NEW g \in Runners, NEW on \in BOOLEAN, UpdateConfig(g, on) PROVE Lives' /\ Carried'
  BY <1>0, <1>8 DEF UpdateConfig, wakeLayer
<1>9. ASSUME SetHeartbeatsEnabled PROVE Lives' /\ Carried'
  BY <1>1, <1>9 DEF SetHeartbeatsEnabled, wakeLayer
<1>10. ASSUME StartRunner PROVE Lives' /\ Carried'
  <2>1. started \in Nat /\ started' = started + 1 /\ handler' = started + 1 /\ stopped' = stopped
        /\ handler' \in interval'
    BY <1>10 DEF StartRunner, HBTypeOK
  <2>2. started + 1 \notin stopped /\ stopped \subseteq 1..(started + 1)
    BY <1>0, <2>1
  <2> QED
    BY <2>1, <2>2
<1> HIDE DEF Lives, Carried
<1> QED
  <2>1. Lives' /\ Carried'
    BY <1>2, <1>3, <1>4, <1>5, <1>6, <1>7, <1>8, <1>9, <1>10 DEF Step, TimerFires, Runner
  <2> QED
    BY <2>1 DEF IntervalIsCarried, Lives, Carried

-----------------------------------------------------------------------------
(* The theorems. *)

LEMMA StutterInv == HBInv /\ UNCHANGED hbVars => HBInv'
<1> SUFFICES ASSUME HBInv, UNCHANGED hbVars PROVE HBInv'
  OBVIOUS
<1> USE DEF hbVars, wakeLayer, runnerState, counters, history
<1>1. HBTypeOK' /\ BatchesAreWhole'
  BY DEF HBInv, HBTypeOK, BatchesAreWhole, InFlight, Waiting
<1>2. TimersHaveWakes' /\ PendingWakesHaveTimer' /\ FlagIsUp' /\ OneBatchPerHandler'
  BY DEF HBInv, TimersHaveWakes, PendingWakesHaveTimer, FlagIsUp, OneBatchPerHandler, InFlight,
         Waiting
<1>3. EventsAreKept' /\ IntervalIsCarried'
  BY DEF HBInv, EventsAreKept, IntervalIsCarried, Carrier, InFlight
<1> QED
  BY <1>1, <1>2, <1>3 DEF HBInv

LEMMA InvHolds == HBSpec => []HBInv
<1>1. HBInv /\ HBNext => HBInv'
  BY BatchesStep, TypeStep, WakesStep, OneBatchStep, EventsStep, IntervalStep DEF HBInv, HBNext
<1> QED
  BY <1>1, InitInv, StutterInv, PTL DEF HBSpec

\* The state of the heartbeat is well-formed.
THEOREM HeartbeatTypeCorrect == HBSpec => []HBTypeOK
BY InvHolds, PTL DEF HBInv

\* No wake waits without a timer or a batch that will arm one, and the timer never fires
\* for nothing.
THEOREM NoWakeIsLost == HBSpec => [](PendingWakesHaveTimer /\ TimersHaveWakes)
BY InvHolds, PTL DEF HBInv

\* Heartbeats of a handler do not run side by side.
THEOREM BatchesDoNotOverlap == HBSpec => []OneBatchPerHandler
BY InvHolds, PTL DEF HBInv

\* Events survive coalescing, retries, errors and in-process restarts.
THEOREM EventsSurvive == HBSpec => []EventsAreKept
BY InvHolds, PTL DEF HBInv

\* The interval timer of the registered runner goes on.
THEOREM IntervalSurvives == HBSpec => []IntervalGoesOn
<1>1. HBInv => IntervalGoesOn
  BY DEF HBInv, IntervalIsCarried, IntervalGoesOn, Carrier
<1> QED
  BY <1>1, InvHolds, PTL
=============================================================================
