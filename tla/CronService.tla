----------------------------- MODULE CronService -----------------------------
(***************************************************************************)
(* The cron service of the gateway (cron/service): start with its catch-up *)
(* of missed jobs, the timer tick, manual runs queued on the cron lane,    *)
(* and the operations of the gateway's clients.                            *)
(*                                                                         *)
(* locked() runs one section at a time on a store, over all services of    *)
(* the process, and saving renames a finished file into place: a section   *)
(* is one action.  Runs of jobs happen outside of the lock.  A change of   *)
(* the configuration stops the service and starts a next one beside it;   *)
(* a crash ends them all and leaves the file.                              *)
(***************************************************************************)
EXTENDS CronJobs, FiniteSets

CONSTANTS
    Initial,        \* the jobs of the store at the beginning
    FirstAt,        \* the time of every one-shot
    ManualRuns,     \* calls of enqueueRun
    Cap,            \* maxConcurrentRuns: runs of a tick, and of the cron lane
    MaxMissed,      \* maxMissedJobsPerRestart
    JobTimeout,     \* the longest run of a job
    Horizon,        \* BOUND: the last time
    MaxEdits,       \* BOUND: calls of add, update and remove
    MaxRestarts     \* BOUND: crashes and changes of the cron configuration

ASSUME CronAssumption ==
    /\ Initial \subseteq Jobs
    /\ {FirstAt, Cap, JobTimeout, Horizon} \subseteq Nat \ {0}
    /\ {MaxMissed, MaxEdits, MaxRestarts} \subseteq Nat
    /\ ManualRuns \cap {"tick", "start"} = {}

Services == 1..(MaxRestarts + 1)
Starters == {"tick", "start"} \cup ManualRuns
Recorded == [job : Jobs, by : Starters, outcome : Outcomes, started : Nat, ended : Nat]

VARIABLES
    now,       \* the clock
    store,     \* the cron store file
    live,      \* the service that the gateway uses
    mem,       \* mem[s]: state.store of service s
    phase,     \* phase[s]: how far start() of s is
    timer,     \* the services with an armed timer
    tick,      \* tick[s]: the batch of the running tick of s
    catchup,   \* catchup[s]: the plan of the start of s
    manual,    \* manual[m]: a manual run
    execs,     \* the runs of jobs in progress
    fresh,     \* the ids that no job has had yet
    edits, restarts,   \* counters of the bounds
    excused,   \* HISTORY: jobs disabled, removed or stuck while a run of theirs was on
    succeeded, \* HISTORY: one-shots whose success is on file
    beside     \* HISTORY: a reload left an older service at work, and all is not settled

bounds == <<edits, restarts>>
batches == <<phase, timer, tick, catchup, manual, execs>>
cronVars == <<now, store, live, mem, batches, fresh, bounds, excused, succeeded,
              beside>>

Empty == [j \in {} |-> j]
NewJob(j) == [enabled |-> TRUE, at |-> IF j \in OneShots THEN FirstAt ELSE Undefined,
              next |-> Undefined, runningAt |-> Undefined, lastRun |-> Undefined,
              status |-> "none", errors |-> 0]

\* aliased: the records in memory are still the objects that the batch holds
Idle == [running |-> FALSE, pending |-> {}, results |-> {}, aliased |-> FALSE]
NoPlan == [skip |-> {}, pending |-> {}, deferred |-> {}, results |-> {}]
NoRun == [phase |-> "idle", result |-> {}]
Over == [NoRun EXCEPT !.phase = "over"]

Phases == {"off", "new", "cleared", "catchup", "planned", "up"}
ManualPhases == {"idle", "queued", "running", "ended", "over"}

CronInit ==
    /\ now = 1
    /\ store = [j \in Initial |-> Recompute(j, NewJob(j), 1)]
    /\ live = 1
    /\ mem = [s \in Services |-> Empty]
    /\ phase = [s \in Services |-> IF s = 1 THEN "new" ELSE "off"]
    /\ timer = {}
    /\ tick = [s \in Services |-> Idle]
    /\ catchup = [s \in Services |-> NoPlan]
    /\ manual = [m \in ManualRuns |-> NoRun]
    /\ execs = {}
    /\ fresh = Jobs \ Initial
    /\ edits = 0 /\ restarts = 0
    /\ excused = {} /\ succeeded = {} /\ beside = FALSE

-----------------------------------------------------------------------------
(* Helpers: saving, arming, and runs. *)

Keep(s, st) == mem' = [mem EXCEPT ![s] = st]

\* persist: the file becomes what is in memory.
Save(s, st) == Keep(s, st) /\ store' = st

\* Most sections persist only what they changed.
SaveIfChanged(s, old, st) ==
    /\ Keep(s, st)
    /\ store' = IF st = old THEN store ELSE st

\* Mutant: a run time that has passed arms no timer.
ArmTimerAhead(s, st) ==
    timer' = IF \E j \in DOMAIN st : Scheduled(st[j]) /\ st[j].next > now
             THEN timer \cup {s} ELSE timer \ {s}

ArmTimer(s, st) ==
    timer' = IF \E j \in DOMAIN st : Scheduled(st[j]) THEN timer \cup {s} ELSE timer \ {s}

Mark(st, js) == [j \in DOMAIN st |-> IF j \in js THEN [st[j] EXCEPT !.runningAt = now] ELSE st[j]]

RunsOf(s, by) == {e \in execs : e.svc = s /\ e.by = by}

Begin(s, j, by) == execs' = execs \cup {[svc |-> s, job |-> j, by |-> by, started |-> now]}

\* The success of a one-shot is on file once its outcome is applied.
Succeeded(results) == {res.job : res \in {x \in results : x.outcome = "ok"}} \cap OneShots

-----------------------------------------------------------------------------
(* start() *)

\* The first section: markers that a crash left are cleared, their jobs not caught up.
StartClear(s) ==
    LET stale == {j \in DOMAIN store : store[j].runningAt # Undefined}
    IN  /\ phase[s] = "new"
        /\ Save(s, [j \in DOMAIN store |-> ClearMark(store[j])])
        /\ phase' = [phase EXCEPT ![s] = "cleared"]
        /\ catchup' = [catchup EXCEPT ![s].skip = stale]
        /\ UNCHANGED <<now, live, timer, tick, manual, execs, fresh, bounds, succeeded>>

\* planStartupCatchup: the longest overdue jobs run at once, the others later.
StartPlan(s, chosen) ==
    LET missed == {j \in DOMAIN mem[s] \ catchup[s].skip : RunnableAtStart(j, mem[s][j], now)}
    IN  /\ phase[s] = "cleared"
        /\ chosen \subseteq missed
        /\ Cardinality(chosen) =
              IF Cardinality(missed) < MaxMissed THEN Cardinality(missed) ELSE MaxMissed
        /\ \A c \in chosen, d \in missed \ chosen : mem[s][c].next <= mem[s][d].next
        /\ IF missed = {} THEN UNCHANGED <<mem, store>> ELSE Save(s, Mark(mem[s], chosen))
        /\ phase' = [phase EXCEPT ![s] = IF missed = {} THEN "planned" ELSE "catchup"]
        /\ catchup' = [catchup EXCEPT ![s].pending = chosen, ![s].deferred = missed \ chosen]
        /\ UNCHANGED <<now, live, timer, tick, manual, execs, fresh, bounds, succeeded>>

\* The candidates run one after the other.
StartRun(s, j) ==
    /\ phase[s] = "catchup" /\ j \in catchup[s].pending
    /\ RunsOf(s, "start") = {}
    /\ catchup' = [catchup EXCEPT ![s].pending = @ \ {j}]
    /\ Begin(s, j, "start")
    /\ UNCHANGED <<now, store, live, mem, phase, timer, tick, manual, fresh, bounds, succeeded>>

CatchupDone(s) ==
    phase[s] = "catchup" /\ catchup[s].pending = {} /\ RunsOf(s, "start") = {}

\* applyStartupCatchupOutcomes, on the store in memory.
StartApply(s) ==
    LET applied == ApplyOutcomes(mem[s], catchup[s].results)
        deferred == [j \in DOMAIN applied |->
            IF j \in catchup[s].deferred /\ applied[j].enabled
            THEN [applied[j] EXCEPT !.next = now + 1] ELSE applied[j]]
    IN  /\ CatchupDone(s)
        /\ Save(s, Maintenance(deferred, now, FALSE))
        /\ phase' = [phase EXCEPT ![s] = "planned"]
        /\ catchup' = [catchup EXCEPT ![s] = NoPlan]
        /\ succeeded' = succeeded \cup Succeeded(catchup[s].results)
        /\ UNCHANGED <<now, live, timer, tick, manual, execs, fresh, bounds>>

\* The last section recomputes every run time that is due and arms the timer.
StartArm(s) ==
    LET st == RecomputeNextRuns(mem[s], now)
    IN  /\ phase[s] = "planned"
        /\ SaveIfChanged(s, mem[s], st)
        /\ ArmTimer(s, st)
        /\ phase' = [phase EXCEPT ![s] = "up"]
        /\ UNCHANGED <<now, live, tick, catchup, manual, execs, fresh, bounds, succeeded>>

-----------------------------------------------------------------------------
(* onTimer.  While a tick runs the timer stays armed and fires without effect. *)

\* The first section reloads the file, and marks the due jobs before they run.
TickCollect(s) ==
    LET due == {j \in DOMAIN store : Runnable(store[j], now)}
    IN  /\ s \in timer /\ ~tick[s].running /\ due # {}
        /\ Save(s, Mark(store, due))
        /\ tick' = [tick EXCEPT ![s] =
              [running |-> TRUE, pending |-> due, results |-> {}, aliased |-> TRUE]]
        /\ UNCHANGED <<now, live, phase, timer, catchup, manual, execs, fresh, bounds, succeeded>>

\* With nothing due it repairs missing run times, and arms the timer again.
TickNothingDue(s) ==
    LET st == Maintenance(store, now, TRUE)
    IN  /\ s \in timer /\ ~tick[s].running
        /\ \A j \in DOMAIN store : ~Runnable(store[j], now)
        /\ Save(s, st)
        /\ ArmTimer(s, st)
        /\ UNCHANGED <<now, live, phase, tick, catchup, manual, execs, fresh, bounds, succeeded>>

\* A worker takes the next job of the batch and renews the marker of its object.
TickRun(s, j) ==
    /\ tick[s].running /\ j \in tick[s].pending
    /\ Cardinality(RunsOf(s, "tick")) < Cap
    /\ tick' = [tick EXCEPT ![s].pending = @ \ {j}]
    /\ Begin(s, j, "tick")
    /\ IF tick[s].aliased THEN Keep(s, Mark(mem[s], {j})) ELSE UNCHANGED mem
    /\ UNCHANGED <<now, store, live, phase, timer, catchup, manual, fresh, bounds, succeeded>>

TickDone(s) == tick[s].running /\ tick[s].pending = {} /\ RunsOf(s, "tick") = {}

\* The second section applies all outcomes to the file; finally the timer is armed.
TickApply(s) ==
    LET st == Maintenance(ApplyOutcomes(store, tick[s].results), now, FALSE)
    IN  /\ TickDone(s)
        /\ Save(s, st)
        /\ ArmTimer(s, st)
        /\ tick' = [tick EXCEPT ![s] = Idle]
        /\ succeeded' = succeeded \cup Succeeded(tick[s].results)
        /\ UNCHANGED <<now, live, phase, catchup, manual, execs, fresh, bounds>>

-----------------------------------------------------------------------------
(* Manual runs: enqueueRun, run. *)

\* Mutant: a forced run does not mind the marker.
MayRunAgain(st, j, forced) == j \in DOMAIN st /\ (forced \/ IsDue(st[j], now))

MayRun(st, j, forced) ==
    /\ j \in DOMAIN st /\ st[j].runningAt = Undefined
    /\ forced \/ IsDue(st[j], now)

Loaded(s) == phase[s] \notin {"off", "new"}

\* inspectManualRunPreflight repairs run times in memory and does not save them.
ManualEnqueue(m, j, forced) ==
    LET st == Maintenance(mem[live], now, FALSE)
    IN  /\ manual[m].phase = "idle" /\ Loaded(live)
        /\ Keep(live, st)
        /\ MayRun(st, j, forced)
        /\ manual' = [manual EXCEPT ![m] =
              [phase |-> "queued", svc |-> live, job |-> j, forced |-> forced, result |-> {}]]
        /\ UNCHANGED <<now, store, live, phase, timer, tick, catchup, execs, fresh, bounds,
                       succeeded>>

LaneFree == Cardinality({m \in ManualRuns : manual[m].phase \in {"running", "ended"}}) < Cap

\* The lane starts the task: preflight again, and the reservation that is saved
\* before the lock is released.  The two sections are adjacent in the lock's queue.
ManualStart(m) ==
    LET r == manual[m]
        st == Maintenance(mem[r.svc], now, FALSE)
    IN  /\ r.phase = "queued" /\ LaneFree
        /\ IF MayRun(st, r.job, r.forced)
           THEN /\ Save(r.svc, Mark(st, {r.job}))
                /\ Begin(r.svc, r.job, m)
                /\ manual' = [manual EXCEPT ![m].phase = "running"]
           ELSE /\ Keep(r.svc, st)
                /\ manual' = [manual EXCEPT ![m] = Over]
                /\ UNCHANGED <<store, execs>>
        /\ UNCHANGED <<now, live, phase, timer, tick, catchup, fresh, bounds, succeeded>>

\* Mutant: a job that retires stays in the file.
MergeManualKept(j, applied) ==
    [i \in DOMAIN store |->
        IF i = j /\ j \in DOMAIN applied THEN [applied[j] EXCEPT !.at = store[j].at]
        ELSE store[i]]

\* The state of one job merged into the reloaded file, where it may be gone.
MergeManual(j, applied) ==
    IF j \in DOMAIN applied
    THEN [i \in DOMAIN store |->
            IF i = j THEN [applied[j] EXCEPT !.at = store[j].at] ELSE store[i]]
    ELSE [i \in DOMAIN store \ {j} |-> store[i]]

\* finishPreparedManualRun: the outcome is applied in memory, and then merged.
ManualApply(m) ==
    LET r == manual[m]
        s == r.svc
        applied == ApplyOutcomes(mem[s], r.result)
        st == Maintenance(MergeManual(r.job, applied), now, TRUE)
    IN  /\ r.phase = "ended"
        /\ manual' = [manual EXCEPT ![m] = Over]
        /\ IF r.job \in DOMAIN mem[s]
           THEN /\ Save(s, st)
                /\ ArmTimer(s, st)
                /\ tick' = [tick EXCEPT ![s].aliased = FALSE]
                /\ succeeded' = succeeded \cup Succeeded(r.result)
           ELSE UNCHANGED <<mem, store, timer, tick, succeeded>>
        /\ UNCHANGED <<now, live, phase, catchup, execs, fresh, bounds>>

-----------------------------------------------------------------------------
(* The end of a run, and the clock. *)

\* executeJobCoreWithTimeout: a job returns, fails or is aborted by its timeout.
EndRun(e, outcome) ==
    LET res == [job |-> e.job, by |-> e.by, outcome |-> outcome,
                started |-> e.started, ended |-> now]
    IN  /\ e \in execs
        /\ e.job \notin OneShots => outcome \in {"ok", "transient"}
        /\ execs' = execs \ {e}
        /\ tick' = IF e.by = "tick"
                   THEN [tick EXCEPT ![e.svc].results = @ \cup {res}] ELSE tick
        /\ catchup' = IF e.by = "start"
                      THEN [catchup EXCEPT ![e.svc].results = @ \cup {res}] ELSE catchup
        /\ manual' = IF e.by \in ManualRuns
                     THEN [manual EXCEPT ![e.by].phase = "ended", ![e.by].result = {res}]
                     ELSE manual
        /\ UNCHANGED <<now, store, live, mem, phase, timer, fresh, bounds, succeeded>>

\* What the event loop does without waiting for a run or for the clock.
Busy ==
    \/ \E s \in Services :
          \/ phase[s] \in {"new", "cleared", "planned"}
          \/ phase[s] = "catchup" /\ RunsOf(s, "start") = {}
          \/ TickDone(s)
          \/ tick[s].pending # {} /\ Cardinality(RunsOf(s, "tick")) < Cap
    \/ \E m \in ManualRuns : \/ manual[m].phase = "ended"
                             \/ manual[m].phase = "queued" /\ LaneFree

Tick ==
    /\ now < Horizon /\ ~Busy
    /\ \A e \in execs : now < e.started + JobTimeout
    /\ now' = now + 1
    /\ UNCHANGED <<store, live, mem, batches, fresh, bounds, succeeded>>

-----------------------------------------------------------------------------
(* Calls of the gateway's clients. *)

\* Saved under the lock by a call on the live service, which arms the timer again.
Edited(st) ==
    /\ Save(live, st) /\ ArmTimer(live, st)
    /\ UNCHANGED <<now, live, phase, tick, catchup, manual, execs, restarts>>

\* list and status: repair, and save what was repaired.
Read ==
    LET st == Maintenance(mem[live], now, FALSE)
    IN  /\ Loaded(live) /\ st # mem[live]
        /\ Save(live, st)
        /\ UNCHANGED <<now, live, batches, fresh, bounds, succeeded>>

\* add recomputes the run times of all jobs.
Add(j) ==
    LET added == [i \in DOMAIN mem[live] \cup {j} |->
                    IF i = j THEN Recompute(j, NewJob(j), now) ELSE mem[live][i]]
    IN  /\ Loaded(live) /\ j \in fresh
        /\ edits < MaxEdits /\ edits' = edits + 1
        /\ fresh' = fresh \ {j}
        /\ Edited(RecomputeNextRuns(added, now))
        /\ UNCHANGED succeeded

Patches == {"enable", "disable", "reschedule", "other"}

Patched(j, r, patch) ==
    LET p == [r EXCEPT !.enabled = CASE patch = "enable" -> TRUE
                                     [] patch = "disable" -> FALSE
                                     [] OTHER -> @,
                       !.at = IF patch = "reschedule" /\ j \in OneShots THEN now + 1 ELSE @]
    IN  IF patch = "other"
        THEN IF p.enabled /\ p.next = Undefined THEN Recompute(j, p, now) ELSE p
        ELSE IF p.enabled THEN Recompute(j, p, now)
        ELSE [ClearMark(p) EXCEPT !.next = Undefined]

EditsJob(j) ==
    /\ Loaded(live) /\ j \in DOMAIN mem[live]
    /\ edits < MaxEdits /\ edits' = edits + 1
    /\ UNCHANGED fresh

Update(j, patch) ==
    /\ EditsJob(j)
    /\ Edited([mem[live] EXCEPT ![j] = Patched(j, @, patch)])
    /\ succeeded' = IF patch \in {"reschedule", "enable"} THEN succeeded \ {j} ELSE succeeded

Remove(j) ==
    /\ EditsJob(j)
    /\ Edited([i \in DOMAIN mem[live] \ {j} |-> mem[live][i]])
    /\ UNCHANGED succeeded

-----------------------------------------------------------------------------
(* Reload and crash. *)

Quiet == /\ execs = {} /\ ~Busy
         /\ \A s \in Services : ~tick[s].running
         /\ \A m \in ManualRuns : manual[m].phase \in {"idle", "over"}

\* server-reload-handlers: stop() clears the timer and nothing else, whatever the service
\* is doing; what it does goes on, and its tick arms the timer again.  Nobody reads the
\* memory of a service that has come to rest.
Reload ==
    /\ restarts < MaxRestarts
    /\ restarts' = restarts + 1
    /\ timer' = timer \ {live}
    /\ mem' = IF Quiet THEN [mem EXCEPT ![live] = Empty] ELSE mem
    /\ live' = live + 1
    /\ phase' = [phase EXCEPT ![live + 1] = "new"]
    /\ UNCHANGED <<now, store, tick, catchup, manual, execs, fresh, edits, succeeded>>

\* The process dies and is started again.
Crash ==
    /\ restarts < MaxRestarts
    /\ restarts' = restarts + 1
    /\ live' = 1
    /\ mem' = [s \in Services |-> Empty]
    /\ phase' = [s \in Services |-> IF s = 1 THEN "new" ELSE "off"]
    /\ timer' = {}
    /\ tick' = [s \in Services |-> Idle]
    /\ catchup' = [s \in Services |-> NoPlan]
    /\ manual' = [m \in ManualRuns |->
          IF manual[m].phase = "idle" THEN NoRun ELSE Over]
    /\ execs' = {}
    /\ UNCHANGED <<now, store, fresh, edits, succeeded>>

-----------------------------------------------------------------------------
(* The specification. *)

Start(s) == StartClear(s) \/ (\E js \in SUBSET Jobs : StartPlan(s, js))
            \/ (\E j \in Jobs : StartRun(s, j)) \/ StartApply(s) \/ StartArm(s)
OnTimer(s) == TickCollect(s) \/ TickNothingDue(s) \/ (\E j \in Jobs : TickRun(s, j))
              \/ TickApply(s)
EndSome == \E e \in execs, o \in Outcomes : EndRun(e, o)
Run(m) == ManualStart(m) \/ ManualApply(m)

Step ==
    \/ \E s \in Services : Start(s) \/ OnTimer(s)
    \/ EndSome
    \/ Tick
    \/ \E m \in ManualRuns, j \in Jobs, f \in BOOLEAN : ManualEnqueue(m, j, f)
    \/ \E m \in ManualRuns : Run(m)
    \/ Read
    \/ \E j \in Jobs : Add(j) \/ Remove(j)
    \/ \E j \in Jobs, patch \in Patches : Update(j, patch)
    \/ Reload
    \/ Crash

Results == (UNION {tick[s].results \cup catchup[s].results : s \in Services})
              \cup (UNION {manual[m].result : m \in ManualRuns})

\* A run is on from its marker to the moment its outcome is applied.
Awaited == {e.job : e \in execs} \cup {res.job : res \in Results}
              \cup UNION {tick[s].pending \cup catchup[s].pending : s \in Services}

Disabled == {j \in Jobs : IF j \in DOMAIN store THEN ~store[j].enabled ELSE TRUE}

\* The jobs that normalizeJobTickState takes for dead.
Outworn == {j \in Jobs : \E st \in {store, mem[live]} : j \in DOMAIN st /\ Stuck(st[j], now)}

\* No service is at work, and the file, the memory of the live service and what is known of
\* the jobs agree.
Settled ==
    /\ phase[live] \in {"new", "up"}
    /\ timer \subseteq IF phase[live] = "up" THEN {live} ELSE {}
    /\ \A s \in Services : ~tick[s].running /\ (s # live => phase[s] \in {"off", "up"})
    /\ \A m \in ManualRuns : manual[m].phase \in {"idle", "over"}
    /\ phase[live] = "up" =>
         mem[live] = store /\ \A j \in DOMAIN store : store[j].runningAt = Undefined
    /\ succeeded \subseteq Disabled /\ fresh \cap (DOMAIN store \cup succeeded) = {}

CronNext ==
    /\ Step
    /\ excused' = Awaited' \cap (excused \cup Disabled' \cup Outworn')
    /\ beside' = ((beside \/ (live' = live + 1 /\ ~Quiet)) /\ ~Settled')

CronSpec == CronInit /\ [][CronNext]_cronVars

-----------------------------------------------------------------------------
(* Properties. *)

CronTypeOK ==
    /\ now \in 1..Horizon /\ live \in Services
    /\ DOMAIN store \subseteq Jobs
    /\ \A j \in DOMAIN store : store[j] \in Job
    /\ \A s \in Services : /\ DOMAIN mem[s] \subseteq Jobs
                           /\ \A j \in DOMAIN mem[s] : mem[s][j] \in Job
                           /\ tick[s].pending \subseteq Jobs
                           /\ tick[s].results \subseteq Recorded
                           /\ catchup[s].results \subseteq Recorded
    /\ phase \in [Services -> Phases] /\ timer \subseteq Services
    /\ \A m \in ManualRuns : manual[m].phase \in ManualPhases
    /\ execs \subseteq [svc : Services, job : Jobs, by : Starters, started : Nat]
    /\ excused \subseteq Jobs /\ succeeded \subseteq OneShots /\ beside \in BOOLEAN

\* CHANGELOG "overlapping timer ticks cannot start the same job concurrently": no tick,
\* start or manual call runs a job twice at a time, and no two of them run the same job,
\* unless it was disabled, removed or stuck while it ran, or a reload has left an older
\* service at work beside the live one.
OneRunPerJob ==
    \A e, f \in execs :
       e.job = f.job /\ e # f =>
          /\ <<e.svc, e.by>> # <<f.svc, f.by>>
          /\ e.job \in excused \/ beside

\* Markers in the file and runs match.  A job that runs, waits in a batch or awaits its
\* outcome is marked, where a forced reload and the next start see it; and no marker
\* outlives its run, for it would block the job for StuckAfter.  The start of a service
\* beside an older one clears the markers of its runs: excepted until all is settled.
MarkersMatchRuns ==
    LET marked == {j \in DOMAIN store : store[j].runningAt # Undefined}
    IN  ~beside =>
        /\ Awaited \ excused \subseteq marked
        /\ phase[live] # "new" => marked \subseteq Awaited

\* The timer does not get lost (#12025): a service that is up and not stopped has an
\* armed timer whenever a job of its is scheduled.
SchedulerArmed ==
    (phase[live] = "up" /\ \E j \in DOMAIN mem[live] : Scheduled(mem[live][j]))
        => live \in timer

\* The scheduler does not start a one-shot whose success is on file, unless it was
\* disabled, removed or stuck while it waited, or an older service is at work beside.
OneShotsRunOnce ==
    [][\A e \in execs' \ execs :
          e.by \in {"tick", "start"} => beside \/ e.job \notin succeeded \ excused]_cronVars

\* j was due, and its slot is given up although no run of it is recorded.
PassedOver(j) ==
    /\ j \in DOMAIN store /\ IsDue(store[j], now)
    /\ j \in DOMAIN store' /\ store'[j].enabled
    /\ store'[j].next # store[j].next
    /\ \A res \in Results \ Results' : res.job # j

\* Ticks, manual runs and reads never advance a slot that is due without running it
\* (#13992, #17852): only add, a start, and an edit of that job do, and a copy that is
\* not up to date as long as an older service is at work beside.
DueSlotsKept ==
    [][\A j \in Jobs : PassedOver(j) =>
          \/ beside
          \/ \E i \in Jobs : Add(i)
          \/ \E s \in Services : StartApply(s) \/ StartArm(s)
          \/ \E patch \in Patches : Update(j, patch)]_cronVars
=============================================================================
