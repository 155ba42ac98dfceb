---------------------------- MODULE CommandQueue ----------------------------
(***************************************************************************)
(* The in-process command queue of the gateway (process/command-queue.ts)  *)
(* with the way agent runs nest their entries in it.                       *)
(*                                                                         *)
(* A run holds up to three entries, outermost first: the "cron" entry of a *)
(* manual cron run, the "session" entry that serialises the runs of a      *)
(* session, and the "global" entry that caps the parallelism of a lane     *)
(* shared by all sessions.  The task of the session entry is the enqueue   *)
(* of the global entry, so it happens in the very step that starts the     *)
(* session entry; the task of a cron entry awaits first.                   *)
(***************************************************************************)
EXTENDS Naturals, Sequences, FiniteSets

CONSTANTS
    Runs,                \* agent runs, each submitted at most once
    Sessions,            \* session lanes, "session:<key>"
    SessionOf,           \* the session a run belongs to
    LaneArg,             \* the lane a run asks for (params.lane)
    ManualCron,          \* the runs that a manual cron run starts
    ConcurrencyChoices,  \* ConcurrencyChoices[l]: values configurations give lane l
    MaxResets            \* BOUND: in-process restarts

GlobalLanes == {"main", "cron", "subagent", "nested"}
ConfigurableLanes == {"main", "cron", "subagent"}
Lanes == GlobalLanes \cup Sessions

ASSUME ConstantsAssumption ==
    /\ IsFiniteSet(Runs)
    /\ Sessions \cap GlobalLanes = {}
    /\ SessionOf \in [Runs -> Sessions]
    /\ LaneArg \in [Runs -> GlobalLanes]
    /\ ManualCron \subseteq Runs
    /\ ConcurrencyChoices \in [ConfigurableLanes -> SUBSET Nat]
    /\ MaxResets \in Nat

\* Mutant: the inner run of a cron job asks for the lane that the job holds.
ResolveGlobalLaneAsAsked(lane) == lane

\* A run on behalf of a cron job must not wait for the lane its job holds.
ResolveGlobalLane(lane) == IF lane = "cron" THEN "nested" ELSE lane

Levels == {"cron", "session", "global"}
Entries == [run : Runs, level : Levels]
Entry(r, level) == [run |-> r, level |-> level]
LaneOf(e) ==
    CASE e.level = "cron"    -> "cron"
      [] e.level = "session" -> SessionOf[e.run]
      [] e.level = "global"  -> ResolveGlobalLane(LaneArg[e.run])
Outermost(r) == Entry(r, IF r \in ManualCron THEN "cron" ELSE "session")

VARIABLES
    queue,            \* queue[l]: entries waiting on lane l, oldest first
    activeTaskIds,    \* activeTaskIds[l]: entries holding a slot of l; an entry
                      \* starts at most once, so it names its task id
    maxConcurrent,    \* maxConcurrent[l]: the slots of lane l
    generation,       \* generation[l]: bumped by every reset
    gatewayDraining,  \* new entries are refused
    task,             \* task[e]: what became of the entry's promise
    taskGeneration    \* taskGeneration[e]: generation[l] when e started

vars == <<queue, activeTaskIds, maxConcurrent, generation, gatewayDraining,
          task, taskGeneration>>

TaskState == {"none", "queued", "running", "resolved", "rejected"}
Settled(t) == t \in {"resolved", "rejected"}

TypeOK ==
    /\ queue \in [Lanes -> Seq(Entries)]
    /\ activeTaskIds \in [Lanes -> SUBSET Entries]
    /\ maxConcurrent \in [Lanes -> Nat \ {0}]
    /\ generation \in [Lanes -> Nat]
    /\ gatewayDraining \in BOOLEAN
    /\ task \in [Entries -> TaskState]
    /\ taskGeneration \in [Entries -> Nat]

Init ==
    /\ queue = [l \in Lanes |-> <<>>]
    /\ activeTaskIds = [l \in Lanes |-> {}]
    /\ maxConcurrent = [l \in Lanes |-> 1]
    /\ generation = [l \in Lanes |-> 0]
    /\ gatewayDraining = FALSE
    /\ task = [e \in Entries |-> "none"]
    /\ taskGeneration = [e \in Entries |-> 0]

-----------------------------------------------------------------------------
(* drainLane: pump starts the oldest entries while the lane has a slot.    *)

\* Mutant: one start too many (<= for < in the loop's condition).
PumpCountOffByOne(waiting, held, slots) ==
    IF Cardinality(held) + Len(waiting) <= slots + 1 THEN Len(waiting)
    ELSE IF Cardinality(held) <= slots THEN slots + 1 - Cardinality(held)
    ELSE 0

PumpCount(waiting, held, slots) ==
    IF Cardinality(held) + Len(waiting) <= slots THEN Len(waiting)
    ELSE IF Cardinality(held) < slots THEN slots - Cardinality(held)
    ELSE 0

Pumped(waiting, held, slots) ==
    {waiting[i] : i \in 1..PumpCount(waiting, held, slots)}

LeftWaiting(waiting, held, slots) ==
    SubSeq(waiting, PumpCount(waiting, held, slots) + 1, Len(waiting))

\* The sequences that hold every member of S once.
Orders(S) ==
    {s \in [1..Cardinality(S) -> S] : \A e \in S : \E i \in DOMAIN s : s[i] = e}

\* The synchronous effect of draining the lanes D when the lanes hold q, the
\* slots a and the promises are t.  Starting a session entry pushes the run's
\* global entry and drains its lane in the same step, unless the gateway is
\* draining, when that enqueue is refused.  Session entries that start together
\* (only a reset starts several) push in the order of the lanes map.
DrainLanes(D, q, a, t) ==
    LET outer  == D \cap Sessions
        begun  == UNION {Pumped(q[l], a[l], maxConcurrent'[l]) : l \in outer}
        pushed == IF gatewayDraining' THEN {}
                  ELSE {Entry(e.run, "global") : e \in begun}
        pushedOn(l) == {e \in pushed : LaneOf(e) = l}
    IN  \E m \in Orders(pushedOn("main")), c \in Orders(pushedOn("cron")),
           s \in Orders(pushedOn("subagent")), n \in Orders(pushedOn("nested")) :
             LET order   == [main |-> m, cron |-> c, subagent |-> s, nested |-> n]
                 inner   == {l \in GlobalLanes : l \in D \/ pushedOn(l) # {}}
                 now(l)  == IF l \in Sessions THEN q[l] ELSE q[l] \o order[l]
                 pump(l) == IF l \in outer \cup inner
                            THEN Pumped(now(l), a[l], maxConcurrent'[l]) ELSE {}
                 started == UNION {pump(l) : l \in Lanes}
             IN  /\ queue' = [l \in Lanes |->
                                IF l \in outer \cup inner
                                THEN LeftWaiting(now(l), a[l], maxConcurrent'[l])
                                ELSE now(l)]
                 /\ activeTaskIds' = [l \in Lanes |-> a[l] \cup pump(l)]
                 /\ task' = [e \in Entries |->
                               IF e \in started THEN "running"
                               ELSE IF e \in pushed THEN "queued"
                               ELSE IF /\ e.level = "global"
                                       /\ Entry(e.run, "session") \in begun
                                    THEN "rejected"
                               ELSE t[e]]
                 /\ taskGeneration' = [e \in Entries |->
                               IF e \in started THEN generation'[LaneOf(e)]
                               ELSE taskGeneration[e]]

-----------------------------------------------------------------------------
(* The operations. *)

EnqueueCommandInLane(e) ==
    /\ task[e] = "none"
    /\ UNCHANGED <<maxConcurrent, generation, gatewayDraining>>
    /\ \/ /\ gatewayDraining
          /\ task' = [task EXCEPT ![e] = "rejected"]
          /\ UNCHANGED <<queue, activeTaskIds, taskGeneration>>
       \/ /\ ~gatewayDraining
          /\ DrainLanes({LaneOf(e)},
                        [queue EXCEPT ![LaneOf(e)] = Append(@, e)],
                        activeTaskIds,
                        [task EXCEPT ![e] = "queued"])

Submit(r) == EnqueueCommandInLane(Outermost(r))

\* The task of a manual cron run reaches runEmbeddedPiAgent.
CronJobStartsRun(r) ==
    /\ r \in ManualCron
    /\ task[Entry(r, "cron")] = "running"
    /\ EnqueueCommandInLane(Entry(r, "session"))

\* How the task of e may end: the innermost either way, a session entry as its
\* global entry did, a cron job either way once it waits for no run.
Outcomes(e) ==
    LET t(level) == task[Entry(e.run, level)]
    IN  CASE e.level = "global"  -> {"resolved", "rejected"}
          [] e.level = "session" -> {t("global")} \cap {"resolved", "rejected"}
          [] e.level = "cron"    -> IF t("session") = "none" \/ Settled(t("session"))
                                    THEN {"resolved", "rejected"} ELSE {}

\* A task of the current generation gives its slot back and pumps the lane; one
\* from before a reset does not touch the lane.
CompleteTask(e) ==
    /\ task[e] = "running"
    /\ UNCHANGED <<maxConcurrent, generation, gatewayDraining>>
    /\ \E outcome \in Outcomes(e) :
         \/ /\ taskGeneration[e] = generation[LaneOf(e)]
            /\ DrainLanes({LaneOf(e)}, queue,
                          [activeTaskIds EXCEPT ![LaneOf(e)] = @ \ {e}],
                          [task EXCEPT ![e] = outcome])
         \/ /\ taskGeneration[e] # generation[LaneOf(e)]
            /\ task' = [task EXCEPT ![e] = outcome]
            /\ UNCHANGED <<queue, activeTaskIds, taskGeneration>>

\* Mutant: the entries are dropped but their promises stay pending.
ClearCommandLaneSilently(l) ==
    /\ l \in Sessions
    /\ queue[l] # <<>>
    /\ queue' = [queue EXCEPT ![l] = <<>>]
    /\ UNCHANGED <<activeTaskIds, maxConcurrent, generation, gatewayDraining, task,
                   taskGeneration>>

\* An interrupt, an abort or a session reset drops what waits for the session.
ClearCommandLane(l) ==
    /\ l \in Sessions
    /\ queue[l] # <<>>
    /\ queue' = [queue EXCEPT ![l] = <<>>]
    /\ task' = [e \in Entries |-> IF \E i \in DOMAIN queue[l] : queue[l][i] = e
                                  THEN "rejected" ELSE task[e]]
    /\ UNCHANGED <<activeTaskIds, maxConcurrent, generation, gatewayDraining,
                   taskGeneration>>

Slots(n) == IF n = 0 THEN 1 ELSE n

\* Mutant: waiting entries are not started in the slots that the change adds.
SetCommandLaneConcurrencyNoDrain(l, n) ==
    /\ l \in ConfigurableLanes
    /\ maxConcurrent' = [maxConcurrent EXCEPT ![l] = Slots(n)]
    /\ UNCHANGED <<queue, activeTaskIds, generation, gatewayDraining, task,
                   taskGeneration>>

SetCommandLaneConcurrency(l, n) ==
    /\ l \in ConfigurableLanes
    /\ maxConcurrent' = [maxConcurrent EXCEPT ![l] = Slots(n)]
    /\ UNCHANGED <<generation, gatewayDraining>>
    /\ DrainLanes({l}, queue, activeTaskIds, task)

MarkGatewayDraining ==
    /\ gatewayDraining' = TRUE
    /\ UNCHANGED <<queue, activeTaskIds, maxConcurrent, generation, task,
                   taskGeneration>>

\* Mutant: the slots of interrupted tasks are kept.
ResetAllLanesKeepsSlots ==
    /\ \A l \in Lanes : generation[l] < MaxResets
    /\ gatewayDraining' = FALSE
    /\ generation' = [l \in Lanes |-> generation[l] + 1]
    /\ UNCHANGED maxConcurrent
    /\ DrainLanes(Lanes, queue, activeTaskIds, task)

\* Mutant: the slots are freed in the generation of the tasks that held them.
ResetAllLanesSameGeneration ==
    /\ gatewayDraining' = FALSE
    /\ UNCHANGED <<generation, maxConcurrent>>
    /\ DrainLanes(Lanes, queue, [l \in Lanes |-> {}], task)

ResetAllLanes ==
    /\ \A l \in Lanes : generation[l] < MaxResets
    /\ gatewayDraining' = FALSE
    /\ generation' = [l \in Lanes |-> generation[l] + 1]
    /\ UNCHANGED maxConcurrent
    /\ DrainLanes(Lanes, queue, [l \in Lanes |-> {}], task)

Next ==
    \/ \E r \in Runs : Submit(r) \/ CronJobStartsRun(r)
    \/ \E e \in Entries : CompleteTask(e)
    \/ \E l \in Sessions : ClearCommandLane(l)
    \/ \E l \in ConfigurableLanes : \E n \in ConcurrencyChoices[l] :
         SetCommandLaneConcurrency(l, n)
    \/ MarkGatewayDraining
    \/ ResetAllLanes

Spec == Init /\ [][Next]_vars

\* The event loop runs every continuation, and agent runs and cron jobs end
\* (each carries a timeout); nobody has to submit, clear or restart anything.
Fairness == \A e \in Entries : WF_vars(CompleteTask(e))

FairSpec == Spec /\ Fairness

-----------------------------------------------------------------------------
(* Properties. *)

Waiting(l) == {queue[l][i] : i \in DOMAIN queue[l]}

\* A slot of a lane is held by exactly the entries of the lane's generation
\* whose task still runs: completions, including late ones from before a reset,
\* neither leak a slot nor give back one they do not hold
\* (completeTask, resetAllLanes).
SlotAccounting ==
    \A l \in Lanes :
      activeTaskIds[l] = {e \in Entries : /\ LaneOf(e) = l
                                          /\ task[e] = "running"
                                          /\ taskGeneration[e] = generation[l]}

\* A lane's queue holds exactly the entries that were accepted on it and are
\* neither started nor rejected, each once: nothing is lost or run twice by an
\* enqueue, a pump, a clear or a reset.
QueueAccounting ==
    \A l \in Lanes :
      /\ Waiting(l) = {e \in Entries : LaneOf(e) = l /\ task[e] = "queued"}
      /\ \A i, j \in DOMAIN queue[l] : queue[l][i] = queue[l][j] => i = j

\* No lost wake-up: an entry waits only while every slot of its lane is held.
\* Each operation that frees or adds a slot must pump, since no timer does.
WorkConserving ==
    \A l \in Lanes :
      queue[l] # <<>> => Cardinality(activeTaskIds[l]) >= maxConcurrent[l]

\* A run waits for or holds a slot of a shared lane only while it holds its
\* session's entry, and that only while a manual cron run holds its own: inner
\* entries never outlive the outer ones that await them.
SlotNesting ==
    \A r \in Runs :
      LET pending(level) == task[Entry(r, level)] \in {"queued", "running"}
      IN  /\ pending("global") => task[Entry(r, "session")] = "running"
          /\ r \in ManualCron /\ pending("session")
               => task[Entry(r, "cron")] = "running"

\* A run has left its session's queue and is not over.
InSession(r) == task[Entry(r, "session")] = "running"

\* Between two restarts no two runs of a session are past the session's lane.
SessionExclusive ==
    \A r1, r2 \in Runs :
      /\ SessionOf[r1] = SessionOf[r2]
      /\ InSession(r1) /\ InSession(r2)
      /\ taskGeneration[Entry(r1, "session")] = taskGeneration[Entry(r2, "session")]
      => r1 = r2

\* A step that starts entries on a lane leaves it within its cap, whatever the
\* cap was before, and starts no entry ahead of one that waited longer
\* (drainLane after a reload that lowered or raised maxConcurrent).
StartsWithinCapInOrder ==
    [][\A l \in Lanes :
         LET started(e) == task[e] # "running" /\ task'[e] = "running"
         IN  /\ (\E e \in Entries : LaneOf(e) = l /\ started(e))
                  => Cardinality(activeTaskIds'[l]) <= maxConcurrent'[l]
             /\ \A i, j \in DOMAIN queue[l] :
                  i < j /\ started(queue[l][j]) => task'[queue[l][i]] # "queued"]_vars

\* Every accepted run ends: no chain of nested entries (cron, session, shared
\* lane) waits for a slot that one of its own outer entries holds.
AcceptedRunsSettle ==
    \A r \in Runs :
      task[Outermost(r)] \in {"queued", "running"} ~> Settled(task[Outermost(r)])
=============================================================================
