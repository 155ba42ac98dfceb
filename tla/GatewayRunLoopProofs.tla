------------------------ MODULE GatewayRunLoopProofs ------------------------
(***************************************************************************)
(* The run loop implements the command queue's specification, so what is   *)
(* proved of the queue holds in the gateway; and, if no signal arrives     *)
(* while the server starts, a serving gateway accepts work and every start *)
(* finds its port free, if no close threw and no start failed late.        *)
(***************************************************************************)
EXTENDS GatewayRunLoop, CommandQueueProofs

\* Each step of the gateway is a step of the command queue or leaves it alone:
\* the run loop reaches the lanes only through markGatewayDraining and
\* resetAllLanes.
LEMMA GatewayStepIsQueueStep == [GatewayNext]_gatewayVars => [Next]_vars
<1> SUFFICES ASSUME [GatewayNext]_gatewayVars PROVE [Next]_vars
  OBVIOUS
<1>1. CASE Work
  BY <1>1 DEF Work, Next
<1>2. CASE StopSignal
  BY <1>2 DEF StopSignal
<1>3. CASE ScheduleGatewaySigusr1Restart
  BY <1>3 DEF ScheduleGatewaySigusr1Restart
<1>4. ASSUME RequestRestart PROVE [Next]_vars
  BY <1>4 DEF RequestRestart, Next
<1>5. CASE RestartTimerFires
  BY <1>4, <1>5 DEF RestartTimerFires, EmitGatewayRestart
<1>6. CASE DeferralPollEnds
  BY <1>4, <1>6 DEF DeferralPollEnds, EmitGatewayRestart
<1>7. CASE DrainEnds
  BY <1>7 DEF DrainEnds
<1>8. CASE ServerClosed
  BY <1>8 DEF ServerClosed, Exit
<1>9. CASE ForceExit
  BY <1>9 DEF ForceExit, Exit
<1>10. CASE Respawn
  BY <1>10 DEF Respawn, Exit, LoopGoesOn, NewIteration, Next
<1>11. CASE StartSucceeds
  BY <1>11 DEF StartSucceeds
<1>12. CASE StartFails
  BY <1>12 DEF StartFails, Exit
<1>13. CASE UNCHANGED gatewayVars
  BY <1>13 DEF gatewayVars
<1> QED
  BY <1>1, <1>2, <1>3, <1>5, <1>6, <1>7, <1>8, <1>9, <1>10, <1>11, <1>12, <1>13
  DEF GatewayNext

\* The gateway uses the command queue as its specification allows.
THEOREM GatewayImplementsQueue == GatewaySpec => CommandQueueSpec
<1>1. GatewayInit => Init
  BY DEF GatewayInit
<1> QED
  BY <1>1, GatewayStepIsQueueStep, PTL DEF GatewaySpec, CommandQueueSpec, Spec

\* No wake-up is lost and no accepted entry dropped, restarts included.
THEOREM GatewayQueueAccounting ==
  GatewaySpec => [](WorkConserving /\ QueueAccounting /\ SlotAccounting)
<1>1. Spec => [](WorkConserving /\ QueueAccounting /\ SlotAccounting)
  BY NoIdleSlotWhileWaiting, QueuesAccounted, SlotsAccounted, PTL
<1> QED
  BY <1>1, GatewayImplementsQueue, PTL DEF CommandQueueSpec

-----------------------------------------------------------------------------
\* What the loop's control state says of the server and of the drain window: a
\* start begins with both closed, a wait outside a shutdown has the window
\* closed, and a shutdown that respawns has closed the server; but a server that
\* nothing refers to any more stays open.
LoopInv ==
    /\ loop \in {"starting", "waiting", "stopped"}
    /\ shutdown \in {"none", "draining", "closing", "respawning"}
    /\ listening \in BOOLEAN /\ server \in BOOLEAN /\ portLeaked \in BOOLEAN
    /\ loop = "starting" => shutdown = "none" /\ (listening => portLeaked)
    /\ Alive /\ shutdown = "none" => ~gatewayDraining
    /\ Alive => (listening => server \/ portLeaked)
    /\ Alive /\ shutdown = "respawning" => (listening => portLeaked)

\* Lane work leaves the drain window as it is.
LEMMA WorkKeepsDraining ==
  ASSUME Work PROVE UNCHANGED <<gatewayDraining, loopVars>>
BY DEF Work, Submit, CronJobStartsRun, EnqueueCommandInLane, CompleteTask,
       ClearCommandLane, SetCommandLaneConcurrency

\* Every step of the gateway preserves LoopInv if none is a signal that arrives
\* during a start.
LEMMA LoopStep ==
  ASSUME ~SignalsDuringStart, LoopInv, [GatewayNext]_gatewayVars
  PROVE  LoopInv'
<1> USE DEF LoopInv, Alive
<1>1. CASE Work
  BY <1>1, WorkKeepsDraining DEF loopVars
<1>2. CASE StopSignal
  BY <1>2 DEF StopSignal, ShuttingDown, vars
<1>3. CASE ScheduleGatewaySigusr1Restart
  BY <1>3 DEF ScheduleGatewaySigusr1Restart, vars
<1>4. ASSUME EmitGatewayRestart, loop # "stopped" PROVE LoopInv'
  BY <1>4 DEF EmitGatewayRestart, RequestRestart, ShuttingDown, MarkGatewayDraining,
             vars
<1>5. CASE RestartTimerFires
  BY <1>4, <1>5 DEF RestartTimerFires, vars
<1>6. CASE DeferralPollEnds
  BY <1>4, <1>6 DEF DeferralPollEnds
<1>7. CASE DrainEnds
  BY <1>7 DEF DrainEnds, vars
<1>8. CASE ServerClosed
  <2>1. CASE Exit
    BY <1>8, <2>1 DEF ServerClosed, Exit, vars
  <2>2. CASE ~Exit
    <3>1. PICK threw \in BOOLEAN :
            /\ listening' = (listening /\ (threw \/ ~server))
            /\ portLeaked' = (portLeaked \/ (server /\ threw))
      BY <1>8, <2>2 DEF ServerClosed, ListeningAfterClose
    <3>2. loop # "stopped" /\ shutdown' = "respawning" /\ server' = FALSE
          /\ UNCHANGED <<vars, loop>> /\ shutdown = "closing"
      BY <1>8, <2>2 DEF ServerClosed
    <3>3. listening' \in BOOLEAN /\ portLeaked' \in BOOLEAN
      BY <3>1
    <3> QED
      BY <3>1, <3>2, <3>3 DEF vars
  <2> QED
    BY <2>1, <2>2
<1>9. CASE ForceExit
  BY <1>9 DEF ForceExit, Exit, vars
<1>10. CASE Respawn
  BY <1>10 DEF Respawn, Exit, LoopGoesOn, NewIteration, ResetAllLanes, vars
<1>11. CASE StartSucceeds
  BY <1>11 DEF StartSucceeds, vars
<1>12. CASE StartFails
  <2>1. CASE Exit
    BY <1>12, <2>1 DEF Exit, vars
  <2>2. CASE ~Exit
    <3>1. PICK bound \in BOOLEAN : /\ listening' = (listening \/ bound)
                                  /\ portLeaked' = (portLeaked \/ bound)
      BY <1>12, <2>2 DEF StartFails
    <3>2. loop = "starting" /\ loop' = "waiting" /\ server' = FALSE /\ UNCHANGED <<vars, shutdown>>
      BY <1>12, <2>2 DEF StartFails
    <3>3. listening' \in BOOLEAN /\ portLeaked' \in BOOLEAN
      BY <3>1
    <3> QED
      BY <3>1, <3>2, <3>3 DEF vars
  <2> QED
    BY <2>1, <2>2
<1>13. CASE UNCHANGED gatewayVars
  BY <1>13 DEF gatewayVars, loopVars, vars
<1> QED
  BY <1>1, <1>2, <1>3, <1>5, <1>6, <1>7, <1>8, <1>9, <1>10, <1>11, <1>12, <1>13
  DEF GatewayNext

\* LoopInv holds from the first start on.
LEMMA LoopInvariant == ASSUME ~SignalsDuringStart PROVE GatewaySpec => []LoopInv
<1>1. GatewayInit => LoopInv
  BY DEF GatewayInit, Init, LoopInv, Alive
<1>2. LoopInv /\ [GatewayNext]_gatewayVars => LoopInv'
  BY LoopStep
<1> QED
  BY <1>1, <1>2, PTL DEF GatewaySpec

\* A restart's drain window is closed again before the gateway serves, whatever
\* runs, restarts and failed starts there were, if no signal arrived during a
\* start (run-loop.ts: markGatewayDraining, onIteration).
THEOREM DrainWindowCloses ==
  ASSUME ~SignalsDuringStart PROVE GatewaySpec => []ServingAcceptsWork
<1>1. LoopInv => ServingAcceptsWork
  BY DEF LoopInv, ServingAcceptsWork, ShuttingDown, Alive
<1> QED
  BY <1>1, LoopInvariant, PTL

\* Under the same proviso start() meets a listener of this process only if some
\* close threw before it came to the HTTP servers or some start failed after it
\* had bound the port (run-loop.ts: server?.close() and the catch around it).
THEOREM EveryStartFindsPortFree ==
  ASSUME ~SignalsDuringStart PROVE GatewaySpec => []StartFindsPortFree
<1>1. LoopInv => StartFindsPortFree
  BY DEF LoopInv, StartFindsPortFree
<1> QED
  BY <1>1, LoopInvariant, PTL

-----------------------------------------------------------------------------
\* A gateway keeps the lock that it has: only a shutdown, which takes it back when it
\* goes on in this process, and a failed start let go of it.
LockInv ==
    /\ ~startFailed /\ Alive /\ shutdown # "respawning" => lockHeld
    /\ ~startFailed /\ Alive /\ shutdown = "respawning" => hadLock
    /\ ~Alive /\ ~ShuttingDown => ~server
    /\ pendingRestartTimer => deferrals < MaxPending

LoopSafe == LoopTypeOK /\ LockInv

\* The parts of a shutdown's state that a request sets are typed.
LEMMA RequestTypes ==
  ASSUME LoopTypeOK, TypeOK, RequestRestart
  PROVE  /\ shutdown' \in {"none", "draining", "closing", "respawning"}
         /\ action' \in {"stop", "restart"} /\ activeAtStart' \subseteq Entries
         /\ UNCHANGED shutdown \/ (shutdown = "none" /\ shutdown' = "draining")
<1>1. HeldTasks \subseteq Entries
  BY DEF HeldTasks, TypeOK
<1> QED
  BY <1>1 DEF RequestRestart, LoopTypeOK, ShuttingDown, Awaited

\* Every step preserves LoopSafe, signals during a start included.
LEMMA LoopSafeStep ==
  ASSUME LoopSafe, TypeOK, [GatewayNext]_gatewayVars
  PROVE  LoopSafe'
<1> USE RunLoopAssumption DEF LoopSafe, LoopTypeOK, LockInv, Alive, ShuttingDown
<1>1. CASE Work
  BY <1>1, WorkKeepsDraining DEF loopVars
<1>2. CASE StopSignal
  BY <1>2 DEF StopSignal
<1>3. CASE ScheduleGatewaySigusr1Restart
  BY <1>3 DEF ScheduleGatewaySigusr1Restart
<1>4. ASSUME EmitGatewayRestart, loop # "stopped", deferrals' \in 0..MaxPending PROVE LoopSafe'
  <2>1. RequestRestart
    BY <1>4 DEF EmitGatewayRestart
  <2> QED
    BY <1>4, <2>1, RequestTypes DEF EmitGatewayRestart
<1>5. CASE RestartTimerFires
  <2>1. CASE pendingRestartTimer' = FALSE /\ deferrals' = deferrals + 1
                /\ UNCHANGED <<loop, startedOnce, server, listening, lockHeld, shutdown,
                               action, activeAtStart, hadLock, drainTimedOut, startFailed, portLeaked>>
    <3>1. deferrals' \in 0..MaxPending
      BY <1>5, <2>1 DEF RestartTimerFires
    <3> QED
      BY <2>1, <3>1
  <2>2. ASSUME EmitGatewayRestart, UNCHANGED deferrals PROVE LoopSafe'
    <3>1. loop # "stopped" /\ deferrals' \in 0..MaxPending
      BY <1>5, <2>2 DEF RestartTimerFires
    <3> QED
      BY <1>4, <2>2, <3>1
  <2>3. \/ EmitGatewayRestart /\ UNCHANGED deferrals
        \/ pendingRestartTimer' = FALSE /\ deferrals' = deferrals + 1
             /\ UNCHANGED <<loop, startedOnce, server, listening, lockHeld, shutdown,
                            action, activeAtStart, hadLock, drainTimedOut, startFailed, portLeaked>>
    BY <1>5 DEF RestartTimerFires
  <2> QED
    BY <2>1, <2>2, <2>3
<1>6. CASE DeferralPollEnds
  BY <1>4, <1>6 DEF DeferralPollEnds
<1>7. CASE DrainEnds
  BY <1>7 DEF DrainEnds
<1>8. CASE ServerClosed
  <2>1. CASE Exit
    BY <1>8, <2>1 DEF ServerClosed, Exit
  <2>2. CASE ~Exit
    <3>1. PICK threw \in BOOLEAN :
            /\ listening' = (listening /\ (threw \/ ~server))
            /\ portLeaked' = (portLeaked \/ (server /\ threw))
      BY <1>8, <2>2 DEF ServerClosed, ListeningAfterClose
    <3>2. listening' \in BOOLEAN /\ portLeaked' \in BOOLEAN
      BY <3>1
    <3>3. /\ shutdown = "closing" /\ shutdown' = "respawning"
          /\ lockHeld' = FALSE /\ server' = FALSE /\ hadLock' = lockHeld
          /\ UNCHANGED <<loop, startedOnce, action, activeAtStart, pendingRestartTimer,
                         deferrals, drainTimedOut, startFailed>>
      BY <1>8, <2>2 DEF ServerClosed
    <3>4. LoopTypeOK'
      BY <3>2, <3>3
    <3>5. LockInv'
      BY <1>8, <3>3 DEF ServerClosed
    <3> QED
      BY <3>4, <3>5
  <2> QED
    BY <2>1, <2>2
<1>9. CASE ForceExit
  BY <1>9 DEF ForceExit, Exit
<1>10. CASE Respawn
  BY <1>10 DEF Respawn, Exit, LoopGoesOn, LockReacquired
<1>11. CASE StartSucceeds
  BY <1>11 DEF StartSucceeds
<1>12. CASE StartFails
  <2>1. CASE Exit
    BY <1>12, <2>1 DEF StartFails, Exit
  <2>2. CASE ~Exit
    <3>1. /\ startedOnce /\ loop' = "waiting" /\ lockHeld' = FALSE
          /\ server' = FALSE /\ startFailed' = TRUE
          /\ UNCHANGED <<startedOnce, shutdown, action, activeAtStart, hadLock,
                         pendingRestartTimer, deferrals, drainTimedOut>>
      BY <1>12, <2>2 DEF StartFails
    <3>4. listening' \in BOOLEAN /\ portLeaked' \in BOOLEAN
      BY <1>12, <2>2 DEF StartFails
    <3>2. LoopTypeOK'
      BY <3>1, <3>4
    <3>3. LockInv'
      BY <3>1
    <3> QED
      BY <3>2, <3>3
  <2> QED
    BY <2>1, <2>2
<1>13. CASE UNCHANGED gatewayVars
  BY <1>13 DEF gatewayVars, loopVars
<1> QED
  BY <1>1, <1>2, <1>3, <1>5, <1>6, <1>7, <1>8, <1>9, <1>10, <1>11, <1>12, <1>13
  DEF GatewayNext

\* LoopSafe holds from the first start on: the tasks that a drain waits for are entries
\* because the gateway uses the queue as its specification allows.
LEMMA LoopSafeInvariant == GatewaySpec => []LoopSafe
<1>1. GatewayInit => LoopSafe
  <2> SUFFICES ASSUME GatewayInit PROVE LoopSafe
    OBVIOUS
  <2>1. LockInv
    BY DEF GatewayInit, LockInv, Alive, ShuttingDown
  <2>2. deferrals \in 0..MaxPending
    BY RunLoopAssumption DEF GatewayInit
  <2>3. LoopTypeOK
    BY <2>2 DEF GatewayInit, LoopTypeOK
  <2> QED
    BY <2>1, <2>3 DEF LoopSafe
<1>2. LoopSafe /\ TypeOK /\ [GatewayNext]_gatewayVars => LoopSafe'
  BY LoopSafeStep
<1>3. GatewaySpec => []TypeOK
  BY GatewayImplementsQueue, TypeCorrect, PTL DEF CommandQueueSpec
<1> QED
  BY <1>1, <1>2, <1>3, PTL DEF GatewaySpec

\* The loop's state is of its types, and a process that never served does not outlive a
\* failed start (run-loop.ts: isFirstStart).
THEOREM LoopTypeCorrect == GatewaySpec => []LoopTypeOK
<1>1. LoopSafe => LoopTypeOK
  BY DEF LoopSafe
<1> QED
  BY <1>1, LoopSafeInvariant, PTL

\* A gateway that serves holds the lock, over any restarts and signals, as long as no
\* start has failed (run-loop.ts: releaseLockIfHeld, reacquireLockForInProcessRestart).
THEOREM LockHeldWhileServing == GatewaySpec => []ServingHoldsLock
<1>1. LoopSafe => ServingHoldsLock
  BY DEF LoopSafe, LockInv, LoopTypeOK, ServingHoldsLock, Alive, ShuttingDown
<1> QED
  BY <1>1, LoopSafeInvariant, PTL

-----------------------------------------------------------------------------
\* The session entry of a run started in its lane's generation.
Current(r) == taskGeneration[Entry(r, "session")] = generation[SessionOf[r]]

\* As long as no drain has timed out, a run at a shared lane is one of the
\* current generation: the drain of a restart waits for the session entries of
\* all the runs that are there when it begins, none comes there while the
\* window is open, and so none is there when the lanes are reset.
DrainInv ==
    /\ ~drainTimedOut =>
         /\ \A r \in Runs : Touching(r) => Current(r)
         /\ Alive /\ shutdown = "draining" =>
              \A r \in Runs : Touching(r) => Entry(r, "session") \in activeAtStart
         /\ Alive /\ action = "restart" /\ shutdown \in {"closing", "respawning"} =>
              \A r \in Runs : ~Touching(r)
    /\ Alive /\ ShuttingDown /\ action = "restart" => gatewayDraining
    /\ Alive /\ shutdown \in {"draining", "respawning"} => action = "restart"

\* A run comes to a shared lane outside the drain window only, in its lane's
\* generation, which only a reset changes.
LEMMA StepTouches ==
  ASSUME IInv, [GatewayNext]_gatewayVars
  PROVE  /\ \A r \in Runs : Touching(r)' =>
              Touching(r) \/ (~gatewayDraining' /\ Current(r)')
         /\ generation' = generation => \A r \in Runs : Current(r) => Current(r)'
<1>1. PumpSteps(queue, task)
  BY GatewayStepIsQueueStep, NextPumps
<1>2. \A r \in Runs : Touching(r)' => Touching(r) \/ (~gatewayDraining' /\ Current(r)')
  BY <1>1 DEF PumpSteps, EntersFresh, Touching, Current
<1>3. \A r \in Runs : Entry(r, "session") \in Entries
                      /\ LaneOf(Entry(r, "session")) = SessionOf[r]
  BY EntryType DEF Levels, LaneOf
<1>4. generation' = generation => \A r \in Runs : Current(r) => Current(r)'
  BY <1>1, <1>3 DEF PumpSteps, Stamped, Current
<1> QED
  BY <1>2, <1>4

\* A run at a shared lane holds its session's slot, if it is of the current
\* generation.
LEMMA TouchingIsHeld ==
  ASSUME IInv, NEW r \in Runs, Touching(r), Current(r)
  PROVE  Entry(r, "session") \in HeldTasks
<1>1. /\ Entry(r, "session") \in Entries
      /\ LaneOf(Entry(r, "session")) = SessionOf[r] /\ SessionOf[r] \in Lanes
  BY EntryType, ConstantsAssumption DEF Levels, LaneOf, Lanes
<1>2. task[Entry(r, "session")] = "running"
  BY DEF IInv, Awaits, Touching
<1>3. Entry(r, "session") \in activeTaskIds[SessionOf[r]]
  BY <1>1, <1>2 DEF IInv, Accounts, Current
<1> QED
  BY <1>1, <1>3 DEF HeldTasks

\* A step that leaves the lanes alone.
LEMMA QuietTouches ==
  ASSUME UNCHANGED <<task, taskGeneration, generation>>
  PROVE  \A r \in Runs : (Touching(r)' <=> Touching(r)) /\ (Current(r)' <=> Current(r))
BY DEF Touching, Current

\* Every step preserves DrainInv.
LEMMA DrainStep ==
  ASSUME DrainInv, IInv, [GatewayNext]_gatewayVars
  PROVE  DrainInv'
<1> USE DEF Alive, ShuttingDown
<1> HIDE DEF Touching, Current
<1>1. CASE Work
  <2>1. UNCHANGED <<gatewayDraining, loopVars>>
    BY <1>1, WorkKeepsDraining
  <2>2. generation' = generation
    BY <1>1 DEF Work, Submit, CronJobStartsRun, EnqueueCommandInLane, CompleteTask,
                ClearCommandLane, SetCommandLaneConcurrency
  <2> QED
    BY <2>1, <2>2, StepTouches DEF DrainInv, loopVars
<1>2. CASE StopSignal
  BY <1>2, QuietTouches DEF StopSignal, DrainInv, vars
<1>3. CASE ScheduleGatewaySigusr1Restart
  BY <1>3, QuietTouches DEF ScheduleGatewaySigusr1Restart, DrainInv, vars
<1>4. ASSUME EmitGatewayRestart, loop # "stopped" PROVE DrainInv'
  <2>1. UNCHANGED <<task, taskGeneration, generation, loop, drainTimedOut>>
    BY <1>4 DEF EmitGatewayRestart, RequestRestart, MarkGatewayDraining, vars
  <2>2. CASE ShuttingDown
    BY <1>4, <2>1, <2>2, QuietTouches DEF EmitGatewayRestart, RequestRestart, DrainInv, vars
  <2>3. CASE ~ShuttingDown
    <3>1. /\ shutdown' = "draining" /\ action' = "restart" /\ gatewayDraining' = TRUE
          /\ activeAtStart' = HeldTasks
      BY <1>4, <2>3 DEF EmitGatewayRestart, RequestRestart, MarkGatewayDraining, Awaited
    <3>2. ~drainTimedOut => \A r \in Runs : Touching(r) => Entry(r, "session") \in HeldTasks
      BY TouchingIsHeld DEF DrainInv
    <3> QED
      BY <2>1, <3>1, <3>2, QuietTouches DEF DrainInv
  <2> QED
    BY <2>2, <2>3
<1>5. CASE RestartTimerFires
  BY <1>4, <1>5, QuietTouches DEF RestartTimerFires, DrainInv, vars
<1>6. CASE DeferralPollEnds
  BY <1>4, <1>6 DEF DeferralPollEnds
<1>7. CASE DrainEnds
  <2>1. /\ UNCHANGED <<task, taskGeneration, generation, gatewayDraining, loop, action>>
        /\ shutdown = "draining" /\ shutdown' = "closing" /\ loop # "stopped"
        /\ ~drainTimedOut' => ~drainTimedOut /\ activeAtStart \cap HeldTasks = {}
    BY <1>7 DEF DrainEnds, vars
  <2>2. ~drainTimedOut' => \A r \in Runs : ~Touching(r)
    BY <2>1, TouchingIsHeld DEF DrainInv
  <2> QED
    BY <2>1, <2>2, QuietTouches DEF DrainInv
<1>8. CASE ServerClosed
  BY <1>8, QuietTouches DEF ServerClosed, Exit, DrainInv, vars
<1>9. CASE ForceExit
  BY <1>9, QuietTouches DEF ForceExit, Exit, DrainInv, vars
<1>10. CASE Respawn
  <2>1. CASE UNCHANGED vars
    BY <1>10, <2>1, QuietTouches DEF Respawn, Exit, DrainInv, vars
  <2>2. CASE ~UNCHANGED vars
    <3>1. /\ shutdown = "respawning" /\ shutdown' = "none" /\ loop # "stopped"
          /\ drainTimedOut' = drainTimedOut
      BY <1>10, <2>2 DEF Respawn, Exit
    <3>2. ~drainTimedOut => \A r \in Runs : ~Touching(r)
      BY <3>1 DEF DrainInv
    <3> QED
      BY <3>1, <3>2, StepTouches DEF DrainInv
  <2> QED
    BY <2>1, <2>2
<1>11. CASE StartSucceeds
  BY <1>11, QuietTouches DEF StartSucceeds, DrainInv, vars
<1>12. CASE StartFails
  BY <1>12, QuietTouches DEF StartFails, Exit, DrainInv, vars
<1>13. CASE UNCHANGED gatewayVars
  BY <1>13, QuietTouches DEF gatewayVars, loopVars, DrainInv, vars
<1> QED
  BY <1>1, <1>2, <1>3, <1>5, <1>6, <1>7, <1>8, <1>9, <1>10, <1>11, <1>12, <1>13
  DEF GatewayNext

\* Restarts whose drains ended in time never let two runs of a session overlap at
\* the shared lanes, though a drain waits for nothing that starts after it began
\* (run-loop.ts: markGatewayDraining, waitForActiveTasks, onIteration).
THEOREM DrainedRestartsExclude == GatewaySpec => []DrainedRestartIsExclusive
<1>1. GatewayInit => DrainInv
  <2> SUFFICES ASSUME GatewayInit PROVE DrainInv
    OBVIOUS
  <2>1. \A r \in Runs : ~Touching(r)
    BY EntryType DEF GatewayInit, Init, Touching, Levels
  <2> QED
    BY <2>1 DEF DrainInv, GatewayInit, ShuttingDown
<1>2. DrainInv /\ IInv /\ [GatewayNext]_gatewayVars => DrainInv'
  BY DrainStep
<1>3. GatewaySpec => []IInv
  <2>1. Spec => []IInv
    BY InitInvariant, NextInvariant, PTL DEF Spec
  <2> QED
    BY <2>1, GatewayImplementsQueue, PTL DEF CommandQueueSpec
<1>4. DrainInv /\ IInv => DrainedRestartIsExclusive
  <2> SUFFICES ASSUME DrainInv, IInv, ~drainTimedOut,
                      NEW r1 \in Runs, NEW r2 \in Runs, SessionOf[r1] = SessionOf[r2],
                      Touching(r1), Touching(r2)
               PROVE  r1 = r2
    BY DEF DrainedRestartIsExclusive
  <2>1. Current(r1) /\ Current(r2)
    BY DEF DrainInv
  <2>2. task[Entry(r1, "session")] = "running" /\ task[Entry(r2, "session")] = "running"
    BY DEF IInv, Awaits, Touching
  <2> QED
    BY <2>1, <2>2 DEF IInv, Exclusive, Current
<1> QED
  BY <1>1, <1>2, <1>3, <1>4, PTL DEF GatewaySpec
=============================================================================
