--------------------------- MODULE GatewayRunLoop ---------------------------
(***************************************************************************)
(* The run loop of the gateway process (cli/gateway-cli/run-loop.ts) and   *)
(* the restart scheduler (infra/restart.ts) around the command queue.      *)
(*                                                                         *)
(* Three activities interleave at their awaits: the loop, which starts the *)
(* server and waits for a restart; the shutdown that a signal begins,      *)
(* which drains the lanes, closes the server and respawns; and the timers  *)
(* of the scheduler, each of which ends in an emitted SIGUSR1.  The run    *)
(* loop's listener takes an emitted SIGUSR1 synchronously, so emission,    *)
(* authorisation and request are one step and no token is left unconsumed. *)
(*                                                                         *)
(* Work goes on in the command queue meanwhile.  The registry of embedded  *)
(* runs, which the drain also polls, is a subset of the running global     *)
(* entries that may be empty at any moment; it only delays what the model  *)
(* lets happen at any time, and has no variable here.                      *)
(***************************************************************************)
EXTENDS CommandQueue

CONSTANTS
    MaxPending,          \* BOUND: restart timers and deferral polls at a time
    SignalsDuringStart   \* whether signals arrive while the server starts

ASSUME RunLoopAssumption == MaxPending \in Nat /\ SignalsDuringStart \in BOOLEAN

VARIABLES
    loop,            \* "starting" awaits params.start(), "waiting" awaits
                     \* restartResolver, "stopped": the process has exited
    startedOnce,     \* ~isFirstStart
    server,          \* the loop's handle is not null
    listening,       \* an HTTP server of this process has the port
    lockHeld,        \* the loop's gateway lock is not null
    shutdown,        \* where request's closure is, "none" if ~shuttingDown
    action,          \* its action
    activeAtStart,   \* the tasks its drain waits for
    hadLock,         \* whether it released the lock
    pendingRestartTimer, \* a scheduled restart has not fired
    deferrals,       \* deferral polls that have not emitted; they survive an
                     \* in-process restart
    drainTimedOut,   \* HISTORY: some drain ran into its timeout
    startFailed,     \* HISTORY: some start failed and left the process alive
    portLeaked       \* HISTORY: a close that threw, or a start that failed late,
                     \* left an HTTP server open that nothing refers to any more

loopVars == <<loop, startedOnce, server, listening, lockHeld, shutdown, action,
              activeAtStart, hadLock, pendingRestartTimer, deferrals,
              drainTimedOut, startFailed, portLeaked>>
gatewayVars == <<vars, loopVars>>

ShuttingDown == shutdown # "none"
Alive == loop # "stopped"

\* Types, and that a process that has never served does not outlive a failed
\* start (isFirstStart).
LoopTypeOK ==
    /\ loop \in {"starting", "waiting", "stopped"}
    /\ startedOnce \in BOOLEAN /\ server \in BOOLEAN /\ listening \in BOOLEAN
    /\ lockHeld \in BOOLEAN /\ hadLock \in BOOLEAN /\ pendingRestartTimer \in BOOLEAN
    /\ drainTimedOut \in BOOLEAN /\ startFailed \in BOOLEAN /\ portLeaked \in BOOLEAN
    /\ shutdown \in {"none", "draining", "closing", "respawning"}
    /\ action \in {"stop", "restart"}
    /\ activeAtStart \subseteq Entries
    /\ deferrals \in 0..MaxPending
    /\ startFailed \/ server => startedOnce

GatewayInit ==
    /\ Init
    /\ loop = "starting"
    /\ lockHeld = TRUE
    /\ shutdown = "none"
    /\ action = "stop"
    /\ activeAtStart = {}
    /\ deferrals = 0
    /\ startedOnce = FALSE /\ server = FALSE /\ listening = FALSE
    /\ hadLock = FALSE /\ pendingRestartTimer = FALSE
    /\ drainTimedOut = FALSE /\ startFailed = FALSE /\ portLeaked = FALSE

-----------------------------------------------------------------------------
(* Work in the lanes goes on as long as the process lives. *)

Work ==
    /\ Alive
    /\ \/ \E r \in Runs : Submit(r) \/ CronJobStartsRun(r)
       \/ \E e \in Entries : CompleteTask(e)
       \/ \E l \in Sessions : ClearCommandLane(l)
       \/ \E l \in ConfigurableLanes : \E n \in ConcurrencyChoices[l] :
            SetCommandLaneConcurrency(l, n)
    /\ UNCHANGED loopVars

-----------------------------------------------------------------------------
(* Signals. *)

\* Mutant: the drain waits for nothing.
NothingAwaited(active) == {}

\* waitForActiveTasks takes the tasks that are active when it is called.
Awaited(active) == active

HeldTasks == UNION {activeTaskIds[l] : l \in Lanes}

\* request("restart"): ignored during a shutdown.
RequestRestart ==
    \/ /\ ShuttingDown
       /\ UNCHANGED <<vars, shutdown, action, activeAtStart>>
    \/ /\ ~ShuttingDown
       /\ shutdown' = "draining"
       /\ action' = "restart"
       /\ activeAtStart' = Awaited(HeldTasks)
       /\ MarkGatewayDraining

\* request("stop"), on SIGTERM and SIGINT: no drain.
StopSignal ==
    /\ Alive
    /\ ~ShuttingDown
    /\ loop = "starting" => SignalsDuringStart
    /\ shutdown' = "closing"
    /\ action' = "stop"
    /\ UNCHANGED <<vars, loop, startedOnce, server, listening, lockHeld,
                   activeAtStart, hadLock, pendingRestartTimer, deferrals,
                   drainTimedOut, startFailed, portLeaked>>

\* The restart RPC, /restart and an external SIGUSR1 schedule a restart; one
\* that is scheduled already absorbs the request.
ScheduleGatewaySigusr1Restart ==
    /\ Alive
    /\ ~pendingRestartTimer
    /\ deferrals < MaxPending
    /\ \A l \in Lanes : generation[l] < MaxResets
    /\ pendingRestartTimer' = TRUE
    /\ UNCHANGED <<vars, loop, startedOnce, server, listening, lockHeld, shutdown,
                   action, activeAtStart, hadLock, deferrals, drainTimedOut,
                   startFailed, portLeaked>>

\* emitGatewayRestart cancels the scheduled restart.
EmitGatewayRestart ==
    /\ loop = "starting" => SignalsDuringStart
    /\ pendingRestartTimer' = FALSE
    /\ RequestRestart
    /\ UNCHANGED <<loop, startedOnce, server, listening, lockHeld, hadLock,
                   drainTimedOut, startFailed, portLeaked>>

PendingWork == \E l \in Lanes : queue[l] # <<>> \/ activeTaskIds[l] # {}

\* The timer emits if nothing is pending and begins a poll otherwise.
RestartTimerFires ==
    /\ Alive
    /\ pendingRestartTimer
    /\ \/ /\ ~PendingWork
          /\ EmitGatewayRestart
          /\ UNCHANGED deferrals
       \/ /\ pendingRestartTimer' = FALSE
          /\ deferrals' = deferrals + 1
          /\ UNCHANGED <<vars, loop, startedOnce, server, listening, lockHeld,
                         shutdown, action, activeAtStart, hadLock,
                         drainTimedOut, startFailed, portLeaked>>

\* A poll that finds nothing pending, or has waited for too long, emits.
DeferralPollEnds ==
    /\ Alive
    /\ deferrals > 0
    /\ deferrals' = deferrals - 1
    /\ EmitGatewayRestart

-----------------------------------------------------------------------------
(* The shutdown that request began. *)

Exit ==
    /\ loop' = "stopped"
    /\ UNCHANGED <<vars, startedOnce, server, listening, shutdown, action,
                   activeAtStart, hadLock, pendingRestartTimer, deferrals,
                   drainTimedOut, startFailed, portLeaked>>

DrainEnds ==
    /\ Alive
    /\ shutdown = "draining"
    /\ shutdown' = "closing"
    /\ activeAtStart' = {}
    /\ drainTimedOut' = (drainTimedOut \/ activeAtStart \cap HeldTasks # {})
    /\ UNCHANGED <<vars, loop, startedOnce, server, listening, lockHeld, action,
                   hadLock, pendingRestartTimer, deferrals, startFailed, portLeaked>>

\* Mutant: the handle is dropped but the server not closed.
ListeningOn(handle, threw) == listening

\* server?.close() frees the port, unless it throws before it comes to the HTTP
\* servers, which it closes last.
ListeningAfterClose(handle, threw) == listening /\ (threw \/ ~handle)

\* server?.close() resolves or throws; either way the handle is dropped and the
\* lock released, and the process exits if it was told to stop.
ServerClosed ==
    /\ Alive
    /\ shutdown = "closing"
    /\ \/ /\ action = "stop"
          /\ lockHeld' = FALSE
          /\ Exit
       \/ /\ action = "restart"
          /\ server' = FALSE
          /\ \E threw \in BOOLEAN :
               /\ listening' = ListeningAfterClose(server, threw)
               /\ portLeaked' = (portLeaked \/ (server /\ threw))
          /\ hadLock' = lockHeld
          /\ lockHeld' = FALSE
          /\ shutdown' = "respawning"
          /\ UNCHANGED <<vars, loop, startedOnce, action, activeAtStart,
                         pendingRestartTimer, deferrals, drainTimedOut, startFailed>>

\* The drain and the close take longer than forceExitMs.
ForceExit ==
    /\ Alive
    /\ shutdown \in {"draining", "closing"}
    /\ UNCHANGED lockHeld
    /\ Exit

\* Mutant: the lanes keep their generation over an in-process restart.
NewIterationSameGeneration == ResetAllLanesSameGeneration

\* Mutant: the lanes are not reset when the loop goes on.
NewIterationKeepsLanes == UNCHANGED vars

\* onIteration: the loop resets the lanes before it starts the server again.
NewIteration == ResetAllLanes

\* Mutant: an in-process restart goes on without the lock.
LockNotReacquired(had) == FALSE

LockReacquired(had) == had

\* Mutant: the resolver is never called.
LoopWaitsOn == UNCHANGED <<vars, loop>>

\* restartResolver?.(): before the loop waits its resolver is unset, or the one
\* of the last iteration, and calling it does nothing.
LoopGoesOn ==
    \/ loop = "waiting" /\ loop' = "starting" /\ NewIteration
    \/ loop = "starting" /\ UNCHANGED <<vars, loop>>

\* restartGatewayProcessWithFreshPid: a fresh process takes over, or the lock is
\* taken back and the loop goes on in this one.  If the lock cannot be taken back
\* the process exits.
Respawn ==
    /\ Alive
    /\ shutdown = "respawning"
    /\ \/ Exit /\ UNCHANGED lockHeld
       \/ /\ shutdown' = "none"
          /\ lockHeld' = LockReacquired(hadLock)
          /\ LoopGoesOn
          /\ UNCHANGED <<startedOnce, server, listening, action, activeAtStart,
                         hadLock, pendingRestartTimer, deferrals, drainTimedOut,
                         startFailed, portLeaked>>

-----------------------------------------------------------------------------
(* The loop. *)

StartSucceeds ==
    /\ Alive
    /\ loop = "starting"
    /\ ~listening               \* the port is free
    /\ loop' = "waiting"
    /\ startedOnce' = TRUE
    /\ server' = TRUE
    /\ listening' = TRUE
    /\ UNCHANGED <<vars, lockHeld, shutdown, action, activeAtStart, hadLock,
                   pendingRestartTimer, deferrals, drainTimedOut, startFailed, portLeaked>>

\* The first failure ends the process; a later one keeps it alive, without the
\* lock.  A start that fails after it has bound the port leaves it bound.
StartFails ==
    /\ Alive
    /\ loop = "starting"
    /\ lockHeld' = FALSE
    /\ \/ ~startedOnce /\ Exit
       \/ /\ startedOnce
          /\ loop' = "waiting"
          /\ server' = FALSE
          /\ startFailed' = TRUE
          /\ \E bound \in BOOLEAN : /\ listening' = (listening \/ bound)
                                   /\ portLeaked' = (portLeaked \/ bound)
          /\ UNCHANGED <<vars, startedOnce, shutdown, action, activeAtStart, hadLock,
                         pendingRestartTimer, deferrals, drainTimedOut>>

GatewayNext ==
    \/ Work
    \/ StopSignal
    \/ ScheduleGatewaySigusr1Restart
    \/ RestartTimerFires
    \/ DeferralPollEnds
    \/ DrainEnds
    \/ ServerClosed
    \/ ForceExit
    \/ Respawn
    \/ StartSucceeds
    \/ StartFails

GatewaySpec == GatewayInit /\ [][GatewayNext]_gatewayVars

\* The drain and the close are bounded by timers, the lock by its timeout, and
\* start() settles.  Timers of the scheduler fire.
GatewayFairness ==
    /\ WF_gatewayVars(DrainEnds)
    /\ WF_gatewayVars(ServerClosed \/ ForceExit)
    /\ WF_gatewayVars(Respawn)
    /\ WF_gatewayVars(StartSucceeds \/ StartFails)

FairGatewaySpec == GatewaySpec /\ GatewayFairness

-----------------------------------------------------------------------------
(* Properties. *)

\* A gateway that serves and is not shutting down accepts work: the drain window
\* that a restart request opens ("Reject new enqueues immediately during the
\* drain window") is closed again by the iteration it leads to.
ServingAcceptsWork ==
    loop = "waiting" /\ server /\ ~ShuttingDown => ~gatewayDraining

\* No start finds the port taken by this process, unless a close that threw or a
\* start that failed late left a server open: whatever else happens between two
\* starts (signals, drains that time out, failed starts), the handle that the
\* shutdown closes is the server that listens.
StartFindsPortFree == loop = "starting" /\ ~portLeaked => ~listening

\* A serving gateway holds the lock, as long as no start has failed.
ServingHoldsLock == server /\ ~ShuttingDown /\ ~startFailed => lockHeld

\* A run that holds or waits for a slot of a shared lane.
Touching(r) == task[Entry(r, "global")] \in {"queued", "running"}

\* Restarts that drained in time never let two runs of a session overlap, though
\* the drain only waits for the tasks that were active when it began: what
\* starts during the drain is refused its inner entry, and what waits inside is
\* held up by an outer entry that the drain waits for.
DrainedRestartIsExclusive ==
    ~drainTimedOut =>
      \A r1, r2 \in Runs :
        SessionOf[r1] = SessionOf[r2] /\ Touching(r1) /\ Touching(r2) => r1 = r2

\* Work is refused for a while only: every drain window ends, with the process or
\* with a new iteration.
DrainingEnds == gatewayDraining ~> (~gatewayDraining \/ ~Alive)

\* The run loop uses the command queue as CommandQueue's specification allows,
\* so all that is proved of it holds in the gateway.
CommandQueueSpec == Spec
=============================================================================
