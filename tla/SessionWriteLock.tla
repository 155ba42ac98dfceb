--------------------------- MODULE SessionWriteLock ---------------------------
(***************************************************************************)
(* The write lock of one session file (agents/session-write-lock.ts): a    *)
(* file created with O_EXCL excludes other processes, the map HELD_LOCKS   *)
(* counts the nested holders of one process.  Waiters remove the file of a *)
(* dead or too old owner, a watchdog releases a lock that is held too      *)
(* long, and the gateway removes stale files when it starts.  A signal     *)
(* releases all locks of a process at once, whether it dies of it or not.  *)
(*                                                                         *)
(* A step ends where the code awaits the file system, so the steps of      *)
(* actors, of one process or of several, interleave there.  Every process  *)
(* has a pid of its own and records its start time, as on Linux, so that a *)
(* pid in a file never names a later process.  Every acquisition has an    *)
(* id, which stands for the HeldLock object and for the file it created.   *)
(***************************************************************************)
EXTENDS Integers, FiniteSets

CONSTANTS
    Procs,          \* processes
    Gateways,       \* those that run cleanStaleLockFiles when they start
    Actors,         \* callers of acquireSessionWriteLock
    ProcOf,         \* ProcOf[a]: the process of actor a
    MaxIds,         \* BOUND: lock files created
    MaxInterrupts,  \* BOUND: processes that die, and signals that they outlive
    MaxOverruns,    \* BOUND: holds that outlast staleMs or maxHoldMs
    MaxIoErrors     \* BOUND: writes of the payload that fail

ASSUME LockAssumption ==
    /\ Procs # {} /\ Gateways \subseteq Procs
    /\ IsFiniteSet(Actors) /\ Actors \cap Procs = {} /\ ProcOf \in [Actors -> Procs]
    /\ {MaxIds, MaxInterrupts, MaxOverruns, MaxIoErrors} \subseteq Nat

Ids == 1..MaxIds
None == 0

VARIABLES
    run,       \* run[p]: whether process p is off, up or dead
    cleaning,  \* the gateways whose start looks for stale lock files
    file,      \* the id of the lock file at the path, None if there is none
    owner,     \* owner[i]: the process that created file i
    written,   \* the files whose payload is written
    old,       \* the files older than staleMs
    held,      \* held[p]: the entry of HELD_LOCKS, its id and its count
    overdue,   \* the acquisitions held longer than maxHoldMs
    step,      \* step[a]: what actor a does
    mine,      \* mine[a]: the acquisition whose release function a has
    seen,      \* seen[x]: the file that actor or starting process x inspected
    forced,    \* forced[p]: the acquisition that the watchdog is releasing
    used, interrupts, overruns, ioErrors,  \* counters of ids and of the bounds
    lapsed,    \* HISTORY: acquisitions that outlasted staleMs or maxHoldMs
    robbed,    \* HISTORY: acquisitions whose file or entry fell to a step meant for another
    signalled  \* HISTORY: acquisitions that a signal released and their process outlived

counters == <<used, interrupts, overruns, ioErrors>>
disk == <<file, owner, written, old>>
lockVars == <<run, cleaning, disk, held, overdue, step, mine, seen, forced, counters,
              lapsed, robbed, signalled>>

NotHeld == [id |-> None, count |-> 0]

Steps == {"idle", "opening", "writing", "reading", "checking", "removing", "holding",
          "unlinking", "over", "dead"}
Waiting == {"opening", "reading", "checking", "removing"}

LockInit ==
    /\ run = [p \in Procs |-> "off"]
    /\ file = None /\ owner = [i \in Ids |-> CHOOSE p \in Procs : TRUE]
    /\ written = {} /\ old = {}
    /\ held = [p \in Procs |-> NotHeld] /\ overdue = {}
    /\ step = [a \in Actors |-> "idle"]
    /\ mine = [a \in Actors |-> None]
    /\ seen = [x \in Actors \cup Procs |-> None]
    /\ forced = [p \in Procs |-> None]
    /\ used = 0 /\ interrupts = 0 /\ overruns = 0 /\ ioErrors = 0
    /\ cleaning = {} /\ lapsed = {} /\ robbed = {} /\ signalled = {}

Up(a) == run[ProcOf[a]] = "up"
Enter(a, s) == step' = [step EXCEPT ![a] = s]
Inspected(a, s) ==
    /\ Enter(a, s)
    /\ seen' = [seen EXCEPT ![a] = IF s = "removing" THEN file ELSE None]
OwnerDead(i) == run[owner[i]] = "dead"

\* fs.rm of the path, by someone who means file i: it removes whatever is there.
Rm(i) ==
    /\ file' = None
    /\ robbed' = IF file \in {None, i} THEN robbed ELSE robbed \cup {file}
    /\ UNCHANGED <<owner, written, old>>

-----------------------------------------------------------------------------
(* acquireSessionWriteLock *)

\* A second holder in the process is counted; otherwise the file has to be created.
Acquire(a) ==
    /\ Up(a) /\ step[a] = "idle"
    /\ LET p == ProcOf[a]
       IN  IF held[p] # NotHeld
           THEN /\ held' = [held EXCEPT ![p].count = @ + 1]
                /\ mine' = [mine EXCEPT ![a] = held[p].id]
                /\ Enter(a, "holding")
           ELSE Enter(a, "opening") /\ UNCHANGED <<held, mine>>
    /\ UNCHANGED <<run, cleaning, disk, overdue, seen, forced, counters, lapsed, robbed,
                   signalled>>

Create(a) ==
    /\ Up(a) /\ step[a] = "opening"
    /\ file = None /\ used < MaxIds
    /\ used' = used + 1
    /\ file' = used' /\ owner' = [owner EXCEPT ![used'] = ProcOf[a]]
    /\ mine' = [mine EXCEPT ![a] = used']
    /\ Enter(a, "writing")
    /\ UNCHANGED <<run, cleaning, written, old, held, overdue, seen, forced, interrupts,
                   overruns, ioErrors, lapsed, robbed, signalled>>

Exists(a) ==
    /\ Up(a) /\ step[a] = "opening" /\ file # None
    /\ Enter(a, "reading")
    /\ UNCHANGED <<run, cleaning, disk, held, overdue, mine, seen, forced, counters,
                   lapsed, robbed, signalled>>

\* The payload goes to the file that was opened, wherever its name is by now, and the
\* entry of HELD_LOCKS is set whatever it was.
Write(a) ==
    /\ Up(a) /\ step[a] = "writing"
    /\ written' = written \cup {mine[a]}
    /\ held' = [held EXCEPT ![ProcOf[a]] = [id |-> mine[a], count |-> 1]]
    /\ Enter(a, "holding")
    /\ robbed' = robbed \cup ({held[ProcOf[a]].id} \ {None})
    /\ UNCHANGED <<run, cleaning, file, owner, old, overdue, mine, seen, forced,
                   counters, lapsed, signalled>>

WriteFails(a) ==
    /\ Up(a) /\ step[a] = "writing"
    /\ ioErrors < MaxIoErrors /\ ioErrors' = ioErrors + 1
    /\ Rm(mine[a])
    /\ Enter(a, "over")
    /\ UNCHANGED <<run, cleaning, held, overdue, mine, seen, forced, used, interrupts,
                   overruns, lapsed, signalled>>

\* Mutant: a file without a payload is stale at once.
ReadUnwrittenIsStale(a) ==
    /\ Up(a) /\ step[a] = "reading"
    /\ Inspected(a, IF file \notin written \/ OwnerDead(file) \/ file \in old
                    THEN "removing" ELSE "opening")
    /\ UNCHANGED <<run, cleaning, disk, held, overdue, mine, forced, counters, lapsed,
                   robbed, signalled>>

\* Someone else's file: a dead owner or an old payload makes it stale; a missing
\* payload leaves the decision to the age of the file.
Read(a) ==
    /\ Up(a) /\ step[a] = "reading"
    /\ Inspected(a, IF file \notin written THEN "checking"
                    ELSE IF OwnerDead(file) \/ file \in old THEN "removing" ELSE "opening")
    /\ UNCHANGED <<run, cleaning, disk, held, overdue, mine, forced, counters, lapsed,
                   robbed, signalled>>

\* Mutant: a file without a payload is never stale.
CheckAgeNever(a) ==
    /\ Up(a) /\ step[a] = "checking"
    /\ Enter(a, "opening")
    /\ UNCHANGED <<run, cleaning, disk, held, overdue, mine, seen, forced, counters,
                   lapsed, robbed, signalled>>

CheckAge(a) ==
    /\ Up(a) /\ step[a] = "checking"
    /\ Inspected(a, IF file \in old THEN "removing" ELSE "opening")
    /\ UNCHANGED <<run, cleaning, disk, held, overdue, mine, forced, counters, lapsed,
                   robbed, signalled>>

\* The file is removed without a further look at it.
Remove(a) ==
    /\ Up(a) /\ step[a] = "removing"
    /\ Rm(seen[a])
    /\ Inspected(a, "opening")
    /\ UNCHANGED <<run, cleaning, held, overdue, mine, forced, counters, lapsed, signalled>>

\* The wait is over after timeoutMs.
GiveUp(a) ==
    /\ Up(a) /\ step[a] = "opening"
    /\ Enter(a, "over")
    /\ UNCHANGED <<run, cleaning, disk, held, overdue, mine, seen, forced, counters,
                   lapsed, robbed, signalled>>

-----------------------------------------------------------------------------
(* releaseHeldLock, by the holder and by the watchdog. *)

\* Mutant: the first holder to release takes the lock from the others.
ReleaseAtOnce(a) ==
    /\ Up(a) /\ step[a] = "holding"
    /\ LET p == ProcOf[a]
       IN  IF held[p].id # mine[a]
           THEN Enter(a, "over") /\ UNCHANGED held
           ELSE Enter(a, "unlinking") /\ held' = [held EXCEPT ![p] = NotHeld]
    /\ UNCHANGED <<run, cleaning, disk, overdue, mine, seen, forced, counters, lapsed,
                   robbed, signalled>>

Release(a) ==
    /\ Up(a) /\ step[a] = "holding"
    /\ LET p == ProcOf[a]
       IN  IF held[p].id # mine[a]
           THEN Enter(a, "over") /\ UNCHANGED held
           ELSE IF held[p].count > 1
           THEN Enter(a, "over") /\ held' = [held EXCEPT ![p].count = @ - 1]
           ELSE Enter(a, "unlinking") /\ held' = [held EXCEPT ![p] = NotHeld]
    /\ UNCHANGED <<run, cleaning, disk, overdue, mine, seen, forced, counters, lapsed,
                   robbed, signalled>>

Unlink(a) ==
    /\ Up(a) /\ step[a] = "unlinking"
    /\ Rm(mine[a])
    /\ Enter(a, "over")
    /\ UNCHANGED <<run, cleaning, held, overdue, mine, seen, forced, counters, lapsed,
                   signalled>>

\* The holder goes on writing; its own release will find another entry, or none.
Watchdog(p) ==
    /\ run[p] = "up" /\ forced[p] = None
    /\ held[p].id \in overdue
    /\ held' = [held EXCEPT ![p] = NotHeld]
    /\ forced' = [forced EXCEPT ![p] = held[p].id]
    /\ UNCHANGED <<run, cleaning, disk, overdue, step, mine, seen, counters, lapsed,
                   robbed, signalled>>

WatchdogUnlink(p) ==
    /\ run[p] = "up" /\ forced[p] # None
    /\ Rm(forced[p])
    /\ forced' = [forced EXCEPT ![p] = None]
    /\ UNCHANGED <<run, cleaning, held, overdue, step, mine, seen, counters, lapsed,
                   signalled>>

-----------------------------------------------------------------------------
(* Time. *)

\* A hold outlasts its maxHoldMs.
Overrun(p) ==
    /\ held[p] # NotHeld /\ held[p].id \notin overdue
    /\ overruns < MaxOverruns /\ overruns' = overruns + 1
    /\ overdue' = overdue \cup {held[p].id} /\ lapsed' = lapsed \cup {held[p].id}
    /\ UNCHANGED <<run, cleaning, disk, held, step, mine, seen, forced, used, interrupts,
                   ioErrors, robbed, signalled>>

\* A file outlasts staleMs: one that is left over does so sooner or later.
Age ==
    /\ file # None /\ file \notin old
    /\ old' = old \cup {file}
    /\ IF OwnerDead(file) THEN UNCHANGED <<overruns, lapsed>>
       ELSE /\ overruns < MaxOverruns /\ overruns' = overruns + 1
            /\ lapsed' = lapsed \cup {file}
    /\ UNCHANGED <<run, cleaning, file, owner, written, held, overdue, step, mine, seen,
                   forced, used, interrupts, ioErrors, robbed, signalled>>

-----------------------------------------------------------------------------
(* Processes. *)

\* A process starts, or a gateway restarts in place.  A gateway begins to serve and
\* inspects the lock files meanwhile.
StartProc(p) ==
    /\ \/ run[p] = "off"
       \/ run[p] = "up" /\ p \in Gateways \ cleaning
    /\ run' = [run EXCEPT ![p] = "up"]
    /\ cleaning' = cleaning \cup ({p} \cap Gateways)
    /\ UNCHANGED <<disk, held, overdue, step, mine, seen, forced, counters, lapsed, robbed,
                   signalled>>

Stale(i) == i # None /\ (i \notin written \/ OwnerDead(i) \/ i \in old)

\* cleanStaleLockFiles reads a file, with no regard to the age of one without payload.
CleanRead(p) ==
    /\ p \in cleaning /\ seen[p] = None
    /\ IF Stale(file)
       THEN seen' = [seen EXCEPT ![p] = file] /\ UNCHANGED cleaning
       ELSE cleaning' = cleaning \ {p} /\ UNCHANGED seen
    /\ robbed' = IF file # None /\ file \notin written /\ ~OwnerDead(file)
                 THEN robbed \cup {file} ELSE robbed
    /\ UNCHANGED <<run, disk, held, overdue, step, mine, forced, counters, lapsed,
                   signalled>>

CleanRemove(p) ==
    /\ p \in cleaning /\ seen[p] # None
    /\ Rm(seen[p])
    /\ cleaning' = cleaning \ {p}
    /\ seen' = [seen EXCEPT ![p] = None]
    /\ UNCHANGED <<run, held, overdue, step, mine, forced, counters, lapsed, signalled>>

Dead(p) ==
    /\ run' = [run EXCEPT ![p] = "dead"]
    /\ cleaning' = cleaning \ {p}
    /\ held' = [held EXCEPT ![p] = NotHeld]
    /\ forced' = [forced EXCEPT ![p] = None]
    /\ step' = [a \in Actors |-> IF ProcOf[a] = p THEN "dead" ELSE step[a]]
    /\ UNCHANGED <<overdue, mine, seen, lapsed, signalled>>

Crash(p) ==
    /\ run[p] = "up"
    /\ interrupts < MaxInterrupts /\ interrupts' = interrupts + 1
    /\ Dead(p)
    /\ UNCHANGED <<disk, used, overruns, ioErrors, robbed>>

\* releaseAllLocksSync when the process exits, or is the only listener of the signal
\* that releases its locks and raises it again.
Terminate(p) ==
    /\ run[p] = "up"
    /\ interrupts < MaxInterrupts /\ interrupts' = interrupts + 1
    /\ IF held[p] # NotHeld THEN Rm(held[p].id) ELSE UNCHANGED <<disk, robbed>>
    /\ Dead(p)
    /\ UNCHANGED <<used, overruns, ioErrors>>

\* A signal that has other listeners, such as those of the gateway's run loop: the
\* locks are released, and the process and its holders go on.
Signal(p) ==
    /\ run[p] = "up" /\ held[p] # NotHeld
    /\ interrupts < MaxInterrupts /\ interrupts' = interrupts + 1
    /\ Rm(held[p].id)
    /\ held' = [held EXCEPT ![p] = NotHeld]
    /\ signalled' = signalled \cup {held[p].id}
    /\ UNCHANGED <<run, cleaning, overdue, step, mine, seen, forced, used, overruns,
                   ioErrors, lapsed>>

-----------------------------------------------------------------------------
(* The specification. *)

WaitStep(a) == Create(a) \/ Exists(a) \/ Write(a) \/ Read(a) \/ CheckAge(a) \/ Remove(a)
HoldStep(a) == Release(a) \/ Unlink(a)
CleanStep(p) == CleanRead(p) \/ CleanRemove(p)

LockNext ==
    \/ \E a \in Actors : Acquire(a) \/ WaitStep(a) \/ WriteFails(a) \/ GiveUp(a) \/ HoldStep(a)
    \/ \E p \in Procs : Watchdog(p) \/ WatchdogUnlink(p) \/ Overrun(p) \/ StartProc(p)
                        \/ CleanStep(p) \/ Crash(p) \/ Terminate(p) \/ Signal(p)
    \/ Age

LockSpec == LockInit /\ [][LockNext]_lockVars

\* The event loop goes on in every process, holders release in the end (run/attempt.ts
\* does in a finally), and a left-over file ages.
FairLockSpec ==
    /\ LockSpec
    /\ \A a \in Actors : WF_lockVars(WaitStep(a)) /\ WF_lockVars(HoldStep(a))
    /\ \A p \in Procs : WF_lockVars(CleanStep(p)) /\ WF_lockVars(WatchdogUnlink(p))
    /\ WF_lockVars(Age /\ OwnerDead(file))

-----------------------------------------------------------------------------
(* Properties. *)

LockTypeOK ==
    /\ run \in [Procs -> {"off", "up", "dead"}] /\ cleaning \subseteq Procs
    /\ file \in Ids \cup {None} /\ owner \in [Ids -> Procs]
    /\ written \subseteq Ids /\ old \subseteq Ids /\ overdue \subseteq Ids
    /\ held \in [Procs -> [id : Ids \cup {None}, count : Nat]]
    /\ step \in [Actors -> Steps] /\ mine \in [Actors -> Ids \cup {None}]
    /\ seen \in [Actors \cup Procs -> Ids \cup {None}]
    /\ forced \in [Procs -> Ids \cup {None}]
    /\ used \in 0..MaxIds
    /\ lapsed \subseteq Ids /\ robbed \subseteq Ids /\ signalled \subseteq Ids

Holders == {a \in Actors : step[a] = "holding"}
Excused == lapsed \cup robbed \cup signalled

\* CHANGELOG "enforce single-writer session locks": two holders share one acquisition,
\* so they are of one process, unless one of them outlasted its limits, lost its file to
\* a removal that was meant for another file, or was released by a signal that its
\* process outlived.
SingleWriter ==
    \A a, b \in Holders : mine[a] # mine[b] => {mine[a], mine[b]} \cap Excused # {}

\* Who writes within its limits, and was not released by a signal, holds a lock that its
\* process counts: the count is that of the actors still holding, and the file stays
\* until the last of them releases it.
HoldersAreCounted ==
    /\ \A a \in Holders : mine[a] \notin Excused => held[ProcOf[a]].id = mine[a]
    /\ \A p \in Procs : held[p] # NotHeld =>
          /\ held[p].count =
                Cardinality({a \in Holders : ProcOf[a] = p /\ mine[a] = held[p].id})
          /\ held[p].id \notin Excused => file = held[p].id

\* A crash does not block the session: nobody waits for ever for a file whose owner is
\* dead.
Blocked == file # None /\ OwnerDead(file) /\ \E a \in Actors : step[a] \in Waiting
DeadLocksAreReclaimed == Blocked ~> ~Blocked
=============================================================================
