---------------------------- MODULE DeliveryQueue ----------------------------
(***************************************************************************)
(* The write-ahead queue of outbound deliveries (infra/outbound): an entry *)
(* is written to disk before its message is sent, renamed and unlinked     *)
(* after a success, updated after a failure, and retried by the recovery   *)
(* that every start of the gateway runs in the background.                 *)
(*                                                                         *)
(* The live send of a delivery and the recoveries that retry it are actors *)
(* that interleave between file operations.  A crash ends all of them and  *)
(* leaves the files; an in-process restart starts a further recovery and   *)
(* ends none.  Files of distinct entries are independent, so the reads of  *)
(* one directory scan are a single step here; time is abstract: a backoff  *)
(* has or has not elapsed, a budget is or is not exceeded.                 *)
(***************************************************************************)
EXTENDS Naturals, Sequences, FiniteSets

CONSTANTS
    Deliveries,      \* calls of deliverOutboundPayloads
    BestEffort,      \* those with bestEffort: errors of payloads do not throw
    WithOnError,     \* those whose caller passes onError
    MaxRetries,      \* MAX_RETRIES
    MaxSends,        \* BOUND: calls that are made
    MaxRecoveries,   \* BOUND: recoveries at a time
    MaxOverlaps,     \* BOUND: recoveries started while another still runs
    MaxCrashes,      \* BOUND: crashes
    MaxIoErrors,     \* BOUND: file operations that fail
    MaxBudgetHits    \* BOUND: recoveries that run out of time

ASSUME DeliveryAssumption ==
    /\ IsFiniteSet(Deliveries)
    /\ BestEffort \subseteq Deliveries /\ WithOnError \subseteq Deliveries
    /\ MaxRetries \in Nat \ {0} /\ MaxRecoveries \in Nat \ {0}
    /\ {MaxSends, MaxOverlaps, MaxCrashes, MaxIoErrors, MaxBudgetHits} \subseteq Nat

Live == 0
Recoveries == 1..MaxRecoveries
Actors == {Live} \cup Recoveries

VARIABLES
    up,            \* the gateway process runs
    stored,        \* the deliveries d with a file d.json
    retryCount,    \* retryCount[d]: the field of that file, 0 if there is none
    marked,        \* the deliveries d with a file d.delivered
    failedDir,     \* the deliveries d with a file failed/d.json
    order,         \* the written deliveries by their enqueuedAt field
    phase,         \* phase[a][d]: what actor a does about delivery d
    read,          \* read[a][d]: the retryCount that a's failDelivery read
    running,       \* running[r]: how far recovery r is
    pending,       \* pending[r]: the entries it has loaded and not yet taken
    overlaps, crashes, ioErrors, budgetHits,  \* counters of the bounds
    delivered,     \* HISTORY: some send reported success
    twice,         \* HISTORY: two sends did
    withdrawn,     \* HISTORY: the live send was aborted
    swallowed,     \* HISTORY: a send hid the errors of a best-effort delivery
    excused        \* HISTORY: see DeliveredOnce

disk == <<stored, retryCount, marked, failedDir, order>>
bounds == <<overlaps, crashes, ioErrors, budgetHits>>
outcome == <<delivered, twice, withdrawn, swallowed>>
dqVars == <<up, disk, phase, read, running, pending, bounds, outcome, excused>>

Elems(s) == {s[i] : i \in DOMAIN s}
Written == Elems(order)

Phases == {"idle", "sending", "acking", "unlinking", "failing", "writing",
           "moving", "over"}
Calls == {"sending", "acking", "unlinking", "failing", "writing", "moving"}
InFlight(a, d) == phase[a][d] \in Calls

PendingIds(r) == {pending[r][i].id : i \in DOMAIN pending[r]}

\* Types, and the retry counter: only an exceeded budget takes it past the limit,
\* as long as no two actors worked on the entry at once.
DQTypeOK ==
    /\ up \in BOOLEAN
    /\ stored \subseteq Deliveries /\ marked \subseteq Deliveries
    /\ failedDir \subseteq Deliveries
    /\ retryCount \in [Deliveries -> Nat]
    /\ order \in Seq(Deliveries)
    /\ phase \in [Actors -> [Deliveries -> Phases]]
    /\ read \in [Actors -> [Deliveries -> Nat]]
    /\ running \in [Recoveries -> {"off", "loading", "loaded", "begun"}]
    /\ pending \in [Recoveries -> Seq([id : Deliveries, retryCount : Nat])]
    /\ \A d \in stored \ excused : retryCount[d] <= MaxRetries + budgetHits

DQInit ==
    /\ up = FALSE
    /\ stored = {} /\ marked = {} /\ failedDir = {}
    /\ retryCount = [d \in Deliveries |-> 0]
    /\ order = <<>>
    /\ phase = [a \in Actors |-> [d \in Deliveries |-> "idle"]]
    /\ read = [a \in Actors |-> [d \in Deliveries |-> 0]]
    /\ running = [r \in Recoveries |-> "off"]
    /\ pending = [r \in Recoveries |-> <<>>]
    /\ overlaps = 0 /\ crashes = 0 /\ ioErrors = 0 /\ budgetHits = 0
    /\ delivered = {} /\ twice = {} /\ withdrawn = {} /\ swallowed = {}
    /\ excused = {}

-----------------------------------------------------------------------------
(* Steps of an actor, live or recovering. *)

Enter(a, d, p) == phase' = [phase EXCEPT ![a][d] = p]

\* A live send is made once, a recovery goes on to its next entry.
Done(a) == IF a = Live THEN "over" ELSE "idle"

\* Without an entry on disk the live send has nothing to update.
After(a, d, p) == IF a = Live /\ d \notin Written THEN "over" ELSE p

IoError ==
    /\ ioErrors < MaxIoErrors
    /\ ioErrors' = ioErrors + 1
    /\ UNCHANGED <<overlaps, crashes, budgetHits>>

\* The head of deliverOutboundPayloads; a failed write does not stop the send.
Enqueue(d) ==
    /\ up
    /\ phase[Live][d] = "idle"
    /\ Cardinality({e \in Deliveries : phase[Live][e] # "idle"}) < MaxSends
    /\ Enter(Live, d, "sending")
    /\ \/ /\ stored' = stored \cup {d}
          /\ retryCount' = [retryCount EXCEPT ![d] = 0]
          /\ order' = Append(order, d)
          /\ UNCHANGED bounds
       \/ /\ IoError
          /\ UNCHANGED <<stored, retryCount, order>>
    /\ UNCHANGED <<up, marked, failedDir, read, running, pending, outcome, excused>>

\* Every payload was sent, or cancelled by a hook.
SendSucceeds(a, d) ==
    /\ phase[a][d] = "sending"
    /\ Enter(a, d, After(a, d, "acking"))
    /\ delivered' = delivered \cup {d}
    /\ twice' = IF d \in delivered THEN twice \cup {d} ELSE twice
    /\ UNCHANGED <<up, disk, read, running, pending, bounds, withdrawn, swallowed,
                   excused>>

\* The abort of a live send is thrown; of a best-effort one it is just an error.
SendAborts(d) ==
    /\ phase[Live][d] = "sending"
    /\ d \notin BestEffort
    /\ Enter(Live, d, After(Live, d, "acking"))
    /\ withdrawn' = withdrawn \cup {d}
    /\ UNCHANGED <<up, disk, read, running, pending, bounds, delivered, twice,
                   swallowed, excused>>

\* Mutant: an error is acknowledged like a success.
OnErrorAck(a) == {"acking"}

\* The send throws; a recovery gives up at once on an error it knows as permanent.
OnError(a) == IF a = Live THEN {"failing"} ELSE {"failing", "moving"}

SendThrows(a, d) ==
    /\ phase[a][d] = "sending"
    /\ \E p \in OnError(a) : Enter(a, d, After(a, d, p))
    /\ UNCHANGED <<up, disk, read, running, pending, bounds, outcome, excused>>

\* Payloads of a best-effort delivery fail and the send returns.  Only a live
\* caller's onError notices.
SendHidesErrors(a, d) ==
    /\ phase[a][d] = "sending"
    /\ d \in BestEffort
    /\ \/ /\ a = Live /\ d \in WithOnError
          /\ Enter(a, d, After(a, d, "failing"))
          /\ UNCHANGED swallowed
       \/ /\ ~(a = Live /\ d \in WithOnError)
          /\ Enter(a, d, After(a, d, "acking"))
          /\ swallowed' = swallowed \cup {d}
    /\ UNCHANGED <<up, disk, read, running, pending, bounds, delivered, twice,
                   withdrawn, excused>>

\* Mutant: the entry is copied to its marker.
FilesAfterRenameCopy(files, d) == files

FilesAfterRename(files, d) == files \ {d}

\* ackDelivery, phase 1.  The error of a failed rename is dropped by the live send
\* and taken for a failed delivery by a recovery.
AckRenames(a, d) ==
    /\ phase[a][d] = "acking"
    /\ \/ /\ d \in stored
          /\ stored' = FilesAfterRename(stored, d)
          /\ retryCount' = [retryCount EXCEPT ![d] = 0]
          /\ marked' = marked \cup {d}
          /\ Enter(a, d, "unlinking")
          /\ UNCHANGED <<bounds, excused>>
       \/ /\ d \notin stored
          /\ marked' = marked \ {d}
          /\ Enter(a, d, Done(a))
          /\ UNCHANGED <<stored, retryCount, bounds, excused>>
       \/ /\ d \in stored
          /\ IoError
          /\ Enter(a, d, IF a = Live THEN "over" ELSE "failing")
          /\ excused' = excused \cup {d}
          /\ UNCHANGED <<stored, retryCount, marked>>
    /\ UNCHANGED <<up, failedDir, order, read, running, pending, outcome>>

\* ackDelivery, phase 2.
AckUnlinks(a, d) ==
    /\ phase[a][d] = "unlinking"
    /\ Enter(a, d, Done(a))
    /\ \/ marked' = marked \ {d} /\ UNCHANGED bounds
       \/ IoError /\ UNCHANGED marked
    /\ UNCHANGED <<up, stored, retryCount, failedDir, order, read, running, pending,
                   outcome, excused>>

\* failDelivery reads the entry; its errors are dropped by every caller.
FailReads(a, d) ==
    /\ phase[a][d] = "failing"
    /\ \/ /\ d \in stored
          /\ read' = [read EXCEPT ![a][d] = retryCount[d]]
          /\ Enter(a, d, "writing")
          /\ UNCHANGED bounds
       \/ /\ d \notin stored
          /\ Enter(a, d, Done(a))
          /\ UNCHANGED <<read, bounds>>
       \/ /\ IoError
          /\ Enter(a, d, Done(a))
          /\ UNCHANGED read
    /\ UNCHANGED <<up, disk, running, pending, outcome, excused>>

\* Mutant: the attempt is not counted.
NotCounted(n) == n

Counted(n) == n + 1

\* failDelivery writes the file, whether or not it is still there.
FailWrites(a, d) ==
    /\ phase[a][d] = "writing"
    /\ Enter(a, d, Done(a))
    /\ \/ /\ stored' = stored \cup {d}
          /\ retryCount' = [retryCount EXCEPT ![d] = Counted(read[a][d])]
          /\ UNCHANGED bounds
       \/ /\ IoError
          /\ UNCHANGED <<stored, retryCount>>
    /\ read' = [read EXCEPT ![a][d] = 0]
    /\ UNCHANGED <<up, marked, failedDir, order, running, pending, outcome, excused>>

\* Mutant: the entry is copied to failed/.
FilesAfterMoveCopy(files, d) == files

FilesAfterMove(files, d) == files \ {d}

MovesToFailed(a, d) ==
    /\ phase[a][d] = "moving"
    /\ Enter(a, d, Done(a))
    /\ \/ /\ d \in stored
          /\ stored' = FilesAfterMove(stored, d)
          /\ retryCount' = [retryCount EXCEPT ![d] = 0]
          /\ failedDir' = failedDir \cup {d}
          /\ UNCHANGED bounds
       \/ /\ d \notin stored
          /\ UNCHANGED <<stored, retryCount, failedDir, bounds>>
       \/ /\ IoError
          /\ UNCHANGED <<stored, retryCount, failedDir>>
    /\ UNCHANGED <<up, marked, order, read, running, pending, outcome,
                   excused>>

CallReturns(a, d) ==
    \/ SendSucceeds(a, d)
    \/ SendThrows(a, d)
    \/ SendHidesErrors(a, d)
    \/ AckRenames(a, d)
    \/ AckUnlinks(a, d)
    \/ FailReads(a, d)
    \/ FailWrites(a, d)
    \/ MovesToFailed(a, d)

-----------------------------------------------------------------------------
(* The recovery. *)

\* Another actor is at work on d or will be.
Contended(r, d) ==
    \/ \E a \in Actors : InFlight(a, d)
    \/ \E p \in Recoveries \ {r} : d \in PendingIds(p)

Earlier(d, e) == \E i, j \in DOMAIN order : i < j /\ order[i] = d /\ order[j] = e

\* The sort by enqueuedAt of the entries S.
Sorted(S) ==
    {ids \in [1..Cardinality(S) -> S] :
       \A i, j \in 1..Cardinality(S) : i < j => Earlier(ids[i], ids[j])}

\* loadPendingDeliveries, and the sort.  Entries that cannot be read are skipped.
Load(r) ==
    /\ running[r] = "loading"
    /\ running' = [running EXCEPT ![r] = "loaded"]
    /\ marked' = {}
    /\ \E skipped \in SUBSET stored : \E ids \in Sorted(stored \ skipped) :
         /\ \/ skipped = {} /\ UNCHANGED bounds
            \/ skipped # {} /\ IoError
         /\ pending' = [pending EXCEPT ![r] =
                          [i \in DOMAIN ids |->
                             [id |-> ids[i], retryCount |-> retryCount[ids[i]]]]]
         /\ excused' = excused \cup {d \in stored \ skipped : Contended(r, d)}
    /\ UNCHANGED <<up, stored, retryCount, failedDir, order, phase, read, outcome>>

Between(r) == \A d \in Deliveries : ~InFlight(r, d)

\* The loop of recoverPendingDeliveries reaches its next entry.
Reaches(r, d) ==
    /\ running[r] \in {"loaded", "begun"}
    /\ Between(r)
    /\ pending[r] # <<>>
    /\ Head(pending[r]).id = d
    /\ pending' = [pending EXCEPT ![r] = Tail(@)]
    /\ running' = [running EXCEPT ![r] = "begun"]
    /\ UNCHANGED <<up, disk, read, bounds, outcome, excused>>

\* Mutant: one attempt too many.
ExhaustedLate(n) == n > MaxRetries

Exhausted(n) == n >= MaxRetries

GivesUp(r, d) ==
    /\ Reaches(r, d)
    /\ Exhausted(Head(pending[r]).retryCount)
    /\ Enter(r, d, "moving")

Retries(r, d) ==
    /\ Reaches(r, d)
    /\ ~Exhausted(Head(pending[r]).retryCount)
    /\ Enter(r, d, "sending")

\* The backoff has not elapsed; it applies from the first recorded attempt on.
Defers(r, d) ==
    /\ Reaches(r, d)
    /\ ~Exhausted(Head(pending[r]).retryCount)
    /\ Head(pending[r]).retryCount > 0
    /\ UNCHANGED phase

\* The time budget is exceeded: the rest is failed, all at once.
BudgetExceeded(r) ==
    /\ running[r] = "begun"
    /\ Between(r)
    /\ pending[r] # <<>>
    /\ budgetHits < MaxBudgetHits
    /\ budgetHits' = budgetHits + 1
    /\ phase' = [phase EXCEPT ![r] =
                   [d \in Deliveries |-> IF d \in PendingIds(r) THEN "failing"
                                         ELSE @[d]]]
    /\ pending' = [pending EXCEPT ![r] = <<>>]
    /\ UNCHANGED <<up, disk, read, running, overlaps, crashes, ioErrors, outcome,
                   excused>>

RecoveryEnds(r) ==
    /\ running[r] \in {"loaded", "begun"}
    /\ Between(r)
    /\ pending[r] = <<>>
    /\ running' = [running EXCEPT ![r] = "off"]
    /\ UNCHANGED <<up, disk, phase, read, pending, bounds, outcome, excused>>

RecoveryStep(r) ==
    \/ Load(r)
    \/ \E d \in Deliveries : GivesUp(r, d) \/ Retries(r, d) \/ Defers(r, d)
    \/ BudgetExceeded(r)
    \/ RecoveryEnds(r)

-----------------------------------------------------------------------------
(* The process. *)

\* The process dies: a call that was made is never made again by the caller.
Crash ==
    /\ up
    /\ crashes < MaxCrashes
    /\ crashes' = crashes + 1
    /\ up' = FALSE
    /\ excused' = excused \cup {d \in Deliveries :
                                  \E a \in Actors : phase[a][d] = "acking"}
    /\ phase' = [a \in Actors |-> [d \in Deliveries |->
                   IF phase[a][d] = "idle" THEN "idle" ELSE Done(a)]]
    /\ read' = [a \in Actors |-> [d \in Deliveries |-> 0]]
    /\ running' = [r \in Recoveries |-> "off"]
    /\ pending' = [r \in Recoveries |-> <<>>]
    /\ UNCHANGED <<disk, overlaps, ioErrors, budgetHits, outcome>>

\* Every start of the gateway starts a recovery: of a fresh process ...
Boot ==
    /\ ~up
    /\ up' = TRUE
    /\ running' = [running EXCEPT ![1] = "loading"]
    /\ UNCHANGED <<disk, phase, read, pending, bounds, outcome, excused>>

\* ... and an in-process restart, which does not stop the recovery that runs.
RestartInProcess ==
    /\ up
    /\ \E r \in Recoveries :
         /\ running[r] = "off" /\ \A q \in 1..(r - 1) : running[q] # "off"
         /\ running' = [running EXCEPT ![r] = "loading"]
    /\ \/ /\ \A r \in Recoveries : running[r] = "off"
          /\ UNCHANGED overlaps
       \/ /\ \E r \in Recoveries : running[r] # "off"
          /\ overlaps < MaxOverlaps
          /\ overlaps' = overlaps + 1
    /\ UNCHANGED <<up, disk, phase, read, pending, crashes, ioErrors, budgetHits,
                   outcome, excused>>

DQNext ==
    \/ \E d \in Deliveries : Enqueue(d) \/ SendAborts(d)
    \/ \E a \in Actors, d \in Deliveries : CallReturns(a, d)
    \/ \E r \in Recoveries : RecoveryStep(r)
    \/ Crash
    \/ Boot
    \/ RestartInProcess

DQSpec == DQInit /\ [][DQNext]_dqVars

\* Sends and file operations settle, and backoffs elapse: an entry that comes up for
\* ever is not deferred for ever.  Nothing makes the gateway start again.
DQFairness ==
    /\ \A a \in Actors, d \in Deliveries : WF_dqVars(CallReturns(a, d))
    /\ \A r \in Recoveries : WF_dqVars(RecoveryStep(r))
    /\ \A r \in Recoveries, d \in Deliveries : SF_dqVars(Retries(r, d))

FairDQSpec == DQSpec /\ DQFairness

-----------------------------------------------------------------------------
(* Properties. *)

\* A delivery on disk stays there, over crashes and concurrent recoveries, until
\* some send of it succeeded, it was aborted, its errors were hidden by bestEffort,
\* or it was moved to failed/.
KeepsPromise == INSTANCE DeliveryPromise WITH
    kept <- stored, confirmed <- delivered, released <- withdrawn \cup swallowed,
    setAside <- failedDir
KeptUntilDelivered == KeepsPromise!Promise

\* A delivery is made twice only if a crash or an I/O error came between the success
\* of its send and the rename of its entry, or if a recovery loaded the entry while
\* another actor worked on it.
DeliveredOnce == twice \subseteq excused

\* Under the same proviso a delivery in failed/ is neither retried nor was it made.
FailedIsFinal ==
    \A d \in failedDir \ excused :
      d \notin stored \cup delivered /\ \A a \in Actors : phase[a][d] # "sending"

\* Only a start of the gateway begins a recovery, and a gateway that is not started
\* again keeps the entry of a failed send for ever.
RecoveriesKeepComing == []<><<Boot \/ RestartInProcess>>_dqVars

\* If the gateway is started again and again, and crashes no more, every entry leaves
\* the queue in the end: deferrals, failed attempts, I/O errors and what the crashes
\* before left on disk keep none of them for ever.
EntriesSettle ==
    RecoveriesKeepComing => \A d \in Deliveries : d \in stored ~> d \notin stored

\* CHANGELOG: the queue is there "to prevent lost outbound messages after gateway
\* restarts".  What it was given is sent, withdrawn, worked on, queued or in failed/.
NothingLost ==
    \A d \in Written : \/ d \in stored \cup failedDir \cup delivered \cup withdrawn
                       \/ \E a \in Actors : InFlight(a, d)

\* The start recovers "pending outbound deliveries from previous crash/restart": in a
\* process that did not crash, nothing is sent twice.
NoReplayWithoutCrash == crashes = 0 /\ ioErrors = 0 => twice = {}
=============================================================================
