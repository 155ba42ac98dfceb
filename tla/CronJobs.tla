------------------------------- MODULE CronJobs -------------------------------
(***************************************************************************)
(* The state of a cron job and the pure steps on it (cron/service/jobs.ts  *)
(* and the result handling of timer.ts).  A store is a function from the   *)
(* ids it holds to job records.                                            *)
(*                                                                         *)
(* Time is counted in units of the shortest backoff, from 1; 0 stands for  *)
(* an undefined time.  A recurring job is a cron schedule with a slot at   *)
(* every multiple of Period; schedules of kind "every", staggering and     *)
(* expressions that croner rejects are left out.                           *)
(***************************************************************************)
EXTENDS Integers

CONSTANTS
    Jobs,           \* job ids, each used once
    OneShots,       \* those with a schedule of kind "at"; the others recur
    Kept,           \* one-shots with deleteAfterRun = FALSE
    Period,         \* distance of the slots of a recurring job
    StuckAfter,     \* STUCK_RUN_MS
    MaxTransient,   \* maxAttempts of the retries of a one-shot
    LongestBackoff  \* the last entry of the backoff schedule 1, 2, ...

ASSUME CronJobAssumption ==
    /\ OneShots \subseteq Jobs /\ Kept \subseteq OneShots
    /\ Period \in Nat \ {0} /\ LongestBackoff \in Nat \ {0}
    /\ StuckAfter \in Nat /\ MaxTransient \in Nat

Undefined == 0

Statuses == {"none", "ok", "skipped", "error"}
Outcomes == {"ok", "skipped", "transient", "permanent"}
Failures == {"transient", "permanent"}

Job == [enabled : BOOLEAN, at : Nat, next : Nat, runningAt : Nat,
        lastRun : Nat, status : Statuses, errors : Nat]

NextSlot(t) == (t \div Period + 1) * Period
PreviousSlot(t) == ((t - 1) \div Period) * Period

Backoff(n) == IF n < LongestBackoff THEN n ELSE LongestBackoff

\* A one-shot stays due until it succeeds; a later time than its last run re-arms it.
ComputeNext(j, r, t) ==
    IF ~r.enabled THEN Undefined
    ELSE IF j \notin OneShots THEN NextSlot(t)
    ELSE IF r.status = "ok" /\ r.at <= r.lastRun THEN Undefined
    ELSE r.at

IsDue(r, t) == r.enabled /\ r.next # Undefined /\ r.next <= t

Scheduled(r) == r.enabled /\ r.next # Undefined

-----------------------------------------------------------------------------
(* normalizeJobTickState and the two ways to recompute the next run times. *)

ClearMark(r) == [r EXCEPT !.runningAt = Undefined]

\* A marker so old that its run counts as dead.
Stuck(r, t) == r.runningAt # Undefined /\ t - r.runningAt > StuckAfter

Normalize(r, t) ==
    IF ~r.enabled THEN [ClearMark(r) EXCEPT !.next = Undefined]
    ELSE IF Stuck(r, t) THEN ClearMark(r)
    ELSE r

Recompute(j, r, t) == [r EXCEPT !.next = ComputeNext(j, r, t)]

RecomputeNextRuns(st, t) ==
    [j \in DOMAIN st |->
        LET r == Normalize(st[j], t)
        IN  IF r.enabled /\ r.next <= t THEN Recompute(j, r, t) ELSE r]

\* The slot that is due was already executed.
AlreadyExecuted(r) == r.lastRun # Undefined /\ r.lastRun >= r.next

\* Mutant: a due slot is recomputed whether it was executed or not.
MaintenanceOfAllDue(st, t, recomputeExpired) ==
    [j \in DOMAIN st |->
        LET r == Normalize(st[j], t)
            expired == recomputeExpired /\ r.next <= t /\ r.runningAt = Undefined
        IN  IF r.enabled /\ (r.next = Undefined \/ expired)
            THEN Recompute(j, r, t) ELSE r]

Maintenance(st, t, recomputeExpired) ==
    [j \in DOMAIN st |->
        LET r == Normalize(st[j], t)
            expired == /\ recomputeExpired /\ r.next <= t
                       /\ r.runningAt = Undefined /\ AlreadyExecuted(r)
        IN  IF r.enabled /\ (r.next = Undefined \/ expired)
            THEN Recompute(j, r, t) ELSE r]

-----------------------------------------------------------------------------
(* Which jobs a tick and the catch-up of a start run. *)

Runnable(r, t) == IsDue(r, t) /\ r.runningAt = Undefined

BackoffPending(r, t) ==
    r.status = "error" /\ r.lastRun # Undefined /\ t < r.lastRun + Backoff(r.errors)

\* At a start a one-shot that has run is due only as a retry, and a cron job also
\* when a slot after its last run was missed.
RunnableAtStart(j, r, t) ==
    /\ r.enabled /\ r.runningAt = Undefined
    /\ IF j \in OneShots /\ r.status # "none"
       THEN r.status = "error" /\ r.next > r.lastRun /\ r.next <= t
       ELSE \/ IsDue(r, t)
            \/ /\ j \notin OneShots
               /\ ~(r.next > t /\ BackoffPending(r, t))
               /\ r.lastRun # Undefined /\ PreviousSlot(t) > r.lastRun

-----------------------------------------------------------------------------
(* applyJobResult *)

Later(a, b) == IF a > b THEN a ELSE b

\* Mutant: the marker stays.
FinishedStillMarked(r, res) ==
    [r EXCEPT
        !.lastRun = res.started,
        !.status = IF res.outcome \in Failures THEN "error" ELSE res.outcome,
        !.errors = IF res.outcome \in Failures THEN r.errors + 1 ELSE 0]

\* Mutant: the outcome itself is recorded.
FinishedUnmapped(r, res) ==
    [ClearMark(r) EXCEPT
        !.lastRun = res.started,
        !.status = res.outcome,
        !.errors = IF res.outcome \in Failures THEN r.errors + 1 ELSE 0]

Finished(r, res) ==
    [ClearMark(r) EXCEPT
        !.lastRun = res.started,
        !.status = IF res.outcome \in Failures THEN "error" ELSE res.outcome,
        !.errors = IF res.outcome \in Failures THEN r.errors + 1 ELSE 0]

Retires(j, res) == j \in OneShots \ Kept /\ res.outcome = "ok"

ApplyOneShot(r, res) ==
    IF res.outcome = "transient" /\ r.errors <= MaxTransient
    THEN [r EXCEPT !.next = res.ended + Backoff(r.errors)]
    ELSE [r EXCEPT !.enabled = FALSE, !.next = Undefined]

ApplyRecurring(j, r, res) ==
    LET natural == ComputeNext(j, r, res.ended)
    IN  [r EXCEPT !.next =
            IF r.enabled /\ res.outcome \in Failures
            THEN Later(natural, res.ended + Backoff(r.errors))
            ELSE natural]

ApplyJobResult(r, res) ==
    LET f == Finished(r, res)
    IN  IF res.job \in OneShots THEN ApplyOneShot(f, res) ELSE ApplyRecurring(res.job, f, res)

\* The results of a batch, at most one a job; results of removed jobs are dropped.
ApplyOutcomes(st, results) ==
    LET Of(j) == {res \in results : res.job = j}
    IN  [j \in {i \in DOMAIN st : \A res \in Of(i) : ~Retires(i, res)} |->
            IF Of(j) = {} THEN st[j]
            ELSE ApplyJobResult(st[j], CHOOSE res \in Of(j) : TRUE)]
=============================================================================
