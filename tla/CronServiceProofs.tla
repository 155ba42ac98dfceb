-------------------------- MODULE CronServiceProofs --------------------------
(* The cron service keeps its timer armed, its markers in step with its runs, *)
(* and the slots that are due, for every number of jobs, runs, edits and      *)
(* restarts.                                                                  *)
EXTENDS CronService, TLAPS

IsStore(st) == DOMAIN st \subseteq Jobs /\ \A j \in DOMAIN st : st[j] \in Job

\* A run time that is not behind the last run is one that a recomputation finds again.
Sane(j, r) ==
    r.enabled /\ r.next <= r.lastRun => j \in OneShots /\ r.next = ComputeNext(j, r, 0)

Sound(st, t) ==
    IsStore(st) /\ \A j \in DOMAIN st : Sane(j, st[j]) /\ st[j].lastRun <= t

-----------------------------------------------------------------------------
(* Records of jobs. *)

LEMMA SlotFacts == ASSUME NEW t \in Nat PROVE NextSlot(t) \in Nat /\ NextSlot(t) > t
<1>1. ASSUME NEW p \in Nat \ {0}
      PROVE  (t \div p + 1) * p \in Nat /\ (t \div p + 1) * p > t
  OBVIOUS
<1> QED BY <1>1, CronJobAssumption DEF NextSlot

LEMMA NextFacts ==
  ASSUME NEW j, NEW r \in Job, NEW t \in Nat
  PROVE  /\ ComputeNext(j, r, t) \in Nat
         /\ r.enabled /\ j \notin OneShots => ComputeNext(j, r, t) > t
         /\ j \in OneShots => ComputeNext(j, r, t) = ComputeNext(j, r, 0)
<1>1. r.at \in Nat
  BY DEF Job
<1> QED BY <1>1, SlotFacts DEF ComputeNext, Undefined

\* A recomputed record is sane.
LEMMA RecomputeIsSane ==
  ASSUME NEW j, NEW r \in Job, NEW t \in Nat, r.lastRun <= t
  PROVE  /\ Recompute(j, r, t) \in Job /\ Recompute(j, r, t).enabled = r.enabled
         /\ Recompute(j, r, t).next = ComputeNext(j, r, t)
         /\ Recompute(j, r, t).runningAt = r.runningAt
         /\ Recompute(j, r, t).lastRun = r.lastRun
         /\ Sane(j, Recompute(j, r, t))
<1> DEFINE c == ComputeNext(j, r, t)
           n == Recompute(j, r, t)
<1>1. c \in Nat
  BY NextFacts
<1>2. n = [r EXCEPT !.next = c]
  BY DEF Recompute
<1> HIDE DEF c, n
<1>3. /\ n \in Job /\ n.enabled = r.enabled /\ n.next = c /\ n.runningAt = r.runningAt
      /\ n.lastRun = r.lastRun /\ n.at = r.at /\ n.status = r.status
  BY <1>1, <1>2 DEF Job
<1>4. ComputeNext(j, n, 0) = ComputeNext(j, r, 0)
  BY <1>3 DEF ComputeNext
<1>5. Sane(j, n)
  <2> SUFFICES ASSUME n.enabled, n.next <= n.lastRun
               PROVE  j \in OneShots /\ n.next = ComputeNext(j, n, 0)
    BY DEF Sane
  <2>1. n.lastRun \in Nat /\ c <= t
    BY <1>1, <1>3 DEF Job
  <2>2. j \in OneShots
    <3>1. r.enabled /\ ~(c > t)
      BY <1>1, <1>3, <2>1
    <3> QED BY <3>1, NextFacts DEF c
  <2>3. c = ComputeNext(j, r, 0)
    BY <2>2, NextFacts DEF c
  <2> QED BY <1>3, <1>4, <2>2, <2>3
<1> QED BY <1>3, <1>5 DEF c, n

LEMMA NormalizeFacts ==
  ASSUME NEW r \in Job, NEW t \in Nat
  PROVE  LET n == Normalize(r, t)
         IN  /\ n \in Job /\ n.enabled = r.enabled /\ n.at = r.at
             /\ n.lastRun = r.lastRun /\ n.status = r.status
             /\ r.enabled => n.next = r.next
             /\ n.runningAt \in {Undefined, r.runningAt}
             /\ r.enabled /\ ~Stuck(r, t) => n = r
<1>1. Undefined \in Nat
  BY DEF Undefined
<1>2. CASE ~r.enabled
  <2>1. Normalize(r, t) = [r EXCEPT !.runningAt = Undefined, !.next = Undefined]
    BY <1>2 DEF Normalize, ClearMark
  <2> QED BY <1>1, <1>2, <2>1 DEF Job
<1>3. CASE r.enabled /\ Stuck(r, t)
  <2>1. Normalize(r, t) = [r EXCEPT !.runningAt = Undefined]
    BY <1>3 DEF Normalize, ClearMark, Stuck
  <2> QED BY <1>1, <1>3, <2>1 DEF Job
<1>4. CASE r.enabled /\ ~Stuck(r, t)
  <2>1. Normalize(r, t) = r
    BY <1>4 DEF Normalize, Stuck
  <2> QED BY <1>4, <2>1
<1> QED BY <1>2, <1>3, <1>4

-----------------------------------------------------------------------------
(* The steps on a store. *)

\* n is st after repairs: slots of enabled jobs are kept, and a marker goes only if it is
\* stuck or its job is disabled.
Repaired(st, n, t) ==
    /\ DOMAIN n = DOMAIN st
    /\ \A j \in DOMAIN st :
         /\ n[j].enabled = st[j].enabled
         /\ st[j].enabled => n[j].next = st[j].next
         /\ n[j].runningAt \in {Undefined, st[j].runningAt}
         /\ st[j].enabled /\ ~Stuck(st[j], t) => n[j].runningAt = st[j].runningAt

\* recomputeNextRunsForMaintenance finds nothing to recompute but what it finds again.
LEMMA MaintenanceFacts ==
  ASSUME NEW t \in Nat, NEW st, Sound(st, t), NEW flag \in BOOLEAN
  PROVE  Sound(Maintenance(st, t, flag), t) /\ Repaired(st, Maintenance(st, t, flag), t)
<1> DEFINE n == Maintenance(st, t, flag)
<1>1. DOMAIN n = DOMAIN st
  BY DEF Maintenance
<1>2. ASSUME NEW j \in DOMAIN st
      PROVE  /\ n[j] \in Job /\ Sane(j, n[j]) /\ n[j].lastRun <= t
             /\ n[j].enabled = st[j].enabled
             /\ st[j].enabled => n[j].next = st[j].next
             /\ n[j].runningAt \in {Undefined, st[j].runningAt}
             /\ st[j].enabled /\ ~Stuck(st[j], t) => n[j].runningAt = st[j].runningAt
  <2> DEFINE r == Normalize(st[j], t)
  <2>1. st[j] \in Job /\ Sane(j, st[j]) /\ st[j].lastRun <= t
    BY DEF Sound, IsStore
  <2>2. /\ r \in Job /\ r.enabled = st[j].enabled /\ r.at = st[j].at
        /\ r.lastRun = st[j].lastRun /\ r.status = st[j].status
        /\ st[j].enabled => r.next = st[j].next
        /\ r.runningAt \in {Undefined, st[j].runningAt}
        /\ st[j].enabled /\ ~Stuck(st[j], t) => r = st[j]
    BY <2>1, NormalizeFacts
  <2>3. n[j] = r \/ (n[j] = Recompute(j, r, t) /\ r.enabled /\ r.next <= r.lastRun)
    <3> HIDE DEF r
    <3>1. n[j] = LET expired == /\ flag /\ r.next <= t
                                /\ r.runningAt = Undefined /\ AlreadyExecuted(r)
                 IN  IF r.enabled /\ (r.next = Undefined \/ expired)
                     THEN Recompute(j, r, t) ELSE r
      BY DEF Maintenance, r
    <3>2. r.lastRun \in Nat /\ r.next \in Nat
      BY <2>2 DEF Job
    <3> QED BY <3>1, <3>2 DEF AlreadyExecuted, Undefined
  <2> HIDE DEF r, n
  <2>4. ComputeNext(j, r, 0) = ComputeNext(j, st[j], 0)
    BY <2>2 DEF ComputeNext
  <2>5. CASE n[j] = r
    <3>1. Sane(j, r)
      BY <2>1, <2>2, <2>4 DEF Sane
    <3> QED BY <2>1, <2>2, <2>5, <3>1
  <2>6. CASE n[j] = Recompute(j, r, t) /\ r.enabled /\ r.next <= r.lastRun
    <3>1. /\ n[j] \in Job /\ Sane(j, n[j]) /\ n[j].enabled = r.enabled
          /\ n[j].next = ComputeNext(j, r, t) /\ n[j].runningAt = r.runningAt
          /\ n[j].lastRun = r.lastRun
      <4>1. r \in Job /\ r.lastRun <= t
        BY <2>1, <2>2
      <4> DEFINE c == Recompute(j, r, t)
      <4>2. /\ c \in Job /\ Sane(j, c) /\ c.enabled = r.enabled
            /\ c.next = ComputeNext(j, r, t) /\ c.runningAt = r.runningAt
            /\ c.lastRun = r.lastRun
        BY ONLY <4>1, t \in Nat, RecomputeIsSane
      <4>3. n[j] = c
        BY <2>6
      <4> QED BY ONLY <4>2, <4>3
    <3>2. j \in OneShots /\ st[j].next = ComputeNext(j, st[j], 0)
      BY <2>1, <2>2, <2>6 DEF Sane
    <3>3. n[j].next = st[j].next
      BY <2>2, <2>4, <3>1, <3>2, NextFacts
    <3> QED BY <2>1, <2>2, <3>1, <3>3
  <2> QED BY <2>3, <2>5, <2>6
<1> HIDE DEF n
<1>3. Sound(n, t) /\ Repaired(st, n, t)
  BY <1>1, <1>2 DEF Sound, IsStore, Repaired
<1> QED BY <1>3 DEF n

LEMMA RecomputeFacts ==
  ASSUME NEW t \in Nat, NEW st, Sound(st, t)
  PROVE  LET n == RecomputeNextRuns(st, t)
         IN  /\ Sound(n, t) /\ DOMAIN n = DOMAIN st
             /\ \A j \in DOMAIN st :
                  /\ n[j].enabled = st[j].enabled
                  /\ n[j].runningAt \in {Undefined, st[j].runningAt}
                  /\ st[j].enabled /\ ~Stuck(st[j], t) => n[j].runningAt = st[j].runningAt
<1> DEFINE n == RecomputeNextRuns(st, t)
<1>1. DOMAIN n = DOMAIN st
  BY DEF RecomputeNextRuns
<1>2. ASSUME NEW j \in DOMAIN st
      PROVE  /\ n[j] \in Job /\ Sane(j, n[j]) /\ n[j].lastRun <= t
             /\ n[j].enabled = st[j].enabled
             /\ n[j].runningAt \in {Undefined, st[j].runningAt}
             /\ st[j].enabled /\ ~Stuck(st[j], t) => n[j].runningAt = st[j].runningAt
  <2> DEFINE r == Normalize(st[j], t)
  <2>1. st[j] \in Job /\ Sane(j, st[j]) /\ st[j].lastRun <= t
    BY DEF Sound, IsStore
  <2>2. /\ r \in Job /\ r.enabled = st[j].enabled /\ r.at = st[j].at
        /\ r.lastRun = st[j].lastRun /\ r.status = st[j].status
        /\ st[j].enabled => r.next = st[j].next
        /\ r.runningAt \in {Undefined, st[j].runningAt}
        /\ st[j].enabled /\ ~Stuck(st[j], t) => r = st[j]
    BY <2>1, NormalizeFacts
  <2>3. n[j] = r \/ n[j] = Recompute(j, r, t)
    BY DEF RecomputeNextRuns
  <2> HIDE DEF r, n
  <2>4. ComputeNext(j, r, 0) = ComputeNext(j, st[j], 0)
    BY <2>2 DEF ComputeNext
  <2>5. CASE n[j] = r
    <3>1. Sane(j, r)
      BY <2>1, <2>2, <2>4 DEF Sane
    <3> QED BY <2>1, <2>2, <2>5, <3>1
  <2>6. CASE n[j] = Recompute(j, r, t)
    <3>1. /\ n[j] \in Job /\ Sane(j, n[j]) /\ n[j].enabled = r.enabled
          /\ n[j].runningAt = r.runningAt /\ n[j].lastRun = r.lastRun
      <4>1. r \in Job /\ r.lastRun <= t
        BY <2>1, <2>2
      <4> QED BY <2>6, <4>1, RecomputeIsSane
    <3> QED BY <2>1, <2>2, <3>1
  <2> QED BY <2>3, <2>5, <2>6
<1> HIDE DEF n
<1>3. Sound(n, t)
  BY <1>1, <1>2 DEF Sound, IsStore
<1> QED BY <1>1, <1>2, <1>3 DEF n

JobsOf(xs) == {x.job : x \in xs}

Past(results, t) == \A res \in results : res.started <= res.ended /\ res.ended <= t

LEMMA BackoffFacts == ASSUME NEW n \in Nat \ {0} PROVE Backoff(n) \in Nat \ {0}
BY CronJobAssumption DEF Backoff

LEMMA FinishedFacts ==
  ASSUME NEW r \in Job, NEW res \in Recorded
  PROVE  LET f == Finished(r, res)
         IN  /\ f \in Job /\ f.runningAt = Undefined /\ f.lastRun = res.started
             /\ f.enabled = r.enabled
             /\ res.outcome \in Failures => f.errors \in Nat \ {0}
<1> DEFINE status == IF res.outcome \in Failures THEN "error" ELSE res.outcome
           errors == IF res.outcome \in Failures THEN r.errors + 1 ELSE 0
<1>1. res.started \in Nat /\ res.outcome \in Outcomes
  BY DEF Recorded
<1>2. status \in Statuses
  BY <1>1 DEF Outcomes, Failures, Statuses
<1>3. r.errors \in Nat
  BY DEF Job
<1>4. errors \in Nat /\ (res.outcome \in Failures => errors \in Nat \ {0})
  BY <1>3
<1>5. Finished(r, res) = [r EXCEPT !.runningAt = 0, !.lastRun = res.started,
                                   !.status = status, !.errors = errors]
  BY DEF Finished, ClearMark, Undefined
<1> DEFINE f == Finished(r, res)
<1> HIDE DEF status, errors, f
<1>6. f \in Job /\ f.runningAt = 0 /\ f.lastRun = res.started /\ f.enabled = r.enabled
      /\ f.errors = errors
  <2>1. f = [r EXCEPT !.runningAt = 0, !.lastRun = res.started,
                      !.status = status, !.errors = errors]
    BY <1>5 DEF f
  <2> QED BY <1>1, <1>2, <1>4, <2>1 DEF Job
<1> QED BY <1>4, <1>6 DEF f, Undefined

\* applyJobResult: whatever stays enabled has its next run after the one that ended.
LEMMA ResultFacts ==
  ASSUME NEW r \in Job, NEW res \in Recorded, res.started <= res.ended
  PROVE  LET n == ApplyJobResult(r, res)
         IN  /\ n \in Job /\ n.runningAt = Undefined /\ n.lastRun = res.started
             /\ n.enabled => r.enabled /\ n.next > n.lastRun
             /\ res.job \in OneShots /\ res.outcome = "ok" => ~n.enabled
<1> DEFINE f == Finished(r, res)
           n == ApplyJobResult(r, res)
<1>1. /\ f \in Job /\ f.runningAt = Undefined /\ f.lastRun = res.started
      /\ f.enabled = r.enabled
      /\ res.outcome \in Failures => f.errors \in Nat \ {0}
  BY FinishedFacts
<1>2. res.started \in Nat /\ res.ended \in Nat
  BY DEF Recorded
<1>3. f.errors \in Nat /\ f.enabled \in BOOLEAN
  BY <1>1 DEF Job
<1> HIDE DEF f
<1>4. CASE res.job \in OneShots /\ res.outcome = "transient" /\ f.errors <= MaxTransient
  <2> DEFINE c == res.ended + Backoff(f.errors)
  <2>1. c \in Nat /\ c > res.started
    BY <1>1, <1>2, <1>4, BackoffFacts DEF Failures
  <2>2. n = [f EXCEPT !.next = c]
    BY <1>4 DEF ApplyJobResult, ApplyOneShot, f
  <2> HIDE DEF c, n
  <2>3. /\ n \in Job /\ n.runningAt = Undefined /\ n.lastRun = res.started
        /\ n.enabled = r.enabled /\ n.next = c
    BY <1>1, <2>1, <2>2 DEF Job
  <2>4. n.next > n.lastRun
    BY <2>1, <2>3
  <2> QED BY <1>4, <2>3, <2>4 DEF n
<1>5. CASE res.job \in OneShots /\ ~(res.outcome = "transient" /\ f.errors <= MaxTransient)
  <2>1. n = [f EXCEPT !.enabled = FALSE, !.next = 0]
    BY <1>5 DEF ApplyJobResult, ApplyOneShot, f, Undefined
  <2> HIDE DEF n
  <2>2. n \in Job /\ n.runningAt = Undefined /\ n.lastRun = res.started /\ ~n.enabled
    BY <1>1, <2>1 DEF Job
  <2> QED BY <2>2 DEF n
<1>6. CASE res.job \notin OneShots
  <2> DEFINE natural == ComputeNext(res.job, f, res.ended)
             c == IF f.enabled /\ res.outcome \in Failures
                  THEN Later(natural, res.ended + Backoff(f.errors)) ELSE natural
  <2>1. natural \in Nat /\ (f.enabled => natural > res.ended)
    BY <1>1, <1>2, <1>6, NextFacts
  <2> HIDE DEF natural
  <2>2. c \in Nat /\ (f.enabled => c > res.started)
    <3>1. CASE f.enabled /\ res.outcome \in Failures
      <4> DEFINE b == Backoff(f.errors)
      <4>1. b \in Nat
        BY <1>1, <3>1, BackoffFacts
      <4> HIDE DEF b
      <4>2. c = IF natural > res.ended + b THEN natural ELSE res.ended + b
        BY <3>1 DEF Later, b
      <4> HIDE DEF c
      <4>3. res.ended + b \in Nat /\ natural \in Nat /\ natural > res.started
        BY <1>2, <2>1, <3>1, <4>1
      <4>4. c = natural \/ (c = res.ended + b /\ ~(natural > c))
        BY <4>2
      <4>5. c \in Nat /\ c >= natural
        BY <4>3, <4>4
      <4> QED BY <1>2, <4>3, <4>5
    <3>2. CASE ~(f.enabled /\ res.outcome \in Failures)
      BY <1>2, <2>1, <3>2
    <3> QED BY <3>1, <3>2
  <2>3. n = [f EXCEPT !.next = c]
    BY <1>6 DEF ApplyJobResult, ApplyRecurring, f, natural
  <2> HIDE DEF c, n
  <2>4. /\ n \in Job /\ n.runningAt = Undefined /\ n.lastRun = res.started
        /\ n.enabled = f.enabled /\ n.next = c
    BY <1>1, <2>2, <2>3 DEF Job
  <2> QED BY <1>1, <1>6, <2>2, <2>4 DEF n
<1> QED BY <1>4, <1>5, <1>6

\* What the outcomes of a batch do to a store.
LEMMA OutcomesFacts ==
  ASSUME NEW t \in Nat, NEW st, Sound(st, t), NEW results \in SUBSET Recorded,
         Past(results, t)
  PROVE  LET n == ApplyOutcomes(st, results)
         IN  /\ Sound(n, t) /\ DOMAIN n \subseteq DOMAIN st
             /\ \A j \in DOMAIN st : j \notin JobsOf(results) => j \in DOMAIN n /\ n[j] = st[j]
             /\ \A j \in DOMAIN n : j \in JobsOf(results) =>
                  /\ n[j].runningAt = Undefined
                  /\ n[j].enabled => st[j].enabled /\ n[j].next > n[j].lastRun
             /\ \A res \in results :
                  (/\ res.job \in OneShots /\ res.outcome = "ok" /\ res.job \in DOMAIN n
                   /\ \A other \in results : other.job = res.job => other = res)
                  => ~n[res.job].enabled
<1> DEFINE n == ApplyOutcomes(st, results)
           Of(j) == {res \in results : res.job = j}
<1>1. DOMAIN n = {j \in DOMAIN st : \A res \in Of(j) : ~Retires(j, res)}
  BY DEF ApplyOutcomes
<1>2. ASSUME NEW j \in DOMAIN n, j \notin JobsOf(results) PROVE n[j] = st[j]
  <2>1. Of(j) = {}
    BY <1>2 DEF JobsOf
  <2> QED BY <1>1, <2>1 DEF ApplyOutcomes
<1>3. ASSUME NEW j \in DOMAIN n, j \in JobsOf(results)
      PROVE  \E res \in Of(j) : n[j] = ApplyJobResult(st[j], res)
  <2>1. Of(j) # {}
    BY <1>3 DEF JobsOf
  <2>2. n[j] = ApplyJobResult(st[j], CHOOSE res \in Of(j) : TRUE)
    BY <1>1, <2>1 DEF ApplyOutcomes
  <2>3. (CHOOSE res \in Of(j) : TRUE) \in Of(j)
    BY <2>1
  <2> HIDE DEF n, Of
  <2> QED BY <2>2, <2>3
<1> HIDE DEF n
<1>4. \A j \in DOMAIN st : st[j] \in Job /\ Sane(j, st[j]) /\ st[j].lastRun <= t /\ j \in Jobs
  BY DEF Sound, IsStore
<1>5. ASSUME NEW j \in DOMAIN n, j \in JobsOf(results)
      PROVE  /\ n[j] \in Job /\ Sane(j, n[j]) /\ n[j].lastRun <= t
             /\ n[j].runningAt = Undefined
             /\ n[j].enabled => st[j].enabled /\ n[j].next > n[j].lastRun
             /\ \E res \in Of(j) :
                  res.job \in OneShots /\ res.outcome = "ok" => ~n[j].enabled
  <2>1. PICK res \in Of(j) : n[j] = ApplyJobResult(st[j], res)
    BY <1>3, <1>5
  <2>2. /\ res \in Recorded /\ res.started <= res.ended /\ res.ended <= t
        /\ st[j] \in Job
    BY <1>1, <1>4 DEF Past
  <2>3. res.started \in Nat /\ res.ended \in Nat /\ res.started <= t
    <3>1. res.started \in Nat /\ res.ended \in Nat
      BY <2>2 DEF Recorded
    <3> QED BY <2>2, <3>1
  <2>4. /\ n[j] \in Job /\ n[j].runningAt = Undefined /\ n[j].lastRun = res.started
        /\ n[j].enabled => st[j].enabled /\ n[j].next > n[j].lastRun
        /\ res.job \in OneShots /\ res.outcome = "ok" => ~n[j].enabled
    BY <2>1, <2>2, ResultFacts
  <2>5. Sane(j, n[j])
    <3>1. n[j].next \in Nat /\ n[j].lastRun \in Nat
      BY <2>4 DEF Job
    <3> QED BY <2>4, <3>1 DEF Sane
  <2> QED BY <2>3, <2>4, <2>5
<1>6. ASSUME NEW res \in results, res.job \in OneShots, res.outcome = "ok",
             res.job \in DOMAIN n,
             \A other \in results : other.job = res.job => other = res
      PROVE  ~n[res.job].enabled
  <2>1. res.job \in JobsOf(results)
    BY DEF JobsOf
  <2>2. \A other \in Of(res.job) : other = res
    BY <1>6
  <2> QED BY <1>5, <1>6, <2>1, <2>2
<1>7. \A j \in DOMAIN st : j \notin JobsOf(results) => j \in DOMAIN n
  BY <1>1 DEF JobsOf
<1>8. DOMAIN n \subseteq DOMAIN st
  BY <1>1
<1>9. Sound(n, t)
  <2>1. ASSUME NEW j \in DOMAIN n
        PROVE  n[j] \in Job /\ Sane(j, n[j]) /\ n[j].lastRun <= t /\ j \in Jobs
    BY <1>2, <1>4, <1>5, <1>8
  <2> QED BY <2>1 DEF Sound, IsStore
<1> QED BY <1>2, <1>5, <1>6, <1>7, <1>8, <1>9 DEF n

LEMMA MarkFacts ==
  ASSUME NEW t \in Nat, now \in Nat, NEW st, Sound(st, t), NEW js
  PROVE  LET n == Mark(st, js)
         IN  /\ Sound(n, t) /\ DOMAIN n = DOMAIN st
             /\ \A j \in DOMAIN st :
                  /\ n[j].enabled = st[j].enabled /\ n[j].next = st[j].next
                  /\ n[j].runningAt = IF j \in js THEN now ELSE st[j].runningAt
<1> DEFINE n == Mark(st, js)
<1>1. DOMAIN n = DOMAIN st
  BY DEF Mark
<1>2. ASSUME NEW j \in DOMAIN st
      PROVE  /\ n[j] \in Job /\ Sane(j, n[j]) /\ n[j].lastRun <= t
             /\ n[j].enabled = st[j].enabled /\ n[j].next = st[j].next
             /\ n[j].runningAt = IF j \in js THEN now ELSE st[j].runningAt
  <2>1. st[j] \in Job /\ Sane(j, st[j]) /\ st[j].lastRun <= t
    BY DEF Sound, IsStore
  <2>2. n[j] = IF j \in js THEN [st[j] EXCEPT !.runningAt = now] ELSE st[j]
    BY DEF Mark
  <2> HIDE DEF n
  <2>3. /\ n[j] \in Job /\ n[j].enabled = st[j].enabled /\ n[j].next = st[j].next
        /\ n[j].at = st[j].at /\ n[j].lastRun = st[j].lastRun /\ n[j].status = st[j].status
        /\ n[j].runningAt = IF j \in js THEN now ELSE st[j].runningAt
    BY <2>1, <2>2 DEF Job
  <2>4. Sane(j, n[j])
    BY <2>1, <2>3 DEF Sane, ComputeNext
  <2> QED BY <2>1, <2>3, <2>4
<1> HIDE DEF n
<1>3. Sound(n, t)
  BY <1>1, <1>2 DEF Sound, IsStore
<1> QED BY <1>1, <1>2, <1>3 DEF n

LEMMA ClearFacts ==
  ASSUME NEW t \in Nat, NEW st, Sound(st, t)
  PROVE  LET n == [j \in DOMAIN st |-> ClearMark(st[j])]
         IN  /\ Sound(n, t) /\ DOMAIN n = DOMAIN st
             /\ \A j \in DOMAIN st :
                  /\ n[j].enabled = st[j].enabled /\ n[j].next = st[j].next
                  /\ n[j].runningAt = Undefined
<1> DEFINE n == [j \in DOMAIN st |-> ClearMark(st[j])]
<1>1. ASSUME NEW j \in DOMAIN st
      PROVE  /\ n[j] \in Job /\ Sane(j, n[j]) /\ n[j].lastRun <= t
             /\ n[j].enabled = st[j].enabled /\ n[j].next = st[j].next
             /\ n[j].runningAt = Undefined
  <2>1. st[j] \in Job /\ Sane(j, st[j]) /\ st[j].lastRun <= t
    BY DEF Sound, IsStore
  <2>2. n[j] = [st[j] EXCEPT !.runningAt = 0]
    BY DEF ClearMark, Undefined
  <2> HIDE DEF n
  <2>3. /\ n[j] \in Job /\ n[j].enabled = st[j].enabled /\ n[j].next = st[j].next
        /\ n[j].at = st[j].at /\ n[j].lastRun = st[j].lastRun /\ n[j].status = st[j].status
        /\ n[j].runningAt = Undefined
    BY <2>1, <2>2 DEF Job, Undefined
  <2>4. Sane(j, n[j])
    BY <2>1, <2>3 DEF Sane, ComputeNext
  <2> QED BY <2>1, <2>3, <2>4
<1>2. DOMAIN n = DOMAIN st
  OBVIOUS
<1> HIDE DEF n
<1>3. Sound(n, t)
  BY <1>1, <1>2 DEF Sound, IsStore
<1> QED BY <1>1, <1>2, <1>3 DEF n

\* What was put off at a start is due at the next instant.
LEMMA DeferFacts ==
  ASSUME NEW t \in Nat, NEW st, Sound(st, t), NEW js
  PROVE  LET n == [j \in DOMAIN st |-> IF j \in js /\ st[j].enabled
                                       THEN [st[j] EXCEPT !.next = t + 1] ELSE st[j]]
         IN  /\ Sound(n, t) /\ DOMAIN n = DOMAIN st
             /\ \A j \in DOMAIN st : /\ n[j].enabled = st[j].enabled
                                     /\ n[j].runningAt = st[j].runningAt
<1> DEFINE n == [j \in DOMAIN st |-> IF j \in js /\ st[j].enabled
                                     THEN [st[j] EXCEPT !.next = t + 1] ELSE st[j]]
<1>1. ASSUME NEW j \in DOMAIN st
      PROVE  /\ n[j] \in Job /\ Sane(j, n[j]) /\ n[j].lastRun <= t
             /\ n[j].enabled = st[j].enabled /\ n[j].runningAt = st[j].runningAt
  <2>1. st[j] \in Job /\ Sane(j, st[j]) /\ st[j].lastRun <= t
    BY DEF Sound, IsStore
  <2>2. n[j] = [st[j] EXCEPT !.next = t + 1] \/ n[j] = st[j]
    OBVIOUS
  <2> HIDE DEF n
  <2>3. CASE n[j] = [st[j] EXCEPT !.next = t + 1]
    <3>1. t + 1 \in Nat
      OBVIOUS
    <3>2. /\ n[j] \in Job /\ n[j].next = t + 1 /\ n[j].enabled = st[j].enabled
          /\ n[j].lastRun = st[j].lastRun /\ n[j].runningAt = st[j].runningAt
      BY <2>1, <2>3, <3>1 DEF Job
    <3>3. st[j].lastRun \in Nat
      BY <2>1 DEF Job
    <3>4. ~(n[j].next <= n[j].lastRun)
      BY <2>1, <3>2, <3>3
    <3> QED BY <2>1, <3>2, <3>4 DEF Sane
  <2> QED BY <2>1, <2>2, <2>3
<1>2. DOMAIN n = DOMAIN st
  OBVIOUS
<1> HIDE DEF n
<1>3. Sound(n, t)
  BY <1>1, <1>2 DEF Sound, IsStore
<1> QED BY <1>1, <1>2, <1>3 DEF n

\* mergeManualRunSnapshotAfterReload.
LEMMA MergeFacts ==
  ASSUME NEW t \in Nat, Sound(store, t), NEW st, Sound(st, t),
         NEW res \in Recorded, Past({res}, t), res.job \in DOMAIN st
  PROVE  LET n == MergeManual(res.job, ApplyOutcomes(st, {res}))
         IN  /\ Sound(n, t) /\ DOMAIN n \subseteq DOMAIN store
             /\ \A j \in DOMAIN store : j # res.job => j \in DOMAIN n /\ n[j] = store[j]
             /\ res.job \in DOMAIN n =>
                  /\ n[res.job].runningAt = Undefined
                  /\ n[res.job].enabled => st[res.job].enabled
                  /\ res.job \in OneShots /\ res.outcome = "ok" => ~n[res.job].enabled
<1> DEFINE a == ApplyOutcomes(st, {res})
           n == MergeManual(res.job, a)
           i == res.job
<1>1. /\ DOMAIN a \subseteq DOMAIN st
      /\ i \in DOMAIN a => /\ a[i] \in Job /\ a[i].lastRun <= t
                           /\ a[i].runningAt = Undefined
                           /\ a[i].enabled => st[i].enabled /\ a[i].next > a[i].lastRun
                           /\ i \in OneShots /\ res.outcome = "ok" => ~a[i].enabled
  <2>1. JobsOf({res}) = {i} /\ {res} \in SUBSET Recorded
    BY DEF JobsOf
  <2> HIDE DEF i
  <2>2. /\ Sound(a, t) /\ DOMAIN a \subseteq DOMAIN st
        /\ \A j \in DOMAIN a : j \in JobsOf({res}) =>
                  /\ a[j].runningAt = Undefined
                  /\ a[j].enabled => st[j].enabled /\ a[j].next > a[j].lastRun
        /\ \A x \in {res} :
                  (/\ x.job \in OneShots /\ x.outcome = "ok" /\ x.job \in DOMAIN a
                   /\ \A other \in {res} : other.job = x.job => other = x)
                  => ~a[x.job].enabled
    BY <2>1, OutcomesFacts
  <2> HIDE DEF a
  <2>3. \A j \in DOMAIN a : a[j] \in Job /\ a[j].lastRun <= t
    BY <2>2 DEF Sound, IsStore
  <2> QED BY <2>1, <2>2, <2>3 DEF i
<1>2. \A j \in DOMAIN store :
         store[j] \in Job /\ Sane(j, store[j]) /\ store[j].lastRun <= t /\ j \in Jobs
  BY DEF Sound, IsStore
<1> HIDE DEF a
<1>3. /\ DOMAIN n \subseteq DOMAIN store /\ (i \in DOMAIN n => i \in DOMAIN a)
      /\ \A j \in DOMAIN store : j # i => j \in DOMAIN n /\ n[j] = store[j]
      /\ i \in DOMAIN n => n[i] = [a[i] EXCEPT !.at = store[i].at]
  BY DEF MergeManual
<1> HIDE DEF n, i
<1>4. ASSUME i \in DOMAIN n
      PROVE  /\ n[i] \in Job /\ Sane(i, n[i]) /\ n[i].lastRun <= t
             /\ n[i].runningAt = Undefined /\ n[i].enabled = a[i].enabled
  <2>1. a[i] \in Job /\ store[i].at \in Nat /\ i \in DOMAIN a
    BY <1>1, <1>2, <1>3, <1>4 DEF Job
  <2>2. /\ n[i] \in Job /\ n[i].next = a[i].next /\ n[i].enabled = a[i].enabled
        /\ n[i].lastRun = a[i].lastRun /\ n[i].runningAt = a[i].runningAt
    BY <1>3, <1>4, <2>1 DEF Job
  <2>3. a[i].next \in Nat /\ a[i].lastRun \in Nat
    BY <2>1 DEF Job
  <2>4. Sane(i, n[i])
    BY <1>1, <2>1, <2>2, <2>3 DEF Sane
  <2> QED BY <1>1, <2>1, <2>2, <2>4
<1>5. Sound(n, t)
  <2>1. ASSUME NEW j \in DOMAIN n
        PROVE  n[j] \in Job /\ Sane(j, n[j]) /\ n[j].lastRun <= t /\ j \in Jobs
    BY <1>2, <1>3, <1>4
  <2> QED BY <2>1 DEF Sound, IsStore
<1> QED BY <1>1, <1>3, <1>4, <1>5 DEF n, i, a

\* applyJobPatch and what update does after it.
LEMMA PatchedFacts ==
  ASSUME NEW j \in Jobs, NEW r \in Job, Sane(j, r), now \in Nat, r.lastRun <= now,
         NEW patch \in Patches
  PROVE  LET n == Patched(j, r, patch)
         IN  /\ n \in Job /\ Sane(j, n) /\ n.lastRun <= now
             /\ n.enabled => r.enabled \/ patch = "enable"
             /\ n.runningAt \in {Undefined, r.runningAt}
             /\ n.enabled => n.runningAt = r.runningAt
<1> DEFINE enabled == CASE patch = "enable" -> TRUE
                        [] patch = "disable" -> FALSE
                        [] OTHER -> r.enabled
           at == IF patch = "reschedule" /\ j \in OneShots THEN now + 1 ELSE r.at
           p == [r EXCEPT !.enabled = enabled, !.at = at]
           n == Patched(j, r, patch)
<1>1. enabled \in BOOLEAN /\ at \in Nat /\ (enabled => r.enabled \/ patch = "enable")
  <2>1. r.enabled \in BOOLEAN /\ r.at \in Nat
    BY DEF Job
  <2>2. \/ patch = "enable" /\ enabled = TRUE
        \/ patch = "disable" /\ enabled = FALSE
        \/ patch # "enable" /\ patch # "disable" /\ enabled = r.enabled
    OBVIOUS
  <2>3. at \in Nat
    BY <2>1
  <2> HIDE DEF enabled, at
  <2> QED BY <2>1, <2>2, <2>3
<1>2. patch = "other" => enabled = r.enabled /\ at = r.at
  OBVIOUS
<1>3. n = IF patch = "other"
          THEN IF p.enabled /\ p.next = Undefined THEN Recompute(j, p, now) ELSE p
          ELSE IF p.enabled THEN Recompute(j, p, now)
          ELSE [ClearMark(p) EXCEPT !.next = Undefined]
  BY DEF Patched
<1> HIDE DEF enabled, at
<1>4. /\ p \in Job /\ p.enabled = enabled /\ p.at = at /\ p.next = r.next
      /\ p.lastRun = r.lastRun /\ p.runningAt = r.runningAt /\ p.status = r.status
  BY <1>1 DEF Job
<1> HIDE DEF p, n
<1>5. CASE n = Recompute(j, p, now)
  <2> DEFINE c == Recompute(j, p, now)
  <2>1. p \in Job /\ p.lastRun <= now
    BY <1>4
  <2>2. /\ c \in Job /\ c.enabled = p.enabled /\ c.runningAt = p.runningAt
        /\ c.lastRun = p.lastRun /\ Sane(j, c)
    BY <2>1, RecomputeIsSane
  <2> HIDE DEF c
  <2>3. n = c
    BY <1>5 DEF c
  <2> QED BY <1>1, <1>4, <2>2, <2>3 DEF n
<1>6. CASE n = p /\ patch = "other"
  <2>1. Sane(j, p)
    BY <1>2, <1>4, <1>6 DEF Sane, ComputeNext
  <2> QED BY <1>1, <1>4, <1>6, <2>1 DEF n
<1>7. CASE n = [ClearMark(p) EXCEPT !.next = Undefined] /\ ~p.enabled
  <2>1. n = [p EXCEPT !.runningAt = 0, !.next = 0]
    BY <1>7 DEF ClearMark, Undefined
  <2>2. n \in Job /\ n.enabled = p.enabled /\ n.lastRun = p.lastRun /\ n.runningAt = 0
    BY <1>4, <2>1 DEF Job
  <2>3. Sane(j, n)
    BY <1>7, <2>2 DEF Sane
  <2> QED BY <1>4, <1>7, <2>2, <2>3 DEF n, Undefined
<1> QED BY <1>3, <1>5, <1>6, <1>7

-----------------------------------------------------------------------------
(* Batches: who holds a job, from the marker to the moment the outcome is applied. *)

Batches == [running : BOOLEAN, pending : SUBSET Jobs, results : SUBSET Recorded,
            aliased : BOOLEAN]
Plans == [skip : SUBSET Jobs, pending : SUBSET Jobs, deferred : SUBSET Jobs,
          results : SUBSET Recorded]
Manuals == [phase : {"idle", "over"}, result : {{}}] \cup
           [phase : {"queued", "running", "ended"}, svc : Services, job : Jobs,
            forced : BOOLEAN, result : SUBSET Recorded]
Execs == [svc : Services, job : Jobs, by : Starters, started : Nat]

BatchTypes ==
    /\ phase \in [Services -> Phases] /\ timer \subseteq Services
    /\ tick \in [Services -> Batches] /\ catchup \in [Services -> Plans]
    /\ manual \in [ManualRuns -> Manuals] /\ execs \subseteq Execs
    /\ now \in Nat /\ live \in Nat
    /\ \A e \in execs : e.started <= now
    /\ \A s \in Services : Past(tick[s].results, now) /\ Past(catchup[s].results, now)
    /\ \A m \in ManualRuns : Past(manual[m].result, now)

\* A job is in one place of the batch b.
OnceEach(by, b, runs) ==
    /\ b.pending \cap JobsOf(runs) = {} /\ b.pending \cap JobsOf(b.results) = {}
    /\ JobsOf(runs) \cap JobsOf(b.results) = {}
    /\ \A x, y \in runs : x.job = y.job => x = y
    /\ \A x, y \in b.results : x.job = y.job => x = y
    /\ \A x \in b.results : x.by = by

\* A batch that is not on holds no job.
BatchOK(by, b, runs, on) ==
    /\ OnceEach(by, b, runs)
    /\ ~on => b.pending = {} /\ runs = {} /\ b.results = {}

RunsFor(m) == {e \in execs : e.by = m}

ManualOK(m) ==
    /\ manual[m].phase # "running" => RunsFor(m) = {}
    /\ manual[m].phase # "ended" => manual[m].result = {}
    /\ manual[m].phase = "ended" =>
         \E res \in Recorded :
            res.job = manual[m].job /\ res.by = m /\ manual[m].result = {res}
    /\ \A e \in RunsFor(m) : e.job = manual[m].job /\ e.svc = manual[m].svc
    /\ \A e, f \in RunsFor(m) : e = f

\* Batches, plans and manual runs list each of their jobs once.
BatchInv ==
    /\ BatchTypes
    /\ \A s \in Services :
         /\ BatchOK("tick", tick[s], RunsOf(s, "tick"), tick[s].running)
         /\ BatchOK("start", catchup[s], RunsOf(s, "start"), phase[s] = "catchup")
         /\ s > live => phase[s] = "off"
    /\ \A m \in ManualRuns : ManualOK(m)

TickHolds(s) == tick[s].pending \cup JobsOf(RunsOf(s, "tick")) \cup JobsOf(tick[s].results)
StartHolds(s) ==
    catchup[s].pending \cup JobsOf(RunsOf(s, "start")) \cup JobsOf(catchup[s].results)
ManualHolds(m) == JobsOf(RunsFor(m)) \cup JobsOf(manual[m].result)

Holders == ({"tick", "start"} \X Services) \cup ({"manual"} \X ManualRuns)
Held(h) == IF h[1] = "tick" THEN TickHolds(h[2])
           ELSE IF h[1] = "start" THEN StartHolds(h[2]) ELSE ManualHolds(h[2])

\* Every holder but h goes on holding what it held, and h holds js.
OnlyHolder(h, js) ==
    \A k \in Holders : Held(k)' = IF k = h THEN js ELSE Held(k)

AllHold == \A k \in Holders : Held(k)' = Held(k)

LEMMA ResultsOfBatches ==
  ASSUME NEW res
  PROVE  res \in Results <=>
           \/ \E s \in Services : res \in tick[s].results \cup catchup[s].results
           \/ \E m \in ManualRuns : res \in manual[m].result
<1> DEFINE U == UNION {tick[s].results \cup catchup[s].results : s \in Services}
           V == UNION {manual[m].result : m \in ManualRuns}
<1>1. ASSUME NEW A, NEW f, NEW g
      PROVE  res \in UNION {f[x].results \cup g[x].results : x \in A}
               <=> \E x \in A : res \in f[x].results \cup g[x].results
  OBVIOUS
<1>2. ASSUME NEW A, NEW f
      PROVE  res \in UNION {f[x].result : x \in A} <=> \E x \in A : res \in f[x].result
  OBVIOUS
<1>3. res \in U <=> \E s \in Services : res \in tick[s].results \cup catchup[s].results
  BY <1>1
<1>4. res \in V <=> \E m \in ManualRuns : res \in manual[m].result
  BY <1>2
<1>5. Results = U \cup V
  BY DEF Results
<1> HIDE DEF U, V
<1> QED BY <1>3, <1>4, <1>5

LEMMA AwaitedIsHeld ==
  BatchTypes => \A j : j \in Awaited <=> \E h \in Holders : j \in Held(h)
<1> SUFFICES ASSUME BatchTypes, NEW j
             PROVE  j \in Awaited <=> \E h \in Holders : j \in Held(h)
  OBVIOUS
<1>1. ASSUME j \in Awaited PROVE \E h \in Holders : j \in Held(h)
  <2>1. ASSUME NEW s \in Services, j \in TickHolds(s)
        PROVE  \E h \in Holders : j \in Held(h)
    <3>1. <<"tick", s>> \in Holders /\ j \in Held(<<"tick", s>>)
      BY <2>1 DEF Holders, Held
    <3> QED BY <3>1
  <2>2. ASSUME NEW s \in Services, j \in StartHolds(s)
        PROVE  \E h \in Holders : j \in Held(h)
    <3>1. <<"start", s>> \in Holders /\ j \in Held(<<"start", s>>)
      BY <2>2 DEF Holders, Held
    <3> QED BY <3>1
  <2>3. ASSUME NEW m \in ManualRuns, j \in ManualHolds(m)
        PROVE  \E h \in Holders : j \in Held(h)
    <3>1. <<"manual", m>> \in Holders /\ j \in Held(<<"manual", m>>)
      BY <2>3 DEF Holders, Held
    <3> QED BY <3>1
  <2>4. ASSUME NEW e \in execs, j = e.job PROVE \E h \in Holders : j \in Held(h)
    <3>1. e.svc \in Services /\ e.by \in Starters
      BY DEF BatchTypes, Execs
    <3>2. CASE e.by = "tick"
      <4>1. j \in TickHolds(e.svc)
        BY <2>4, <3>2 DEF TickHolds, JobsOf, RunsOf
      <4> QED BY <2>1, <3>1, <4>1
    <3>3. CASE e.by = "start"
      <4>1. j \in StartHolds(e.svc)
        BY <2>4, <3>3 DEF StartHolds, JobsOf, RunsOf
      <4> QED BY <2>2, <3>1, <4>1
    <3>4. CASE e.by \in ManualRuns
      <4>1. j \in ManualHolds(e.by)
        BY <2>4 DEF ManualHolds, JobsOf, RunsFor
      <4> QED BY <2>3, <3>4, <4>1
    <3> QED BY <3>1, <3>2, <3>3, <3>4 DEF Starters
  <2>5. ASSUME NEW s \in Services, j \in tick[s].pending \cup catchup[s].pending
        PROVE  \E h \in Holders : j \in Held(h)
    BY <2>1, <2>2, <2>5 DEF TickHolds, StartHolds
  <2>6. ASSUME NEW res \in Results, j = res.job PROVE \E h \in Holders : j \in Held(h)
    <3>1. ASSUME NEW s \in Services, res \in tick[s].results \cup catchup[s].results
          PROVE  \E h \in Holders : j \in Held(h)
      <4>1. j \in TickHolds(s) \/ j \in StartHolds(s)
        BY <2>6, <3>1 DEF TickHolds, StartHolds, JobsOf
      <4> QED BY <2>1, <2>2, <4>1
    <3>2. ASSUME NEW m \in ManualRuns, res \in manual[m].result
          PROVE  \E h \in Holders : j \in Held(h)
      <4>1. j \in ManualHolds(m)
        BY <2>6, <3>2 DEF ManualHolds, JobsOf
      <4> QED BY <2>3, <4>1
    <3>3. \/ \E s \in Services : res \in tick[s].results \cup catchup[s].results
          \/ \E m \in ManualRuns : res \in manual[m].result
      BY <2>6, ResultsOfBatches
    <3> QED BY <3>1, <3>2, <3>3
  <2>7. \/ \E e \in execs : j = e.job
        \/ \E res \in Results : j = res.job
        \/ \E s \in Services : j \in tick[s].pending \cup catchup[s].pending
    BY <1>1 DEF Awaited
  <2> QED BY <2>4, <2>5, <2>6, <2>7
<1>2. ASSUME NEW h \in Holders, j \in Held(h) PROVE j \in Awaited
  <2>5. \A e \in execs : e.job \in Awaited
    BY DEF Awaited
  <2>6. \A res \in Results : res.job \in Awaited
    BY DEF Awaited
  <2>7. \A s \in Services : tick[s].pending \cup catchup[s].pending \subseteq Awaited
    BY DEF Awaited
  <2>8. /\ \A s \in Services : tick[s].results \cup catchup[s].results \subseteq Results
        /\ \A m \in ManualRuns : manual[m].result \subseteq Results
    BY ResultsOfBatches
  <2> HIDE DEF Awaited, Results
  <2>1. ASSUME NEW s \in Services, j \in TickHolds(s) PROVE j \in Awaited
    BY <2>1, <2>5, <2>6, <2>7, <2>8 DEF TickHolds, JobsOf, RunsOf
  <2>2. ASSUME NEW s \in Services, j \in StartHolds(s) PROVE j \in Awaited
    BY <2>2, <2>5, <2>6, <2>7, <2>8 DEF StartHolds, JobsOf, RunsOf
  <2>3. ASSUME NEW m \in ManualRuns, j \in ManualHolds(m) PROVE j \in Awaited
    BY <2>3, <2>5, <2>6, <2>8 DEF ManualHolds, JobsOf, RunsFor
  <2>4. \/ h[1] = "tick" /\ h[2] \in Services
        \/ h[1] = "start" /\ h[2] \in Services
        \/ h[1] = "manual" /\ h[2] \in ManualRuns
    BY DEF Holders
  <2> QED BY <1>2, <2>1, <2>2, <2>3, <2>4 DEF Held
<1> QED BY <1>1, <1>2

\* The holders one kind at a time.
LEMMA HoldersOneByOne ==
  ASSUME NEW h, NEW js,
         \A s \in Services : TickHolds(s)' = IF <<"tick", s>> = h THEN js ELSE TickHolds(s),
         \A s \in Services : StartHolds(s)' = IF <<"start", s>> = h THEN js ELSE StartHolds(s),
         \A m \in ManualRuns :
            ManualHolds(m)' = IF <<"manual", m>> = h THEN js ELSE ManualHolds(m)
  PROVE  OnlyHolder(h, js)
<1> SUFFICES ASSUME NEW k \in Holders
             PROVE  Held(k)' = IF k = h THEN js ELSE Held(k)
  BY DEF OnlyHolder
<1>1. \/ \E s \in Services : k = <<"tick", s>>
      \/ \E s \in Services : k = <<"start", s>>
      \/ \E m \in ManualRuns : k = <<"manual", m>>
  BY DEF Holders
<1> QED BY <1>1 DEF Held

LEMMA AllHoldersOneByOne ==
  ASSUME \A s \in Services : TickHolds(s)' = TickHolds(s) /\ StartHolds(s)' = StartHolds(s),
         \A m \in ManualRuns : ManualHolds(m)' = ManualHolds(m)
  PROVE  AllHold
<1> SUFFICES ASSUME NEW k \in Holders PROVE Held(k)' = Held(k)
  BY DEF AllHold
<1>1. \/ \E s \in Services : k = <<"tick", s>>
      \/ \E s \in Services : k = <<"start", s>>
      \/ \E m \in ManualRuns : k = <<"manual", m>>
  BY DEF Holders
<1> QED BY <1>1 DEF Held

-----------------------------------------------------------------------------
(* What an action can do to the batches. *)

LEMMA JobsOfFacts ==
  /\ JobsOf({}) = {}
  /\ \A xs, e : JobsOf(xs \cup {e}) = JobsOf(xs) \cup {e.job}
  /\ \A xs : \A e \in xs : (\A x \in xs : x.job = e.job => x = e)
                             => JobsOf(xs \ {e}) = JobsOf(xs) \ {e.job}
BY DEF JobsOf

LEMMA BatchesStay ==
  ASSUME BatchInv, UNCHANGED <<tick, catchup, manual, execs>>,
         phase' \in [Services -> Phases], timer' \subseteq Services, now' \in Nat, now' >= now,
         live' \in Nat,
         \A s \in Services : /\ phase'[s] = "catchup" <=> phase[s] = "catchup"
                             /\ s > live' => phase'[s] = "off"
  PROVE  BatchInv' /\ AllHold
<1>1. BatchTypes
  BY DEF BatchInv
<1>2. /\ \A s \in Services, by \in {"tick", "start"} : RunsOf(s, by)' = RunsOf(s, by)
      /\ \A m \in ManualRuns : RunsFor(m)' = RunsFor(m)
  BY DEF RunsOf, RunsFor
<1>3. \A e \in execs : e.started \in Nat
  BY <1>1 DEF BatchTypes, Execs
<1>4. \A x \in SUBSET Recorded : Past(x, now) => Past(x, now')
  <2> SUFFICES ASSUME NEW x \in SUBSET Recorded, Past(x, now), NEW res \in x
               PROVE  res.started <= res.ended /\ res.ended <= now'
    BY DEF Past
  <2>1. res.ended \in Nat /\ res.ended <= now /\ res.started <= res.ended
    BY DEF Past, Recorded
  <2> QED BY <1>1, <2>1 DEF BatchTypes
<1>5. BatchTypes'
  <2>1. \A e \in execs : e.started <= now'
    BY <1>1, <1>3 DEF BatchTypes
  <2>2. \A s \in Services : /\ tick[s].results \in SUBSET Recorded
                            /\ catchup[s].results \in SUBSET Recorded
    <3> SUFFICES ASSUME NEW s \in Services
                 PROVE  /\ tick[s].results \in SUBSET Recorded
                        /\ catchup[s].results \in SUBSET Recorded
      OBVIOUS
    <3>1. tick[s] \in Batches /\ catchup[s] \in Plans
      BY <1>1 DEF BatchTypes
    <3> QED BY <3>1 DEF Batches, Plans
  <2>3. \A m \in ManualRuns : manual[m].result \in SUBSET Recorded
    <3> SUFFICES ASSUME NEW m \in ManualRuns PROVE manual[m].result \in SUBSET Recorded
      OBVIOUS
    <3>1. manual[m] \in Manuals
      BY <1>1 DEF BatchTypes
    <3> QED BY <3>1 DEF Manuals
  <2> QED BY <1>1, <1>4, <2>1, <2>2, <2>3 DEF BatchTypes
<1>6. \A s \in Services :
        /\ BatchOK("tick", tick[s], RunsOf(s, "tick"), tick[s].running)'
        /\ BatchOK("start", catchup[s], RunsOf(s, "start"), phase[s] = "catchup")'
  BY <1>2 DEF BatchInv, BatchOK, OnceEach
<1>7. \A m \in ManualRuns : ManualOK(m)'
  BY <1>2 DEF BatchInv, ManualOK
<1>8. AllHold
  BY <1>2, AllHoldersOneByOne DEF TickHolds, StartHolds, ManualHolds
<1> QED BY <1>5, <1>6, <1>7, <1>8 DEF BatchInv

LEMMA TickChanges ==
  ASSUME BatchInv, NEW s \in Services, NEW b \in Batches, tick' = [tick EXCEPT ![s] = b],
         UNCHANGED <<catchup, manual, phase, now, live>>, timer' \subseteq Services,
         execs' \subseteq Execs, \A e \in execs' : e.started <= now,
         \A q \in Services : /\ RunsOf(q, "start")' = RunsOf(q, "start")
                             /\ q # s => RunsOf(q, "tick")' = RunsOf(q, "tick"),
         \A m \in ManualRuns : RunsFor(m)' = RunsFor(m),
         Past(b.results, now), NEW runs, RunsOf(s, "tick")' = runs,
         BatchOK("tick", b, runs, b.running)
  PROVE  /\ BatchInv'
         /\ OnlyHolder(<<"tick", s>>, b.pending \cup JobsOf(runs) \cup JobsOf(b.results))
<1>1. BatchTypes
  BY DEF BatchInv
<1>2. \A q \in Services : tick'[q] = IF q = s THEN b ELSE tick[q]
  BY <1>1 DEF BatchTypes
<1>3. BatchTypes'
  <2>1. tick' \in [Services -> Batches]
    BY <1>1 DEF BatchTypes
  <2> QED BY <1>1, <1>2, <2>1 DEF BatchTypes
<1>4. ASSUME NEW q \in Services
      PROVE  BatchOK("tick", tick[q], RunsOf(q, "tick"), tick[q].running)'
  <2>1. CASE q = s
    BY <1>2, <2>1 DEF BatchOK, OnceEach
  <2>2. CASE q # s
    BY <1>2, <2>2 DEF BatchOK, OnceEach, BatchInv
  <2> QED BY <2>1, <2>2
<1>5. \A q \in Services :
        /\ BatchOK("start", catchup[q], RunsOf(q, "start"), phase[q] = "catchup")'
        /\ q > live' => phase'[q] = "off"
  BY DEF BatchInv, BatchOK, OnceEach
<1>6. \A m \in ManualRuns : ManualOK(m)'
  BY DEF BatchInv, ManualOK
<1>7. OnlyHolder(<<"tick", s>>, b.pending \cup JobsOf(runs) \cup JobsOf(b.results))
  <2> DEFINE js == b.pending \cup JobsOf(runs) \cup JobsOf(b.results)
             h == <<"tick", s>>
  <2>1. \A q \in Services : TickHolds(q)' = IF <<"tick", q>> = h THEN js ELSE TickHolds(q)
    BY <1>2 DEF TickHolds
  <2>2. \A q \in Services : StartHolds(q)' = IF <<"start", q>> = h THEN js ELSE StartHolds(q)
    BY DEF StartHolds
  <2>3. \A m \in ManualRuns :
           ManualHolds(m)' = IF <<"manual", m>> = h THEN js ELSE ManualHolds(m)
    BY DEF ManualHolds
  <2> HIDE DEF js, h
  <2>4. OnlyHolder(h, js)
    BY <2>1, <2>2, <2>3, HoldersOneByOne
  <2> QED BY <2>4 DEF js, h
<1> QED BY <1>3, <1>4, <1>5, <1>6, <1>7 DEF BatchInv

LEMMA PlanChanges ==
  ASSUME BatchInv, NEW s \in Services, NEW b \in Plans, catchup' = [catchup EXCEPT ![s] = b],
         NEW f \in Phases, phase' = [phase EXCEPT ![s] = f], f # "off", phase[s] # "off",
         UNCHANGED <<tick, manual, timer, now, live>>,
         execs' \subseteq Execs, \A e \in execs' : e.started <= now,
         \A q \in Services : /\ RunsOf(q, "tick")' = RunsOf(q, "tick")
                             /\ q # s => RunsOf(q, "start")' = RunsOf(q, "start"),
         \A m \in ManualRuns : RunsFor(m)' = RunsFor(m),
         Past(b.results, now), NEW runs, RunsOf(s, "start")' = runs,
         BatchOK("start", b, runs, f = "catchup")
  PROVE  /\ BatchInv'
         /\ OnlyHolder(<<"start", s>>, b.pending \cup JobsOf(runs) \cup JobsOf(b.results))
<1>1. BatchTypes
  BY DEF BatchInv
<1>2. \A q \in Services : /\ catchup'[q] = IF q = s THEN b ELSE catchup[q]
                          /\ phase'[q] = IF q = s THEN f ELSE phase[q]
  BY <1>1 DEF BatchTypes
<1>3. BatchTypes'
  <2>1. catchup' \in [Services -> Plans] /\ phase' \in [Services -> Phases]
    BY <1>1 DEF BatchTypes
  <2> QED BY <1>1, <1>2, <2>1 DEF BatchTypes
<1>4. ASSUME NEW q \in Services
      PROVE  BatchOK("start", catchup[q], RunsOf(q, "start"), phase[q] = "catchup")'
  <2>1. CASE q = s
    BY <1>2, <2>1 DEF BatchOK, OnceEach
  <2>2. CASE q # s
    BY <1>2, <2>2 DEF BatchOK, OnceEach, BatchInv
  <2> QED BY <2>1, <2>2
<1>5. \A q \in Services :
        /\ BatchOK("tick", tick[q], RunsOf(q, "tick"), tick[q].running)'
        /\ q > live' => phase'[q] = "off"
  BY <1>2 DEF BatchInv, BatchOK, OnceEach
<1>6. \A m \in ManualRuns : ManualOK(m)'
  BY DEF BatchInv, ManualOK
<1>7. OnlyHolder(<<"start", s>>, b.pending \cup JobsOf(runs) \cup JobsOf(b.results))
  <2> DEFINE js == b.pending \cup JobsOf(runs) \cup JobsOf(b.results)
             h == <<"start", s>>
  <2>1. \A q \in Services : TickHolds(q)' = IF <<"tick", q>> = h THEN js ELSE TickHolds(q)
    BY DEF TickHolds
  <2>2. \A q \in Services : StartHolds(q)' = IF <<"start", q>> = h THEN js ELSE StartHolds(q)
    BY <1>2 DEF StartHolds
  <2>3. \A m \in ManualRuns :
           ManualHolds(m)' = IF <<"manual", m>> = h THEN js ELSE ManualHolds(m)
    BY DEF ManualHolds
  <2> HIDE DEF js, h
  <2>4. OnlyHolder(h, js)
    BY <2>1, <2>2, <2>3, HoldersOneByOne
  <2> QED BY <2>4 DEF js, h
<1> QED BY <1>3, <1>4, <1>5, <1>6, <1>7 DEF BatchInv

LEMMA ManualChanges ==
  ASSUME BatchInv, NEW m \in ManualRuns, NEW r \in Manuals,
         manual' = [manual EXCEPT ![m] = r],
         UNCHANGED <<catchup, phase, now, live>>, timer' \subseteq Services,
         tick' \in [Services -> Batches],
         \A q \in Services : /\ tick'[q].running = tick[q].running
                             /\ tick'[q].pending = tick[q].pending
                             /\ tick'[q].results = tick[q].results,
         execs' \subseteq Execs, \A e \in execs' : e.started <= now,
         \A q \in Services : /\ RunsOf(q, "tick")' = RunsOf(q, "tick")
                             /\ RunsOf(q, "start")' = RunsOf(q, "start"),
         \A n \in ManualRuns : n # m => RunsFor(n)' = RunsFor(n),
         Past(r.result, now), NEW runs, RunsFor(m)' = runs,
         r.phase # "running" => runs = {},
         r.phase # "ended" => r.result = {},
         r.phase = "ended" =>
           \E res \in Recorded : res.job = r.job /\ res.by = m /\ r.result = {res},
         \A e \in runs : e.job = r.job /\ e.svc = r.svc,
         \A e, f \in runs : e = f
  PROVE  BatchInv' /\ OnlyHolder(<<"manual", m>>, JobsOf(runs) \cup JobsOf(r.result))
<1>1. BatchTypes
  BY DEF BatchInv
<1>2. \A n \in ManualRuns : manual'[n] = IF n = m THEN r ELSE manual[n]
  BY <1>1 DEF BatchTypes
<1>3. BatchTypes'
  <2>1. manual' \in [ManualRuns -> Manuals]
    BY <1>1 DEF BatchTypes
  <2> QED BY <1>1, <1>2, <2>1 DEF BatchTypes
<1>4. \A q \in Services :
        /\ BatchOK("start", catchup[q], RunsOf(q, "start"), phase[q] = "catchup")'
        /\ q > live' => phase'[q] = "off"
  BY DEF BatchInv, BatchOK, OnceEach
<1>5. \A q \in Services :
        BatchOK("tick", tick[q], RunsOf(q, "tick"), tick[q].running)'
  BY DEF BatchInv, BatchOK, OnceEach
<1>6. ASSUME NEW n \in ManualRuns PROVE ManualOK(n)'
  <2>1. CASE n = m
    BY <1>2, <2>1 DEF ManualOK
  <2>2. CASE n # m
    BY <1>2, <2>2 DEF BatchInv, ManualOK
  <2> QED BY <2>1, <2>2
<1>7. OnlyHolder(<<"manual", m>>, JobsOf(runs) \cup JobsOf(r.result))
  <2> DEFINE js == JobsOf(runs) \cup JobsOf(r.result)
             h == <<"manual", m>>
  <2>1. \A q \in Services : TickHolds(q)' = IF <<"tick", q>> = h THEN js ELSE TickHolds(q)
    BY DEF TickHolds
  <2>2. \A q \in Services : StartHolds(q)' = IF <<"start", q>> = h THEN js ELSE StartHolds(q)
    BY DEF StartHolds
  <2>3. \A n \in ManualRuns :
           ManualHolds(n)' = IF <<"manual", n>> = h THEN js ELSE ManualHolds(n)
    BY <1>2 DEF ManualHolds
  <2> HIDE DEF js, h
  <2>4. OnlyHolder(h, js)
    BY <2>1, <2>2, <2>3, HoldersOneByOne
  <2> QED BY <2>4 DEF js, h
<1> QED BY <1>3, <1>4, <1>5, <1>6, <1>7 DEF BatchInv

LEMMA SameHolder ==
  ASSUME NEW h, NEW js, OnlyHolder(h, js), h \in Holders => js = Held(h)
  PROVE  AllHold
BY DEF OnlyHolder, AllHold

LEMMA BeginFacts ==
  ASSUME BatchTypes, NEW s \in Services, NEW j \in Jobs, NEW by \in Starters, Begin(s, j, by),
         NEW e, e = [svc |-> s, job |-> j, by |-> by, started |-> now]
  PROVE  /\ execs' \subseteq Execs /\ \A x \in execs' : x.started <= now
         /\ \A q \in Services, b \in {"tick", "start"} :
              RunsOf(q, b)' = IF q = s /\ b = by THEN RunsOf(q, b) \cup {e} ELSE RunsOf(q, b)
         /\ \A m \in ManualRuns :
              RunsFor(m)' = IF m = by THEN RunsFor(m) \cup {e} ELSE RunsFor(m)
<1>1. e \in Execs /\ e.started <= now /\ execs' = execs \cup {e}
  BY DEF BatchTypes, Execs, Begin
<1>2. e.svc = s /\ e.by = by
  OBVIOUS
<1> QED BY <1>1, <1>2 DEF BatchTypes, RunsOf, RunsFor

HeldIn(b, runs) == b.pending \cup JobsOf(runs) \cup JobsOf(b.results)

\* The batch c with the runs rest holds once each the jobs that b holds with runs.
Passes(by, b, runs, c, rest) == OnceEach(by, c, rest) /\ HeldIn(c, rest) = HeldIn(b, runs)

Takes(b, c, e) ==
    e.job \in b.pending /\ c.pending = b.pending \ {e.job} /\ c.results = b.results

Ends(by, b, c, e, res) ==
    /\ c.pending = b.pending /\ c.results = b.results \cup {res}
    /\ res.job = e.job /\ res.by = by

\* A job of a batch starts to run.
LEMMA TakeOne ==
  ASSUME NEW by, NEW b, NEW c, NEW runs, NEW e, OnceEach(by, b, runs), Takes(b, c, e)
  PROVE  Passes(by, b, runs, c, runs \cup {e})
<1>0. e.job \in b.pending /\ c.pending = b.pending \ {e.job} /\ c.results = b.results
  BY DEF Takes
<1>1. JobsOf(runs \cup {e}) = JobsOf(runs) \cup {e.job}
  BY ONLY JobsOfFacts
<1>2. \A x \in runs : x.job # e.job
  BY <1>0 DEF OnceEach, JobsOf
<1>3. e.job \notin JobsOf(b.results)
  BY <1>0 DEF OnceEach
<1>4. \A x, y \in runs \cup {e} : x.job = y.job => x = y
  BY <1>0, <1>2 DEF OnceEach
<1>5. /\ c.pending \cap JobsOf(runs \cup {e}) = {} /\ c.pending \cap JobsOf(c.results) = {}
      /\ JobsOf(runs \cup {e}) \cap JobsOf(c.results) = {}
      /\ c.pending \cup JobsOf(runs \cup {e}) \cup JobsOf(c.results)
           = b.pending \cup JobsOf(runs) \cup JobsOf(b.results)
  <2> DEFINE P == b.pending
             R == JobsOf(runs)
             Q == JobsOf(b.results)
             p == c.pending
             r == JobsOf(runs \cup {e})
             q == JobsOf(c.results)
             x == e.job
  <2>1. /\ x \in P /\ P \cap R = {} /\ P \cap Q = {} /\ R \cap Q = {}
        /\ p = P \ {x} /\ r = R \cup {x} /\ q = Q
    BY <1>0, <1>1 DEF OnceEach
  <2> HIDE DEF P, R, Q, p, r, q, x
  <2>2. p \cap r = {} /\ p \cap q = {} /\ r \cap q = {} /\ p \cup r \cup q = P \cup R \cup Q
    BY ONLY <2>1
  <2> QED BY ONLY <2>2 DEF P, R, Q, p, r, q
<1>6. /\ \A x, y \in c.results : x.job = y.job => x = y
      /\ \A x \in c.results : x.by = by
  BY <1>0 DEF OnceEach
<1> QED BY <1>4, <1>5, <1>6 DEF OnceEach, HeldIn, Passes

\* A run of a batch ends.
LEMMA EndOne ==
  ASSUME NEW by, NEW b, NEW c, NEW runs, NEW e \in runs, NEW res, OnceEach(by, b, runs),
         Ends(by, b, c, e, res)
  PROVE  Passes(by, b, runs, c, runs \ {e})
<1>0. /\ c.pending = b.pending /\ c.results = b.results \cup {res}
      /\ res.job = e.job /\ res.by = by
  BY DEF Ends
<1>1. JobsOf(b.results \cup {res}) = JobsOf(b.results) \cup {e.job}
  BY <1>0, JobsOfFacts
<1>2. JobsOf(runs \ {e}) = JobsOf(runs) \ {e.job} /\ e.job \in JobsOf(runs)
  <2>1. \A x \in runs : x.job = e.job => x = e
    BY DEF OnceEach
  <2> QED BY <2>1, JobsOfFacts DEF JobsOf
<1>3. \A x \in b.results : x.job # e.job
  BY <1>0, <1>2 DEF OnceEach, JobsOf
<1>4. \A x, y \in c.results : x.job = y.job => x = y
  BY <1>0, <1>3 DEF OnceEach
<1>5. /\ c.pending \cap JobsOf(runs \ {e}) = {} /\ c.pending \cap JobsOf(c.results) = {}
      /\ JobsOf(runs \ {e}) \cap JobsOf(c.results) = {}
      /\ c.pending \cup JobsOf(runs \ {e}) \cup JobsOf(c.results)
           = b.pending \cup JobsOf(runs) \cup JobsOf(b.results)
  <2> DEFINE P == b.pending
             R == JobsOf(runs)
             Q == JobsOf(b.results)
             p == c.pending
             r == JobsOf(runs \ {e})
             q == JobsOf(c.results)
             x == e.job
  <2>1. /\ x \in R /\ P \cap R = {} /\ P \cap Q = {} /\ R \cap Q = {}
        /\ p = P /\ r = R \ {x} /\ q = Q \cup {x}
    BY <1>0, <1>1, <1>2 DEF OnceEach
  <2> HIDE DEF P, R, Q, p, r, q, x
  <2>2. p \cap r = {} /\ p \cap q = {} /\ r \cap q = {} /\ p \cup r \cup q = P \cup R \cup Q
    BY ONLY <2>1
  <2> QED BY ONLY <2>2 DEF P, R, Q, p, r, q
<1>6. /\ \A x, y \in runs \ {e} : x.job = y.job => x = y
      /\ \A x \in c.results : x.by = by
  BY <1>0 DEF OnceEach
<1> QED BY <1>4, <1>5, <1>6 DEF OnceEach, HeldIn, Passes

LEMMA StartClearBatches ==
  ASSUME BatchInv, DOMAIN store \subseteq Jobs, NEW s \in Services, StartClear(s)
  PROVE  BatchInv' /\ AllHold
<1> DEFINE stale == {j \in DOMAIN store : store[j].runningAt # Undefined}
           b == [catchup[s] EXCEPT !.skip = stale]
<1>1. /\ phase[s] = "new" /\ phase' = [phase EXCEPT ![s] = "cleared"]
      /\ catchup' = [catchup EXCEPT ![s] = b]
      /\ UNCHANGED <<now, live, timer, tick, manual, execs>>
  BY DEF StartClear
<1>2. catchup[s] \in Plans /\ BatchTypes
  BY DEF BatchInv, BatchTypes
<1>3. b \in Plans /\ b.pending = catchup[s].pending /\ b.results = catchup[s].results
  BY <1>2 DEF Plans
<1> HIDE DEF b
<1>4. /\ \A q \in Services, by \in {"tick", "start"} : RunsOf(q, by)' = RunsOf(q, by)
      /\ \A m \in ManualRuns : RunsFor(m)' = RunsFor(m)
  BY <1>1 DEF RunsOf, RunsFor
<1>5. execs' \subseteq Execs /\ \A e \in execs' : e.started <= now
  BY <1>1, <1>2 DEF BatchTypes
<1>6. BatchOK("start", b, RunsOf(s, "start"), "cleared" = "catchup") /\ Past(b.results, now)
  <2>1. phase[s] # "catchup"
    BY <1>1
  <2> QED BY <1>2, <1>3, <2>1 DEF BatchInv, BatchTypes, BatchOK, OnceEach
<1>7. BatchInv' /\ OnlyHolder(<<"start", s>>,
                     b.pending \cup JobsOf(RunsOf(s, "start")) \cup JobsOf(b.results))
  <2>1. "cleared" \in Phases /\ "cleared" # "off" /\ phase[s] # "off"
    BY <1>1 DEF Phases
  <2>2. RunsOf(s, "start")' = RunsOf(s, "start")
    BY <1>4
  <2> QED BY <1>1, <1>3, <1>4, <1>5, <1>6, <2>1, <2>2, PlanChanges
<1>8. Held(<<"start", s>>) = b.pending \cup JobsOf(RunsOf(s, "start")) \cup JobsOf(b.results)
  BY <1>3 DEF Held, StartHolds
<1> QED BY <1>7, <1>8, SameHolder

LEMMA StartPlanBatches ==
  ASSUME BatchInv, NEW s \in Services, DOMAIN mem[s] \subseteq Jobs, NEW chosen,
         StartPlan(s, chosen)
  PROVE  /\ BatchInv' /\ OnlyHolder(<<"start", s>>, chosen)
         /\ Held(<<"start", s>>) = {}
<1> DEFINE missed == {j \in DOMAIN mem[s] \ catchup[s].skip : RunnableAtStart(j, mem[s][j], now)}
           f == IF missed = {} THEN "planned" ELSE "catchup"
           b == [catchup[s] EXCEPT !.pending = chosen, !.deferred = missed \ chosen]
<1>1. /\ phase[s] = "cleared" /\ chosen \subseteq missed
      /\ phase' = [phase EXCEPT ![s] = f]
      /\ catchup' = [catchup EXCEPT ![s] = b]
      /\ UNCHANGED <<now, live, timer, tick, manual, execs>>
  <2>1. catchup' = [catchup EXCEPT ![s].pending = chosen, ![s].deferred = missed \ chosen]
    BY DEF StartPlan
  <2> QED BY <2>1 DEF StartPlan
<1>2. catchup[s] \in Plans /\ BatchTypes /\ missed \subseteq Jobs
  BY DEF BatchInv, BatchTypes
<1>3. chosen = {} \/ f = "catchup"
  BY <1>1
<1>4. f \in Phases /\ f # "off" /\ phase[s] # "off" /\ phase[s] # "catchup"
  BY <1>1 DEF Phases
<1> HIDE DEF missed, f
<1>5. b \in Plans /\ b.pending = chosen /\ b.results = catchup[s].results
  BY <1>1, <1>2 DEF Plans
<1> HIDE DEF b
<1>6. catchup[s].pending = {} /\ RunsOf(s, "start") = {} /\ catchup[s].results = {}
  BY <1>4 DEF BatchInv, BatchOK, OnceEach
<1>7. /\ \A q \in Services, by \in {"tick", "start"} : RunsOf(q, by)' = RunsOf(q, by)
      /\ \A m \in ManualRuns : RunsFor(m)' = RunsFor(m)
  BY <1>1 DEF RunsOf, RunsFor
<1>8. execs' \subseteq Execs /\ \A e \in execs' : e.started <= now
  BY <1>1, <1>2 DEF BatchTypes
<1>9. BatchOK("start", b, {}, f = "catchup") /\ Past(b.results, now)
  BY <1>3, <1>5, <1>6, JobsOfFacts DEF BatchOK, OnceEach, Past
<1>10. BatchInv' /\ OnlyHolder(<<"start", s>>, b.pending \cup JobsOf({}) \cup JobsOf(b.results))
  <2>1. RunsOf(s, "start")' = {}
    BY <1>6, <1>7
  <2> QED BY <1>1, <1>4, <1>5, <1>7, <1>8, <1>9, <2>1, PlanChanges
<1>11. b.pending \cup JobsOf({}) \cup JobsOf(b.results) = chosen
  BY <1>5, <1>6, JobsOfFacts
<1>12. Held(<<"start", s>>) = {}
  BY <1>6, JobsOfFacts DEF Held, StartHolds
<1> QED BY <1>10, <1>11, <1>12

LEMMA StartRunBatches ==
  ASSUME BatchInv, NEW s \in Services, NEW j \in Jobs, StartRun(s, j)
  PROVE  BatchInv' /\ AllHold
<1> DEFINE e == [svc |-> s, job |-> j, by |-> "start", started |-> now]
           b == [catchup[s] EXCEPT !.pending = @ \ {j}]
           runs == RunsOf(s, "start")
<1>1. /\ phase[s] = "catchup" /\ j \in catchup[s].pending /\ Begin(s, j, "start")
      /\ catchup' = [catchup EXCEPT ![s] = b]
      /\ UNCHANGED <<now, live, phase, timer, tick, manual>>
  BY DEF StartRun
<1>2. catchup[s] \in Plans /\ BatchTypes
  BY DEF BatchInv, BatchTypes
<1>3. b \in Plans /\ b.pending = catchup[s].pending \ {j} /\ b.results = catchup[s].results
  BY <1>2 DEF Plans
<1>4. e.job = j /\ "start" \in Starters /\ \A m \in ManualRuns : m # "start"
  BY CronAssumption DEF Starters
<1>0. e = [svc |-> s, job |-> j, by |-> "start", started |-> now]
  OBVIOUS
<1> HIDE DEF b, e, runs
<1>5. /\ execs' \subseteq Execs /\ \A x \in execs' : x.started <= now
      /\ \A q \in Services, by \in {"tick", "start"} :
           RunsOf(q, by)' = IF q = s /\ by = "start" THEN RunsOf(q, by) \cup {e}
                            ELSE RunsOf(q, by)
      /\ \A m \in ManualRuns :
           RunsFor(m)' = IF m = "start" THEN RunsFor(m) \cup {e} ELSE RunsFor(m)
  <2>1. BatchTypes /\ "start" \in Starters /\ Begin(s, j, "start")
    BY <1>1, <1>2, <1>4
  <2> QED BY ONLY <1>0, <2>1, s \in Services, j \in Jobs, BeginFacts
<1>6. OnceEach("start", catchup[s], runs) /\ Past(b.results, now)
  BY <1>2, <1>3 DEF BatchInv, BatchTypes, BatchOK, runs
<1>7. /\ BatchOK("start", b, runs \cup {e}, TRUE)
      /\ b.pending \cup JobsOf(runs \cup {e}) \cup JobsOf(b.results) = StartHolds(s)
  <2>1. Takes(catchup[s], b, e)
    BY <1>1, <1>3, <1>4 DEF Takes
  <2>2. Passes("start", catchup[s], runs, b, runs \cup {e})
    BY ONLY <1>6, <2>1, TakeOne
  <2> QED BY <2>2 DEF StartHolds, runs, BatchOK, HeldIn, Passes
<1>8. /\ RunsOf(s, "start")' = runs \cup {e}
      /\ \A q \in Services : /\ RunsOf(q, "tick")' = RunsOf(q, "tick")
                             /\ q # s => RunsOf(q, "start")' = RunsOf(q, "start")
      /\ \A m \in ManualRuns : RunsFor(m)' = RunsFor(m)
  BY <1>4, <1>5 DEF runs
<1>9. BatchInv' /\ OnlyHolder(<<"start", s>>,
                     b.pending \cup JobsOf(runs \cup {e}) \cup JobsOf(b.results))
  <2>1. "catchup" \in Phases /\ "catchup" # "off" /\ phase[s] # "off"
    BY <1>1 DEF Phases
  <2>2. phase' = [phase EXCEPT ![s] = "catchup"]
    BY <1>1, <1>2 DEF BatchTypes
  <2> QED BY <1>1, <1>3, <1>5, <1>6, <1>7, <1>8, <2>1, <2>2, PlanChanges
<1>10. Held(<<"start", s>>) = StartHolds(s)
  BY DEF Held
<1>11. OnlyHolder(<<"start", s>>, Held(<<"start", s>>))
  BY ONLY <1>7, <1>9, <1>10
<1> QED BY ONLY <1>9, <1>11, SameHolder

LEMMA StartApplyBatches ==
  ASSUME BatchInv, NEW s \in Services, StartApply(s)
  PROVE  /\ BatchInv' /\ OnlyHolder(<<"start", s>>, {})
         /\ Held(<<"start", s>>) = JobsOf(catchup[s].results)
<1>1. /\ CatchupDone(s) /\ phase' = [phase EXCEPT ![s] = "planned"]
      /\ catchup' = [catchup EXCEPT ![s] = NoPlan]
      /\ UNCHANGED <<now, live, timer, tick, manual, execs>>
  BY DEF StartApply
<1>2. phase[s] = "catchup" /\ catchup[s].pending = {} /\ RunsOf(s, "start") = {}
  BY <1>1 DEF CatchupDone
<1>3. NoPlan \in Plans /\ NoPlan.pending = {} /\ NoPlan.results = {}
  BY DEF NoPlan, Plans
<1>4. /\ \A q \in Services, by \in {"tick", "start"} : RunsOf(q, by)' = RunsOf(q, by)
      /\ \A m \in ManualRuns : RunsFor(m)' = RunsFor(m)
  BY <1>1 DEF RunsOf, RunsFor
<1>5. execs' \subseteq Execs /\ \A e \in execs' : e.started <= now
  BY <1>1 DEF BatchInv, BatchTypes
<1>6. BatchOK("start", NoPlan, {}, "planned" = "catchup") /\ Past(NoPlan.results, now)
  BY <1>3, JobsOfFacts DEF BatchOK, OnceEach, Past
<1>7. BatchInv' /\ OnlyHolder(<<"start", s>>,
                     NoPlan.pending \cup JobsOf({}) \cup JobsOf(NoPlan.results))
  <2>1. "planned" \in Phases /\ "planned" # "off" /\ phase[s] # "off"
    BY <1>2 DEF Phases
  <2>2. RunsOf(s, "start")' = {}
    BY <1>2, <1>4
  <2> QED BY <1>1, <1>3, <1>4, <1>5, <1>6, <2>1, <2>2, PlanChanges
<1>8. NoPlan.pending \cup JobsOf({}) \cup JobsOf(NoPlan.results) = {}
  BY <1>3, JobsOfFacts
<1>9. Held(<<"start", s>>) = JobsOf(catchup[s].results)
  BY <1>2, JobsOfFacts DEF Held, StartHolds
<1> QED BY <1>7, <1>8, <1>9

LEMMA TickCollectBatches ==
  ASSUME BatchInv, DOMAIN store \subseteq Jobs, NEW s \in Services, TickCollect(s)
  PROVE  /\ BatchInv' /\ OnlyHolder(<<"tick", s>>, {j \in DOMAIN store : Runnable(store[j], now)})
         /\ Held(<<"tick", s>>) = {}
<1> DEFINE due == {j \in DOMAIN store : Runnable(store[j], now)}
           b == [running |-> TRUE, pending |-> due, results |-> {}, aliased |-> TRUE]
<1>1. /\ ~tick[s].running /\ tick' = [tick EXCEPT ![s] = b]
      /\ UNCHANGED <<now, live, phase, timer, catchup, manual, execs>>
  BY DEF TickCollect
<1>2. due \subseteq Jobs /\ BatchTypes
  BY DEF BatchInv
<1> HIDE DEF due
<1>3. b \in Batches /\ b.running /\ b.pending = due /\ b.results = {}
  BY <1>2 DEF Batches
<1> HIDE DEF b
<1>4. tick[s].pending = {} /\ RunsOf(s, "tick") = {} /\ tick[s].results = {}
  BY <1>1 DEF BatchInv, BatchOK
<1>5. /\ \A q \in Services, by \in {"tick", "start"} : RunsOf(q, by)' = RunsOf(q, by)
      /\ \A m \in ManualRuns : RunsFor(m)' = RunsFor(m)
  BY <1>1 DEF RunsOf, RunsFor
<1>6. execs' \subseteq Execs /\ \A e \in execs' : e.started <= now
  BY <1>1, <1>2 DEF BatchTypes
<1>7. BatchOK("tick", b, {}, b.running) /\ Past(b.results, now)
  BY <1>3, JobsOfFacts DEF BatchOK, OnceEach, Past
<1>8. BatchInv' /\ OnlyHolder(<<"tick", s>>, b.pending \cup JobsOf({}) \cup JobsOf(b.results))
  <2>1. RunsOf(s, "tick")' = {}
    BY <1>4, <1>5
  <2>2. timer' \subseteq Services
    BY <1>1, <1>2 DEF BatchTypes
  <2> QED BY <1>1, <1>3, <1>5, <1>6, <1>7, <2>1, <2>2, TickChanges
<1>9. b.pending \cup JobsOf({}) \cup JobsOf(b.results) = due
  BY <1>3, JobsOfFacts
<1>10. Held(<<"tick", s>>) = {}
  BY <1>4, JobsOfFacts DEF Held, TickHolds
<1> QED BY <1>8, <1>9, <1>10 DEF due

LEMMA TickRunBatches ==
  ASSUME BatchInv, NEW s \in Services, NEW j \in Jobs, TickRun(s, j)
  PROVE  BatchInv' /\ AllHold
<1> DEFINE e == [svc |-> s, job |-> j, by |-> "tick", started |-> now]
           b == [tick[s] EXCEPT !.pending = @ \ {j}]
           runs == RunsOf(s, "tick")
<1>1. /\ tick[s].running /\ j \in tick[s].pending /\ Begin(s, j, "tick")
      /\ tick' = [tick EXCEPT ![s] = b]
      /\ UNCHANGED <<now, live, phase, timer, catchup, manual>>
  BY DEF TickRun
<1>2. tick[s] \in Batches /\ BatchTypes
  BY DEF BatchInv, BatchTypes
<1>3. /\ b \in Batches /\ b.pending = tick[s].pending \ {j} /\ b.results = tick[s].results
      /\ b.running = tick[s].running
  BY <1>2 DEF Batches
<1>4. e.job = j /\ "tick" \in Starters /\ \A m \in ManualRuns : m # "tick"
  BY CronAssumption DEF Starters
<1>0. e = [svc |-> s, job |-> j, by |-> "tick", started |-> now]
  OBVIOUS
<1> HIDE DEF b, e, runs
<1>5. /\ execs' \subseteq Execs /\ \A x \in execs' : x.started <= now
      /\ \A q \in Services, by \in {"tick", "start"} :
           RunsOf(q, by)' = IF q = s /\ by = "tick" THEN RunsOf(q, by) \cup {e}
                            ELSE RunsOf(q, by)
      /\ \A m \in ManualRuns :
           RunsFor(m)' = IF m = "tick" THEN RunsFor(m) \cup {e} ELSE RunsFor(m)
  <2>1. BatchTypes /\ "tick" \in Starters /\ Begin(s, j, "tick")
    BY <1>1, <1>2, <1>4
  <2> QED BY ONLY <1>0, <2>1, s \in Services, j \in Jobs, BeginFacts
<1>6. OnceEach("tick", tick[s], runs) /\ Past(b.results, now)
  BY <1>2, <1>3 DEF BatchInv, BatchTypes, BatchOK, runs
<1>7. /\ BatchOK("tick", b, runs \cup {e}, b.running)
      /\ b.pending \cup JobsOf(runs \cup {e}) \cup JobsOf(b.results) = TickHolds(s)
  <2>1. Takes(tick[s], b, e)
    BY <1>1, <1>3, <1>4 DEF Takes
  <2>2. Passes("tick", tick[s], runs, b, runs \cup {e})
    BY ONLY <1>6, <2>1, TakeOne
  <2> QED BY <1>1, <1>3, <2>2 DEF TickHolds, runs, BatchOK, HeldIn, Passes
<1>8. /\ RunsOf(s, "tick")' = runs \cup {e}
      /\ \A q \in Services : /\ RunsOf(q, "start")' = RunsOf(q, "start")
                             /\ q # s => RunsOf(q, "tick")' = RunsOf(q, "tick")
      /\ \A m \in ManualRuns : RunsFor(m)' = RunsFor(m)
  BY <1>4, <1>5 DEF runs
<1>9. BatchInv' /\ OnlyHolder(<<"tick", s>>,
                     b.pending \cup JobsOf(runs \cup {e}) \cup JobsOf(b.results))
  <2>1. timer' \subseteq Services
    BY <1>1, <1>2 DEF BatchTypes
  <2> QED BY <1>1, <1>3, <1>5, <1>6, <1>7, <1>8, <2>1, TickChanges
<1>10. Held(<<"tick", s>>) = TickHolds(s)
  BY DEF Held
<1>11. OnlyHolder(<<"tick", s>>, Held(<<"tick", s>>))
  BY ONLY <1>7, <1>9, <1>10
<1> QED BY ONLY <1>9, <1>11, SameHolder

LEMMA TickApplyBatches ==
  ASSUME BatchInv, NEW s \in Services, TickApply(s)
  PROVE  /\ BatchInv' /\ OnlyHolder(<<"tick", s>>, {})
         /\ Held(<<"tick", s>>) = JobsOf(tick[s].results)
<1>1. /\ TickDone(s) /\ tick' = [tick EXCEPT ![s] = Idle] /\ timer' \in {timer \cup {s}, timer \ {s}}
      /\ UNCHANGED <<now, live, phase, catchup, manual, execs>>
  BY DEF TickApply, ArmTimer
<1>2. tick[s].pending = {} /\ RunsOf(s, "tick") = {}
  BY <1>1 DEF TickDone
<1>3. Idle \in Batches /\ Idle.pending = {} /\ Idle.results = {} /\ ~Idle.running
  BY DEF Idle, Batches
<1>4. /\ \A q \in Services, by \in {"tick", "start"} : RunsOf(q, by)' = RunsOf(q, by)
      /\ \A m \in ManualRuns : RunsFor(m)' = RunsFor(m)
  BY <1>1 DEF RunsOf, RunsFor
<1>5. /\ execs' \subseteq Execs /\ \A e \in execs' : e.started <= now
      /\ timer' \subseteq Services
  BY <1>1 DEF BatchInv, BatchTypes
<1>6. BatchOK("tick", Idle, {}, Idle.running) /\ Past(Idle.results, now)
  BY <1>3, JobsOfFacts DEF BatchOK, OnceEach, Past
<1>7. BatchInv' /\ OnlyHolder(<<"tick", s>>,
                     Idle.pending \cup JobsOf({}) \cup JobsOf(Idle.results))
  <2>2. RunsOf(s, "tick")' = {}
    BY <1>2, <1>4
  <2> QED BY <1>1, <1>3, <1>4, <1>5, <1>6, <2>2, TickChanges
<1>8. Idle.pending \cup JobsOf({}) \cup JobsOf(Idle.results) = {}
  BY <1>3, JobsOfFacts
<1>9. Held(<<"tick", s>>) = JobsOf(tick[s].results)
  BY <1>2, JobsOfFacts DEF Held, TickHolds
<1> QED BY <1>7, <1>8, <1>9

LEMMA ManualEnqueueBatches ==
  ASSUME BatchInv, live \in Services, NEW m \in ManualRuns, NEW j \in Jobs,
         NEW forced \in BOOLEAN, ManualEnqueue(m, j, forced)
  PROVE  BatchInv' /\ AllHold
<1> DEFINE r == [phase |-> "queued", svc |-> live, job |-> j, forced |-> forced, result |-> {}]
<1>1. /\ manual[m].phase = "idle" /\ manual' = [manual EXCEPT ![m] = r]
      /\ UNCHANGED <<now, live, phase, timer, tick, catchup, execs>>
  BY DEF ManualEnqueue
<1>2. BatchTypes
  BY DEF BatchInv
<1>3. r \in Manuals /\ r.phase = "queued" /\ r.result = {}
  BY DEF Manuals
<1> HIDE DEF r
<1>4. RunsFor(m) = {} /\ manual[m].result = {}
  BY <1>1 DEF BatchInv, ManualOK
<1>5. /\ \A q \in Services : /\ RunsOf(q, "tick")' = RunsOf(q, "tick")
                             /\ RunsOf(q, "start")' = RunsOf(q, "start")
      /\ \A n \in ManualRuns : RunsFor(n)' = RunsFor(n)
  BY <1>1 DEF RunsOf, RunsFor
<1>6. /\ execs' \subseteq Execs /\ \A e \in execs' : e.started <= now
      /\ timer' \subseteq Services /\ tick' \in [Services -> Batches]
  BY <1>1, <1>2 DEF BatchTypes
<1>7. \A q \in Services : /\ tick'[q].running = tick[q].running
                          /\ tick'[q].pending = tick[q].pending
                          /\ tick'[q].results = tick[q].results
  BY <1>1
<1>8. BatchInv' /\ OnlyHolder(<<"manual", m>>, JobsOf({}) \cup JobsOf(r.result))
  <2>1. Past(r.result, now) /\ RunsFor(m)' = {}
    BY <1>3, <1>4, <1>5 DEF Past
  <2>2. UNCHANGED <<catchup, phase, now, live>>
    BY <1>1
  <2> QED BY <1>1, <1>3, <1>5, <1>6, <1>7, <2>1, <2>2, ManualChanges
<1>9. Held(<<"manual", m>>) = JobsOf({}) \cup JobsOf(r.result)
  BY <1>3, <1>4 DEF Held, ManualHolds
<1> QED BY <1>8, <1>9, SameHolder

\* The lane starts a manual run, which may find that its job may not run.
LEMMA ManualStartBatches ==
  ASSUME BatchInv, NEW m \in ManualRuns, ManualStart(m)
  PROVE  /\ BatchInv'
         /\ OnlyHolder(<<"manual", m>>,
              IF MayRun(Maintenance(mem[manual[m].svc], now, FALSE), manual[m].job,
                        manual[m].forced)
              THEN {manual[m].job} ELSE {})
         /\ Held(<<"manual", m>>) = {}
         /\ manual[m].svc \in Services /\ manual[m].job \in Jobs
<1> DEFINE r == manual[m]
           st == Maintenance(mem[r.svc], now, FALSE)
<1>1. /\ r.phase = "queued"
      /\ UNCHANGED <<now, live, phase, timer, tick, catchup>>
  BY DEF ManualStart
<1>2. BatchTypes /\ r \in Manuals
  BY DEF BatchInv, BatchTypes
<1>3. r.svc \in Services /\ r.job \in Jobs
  BY <1>1, <1>2 DEF Manuals
<1>4. RunsFor(m) = {} /\ r.result = {}
  BY <1>1 DEF BatchInv, ManualOK
<1>5. Held(<<"manual", m>>) = {}
  BY <1>4, JobsOfFacts DEF Held, ManualHolds
<1>6. /\ timer' \subseteq Services /\ tick' \in [Services -> Batches]
      /\ UNCHANGED <<catchup, phase, now, live>>
  BY <1>1, <1>2 DEF BatchTypes
<1>7. \A q \in Services : /\ tick'[q].running = tick[q].running
                          /\ tick'[q].pending = tick[q].pending
                          /\ tick'[q].results = tick[q].results
  BY <1>1
<1>8. CASE MayRun(st, r.job, r.forced)
  <2> DEFINE e == [svc |-> r.svc, job |-> r.job, by |-> m, started |-> now]
             n == [r EXCEPT !.phase = "running"]
  <2>1. Begin(r.svc, r.job, m) /\ manual' = [manual EXCEPT ![m] = n]
    BY <1>8 DEF ManualStart
  <2>2. /\ n \in Manuals /\ n.phase = "running" /\ n.result = {} /\ n.job = r.job
        /\ n.svc = r.svc
    BY <1>1, <1>2, <1>4 DEF Manuals
  <2>3. e.job = r.job /\ e.svc = r.svc
    OBVIOUS
  <2>0. e = [svc |-> r.svc, job |-> r.job, by |-> m, started |-> now]
    OBVIOUS
  <2> HIDE DEF n, e, r
  <2>4. /\ execs' \subseteq Execs /\ \A x \in execs' : x.started <= now
        /\ \A q \in Services, by \in {"tick", "start"} :
             RunsOf(q, by)' = IF q = r.svc /\ by = m THEN RunsOf(q, by) \cup {e}
                              ELSE RunsOf(q, by)
        /\ \A k \in ManualRuns :
             RunsFor(k)' = IF k = m THEN RunsFor(k) \cup {e} ELSE RunsFor(k)
    <3>1. m \in Starters
      BY DEF Starters
    <3> QED BY ONLY <1>2, <1>3, <2>0, <2>1, <3>1, BeginFacts
  <2>5. /\ \A q \in Services : /\ RunsOf(q, "tick")' = RunsOf(q, "tick")
                               /\ RunsOf(q, "start")' = RunsOf(q, "start")
        /\ \A k \in ManualRuns : k # m => RunsFor(k)' = RunsFor(k)
        /\ RunsFor(m)' = {e}
    <3>1. m # "tick" /\ m # "start"
      BY CronAssumption
    <3> QED BY <1>4, <2>4, <3>1
  <2>6. BatchInv' /\ OnlyHolder(<<"manual", m>>, JobsOf({e}) \cup JobsOf(n.result))
    <3>1. /\ \A x \in {e} : x.job = n.job /\ x.svc = n.svc
          /\ \A x, y \in {e} : x = y
          /\ Past(n.result, now)
      BY <2>2, <2>3 DEF Past
    <3> QED BY <1>6, <1>7, <2>1, <2>2, <2>4, <2>5, <3>1, ManualChanges
  <2>7. JobsOf({e}) \cup JobsOf(n.result) = {r.job}
    BY <2>2, <2>3 DEF JobsOf
  <2> QED BY <1>3, <1>5, <1>8, <2>6, <2>7 DEF r
<1>9. CASE ~MayRun(st, r.job, r.forced)
  <2>1. manual' = [manual EXCEPT ![m] = Over] /\ execs' = execs
    BY <1>9 DEF ManualStart
  <2>2. Over \in Manuals /\ Over.phase = "over" /\ Over.result = {}
    BY DEF Over, NoRun, Manuals
  <2>3. /\ \A q \in Services : /\ RunsOf(q, "tick")' = RunsOf(q, "tick")
                               /\ RunsOf(q, "start")' = RunsOf(q, "start")
        /\ \A n \in ManualRuns : RunsFor(n)' = RunsFor(n)
    BY <2>1 DEF RunsOf, RunsFor
  <2>4. execs' \subseteq Execs /\ \A e \in execs' : e.started <= now
    BY <1>2, <2>1 DEF BatchTypes
  <2>5. BatchInv' /\ OnlyHolder(<<"manual", m>>, JobsOf({}) \cup JobsOf(Over.result))
    <3>1. Past(Over.result, now) /\ RunsFor(m)' = {}
      BY <1>4, <2>2, <2>3 DEF Past
    <3> QED BY <1>6, <1>7, <2>1, <2>2, <2>3, <2>4, <3>1, ManualChanges
  <2>6. JobsOf({}) \cup JobsOf(Over.result) = {}
    BY <2>2, JobsOfFacts
  <2> QED BY <1>3, <1>5, <1>9, <2>5, <2>6
<1> QED BY <1>8, <1>9

LEMMA ManualApplyBatches ==
  ASSUME BatchInv, NEW m \in ManualRuns, ManualApply(m)
  PROVE  /\ BatchInv' /\ OnlyHolder(<<"manual", m>>, {})
         /\ Held(<<"manual", m>>) = {manual[m].job}
         /\ manual[m].svc \in Services /\ manual[m].job \in Jobs
<1> DEFINE r == manual[m]
<1>1. /\ r.phase = "ended" /\ manual' = [manual EXCEPT ![m] = Over]
      /\ tick' = tick \/ tick' = [tick EXCEPT ![r.svc].aliased = FALSE]
      /\ timer' = timer \/ timer' \in {timer \cup {r.svc}, timer \ {r.svc}}
      /\ UNCHANGED <<now, live, phase, catchup, execs>>
  BY DEF ManualApply, ArmTimer
<1>2. BatchTypes /\ r \in Manuals
  BY DEF BatchInv, BatchTypes
<1>3. r.svc \in Services /\ r.job \in Jobs
  BY <1>1, <1>2 DEF Manuals
<1>4. RunsFor(m) = {} /\ \E res \in Recorded : res.job = r.job /\ r.result = {res}
  BY <1>1 DEF BatchInv, ManualOK
<1>5. Held(<<"manual", m>>) = {r.job}
  BY <1>4, JobsOfFacts DEF Held, ManualHolds, JobsOf
<1>6. /\ tick' \in [Services -> Batches]
      /\ \A q \in Services : /\ tick'[q].running = tick[q].running
                             /\ tick'[q].pending = tick[q].pending
                             /\ tick'[q].results = tick[q].results
  <2>0. tick \in [Services -> Batches]
    BY <1>2 DEF BatchTypes
  <2>1. CASE tick' = tick
    BY <2>0, <2>1
  <2>2. CASE tick' = [tick EXCEPT ![r.svc].aliased = FALSE]
    <3> DEFINE b == [tick[r.svc] EXCEPT !.aliased = FALSE]
    <3>1. tick[r.svc] \in Batches
      BY <1>3, <2>0
    <3>2. /\ b \in Batches /\ b.running = tick[r.svc].running
          /\ b.pending = tick[r.svc].pending /\ b.results = tick[r.svc].results
      BY <3>1 DEF Batches
    <3>3. tick' = [tick EXCEPT ![r.svc] = b]
      BY <2>2
    <3> HIDE DEF b, r
    <3> QED BY <2>0, <3>2, <3>3
  <2> QED BY <1>1, <2>1, <2>2
<1>7. Over \in Manuals /\ Over.phase = "over" /\ Over.result = {}
  BY DEF Over, NoRun, Manuals
<1>8. /\ \A q \in Services : /\ RunsOf(q, "tick")' = RunsOf(q, "tick")
                             /\ RunsOf(q, "start")' = RunsOf(q, "start")
      /\ \A n \in ManualRuns : RunsFor(n)' = RunsFor(n)
  BY <1>1 DEF RunsOf, RunsFor
<1>9. /\ execs' \subseteq Execs /\ \A e \in execs' : e.started <= now
      /\ timer' \subseteq Services
  BY <1>1, <1>2, <1>3 DEF BatchTypes
<1>10. BatchInv' /\ OnlyHolder(<<"manual", m>>, JobsOf({}) \cup JobsOf(Over.result))
  <2>1. Past(Over.result, now) /\ RunsFor(m)' = {}
    BY <1>4, <1>7, <1>8 DEF Past
  <2>2. UNCHANGED <<catchup, phase, now, live>>
    BY <1>1
  <2> QED BY <1>1, <1>6, <1>7, <1>8, <1>9, <2>1, <2>2, ManualChanges
<1>11. JobsOf({}) \cup JobsOf(Over.result) = {}
  BY <1>7, JobsOfFacts
<1> QED BY <1>3, <1>5, <1>10, <1>11

LEMMA RemoveFacts ==
  ASSUME BatchTypes, NEW e \in execs, execs' = execs \ {e}, now' = now
  PROVE  /\ execs' \subseteq Execs /\ \A x \in execs' : x.started <= now
         /\ \A q \in Services, b \in {"tick", "start"} :
              RunsOf(q, b)' = IF q = e.svc /\ b = e.by THEN RunsOf(q, b) \ {e} ELSE RunsOf(q, b)
         /\ \A m \in ManualRuns :
              RunsFor(m)' = IF m = e.by THEN RunsFor(m) \ {e} ELSE RunsFor(m)
BY DEF BatchTypes, RunsOf, RunsFor

\* A run that ends is not lost: its outcome waits where the run was.
LEMMA EndRunBatches ==
  ASSUME BatchInv, NEW e \in execs, NEW outcome \in Outcomes, EndRun(e, outcome)
  PROVE  BatchInv' /\ AllHold
<1> DEFINE res == [job |-> e.job, by |-> e.by, outcome |-> outcome,
                   started |-> e.started, ended |-> now]
<1>1. /\ execs' = execs \ {e}
      /\ tick' = IF e.by = "tick"
                 THEN [tick EXCEPT ![e.svc].results = @ \cup {res}] ELSE tick
      /\ catchup' = IF e.by = "start"
                    THEN [catchup EXCEPT ![e.svc].results = @ \cup {res}] ELSE catchup
      /\ manual' = IF e.by \in ManualRuns
                   THEN [manual EXCEPT ![e.by].phase = "ended", ![e.by].result = {res}]
                   ELSE manual
      /\ UNCHANGED <<now, live, phase, timer>>
  BY DEF EndRun
<1>2. BatchTypes
  BY DEF BatchInv
<1>3. /\ e.svc \in Services /\ e.job \in Jobs /\ e.by \in Starters /\ e.started \in Nat
      /\ e.started <= now /\ now \in Nat
  BY <1>2 DEF BatchTypes, Execs
<1>4. res \in Recorded
  BY <1>3 DEF Recorded
<1>5. res.job = e.job /\ res.by = e.by /\ Past({res}, now)
  BY <1>3 DEF Past
<1>6. \A m \in ManualRuns : m # "tick" /\ m # "start"
  BY CronAssumption
<1> HIDE DEF res
<1>7. /\ execs' \subseteq Execs /\ \A x \in execs' : x.started <= now
      /\ \A q \in Services, b \in {"tick", "start"} :
           RunsOf(q, b)' = IF q = e.svc /\ b = e.by THEN RunsOf(q, b) \ {e} ELSE RunsOf(q, b)
      /\ \A m \in ManualRuns :
           RunsFor(m)' = IF m = e.by THEN RunsFor(m) \ {e} ELSE RunsFor(m)
  BY <1>1, <1>2, RemoveFacts
<1>8. timer' \subseteq Services
  BY <1>1, <1>2 DEF BatchTypes
<1>9. CASE e.by = "tick"
  <2> DEFINE s == e.svc
             b == [tick[s] EXCEPT !.results = @ \cup {res}]
             runs == RunsOf(s, "tick")
  <2>1. tick[s] \in Batches /\ e \in runs
    BY <1>2, <1>3, <1>9 DEF BatchTypes, RunsOf
  <2>2. /\ b \in Batches /\ b.pending = tick[s].pending /\ b.running = tick[s].running
        /\ b.results = tick[s].results \cup {res}
    BY <1>4, <2>1 DEF Batches
  <2>3. tick' = [tick EXCEPT ![s] = b] /\ UNCHANGED <<catchup, manual, phase, now, live>>
    BY <1>1, <1>6, <1>9
  <2> HIDE DEF b, runs, s
  <2>4. s \in Services /\ s = e.svc
    BY <1>3 DEF s
  <2>5. OnceEach("tick", tick[s], runs) /\ tick[s].running /\ Past(tick[s].results, now)
    BY <1>2, <2>1, <2>4 DEF BatchInv, BatchTypes, BatchOK, runs
  <2>6. Ends("tick", tick[s], b, e, res)
    BY <1>5, <1>9, <2>2 DEF Ends
  <2>7. Passes("tick", tick[s], runs, b, runs \ {e})
    BY ONLY <2>1, <2>5, <2>6, EndOne
  <2>8. BatchOK("tick", b, runs \ {e}, b.running) /\ Past(b.results, now)
    BY <1>5, <2>2, <2>5, <2>7 DEF BatchOK, Past, Passes
  <2>9. /\ \A q \in Services : /\ RunsOf(q, "start")' = RunsOf(q, "start")
                               /\ q # s => RunsOf(q, "tick")' = RunsOf(q, "tick")
        /\ \A m \in ManualRuns : RunsFor(m)' = RunsFor(m)
        /\ RunsOf(s, "tick")' = runs \ {e}
    BY <1>6, <1>7, <1>9, <2>4 DEF runs
  <2>10. /\ BatchInv'
         /\ OnlyHolder(<<"tick", s>>, b.pending \cup JobsOf(runs \ {e}) \cup JobsOf(b.results))
    BY <1>7, <1>8, <2>2, <2>3, <2>4, <2>8, <2>9, TickChanges
  <2>11. Held(<<"tick", s>>) = b.pending \cup JobsOf(runs \ {e}) \cup JobsOf(b.results)
    BY <2>7 DEF Held, TickHolds, HeldIn, Passes, runs
  <2> QED BY <2>10, <2>11, SameHolder
<1>10. CASE e.by = "start"
  <2> DEFINE s == e.svc
             b == [catchup[s] EXCEPT !.results = @ \cup {res}]
             runs == RunsOf(s, "start")
             f == phase[s]
  <2>1. catchup[s] \in Plans /\ e \in runs /\ f \in Phases /\ phase \in [Services -> Phases]
    BY <1>2, <1>3, <1>10 DEF BatchTypes, RunsOf
  <2>2. /\ b \in Plans /\ b.pending = catchup[s].pending
        /\ b.results = catchup[s].results \cup {res}
    BY <1>4, <2>1 DEF Plans
  <2>3. catchup' = [catchup EXCEPT ![s] = b] /\ UNCHANGED <<tick, manual, timer, now, live>>
    BY <1>1, <1>6, <1>10
  <2> HIDE DEF b, runs, s
  <2>4. s \in Services /\ s = e.svc
    BY <1>3 DEF s
  <2>5. OnceEach("start", catchup[s], runs) /\ f = "catchup" /\ Past(catchup[s].results, now)
    BY <1>2, <2>1, <2>4 DEF BatchInv, BatchTypes, BatchOK, runs
  <2>6. Ends("start", catchup[s], b, e, res)
    BY <1>5, <1>10, <2>2 DEF Ends
  <2>7. Passes("start", catchup[s], runs, b, runs \ {e})
    BY ONLY <2>1, <2>5, <2>6, EndOne
  <2>8. BatchOK("start", b, runs \ {e}, f = "catchup") /\ Past(b.results, now)
    BY <1>5, <2>2, <2>5, <2>7 DEF BatchOK, Past, Passes
  <2>9. /\ \A q \in Services : /\ RunsOf(q, "tick")' = RunsOf(q, "tick")
                               /\ q # s => RunsOf(q, "start")' = RunsOf(q, "start")
        /\ \A m \in ManualRuns : RunsFor(m)' = RunsFor(m)
        /\ RunsOf(s, "start")' = runs \ {e}
    BY <1>6, <1>7, <1>10, <2>4 DEF runs
  <2>12. phase' = [phase EXCEPT ![s] = f] /\ f # "off" /\ phase[s] # "off"
    BY <1>1, <2>1, <2>5
  <2> HIDE DEF f
  <2>10. /\ BatchInv'
         /\ OnlyHolder(<<"start", s>>, b.pending \cup JobsOf(runs \ {e}) \cup JobsOf(b.results))
    BY <1>7, <2>1, <2>2, <2>3, <2>4, <2>8, <2>9, <2>12, PlanChanges
  <2>11. Held(<<"start", s>>) = b.pending \cup JobsOf(runs \ {e}) \cup JobsOf(b.results)
    BY <2>7 DEF Held, StartHolds, HeldIn, Passes, runs
  <2> QED BY <2>10, <2>11, SameHolder
<1>11. CASE e.by \in ManualRuns
  <2> DEFINE m == e.by
             r == [manual[m] EXCEPT !.phase = "ended", !.result = {res}]
  <2>1. manual[m] \in Manuals /\ e \in RunsFor(m)
    BY <1>2, <1>11 DEF BatchTypes, RunsFor
  <2>2. /\ manual[m].phase = "running" /\ e.job = manual[m].job /\ manual[m].result = {}
        /\ \A x \in RunsFor(m) : x = e
    BY <1>11, <2>1 DEF BatchInv, ManualOK
  <2>3. r \in Manuals /\ r.phase = "ended" /\ r.result = {res} /\ r.job = manual[m].job
    BY <1>4, <2>1, <2>2 DEF Manuals
  <2>4. /\ manual' = [manual EXCEPT ![m] = r]
        /\ UNCHANGED <<tick, catchup, phase, now, live>>
    BY <1>1, <1>6, <1>11
  <2> HIDE DEF r, m
  <2>5. m \in ManualRuns /\ m = e.by
    BY <1>11 DEF m
  <2>6. /\ \A q \in Services : /\ RunsOf(q, "tick")' = RunsOf(q, "tick")
                               /\ RunsOf(q, "start")' = RunsOf(q, "start")
        /\ \A k \in ManualRuns : k # m => RunsFor(k)' = RunsFor(k)
        /\ RunsFor(m)' = {}
    BY <1>6, <1>7, <2>2, <2>5
  <2>7. /\ tick' \in [Services -> Batches]
        /\ \A q \in Services : /\ tick'[q].running = tick[q].running
                               /\ tick'[q].pending = tick[q].pending
                               /\ tick'[q].results = tick[q].results
    BY <1>2, <2>4 DEF BatchTypes
  <2>8. \E x \in Recorded : x.job = r.job /\ x.by = m /\ r.result = {x}
    BY <1>4, <1>5, <2>2, <2>3, <2>5
  <2>9. Past(r.result, now)
    BY <1>5, <2>3
  <2>10. BatchInv' /\ OnlyHolder(<<"manual", m>>, JobsOf({}) \cup JobsOf(r.result))
    BY <1>7, <1>8, <2>3, <2>4, <2>5, <2>6, <2>7, <2>8, <2>9, ManualChanges
  <2>11. Held(<<"manual", m>>) = JobsOf({}) \cup JobsOf(r.result)
    <3>1. JobsOf(r.result) = {e.job} /\ JobsOf({}) = {} /\ JobsOf(manual[m].result) = {}
      BY <1>5, <2>2, <2>3 DEF JobsOf
    <3>2. JobsOf(RunsFor(m)) = {e.job}
      BY <2>1, <2>2 DEF JobsOf
    <3> QED BY <3>1, <3>2 DEF Held, ManualHolds
  <2> QED BY <2>10, <2>11, SameHolder
<1> QED BY <1>3, <1>9, <1>10, <1>11 DEF Starters

LEMMA CrashBatches ==
  ASSUME BatchInv, Crash
  PROVE  BatchInv' /\ \A h \in Holders : Held(h)' = {}
<1>1. /\ live' = 1 /\ timer' = {} /\ execs' = {} /\ now' = now
      /\ phase' = [s \in Services |-> IF s = 1 THEN "new" ELSE "off"]
      /\ tick' = [s \in Services |-> Idle] /\ catchup' = [s \in Services |-> NoPlan]
      /\ manual' = [m \in ManualRuns |-> IF manual[m].phase = "idle" THEN NoRun ELSE Over]
  BY DEF Crash
<1>2. /\ Idle \in Batches /\ Idle.pending = {} /\ Idle.results = {} /\ ~Idle.running
      /\ NoPlan \in Plans /\ NoPlan.pending = {} /\ NoPlan.results = {}
  BY DEF Idle, Batches, NoPlan, Plans
<1>3. /\ NoRun \in Manuals /\ NoRun.phase = "idle" /\ NoRun.result = {}
      /\ Over \in Manuals /\ Over.phase = "over" /\ Over.result = {}
  BY DEF NoRun, Over, Manuals
<1>4. BatchTypes'
  <2>1. phase' \in [Services -> Phases]
    BY <1>1 DEF Phases
  <2>2. tick' \in [Services -> Batches] /\ catchup' \in [Services -> Plans]
    BY <1>1, <1>2
  <2>3. manual' \in [ManualRuns -> Manuals]
    BY <1>1, <1>3
  <2>4. /\ \A s \in Services : Past(tick'[s].results, now') /\ Past(catchup'[s].results, now')
        /\ \A m \in ManualRuns : Past(manual'[m].result, now')
    BY <1>1, <1>2, <1>3 DEF Past
  <2>5. now' \in Nat
    BY <1>1 DEF BatchInv, BatchTypes
  <2> QED BY <1>1, <2>1, <2>2, <2>3, <2>4, <2>5 DEF BatchTypes
<1>5. /\ \A s \in Services, by \in {"tick", "start"} : RunsOf(s, by)' = {}
      /\ \A m \in ManualRuns : RunsFor(m)' = {}
  BY <1>1 DEF RunsOf, RunsFor
<1>6. ASSUME NEW s \in Services
      PROVE  /\ BatchOK("tick", tick[s], RunsOf(s, "tick"), tick[s].running)'
             /\ BatchOK("start", catchup[s], RunsOf(s, "start"), phase[s] = "catchup")'
             /\ s > live' => phase'[s] = "off"
             /\ TickHolds(s)' = {} /\ StartHolds(s)' = {}
  <2>1. tick'[s] = Idle /\ catchup'[s] = NoPlan /\ phase'[s] # "catchup"
    BY <1>1
  <2>2. s > live' => phase'[s] = "off"
    BY <1>1
  <2> QED BY <1>2, <1>5, <2>1, <2>2, JobsOfFacts
          DEF BatchOK, OnceEach, TickHolds, StartHolds
<1>7. ASSUME NEW m \in ManualRuns PROVE ManualOK(m)' /\ ManualHolds(m)' = {}
  <2>1. manual'[m] = NoRun \/ manual'[m] = Over
    BY <1>1
  <2> QED BY <1>3, <1>5, <2>1, JobsOfFacts DEF ManualOK, ManualHolds
<1>8. \A h \in Holders : Held(h)' = {}
  <2> SUFFICES ASSUME NEW h \in Holders PROVE Held(h)' = {}
    OBVIOUS
  <2>1. \/ \E s \in Services : h = <<"tick", s>>
        \/ \E s \in Services : h = <<"start", s>>
        \/ \E m \in ManualRuns : h = <<"manual", m>>
    BY DEF Holders
  <2> QED BY <1>6, <1>7, <2>1 DEF Held
<1> QED BY <1>4, <1>6, <1>7, <1>8 DEF BatchInv

-----------------------------------------------------------------------------
(* What a section of the lock makes of a store. *)

\* n is a after the runs of js were marked and the results of rs applied: no job is added
\* or enabled, and a marker is dropped only with its run, its enabled flag, or as stuck.
Derived(a, n, js, rs) ==
    /\ DOMAIN n \subseteq DOMAIN a /\ DOMAIN a \ DOMAIN n \subseteq rs
    /\ \A j \in DOMAIN n :
         /\ n[j].enabled => a[j].enabled
         /\ j \in rs => n[j].runningAt = Undefined
         /\ j \notin rs =>
              /\ n[j].enabled = a[j].enabled
              /\ j \in js => n[j].runningAt = now
              /\ j \notin js => n[j].runningAt \in {Undefined, a[j].runningAt}
              /\ j \notin js /\ a[j].enabled /\ ~Stuck(a[j], now)
                   => n[j].runningAt = a[j].runningAt

\* Slots of enabled jobs are kept.
KeepsSlots(a, n, rs) ==
    \A j \in DOMAIN n \ rs : j \in DOMAIN a /\ (a[j].enabled => n[j].next = a[j].next)

LEMMA DerivedIfRepaired ==
  ASSUME NEW a, NEW n, Repaired(a, n, now)
  PROVE  Derived(a, n, {}, {}) /\ KeepsSlots(a, n, {})
BY DEF Repaired, Derived, KeepsSlots

LEMMA DerivedThenRepaired ==
  ASSUME NEW a, NEW b, NEW n, NEW rs, Derived(a, b, {}, rs), Repaired(b, n, now)
  PROVE  /\ Derived(a, n, {}, rs)
         /\ KeepsSlots(a, b, rs) => KeepsSlots(a, n, rs)
<1>1. DOMAIN n = DOMAIN b /\ DOMAIN b \subseteq DOMAIN a /\ DOMAIN a \ DOMAIN n \subseteq rs
  BY DEF Derived, Repaired
<1>2. ASSUME NEW j \in DOMAIN n
      PROVE  /\ n[j].enabled => a[j].enabled
             /\ j \in rs => n[j].runningAt = Undefined
             /\ j \notin rs =>
                  /\ n[j].enabled = a[j].enabled
                  /\ n[j].runningAt \in {Undefined, a[j].runningAt}
                  /\ a[j].enabled /\ ~Stuck(a[j], now) => n[j].runningAt = a[j].runningAt
  <2>1. /\ n[j].enabled = b[j].enabled
        /\ n[j].runningAt \in {Undefined, b[j].runningAt}
        /\ b[j].enabled /\ ~Stuck(b[j], now) => n[j].runningAt = b[j].runningAt
    BY <1>1 DEF Repaired
  <2>2. /\ b[j].enabled => a[j].enabled
        /\ j \in rs => b[j].runningAt = Undefined
        /\ j \notin rs =>
             /\ b[j].enabled = a[j].enabled
             /\ b[j].runningAt \in {Undefined, a[j].runningAt}
             /\ a[j].enabled /\ ~Stuck(a[j], now) => b[j].runningAt = a[j].runningAt
    BY <1>1 DEF Derived
  <2> QED BY <2>1, <2>2 DEF Stuck
<1>3. ASSUME KeepsSlots(a, b, rs) PROVE KeepsSlots(a, n, rs)
  <2> SUFFICES ASSUME NEW j \in DOMAIN n \ rs
               PROVE  j \in DOMAIN a /\ (a[j].enabled => n[j].next = a[j].next)
    BY DEF KeepsSlots
  <2>1. j \in DOMAIN b \ rs /\ (b[j].enabled => n[j].next = b[j].next)
    BY <1>1 DEF Repaired
  <2>2. j \in DOMAIN a /\ (a[j].enabled => b[j].next = a[j].next)
    BY <1>3, <2>1 DEF KeepsSlots
  <2>3. b[j].enabled = a[j].enabled
    BY <2>1 DEF Derived
  <2> QED BY <2>1, <2>2, <2>3
<1> QED BY <1>1, <1>2, <1>3 DEF Derived

\* What the sections write.
LEMMA RepairWrites ==
  ASSUME NEW a, Sound(a, now), now \in Nat, NEW flag \in BOOLEAN
  PROVE  LET n == Maintenance(a, now, flag)
         IN  Sound(n, now) /\ Derived(a, n, {}, {}) /\ KeepsSlots(a, n, {})
<1> DEFINE n == Maintenance(a, now, flag)
<1>1. Sound(n, now) /\ Repaired(a, n, now)
  BY MaintenanceFacts
<1> QED BY <1>1, DerivedIfRepaired

LEMMA MarkWrites ==
  ASSUME NEW a, Sound(a, now), now \in Nat, NEW js
  PROVE  LET n == Mark(a, js)
         IN  Sound(n, now) /\ Derived(a, n, js, {}) /\ KeepsSlots(a, n, {})
<1> DEFINE n == Mark(a, js)
<1>1. /\ Sound(n, now) /\ DOMAIN n = DOMAIN a
      /\ \A j \in DOMAIN a :
           /\ n[j].enabled = a[j].enabled /\ n[j].next = a[j].next
           /\ n[j].runningAt = IF j \in js THEN now ELSE a[j].runningAt
  BY MarkFacts
<1> HIDE DEF n
<1>2. Derived(a, n, js, {}) /\ KeepsSlots(a, n, {})
  BY <1>1 DEF Derived, KeepsSlots
<1> QED BY <1>1, <1>2 DEF n

LEMMA ReserveWrites ==
  ASSUME NEW a, Sound(a, now), now \in Nat, NEW js
  PROVE  LET n == Mark(Maintenance(a, now, FALSE), js)
         IN  Sound(n, now) /\ Derived(a, n, js, {}) /\ KeepsSlots(a, n, {})
<1> DEFINE b == Maintenance(a, now, FALSE)
           n == Mark(b, js)
<1>1. Sound(b, now) /\ Repaired(a, b, now)
  BY MaintenanceFacts
<1> HIDE DEF b
<1>2. /\ Sound(n, now) /\ DOMAIN n = DOMAIN b
      /\ \A j \in DOMAIN b :
           /\ n[j].enabled = b[j].enabled /\ n[j].next = b[j].next
           /\ n[j].runningAt = IF j \in js THEN now ELSE b[j].runningAt
  BY <1>1, MarkFacts
<1> HIDE DEF n
<1>3. Derived(a, n, js, {})
  <2>1. ASSUME NEW j \in DOMAIN n
        PROVE  /\ n[j].enabled = a[j].enabled
               /\ j \in js => n[j].runningAt = now
               /\ j \notin js => n[j].runningAt \in {Undefined, a[j].runningAt}
               /\ j \notin js /\ a[j].enabled /\ ~Stuck(a[j], now)
                    => n[j].runningAt = a[j].runningAt
    <3>1. j \in DOMAIN b /\ j \in DOMAIN a
      BY <1>1, <1>2 DEF Repaired
    <3> QED BY <1>1, <1>2, <3>1 DEF Repaired
  <2>2. DOMAIN n = DOMAIN a
    BY <1>1, <1>2 DEF Repaired
  <2> QED BY <2>1, <2>2 DEF Derived
<1>4. KeepsSlots(a, n, {})
  BY <1>1, <1>2 DEF Repaired, KeepsSlots
<1> QED BY <1>2, <1>3, <1>4 DEF n, b

LEMMA ClearWrites ==
  ASSUME NEW a, Sound(a, now), now \in Nat
  PROVE  LET n == [j \in DOMAIN a |-> ClearMark(a[j])]
         IN  /\ Sound(n, now) /\ DOMAIN n = DOMAIN a /\ KeepsSlots(a, n, {})
             /\ \A j \in DOMAIN a : n[j].enabled = a[j].enabled /\ n[j].runningAt = Undefined
<1> DEFINE n == [j \in DOMAIN a |-> ClearMark(a[j])]
<1>1. /\ Sound(n, now) /\ DOMAIN n = DOMAIN a
      /\ \A j \in DOMAIN a :
           /\ n[j].enabled = a[j].enabled /\ n[j].next = a[j].next
           /\ n[j].runningAt = Undefined
  BY ClearFacts
<1> HIDE DEF n
<1>2. KeepsSlots(a, n, {})
  BY <1>1 DEF KeepsSlots
<1> QED BY <1>1, <1>2 DEF n

LEMMA ArmWrites ==
  ASSUME NEW a, Sound(a, now), now \in Nat
  PROVE  LET n == RecomputeNextRuns(a, now)
         IN  Sound(n, now) /\ Derived(a, n, {}, {})
<1> DEFINE n == RecomputeNextRuns(a, now)
<1>1. /\ Sound(n, now) /\ DOMAIN n = DOMAIN a
      /\ \A j \in DOMAIN a :
           /\ n[j].enabled = a[j].enabled
           /\ n[j].runningAt \in {Undefined, a[j].runningAt}
           /\ a[j].enabled /\ ~Stuck(a[j], now) => n[j].runningAt = a[j].runningAt
  BY RecomputeFacts
<1> HIDE DEF n
<1>2. Derived(a, n, {}, {})
  BY <1>1 DEF Derived
<1> QED BY <1>1, <1>2 DEF n

\* The one-shots that have succeeded are disabled, or gone.
Retired(n, results) == \A j \in Succeeded(results) \cap DOMAIN n : ~n[j].enabled

LEMMA OutcomesWrite ==
  ASSUME NEW a, Sound(a, now), now \in Nat, NEW results \in SUBSET Recorded,
         Past(results, now), \A x, y \in results : x.job = y.job => x = y
  PROVE  LET n == ApplyOutcomes(a, results)
         IN  /\ Sound(n, now) /\ Derived(a, n, {}, JobsOf(results))
             /\ KeepsSlots(a, n, JobsOf(results)) /\ Retired(n, results)
<1> DEFINE n == ApplyOutcomes(a, results)
           rs == JobsOf(results)
<1>1. /\ Sound(n, now) /\ DOMAIN n \subseteq DOMAIN a
      /\ \A j \in DOMAIN a : j \notin rs => j \in DOMAIN n /\ n[j] = a[j]
      /\ \A j \in DOMAIN n : j \in rs =>
           /\ n[j].runningAt = Undefined
           /\ n[j].enabled => a[j].enabled /\ n[j].next > n[j].lastRun
      /\ \A res \in results :
           (/\ res.job \in OneShots /\ res.outcome = "ok" /\ res.job \in DOMAIN n
            /\ \A other \in results : other.job = res.job => other = res)
           => ~n[res.job].enabled
  BY OutcomesFacts
<1> HIDE DEF n, rs
<1>2. Derived(a, n, {}, rs) /\ KeepsSlots(a, n, rs)
  BY <1>1 DEF Derived, KeepsSlots
<1>3. Retired(n, results)
  <2> SUFFICES ASSUME NEW j \in Succeeded(results) \cap DOMAIN n PROVE ~n[j].enabled
    BY DEF Retired
  <2>1. PICK res \in results : res.outcome = "ok" /\ j = res.job /\ j \in OneShots
    BY DEF Succeeded
  <2> QED BY <1>1, <2>1
<1> QED BY <1>1, <1>2, <1>3 DEF n, rs

LEMMA RetiredIfRepaired ==
  ASSUME NEW b, NEW n, NEW results, Retired(b, results), Repaired(b, n, now)
  PROVE  Retired(n, results)
BY DEF Retired, Repaired

LEMMA TickWrites ==
  ASSUME NEW a, Sound(a, now), now \in Nat, NEW results \in SUBSET Recorded,
         Past(results, now), \A x, y \in results : x.job = y.job => x = y
  PROVE  LET n == Maintenance(ApplyOutcomes(a, results), now, FALSE)
         IN  /\ Sound(n, now) /\ Derived(a, n, {}, JobsOf(results))
             /\ KeepsSlots(a, n, JobsOf(results)) /\ Retired(n, results)
<1> DEFINE b == ApplyOutcomes(a, results)
           n == Maintenance(b, now, FALSE)
           rs == JobsOf(results)
<1>1. Sound(b, now) /\ Derived(a, b, {}, rs) /\ KeepsSlots(a, b, rs) /\ Retired(b, results)
  BY OutcomesWrite
<1> HIDE DEF b, rs
<1>2. Sound(n, now) /\ Repaired(b, n, now)
  BY <1>1, MaintenanceFacts
<1> HIDE DEF n
<1>3. Derived(a, n, {}, rs) /\ KeepsSlots(a, n, rs)
  BY <1>1, <1>2, DerivedThenRepaired
<1>4. Retired(n, results)
  BY <1>1, <1>2, RetiredIfRepaired
<1> QED BY <1>2, <1>3, <1>4 DEF n, b, rs

\* applyStartupCatchupOutcomes moves the slots of the jobs it defers.
LEMMA CatchupWrites ==
  ASSUME NEW a, Sound(a, now), now \in Nat, NEW results \in SUBSET Recorded,
         Past(results, now), \A x, y \in results : x.job = y.job => x = y, NEW later
  PROVE  LET applied == ApplyOutcomes(a, results)
             deferred == [j \in DOMAIN applied |->
                            IF j \in later /\ applied[j].enabled
                            THEN [applied[j] EXCEPT !.next = now + 1] ELSE applied[j]]
             n == Maintenance(deferred, now, FALSE)
         IN  Sound(n, now) /\ Derived(a, n, {}, JobsOf(results)) /\ Retired(n, results)
<1> DEFINE b == ApplyOutcomes(a, results)
           c == [j \in DOMAIN b |-> IF j \in later /\ b[j].enabled
                                    THEN [b[j] EXCEPT !.next = now + 1] ELSE b[j]]
           n == Maintenance(c, now, FALSE)
           rs == JobsOf(results)
<1>1. Sound(b, now) /\ Derived(a, b, {}, rs) /\ Retired(b, results)
  BY OutcomesWrite
<1> HIDE DEF b, rs
<1>2. /\ Sound(c, now) /\ DOMAIN c = DOMAIN b
      /\ \A j \in DOMAIN b : /\ c[j].enabled = b[j].enabled
                             /\ c[j].runningAt = b[j].runningAt
  BY <1>1, DeferFacts
<1> HIDE DEF c
<1>3. Derived(a, c, {}, rs) /\ Retired(c, results)
  BY <1>1, <1>2 DEF Derived, Retired
<1>4. Sound(n, now) /\ Repaired(c, n, now)
  BY <1>2, MaintenanceFacts
<1> HIDE DEF n
<1>5. Derived(a, n, {}, rs) /\ Retired(n, results)
  BY <1>3, <1>4, DerivedThenRepaired, RetiredIfRepaired
<1> QED BY <1>4, <1>5 DEF n, c, b, rs

\* finishPreparedManualRun writes to the file what it applied to the memory st.
LEMMA MergeWrites ==
  ASSUME now \in Nat, Sound(store, now), NEW st, Sound(st, now),
         NEW res \in Recorded, Past({res}, now), res.job \in DOMAIN st
  PROVE  LET n == Maintenance(MergeManual(res.job, ApplyOutcomes(st, {res})), now, TRUE)
         IN  /\ Sound(n, now) /\ KeepsSlots(store, n, {res.job}) /\ Retired(n, {res})
             /\ (res.job \in DOMAIN store /\ st[res.job].enabled => store[res.job].enabled)
                  => Derived(store, n, {}, {res.job})
<1> DEFINE b == MergeManual(res.job, ApplyOutcomes(st, {res}))
           n == Maintenance(b, now, TRUE)
           i == res.job
<1>1. /\ Sound(b, now) /\ DOMAIN b \subseteq DOMAIN store
      /\ \A j \in DOMAIN store : j # i => j \in DOMAIN b /\ b[j] = store[j]
      /\ i \in DOMAIN b =>
           /\ b[i].runningAt = Undefined
           /\ b[i].enabled => st[i].enabled
           /\ i \in OneShots /\ res.outcome = "ok" => ~b[i].enabled
  BY MergeFacts
<1>2. Sound(n, now) /\ Repaired(b, n, now)
  BY <1>1, MaintenanceFacts
<1> HIDE DEF b, n
<1>3. KeepsSlots(store, b, {i}) /\ DOMAIN n = DOMAIN b
  BY <1>1, <1>2 DEF KeepsSlots, Repaired
<1>4. KeepsSlots(store, n, {i})
  <2> SUFFICES ASSUME NEW j \in DOMAIN n \ {i}
               PROVE  j \in DOMAIN store /\ (store[j].enabled => n[j].next = store[j].next)
    BY DEF KeepsSlots
  <2>1. j \in DOMAIN b /\ j \in DOMAIN store /\ b[j] = store[j]
    BY <1>1, <1>3
  <2> QED BY <1>2, <2>1 DEF Repaired
<1>5. Retired(b, {res})
  BY <1>1 DEF Retired, Succeeded
<1>6. Retired(n, {res})
  BY <1>2, <1>5, RetiredIfRepaired
<1>7. ASSUME i \in DOMAIN store /\ st[i].enabled => store[i].enabled
      PROVE  Derived(store, n, {}, {i})
  <2>1. Derived(store, b, {}, {i})
    BY <1>1, <1>7 DEF Derived
  <2> QED BY <1>2, <2>1, DerivedThenRepaired
<1> QED BY <1>2, <1>4, <1>6, <1>7 DEF n, b, i

\* A job is added with its first run time, and the others are recomputed.
LEMMA AddWrites ==
  ASSUME NEW a, Sound(a, now), now \in Nat, NEW j \in Jobs
  PROVE  LET added == [i \in DOMAIN a \cup {j} |->
                         IF i = j THEN Recompute(j, NewJob(j), now) ELSE a[i]]
             n == RecomputeNextRuns(added, now)
         IN  /\ Sound(n, now) /\ DOMAIN n = DOMAIN a \cup {j}
             /\ n[j].runningAt = Undefined
             /\ \A i \in DOMAIN a \ {j} :
                  /\ n[i].enabled = a[i].enabled
                  /\ n[i].runningAt \in {Undefined, a[i].runningAt}
                  /\ a[i].enabled /\ ~Stuck(a[i], now) => n[i].runningAt = a[i].runningAt
<1> DEFINE r == NewJob(j)
           x == Recompute(j, r, now)
           added == [i \in DOMAIN a \cup {j} |-> IF i = j THEN x ELSE a[i]]
           n == RecomputeNextRuns(added, now)
<1>1. r \in Job /\ r.lastRun = 0 /\ r.runningAt = Undefined
  <2>1. FirstAt \in Nat
    BY CronAssumption
  <2> QED BY <2>1 DEF NewJob, Job, Statuses, Undefined
<1> HIDE DEF r
<1>2. /\ x \in Job /\ x.runningAt = r.runningAt /\ x.lastRun = r.lastRun /\ Sane(j, x)
  <2>1. r.lastRun <= now
    BY <1>1
  <2> QED BY <1>1, <2>1, RecomputeIsSane
<1> HIDE DEF x
<1>3. DOMAIN added = DOMAIN a \cup {j} /\ added[j] = x
      /\ \A i \in DOMAIN a \ {j} : added[i] = a[i]
  OBVIOUS
<1> HIDE DEF added
<1>4. Sound(added, now)
  <2>1. ASSUME NEW i \in DOMAIN added
        PROVE  added[i] \in Job /\ Sane(i, added[i]) /\ added[i].lastRun <= now /\ i \in Jobs
    <3>1. CASE i = j
      BY <1>1, <1>2, <1>3, <3>1
    <3>2. CASE i # j
      <4>1. i \in DOMAIN a /\ added[i] = a[i]
        BY <1>3, <3>2
      <4> QED BY <4>1 DEF Sound, IsStore
    <3> QED BY <3>1, <3>2
  <2> QED BY <2>1 DEF Sound, IsStore
<1>5. /\ Sound(n, now) /\ DOMAIN n = DOMAIN added
      /\ \A i \in DOMAIN added :
           /\ n[i].enabled = added[i].enabled
           /\ n[i].runningAt \in {Undefined, added[i].runningAt}
           /\ added[i].enabled /\ ~Stuck(added[i], now)
                => n[i].runningAt = added[i].runningAt
  BY <1>4, RecomputeFacts
<1> HIDE DEF n
<1>6. n[j].runningAt = Undefined
  BY <1>1, <1>2, <1>3, <1>5
<1>7. \A i \in DOMAIN a \ {j} :
        /\ n[i].enabled = a[i].enabled
        /\ n[i].runningAt \in {Undefined, a[i].runningAt}
        /\ a[i].enabled /\ ~Stuck(a[i], now) => n[i].runningAt = a[i].runningAt
  BY <1>3, <1>5
<1> QED BY <1>3, <1>5, <1>6, <1>7 DEF n, added, x, r

LEMMA UpdateWrites ==
  ASSUME NEW a, Sound(a, now), now \in Nat, NEW j \in DOMAIN a, NEW patch \in Patches
  PROVE  LET n == [a EXCEPT ![j] = Patched(j, a[j], patch)]
         IN  /\ Sound(n, now) /\ DOMAIN n = DOMAIN a
             /\ \A i \in DOMAIN a : i # j => n[i] = a[i]
             /\ n[j].enabled => a[j].enabled \/ patch = "enable"
             /\ n[j].runningAt \in {Undefined, a[j].runningAt}
             /\ n[j].enabled => n[j].runningAt = a[j].runningAt
<1> DEFINE p == Patched(j, a[j], patch)
           n == [a EXCEPT ![j] = p]
<1>1. a[j] \in Job /\ Sane(j, a[j]) /\ a[j].lastRun <= now /\ j \in Jobs
  BY DEF Sound, IsStore
<1>2. /\ p \in Job /\ Sane(j, p) /\ p.lastRun <= now
      /\ p.enabled => a[j].enabled \/ patch = "enable"
      /\ p.runningAt \in {Undefined, a[j].runningAt}
      /\ p.enabled => p.runningAt = a[j].runningAt
  BY <1>1, PatchedFacts
<1> HIDE DEF p
<1>3. DOMAIN n = DOMAIN a /\ n[j] = p /\ \A i \in DOMAIN a : i # j => n[i] = a[i]
  OBVIOUS
<1> HIDE DEF n
<1>4. Sound(n, now)
  <2>1. ASSUME NEW i \in DOMAIN n
        PROVE  n[i] \in Job /\ Sane(i, n[i]) /\ n[i].lastRun <= now /\ i \in Jobs
    <3>1. CASE i = j
      BY <1>1, <1>2, <1>3, <3>1
    <3>2. CASE i # j
      <4>1. i \in DOMAIN a /\ n[i] = a[i]
        BY <1>3, <3>2
      <4> QED BY <4>1 DEF Sound, IsStore
    <3> QED BY <3>1, <3>2
  <2> QED BY <2>1 DEF Sound, IsStore
<1> QED BY <1>2, <1>3, <1>4 DEF n, p

LEMMA RemoveWrites ==
  ASSUME NEW a, Sound(a, now), NEW j
  PROVE  LET n == [i \in DOMAIN a \ {j} |-> a[i]]
         IN  /\ Sound(n, now) /\ DOMAIN n = DOMAIN a \ {j}
             /\ \A i \in DOMAIN n : n[i] = a[i]
BY DEF Sound, IsStore

-----------------------------------------------------------------------------
(* The invariant that holds with any number of services beside each other. *)

\* The file and the copies hold sound records, of the past.
StoreInv ==
    /\ now \in 1..Horizon /\ restarts \in 0..MaxRestarts /\ live \in 1..(restarts + 1)
    /\ Sound(store, now) /\ DOMAIN mem = Services
    /\ \A s \in Services : Sound(mem[s], now)
    /\ fresh \subseteq Jobs /\ excused \subseteq Jobs /\ succeeded \subseteq OneShots

\* The timer rests on sound records, since a run time behind the last run would be found
\* again at once, and on batches that know what they still have to do.
CronInv == StoreInv /\ BatchInv /\ SchedulerArmed

Excuses == excused' = Awaited' \cap (excused \cup Disabled' \cup Outworn')

LEMMA ConstantFacts ==
  /\ Horizon \in Nat \ {0} /\ MaxRestarts \in Nat /\ 1 \in Services
  /\ StoreInv => now \in Nat /\ live \in Services /\ live \in Nat
BY CronAssumption DEF Services, StoreInv

LEMMA ExcusedJobs == Excuses => excused' \subseteq excused \cup Jobs
BY DEF Excuses, Disabled, Outworn

LEMMA Writing ==
  ASSUME StoreInv, NEW s \in Services, NEW st, Sound(st, now), Keep(s, st),
         store' \in {store, st}, UNCHANGED <<now, live, restarts>>, fresh' \subseteq fresh,
         succeeded' \subseteq succeeded \cup OneShots, Excuses
  PROVE  /\ StoreInv' /\ mem'[s] = st
         /\ \A q \in Services : q # s => mem'[q] = mem[q]
<1>1. mem' = [mem EXCEPT ![s] = st] /\ DOMAIN mem = Services
  BY DEF Keep, StoreInv
<1>2. /\ mem'[s] = st /\ DOMAIN mem' = Services
      /\ \A q \in Services : q # s => mem'[q] = mem[q]
  BY <1>1
<1>3. \A q \in Services : Sound(mem'[q], now)
  BY <1>2 DEF StoreInv
<1>4. Sound(store', now)
  BY DEF StoreInv
<1>5. excused' \subseteq Jobs
  BY ExcusedJobs DEF StoreInv
<1>6. Sound(store, now)' /\ \A q \in Services : Sound(mem[q], now)'
  BY <1>3, <1>4 DEF Sound, IsStore, Sane
<1> QED BY <1>2, <1>5, <1>6 DEF StoreInv

LEMMA NoWriting ==
  ASSUME StoreInv, UNCHANGED <<now, live, restarts, store, mem>>, fresh' \subseteq fresh,
         succeeded' \subseteq succeeded \cup OneShots, Excuses
  PROVE  StoreInv'
<1>1. Sound(store, now)' /\ \A q \in Services : Sound(mem[q], now)'
  BY DEF StoreInv, Sound, IsStore, Sane
<1> QED BY <1>1, ExcusedJobs DEF StoreInv

HasSlot(st) == \E j \in DOMAIN st : Scheduled(st[j])

\* A section that ends with armTimer leaves the timer armed.
LEMMA ArmedAfter ==
  ASSUME SchedulerArmed, live' = live, live \in Services, NEW s \in Services, NEW st,
         ArmTimer(s, st), mem'[s] = st, \A q \in Services : q # s => mem'[q] = mem[q],
         s # live => phase'[live] = phase[live]
  PROVE  SchedulerArmed'
BY DEF SchedulerArmed, ArmTimer

LEMMA ArmedStill ==
  ASSUME SchedulerArmed, live' = live, timer' = timer,
         phase'[live] = "up" /\ HasSlot(mem'[live])
           => phase[live] = "up" /\ (HasSlot(mem[live]) \/ live \in timer)
  PROVE  SchedulerArmed'
BY DEF SchedulerArmed, HasSlot

LEMMA NoNewSlot ==
  ASSUME NEW a, NEW n, NEW js, Derived(a, n, js, {}), KeepsSlots(a, n, {}), HasSlot(n)
  PROVE  HasSlot(a)
<1>1. PICK j \in DOMAIN n : Scheduled(n[j])
  BY DEF HasSlot
<1>2. j \in DOMAIN a /\ n[j].enabled = a[j].enabled /\ (a[j].enabled => n[j].next = a[j].next)
  BY DEF Derived, KeepsSlots
<1> QED BY <1>1, <1>2 DEF HasSlot, Scheduled

LEMMA CronInvFacts ==
  CronInv => /\ StoreInv /\ BatchInv /\ SchedulerArmed /\ BatchTypes
             /\ now \in Nat /\ live \in Services
             /\ Sound(store, now) /\ \A s \in Services : Sound(mem[s], now)
             /\ DOMAIN store \subseteq Jobs /\ \A s \in Services : DOMAIN mem[s] \subseteq Jobs
             /\ phase \in [Services -> Phases]
BY ConstantFacts DEF CronInv, StoreInv, BatchInv, BatchTypes, Sound, IsStore

LEMMA StartClearInv ==
  ASSUME CronInv, Excuses, NEW s \in Services, StartClear(s) PROVE CronInv'
<1> DEFINE n == [j \in DOMAIN store |-> ClearMark(store[j])]
<1>1. /\ StoreInv /\ BatchInv /\ SchedulerArmed /\ now \in Nat /\ live \in Services
      /\ Sound(store, now) /\ DOMAIN store \subseteq Jobs /\ phase \in [Services -> Phases]
  BY CronInvFacts
<1>2. /\ Keep(s, n) /\ store' = n /\ phase' = [phase EXCEPT ![s] = "cleared"]
      /\ UNCHANGED <<now, live, timer, fresh, succeeded, restarts>>
  BY DEF StartClear, Save, bounds
<1>3. Sound(n, now)
  BY <1>1, ClearWrites
<1> HIDE DEF n
<1>4. StoreInv' /\ \A q \in Services : q # s => mem'[q] = mem[q]
  BY <1>1, <1>2, <1>3, Writing
<1>5. BatchInv'
  BY <1>1, StartClearBatches
<1>6. SchedulerArmed'
  BY <1>1, <1>2, <1>4, ArmedStill
<1> QED BY <1>4, <1>5, <1>6 DEF CronInv

LEMMA StartPlanInv ==
  ASSUME CronInv, Excuses, NEW s \in Services, NEW chosen, StartPlan(s, chosen) PROVE CronInv'
<1> DEFINE n == Mark(mem[s], chosen)
<1>1. /\ StoreInv /\ BatchInv /\ SchedulerArmed /\ now \in Nat /\ live \in Services
      /\ Sound(mem[s], now) /\ DOMAIN mem[s] \subseteq Jobs /\ phase \in [Services -> Phases]
  BY CronInvFacts
<1>2. /\ (Keep(s, n) /\ store' = n) \/ UNCHANGED <<mem, store>>
      /\ phase[s] = "cleared" /\ phase' \in {[phase EXCEPT ![s] = "planned"],
                                             [phase EXCEPT ![s] = "catchup"]}
      /\ UNCHANGED <<now, live, timer, fresh, succeeded, restarts>>
  BY DEF StartPlan, Save, bounds
<1>3. Sound(n, now)
  BY <1>1, MarkWrites
<1> HIDE DEF n
<1>4. StoreInv' /\ \A q \in Services : q # s => mem'[q] = mem[q]
  <2>1. CASE Keep(s, n) /\ store' = n
    BY <1>1, <1>2, <1>3, <2>1, Writing
  <2>2. CASE UNCHANGED <<mem, store>>
    BY <1>1, <1>2, <2>2, NoWriting
  <2> QED BY <1>2, <2>1, <2>2
<1>5. BatchInv'
  BY <1>1, StartPlanBatches
<1>6. SchedulerArmed'
  BY <1>1, <1>2, <1>4, ArmedStill
<1> QED BY <1>4, <1>5, <1>6 DEF CronInv

LEMMA StartRunInv ==
  ASSUME CronInv, Excuses, NEW s \in Services, NEW j \in Jobs, StartRun(s, j) PROVE CronInv'
<1>1. StoreInv /\ BatchInv /\ SchedulerArmed
  BY CronInvFacts
<1>2. UNCHANGED <<now, store, live, mem, phase, timer, fresh, succeeded, restarts>>
  BY DEF StartRun, bounds
<1>3. StoreInv'
  BY <1>1, <1>2, NoWriting
<1>4. BatchInv'
  BY <1>1, StartRunBatches
<1>5. SchedulerArmed'
  BY <1>1, <1>2 DEF SchedulerArmed
<1> QED BY <1>3, <1>4, <1>5 DEF CronInv

LEMMA StartApplyInv ==
  ASSUME CronInv, Excuses, NEW s \in Services, StartApply(s) PROVE CronInv'
<1> DEFINE applied == ApplyOutcomes(mem[s], catchup[s].results)
           deferred == [j \in DOMAIN applied |->
                          IF j \in catchup[s].deferred /\ applied[j].enabled
                          THEN [applied[j] EXCEPT !.next = now + 1] ELSE applied[j]]
           n == Maintenance(deferred, now, FALSE)
<1>1. /\ StoreInv /\ BatchInv /\ SchedulerArmed /\ now \in Nat /\ live \in Services
      /\ Sound(mem[s], now) /\ phase \in [Services -> Phases] /\ BatchTypes
  BY CronInvFacts
<1>2. /\ Keep(s, n) /\ store' = n /\ phase' = [phase EXCEPT ![s] = "planned"]
      /\ succeeded' = succeeded \cup Succeeded(catchup[s].results)
      /\ UNCHANGED <<now, live, timer, fresh, restarts>>
  BY DEF StartApply, Save, bounds
<1>3. /\ catchup[s].results \in SUBSET Recorded /\ Past(catchup[s].results, now)
      /\ \A x, y \in catchup[s].results : x.job = y.job => x = y
  BY <1>1 DEF BatchTypes, BatchInv, BatchOK, OnceEach, Plans
<1>4. Sound(n, now)
  BY <1>1, <1>3, CatchupWrites
<1> HIDE DEF n
<1>5. succeeded' \subseteq succeeded \cup OneShots
  BY <1>2 DEF Succeeded
<1>6. StoreInv' /\ \A q \in Services : q # s => mem'[q] = mem[q]
  BY <1>1, <1>2, <1>4, <1>5, Writing
<1>7. BatchInv'
  BY <1>1, StartApplyBatches
<1>8. SchedulerArmed'
  BY <1>1, <1>2, <1>6, ArmedStill
<1> QED BY <1>6, <1>7, <1>8 DEF CronInv

LEMMA StartArmInv ==
  ASSUME CronInv, Excuses, NEW s \in Services, StartArm(s) PROVE CronInv'
<1> DEFINE n == RecomputeNextRuns(mem[s], now)
<1>1. /\ StoreInv /\ BatchInv /\ SchedulerArmed /\ now \in Nat /\ live \in Services
      /\ Sound(mem[s], now) /\ phase \in [Services -> Phases] /\ BatchTypes
  BY CronInvFacts
<1>2. /\ phase[s] = "planned" /\ Keep(s, n) /\ store' \in {store, n} /\ ArmTimer(s, n)
      /\ phase' = [phase EXCEPT ![s] = "up"]
      /\ UNCHANGED <<now, live, tick, catchup, manual, execs, fresh, succeeded, restarts>>
  BY DEF StartArm, SaveIfChanged, bounds
<1>3. Sound(n, now)
  BY <1>1, ArmWrites
<1> HIDE DEF n
<1>4. /\ StoreInv' /\ mem'[s] = n
      /\ \A q \in Services : q # s => mem'[q] = mem[q]
  BY <1>1, <1>2, <1>3, Writing
<1>5. BatchInv'
  <2>1. timer' \subseteq Services
    BY <1>1, <1>2 DEF ArmTimer, BatchTypes
  <2>2. phase' \in [Services -> Phases]
    BY <1>1, <1>2 DEF Phases
  <2>3. \A q \in Services : /\ phase'[q] = "catchup" <=> phase[q] = "catchup"
                            /\ q > live' => phase'[q] = "off"
    BY <1>1, <1>2 DEF BatchInv
  <2>4. now' \in Nat /\ now' >= now /\ live' \in Nat
    BY <1>1, <1>2, ConstantFacts
  <2> QED BY <1>1, <1>2, <2>1, <2>2, <2>3, <2>4, BatchesStay
<1>6. SchedulerArmed'
  BY <1>1, <1>2, <1>4, ArmedAfter
<1> QED BY <1>4, <1>5, <1>6 DEF CronInv

LEMMA BatchesUntouched ==
  ASSUME BatchInv, UNCHANGED <<tick, catchup, manual, execs, phase, now, live>>,
         timer' \subseteq Services
  PROVE  BatchInv' /\ AllHold
<1>1. /\ phase' \in [Services -> Phases] /\ now' \in Nat /\ now' >= now /\ live' \in Nat
      /\ \A s \in Services : /\ phase'[s] = "catchup" <=> phase[s] = "catchup"
                             /\ s > live' => phase'[s] = "off"
  BY DEF BatchInv, BatchTypes
<1> QED BY <1>1, BatchesStay

LEMMA TickCollectInv ==
  ASSUME CronInv, Excuses, NEW s \in Services, TickCollect(s) PROVE CronInv'
<1> DEFINE due == {j \in DOMAIN store : Runnable(store[j], now)}
           n == Mark(store, due)
<1>1. /\ StoreInv /\ BatchInv /\ SchedulerArmed /\ now \in Nat /\ live \in Services
      /\ Sound(store, now) /\ DOMAIN store \subseteq Jobs
  BY CronInvFacts
<1>2. /\ s \in timer /\ Keep(s, n) /\ store' = n
      /\ UNCHANGED <<now, live, phase, timer, fresh, succeeded, restarts>>
  BY DEF TickCollect, Save, bounds
<1>3. Sound(n, now)
  BY <1>1, MarkWrites
<1> HIDE DEF n, due
<1>4. StoreInv' /\ \A q \in Services : q # s => mem'[q] = mem[q]
  BY <1>1, <1>2, <1>3, Writing
<1>5. BatchInv'
  BY <1>1, TickCollectBatches
<1>6. SchedulerArmed'
  BY <1>1, <1>2, <1>4, ArmedStill
<1> QED BY <1>4, <1>5, <1>6 DEF CronInv

LEMMA TickNothingDueInv ==
  ASSUME CronInv, Excuses, NEW s \in Services, TickNothingDue(s) PROVE CronInv'
<1> DEFINE n == Maintenance(store, now, TRUE)
<1>1. /\ StoreInv /\ BatchInv /\ SchedulerArmed /\ now \in Nat /\ live \in Services
      /\ Sound(store, now) /\ BatchTypes
  BY CronInvFacts
<1>2. /\ Keep(s, n) /\ store' = n /\ ArmTimer(s, n)
      /\ UNCHANGED <<now, live, phase, tick, catchup, manual, execs, fresh, succeeded, restarts>>
  BY DEF TickNothingDue, Save, bounds
<1>3. Sound(n, now)
  BY <1>1, RepairWrites
<1> HIDE DEF n
<1>4. StoreInv' /\ mem'[s] = n /\ \A q \in Services : q # s => mem'[q] = mem[q]
  BY <1>1, <1>2, <1>3, Writing
<1>5. BatchInv'
  <2>1. timer' \subseteq Services
    BY <1>1, <1>2 DEF ArmTimer, BatchTypes
  <2> QED BY <1>1, <1>2, <2>1, BatchesUntouched
<1>6. SchedulerArmed'
  BY <1>1, <1>2, <1>4, ArmedAfter
<1> QED BY <1>4, <1>5, <1>6 DEF CronInv

LEMMA TickRunInv ==
  ASSUME CronInv, Excuses, NEW s \in Services, NEW j \in Jobs, TickRun(s, j) PROVE CronInv'
<1> DEFINE n == Mark(mem[s], {j})
<1>1. /\ StoreInv /\ BatchInv /\ SchedulerArmed /\ now \in Nat /\ live \in Services
      /\ Sound(mem[s], now)
  BY CronInvFacts
<1>2. /\ Keep(s, n) \/ mem' = mem
      /\ UNCHANGED <<now, store, live, phase, timer, fresh, succeeded, restarts>>
  BY DEF TickRun, bounds
<1>3. Sound(n, now) /\ Derived(mem[s], n, {j}, {}) /\ KeepsSlots(mem[s], n, {})
  BY <1>1, MarkWrites
<1> HIDE DEF n
<1>4. /\ StoreInv'
      /\ HasSlot(mem'[live]) => HasSlot(mem[live])
  <2>1. CASE Keep(s, n)
    <3>1. /\ StoreInv' /\ mem'[s] = n
          /\ \A q \in Services : q # s => mem'[q] = mem[q]
      BY <1>1, <1>2, <1>3, <2>1, Writing
    <3>2. HasSlot(n) => HasSlot(mem[s])
      BY <1>3, NoNewSlot
    <3> QED BY <1>1, <3>1, <3>2
  <2>2. CASE mem' = mem
    BY <1>1, <1>2, <2>2, NoWriting
  <2> QED BY <1>2, <2>1, <2>2
<1>5. BatchInv'
  BY <1>1, TickRunBatches
<1>6. SchedulerArmed'
  BY <1>1, <1>2, <1>4, ArmedStill
<1> QED BY <1>4, <1>5, <1>6 DEF CronInv

LEMMA TickApplyInv ==
  ASSUME CronInv, Excuses, NEW s \in Services, TickApply(s) PROVE CronInv'
<1> DEFINE n == Maintenance(ApplyOutcomes(store, tick[s].results), now, FALSE)
<1>1. /\ StoreInv /\ BatchInv /\ SchedulerArmed /\ now \in Nat /\ live \in Services
      /\ Sound(store, now) /\ BatchTypes
  BY CronInvFacts
<1>2. /\ Keep(s, n) /\ store' = n /\ ArmTimer(s, n)
      /\ succeeded' = succeeded \cup Succeeded(tick[s].results)
      /\ UNCHANGED <<now, live, phase, fresh, restarts>>
  BY DEF TickApply, Save, bounds
<1>3. /\ tick[s].results \in SUBSET Recorded /\ Past(tick[s].results, now)
      /\ \A x, y \in tick[s].results : x.job = y.job => x = y
  BY <1>1 DEF BatchTypes, BatchInv, BatchOK, OnceEach, Batches
<1>4. Sound(n, now)
  BY <1>1, <1>3, TickWrites
<1> HIDE DEF n
<1>5. succeeded' \subseteq succeeded \cup OneShots
  BY <1>2 DEF Succeeded
<1>6. StoreInv' /\ mem'[s] = n /\ \A q \in Services : q # s => mem'[q] = mem[q]
  BY <1>1, <1>2, <1>4, <1>5, Writing
<1>7. BatchInv'
  BY <1>1, TickApplyBatches
<1>8. SchedulerArmed'
  BY <1>1, <1>2, <1>6, ArmedAfter
<1> QED BY <1>6, <1>7, <1>8 DEF CronInv

LEMMA ManualEnqueueInv ==
  ASSUME CronInv, Excuses, NEW m \in ManualRuns, NEW j \in Jobs, NEW forced \in BOOLEAN,
         ManualEnqueue(m, j, forced)
  PROVE  CronInv'
<1> DEFINE n == Maintenance(mem[live], now, FALSE)
<1>1. /\ StoreInv /\ BatchInv /\ SchedulerArmed /\ now \in Nat /\ live \in Services
      /\ Sound(mem[live], now)
  BY CronInvFacts
<1>2. /\ Keep(live, n)
      /\ UNCHANGED <<now, store, live, phase, timer, fresh, succeeded, restarts>>
  BY DEF ManualEnqueue, bounds
<1>3. Sound(n, now) /\ Derived(mem[live], n, {}, {}) /\ KeepsSlots(mem[live], n, {})
  BY <1>1, RepairWrites
<1> HIDE DEF n
<1>4. StoreInv' /\ mem'[live] = n
  BY <1>1, <1>2, <1>3, Writing
<1>5. BatchInv'
  BY <1>1, ManualEnqueueBatches
<1>6. SchedulerArmed'
  <2>1. HasSlot(n) => HasSlot(mem[live])
    BY <1>3, NoNewSlot
  <2> QED BY <1>1, <1>2, <1>4, <2>1, ArmedStill
<1> QED BY <1>4, <1>5, <1>6 DEF CronInv

LEMMA ManualStartInv ==
  ASSUME CronInv, Excuses, NEW m \in ManualRuns, ManualStart(m) PROVE CronInv'
<1> DEFINE r == manual[m]
           s == r.svc
           n == Maintenance(mem[s], now, FALSE)
           k == Mark(n, {r.job})
<1>1. /\ StoreInv /\ BatchInv /\ SchedulerArmed /\ now \in Nat /\ live \in Services
      /\ \A q \in Services : Sound(mem[q], now)
  BY CronInvFacts
<1>2. /\ (Keep(s, k) /\ store' = k) \/ (Keep(s, n) /\ store' = store)
      /\ UNCHANGED <<now, live, phase, timer, fresh, succeeded, restarts>>
  BY DEF ManualStart, Save, bounds
<1>3. BatchInv' /\ s \in Services
  BY <1>1, ManualStartBatches
<1> HIDE DEF s
<1>4. /\ Sound(n, now) /\ Derived(mem[s], n, {}, {}) /\ KeepsSlots(mem[s], n, {})
      /\ Sound(k, now) /\ Derived(mem[s], k, {r.job}, {}) /\ KeepsSlots(mem[s], k, {})
  <2>1. Sound(mem[s], now)
    BY <1>1, <1>3
  <2> QED BY <1>1, <2>1, RepairWrites, ReserveWrites
<1> HIDE DEF n, k, r
<1>5. PICK st : /\ Keep(s, st) /\ store' \in {store, st} /\ Sound(st, now)
                /\ HasSlot(st) => HasSlot(mem[s])
  <2>1. (HasSlot(n) => HasSlot(mem[s])) /\ (HasSlot(k) => HasSlot(mem[s]))
    BY <1>4, NoNewSlot
  <2> QED BY <1>2, <1>4, <2>1
<1>6. StoreInv' /\ mem'[s] = st /\ \A q \in Services : q # s => mem'[q] = mem[q]
  BY <1>1, <1>2, <1>3, <1>5, Writing
<1>7. SchedulerArmed'
  <2>1. HasSlot(mem'[live]) => HasSlot(mem[live])
    BY <1>1, <1>5, <1>6
  <2> QED BY <1>1, <1>2, <2>1, ArmedStill
<1> QED BY <1>3, <1>6, <1>7 DEF CronInv

LEMMA ManualApplyInv ==
  ASSUME CronInv, Excuses, NEW m \in ManualRuns, ManualApply(m) PROVE CronInv'
<1> DEFINE r == manual[m]
           s == r.svc
           n == Maintenance(MergeManual(r.job, ApplyOutcomes(mem[s], r.result)), now, TRUE)
<1>1. /\ StoreInv /\ BatchInv /\ SchedulerArmed /\ now \in Nat /\ live \in Services
      /\ Sound(store, now) /\ \A q \in Services : Sound(mem[q], now)
      /\ BatchTypes
  BY CronInvFacts
<1>2. /\ \/ /\ r.job \in DOMAIN mem[s] /\ Keep(s, n) /\ store' = n /\ ArmTimer(s, n)
            /\ succeeded' = succeeded \cup Succeeded(r.result)
         \/ UNCHANGED <<mem, store, timer, succeeded>>
      /\ r.phase = "ended"
      /\ UNCHANGED <<now, live, phase, fresh, restarts>>
  BY DEF ManualApply, Save, bounds
<1>3. BatchInv' /\ s \in Services
  BY <1>1, ManualApplyBatches
<1>4. PICK res \in Recorded : res.job = r.job /\ r.result = {res}
  BY <1>1, <1>2 DEF BatchInv, ManualOK
<1>5. Past(r.result, now)
  BY <1>1 DEF BatchTypes
<1>6. CASE /\ r.job \in DOMAIN mem[s] /\ Keep(s, n) /\ store' = n /\ ArmTimer(s, n)
           /\ succeeded' = succeeded \cup Succeeded(r.result)
  <2>1. Sound(n, now)
    <3> DEFINE c == Maintenance(MergeManual(res.job, ApplyOutcomes(mem[s], {res})), now, TRUE)
    <3>1. Past({res}, now) /\ Sound(mem[s], now) /\ res.job \in DOMAIN mem[s]
      BY <1>1, <1>3, <1>4, <1>5, <1>6
    <3> HIDE DEF s
    <3>2. Sound(c, now)
      BY <1>1, <3>1, MergeWrites
    <3>3. n = c
      BY <1>4
    <3> QED BY <3>2, <3>3
  <2> HIDE DEF n, s
  <2>2. succeeded' \subseteq succeeded \cup OneShots
    BY <1>6 DEF Succeeded
  <2>3. StoreInv' /\ mem'[s] = n /\ \A q \in Services : q # s => mem'[q] = mem[q]
    BY <1>1, <1>2, <1>3, <1>6, <2>1, <2>2, Writing
  <2>4. SchedulerArmed'
    BY <1>1, <1>2, <1>3, <1>6, <2>3, ArmedAfter
  <2> QED BY <1>3, <2>3, <2>4 DEF CronInv
<1>7. CASE UNCHANGED <<mem, store, timer, succeeded>>
  <2>1. StoreInv'
    BY <1>1, <1>2, <1>7, NoWriting
  <2>2. SchedulerArmed'
    BY <1>1, <1>2, <1>7 DEF SchedulerArmed
  <2> QED BY <1>3, <2>1, <2>2 DEF CronInv
<1> QED BY <1>2, <1>6, <1>7

LEMMA EndRunInv ==
  ASSUME CronInv, Excuses, NEW e \in execs, NEW outcome \in Outcomes, EndRun(e, outcome)
  PROVE  CronInv'
<1>1. StoreInv /\ BatchInv /\ SchedulerArmed
  BY CronInvFacts
<1>2. UNCHANGED <<now, store, live, mem, phase, timer, fresh, succeeded, restarts>>
  BY DEF EndRun, bounds
<1>3. StoreInv'
  BY <1>1, <1>2, NoWriting
<1>4. BatchInv'
  BY <1>1, EndRunBatches
<1>5. SchedulerArmed'
  BY <1>1, <1>2 DEF SchedulerArmed
<1> QED BY <1>3, <1>4, <1>5 DEF CronInv

LEMMA LaterSound ==
  ASSUME NEW st, NEW t \in Nat, Sound(st, t) PROVE Sound(st, t + 1)
<1>1. ASSUME NEW j \in DOMAIN st PROVE st[j].lastRun <= t + 1
  <2>1. st[j].lastRun \in Nat /\ st[j].lastRun <= t
    BY DEF Sound, IsStore, Job
  <2> QED BY <2>1
<1> QED BY <1>1 DEF Sound

LEMMA TickInv == ASSUME CronInv, Excuses, Tick PROVE CronInv'
<1>1. /\ StoreInv /\ BatchInv /\ SchedulerArmed /\ now \in Nat /\ live \in Services
      /\ phase \in [Services -> Phases] /\ BatchTypes
  BY CronInvFacts
<1>2. /\ now < Horizon /\ now' = now + 1
      /\ UNCHANGED <<store, live, mem, phase, timer, tick, catchup, manual, execs, fresh,
                     succeeded, restarts>>
  BY DEF Tick, batches, bounds
<1>3. now' \in 1..Horizon
  BY <1>1, <1>2, ConstantFacts DEF StoreInv
<1>4. Sound(store, now)' /\ \A s \in Services : Sound(mem[s], now)'
  <2>1. Sound(store, now + 1) /\ \A s \in Services : Sound(mem[s], now + 1)
    BY <1>1, LaterSound DEF StoreInv
  <2> QED BY <1>2, <2>1 DEF Sound, IsStore, Sane
<1>5. StoreInv'
  BY <1>1, <1>2, <1>3, <1>4, ExcusedJobs DEF StoreInv
<1>6. BatchInv'
  <2>1. /\ phase' \in [Services -> Phases] /\ timer' \subseteq Services
        /\ now' \in Nat /\ now' >= now /\ live' \in Nat
    BY <1>1, <1>2, ConstantFacts DEF BatchTypes
  <2>2. \A s \in Services : /\ phase'[s] = "catchup" <=> phase[s] = "catchup"
                            /\ s > live' => phase'[s] = "off"
    BY <1>1, <1>2 DEF BatchInv
  <2> QED BY <1>1, <1>2, <2>1, <2>2, BatchesStay
<1>7. SchedulerArmed'
  BY <1>1, <1>2 DEF SchedulerArmed
<1> QED BY <1>5, <1>6, <1>7 DEF CronInv

LEMMA ReadInv == ASSUME CronInv, Excuses, Read PROVE CronInv'
<1> DEFINE n == Maintenance(mem[live], now, FALSE)
<1>1. /\ StoreInv /\ BatchInv /\ SchedulerArmed /\ now \in Nat /\ live \in Services
      /\ Sound(mem[live], now) /\ BatchTypes
  BY CronInvFacts
<1>2. /\ Keep(live, n) /\ store' = n
      /\ UNCHANGED <<now, live, phase, timer, tick, catchup, manual, execs, fresh, succeeded,
                     restarts>>
  BY DEF Read, Save, batches, bounds
<1>3. Sound(n, now) /\ Derived(mem[live], n, {}, {}) /\ KeepsSlots(mem[live], n, {})
  BY <1>1, RepairWrites
<1> HIDE DEF n
<1>4. StoreInv' /\ mem'[live] = n
  BY <1>1, <1>2, <1>3, Writing
<1>5. BatchInv'
  BY <1>1, <1>2, BatchesUntouched DEF BatchTypes
<1>6. SchedulerArmed'
  <2>1. HasSlot(n) => HasSlot(mem[live])
    BY <1>3, NoNewSlot
  <2> QED BY <1>1, <1>2, <1>4, <2>1, ArmedStill
<1> QED BY <1>4, <1>5, <1>6 DEF CronInv

\* The calls that edit the jobs end in the same way.
LEMMA EditedInv ==
  ASSUME CronInv, Excuses, NEW st, Sound(st, now), Edited(st), fresh' \subseteq fresh,
         succeeded' \subseteq succeeded
  PROVE  CronInv'
<1>1. /\ StoreInv /\ BatchInv /\ SchedulerArmed /\ now \in Nat /\ live \in Services
      /\ BatchTypes
  BY CronInvFacts
<1>2. /\ Keep(live, st) /\ store' = st /\ ArmTimer(live, st)
      /\ UNCHANGED <<now, live, phase, tick, catchup, manual, execs, restarts>>
  BY DEF Edited, Save
<1>3. StoreInv' /\ mem'[live] = st /\ \A q \in Services : q # live => mem'[q] = mem[q]
  BY <1>1, <1>2, Writing
<1>4. BatchInv'
  <2>1. timer' \subseteq Services
    BY <1>1, <1>2 DEF ArmTimer, BatchTypes
  <2> QED BY <1>1, <1>2, <2>1, BatchesUntouched
<1>5. SchedulerArmed'
  BY <1>1, <1>2, <1>3, ArmedAfter
<1> QED BY <1>3, <1>4, <1>5 DEF CronInv

LEMMA AddInv ==
  ASSUME CronInv, Excuses, NEW j \in Jobs, Add(j) PROVE CronInv'
<1> DEFINE added == [i \in DOMAIN mem[live] \cup {j} |->
                       IF i = j THEN Recompute(j, NewJob(j), now) ELSE mem[live][i]]
           n == RecomputeNextRuns(added, now)
<1>1. now \in Nat /\ Sound(mem[live], now)
  BY CronInvFacts
<1>2. Sound(n, now)
  BY <1>1, AddWrites
<1>3. Edited(n) /\ fresh' \subseteq fresh /\ succeeded' \subseteq succeeded
  BY DEF Add
<1> HIDE DEF n
<1> QED BY <1>2, <1>3, EditedInv

LEMMA UpdateInv ==
  ASSUME CronInv, Excuses, NEW j \in Jobs, NEW patch \in Patches, Update(j, patch)
  PROVE  CronInv'
<1> DEFINE n == [mem[live] EXCEPT ![j] = Patched(j, mem[live][j], patch)]
<1>1. now \in Nat /\ Sound(mem[live], now) /\ j \in DOMAIN mem[live]
  BY CronInvFacts DEF Update, EditsJob
<1>2. Sound(n, now)
  BY <1>1, UpdateWrites
<1>3. Edited(n) /\ fresh' \subseteq fresh /\ succeeded' \subseteq succeeded
  BY DEF Update, EditsJob
<1> HIDE DEF n
<1> QED BY <1>2, <1>3, EditedInv

LEMMA RemoveInv ==
  ASSUME CronInv, Excuses, NEW j \in Jobs, Remove(j) PROVE CronInv'
<1> DEFINE n == [i \in DOMAIN mem[live] \ {j} |-> mem[live][i]]
<1>1. Sound(mem[live], now)
  BY CronInvFacts
<1>2. Sound(n, now)
  BY <1>1, RemoveWrites
<1>3. Edited(n) /\ fresh' \subseteq fresh /\ succeeded' \subseteq succeeded
  BY DEF Remove, EditsJob
<1> HIDE DEF n
<1> QED BY <1>2, <1>3, EditedInv

LEMMA ReloadInv == ASSUME CronInv, Excuses, Reload PROVE CronInv'
<1>1. /\ StoreInv /\ BatchInv /\ SchedulerArmed /\ now \in Nat /\ live \in Services
      /\ phase \in [Services -> Phases] /\ BatchTypes
  BY CronInvFacts
<1>2. /\ restarts < MaxRestarts /\ restarts' = restarts + 1 /\ live' = live + 1
      /\ timer' = timer \ {live} /\ mem' \in {[mem EXCEPT ![live] = Empty], mem}
      /\ phase' = [phase EXCEPT ![live + 1] = "new"]
      /\ UNCHANGED <<now, store, tick, catchup, manual, execs, fresh, succeeded>>
  BY DEF Reload
<1>3. restarts' \in 0..MaxRestarts /\ live' \in 1..(restarts' + 1) /\ live + 1 \in Services
  BY <1>1, <1>2, ConstantFacts DEF StoreInv, Services
<1>4. Sound(Empty, now)
  BY DEF Empty, Sound, IsStore
<1>5. DOMAIN mem' = Services /\ \A s \in Services : Sound(mem'[s], now)
  BY <1>1, <1>2, <1>4 DEF StoreInv
<1>6. StoreInv'
  <2>1. Sound(store, now)' /\ \A s \in Services : Sound(mem[s], now)'
    BY <1>1, <1>2, <1>5 DEF StoreInv, Sound, IsStore, Sane
  <2>2. excused' \subseteq Jobs
    BY <1>1, ExcusedJobs DEF StoreInv
  <2> QED BY <1>1, <1>2, <1>3, <1>5, <2>1, <2>2 DEF StoreInv
<1>7. BatchInv'
  <2>1. /\ phase' \in [Services -> Phases] /\ timer' \subseteq Services
        /\ now' \in Nat /\ now' >= now /\ live' \in Nat
    <3>1. phase' \in [Services -> Phases]
      BY <1>1, <1>2 DEF Phases
    <3>2. timer' \subseteq Services
      BY <1>1, <1>2 DEF BatchTypes
    <3>3. live \in Nat
      BY <1>1, ConstantFacts
    <3> QED BY <1>1, <1>2, <3>1, <3>2, <3>3
  <2>2. ASSUME NEW s \in Services
        PROVE  /\ phase'[s] = "catchup" <=> phase[s] = "catchup"
               /\ s > live' => phase'[s] = "off"
    <3>1. live + 1 > live /\ (s > live + 1 => s > live) /\ (s > live + 1 => s # live + 1)
      BY <1>1 DEF Services
    <3>2. phase[live + 1] = "off" /\ (s > live => phase[s] = "off")
      BY <1>1, <1>3, <3>1 DEF BatchInv
    <3>3. phase'[s] = IF s = live + 1 THEN "new" ELSE phase[s]
      BY <1>1, <1>2
    <3> QED BY <1>2, <3>1, <3>2, <3>3
  <2> QED BY <1>1, <1>2, <2>1, <2>2, BatchesStay
<1>8. SchedulerArmed'
  <2>1. phase'[live'] = "new"
    BY <1>1, <1>2, <1>3
  <2> QED BY <2>1 DEF SchedulerArmed
<1> QED BY <1>6, <1>7, <1>8 DEF CronInv

LEMMA CrashInv == ASSUME CronInv, Excuses, Crash PROVE CronInv'
<1>1. StoreInv /\ BatchInv /\ now \in Nat
  BY CronInvFacts
<1>2. /\ restarts < MaxRestarts /\ restarts' = restarts + 1 /\ live' = 1
      /\ mem' = [s \in Services |-> Empty]
      /\ phase' = [s \in Services |-> IF s = 1 THEN "new" ELSE "off"]
      /\ UNCHANGED <<now, store, fresh, succeeded>>
  BY DEF Crash
<1>3. restarts' \in 0..MaxRestarts /\ live' \in 1..(restarts' + 1)
  BY <1>1, <1>2, ConstantFacts DEF StoreInv
<1>4. Sound(Empty, now)
  BY DEF Empty, Sound, IsStore
<1>5. DOMAIN mem' = Services /\ \A s \in Services : Sound(mem'[s], now)
  BY <1>2, <1>4
<1>6. StoreInv'
  <2>1. Sound(store, now)' /\ \A s \in Services : Sound(mem[s], now)'
    BY <1>1, <1>2, <1>5 DEF StoreInv, Sound, IsStore, Sane
  <2>2. excused' \subseteq Jobs
    BY <1>1, ExcusedJobs DEF StoreInv
  <2> QED BY <1>1, <1>2, <1>3, <1>5, <2>1, <2>2 DEF StoreInv
<1>7. BatchInv'
  BY <1>1, CrashBatches
<1>8. SchedulerArmed'
  <2>1. phase'[live'] = "new"
    BY <1>2, ConstantFacts
  <2> QED BY <2>1 DEF SchedulerArmed
<1> QED BY <1>6, <1>7, <1>8 DEF CronInv

LEMMA CronInitInv == CronInit => CronInv /\ \A h \in Holders : Held(h) = {}
<1> SUFFICES ASSUME CronInit PROVE CronInv /\ \A h \in Holders : Held(h) = {}
  OBVIOUS
<1>1. /\ now = 1 /\ live = 1 /\ timer = {} /\ execs = {} /\ restarts = 0
      /\ store = [j \in Initial |-> Recompute(j, NewJob(j), 1)]
      /\ mem = [s \in Services |-> Empty]
      /\ phase = [s \in Services |-> IF s = 1 THEN "new" ELSE "off"]
      /\ tick = [s \in Services |-> Idle] /\ catchup = [s \in Services |-> NoPlan]
      /\ manual = [m \in ManualRuns |-> NoRun]
      /\ fresh = Jobs \ Initial /\ excused = {} /\ succeeded = {}
  BY DEF CronInit
<1>2. StoreInv
  <2>1. ASSUME NEW j \in Jobs
        PROVE  /\ Recompute(j, NewJob(j), 1) \in Job
               /\ Sane(j, Recompute(j, NewJob(j), 1))
               /\ Recompute(j, NewJob(j), 1).lastRun <= 1
    <3> DEFINE r == NewJob(j)
    <3>1. FirstAt \in Nat
      BY CronAssumption
    <3>2. r \in Job /\ r.lastRun = 0
      BY <3>1 DEF NewJob, Job, Statuses, Undefined
    <3> HIDE DEF r
    <3>3. /\ Recompute(j, r, 1) \in Job /\ Recompute(j, r, 1).lastRun = r.lastRun
          /\ Sane(j, Recompute(j, r, 1))
      BY <3>2, RecomputeIsSane
    <3> QED BY <3>2, <3>3 DEF r
  <2>2. Initial \subseteq Jobs
    BY CronAssumption
  <2>3. Sound(store, now)
    BY <1>1, <2>1, <2>2 DEF Sound, IsStore
  <2>4. Sound(Empty, now)
    BY DEF Empty, Sound, IsStore
  <2>5. DOMAIN mem = Services /\ \A s \in Services : Sound(mem[s], now)
    BY <1>1, <2>4
  <2>6. now \in 1..Horizon /\ restarts \in 0..MaxRestarts /\ live \in 1..(restarts + 1)
    BY <1>1, ConstantFacts
  <2> QED BY <1>1, <2>3, <2>5, <2>6 DEF StoreInv
<1>3. /\ Idle \in Batches /\ Idle.pending = {} /\ Idle.results = {} /\ ~Idle.running
      /\ NoPlan \in Plans /\ NoPlan.pending = {} /\ NoPlan.results = {}
      /\ NoRun \in Manuals /\ NoRun.phase = "idle" /\ NoRun.result = {}
  BY DEF Idle, Batches, NoPlan, Plans, NoRun, Manuals
<1>4. BatchTypes
  <2>1. phase \in [Services -> Phases]
    BY <1>1 DEF Phases
  <2>2. /\ tick \in [Services -> Batches] /\ catchup \in [Services -> Plans]
        /\ manual \in [ManualRuns -> Manuals]
    BY <1>1, <1>3
  <2>3. /\ \A s \in Services : Past(tick[s].results, now) /\ Past(catchup[s].results, now)
        /\ \A m \in ManualRuns : Past(manual[m].result, now)
    BY <1>1, <1>3 DEF Past
  <2> QED BY <1>1, <2>1, <2>2, <2>3 DEF BatchTypes
<1>5. /\ \A s \in Services, by \in {"tick", "start"} : RunsOf(s, by) = {}
      /\ \A m \in ManualRuns : RunsFor(m) = {}
  BY <1>1 DEF RunsOf, RunsFor
<1>6. ASSUME NEW s \in Services
      PROVE  /\ BatchOK("tick", tick[s], RunsOf(s, "tick"), tick[s].running)
             /\ BatchOK("start", catchup[s], RunsOf(s, "start"), phase[s] = "catchup")
             /\ s > live => phase[s] = "off"
             /\ TickHolds(s) = {} /\ StartHolds(s) = {}
  <2>1. tick[s] = Idle /\ catchup[s] = NoPlan /\ phase[s] # "catchup"
    BY <1>1
  <2>2. s > live => phase[s] = "off"
    BY <1>1
  <2> QED BY <1>3, <1>5, <2>1, <2>2, JobsOfFacts
          DEF BatchOK, OnceEach, TickHolds, StartHolds
<1>7. ASSUME NEW m \in ManualRuns PROVE ManualOK(m) /\ ManualHolds(m) = {}
  <2>1. manual[m] = NoRun
    BY <1>1
  <2> QED BY <1>3, <1>5, <2>1, JobsOfFacts DEF ManualOK, ManualHolds
<1>8. \A h \in Holders : Held(h) = {}
  <2> SUFFICES ASSUME NEW h \in Holders PROVE Held(h) = {}
    OBVIOUS
  <2>1. \/ \E s \in Services : h = <<"tick", s>>
        \/ \E s \in Services : h = <<"start", s>>
        \/ \E m \in ManualRuns : h = <<"manual", m>>
    BY DEF Holders
  <2> QED BY <1>6, <1>7, <2>1 DEF Held
<1>9. SchedulerArmed
  <2>1. phase[live] # "up"
    BY <1>1, ConstantFacts
  <2> QED BY <2>1 DEF SchedulerArmed
<1> QED BY <1>2, <1>4, <1>6, <1>7, <1>8, <1>9 DEF CronInv, BatchInv

\* The steps of the specification one by one.
LEMMA CronStepIs ==
  ASSUME [CronNext]_cronVars
  PROVE  \/ UNCHANGED cronVars
         \/ Excuses /\ \E s \in Services :
              \/ StartClear(s) \/ StartApply(s) \/ StartArm(s)
              \/ TickCollect(s) \/ TickNothingDue(s) \/ TickApply(s)
              \/ (\E chosen \in SUBSET Jobs : StartPlan(s, chosen))
              \/ (\E j \in Jobs : StartRun(s, j) \/ TickRun(s, j))
         \/ Excuses /\ \E e \in execs, o \in Outcomes : EndRun(e, o)
         \/ Excuses /\ \E m \in ManualRuns :
              \/ ManualStart(m) \/ ManualApply(m)
              \/ \E j \in Jobs, f \in BOOLEAN : ManualEnqueue(m, j, f)
         \/ Excuses /\ \E j \in Jobs :
              \/ Add(j) \/ Remove(j)
              \/ \E patch \in Patches : Update(j, patch)
         \/ Excuses /\ (Tick \/ Read \/ Reload \/ Crash)
<1>1. CASE UNCHANGED cronVars
  BY <1>1
<1>2. CASE CronNext
  <2>1. Excuses /\ Step
    BY <1>2 DEF CronNext, Excuses
  <2>2. CASE \E s \in Services : Start(s) \/ OnTimer(s)
    BY <2>1, <2>2 DEF Start, OnTimer
  <2>3. CASE EndSome
    BY <2>1, <2>3 DEF EndSome
  <2>4. CASE Tick \/ Read \/ Reload \/ Crash
    BY <2>1, <2>4
  <2>5. CASE \E m \in ManualRuns, j \in Jobs, f \in BOOLEAN : ManualEnqueue(m, j, f)
    BY <2>1, <2>5
  <2>6. CASE \E m \in ManualRuns : Run(m)
    BY <2>1, <2>6 DEF Run
  <2>7. CASE \E j \in Jobs : Add(j) \/ Remove(j)
    BY <2>1, <2>7
  <2>8. CASE \E j \in Jobs, patch \in Patches : Update(j, patch)
    BY <2>1, <2>8
  <2> QED BY <2>1, <2>2, <2>3, <2>4, <2>5, <2>6, <2>7, <2>8 DEF Step
<1> QED BY <1>1, <1>2

LEMMA CronStutterInv == ASSUME CronInv, UNCHANGED cronVars PROVE CronInv' /\ AllHold
<1>1. UNCHANGED <<now, store, live, mem, phase, timer, tick, catchup, manual, execs, fresh,
                  edits, restarts, excused, succeeded>>
  BY DEF cronVars, batches, bounds
<1>2. StoreInv /\ BatchInv /\ SchedulerArmed /\ BatchTypes
  BY CronInvFacts
<1>3. BatchInv' /\ AllHold
  BY <1>1, <1>2, BatchesUntouched DEF BatchTypes
<1>4. StoreInv' /\ SchedulerArmed'
  BY <1>1, <1>2 DEF StoreInv, SchedulerArmed, Sound, IsStore, Sane
<1> QED BY <1>3, <1>4 DEF CronInv

LEMMA CronNextInv == CronInv /\ [CronNext]_cronVars => CronInv'
<1> SUFFICES ASSUME CronInv, [CronNext]_cronVars PROVE CronInv'
  OBVIOUS
<1>1. CASE UNCHANGED cronVars
  BY <1>1, CronStutterInv
<1>2. ASSUME Excuses, NEW s \in Services,
             \/ StartClear(s) \/ StartApply(s) \/ StartArm(s)
             \/ TickCollect(s) \/ TickNothingDue(s) \/ TickApply(s)
             \/ (\E chosen \in SUBSET Jobs : StartPlan(s, chosen))
             \/ (\E j \in Jobs : StartRun(s, j) \/ TickRun(s, j))
      PROVE  CronInv'
  BY <1>2, StartClearInv, StartApplyInv, StartArmInv, TickCollectInv, TickNothingDueInv,
     TickApplyInv, StartPlanInv, StartRunInv, TickRunInv
<1>3. ASSUME Excuses, NEW e \in execs, NEW o \in Outcomes, EndRun(e, o) PROVE CronInv'
  BY <1>3, EndRunInv
<1>4. ASSUME Excuses, NEW m \in ManualRuns,
             \/ ManualStart(m) \/ ManualApply(m)
             \/ \E j \in Jobs, f \in BOOLEAN : ManualEnqueue(m, j, f)
      PROVE  CronInv'
  BY <1>4, ManualStartInv, ManualApplyInv, ManualEnqueueInv
<1>5. ASSUME Excuses, NEW j \in Jobs,
             \/ Add(j) \/ Remove(j)
             \/ \E patch \in Patches : Update(j, patch)
      PROVE  CronInv'
  BY <1>5, AddInv, RemoveInv, UpdateInv
<1>6. ASSUME Excuses, Tick \/ Read \/ Reload \/ Crash PROVE CronInv'
  BY <1>6, TickInv, ReadInv, ReloadInv, CrashInv
<1> QED BY <1>1, <1>2, <1>3, <1>4, <1>5, <1>6, CronStepIs

LEMMA CronInvariant == CronSpec => []CronInv
BY CronInitInv, CronNextInv, PTL DEF CronSpec

\* However services, ticks, manual runs and edits interleave, records stay records, and
\* what a batch holds are jobs of the store's type (cron/service/state.ts).
THEOREM CronTypeCorrect == CronSpec => []CronTypeOK
<1>1. CronInv /\ beside \in BOOLEAN => CronTypeOK
  <2> SUFFICES ASSUME CronInv, beside \in BOOLEAN PROVE CronTypeOK
    OBVIOUS
  <2>1. StoreInv /\ BatchTypes /\ BatchInv
    BY CronInvFacts
  <2>2. ASSUME NEW s \in Services
        PROVE  /\ DOMAIN mem[s] \subseteq Jobs
               /\ \A j \in DOMAIN mem[s] : mem[s][j] \in Job
               /\ tick[s].pending \subseteq Jobs /\ tick[s].results \subseteq Recorded
               /\ catchup[s].results \subseteq Recorded
    <3>1. tick[s] \in Batches /\ catchup[s] \in Plans
      BY <2>1 DEF BatchTypes
    <3>2. Sound(mem[s], now)
      BY <2>1 DEF StoreInv
    <3> QED BY <3>1, <3>2 DEF Batches, Plans, Sound, IsStore
  <2>3. \A m \in ManualRuns : manual[m].phase \in ManualPhases
    <3> SUFFICES ASSUME NEW m \in ManualRuns PROVE manual[m].phase \in ManualPhases
      OBVIOUS
    <3>1. manual[m] \in Manuals
      BY <2>1 DEF BatchTypes
    <3> QED BY <3>1 DEF Manuals, ManualPhases
  <2>4. live \in Services
    BY CronInvFacts
  <2>5. DOMAIN store \subseteq Jobs /\ \A j \in DOMAIN store : store[j] \in Job
    BY <2>1 DEF StoreInv, Sound, IsStore
  <2>6. /\ now \in 1..Horizon /\ excused \subseteq Jobs /\ succeeded \subseteq OneShots
        /\ phase \in [Services -> Phases] /\ timer \subseteq Services
        /\ execs \subseteq [svc : Services, job : Jobs, by : Starters, started : Nat]
    BY <2>1 DEF StoreInv, BatchTypes, Execs
  <2> QED BY <2>2, <2>3, <2>4, <2>5, <2>6 DEF CronTypeOK
<1>2. CronSpec => [](beside \in BOOLEAN)
  <2>1. CronInit => beside \in BOOLEAN
    BY DEF CronInit
  <2>2. beside \in BOOLEAN /\ [CronNext]_cronVars => (beside \in BOOLEAN)'
    BY DEF CronNext, cronVars
  <2> QED BY <2>1, <2>2, PTL DEF CronSpec
<1> QED BY <1>1, <1>2, CronInvariant, PTL

\* The timer of the service in use never gets lost while a job of its is scheduled
\* (#12025), even when a reload leaves runs of older services behind.
THEOREM TimerStaysArmed == CronSpec => []SchedulerArmed
<1>1. CronInv => SchedulerArmed
  BY DEF CronInv
<1> QED BY <1>1, CronInvariant, PTL

-----------------------------------------------------------------------------
(* What holds unless a reload has left an older service at work: one service acts, its  *)
(* memory agrees with the file, and a one-shot that succeeded stays disabled.           *)

\* The same jobs, with the same slots.
Same(a, b) ==
    /\ DOMAIN a = DOMAIN b
    /\ \A j \in DOMAIN b : /\ a[j].enabled = b[j].enabled
                           /\ b[j].enabled => a[j].next = b[j].next

\* The live service is the only one that ticks, starts or runs anything.
Alone ==
    /\ timer \subseteq {live} /\ phase[live] # "off"
    /\ \A s \in Services \ {live} : ~tick[s].running /\ phase[s] \in {"off", "up"}
    /\ \A m \in ManualRuns :
         manual[m].phase \in {"queued", "running", "ended"} => manual[m].svc = live
    /\ phase[live] = "new" =>
         /\ timer = {} /\ ~tick[live].running
         /\ \A m \in ManualRuns : manual[m].phase \in {"idle", "over"}

\* Once the live service has loaded the file, its copy has the jobs and slots of the file.
Agree == phase[live] # "new" => Same(mem[live], store)

\* A one-shot that succeeded is disabled; what runs and is disabled was disabled by an edit,
\* and what runs with a marker that is too old is excused.
History ==
    /\ fresh \cap (DOMAIN store \cup Awaited \cup succeeded) = {}
    /\ succeeded \subseteq Disabled
    /\ Awaited \cap (Disabled \cup Outworn) \subseteq excused /\ excused \subseteq Awaited

\* What holds beyond CronInv unless an older service is beside.
LiveInv == Alone /\ Agree /\ History

LEMMA SameSelf == \A a : Same(a, a)
BY DEF Same

LEMMA SameAfter ==
  ASSUME NEW a, NEW n, NEW js, Same(a, store), Derived(a, n, js, {}), KeepsSlots(a, n, {})
  PROVE  Same(n, store)
<1>1. DOMAIN n = DOMAIN store
  BY DEF Same, Derived
<1>2. ASSUME NEW j \in DOMAIN store
      PROVE  /\ n[j].enabled = store[j].enabled
             /\ store[j].enabled => n[j].next = store[j].next
  <2>1. /\ a[j].enabled = store[j].enabled
        /\ store[j].enabled => a[j].next = store[j].next
    BY DEF Same
  <2>2. n[j].enabled = a[j].enabled /\ (a[j].enabled => n[j].next = a[j].next)
    BY <1>1 DEF Derived, KeepsSlots
  <2> QED BY <2>1, <2>2
<1> QED BY <1>1, <1>2 DEF Same

\* Who awaits an outcome after a step.
LEMMA AwaitedNext ==
  ASSUME BatchInv'
  PROVE  \A j : j \in Awaited' <=> \E h \in Holders : j \in Held(h)'
<1>1. (BatchTypes => \A j : j \in Awaited <=> \E h \in Holders : j \in Held(h))'
  BY AwaitedIsHeld, PTL
<1>2. BatchTypes'
  BY DEF BatchInv
<1>3. Holders' = Holders
  BY DEF Holders
<1> QED BY <1>1, <1>2, <1>3

LEMMA AwaitedIfAllHold == ASSUME BatchInv, BatchInv', AllHold PROVE Awaited' = Awaited
<1>1. \A j : j \in Awaited' <=> j \in Awaited
  BY AwaitedNext, AwaitedIsHeld DEF AllHold, BatchInv
<1> QED BY <1>1

\* h takes the jobs js.
LEMMA AwaitedIfTaken ==
  ASSUME BatchInv, BatchInv', NEW h \in Holders, NEW js, OnlyHolder(h, js), Held(h) = {}
  PROVE  Awaited' = Awaited \cup js
<1>1. ASSUME NEW j PROVE j \in Awaited' <=> j \in Awaited \cup js
  <2>1. (j \in Awaited' <=> \E k \in Holders : j \in Held(k)')
        /\ (j \in Awaited <=> \E k \in Holders : j \in Held(k))
    BY AwaitedNext, AwaitedIsHeld DEF BatchInv
  <2>2. \A k \in Holders : Held(k)' = IF k = h THEN js ELSE Held(k)
    BY DEF OnlyHolder
  <2> QED BY <2>1, <2>2
<1> QED BY <1>1

\* h drops the jobs rs.
LEMMA AwaitedIfDropped ==
  ASSUME BatchInv, BatchInv', NEW h \in Holders, NEW rs, OnlyHolder(h, {}), Held(h) = rs
  PROVE  /\ Awaited' \subseteq Awaited /\ Awaited \ rs \subseteq Awaited'
         /\ \A j \in Awaited' : \E k \in Holders : k # h /\ j \in Held(k)
         /\ rs \subseteq Awaited
<1>1. ASSUME NEW j
      PROVE  /\ j \in Awaited' => j \in Awaited /\ \E k \in Holders : k # h /\ j \in Held(k)
             /\ j \in Awaited /\ j \notin rs => j \in Awaited'
             /\ j \in rs => j \in Awaited
  <2>1. (j \in Awaited' <=> \E k \in Holders : j \in Held(k)')
        /\ (j \in Awaited <=> \E k \in Holders : j \in Held(k))
    BY AwaitedNext, AwaitedIsHeld DEF BatchInv
  <2>2. \A k \in Holders : Held(k)' = IF k = h THEN {} ELSE Held(k)
    BY DEF OnlyHolder
  <2> QED BY <2>1, <2>2
<1> QED BY <1>1

\* A step that awaits no job but jobs of the file, and enables none, keeps the history.
LEMMA HistoryAfter ==
  ASSUME CronInv, History, Excuses, fresh' = fresh,
         NEW a, Same(a, store), NEW js, NEW rs, Derived(a, store', js, rs),
         Awaited' \subseteq Awaited \cup DOMAIN store,
         succeeded' \subseteq succeeded \cup Awaited, succeeded' \subseteq Jobs,
         \A j \in (succeeded' \ succeeded) \cap DOMAIN store' : ~store'[j].enabled
  PROVE  History'
<1>1. DOMAIN store' \subseteq DOMAIN store
  BY DEF Same, Derived
<1>2. fresh' \cap (DOMAIN store' \cup Awaited' \cup succeeded') = {}
  BY <1>1 DEF History
<1>3. succeeded' \subseteq Disabled'
  <2> SUFFICES ASSUME NEW j \in succeeded', j \in DOMAIN store' PROVE ~store'[j].enabled
    BY DEF Disabled
  <2>1. CASE j \in succeeded
    <3>1. j \in DOMAIN store /\ ~store[j].enabled
      BY <1>1, <2>1 DEF History, Disabled
    <3>2. store'[j].enabled => a[j].enabled
      BY DEF Derived
    <3> QED BY <3>1, <3>2 DEF Same
  <2>2. CASE j \notin succeeded
    BY <2>2
  <2> QED BY <2>1, <2>2
<1>4. Awaited' \cap (Disabled' \cup Outworn') \subseteq excused' /\ excused' \subseteq Awaited'
  BY DEF Excuses
<1> QED BY <1>2, <1>3, <1>4 DEF History

LEMMA HistoryStays ==
  ASSUME History, Excuses, fresh' = fresh, store' = store, succeeded' = succeeded,
         Awaited' \subseteq Awaited \cup DOMAIN store
  PROVE  History'
<1>1. Disabled' = Disabled
  BY DEF Disabled
<1>2. Awaited' \cap (Disabled' \cup Outworn') \subseteq excused' /\ excused' \subseteq Awaited'
  BY DEF Excuses
<1> QED BY <1>1, <1>2 DEF History

\* Only the live service acts.
LEMMA OnlyLiveActs ==
  ASSUME Alone, live \in Services, NEW s \in Services
  PROVE  /\ phase[s] \in {"new", "cleared", "catchup", "planned"} => s = live
         /\ s \in timer => s = live /\ phase[live] # "new"
         /\ tick[s].running => s = live /\ phase[live] # "new"
BY DEF Alone

LEMMA AloneAfter ==
  ASSUME Alone, live' = live, timer' \subseteq {live}, phase'[live] # "off",
         \A s \in Services \ {live} : phase'[s] = phase[s] /\ tick'[s].running = tick[s].running,
         \A m \in ManualRuns :
            manual'[m].phase \in {"queued", "running", "ended"} => manual'[m].svc = live,
         phase'[live] = "new" => UNCHANGED <<phase, timer, tick, manual>>
  PROVE  Alone'
BY DEF Alone

LEMMA LiveAfterSave ==
  ASSUME CronInv, LiveInv, Excuses, live' = live, fresh' = fresh, mem'[live] = store', Alone',
         NEW a, Same(a, store), NEW js, NEW rs, Derived(a, store', js, rs),
         Awaited' \subseteq Awaited \cup DOMAIN store,
         succeeded' \subseteq succeeded \cup Awaited, succeeded' \subseteq Jobs,
         \A j \in (succeeded' \ succeeded) \cap DOMAIN store' : ~store'[j].enabled
  PROVE  LiveInv'
<1>1. History'
  BY HistoryAfter DEF LiveInv
<1>2. Agree'
  BY SameSelf DEF Agree
<1> QED BY <1>1, <1>2 DEF LiveInv

LEMMA LiveAfterKeep ==
  ASSUME LiveInv, Excuses, live' = live, fresh' = fresh, store' = store,
         succeeded' = succeeded, Alone', phase'[live] # "new" => Same(mem'[live], store),
         Awaited' \subseteq Awaited \cup DOMAIN store
  PROVE  LiveInv'
<1>1. History'
  BY HistoryStays DEF LiveInv
<1>2. Agree'
  BY DEF Agree
<1> QED BY <1>1, <1>2 DEF LiveInv

LEMMA LiveFacts ==
  CronInv /\ LiveInv =>
     /\ BatchInv /\ BatchTypes /\ now \in Nat /\ now > 0 /\ live \in Services
     /\ Sound(store, now) /\ \A s \in Services : Sound(mem[s], now)
     /\ Alone /\ Agree /\ History /\ phase \in [Services -> Phases]
     /\ DOMAIN store \subseteq Jobs /\ succeeded \subseteq Jobs /\ OneShots \subseteq Jobs
     /\ timer \subseteq {live} /\ phase[live] # "off"
     /\ \A m \in ManualRuns :
          manual[m].phase \in {"queued", "running", "ended"} => manual[m].svc = live
BY CronInvFacts, CronJobAssumption DEF LiveInv, StoreInv, Alone

\* Services that neither tick, start nor have a manual run await nothing.
LEMMA RestAwaitsNothing ==
  ASSUME CronInv, \A s \in Services : ~tick[s].running /\ phase[s] # "catchup",
         \A m \in ManualRuns : manual[m].phase \in {"idle", "over"}
  PROVE  Awaited = {}
<1>1. BatchInv /\ BatchTypes /\ live \in Services
  BY CronInvFacts
<1>2. ASSUME NEW h \in Holders PROVE Held(h) = {}
  <2>1. ASSUME NEW s \in Services PROVE TickHolds(s) = {} /\ StartHolds(s) = {}
    BY <1>1, JobsOfFacts DEF BatchInv, BatchOK, TickHolds, StartHolds
  <2>2. ASSUME NEW m \in ManualRuns PROVE ManualHolds(m) = {}
    BY <1>1, JobsOfFacts DEF BatchInv, ManualOK, ManualHolds
  <2>3. \/ \E s \in Services : h = <<"tick", s>>
        \/ \E s \in Services : h = <<"start", s>>
        \/ \E m \in ManualRuns : h = <<"manual", m>>
    BY DEF Holders
  <2> QED BY <2>1, <2>2, <2>3 DEF Held
<1>3. \A j : j \notin Awaited
  BY <1>1, <1>2, AwaitedIsHeld
<1> QED BY <1>3

\* A service that has not cleared the markers yet awaits nothing.
LEMMA NewAwaitsNothing ==
  ASSUME CronInv, Alone, phase[live] = "new" PROVE Awaited = {}
BY RestAwaitsNothing DEF Alone

LEMMA StartClearIs ==
  ASSUME CronInv, LiveInv, NEW s \in Services, StartClear(s)
  PROVE  /\ s = live /\ phase[live] = "new" /\ phase'[live] = "cleared" /\ Alone'
         /\ UNCHANGED <<now, live, fresh, succeeded>> /\ mem'[live] = store'
         /\ Derived(store, store', {}, DOMAIN store) /\ KeepsSlots(store, store', {})
         /\ BatchInv' /\ Awaited = {} /\ Awaited' = {}
<1> DEFINE n == [j \in DOMAIN store |-> ClearMark(store[j])]
<1>1. /\ BatchInv /\ now \in Nat /\ live \in Services /\ Sound(store, now) /\ Alone
      /\ phase \in [Services -> Phases] /\ DOMAIN store \subseteq Jobs /\ timer \subseteq {live}
      /\ \A m \in ManualRuns :
           manual[m].phase \in {"queued", "running", "ended"} => manual[m].svc = live
      /\ DOMAIN mem = Services
  BY LiveFacts DEF CronInv, StoreInv
<1>2. /\ phase[s] = "new" /\ Keep(s, n) /\ store' = n
      /\ phase' = [phase EXCEPT ![s] = "cleared"]
      /\ UNCHANGED <<now, live, timer, tick, manual, fresh, succeeded>>
  BY DEF StartClear, Save
<1>3. s = live
  BY <1>1, <1>2, OnlyLiveActs
<1>4. /\ DOMAIN n = DOMAIN store /\ KeepsSlots(store, n, {})
      /\ \A j \in DOMAIN store : n[j].enabled = store[j].enabled /\ n[j].runningAt = Undefined
  BY <1>1, ClearWrites
<1> HIDE DEF n
<1>5. Derived(store, n, {}, DOMAIN store)
  BY <1>4 DEF Derived
<1>6. phase'[live] = "cleared" /\ mem'[live] = n /\ \A q \in Services \ {live} : phase'[q] = phase[q]
  BY <1>1, <1>2, <1>3 DEF Keep
<1>7. Alone'
  BY <1>1, <1>2, <1>6, AloneAfter
<1>8. BatchInv' /\ AllHold
  BY <1>1, StartClearBatches
<1>9. Awaited = {} /\ Awaited' = {}
  BY <1>1, <1>2, <1>3, <1>8, NewAwaitsNothing, AwaitedIfAllHold
<1> QED BY <1>2, <1>3, <1>4, <1>5, <1>6, <1>7, <1>8, <1>9

LEMMA StartPlanIs ==
  ASSUME CronInv, LiveInv, NEW s \in Services, NEW chosen, StartPlan(s, chosen)
  PROVE  /\ s = live /\ phase[live] # "new" /\ phase'[live] # "new" /\ Alone'
         /\ UNCHANGED <<now, live, fresh, succeeded>>
         /\ \/ chosen = {} /\ UNCHANGED <<mem, store>>
            \/ mem'[live] = store' /\ Derived(mem[live], store', chosen, {})
               /\ KeepsSlots(mem[live], store', {})
         /\ \A j \in chosen : j \in DOMAIN mem[live] /\ mem[live][j].runningAt = Undefined
         /\ BatchInv' /\ OnlyHolder(<<"start", live>>, chosen) /\ Held(<<"start", live>>) = {}
         /\ Awaited' = Awaited \cup chosen
<1> DEFINE n == Mark(mem[s], chosen)
           missed == {j \in DOMAIN mem[s] \ catchup[s].skip :
                         RunnableAtStart(j, mem[s][j], now)}
<1>1. /\ BatchInv /\ now \in Nat /\ live \in Services /\ Sound(mem[s], now) /\ Alone
      /\ phase \in [Services -> Phases] /\ timer \subseteq {live}
      /\ \A m \in ManualRuns :
           manual[m].phase \in {"queued", "running", "ended"} => manual[m].svc = live
      /\ DOMAIN mem = Services /\ DOMAIN mem[s] \subseteq Jobs
  BY LiveFacts, CronInvFacts DEF CronInv, StoreInv
<1>2. /\ (Keep(s, n) /\ store' = n) \/ (missed = {} /\ UNCHANGED <<mem, store>>)
      /\ chosen \subseteq missed
      /\ phase[s] = "cleared" /\ phase' \in {[phase EXCEPT ![s] = "planned"],
                                             [phase EXCEPT ![s] = "catchup"]}
      /\ UNCHANGED <<now, live, timer, tick, manual, fresh, succeeded>>
  BY DEF StartPlan, Save
<1>3. s = live
  BY <1>1, <1>2, OnlyLiveActs
<1>4. Derived(mem[s], n, chosen, {}) /\ KeepsSlots(mem[s], n, {})
  BY <1>1, MarkWrites
<1>5. \A j \in chosen : j \in DOMAIN mem[s] /\ mem[s][j].runningAt = Undefined
  BY <1>2 DEF RunnableAtStart
<1>6. missed = {} => chosen = {}
  BY <1>2
<1> HIDE DEF n, missed
<1>7. /\ phase'[live] \notin {"new", "off"} /\ phase[live] # "new"
      /\ \A q \in Services \ {live} : phase'[q] = phase[q]
  BY <1>1, <1>2, <1>3
<1>8. Alone'
  BY <1>1, <1>2, <1>7, AloneAfter
<1>9. BatchInv' /\ OnlyHolder(<<"start", s>>, chosen) /\ Held(<<"start", s>>) = {}
  BY <1>1, StartPlanBatches
<1>10. Awaited' = Awaited \cup chosen
  <2>1. <<"start", s>> \in Holders
    BY DEF Holders
  <2> QED BY <1>1, <1>9, <2>1, AwaitedIfTaken
<1>11. Keep(s, n) => mem'[live] = n
  BY <1>1, <1>3 DEF Keep
<1> QED BY <1>2, <1>3, <1>4, <1>5, <1>6, <1>7, <1>8, <1>9, <1>10, <1>11

LEMMA StartRunIs ==
  ASSUME CronInv, LiveInv, NEW s \in Services, NEW j \in Jobs, StartRun(s, j)
  PROVE  /\ j \in Awaited /\ UNCHANGED <<now, store, live, mem, phase, fresh, succeeded>>
         /\ Alone' /\ BatchInv' /\ AllHold /\ Awaited' = Awaited
         /\ execs' = execs \cup {[svc |-> s, job |-> j, by |-> "start", started |-> now]}
<1>1. /\ BatchInv /\ Alone /\ timer \subseteq {live} /\ phase[live] # "off"
      /\ \A m \in ManualRuns :
           manual[m].phase \in {"queued", "running", "ended"} => manual[m].svc = live
  BY LiveFacts
<1>2. /\ j \in catchup[s].pending
      /\ execs' = execs \cup {[svc |-> s, job |-> j, by |-> "start", started |-> now]}
      /\ UNCHANGED <<now, store, live, mem, phase, timer, tick, manual, fresh, succeeded>>
  BY DEF StartRun, Begin
<1>3. BatchInv' /\ AllHold
  BY <1>1, StartRunBatches
<1>4. Awaited' = Awaited
  BY <1>1, <1>3, AwaitedIfAllHold
<1>5. j \in Awaited
  <2>1. <<"start", s>> \in Holders /\ j \in Held(<<"start", s>>)
    BY <1>2 DEF Holders, Held, StartHolds
  <2> QED BY <1>1, <2>1, AwaitedIsHeld DEF BatchInv
<1>6. Alone'
  BY <1>1, <1>2, AloneAfter
<1> QED BY <1>2, <1>3, <1>4, <1>5, <1>6

LEMMA StartApplyIs ==
  ASSUME CronInv, LiveInv, NEW s \in Services, StartApply(s)
  PROVE  LET rs == JobsOf(catchup[live].results)
         IN  /\ s = live /\ phase[live] # "new" /\ phase'[live] # "new" /\ Alone'
             /\ UNCHANGED <<now, live, fresh>> /\ mem'[live] = store'
             /\ Derived(mem[live], store', {}, rs)
             /\ succeeded' \subseteq succeeded \cup rs /\ succeeded' \subseteq Jobs
             /\ \A j \in (succeeded' \ succeeded) \cap DOMAIN store' : ~store'[j].enabled
             /\ BatchInv' /\ OnlyHolder(<<"start", live>>, {}) /\ Held(<<"start", live>>) = rs
<1> DEFINE applied == ApplyOutcomes(mem[s], catchup[s].results)
           deferred == [j \in DOMAIN applied |->
                          IF j \in catchup[s].deferred /\ applied[j].enabled
                          THEN [applied[j] EXCEPT !.next = now + 1] ELSE applied[j]]
           n == Maintenance(deferred, now, FALSE)
           results == catchup[s].results
<1>1. /\ BatchInv /\ BatchTypes /\ now \in Nat /\ live \in Services /\ Sound(mem[s], now) /\ Alone
      /\ phase \in [Services -> Phases] /\ timer \subseteq {live}
      /\ \A m \in ManualRuns :
           manual[m].phase \in {"queued", "running", "ended"} => manual[m].svc = live
      /\ DOMAIN mem = Services /\ succeeded \subseteq Jobs /\ OneShots \subseteq Jobs
  BY LiveFacts, CronInvFacts DEF CronInv, StoreInv
<1>2. /\ phase[s] = "catchup" /\ Keep(s, n) /\ store' = n
      /\ phase' = [phase EXCEPT ![s] = "planned"]
      /\ succeeded' = succeeded \cup Succeeded(results)
      /\ UNCHANGED <<now, live, timer, tick, manual, fresh>>
  BY DEF StartApply, Save, CatchupDone
<1>3. s = live
  BY <1>1, <1>2, OnlyLiveActs
<1>4. /\ results \in SUBSET Recorded /\ Past(results, now)
      /\ \A x, y \in results : x.job = y.job => x = y
  BY <1>1 DEF BatchTypes, BatchInv, BatchOK, OnceEach, Plans
<1>5. Derived(mem[s], n, {}, JobsOf(results)) /\ Retired(n, results)
  BY <1>1, <1>4, CatchupWrites
<1> HIDE DEF n
<1>6. /\ phase'[live] \notin {"new", "off"} /\ phase[live] # "new" /\ mem'[live] = n
      /\ \A q \in Services \ {live} : phase'[q] = phase[q]
  BY <1>1, <1>2, <1>3 DEF Keep
<1>7. Alone'
  BY <1>1, <1>2, <1>6, AloneAfter
<1>8. /\ BatchInv' /\ OnlyHolder(<<"start", s>>, {})
      /\ Held(<<"start", s>>) = JobsOf(results)
  BY <1>1, StartApplyBatches
<1>9. Succeeded(results) \subseteq JobsOf(results) /\ Succeeded(results) \subseteq OneShots
  BY DEF Succeeded, JobsOf
<1>10. \A j \in (succeeded' \ succeeded) \cap DOMAIN store' : ~store'[j].enabled
  BY <1>2, <1>5 DEF Retired
<1> HIDE DEF results
<1>11. results = catchup[live].results
  BY <1>3 DEF results
<1> QED BY <1>1, <1>2, <1>3, <1>5, <1>6, <1>7, <1>8, <1>9, <1>10, <1>11

LEMMA StartArmIs ==
  ASSUME CronInv, LiveInv, NEW s \in Services, StartArm(s)
  PROVE  /\ s = live /\ phase[live] # "new" /\ phase'[live] # "new" /\ Alone'
         /\ UNCHANGED <<now, live, fresh, succeeded>>
         /\ Derived(mem[live], mem'[live], {}, {})
         /\ \/ store' = store /\ mem'[live] = mem[live]
            \/ store' = mem'[live]
         /\ BatchInv' /\ AllHold /\ Awaited' = Awaited
<1> DEFINE n == RecomputeNextRuns(mem[s], now)
<1>1. /\ BatchInv /\ BatchTypes /\ now \in Nat /\ live \in Services /\ Sound(mem[s], now) /\ Alone
      /\ phase \in [Services -> Phases] /\ timer \subseteq {live}
      /\ \A m \in ManualRuns :
           manual[m].phase \in {"queued", "running", "ended"} => manual[m].svc = live
      /\ DOMAIN mem = Services
  BY LiveFacts, CronInvFacts DEF CronInv, StoreInv
<1>2. /\ phase[s] = "planned" /\ Keep(s, n) /\ ArmTimer(s, n)
      /\ store' = IF n = mem[s] THEN store ELSE n
      /\ phase' = [phase EXCEPT ![s] = "up"]
      /\ UNCHANGED <<now, live, tick, catchup, manual, execs, fresh, succeeded>>
  BY DEF StartArm, SaveIfChanged
<1>3. s = live
  BY <1>1, <1>2, OnlyLiveActs
<1>4. Derived(mem[s], n, {}, {})
  BY <1>1, ArmWrites
<1> HIDE DEF n
<1>5. /\ phase'[live] \notin {"new", "off"} /\ phase[live] # "new" /\ mem'[live] = n
      /\ \A q \in Services \ {live} : phase'[q] = phase[q]
  BY <1>1, <1>2, <1>3 DEF Keep
<1>6. timer' \subseteq {live}
  BY <1>1, <1>2, <1>3 DEF ArmTimer
<1>7. Alone'
  BY <1>1, <1>2, <1>5, <1>6, AloneAfter
<1>8. BatchInv' /\ AllHold
  <2>1. timer' \subseteq Services
    BY <1>1, <1>6
  <2>2. phase' \in [Services -> Phases]
    BY <1>1, <1>2 DEF Phases
  <2>3. \A q \in Services : /\ phase'[q] = "catchup" <=> phase[q] = "catchup"
                            /\ q > live' => phase'[q] = "off"
    BY <1>1, <1>2 DEF BatchInv
  <2>4. now' \in Nat /\ now' >= now /\ live' \in Nat
    BY <1>1, <1>2, ConstantFacts DEF CronInv
  <2> QED BY <1>1, <1>2, <2>1, <2>2, <2>3, <2>4, BatchesStay
<1>9. Awaited' = Awaited
  BY <1>1, <1>8, AwaitedIfAllHold
<1> QED BY <1>2, <1>3, <1>4, <1>5, <1>7, <1>8, <1>9

LEMMA TickCollectIs ==
  ASSUME CronInv, LiveInv, NEW s \in Services, TickCollect(s)
  PROVE  LET due == {j \in DOMAIN store : Runnable(store[j], now)}
         IN  /\ s = live /\ phase[live] # "new" /\ Alone'
             /\ UNCHANGED <<now, live, phase, fresh, succeeded>> /\ mem'[live] = store'
             /\ Derived(store, store', due, {}) /\ KeepsSlots(store, store', {})
             /\ \A j \in due : j \in DOMAIN store /\ store[j].runningAt = Undefined
             /\ BatchInv' /\ OnlyHolder(<<"tick", live>>, due) /\ Held(<<"tick", live>>) = {}
             /\ Awaited' = Awaited \cup due
<1> DEFINE due == {j \in DOMAIN store : Runnable(store[j], now)}
           n == Mark(store, due)
<1>1. /\ BatchInv /\ now \in Nat /\ live \in Services /\ Sound(store, now) /\ Alone
      /\ timer \subseteq {live} /\ phase[live] # "off"
      /\ \A m \in ManualRuns :
           manual[m].phase \in {"queued", "running", "ended"} => manual[m].svc = live
      /\ DOMAIN mem = Services /\ DOMAIN store \subseteq Jobs
  BY LiveFacts DEF CronInv, StoreInv
<1>2. /\ s \in timer /\ Keep(s, n) /\ store' = n
      /\ tick' = [tick EXCEPT ![s] =
            [running |-> TRUE, pending |-> due, results |-> {}, aliased |-> TRUE]]
      /\ UNCHANGED <<now, live, phase, timer, manual, fresh, succeeded>>
  BY DEF TickCollect, Save
<1>3. s = live /\ phase[live] # "new"
  BY <1>1, <1>2, OnlyLiveActs
<1>4. Derived(store, n, due, {}) /\ KeepsSlots(store, n, {})
  BY <1>1, MarkWrites
<1>5. \A j \in due : j \in DOMAIN store /\ store[j].runningAt = Undefined
  BY DEF Runnable
<1>6. BatchInv' /\ OnlyHolder(<<"tick", s>>, due) /\ Held(<<"tick", s>>) = {}
  BY <1>1, TickCollectBatches
<1> HIDE DEF n, due
<1>7. mem'[live] = n /\ \A q \in Services \ {live} : tick'[q] = tick[q]
  BY <1>1, <1>2, <1>3 DEF Keep
<1>8. Alone'
  BY <1>1, <1>2, <1>3, <1>7, AloneAfter
<1>9. Awaited' = Awaited \cup due
  <2>1. <<"tick", s>> \in Holders
    BY DEF Holders
  <2> QED BY <1>1, <1>6, <2>1, AwaitedIfTaken
<1>10. /\ s = live /\ phase[live] # "new" /\ Alone'
       /\ UNCHANGED <<now, live, phase, fresh, succeeded>> /\ mem'[live] = store'
       /\ Derived(store, store', due, {}) /\ KeepsSlots(store, store', {})
       /\ \A j \in due : j \in DOMAIN store /\ store[j].runningAt = Undefined
       /\ BatchInv' /\ OnlyHolder(<<"tick", live>>, due) /\ Held(<<"tick", live>>) = {}
       /\ Awaited' = Awaited \cup due
  BY <1>2, <1>3, <1>4, <1>5, <1>6, <1>7, <1>8, <1>9
<1> QED BY <1>10 DEF due

LEMMA TickNothingDueIs ==
  ASSUME CronInv, LiveInv, NEW s \in Services, TickNothingDue(s)
  PROVE  /\ s = live /\ phase[live] # "new" /\ Alone'
         /\ UNCHANGED <<now, live, phase, fresh, succeeded>> /\ mem'[live] = store'
         /\ Derived(store, store', {}, {}) /\ KeepsSlots(store, store', {})
         /\ BatchInv' /\ AllHold /\ Awaited' = Awaited
<1> DEFINE n == Maintenance(store, now, TRUE)
<1>1. /\ BatchInv /\ BatchTypes /\ now \in Nat /\ live \in Services /\ Sound(store, now) /\ Alone
      /\ timer \subseteq {live} /\ phase[live] # "off"
      /\ \A m \in ManualRuns :
           manual[m].phase \in {"queued", "running", "ended"} => manual[m].svc = live
      /\ DOMAIN mem = Services
  BY LiveFacts DEF CronInv, StoreInv
<1>2. /\ s \in timer /\ Keep(s, n) /\ store' = n /\ ArmTimer(s, n)
      /\ UNCHANGED <<now, live, phase, tick, catchup, manual, execs, fresh, succeeded>>
  BY DEF TickNothingDue, Save
<1>3. s = live /\ phase[live] # "new"
  BY <1>1, <1>2, OnlyLiveActs
<1>4. Derived(store, n, {}, {}) /\ KeepsSlots(store, n, {})
  BY <1>1, RepairWrites
<1> HIDE DEF n
<1>5. mem'[live] = n /\ timer' \subseteq {live} /\ timer' \subseteq Services
  BY <1>1, <1>2, <1>3 DEF Keep, ArmTimer
<1>6. Alone'
  BY <1>1, <1>2, <1>3, <1>5, AloneAfter
<1>7. BatchInv' /\ AllHold
  BY <1>1, <1>2, <1>5, BatchesUntouched
<1>8. Awaited' = Awaited
  BY <1>1, <1>7, AwaitedIfAllHold
<1> QED BY <1>2, <1>3, <1>4, <1>5, <1>6, <1>7, <1>8

LEMMA TickRunIs ==
  ASSUME CronInv, LiveInv, NEW s \in Services, NEW j \in Jobs, TickRun(s, j)
  PROVE  /\ s = live /\ phase[live] # "new" /\ Alone' /\ j \in Awaited
         /\ UNCHANGED <<now, store, live, phase, fresh, succeeded>>
         /\ \/ mem'[live] = mem[live]
            \/ Derived(mem[live], mem'[live], {j}, {}) /\ KeepsSlots(mem[live], mem'[live], {})
         /\ BatchInv' /\ AllHold /\ Awaited' = Awaited
         /\ execs' = execs \cup {[svc |-> s, job |-> j, by |-> "tick", started |-> now]}
<1> DEFINE n == Mark(mem[s], {j})
<1>1. /\ BatchInv /\ now \in Nat /\ live \in Services /\ Sound(mem[s], now) /\ Alone
      /\ timer \subseteq {live} /\ phase[live] # "off"
      /\ \A m \in ManualRuns :
           manual[m].phase \in {"queued", "running", "ended"} => manual[m].svc = live
      /\ DOMAIN mem = Services /\ BatchTypes
  BY LiveFacts DEF CronInv, StoreInv
<1>2. /\ tick[s].running /\ j \in tick[s].pending
      /\ tick' = [tick EXCEPT ![s].pending = @ \ {j}]
      /\ Keep(s, n) \/ mem' = mem
      /\ execs' = execs \cup {[svc |-> s, job |-> j, by |-> "tick", started |-> now]}
      /\ UNCHANGED <<now, store, live, phase, timer, manual, fresh, succeeded>>
  BY DEF TickRun, Begin
<1>3. s = live /\ phase[live] # "new"
  BY <1>1, <1>2, OnlyLiveActs
<1>4. Derived(mem[s], n, {j}, {}) /\ KeepsSlots(mem[s], n, {})
  BY <1>1, MarkWrites
<1> HIDE DEF n
<1>5. /\ Keep(s, n) => mem'[live] = n
      /\ \A q \in Services \ {live} : tick'[q] = tick[q]
  BY <1>1, <1>2, <1>3 DEF Keep, BatchTypes
<1>6. Alone'
  BY <1>1, <1>2, <1>3, <1>5, AloneAfter
<1>7. BatchInv' /\ AllHold
  BY <1>1, TickRunBatches
<1>8. Awaited' = Awaited
  BY <1>1, <1>7, AwaitedIfAllHold
<1>9. j \in Awaited
  <2>1. <<"tick", s>> \in Holders /\ j \in Held(<<"tick", s>>)
    BY <1>2 DEF Holders, Held, TickHolds
  <2> QED BY <1>1, <2>1, AwaitedIsHeld
<1> QED BY <1>2, <1>3, <1>4, <1>5, <1>6, <1>7, <1>8, <1>9

LEMMA TickApplyIs ==
  ASSUME CronInv, LiveInv, NEW s \in Services, TickApply(s)
  PROVE  LET rs == JobsOf(tick[live].results)
         IN  /\ s = live /\ phase[live] # "new" /\ Alone'
             /\ UNCHANGED <<now, live, phase, fresh>> /\ mem'[live] = store'
             /\ Derived(store, store', {}, rs) /\ KeepsSlots(store, store', rs)
             /\ succeeded' \subseteq succeeded \cup rs /\ succeeded' \subseteq Jobs
             /\ \A j \in (succeeded' \ succeeded) \cap DOMAIN store' : ~store'[j].enabled
             /\ BatchInv' /\ OnlyHolder(<<"tick", live>>, {}) /\ Held(<<"tick", live>>) = rs
<1> DEFINE results == tick[s].results
           n == Maintenance(ApplyOutcomes(store, results), now, FALSE)
<1>1. /\ BatchInv /\ BatchTypes /\ now \in Nat /\ live \in Services /\ Sound(store, now) /\ Alone
      /\ timer \subseteq {live} /\ phase[live] # "off"
      /\ \A m \in ManualRuns :
           manual[m].phase \in {"queued", "running", "ended"} => manual[m].svc = live
      /\ DOMAIN mem = Services /\ succeeded \subseteq Jobs /\ OneShots \subseteq Jobs
  BY LiveFacts DEF CronInv, StoreInv
<1>2. /\ tick[s].running /\ Keep(s, n) /\ store' = n /\ ArmTimer(s, n)
      /\ tick' = [tick EXCEPT ![s] = Idle]
      /\ succeeded' = succeeded \cup Succeeded(results)
      /\ UNCHANGED <<now, live, phase, manual, fresh>>
  BY DEF TickApply, TickDone, Save
<1>3. s = live /\ phase[live] # "new"
  BY <1>1, <1>2, OnlyLiveActs
<1>4. /\ results \in SUBSET Recorded /\ Past(results, now)
      /\ \A x, y \in results : x.job = y.job => x = y
  BY <1>1 DEF BatchTypes, BatchInv, BatchOK, OnceEach, Batches
<1>5. /\ Derived(store, n, {}, JobsOf(results)) /\ KeepsSlots(store, n, JobsOf(results))
      /\ Retired(n, results)
  BY <1>1, <1>4, TickWrites
<1> HIDE DEF n
<1>6. /\ mem'[live] = n /\ timer' \subseteq {live}
      /\ \A q \in Services \ {live} : tick'[q] = tick[q]
  BY <1>1, <1>2, <1>3 DEF Keep, ArmTimer
<1>7. Alone'
  BY <1>1, <1>2, <1>3, <1>6, AloneAfter
<1>8. /\ BatchInv' /\ OnlyHolder(<<"tick", s>>, {})
      /\ Held(<<"tick", s>>) = JobsOf(results)
  BY <1>1, TickApplyBatches
<1>9. Succeeded(results) \subseteq JobsOf(results) /\ Succeeded(results) \subseteq OneShots
  BY DEF Succeeded, JobsOf
<1>10. \A j \in (succeeded' \ succeeded) \cap DOMAIN store' : ~store'[j].enabled
  BY <1>2, <1>5 DEF Retired
<1> HIDE DEF results
<1>11. results = tick[live].results
  BY <1>3 DEF results
<1> QED BY <1>1, <1>2, <1>3, <1>5, <1>6, <1>7, <1>8, <1>9, <1>10, <1>11

LEMMA ManualEnqueueIs ==
  ASSUME CronInv, LiveInv, NEW m \in ManualRuns, NEW j \in Jobs, NEW forced \in BOOLEAN,
         ManualEnqueue(m, j, forced)
  PROVE  /\ phase[live] # "new" /\ Alone'
         /\ UNCHANGED <<now, store, live, phase, fresh, succeeded>>
         /\ Derived(mem[live], mem'[live], {}, {}) /\ KeepsSlots(mem[live], mem'[live], {})
         /\ BatchInv' /\ AllHold /\ Awaited' = Awaited
<1> DEFINE n == Maintenance(mem[live], now, FALSE)
           r == [phase |-> "queued", svc |-> live, job |-> j, forced |-> forced, result |-> {}]
<1>1. /\ BatchInv /\ now \in Nat /\ live \in Services /\ Sound(mem[live], now) /\ Alone
      /\ timer \subseteq {live} /\ phase[live] # "off"
      /\ \A k \in ManualRuns :
           manual[k].phase \in {"queued", "running", "ended"} => manual[k].svc = live
      /\ DOMAIN mem = Services /\ BatchTypes
  BY LiveFacts DEF CronInv, StoreInv
<1>2. /\ Loaded(live) /\ Keep(live, n) /\ manual' = [manual EXCEPT ![m] = r]
      /\ UNCHANGED <<now, store, live, phase, timer, tick, fresh, succeeded>>
  BY DEF ManualEnqueue
<1>3. phase[live] # "new"
  BY <1>2 DEF Loaded
<1>4. Derived(mem[live], n, {}, {}) /\ KeepsSlots(mem[live], n, {})
  BY <1>1, RepairWrites
<1>5. r.svc = live
  OBVIOUS
<1> HIDE DEF n, r
<1>6. /\ mem'[live] = n
      /\ \A k \in ManualRuns : manual'[k] = IF k = m THEN r ELSE manual[k]
  BY <1>1, <1>2 DEF Keep, BatchTypes
<1>7. Alone'
  BY <1>1, <1>2, <1>3, <1>5, <1>6, AloneAfter
<1>8. BatchInv' /\ AllHold
  BY <1>1, ManualEnqueueBatches
<1>9. Awaited' = Awaited
  BY <1>1, <1>8, AwaitedIfAllHold
<1> QED BY <1>2, <1>3, <1>4, <1>6, <1>7, <1>8, <1>9

\* A manual run starts (js is its job) or finds that its job may not run (js is empty).
LEMMA ManualStartIs ==
  ASSUME CronInv, LiveInv, NEW m \in ManualRuns, ManualStart(m)
  PROVE  \E js \in SUBSET Jobs :
            /\ phase[live] # "new" /\ Alone' /\ UNCHANGED <<now, live, phase, fresh, succeeded>>
            /\ Derived(mem[live], mem'[live], js, {}) /\ KeepsSlots(mem[live], mem'[live], {})
            /\ store' = mem'[live] \/ (js = {} /\ store' = store)
            /\ \A j \in js : /\ j \in DOMAIN mem[live]
                             /\ mem[live][j].enabled /\ ~Stuck(mem[live][j], now)
                                  => mem[live][j].runningAt = Undefined
            /\ BatchInv' /\ OnlyHolder(<<"manual", m>>, js) /\ Held(<<"manual", m>>) = {}
            /\ Awaited' = Awaited \cup js
            /\ \A e \in execs' \ execs : e.by = m
<1> DEFINE r == manual[m]
           n == Maintenance(mem[r.svc], now, FALSE)
           k == Mark(n, {r.job})
           js == IF MayRun(n, r.job, r.forced) THEN {r.job} ELSE {}
<1>1. /\ BatchInv /\ now \in Nat /\ live \in Services /\ Sound(mem[live], now) /\ Alone
      /\ timer \subseteq {live} /\ phase[live] # "off"
      /\ \A i \in ManualRuns :
           manual[i].phase \in {"queued", "running", "ended"} => manual[i].svc = live
      /\ DOMAIN mem = Services /\ BatchTypes
  BY LiveFacts DEF CronInv, StoreInv
<1>2. /\ r.phase = "queued"
      /\ \/ /\ js = {r.job} /\ MayRun(n, r.job, r.forced)
            /\ Keep(r.svc, k) /\ store' = k
            /\ manual' = [manual EXCEPT ![m].phase = "running"]
            /\ execs' = execs \cup {[svc |-> r.svc, job |-> r.job, by |-> m, started |-> now]}
         \/ /\ js = {} /\ Keep(r.svc, n) /\ store' = store
            /\ manual' = [manual EXCEPT ![m] = Over] /\ execs' = execs
      /\ UNCHANGED <<now, live, phase, timer, tick, fresh, succeeded>>
  BY DEF ManualStart, Save, Begin
<1>3. r.svc = live /\ phase[live] # "new"
  BY <1>1, <1>2 DEF Alone
<1>4. BatchInv' /\ OnlyHolder(<<"manual", m>>, js) /\ Held(<<"manual", m>>) = {} /\ r.job \in Jobs
  BY <1>1, ManualStartBatches
<1>5. /\ Derived(mem[live], n, {}, {}) /\ KeepsSlots(mem[live], n, {})
      /\ Derived(mem[live], k, {r.job}, {}) /\ KeepsSlots(mem[live], k, {})
  BY <1>1, <1>3, RepairWrites, ReserveWrites
<1>6. MayRun(n, r.job, r.forced) =>
        /\ r.job \in DOMAIN mem[live]
        /\ mem[live][r.job].enabled /\ ~Stuck(mem[live][r.job], now)
             => mem[live][r.job].runningAt = Undefined
  BY <1>5 DEF MayRun, Derived
<1> HIDE DEF n, k, js
<1>7. Keep(r.svc, n) => mem'[live] = n
  BY <1>1, <1>3 DEF Keep
<1>8. Keep(r.svc, k) => mem'[live] = k
  BY <1>1, <1>3 DEF Keep
<1>9. \A i \in ManualRuns : manual'[i].phase \in {"queued", "running", "ended"}
                              => manual'[i].svc = live
  <2>1. CASE manual' = [manual EXCEPT ![m] = Over]
    BY <1>1, <2>1 DEF BatchTypes, Over, NoRun
  <2>2. CASE manual' = [manual EXCEPT ![m].phase = "running"]
    <3> DEFINE x == [r EXCEPT !.phase = "running"]
    <3>1. r \in Manuals
      BY <1>1 DEF BatchTypes
    <3>2. x.svc = live
      BY <1>2, <1>3, <3>1 DEF Manuals
    <3>3. manual' = [manual EXCEPT ![m] = x]
      BY <2>2
    <3> HIDE DEF x, r
    <3> QED BY <1>1, <3>2, <3>3 DEF BatchTypes
  <2> QED BY <1>2, <2>1, <2>2
<1>10. Alone'
  BY <1>1, <1>2, <1>3, <1>9, AloneAfter
<1>11. Awaited' = Awaited \cup js
  <2>1. <<"manual", m>> \in Holders
    BY DEF Holders
  <2> QED BY <1>1, <1>4, <2>1, AwaitedIfTaken
<1>12. js \in SUBSET Jobs
  BY <1>2, <1>4
<1>13. \A e \in execs' \ execs : e.by = m
  BY <1>2
<1>14. CASE /\ js = {r.job} /\ MayRun(n, r.job, r.forced)
            /\ Keep(r.svc, k) /\ store' = k
  BY <1>2, <1>3, <1>4, <1>5, <1>6, <1>8, <1>10, <1>11, <1>12, <1>13, <1>14
<1>15. CASE js = {} /\ Keep(r.svc, n) /\ store' = store
  BY <1>2, <1>3, <1>4, <1>5, <1>7, <1>10, <1>11, <1>12, <1>13, <1>15
<1> QED BY <1>2, <1>14, <1>15

LEMMA ManualApplyIs ==
  ASSUME CronInv, LiveInv, NEW m \in ManualRuns, ManualApply(m)
  PROVE  LET i == manual[m].job
         IN  /\ phase[live] # "new" /\ Alone' /\ UNCHANGED <<now, live, phase, fresh, execs>>
             /\ \/ /\ mem'[live] = store'
                   /\ Derived(store, store', {}, {i}) /\ KeepsSlots(store, store', {i})
                \/ i \notin DOMAIN mem[live] /\ UNCHANGED <<mem, store, succeeded>>
             /\ succeeded' \subseteq succeeded \cup {i} /\ succeeded' \subseteq Jobs
             /\ \A j \in (succeeded' \ succeeded) \cap DOMAIN store' : ~store'[j].enabled
             /\ BatchInv' /\ OnlyHolder(<<"manual", m>>, {}) /\ Held(<<"manual", m>>) = {i}
<1> DEFINE r == manual[m]
           i == r.job
           n == Maintenance(MergeManual(r.job, ApplyOutcomes(mem[r.svc], r.result)), now, TRUE)
<1>1. /\ BatchInv /\ BatchTypes /\ now \in Nat /\ live \in Services /\ Sound(store, now) /\ Alone
      /\ Sound(mem[live], now) /\ timer \subseteq {live} /\ phase[live] # "off"
      /\ \A k \in ManualRuns :
           manual[k].phase \in {"queued", "running", "ended"} => manual[k].svc = live
      /\ DOMAIN mem = Services /\ succeeded \subseteq Jobs /\ OneShots \subseteq Jobs
  BY LiveFacts DEF CronInv, StoreInv
<1>2. /\ r.phase = "ended" /\ manual' = [manual EXCEPT ![m] = Over]
      /\ \/ /\ i \in DOMAIN mem[r.svc] /\ Keep(r.svc, n) /\ store' = n /\ ArmTimer(r.svc, n)
            /\ tick' = [tick EXCEPT ![r.svc].aliased = FALSE]
            /\ succeeded' = succeeded \cup Succeeded(r.result)
         \/ i \notin DOMAIN mem[r.svc] /\ UNCHANGED <<mem, store, timer, tick, succeeded>>
      /\ UNCHANGED <<now, live, phase, fresh, execs>>
  BY DEF ManualApply, Save
<1>3. r.svc = live /\ phase[live] # "new"
  BY <1>1, <1>2 DEF Alone
<1>4. /\ BatchInv' /\ OnlyHolder(<<"manual", m>>, {}) /\ Held(<<"manual", m>>) = {i}
  BY <1>1, ManualApplyBatches
<1>5. PICK res \in Recorded : res.job = i /\ r.result = {res}
  BY <1>1, <1>2 DEF BatchInv, ManualOK
<1>6. Past({res}, now)
  BY <1>1, <1>5 DEF BatchTypes
<1>7. i \in DOMAIN store /\ mem[live][i].enabled => store[i].enabled
  BY <1>1, <1>3, LiveFacts DEF Agree, Same
<1>8. i \in DOMAIN mem[live] =>
        /\ Derived(store, n, {}, {i}) /\ KeepsSlots(store, n, {i}) /\ Retired(n, {res})
  <2> DEFINE st == mem[live]
             c == Maintenance(MergeManual(res.job, ApplyOutcomes(st, {res})), now, TRUE)
  <2>1. c = n
    BY <1>3, <1>5
  <2>2. i \in DOMAIN st =>
          /\ KeepsSlots(store, c, {res.job}) /\ Retired(c, {res})
          /\ (res.job \in DOMAIN store /\ st[res.job].enabled => store[res.job].enabled)
               => Derived(store, c, {}, {res.job})
    BY <1>1, <1>5, <1>6, MergeWrites
  <2> HIDE DEF c, n
  <2> QED BY <1>5, <1>7, <2>1, <2>2
<1> HIDE DEF n
<1>9. \A k \in ManualRuns : manual'[k].phase \in {"queued", "running", "ended"}
                              => manual'[k].svc = live
  BY <1>1, <1>2 DEF BatchTypes, Over, NoRun
<1>10. timer' \subseteq {live} /\ \A q \in Services \ {live} : tick'[q] = tick[q]
  BY <1>1, <1>2, <1>3 DEF ArmTimer, BatchTypes
<1>11. Alone'
  BY <1>1, <1>2, <1>3, <1>9, <1>10, AloneAfter
<1>12. Succeeded(r.result) \subseteq {i} /\ Succeeded(r.result) \subseteq OneShots
  BY <1>5 DEF Succeeded
<1>13. succeeded' \subseteq succeeded \cup {i} /\ succeeded' \subseteq Jobs
  BY <1>1, <1>2, <1>12
<1>14. Keep(r.svc, n) => mem'[live] = n
  BY <1>1, <1>3 DEF Keep
<1>15. \/ /\ mem'[live] = store'
          /\ Derived(store, store', {}, {i}) /\ KeepsSlots(store, store', {i})
       \/ i \notin DOMAIN mem[live] /\ UNCHANGED <<mem, store, succeeded>>
  BY <1>2, <1>3, <1>8, <1>14
<1>16. \A j \in (succeeded' \ succeeded) \cap DOMAIN store' : ~store'[j].enabled
  BY <1>2, <1>3, <1>5, <1>8 DEF Retired
<1>17. UNCHANGED <<now, live, phase, fresh, execs>>
  BY <1>2
<1> HIDE DEF i, r
<1> QED BY <1>3, <1>4, <1>11, <1>13, <1>15, <1>16, <1>17 DEF i, r

LEMMA EndRunIs ==
  ASSUME CronInv, LiveInv, NEW e \in execs, NEW outcome \in Outcomes, EndRun(e, outcome)
  PROVE  /\ UNCHANGED <<now, store, live, mem, phase, fresh, succeeded>> /\ Alone'
         /\ BatchInv' /\ AllHold /\ Awaited' = Awaited /\ execs' \subseteq execs
<1> DEFINE res == [job |-> e.job, by |-> e.by, outcome |-> outcome,
                   started |-> e.started, ended |-> now]
<1>1. /\ BatchInv /\ BatchTypes /\ Alone /\ timer \subseteq {live} /\ phase[live] # "off"
      /\ \A m \in ManualRuns :
           manual[m].phase \in {"queued", "running", "ended"} => manual[m].svc = live
  BY LiveFacts
<1>2. /\ execs' = execs \ {e}
      /\ tick' = tick \/ tick' = [tick EXCEPT ![e.svc].results = @ \cup {res}]
      /\ \/ manual' = manual
         \/ /\ e.by \in ManualRuns
            /\ manual' = [manual EXCEPT ![e.by].phase = "ended", ![e.by].result = {res}]
      /\ UNCHANGED <<now, store, live, mem, phase, timer, fresh, succeeded>>
  BY DEF EndRun
<1> HIDE DEF res
<1>3. BatchInv' /\ AllHold
  BY <1>1, EndRunBatches
<1>4. Awaited' = Awaited
  BY <1>1, <1>3, AwaitedIfAllHold
<1>5. \A q \in Services : tick'[q].running = tick[q].running
  BY <1>1, <1>2 DEF BatchTypes, Batches
<1>6. \A k \in ManualRuns : manual'[k].phase \in {"queued", "running", "ended"}
                              => manual'[k].svc = live
  <2>1. CASE manual' = manual
    BY <1>1, <2>1
  <2>2. CASE /\ e.by \in ManualRuns
             /\ manual' = [manual EXCEPT ![e.by].phase = "ended", ![e.by].result = {res}]
    <3> DEFINE m == e.by
               r == manual[m]
               x == [r EXCEPT !.phase = "ended", !.result = {res}]
    <3>1. RunsFor(m) # {}
      BY DEF RunsFor
    <3>2. r.phase = "running" /\ r \in Manuals
      BY <1>1, <2>2, <3>1 DEF BatchInv, ManualOK, BatchTypes
    <3>3. r.svc = live
      BY <1>1, <2>2, <3>2
    <3>4. x.svc = live
      BY <3>2, <3>3 DEF Manuals
    <3>5. manual' = [manual EXCEPT ![m] = x]
      BY <2>2
    <3> HIDE DEF x, r
    <3> QED BY <1>1, <2>2, <3>4, <3>5 DEF BatchTypes
  <2> QED BY <1>2, <2>1, <2>2
<1>7. phase[live] = "new" => execs = {}
  <2> SUFFICES ASSUME phase[live] = "new" PROVE FALSE
    OBVIOUS
  <2>1. Awaited = {}
    BY LiveFacts, NewAwaitsNothing
  <2>2. e.job \in Awaited
    BY DEF Awaited
  <2> QED BY <2>1, <2>2
<1>8. Alone'
  BY <1>1, <1>2, <1>5, <1>6, <1>7, AloneAfter
<1> QED BY <1>2, <1>3, <1>4, <1>8

LEMMA TimePasses ==
  ASSUME CronInv, LiveInv, Excuses, Tick
  PROVE  /\ UNCHANGED <<store, live, mem, phase, fresh, succeeded, execs>> /\ Alone'
         /\ BatchInv' /\ AllHold /\ Awaited' = Awaited
<1>1. /\ BatchInv /\ BatchTypes /\ Alone /\ now \in Nat /\ live \in Services
  BY LiveFacts
<1>2. /\ now' = now + 1
      /\ UNCHANGED <<store, live, mem, phase, timer, tick, catchup, manual, execs, fresh,
                     succeeded>>
  BY DEF Tick, batches
<1>3. BatchInv' /\ AllHold
  <2>1. /\ phase' \in [Services -> Phases] /\ timer' \subseteq Services
        /\ now' \in Nat /\ now' >= now /\ live' \in Nat
    BY <1>1, <1>2, ConstantFacts DEF BatchTypes
  <2>2. \A s \in Services : /\ phase'[s] = "catchup" <=> phase[s] = "catchup"
                            /\ s > live' => phase'[s] = "off"
    BY <1>1, <1>2 DEF BatchInv
  <2> QED BY <1>1, <1>2, <2>1, <2>2, BatchesStay
<1>4. Awaited' = Awaited
  BY <1>1, <1>3, AwaitedIfAllHold
<1>5. Alone'
  BY <1>1, <1>2 DEF Alone
<1> QED BY <1>2, <1>3, <1>4, <1>5

LEMMA ReadIs ==
  ASSUME CronInv, LiveInv, Read
  PROVE  /\ phase[live] # "new" /\ UNCHANGED <<now, live, phase, fresh, succeeded, execs>>
         /\ mem'[live] = store' /\ Alone'
         /\ Derived(mem[live], store', {}, {}) /\ KeepsSlots(mem[live], store', {})
         /\ BatchInv' /\ AllHold /\ Awaited' = Awaited
<1> DEFINE n == Maintenance(mem[live], now, FALSE)
<1>1. /\ BatchInv /\ BatchTypes /\ now \in Nat /\ live \in Services /\ Sound(mem[live], now)
      /\ Alone /\ DOMAIN mem = Services
  BY LiveFacts DEF CronInv, StoreInv
<1>2. /\ Loaded(live) /\ Keep(live, n) /\ store' = n
      /\ UNCHANGED <<now, live, phase, timer, tick, catchup, manual, execs, fresh, succeeded>>
  BY DEF Read, Save, batches
<1>3. Derived(mem[live], n, {}, {}) /\ KeepsSlots(mem[live], n, {})
  BY <1>1, RepairWrites
<1> HIDE DEF n
<1>4. mem'[live] = n /\ phase[live] # "new"
  BY <1>1, <1>2 DEF Keep, Loaded
<1>5. BatchInv' /\ AllHold
  BY <1>1, <1>2, BatchesUntouched DEF BatchTypes
<1>6. Awaited' = Awaited
  BY <1>1, <1>5, AwaitedIfAllHold
<1>7. Alone'
  BY <1>1, <1>2 DEF Alone
<1> QED BY <1>2, <1>3, <1>4, <1>5, <1>6, <1>7

LEMMA EditedIs ==
  ASSUME CronInv, LiveInv, Loaded(live), NEW n, Edited(n)
  PROVE  /\ phase[live] # "new" /\ UNCHANGED <<now, live, phase, execs>>
         /\ mem'[live] = n /\ store' = n /\ Alone'
         /\ BatchInv' /\ AllHold /\ Awaited' = Awaited
<1>1. /\ BatchInv /\ BatchTypes /\ now \in Nat /\ live \in Services /\ Alone
      /\ timer \subseteq {live} /\ DOMAIN mem = Services
  BY LiveFacts DEF CronInv, StoreInv
<1>2. /\ Keep(live, n) /\ store' = n /\ ArmTimer(live, n)
      /\ UNCHANGED <<now, live, phase, tick, catchup, manual, execs>>
  BY DEF Edited, Save
<1>3. mem'[live] = n /\ phase[live] # "new"
  BY <1>1, <1>2 DEF Keep, Loaded
<1>4. timer' \subseteq {live} /\ timer' \subseteq Services
  BY <1>1, <1>2 DEF ArmTimer
<1>5. BatchInv' /\ AllHold
  BY <1>1, <1>2, <1>4, BatchesUntouched
<1>6. Awaited' = Awaited
  BY <1>1, <1>5, AwaitedIfAllHold
<1>7. Alone'
  BY <1>1, <1>2, <1>3, <1>4 DEF Alone
<1> QED BY <1>2, <1>3, <1>5, <1>6, <1>7

LEMMA NewAwaitsNone == CronInv /\ Alone /\ phase[live] = "new" => Awaited = {}
BY NewAwaitsNothing

LEMMA ReloadIs ==
  ASSUME CronInv, LiveInv, Excuses, Quiet, Reload
  PROVE  /\ UNCHANGED <<now, store, fresh, succeeded, execs>> /\ phase'[live'] = "new"
         /\ Alone' /\ BatchInv' /\ Awaited' = {} /\ Quiet
<1>1. /\ BatchInv /\ BatchTypes /\ live \in Services /\ Alone /\ timer \subseteq {live}
      /\ phase \in [Services -> Phases] /\ restarts \in 0..MaxRestarts
      /\ live \in 1..(restarts + 1)
  BY LiveFacts DEF CronInv, StoreInv
<1>2. /\ restarts < MaxRestarts /\ Quiet /\ timer' = timer \ {live} /\ live' = live + 1
      /\ phase' = [phase EXCEPT ![live + 1] = "new"]
      /\ UNCHANGED <<now, store, tick, catchup, manual, execs, fresh, succeeded>>
  BY DEF Reload
<1>3. CronInv'
  BY ReloadInv
<1>4. live + 1 \in Services /\ live + 1 # live
  BY <1>1, <1>2, ConstantFacts DEF Services
<1>5. /\ execs = {} /\ ~Busy /\ \A s \in Services : ~tick[s].running
      /\ \A m \in ManualRuns : manual[m].phase \in {"idle", "over"}
  BY <1>2 DEF Quiet
<1>6. phase[live] = "up"
  <2>1. phase[live] \notin {"new", "cleared", "planned"}
    BY <1>1, <1>5 DEF Busy
  <2>2. phase[live] # "catchup"
    <3>1. RunsOf(live, "start") = {}
      BY <1>5 DEF RunsOf
    <3> QED BY <1>1, <1>5, <3>1 DEF Busy
  <2>3. phase[live] # "off" /\ phase[live] \in Phases
    BY <1>1 DEF Alone
  <2> QED BY <2>1, <2>2, <2>3 DEF Phases
<1>7. timer' = {} /\ phase'[live'] = "new"
  BY <1>1, <1>2, <1>4
<1>8. \A s \in Services \ {live'} : phase'[s] \in {"off", "up"}
  <2> SUFFICES ASSUME NEW s \in Services \ {live'} PROVE phase'[s] \in {"off", "up"}
    OBVIOUS
  <2>1. phase'[s] = phase[s]
    BY <1>1, <1>2
  <2>2. s # live => phase[s] \in {"off", "up"}
    BY <1>1 DEF Alone
  <2> QED BY <1>6, <2>1, <2>2
<1>9. Alone'
  BY <1>2, <1>4, <1>5, <1>7, <1>8 DEF Alone
<1>10. (CronInv /\ Alone /\ phase[live] = "new" => Awaited = {})'
  BY NewAwaitsNone, PTL
<1>11. Awaited' = {}
  BY <1>3, <1>7, <1>9, <1>10
<1> QED BY <1>2, <1>3, <1>7, <1>9, <1>11 DEF CronInv

LEMMA CrashIs ==
  ASSUME CronInv, Excuses, Crash
  PROVE  /\ UNCHANGED <<now, store, fresh, succeeded>> /\ phase'[live'] = "new"
         /\ Alone' /\ BatchInv' /\ Awaited' = {} /\ execs' = {}
<1>1. /\ live' = 1 /\ timer' = {} /\ tick' = [s \in Services |-> Idle]
      /\ phase' = [s \in Services |-> IF s = 1 THEN "new" ELSE "off"]
      /\ manual' = [m \in ManualRuns |-> IF manual[m].phase = "idle" THEN NoRun ELSE Over]
      /\ execs' = {} /\ UNCHANGED <<now, store, fresh, succeeded>>
  BY DEF Crash
<1>2. CronInv'
  BY CrashInv
<1>3. ~Idle.running /\ NoRun.phase = "idle" /\ Over.phase = "over"
  BY DEF Idle, NoRun, Over
<1>4. phase'[live'] = "new" /\ 1 \in Services
  BY <1>1, ConstantFacts
<1>5. \A m \in ManualRuns : manual'[m].phase \in {"idle", "over"}
  BY <1>1, <1>3
<1>6. Alone'
  BY <1>1, <1>3, <1>4, <1>5 DEF Alone
<1>7. (CronInv /\ Alone /\ phase[live] = "new" => Awaited = {})'
  BY NewAwaitsNone, PTL
<1>8. Awaited' = {}
  BY <1>2, <1>4, <1>6, <1>7
<1> QED BY <1>1, <1>2, <1>4, <1>6, <1>8 DEF CronInv

-----------------------------------------------------------------------------
(* Every step preserves LiveInv. *)

LEMMA DropFacts ==
  ASSUME CronInv, LiveInv, BatchInv', NEW h \in Holders, NEW rs, OnlyHolder(h, {}),
         Held(h) = rs
  PROVE  Awaited' \subseteq Awaited /\ rs \subseteq Awaited
BY LiveFacts, AwaitedIfDropped

LEMMA StartLive ==
  ASSUME CronInv, LiveInv, Excuses, NEW s \in Services,
         \/ StartClear(s) \/ StartApply(s) \/ StartArm(s)
         \/ (\E chosen \in SUBSET Jobs : StartPlan(s, chosen))
         \/ (\E j \in Jobs : StartRun(s, j))
  PROVE  LiveInv'
<1>1. /\ Agree /\ live \in Services /\ succeeded \subseteq Jobs /\ \A a : Same(a, a)
  BY LiveFacts, SameSelf
<1>2. CASE StartClear(s)
  <2>1. /\ live' = live /\ fresh' = fresh /\ mem'[live] = store' /\ Alone'
        /\ Derived(store, store', {}, DOMAIN store) /\ Awaited' = {}
        /\ succeeded' = succeeded
    BY <1>2, StartClearIs
  <2> QED BY <1>1, <2>1, LiveAfterSave
<1>3. CASE StartApply(s)
  <2> DEFINE rs == JobsOf(catchup[live].results)
  <2>1. /\ phase[live] # "new" /\ live' = live /\ fresh' = fresh /\ mem'[live] = store' /\ Alone'
        /\ Derived(mem[live], store', {}, rs)
        /\ succeeded' \subseteq succeeded \cup rs /\ succeeded' \subseteq Jobs
        /\ \A j \in (succeeded' \ succeeded) \cap DOMAIN store' : ~store'[j].enabled
        /\ BatchInv' /\ OnlyHolder(<<"start", live>>, {}) /\ Held(<<"start", live>>) = rs
    BY <1>3, StartApplyIs
  <2> HIDE DEF rs
  <2>2. <<"start", live>> \in Holders
    BY <1>1 DEF Holders
  <2>3. Awaited' \subseteq Awaited /\ rs \subseteq Awaited
    BY <2>1, <2>2, DropFacts
  <2>4. Same(mem[live], store)
    BY <1>1, <2>1 DEF Agree
  <2> QED BY <2>1, <2>3, <2>4, LiveAfterSave
<1>4. CASE StartArm(s)
  <2>1. /\ phase[live] # "new" /\ live' = live /\ fresh' = fresh /\ succeeded' = succeeded /\ Alone'
        /\ Derived(mem[live], mem'[live], {}, {}) /\ Awaited' = Awaited
        /\ mem'[live] = store' \/ (mem'[live] = mem[live] /\ store' = store)
    BY <1>4, StartArmIs
  <2>2. Same(mem[live], store)
    BY <1>1, <2>1 DEF Agree
  <2>3. CASE mem'[live] = store'
    BY <1>1, <2>1, <2>2, <2>3, LiveAfterSave
  <2>4. CASE mem'[live] = mem[live] /\ store' = store
    BY <2>1, <2>2, <2>4, LiveAfterKeep
  <2> QED BY <2>1, <2>3, <2>4
<1>5. ASSUME NEW chosen \in SUBSET Jobs, StartPlan(s, chosen) PROVE LiveInv'
  <2>1. /\ phase[live] # "new" /\ live' = live /\ fresh' = fresh /\ succeeded' = succeeded /\ Alone'
        /\ \/ chosen = {} /\ UNCHANGED <<mem, store>>
           \/ mem'[live] = store' /\ Derived(mem[live], store', chosen, {})
        /\ chosen \subseteq DOMAIN mem[live] /\ Awaited' = Awaited \cup chosen
    BY <1>5, StartPlanIs
  <2>2. Same(mem[live], store)
    BY <1>1, <2>1 DEF Agree
  <2>3. Awaited' \subseteq Awaited \cup DOMAIN store
    BY <2>1, <2>2 DEF Same
  <2>4. CASE mem'[live] = store' /\ Derived(mem[live], store', chosen, {})
    BY <1>1, <2>1, <2>2, <2>3, <2>4, LiveAfterSave
  <2>5. CASE UNCHANGED <<mem, store>>
    BY <2>1, <2>2, <2>3, <2>5, LiveAfterKeep
  <2> QED BY <2>1, <2>4, <2>5
<1>6. ASSUME NEW j \in Jobs, StartRun(s, j) PROVE LiveInv'
  <2>1. /\ UNCHANGED <<store, live, mem, phase, fresh, succeeded>> /\ Alone'
        /\ Awaited' = Awaited
    BY <1>6, StartRunIs
  <2> QED BY <1>1, <2>1, LiveAfterKeep DEF Agree
<1> QED BY <1>2, <1>3, <1>4, <1>5, <1>6

LEMMA OnTimerLive ==
  ASSUME CronInv, LiveInv, Excuses, NEW s \in Services,
         \/ TickCollect(s) \/ TickNothingDue(s) \/ TickApply(s)
         \/ (\E j \in Jobs : TickRun(s, j))
  PROVE  LiveInv'
<1>1. /\ Agree /\ live \in Services /\ succeeded \subseteq Jobs /\ Same(store, store)
  BY LiveFacts, SameSelf
<1>2. CASE TickCollect(s)
  <2> DEFINE due == {j \in DOMAIN store : Runnable(store[j], now)}
  <2>1. /\ live' = live /\ fresh' = fresh /\ succeeded' = succeeded /\ mem'[live] = store' /\ Alone'
        /\ Derived(store, store', due, {}) /\ Awaited' = Awaited \cup due
    BY <1>2, TickCollectIs
  <2>2. due \subseteq DOMAIN store
    OBVIOUS
  <2> HIDE DEF due
  <2> QED BY <1>1, <2>1, <2>2, LiveAfterSave
<1>3. CASE TickNothingDue(s)
  <2>1. /\ live' = live /\ fresh' = fresh /\ succeeded' = succeeded /\ mem'[live] = store' /\ Alone'
        /\ Derived(store, store', {}, {}) /\ Awaited' = Awaited
    BY <1>3, TickNothingDueIs
  <2> QED BY <1>1, <2>1, LiveAfterSave
<1>4. CASE TickApply(s)
  <2> DEFINE rs == JobsOf(tick[live].results)
  <2>1. /\ live' = live /\ fresh' = fresh /\ mem'[live] = store' /\ Alone'
        /\ Derived(store, store', {}, rs)
        /\ succeeded' \subseteq succeeded \cup rs /\ succeeded' \subseteq Jobs
        /\ \A j \in (succeeded' \ succeeded) \cap DOMAIN store' : ~store'[j].enabled
        /\ BatchInv' /\ OnlyHolder(<<"tick", live>>, {}) /\ Held(<<"tick", live>>) = rs
    BY <1>4, TickApplyIs
  <2> HIDE DEF rs
  <2>2. <<"tick", live>> \in Holders
    BY <1>1 DEF Holders
  <2>3. Awaited' \subseteq Awaited /\ rs \subseteq Awaited
    BY <2>1, <2>2, DropFacts
  <2> QED BY <1>1, <2>1, <2>3, LiveAfterSave
<1>5. ASSUME NEW j \in Jobs, TickRun(s, j) PROVE LiveInv'
  <2>1. /\ phase[live] # "new" /\ UNCHANGED <<store, live, phase, fresh, succeeded>> /\ Alone'
        /\ \/ mem'[live] = mem[live]
           \/ Derived(mem[live], mem'[live], {j}, {}) /\ KeepsSlots(mem[live], mem'[live], {})
        /\ Awaited' = Awaited
    BY <1>5, TickRunIs
  <2>2. Same(mem[live], store)
    BY <1>1, <2>1 DEF Agree
  <2>3. Same(mem'[live], store)
    BY <2>1, <2>2, SameAfter
  <2> QED BY <2>1, <2>3, LiveAfterKeep
<1> QED BY <1>2, <1>3, <1>4, <1>5

LEMMA ManualLive ==
  ASSUME CronInv, LiveInv, Excuses, NEW m \in ManualRuns,
         \/ ManualStart(m) \/ ManualApply(m)
         \/ \E j \in Jobs, f \in BOOLEAN : ManualEnqueue(m, j, f)
  PROVE  LiveInv'
<1>1. /\ Agree /\ live \in Services /\ succeeded \subseteq Jobs /\ Same(store, store)
      /\ <<"manual", m>> \in Holders
  BY LiveFacts, SameSelf DEF Holders
<1>2. CASE ManualStart(m)
  <2>1. PICK js \in SUBSET Jobs :
            /\ phase[live] # "new" /\ Alone' /\ UNCHANGED <<live, phase, fresh, succeeded>>
            /\ Derived(mem[live], mem'[live], js, {}) /\ KeepsSlots(mem[live], mem'[live], {})
            /\ store' = mem'[live] \/ (js = {} /\ store' = store)
            /\ \A j \in js : j \in DOMAIN mem[live]
            /\ Awaited' = Awaited \cup js
    BY <1>2, ManualStartIs
  <2>2. Same(mem[live], store)
    BY <1>1, <2>1 DEF Agree
  <2>3. Same(mem'[live], store)
    BY <2>1, <2>2, SameAfter
  <2>4. Awaited' \subseteq Awaited \cup DOMAIN store
    BY <2>1, <2>2 DEF Same
  <2>5. CASE store' = mem'[live]
    BY <1>1, <2>1, <2>2, <2>4, <2>5, LiveAfterSave
  <2>6. CASE store' = store
    BY <2>1, <2>3, <2>4, <2>6, LiveAfterKeep
  <2> QED BY <2>1, <2>5, <2>6
<1>3. CASE ManualApply(m)
  <2> DEFINE i == manual[m].job
  <2>1. /\ phase[live] # "new" /\ Alone' /\ UNCHANGED <<live, phase, fresh>>
        /\ \/ mem'[live] = store' /\ Derived(store, store', {}, {i})
           \/ UNCHANGED <<mem, store, succeeded>>
        /\ succeeded' \subseteq succeeded \cup {i} /\ succeeded' \subseteq Jobs
        /\ \A j \in (succeeded' \ succeeded) \cap DOMAIN store' : ~store'[j].enabled
        /\ BatchInv' /\ OnlyHolder(<<"manual", m>>, {}) /\ Held(<<"manual", m>>) = {i}
    BY <1>3, ManualApplyIs
  <2> HIDE DEF i
  <2>2. Awaited' \subseteq Awaited /\ {i} \subseteq Awaited
    BY <1>1, <2>1, DropFacts
  <2>3. CASE mem'[live] = store' /\ Derived(store, store', {}, {i})
    BY <1>1, <2>1, <2>2, <2>3, LiveAfterSave
  <2>4. CASE UNCHANGED <<mem, store, succeeded>>
    BY <1>1, <2>1, <2>2, <2>4, LiveAfterKeep DEF Agree
  <2> QED BY <2>1, <2>3, <2>4
<1>4. ASSUME NEW j \in Jobs, NEW f \in BOOLEAN, ManualEnqueue(m, j, f) PROVE LiveInv'
  <2>1. /\ phase[live] # "new" /\ Alone' /\ UNCHANGED <<store, live, phase, fresh, succeeded>>
        /\ Derived(mem[live], mem'[live], {}, {}) /\ KeepsSlots(mem[live], mem'[live], {})
        /\ Awaited' = Awaited
    BY <1>4, ManualEnqueueIs
  <2>2. Same(mem[live], store)
    BY <1>1, <2>1 DEF Agree
  <2>3. Same(mem'[live], store)
    BY <2>1, <2>2, SameAfter
  <2> QED BY <2>1, <2>3, LiveAfterKeep
<1> QED BY <1>2, <1>3, <1>4

LEMMA EndRunLive ==
  ASSUME CronInv, LiveInv, Excuses, NEW e \in execs, NEW o \in Outcomes, EndRun(e, o)
  PROVE  LiveInv'
<1>1. /\ UNCHANGED <<store, live, mem, phase, fresh, succeeded>> /\ Alone'
      /\ Awaited' = Awaited
  BY EndRunIs
<1> QED BY <1>1, LiveFacts, LiveAfterKeep DEF Agree

LEMMA QuietLive ==
  ASSUME CronInv, LiveInv, Excuses, Reload => Quiet, Tick \/ Read \/ Reload \/ Crash
  PROVE  LiveInv'
<1>1. Agree /\ History /\ succeeded \subseteq Jobs
  BY LiveFacts
<1>2. CASE Tick
  <2>1. /\ UNCHANGED <<store, live, mem, phase, fresh, succeeded>> /\ Alone'
        /\ Awaited' = Awaited
    BY <1>2, TimePasses
  <2> QED BY <1>1, <2>1, LiveAfterKeep DEF Agree
<1>3. CASE Read
  <2>1. /\ phase[live] # "new" /\ UNCHANGED <<live, fresh, succeeded>>
        /\ mem'[live] = store' /\ Alone' /\ Derived(mem[live], store', {}, {})
        /\ Awaited' = Awaited
    BY <1>3, ReadIs
  <2>2. Same(mem[live], store)
    BY <1>1, <2>1 DEF Agree
  <2> QED BY <1>1, <2>1, <2>2, LiveAfterSave
<1>4. CASE Reload \/ Crash
  <2>1. /\ UNCHANGED <<store, fresh, succeeded>> /\ phase'[live'] = "new"
        /\ Alone' /\ Awaited' = {}
    BY <1>4, ReloadIs, CrashIs
  <2>2. History'
    BY <1>1, <2>1, HistoryStays
  <2> QED BY <2>1, <2>2 DEF LiveInv, Agree
<1> QED BY <1>2, <1>3, <1>4

\* The calls that edit the jobs: what succeeded stays disabled, and no used id is fresh.
LEMMA EditedLive ==
  ASSUME CronInv, LiveInv, Excuses, Loaded(live), NEW n, Edited(n), fresh' \subseteq fresh,
         fresh' \cap DOMAIN n = {}, succeeded' \subseteq succeeded,
         \A i \in succeeded' \cap DOMAIN n : ~n[i].enabled
  PROVE  LiveInv'
<1>1. /\ live' = live /\ mem'[live] = n /\ store' = n /\ Alone' /\ Awaited' = Awaited
  BY EditedIs
<1>2. Agree'
  BY <1>1, SameSelf DEF Agree
<1>3. History /\ succeeded \subseteq Jobs
  BY LiveFacts
<1>4. fresh' \cap (DOMAIN store' \cup Awaited' \cup succeeded') = {}
  BY <1>1, <1>3 DEF History
<1>5. succeeded' \subseteq Disabled'
  BY <1>1, <1>3 DEF Disabled
<1>6. Awaited' \cap (Disabled' \cup Outworn') \subseteq excused' /\ excused' \subseteq Awaited'
  BY DEF Excuses
<1> QED BY <1>1, <1>2, <1>4, <1>5, <1>6 DEF LiveInv, History

LEMMA AddIs ==
  ASSUME CronInv, LiveInv, NEW j \in Jobs, Add(j)
  PROVE  \E n : /\ Loaded(live) /\ Edited(n) /\ j \in fresh /\ fresh' = fresh \ {j}
                /\ succeeded' = succeeded /\ DOMAIN n = DOMAIN mem[live] \cup {j}
                /\ n[j].runningAt = Undefined
                /\ \A i \in DOMAIN mem[live] \ {j} :
                     /\ n[i].enabled = mem[live][i].enabled
                     /\ n[i].runningAt \in {Undefined, mem[live][i].runningAt}
                     /\ mem[live][i].enabled /\ ~Stuck(mem[live][i], now)
                          => n[i].runningAt = mem[live][i].runningAt
<1> DEFINE a == mem[live]
           added == [i \in DOMAIN mem[live] \cup {j} |->
                       IF i = j THEN Recompute(j, NewJob(j), now) ELSE mem[live][i]]
           n == RecomputeNextRuns(added, now)
<1>1. now \in Nat /\ Sound(a, now)
  BY LiveFacts
<1>2. /\ DOMAIN n = DOMAIN a \cup {j} /\ n[j].runningAt = Undefined
      /\ \A i \in DOMAIN a \ {j} :
           /\ n[i].enabled = a[i].enabled
           /\ n[i].runningAt \in {Undefined, a[i].runningAt}
           /\ a[i].enabled /\ ~Stuck(a[i], now) => n[i].runningAt = a[i].runningAt
  BY <1>1, AddWrites
<1>3. /\ Loaded(live) /\ Edited(n) /\ j \in fresh /\ fresh' = fresh \ {j}
      /\ succeeded' = succeeded
  BY DEF Add
<1> HIDE DEF n
<1> QED BY <1>2, <1>3

LEMMA UpdateIs ==
  ASSUME CronInv, LiveInv, NEW j \in Jobs, NEW patch \in Patches, Update(j, patch)
  PROVE  \E n : /\ Loaded(live) /\ Edited(n) /\ fresh' = fresh /\ j \in DOMAIN mem[live]
                /\ succeeded' = IF patch \in {"reschedule", "enable"}
                                THEN succeeded \ {j} ELSE succeeded
                /\ DOMAIN n = DOMAIN mem[live]
                /\ \A i \in DOMAIN mem[live] : i # j => n[i] = mem[live][i]
                /\ n[j].enabled => mem[live][j].enabled \/ patch = "enable"
                /\ n[j].runningAt \in {Undefined, mem[live][j].runningAt}
                /\ n[j].enabled => n[j].runningAt = mem[live][j].runningAt
<1> DEFINE a == mem[live]
           n == [a EXCEPT ![j] = Patched(j, a[j], patch)]
<1>1. now \in Nat /\ Sound(a, now) /\ j \in DOMAIN a
  BY LiveFacts DEF Update, EditsJob
<1>2. /\ DOMAIN n = DOMAIN a
      /\ \A i \in DOMAIN a : i # j => n[i] = a[i]
      /\ n[j].enabled => a[j].enabled \/ patch = "enable"
      /\ n[j].runningAt \in {Undefined, a[j].runningAt}
      /\ n[j].enabled => n[j].runningAt = a[j].runningAt
  BY <1>1, UpdateWrites
<1>3. /\ Loaded(live) /\ Edited(n) /\ fresh' = fresh
      /\ succeeded' = IF patch \in {"reschedule", "enable"} THEN succeeded \ {j} ELSE succeeded
  BY DEF Update, EditsJob
<1> HIDE DEF n
<1> QED BY <1>1, <1>2, <1>3

LEMMA RemoveIs ==
  ASSUME CronInv, LiveInv, NEW j \in Jobs, Remove(j)
  PROVE  \E n : /\ Loaded(live) /\ Edited(n) /\ fresh' = fresh /\ succeeded' = succeeded
                /\ DOMAIN n = DOMAIN mem[live] \ {j}
                /\ \A i \in DOMAIN n : n[i] = mem[live][i]
<1> DEFINE n == [i \in DOMAIN mem[live] \ {j} |-> mem[live][i]]
<1>1. /\ Loaded(live) /\ Edited(n) /\ fresh' = fresh /\ succeeded' = succeeded
  BY DEF Remove, EditsJob
<1>2. DOMAIN n = DOMAIN mem[live] \ {j} /\ \A i \in DOMAIN n : n[i] = mem[live][i]
  OBVIOUS
<1> HIDE DEF n
<1> QED BY <1>1, <1>2

LEMMA LoadedAgrees ==
  ASSUME CronInv, LiveInv, Loaded(live) PROVE Same(mem[live], store)
BY LiveFacts DEF Agree, Loaded

LEMMA CallsLive ==
  ASSUME CronInv, LiveInv, Excuses, NEW j \in Jobs,
         Add(j) \/ Remove(j) \/ \E patch \in Patches : Update(j, patch)
  PROVE  LiveInv'
<1>1. History /\ succeeded \subseteq Jobs
  BY LiveFacts
<1>2. ASSUME Loaded(live) 
      PROVE  /\ fresh \cap DOMAIN mem[live] = {} /\ fresh \cap succeeded = {}
             /\ \A i \in succeeded \cap DOMAIN mem[live] : ~mem[live][i].enabled
  <2>1. Same(mem[live], store)
    BY <1>2, LoadedAgrees
  <2> QED BY <1>1, <2>1 DEF History, Same, Disabled
<1>3. CASE Add(j)
  <2>1. PICK n : /\ Loaded(live) /\ Edited(n) /\ j \in fresh /\ fresh' = fresh \ {j}
                 /\ succeeded' = succeeded /\ DOMAIN n = DOMAIN mem[live] \cup {j}
                 /\ n[j].runningAt = Undefined
                 /\ \A i \in DOMAIN mem[live] \ {j} :
                      /\ n[i].enabled = mem[live][i].enabled
                      /\ n[i].runningAt \in {Undefined, mem[live][i].runningAt}
                      /\ mem[live][i].enabled /\ ~Stuck(mem[live][i], now)
                           => n[i].runningAt = mem[live][i].runningAt
    BY <1>3, AddIs
  <2>2. fresh' \subseteq fresh /\ fresh' \cap DOMAIN n = {}
    BY <1>2, <2>1
  <2>3. \A i \in succeeded' \cap DOMAIN n : ~n[i].enabled
    BY <1>2, <2>1
  <2> QED BY <2>1, <2>2, <2>3, EditedLive
<1>4. CASE Remove(j)
  <2>1. PICK n : /\ Loaded(live) /\ Edited(n) /\ fresh' = fresh /\ succeeded' = succeeded
                 /\ DOMAIN n = DOMAIN mem[live] \ {j}
                 /\ \A i \in DOMAIN n : n[i] = mem[live][i]
    BY <1>4, RemoveIs
  <2>2. fresh' \cap DOMAIN n = {} /\ \A i \in succeeded' \cap DOMAIN n : ~n[i].enabled
    BY <1>2, <2>1
  <2> QED BY <2>1, <2>2, EditedLive
<1>5. ASSUME NEW patch \in Patches, Update(j, patch) PROVE LiveInv'
  <2>1. PICK n : /\ Loaded(live) /\ Edited(n) /\ fresh' = fresh
                 /\ succeeded' = IF patch \in {"reschedule", "enable"}
                                 THEN succeeded \ {j} ELSE succeeded
                 /\ DOMAIN n = DOMAIN mem[live]
                 /\ \A i \in DOMAIN mem[live] : i # j => n[i] = mem[live][i]
                 /\ n[j].enabled => mem[live][j].enabled \/ patch = "enable"
    BY <1>5, UpdateIs
  <2>2. fresh' \cap DOMAIN n = {} /\ succeeded' \subseteq succeeded
    BY <1>2, <2>1
  <2>3. \A i \in succeeded' \cap DOMAIN n : ~n[i].enabled
    BY <1>2, <2>1
  <2> QED BY <2>1, <2>2, <2>3, EditedLive
<1> QED BY <1>3, <1>4, <1>5

LEMMA StutterLive ==
  ASSUME CronInv, LiveInv, UNCHANGED cronVars PROVE LiveInv'
<1>1. UNCHANGED <<now, store, live, mem, phase, timer, tick, manual, fresh, excused, succeeded>>
  BY DEF cronVars, batches
<1>2. Awaited' = Awaited
  BY CronStutterInv, AwaitedIfAllHold DEF CronInv
<1>3. Alone' /\ Agree'
  BY <1>1 DEF LiveInv, Alone, Agree
<1>4. History'
  <2>1. Disabled' = Disabled /\ Outworn' = Outworn
    BY <1>1 DEF Disabled, Outworn
  <2> QED BY <1>1, <1>2, <2>1 DEF LiveInv, History
<1> QED BY <1>3, <1>4 DEF LiveInv

\* A step after which no older service is beside began so, or it settles all.
LEMMA BesideAfter ==
  ASSUME CronInv, [CronNext]_cronVars, ~beside'
  PROVE  \/ ~beside /\ (Reload => Quiet)
         \/ CronNext /\ Settled'
<1>1. CASE UNCHANGED cronVars
  <2>1. ~beside /\ live' = live
    BY <1>1 DEF cronVars
  <2>2. live \in Nat
    BY ConstantFacts DEF CronInv
  <2> QED BY <2>1, <2>2 DEF Reload
<1>2. CASE CronNext /\ ~Settled'
  BY <1>2 DEF CronNext, Reload
<1> QED BY <1>1, <1>2

LEMMA SettledLive ==
  CronInv /\ Settled /\ excused \subseteq Awaited => LiveInv /\ Awaited = {}
<1> SUFFICES ASSUME CronInv, Settled, excused \subseteq Awaited PROVE LiveInv /\ Awaited = {}
  OBVIOUS
<1>1. /\ \A s \in Services : ~tick[s].running /\ phase[s] # "catchup"
      /\ \A m \in ManualRuns : manual[m].phase \in {"idle", "over"}
  BY DEF Settled
<1>2. Awaited = {}
  BY <1>1, RestAwaitsNothing
<1>3. Alone
  <2>1. timer \subseteq {live} /\ (phase[live] = "new" => timer = {}) /\ phase[live] # "off"
    BY DEF Settled
  <2>2. \A s \in Services \ {live} : ~tick[s].running /\ phase[s] \in {"off", "up"}
    BY DEF Settled
  <2>3. live \in Services
    BY CronInvFacts
  <2>4. \A m \in ManualRuns : manual[m].phase \notin {"queued", "running", "ended"}
    BY <1>1
  <2> QED BY <1>1, <2>1, <2>2, <2>3, <2>4 DEF Alone
<1>4. phase[live] # "new" => mem[live] = store
  BY DEF Settled
<1>5. Agree
  BY <1>4, SameSelf DEF Agree
<1>6. History
  BY <1>2 DEF Settled, History
<1> QED BY <1>2, <1>3, <1>5, <1>6 DEF LiveInv

LEMMA LiveStepInv ==
  ASSUME CronInv, LiveInv, [CronNext]_cronVars, Reload => Quiet PROVE LiveInv'
<1> USE DEF CronInv
<1>1. CASE UNCHANGED cronVars
  BY <1>1, StutterLive
<1> QED BY <1>1, CronStepIs, StartLive, OnTimerLive, ManualLive, EndRunLive, QuietLive, CallsLive

LEMMA SettlesLive ==
  ASSUME CronInv', CronNext, Settled' PROVE LiveInv' /\ Awaited' = {}
<1>1. excused' \subseteq Awaited'
  BY DEF CronNext
<1>2. (CronInv /\ Settled /\ excused \subseteq Awaited => LiveInv /\ Awaited = {})'
  BY SettledLive, PTL
<1> QED BY <1>1, <1>2

LEMMA LiveNextInv == CronInv /\ (beside \/ LiveInv) /\ [CronNext]_cronVars => (beside \/ LiveInv)'
<1> SUFFICES ASSUME CronInv, beside \/ LiveInv, [CronNext]_cronVars, ~beside' PROVE LiveInv'
  OBVIOUS
<1>1. CronInv'
  BY CronNextInv
<1> QED BY <1>1, BesideAfter, LiveStepInv, SettlesLive

LEMMA InitLive == CronInit => LiveInv
<1> SUFFICES ASSUME CronInit PROVE LiveInv
  OBVIOUS
<1>1. /\ live = 1 /\ timer = {} /\ phase = [s \in Services |-> IF s = 1 THEN "new" ELSE "off"]
      /\ tick = [s \in Services |-> Idle] /\ manual = [m \in ManualRuns |-> NoRun]
      /\ store = [j \in Initial |-> Recompute(j, NewJob(j), 1)]
      /\ fresh = Jobs \ Initial /\ excused = {} /\ succeeded = {}
  BY DEF CronInit
<1>2. Alone
  <2>1. ~Idle.running /\ NoRun.phase = "idle" /\ 1 \in Services
    BY ConstantFacts DEF Idle, NoRun
  <2> QED BY <1>1, <2>1 DEF Alone
<1>3. Agree
  BY <1>1, ConstantFacts DEF Agree
<1>4. Awaited = {}
  <2>1. CronInv
    BY CronInitInv
  <2>2. phase[live] = "new"
    BY <1>1, ConstantFacts
  <2> QED BY <1>2, <2>1, <2>2, NewAwaitsNothing
<1>5. History
  BY <1>1, <1>4 DEF History
<1> QED BY <1>2, <1>3, <1>5 DEF LiveInv

LEMMA LiveInvariant == CronSpec => [](CronInv /\ (beside \/ LiveInv))
<1>1. CronInit => CronInv /\ LiveInv
  BY CronInitInv, InitLive
<1>2. CronInv /\ (beside \/ LiveInv) /\ [CronNext]_cronVars
        => (CronInv /\ (beside \/ LiveInv))'
  BY CronNextInv, LiveNextInv
<1> QED BY <1>1, <1>2, PTL DEF CronSpec

-----------------------------------------------------------------------------
(* A one-shot runs once. *)

\* The scheduler starts only jobs that wait in a batch.
LEMMA NewRunsWaited ==
  ASSUME CronInv, LiveInv, [CronNext]_cronVars, NEW e \in execs' \ execs
  PROVE  e.by \in ManualRuns \/ e.job \in Awaited
<1>1. CASE UNCHANGED cronVars
  BY <1>1 DEF cronVars, batches
<1>2. ASSUME NEW s \in Services
      PROVE  /\ ~StartClear(s) /\ ~StartApply(s) /\ ~StartArm(s)
             /\ ~TickCollect(s) /\ ~TickNothingDue(s) /\ ~TickApply(s)
             /\ \A chosen : ~StartPlan(s, chosen)
             /\ \A j \in Jobs : StartRun(s, j) \/ TickRun(s, j) => e.job \in Awaited
  <2>1. /\ ~StartClear(s) /\ ~StartApply(s) /\ ~StartArm(s)
        /\ ~TickCollect(s) /\ ~TickNothingDue(s) /\ ~TickApply(s)
        /\ \A chosen : ~StartPlan(s, chosen)
    BY DEF StartClear, StartApply, StartArm, TickCollect, TickNothingDue, TickApply, StartPlan
  <2>2. ASSUME NEW j \in Jobs, StartRun(s, j) PROVE e.job \in Awaited
    <3>1. /\ j \in Awaited
          /\ execs' = execs \cup {[svc |-> s, job |-> j, by |-> "start", started |-> now]}
      BY <2>2, StartRunIs
    <3>2. e.job = j
      BY <3>1
    <3> QED BY <3>1, <3>2
  <2>3. ASSUME NEW j \in Jobs, TickRun(s, j) PROVE e.job \in Awaited
    <3>1. /\ j \in Awaited
          /\ execs' = execs \cup {[svc |-> s, job |-> j, by |-> "tick", started |-> now]}
      BY <2>3, TickRunIs
    <3>2. e.job = j
      BY <3>1
    <3> QED BY <3>1, <3>2
  <2> QED BY <2>1, <2>2, <2>3
<1>3. \A f \in execs, o \in Outcomes : ~EndRun(f, o)
  BY DEF EndRun
<1>4. ASSUME NEW m \in ManualRuns
      PROVE  /\ ManualStart(m) => e.by \in ManualRuns
             /\ ~ManualApply(m) /\ \A j \in Jobs, f \in BOOLEAN : ~ManualEnqueue(m, j, f)
  <2>1. ~ManualApply(m) /\ \A j \in Jobs, f \in BOOLEAN : ~ManualEnqueue(m, j, f)
    BY DEF ManualApply, ManualEnqueue
  <2>2. ManualStart(m) => e.by = m
    BY ManualStartIs
  <2> QED BY <2>1, <2>2
<1>5. \A j \in Jobs : ~Add(j) /\ ~Remove(j) /\ \A patch \in Patches : ~Update(j, patch)
  BY DEF Add, Remove, Update, Edited
<1>6. ~(Tick \/ Read \/ Reload \/ Crash)
  BY DEF Tick, Read, Reload, Crash, batches
<1> QED BY <1>1, <1>2, <1>3, <1>4, <1>5, <1>6, CronStepIs

\* OneShotsRunOnce: neither a tick nor a start runs a one-shot again whose success is on
\* file, over reloads and crashes, except as long as a reload of the configuration leaves an
\* older service at work beside the live one (timer.ts, ops.ts, server-reload-handlers.ts).
THEOREM NoOneShotRunsTwice == CronSpec => OneShotsRunOnce
<1>1. ASSUME CronInv, LiveInv, [CronNext]_cronVars, NEW e \in execs' \ execs,
             e.by \in {"tick", "start"}
      PROVE  e.job \notin succeeded \ excused
  <2>1. e.job \in Awaited
    BY <1>1, NewRunsWaited, CronAssumption
  <2> QED BY <2>1, <1>1 DEF LiveInv, History
<1>2. CronInv /\ (beside \/ LiveInv) /\ [CronNext]_cronVars =>
        [\A e \in execs' \ execs :
           e.by \in {"tick", "start"} => beside \/ e.job \notin succeeded \ excused]_cronVars
  BY <1>1
<1> QED BY <1>2, LiveInvariant, PTL DEF CronSpec, OneShotsRunOnce

-----------------------------------------------------------------------------
(* No slot is given up. *)

LEMMA ResultsAre ==
  \A res : res \in Results <=>
             \/ \E s \in Services : res \in tick[s].results \cup catchup[s].results
             \/ \E m \in ManualRuns : res \in manual[m].result
BY ResultsOfBatches

\* Every result names the batch that it is in.
Tagged ==
    \A res \in Results :
       /\ res.by = "tick" => res \in tick[live].results
       /\ \A m \in ManualRuns : res.by = m => res \in manual[m].result

LEMMA ResultsByBatch == BatchInv /\ Alone => Tagged
<1> SUFFICES ASSUME BatchInv, Alone, NEW res \in Results
             PROVE  /\ res.by = "tick" => res \in tick[live].results
                    /\ \A m \in ManualRuns : res.by = m => res \in manual[m].result
  BY DEF Tagged
<1>1. \A m \in ManualRuns : m # "tick" /\ m # "start"
  BY CronAssumption
<1>2. ASSUME NEW s \in Services, res \in tick[s].results
      PROVE  res.by = "tick" /\ s = live
  BY <1>2 DEF BatchInv, BatchOK, OnceEach, Alone
<1>3. ASSUME NEW s \in Services, res \in catchup[s].results PROVE res.by = "start"
  BY <1>3 DEF BatchInv, BatchOK, OnceEach
<1>4. ASSUME NEW m \in ManualRuns, res \in manual[m].result PROVE res.by = m
  BY <1>4 DEF BatchInv, ManualOK
<1> QED BY <1>1, <1>2, <1>3, <1>4, ResultsAre

LEMMA TickForgets ==
  ASSUME CronInv, LiveInv, NEW s \in Services, TickApply(s),
         NEW j \in JobsOf(tick[live].results)
  PROVE  \E res \in Results \ Results' : res.job = j
<1>1. PICK res \in tick[live].results : res.job = j
  BY DEF JobsOf
<1>2. BatchInv /\ BatchTypes /\ live \in Services
  BY LiveFacts
<1>3. res \in Results /\ res.by = "tick"
  BY <1>1, <1>2, ResultsAre DEF BatchInv, BatchOK, OnceEach
<1>4. s = live /\ live' = live /\ Alone' /\ BatchInv'
  BY TickApplyIs
<1>5. tick'[live].results = {}
  BY <1>2, <1>4 DEF TickApply, BatchTypes, Idle
<1>6. (BatchInv /\ Alone => Tagged)'
  BY ResultsByBatch, PTL
<1>7. \A x \in Results' : x.by = "tick" => x \in tick'[live'].results
  BY <1>4, <1>6 DEF Tagged
<1> QED BY <1>1, <1>3, <1>4, <1>5, <1>7

LEMMA ManualForgets ==
  ASSUME CronInv, LiveInv, NEW m \in ManualRuns, ManualApply(m)
  PROVE  \E res \in Results \ Results' : res.job = manual[m].job
<1>1. manual[m].phase = "ended" /\ manual' = [manual EXCEPT ![m] = Over]
  BY DEF ManualApply
<1>2. BatchInv /\ BatchTypes
  BY LiveFacts
<1>3. PICK res \in Recorded : res.job = manual[m].job /\ res.by = m /\ manual[m].result = {res}
  BY <1>1, <1>2 DEF BatchInv, ManualOK
<1>4. res \in Results
  BY <1>3, ResultsAre
<1>5. Alone' /\ BatchInv'
  BY ManualApplyIs
<1>6. manual'[m].result = {}
  BY <1>1, <1>2 DEF BatchTypes, Over, NoRun
<1>7. (BatchInv /\ Alone => Tagged)'
  BY ResultsByBatch, PTL
<1>8. \A x \in Results' : x.by = m => x \in manual'[m].result
  BY <1>5, <1>7 DEF Tagged
<1> QED BY <1>3, <1>4, <1>6, <1>8

\* A section that starts from the file or from a memory that agrees keeps the slot of j.
LEMMA SlotKept ==
  ASSUME NEW a, Same(a, store), NEW n, NEW rs, KeepsSlots(a, n, rs), store' = n,
         NEW j \in Jobs, PassedOver(j)
  PROVE  j \in rs
<1>1. /\ j \in DOMAIN store /\ store[j].enabled /\ j \in DOMAIN n
      /\ n[j].next # store[j].next
  BY DEF PassedOver, IsDue
<1> QED BY <1>1 DEF Same, KeepsSlots

LEMMA NotPassedOver ==
  ASSUME NEW j \in Jobs, PassedOver(j)
  PROVE  store' # store /\ \A res \in Results \ Results' : res.job # j
BY DEF PassedOver

LEMMA ServiceKeepsSlots ==
  ASSUME CronInv, LiveInv, NEW j \in Jobs, PassedOver(j), NEW s \in Services,
         \/ StartClear(s) \/ (\E chosen \in SUBSET Jobs : StartPlan(s, chosen))
         \/ TickCollect(s) \/ TickNothingDue(s) \/ TickApply(s)
         \/ (\E i \in Jobs : StartRun(s, i) \/ TickRun(s, i))
  PROVE  FALSE
<1>1. Agree /\ Same(store, store)
  BY LiveFacts, SameSelf
<1>2. CASE StartClear(s) \/ TickNothingDue(s)
  <2>1. KeepsSlots(store, store', {})
    BY <1>2, StartClearIs, TickNothingDueIs
  <2> QED BY <1>1, <2>1, SlotKept
<1>3. CASE TickCollect(s)
  <2>1. KeepsSlots(store, store', {})
    BY <1>3, TickCollectIs
  <2> QED BY <1>1, <2>1, SlotKept
<1>4. CASE TickApply(s)
  <2> DEFINE rs == JobsOf(tick[live].results)
  <2>1. KeepsSlots(store, store', rs)
    BY <1>4, TickApplyIs
  <2>2. ASSUME j \in rs PROVE \E res \in Results \ Results' : res.job = j
    BY <1>4, <2>2, TickForgets
  <2> HIDE DEF rs
  <2>3. j \in rs
    BY <1>1, <2>1, SlotKept
  <2> QED BY <2>2, <2>3, NotPassedOver
<1>5. ASSUME NEW chosen \in SUBSET Jobs, StartPlan(s, chosen) PROVE FALSE
  <2>1. /\ phase[live] # "new"
        /\ store' = store \/ KeepsSlots(mem[live], store', {})
    BY <1>5, StartPlanIs
  <2>2. Same(mem[live], store)
    BY <1>1, <2>1 DEF Agree
  <2> QED BY <2>1, <2>2, SlotKept, NotPassedOver
<1>6. ASSUME NEW i \in Jobs, StartRun(s, i) \/ TickRun(s, i) PROVE FALSE
  BY <1>6, NotPassedOver DEF StartRun, TickRun
<1> QED BY <1>2, <1>3, <1>4, <1>5, <1>6

LEMMA ManualKeepsSlots ==
  ASSUME CronInv, LiveInv, NEW j \in Jobs, PassedOver(j), NEW m \in ManualRuns,
         \/ ManualStart(m) \/ ManualApply(m)
         \/ \E i \in Jobs, f \in BOOLEAN : ManualEnqueue(m, i, f)
  PROVE  FALSE
<1>1. Agree /\ Same(store, store)
  BY LiveFacts, SameSelf
<1>2. CASE ManualStart(m)
  <2>1. /\ phase[live] # "new" /\ KeepsSlots(mem[live], mem'[live], {})
        /\ store' = mem'[live] \/ store' = store
    BY <1>2, ManualStartIs
  <2>2. Same(mem[live], store)
    BY <1>1, <2>1 DEF Agree
  <2> QED BY <2>1, <2>2, SlotKept, NotPassedOver
<1>3. CASE ManualApply(m)
  <2> DEFINE i == manual[m].job
  <2>1. KeepsSlots(store, store', {i}) \/ store' = store
    BY <1>3, ManualApplyIs
  <2>2. \E res \in Results \ Results' : res.job = i
    BY <1>3, ManualForgets
  <2> HIDE DEF i
  <2>3. j # i /\ store' # store
    BY <2>2, NotPassedOver
  <2>4. KeepsSlots(store, store', {i})
    BY <2>1, <2>3
  <2>5. j \in {i}
    BY <1>1, <2>4, SlotKept
  <2> QED BY <2>3, <2>5
<1>4. CASE \E i \in Jobs, f \in BOOLEAN : ManualEnqueue(m, i, f)
  BY <1>4, NotPassedOver DEF ManualEnqueue
<1> QED BY <1>2, <1>3, <1>4

LEMMA OthersKeepSlots ==
  ASSUME CronInv, LiveInv, NEW j \in Jobs, PassedOver(j), NEW i \in Jobs,
         Remove(i) \/ \E patch \in Patches : Update(i, patch)
  PROVE  i = j /\ ~Remove(i)
<1>1. ASSUME NEW n, Loaded(live), Edited(n), j \in DOMAIN n => n[j] = mem[live][j] PROVE FALSE
  <2>1. store' = n /\ Same(mem[live], store)
    BY <1>1, EditedIs, LoadedAgrees
  <2>2. j \in DOMAIN n /\ j \in DOMAIN store /\ store[j].enabled /\ n[j].next # store[j].next
    BY <2>1 DEF PassedOver, IsDue
  <2> QED BY <1>1, <2>1, <2>2 DEF Same
<1>2. ASSUME Remove(i) PROVE FALSE
  BY <1>1, <1>2, RemoveIs
<1>3. ASSUME NEW patch \in Patches, Update(i, patch), i # j PROVE FALSE
  BY <1>1, <1>3, UpdateIs
<1> QED BY <1>2, <1>3

LEMMA QuietKeepsSlots ==
  ASSUME CronInv, LiveInv, NEW j \in Jobs, PassedOver(j), Tick \/ Read \/ Reload \/ Crash
  PROVE  FALSE
<1>1. ASSUME Read PROVE FALSE
  <2>1. phase[live] # "new" /\ mem'[live] = store' /\ KeepsSlots(mem[live], store', {})
    BY <1>1, ReadIs
  <2>2. Same(mem[live], store)
    BY <2>1, LiveFacts DEF Agree
  <2> QED BY <2>1, <2>2, SlotKept
<1> QED BY <1>1, NotPassedOver DEF Tick, Reload, Crash

\* DueSlotsKept: a slot that is due moves on only when its run is recorded, or by an add, a
\* start or an edit of the job itself, or as long as a reload leaves an older service at work
\* (recomputeNextRunsForMaintenance and its callers in timer.ts and ops.ts).
THEOREM DueSlotsStay == CronSpec => DueSlotsKept
<1>1. ASSUME CronInv, LiveInv, [CronNext]_cronVars, NEW j \in Jobs, PassedOver(j)
      PROVE  \/ \E i \in Jobs : Add(i)
             \/ \E s \in Services : StartApply(s) \/ StartArm(s)
             \/ \E patch \in Patches : Update(j, patch)
  <2>1. store' # store
    BY <1>1, NotPassedOver
  <2>2. ~UNCHANGED cronVars /\ \A e \in execs, o \in Outcomes : ~EndRun(e, o)
    BY <2>1 DEF cronVars, EndRun
  <2>3. ASSUME NEW s \in Services,
               \/ StartClear(s) \/ StartApply(s) \/ StartArm(s)
               \/ TickCollect(s) \/ TickNothingDue(s) \/ TickApply(s)
               \/ (\E chosen \in SUBSET Jobs : StartPlan(s, chosen))
               \/ (\E i \in Jobs : StartRun(s, i) \/ TickRun(s, i))
        PROVE  StartApply(s) \/ StartArm(s)
    BY <1>1, <2>3, ServiceKeepsSlots
  <2>4. ASSUME NEW m \in ManualRuns,
               \/ ManualStart(m) \/ ManualApply(m)
               \/ \E i \in Jobs, f \in BOOLEAN : ManualEnqueue(m, i, f)
        PROVE  FALSE
    BY <1>1, <2>4, ManualKeepsSlots
  <2>5. ASSUME NEW i \in Jobs, Remove(i) \/ \E patch \in Patches : Update(i, patch)
        PROVE  \E patch \in Patches : Update(j, patch)
    BY <1>1, <2>5, OthersKeepSlots
  <2>6. ~(Tick \/ Read \/ Reload \/ Crash)
    BY <1>1, QuietKeepsSlots
  <2> QED BY <1>1, <2>2, <2>3, <2>4, <2>5, <2>6, CronStepIs
<1>2. CronInv /\ (beside \/ LiveInv) /\ [CronNext]_cronVars =>
        [\A j \in Jobs : PassedOver(j) =>
            \/ beside
            \/ \E i \in Jobs : Add(i)
            \/ \E s \in Services : StartApply(s) \/ StartArm(s)
            \/ \E patch \in Patches : Update(j, patch)]_cronVars
  BY <1>1
<1> QED BY <1>2, LiveInvariant, PTL DEF CronSpec, DueSlotsKept

-----------------------------------------------------------------------------
(* Markers and runs: the file and the memory mark the jobs that await an outcome, and one *)
(* batch or manual run holds each.                                                        *)

\* Jobs with a running marker.
Marked(a) == {j \in DOMAIN a : a[j].runningAt # Undefined}

\* The store a marks the jobs of on, where the excused ones may be unmarked.
Shows(a, on, but) == on \ but \subseteq Marked(a) /\ Marked(a) \subseteq on

\* File and copy mark the jobs that run or wait for a run or its outcome.
MarkInv ==
    phase[live] # "new" =>
        Shows(store, Awaited, excused) /\ Shows(mem[live], Awaited, excused)

\* At most one tick, start or manual run has the job.
OneHolder ==
    \A j \in Awaited \ excused, h, k \in Holders : j \in Held(h) /\ j \in Held(k) => h = k

MatchInv == MarkInv /\ OneHolder

\* No marker is so old that the service clears it, but of excused jobs.
Recent(a) == \A j \in DOMAIN a : j \in Awaited \ excused => ~Stuck(a[j], now)

LEMMA ShowsAfter ==
  ASSUME CronInv, LiveInv, Excuses, Awaited' \subseteq Jobs,
         NEW a, Same(a, store), Shows(a, Awaited, excused), Recent(a),
         NEW n, NEW js, NEW rs, Derived(a, n, js, rs), Same(n, store'),
         Awaited' \subseteq Awaited \cup js, js \subseteq Awaited', Awaited \ rs \subseteq Awaited',
         rs \cap Awaited' \subseteq excused
  PROVE  Shows(n, Awaited', excused')
<1>1. now # Undefined
  BY LiveFacts DEF Undefined
<1>2. ASSUME NEW j \in Awaited' \ excused' PROVE j \in Marked(n)
  <2>1. j \notin excused /\ j \notin Disabled' /\ j \in Jobs /\ j \notin rs
    BY <1>2 DEF Excuses
  <2>2. j \in DOMAIN n /\ n[j].enabled
    BY <2>1 DEF Disabled, Same
  <2>3. j \in DOMAIN a /\ a[j].enabled
    BY <2>1, <2>2 DEF Derived
  <2>4. CASE j \in js
    BY <1>1, <2>1, <2>2, <2>4 DEF Derived, Marked
  <2>5. CASE j \notin js
    <3>1. j \in Marked(a) /\ ~Stuck(a[j], now)
      BY <1>2, <2>1, <2>3, <2>5 DEF Shows, Recent
    <3>2. n[j].runningAt = a[j].runningAt
      BY <2>1, <2>2, <2>3, <2>5, <3>1 DEF Derived
    <3> QED BY <2>2, <3>1, <3>2 DEF Marked
  <2> QED BY <2>4, <2>5
<1>3. ASSUME NEW j \in Marked(n) PROVE j \in Awaited'
  <2>1. j \in DOMAIN n /\ j \in DOMAIN a /\ n[j].runningAt # Undefined /\ j \notin rs
    BY DEF Marked, Derived
  <2>2. CASE j \notin js
    <3>1. j \in Marked(a)
      BY <2>1, <2>2 DEF Derived, Marked
    <3> QED BY <2>1, <3>1 DEF Shows
  <2> QED BY <2>2
<1> QED BY <1>2, <1>3 DEF Shows

\* Who is excused stays excused while the waiting jobs stay.
LEMMA ExcusedStays ==
  ASSUME CronInv, LiveInv, Excuses, Awaited' = Awaited
  PROVE  excused \subseteq excused'
BY LiveFacts DEF Excuses, History

LEMMA ShowsStill ==
  ASSUME CronInv, LiveInv, Excuses, Awaited' = Awaited, NEW a, Shows(a, Awaited, excused)
  PROVE  Shows(a, Awaited', excused')
BY ExcusedStays DEF Shows

LEMMA StillExcused ==
  ASSUME CronInv, LiveInv, Excuses, NEW j \in Awaited' \ excused' PROVE j \notin excused
BY DEF Excuses

LEMMA AwaitedJobs == CronInv => Awaited \subseteq Jobs
<1> SUFFICES ASSUME CronInv, NEW j \in Awaited PROVE j \in Jobs
  OBVIOUS
<1>1. BatchTypes
  BY DEF CronInv, BatchInv
<1>2. \A e \in execs : e.job \in Jobs
  BY <1>1 DEF BatchTypes, Execs
<1>3. \A s \in Services :
        /\ tick[s].pending \subseteq Jobs /\ catchup[s].pending \subseteq Jobs
        /\ tick[s].results \subseteq Recorded /\ catchup[s].results \subseteq Recorded
  BY <1>1 DEF BatchTypes, Batches, Plans
<1>4. \A m \in ManualRuns : manual[m].result \subseteq Recorded
  BY <1>1 DEF BatchTypes, Manuals
<1>5. \A res \in Results : res.job \in Jobs
  <2> SUFFICES ASSUME NEW res \in Results PROVE res.job \in Jobs
    OBVIOUS
  <2>1. res \in Recorded
    BY <1>3, <1>4, ResultsAre
  <2> QED BY <2>1 DEF Recorded
<1> QED BY <1>2, <1>3, <1>5 DEF Awaited

LEMMA HoldAfterAll ==
  ASSUME CronInv, LiveInv, Excuses, OneHolder, AllHold, Awaited' = Awaited
  PROVE  OneHolder'
<1> SUFFICES ASSUME NEW j \in Awaited' \ excused', NEW h \in Holders', NEW k \in Holders',
                    j \in Held(h)', j \in Held(k)'
             PROVE  h = k
  BY DEF OneHolder
<1>1. j \in Awaited \ excused /\ h \in Holders /\ k \in Holders
  BY StillExcused DEF Holders
<1>2. j \in Held(h) /\ j \in Held(k)
  BY <1>1 DEF AllHold
<1> QED BY <1>1, <1>2 DEF OneHolder

\* h takes jobs that nobody holds but excused runs.
LEMMA HoldAfterTake ==
  ASSUME CronInv, LiveInv, Excuses, OneHolder, NEW h \in Holders, NEW js, OnlyHolder(h, js),
         Awaited' = Awaited \cup js, js \cap (Awaited \ excused) = {}
  PROVE  OneHolder'
<1> SUFFICES ASSUME NEW j \in Awaited' \ excused', NEW x \in Holders', NEW y \in Holders',
                    j \in Held(x)', j \in Held(y)'
             PROVE  x = y
  BY DEF OneHolder
<1>1. j \notin excused /\ x \in Holders /\ y \in Holders
  BY StillExcused DEF Holders
<1>2. /\ IF x = h THEN j \in js ELSE j \in Held(x)
      /\ IF y = h THEN j \in js ELSE j \in Held(y)
  BY <1>1 DEF OnlyHolder
<1>3. \A k \in Holders : j \in Held(k) => j \in Awaited
  BY LiveFacts, AwaitedIsHeld
<1> QED BY <1>1, <1>2, <1>3 DEF OneHolder

LEMMA HoldAfterDrop ==
  ASSUME CronInv, LiveInv, Excuses, OneHolder, BatchInv', NEW h \in Holders, NEW rs,
         OnlyHolder(h, {}), Held(h) = rs
  PROVE  /\ OneHolder' /\ rs \cap Awaited' \subseteq excused
         /\ Awaited' \subseteq Awaited /\ Awaited \ rs \subseteq Awaited'
<1>1. /\ Awaited' \subseteq Awaited /\ Awaited \ rs \subseteq Awaited'
      /\ \A j \in Awaited' : \E k \in Holders : k # h /\ j \in Held(k)
  BY LiveFacts, AwaitedIfDropped
<1>2. rs \cap Awaited' \subseteq excused
  BY <1>1 DEF OneHolder
<1>3. ASSUME NEW j \in Awaited' \ excused', NEW x \in Holders', NEW y \in Holders',
             j \in Held(x)', j \in Held(y)'
      PROVE  x = y
  <2>1. j \in Awaited \ excused /\ x \in Holders /\ y \in Holders
    BY <1>1, StillExcused DEF Holders
  <2>2. j \in Held(x) /\ j \in Held(y)
    BY <1>3, <2>1 DEF OnlyHolder
  <2> QED BY <2>1, <2>2 DEF OneHolder
<1> QED BY <1>1, <1>2, <1>3 DEF OneHolder

\* What the steps of an up service start from.
LEMMA MatchFacts ==
  ASSUME CronInv, LiveInv, MatchInv
  PROVE  /\ Recent(store) /\ Recent(mem[live]) /\ Same(store, store) /\ OneHolder
         /\ phase[live] # "new" => /\ Same(mem[live], store)
                                   /\ Shows(store, Awaited, excused)
                                   /\ Shows(mem[live], Awaited, excused)
<1>1. DOMAIN store \subseteq Jobs /\ DOMAIN mem[live] \subseteq Jobs /\ Agree /\ History
  BY CronInvFacts, LiveFacts
<1>2. Recent(store) /\ Recent(mem[live])
  BY <1>1 DEF Recent, History, Outworn
<1> QED BY <1>1, <1>2, SameSelf DEF Agree, MatchInv, MarkInv

LEMMA MarkAfterSave ==
  ASSUME CronInv, LiveInv, Excuses, CronInv', live' = live, mem'[live] = store',
         NEW a, Same(a, store), Shows(a, Awaited, excused), Recent(a),
         NEW js, NEW rs, Derived(a, store', js, rs),
         Awaited' \subseteq Awaited \cup js, js \subseteq Awaited', Awaited \ rs \subseteq Awaited',
         rs \cap Awaited' \subseteq excused
  PROVE  MarkInv'
<1>1. (CronInv => Awaited \subseteq Jobs)'
  BY AwaitedJobs, PTL
<1>2. Same(store', store') /\ Awaited' \subseteq Jobs
  BY <1>1, SameSelf
<1>3. Shows(store', Awaited', excused')
  BY <1>2, ShowsAfter
<1> QED BY <1>3 DEF MarkInv

\* A section that changes the memory only.
LEMMA MarkAfterKeep ==
  ASSUME CronInv, LiveInv, MatchInv, Excuses, CronInv', LiveInv',
         UNCHANGED <<live, phase, store>>, Awaited' = Awaited, phase[live] # "new",
         NEW js, js \subseteq Awaited,
         mem'[live] = mem[live] \/ Derived(mem[live], mem'[live], js, {})
  PROVE  MarkInv'
<1>1. Awaited \subseteq Jobs
  BY AwaitedJobs
<1>2. /\ Recent(mem[live]) /\ Same(mem[live], store)
      /\ Shows(store, Awaited, excused) /\ Shows(mem[live], Awaited, excused)
  BY MatchFacts
<1>3. Shows(store, Awaited', excused')
  BY <1>2, ShowsStill
<1>4. Same(mem'[live], store')
  BY DEF LiveInv, Agree
<1>5. Shows(mem'[live], Awaited', excused')
  <2>1. CASE mem'[live] = mem[live]
    BY <1>2, <2>1, ShowsStill
  <2>2. CASE Derived(mem[live], mem'[live], js, {})
    BY <1>1, <1>2, <1>4, <2>2, ShowsAfter
  <2> QED BY <2>1, <2>2
<1> QED BY <1>2, <1>3, <1>5 DEF MarkInv

\* Nothing is written.
LEMMA MarkStays ==
  ASSUME CronInv, LiveInv, MatchInv, Excuses, UNCHANGED <<live, phase, store, mem>>,
         Awaited' = Awaited
  PROVE  MarkInv'
BY ShowsStill DEF MatchInv, MarkInv

LEMMA StartMatch ==
  ASSUME CronInv, LiveInv, MatchInv, Excuses, CronInv', LiveInv', NEW s \in Services,
         \/ StartClear(s) \/ StartApply(s) \/ StartArm(s)
         \/ (\E chosen \in SUBSET Jobs : StartPlan(s, chosen))
         \/ (\E j \in Jobs : StartRun(s, j))
  PROVE  MatchInv'
<1>1. /\ Recent(mem[live]) /\ OneHolder /\ live \in Services /\ <<"start", live>> \in Holders
      /\ phase[live] # "new" => /\ Same(mem[live], store)
                                /\ Shows(store, Awaited, excused)
                                /\ Shows(mem[live], Awaited, excused)
  BY MatchFacts, LiveFacts DEF Holders
<1>2. CASE StartClear(s)
  <2>1. /\ live' = live /\ mem'[live] = store' /\ Derived(store, store', {}, DOMAIN store)
        /\ Awaited' = {}
    BY <1>2, StartClearIs
  <2>2. Shows(store', Awaited', excused')
    BY <2>1 DEF Shows, Marked, Derived
  <2> QED BY <2>1, <2>2 DEF MatchInv, MarkInv, OneHolder
<1>3. CASE StartApply(s)
  <2> DEFINE rs == JobsOf(catchup[live].results)
  <2>1. /\ phase[live] # "new" /\ live' = live /\ mem'[live] = store'
        /\ Derived(mem[live], store', {}, rs)
        /\ BatchInv' /\ OnlyHolder(<<"start", live>>, {}) /\ Held(<<"start", live>>) = rs
    BY <1>3, StartApplyIs
  <2> HIDE DEF rs
  <2>2. /\ OneHolder' /\ rs \cap Awaited' \subseteq excused
        /\ Awaited' \subseteq Awaited /\ Awaited \ rs \subseteq Awaited'
    BY <1>1, <2>1, HoldAfterDrop
  <2>3. MarkInv'
    BY <1>1, <2>1, <2>2, MarkAfterSave
  <2> QED BY <2>2, <2>3 DEF MatchInv
<1>4. CASE StartArm(s)
  <2>1. /\ phase[live] # "new" /\ live' = live /\ AllHold
        /\ Derived(mem[live], mem'[live], {}, {}) /\ Awaited' = Awaited
        /\ mem'[live] = store' \/ (mem'[live] = mem[live] /\ store' = store)
    BY <1>4, StartArmIs
  <2>2. OneHolder'
    BY <1>1, <2>1, HoldAfterAll
  <2>3. CASE mem'[live] = store'
    <3>1. MarkInv'
      BY <1>1, <2>1, <2>3, MarkAfterSave
    <3> QED BY <2>2, <3>1 DEF MatchInv
  <2>4. CASE mem'[live] = mem[live] /\ store' = store
    <3>1. Shows(store, Awaited', excused') /\ Shows(mem[live], Awaited', excused')
      BY <1>1, <2>1, ShowsStill
    <3>2. MarkInv'
      BY <2>1, <2>4, <3>1 DEF MarkInv
    <3> QED BY <2>2, <3>2 DEF MatchInv
  <2> QED BY <2>1, <2>3, <2>4
<1>5. ASSUME NEW chosen \in SUBSET Jobs, StartPlan(s, chosen) PROVE MatchInv'
  <2>1. /\ phase[live] # "new" /\ phase'[live] # "new" /\ live' = live
        /\ \/ chosen = {} /\ UNCHANGED <<mem, store>>
           \/ mem'[live] = store' /\ Derived(mem[live], store', chosen, {})
        /\ \A j \in chosen : j \in DOMAIN mem[live] /\ mem[live][j].runningAt = Undefined
        /\ OnlyHolder(<<"start", live>>, chosen) /\ Awaited' = Awaited \cup chosen
    BY <1>5, StartPlanIs
  <2>2. chosen \cap (Awaited \ excused) = {}
    BY <1>1, <2>1 DEF Shows, Marked
  <2>3. OneHolder'
    BY <1>1, <2>1, <2>2, HoldAfterTake
  <2>4. CASE mem'[live] = store' /\ Derived(mem[live], store', chosen, {})
    <3>1. MarkInv'
      BY <1>1, <2>1, <2>4, MarkAfterSave
    <3> QED BY <2>3, <3>1 DEF MatchInv
  <2>5. CASE chosen = {} /\ UNCHANGED <<mem, store>>
    <3>1. Awaited' = Awaited
      BY <2>1, <2>5
    <3>2. Shows(store, Awaited', excused') /\ Shows(mem[live], Awaited', excused')
      BY <1>1, <2>1, <3>1, ShowsStill
    <3>3. MarkInv'
      BY <2>1, <2>5, <3>2 DEF MarkInv
    <3> QED BY <2>3, <3>3 DEF MatchInv
  <2> QED BY <2>1, <2>4, <2>5
<1>6. ASSUME NEW j \in Jobs, StartRun(s, j) PROVE MatchInv'
  <2>1. /\ UNCHANGED <<store, live, mem, phase>> /\ AllHold /\ Awaited' = Awaited
    BY <1>6, StartRunIs
  <2>2. OneHolder' /\ MarkInv'
    BY <1>1, <2>1, HoldAfterAll, MarkStays
  <2> QED BY <2>2 DEF MatchInv
<1> QED BY <1>2, <1>3, <1>4, <1>5, <1>6

LEMMA OnTimerMatch ==
  ASSUME CronInv, LiveInv, MatchInv, Excuses, CronInv', LiveInv', NEW s \in Services,
         \/ TickCollect(s) \/ TickNothingDue(s) \/ TickApply(s)
         \/ (\E j \in Jobs : TickRun(s, j))
  PROVE  MatchInv'
<1>1. /\ Recent(store) /\ Same(store, store) /\ OneHolder /\ live \in Services
      /\ <<"tick", live>> \in Holders
      /\ phase[live] # "new" => Shows(store, Awaited, excused)
  BY MatchFacts, LiveFacts DEF Holders
<1>2. CASE TickCollect(s)
  <2> DEFINE due == {j \in DOMAIN store : Runnable(store[j], now)}
  <2>1. /\ phase[live] # "new" /\ live' = live /\ mem'[live] = store'
        /\ Derived(store, store', due, {})
        /\ \A j \in due : j \in DOMAIN store /\ store[j].runningAt = Undefined
        /\ OnlyHolder(<<"tick", live>>, due) /\ Awaited' = Awaited \cup due
    BY <1>2, TickCollectIs
  <2> HIDE DEF due
  <2>2. due \cap (Awaited \ excused) = {}
    BY <1>1, <2>1 DEF Shows, Marked
  <2>3. OneHolder'
    BY <1>1, <2>1, <2>2, HoldAfterTake
  <2>4. MarkInv'
    BY <1>1, <2>1, MarkAfterSave
  <2> QED BY <2>3, <2>4 DEF MatchInv
<1>3. CASE TickNothingDue(s)
  <2>1. /\ phase[live] # "new" /\ live' = live /\ mem'[live] = store' /\ AllHold
        /\ Derived(store, store', {}, {}) /\ Awaited' = Awaited
    BY <1>3, TickNothingDueIs
  <2>2. OneHolder' /\ MarkInv'
    BY <1>1, <2>1, HoldAfterAll, MarkAfterSave
  <2> QED BY <2>2 DEF MatchInv
<1>4. CASE TickApply(s)
  <2> DEFINE rs == JobsOf(tick[live].results)
  <2>1. /\ phase[live] # "new" /\ live' = live /\ mem'[live] = store'
        /\ Derived(store, store', {}, rs)
        /\ BatchInv' /\ OnlyHolder(<<"tick", live>>, {}) /\ Held(<<"tick", live>>) = rs
    BY <1>4, TickApplyIs
  <2> HIDE DEF rs
  <2>2. /\ OneHolder' /\ rs \cap Awaited' \subseteq excused
        /\ Awaited' \subseteq Awaited /\ Awaited \ rs \subseteq Awaited'
    BY <1>1, <2>1, HoldAfterDrop
  <2>3. MarkInv'
    BY <1>1, <2>1, <2>2, MarkAfterSave
  <2> QED BY <2>2, <2>3 DEF MatchInv
<1>5. ASSUME NEW j \in Jobs, TickRun(s, j) PROVE MatchInv'
  <2>1. /\ phase[live] # "new" /\ UNCHANGED <<store, live, phase>> /\ j \in Awaited
        /\ mem'[live] = mem[live] \/ Derived(mem[live], mem'[live], {j}, {})
        /\ AllHold /\ Awaited' = Awaited
    BY <1>5, TickRunIs
  <2>2. {j} \subseteq Awaited
    BY <2>1
  <2>3. OneHolder' /\ MarkInv'
    BY <1>1, <2>1, <2>2, HoldAfterAll, MarkAfterKeep
  <2> QED BY <2>3 DEF MatchInv
<1> QED BY <1>2, <1>3, <1>4, <1>5

LEMMA ManualMatch ==
  ASSUME CronInv, LiveInv, MatchInv, Excuses, CronInv', LiveInv', NEW m \in ManualRuns,
         \/ ManualStart(m) \/ ManualApply(m)
         \/ \E j \in Jobs, f \in BOOLEAN : ManualEnqueue(m, j, f)
  PROVE  MatchInv'
<1>1. /\ Recent(store) /\ Recent(mem[live]) /\ Same(store, store) /\ OneHolder
      /\ live \in Services /\ <<"manual", m>> \in Holders
      /\ phase[live] # "new" => /\ Same(mem[live], store)
                                /\ Shows(store, Awaited, excused)
                                /\ Shows(mem[live], Awaited, excused)
  BY MatchFacts, LiveFacts DEF Holders
<1>2. CASE ManualStart(m)
  <2>1. PICK js \in SUBSET Jobs :
            /\ phase[live] # "new" /\ UNCHANGED <<live, phase>>
            /\ Derived(mem[live], mem'[live], js, {})
            /\ store' = mem'[live] \/ (js = {} /\ store' = store)
            /\ \A j \in js : /\ j \in DOMAIN mem[live]
                             /\ mem[live][j].enabled /\ ~Stuck(mem[live][j], now)
                                  => mem[live][j].runningAt = Undefined
            /\ OnlyHolder(<<"manual", m>>, js) /\ Awaited' = Awaited \cup js
    BY <1>2, ManualStartIs
  <2>2. ASSUME NEW j \in js, j \in Awaited, j \notin excused PROVE FALSE
    <3>1. j \in DOMAIN mem[live] /\ j \in DOMAIN store /\ ~Stuck(mem[live][j], now)
          /\ mem[live][j].enabled = store[j].enabled
      BY <1>1, <2>1, <2>2 DEF Same, Recent
    <3>2. CASE store[j].enabled
      <4>1. j \notin Marked(mem[live])
        BY <2>1, <3>1, <3>2 DEF Marked
      <4> QED BY <1>1, <2>1, <2>2, <4>1 DEF Shows
    <3>3. CASE ~store[j].enabled
      BY <2>1, <2>2, <3>1, <3>3, LiveFacts DEF History, Disabled
    <3> QED BY <3>2, <3>3
  <2>3. js \cap (Awaited \ excused) = {}
    BY <2>2
  <2>4. OneHolder'
    BY <1>1, <2>1, <2>3, HoldAfterTake
  <2>5. CASE store' = mem'[live]
    <3>1. Derived(mem[live], store', js, {})
      BY <2>1, <2>5
    <3>2. MarkInv'
      BY <1>1, <2>1, <2>5, <3>1, MarkAfterSave
    <3> QED BY <2>4, <3>2 DEF MatchInv
  <2>6. CASE js = {} /\ store' = store
    <3>1. Awaited' = Awaited /\ js \subseteq Awaited
      BY <2>1, <2>6
    <3>2. MarkInv'
      BY <1>1, <2>1, <2>6, <3>1, MarkAfterKeep
    <3> QED BY <2>4, <3>2 DEF MatchInv
  <2> QED BY <2>1, <2>5, <2>6
<1>3. CASE ManualApply(m)
  <2> DEFINE i == manual[m].job
  <2>1. /\ phase[live] # "new" /\ UNCHANGED <<live, phase>>
        /\ \/ mem'[live] = store' /\ Derived(store, store', {}, {i})
           \/ i \notin DOMAIN mem[live] /\ UNCHANGED <<mem, store>>
        /\ BatchInv' /\ OnlyHolder(<<"manual", m>>, {}) /\ Held(<<"manual", m>>) = {i}
    BY <1>3, ManualApplyIs
  <2> HIDE DEF i
  <2>2. /\ OneHolder' /\ {i} \cap Awaited' \subseteq excused
        /\ Awaited' \subseteq Awaited /\ Awaited \ {i} \subseteq Awaited'
    BY <1>1, <2>1, HoldAfterDrop
  <2>3. CASE mem'[live] = store' /\ Derived(store, store', {}, {i})
    <3>1. MarkInv'
      BY <1>1, <2>1, <2>2, <2>3, MarkAfterSave
    <3> QED BY <2>2, <3>1 DEF MatchInv
  <2>4. CASE i \notin DOMAIN mem[live] /\ UNCHANGED <<mem, store>>
    <3>1. Derived(store, store', {}, {i}) /\ Derived(mem[live], mem'[live], {}, {i})
      BY <1>1, <2>1, <2>4 DEF Derived, Same
    <3>2. Same(store', store') /\ Same(mem'[live], store')
      BY <1>1, <2>1, <2>4
    <3>3. (CronInv => Awaited \subseteq Jobs)'
      BY AwaitedJobs, PTL
    <3>4. Awaited' \subseteq Jobs
      BY <3>3
    <3>5. Shows(store', Awaited', excused')
      BY <1>1, <2>1, <2>2, <3>1, <3>2, <3>4, ShowsAfter
    <3>6. Shows(mem'[live], Awaited', excused')
      BY <1>1, <2>1, <2>2, <3>1, <3>2, <3>4, ShowsAfter
    <3>7. MarkInv'
      BY <2>1, <3>5, <3>6 DEF MarkInv
    <3> QED BY <2>2, <3>7 DEF MatchInv
  <2> QED BY <2>1, <2>3, <2>4
<1>4. ASSUME NEW j \in Jobs, NEW f \in BOOLEAN, ManualEnqueue(m, j, f) PROVE MatchInv'
  <2>1. /\ phase[live] # "new" /\ UNCHANGED <<store, live, phase>>
        /\ Derived(mem[live], mem'[live], {}, {}) /\ AllHold /\ Awaited' = Awaited
    BY <1>4, ManualEnqueueIs
  <2>2. OneHolder' /\ MarkInv'
    BY <1>1, <2>1, HoldAfterAll, MarkAfterKeep
  <2> QED BY <2>2 DEF MatchInv
<1> QED BY <1>2, <1>3, <1>4

LEMMA QuietMatch ==
  ASSUME CronInv, LiveInv, MatchInv, Excuses, CronInv', LiveInv', Reload => Quiet,
         \/ Tick \/ Read \/ Reload \/ Crash
         \/ \E e \in execs, o \in Outcomes : EndRun(e, o)
  PROVE  MatchInv'
<1>1. /\ Recent(mem[live]) /\ OneHolder
      /\ phase[live] # "new" => Same(mem[live], store) /\ Shows(mem[live], Awaited, excused)
  BY MatchFacts
<1>2. CASE Tick \/ \E e \in execs, o \in Outcomes : EndRun(e, o)
  <2>1. UNCHANGED <<store, live, mem, phase>> /\ AllHold /\ Awaited' = Awaited
    BY <1>2, TimePasses, EndRunIs
  <2>2. OneHolder' /\ MarkInv'
    BY <1>1, <2>1, HoldAfterAll, MarkStays
  <2> QED BY <2>2 DEF MatchInv
<1>3. CASE Read
  <2>1. /\ phase[live] # "new" /\ live' = live /\ mem'[live] = store' /\ AllHold
        /\ Derived(mem[live], store', {}, {}) /\ Awaited' = Awaited
    BY <1>3, ReadIs
  <2>2. OneHolder' /\ MarkInv'
    BY <1>1, <2>1, HoldAfterAll, MarkAfterSave
  <2> QED BY <2>2 DEF MatchInv
<1>4. CASE Reload \/ Crash
  <2>1. phase'[live'] = "new" /\ Awaited' = {}
    BY <1>4, ReloadIs, CrashIs
  <2> QED BY <2>1 DEF MatchInv, MarkInv, OneHolder
<1> QED BY <1>2, <1>3, <1>4

\* The calls of clients: a marker goes only with the enabled flag of its job, or the job.
LEMMA EditedMatch ==
  ASSUME CronInv, LiveInv, MatchInv, Excuses, Loaded(live), NEW n, Edited(n),
         \A i \in DOMAIN n : i \in Marked(n) => i \in Marked(mem[live]),
         \A i \in (Awaited \ excused) \cap DOMAIN mem[live] :
            i \in DOMAIN n /\ mem[live][i].enabled /\ n[i].enabled
              => n[i].runningAt = mem[live][i].runningAt
  PROVE  MatchInv'
<1>1. /\ live' = live /\ mem'[live] = n /\ store' = n /\ AllHold /\ Awaited' = Awaited
      /\ phase[live] # "new"
  BY EditedIs
<1>2. /\ OneHolder /\ Same(mem[live], store) /\ Shows(mem[live], Awaited, excused)
      /\ Awaited \subseteq Jobs
  BY <1>1, MatchFacts, AwaitedJobs
<1>3. OneHolder'
  BY <1>1, <1>2, HoldAfterAll
<1>4. ASSUME NEW j \in Awaited' \ excused' PROVE j \in Marked(n)
  <2>1. j \in Awaited \ excused /\ j \notin Disabled' /\ j \in Jobs
    BY <1>1, <1>2, <1>4 DEF Excuses
  <2>2. j \in DOMAIN n /\ n[j].enabled
    BY <1>1, <2>1 DEF Disabled
  <2>3. j \in Marked(mem[live]) /\ j \in DOMAIN mem[live]
    BY <1>2, <2>1 DEF Shows, Marked
  <2>4. mem[live][j].enabled
    BY <1>2, <2>1, <2>3, LiveFacts DEF Same, History, Disabled
  <2> QED BY <2>1, <2>2, <2>3, <2>4 DEF Marked
<1>5. Marked(n) \subseteq Awaited'
  <2> SUFFICES ASSUME NEW i \in Marked(n) PROVE i \in Awaited'
    OBVIOUS
  <2>1. i \in Marked(mem[live])
    BY DEF Marked
  <2> QED BY <1>1, <1>2, <2>1 DEF Shows
<1>6. Shows(n, Awaited', excused')
  BY <1>4, <1>5 DEF Shows
<1> QED BY <1>1, <1>3, <1>6 DEF MatchInv, MarkInv

LEMMA CallsMatch ==
  ASSUME CronInv, LiveInv, MatchInv, Excuses, NEW j \in Jobs,
         Add(j) \/ Remove(j) \/ \E patch \in Patches : Update(j, patch)
  PROVE  MatchInv'
<1> DEFINE a == mem[live]
<1>1. History /\ Recent(a)
  BY LiveFacts, MatchFacts
<1>2. CASE Add(j)
  <2>1. PICK n : /\ Loaded(live) /\ Edited(n) /\ j \in fresh /\ fresh' = fresh \ {j}
                 /\ succeeded' = succeeded /\ DOMAIN n = DOMAIN mem[live] \cup {j}
                 /\ n[j].runningAt = Undefined
                 /\ \A i \in DOMAIN mem[live] \ {j} :
                      /\ n[i].enabled = mem[live][i].enabled
                      /\ n[i].runningAt \in {Undefined, mem[live][i].runningAt}
                      /\ mem[live][i].enabled /\ ~Stuck(mem[live][i], now)
                           => n[i].runningAt = mem[live][i].runningAt
    BY <1>2, AddIs
  <2>2. j \notin Awaited
    BY <1>1, <2>1 DEF History
  <2>3. \A i \in DOMAIN n : i \in Marked(n) => i \in Marked(a)
    BY <2>1 DEF Marked
  <2>4. \A i \in (Awaited \ excused) \cap DOMAIN a :
          i \in DOMAIN n /\ a[i].enabled /\ n[i].enabled => n[i].runningAt = a[i].runningAt
    BY <1>1, <2>1, <2>2 DEF Recent
  <2> QED BY <2>1, <2>3, <2>4, EditedMatch
<1>3. CASE Remove(j)
  <2>1. PICK n : /\ Loaded(live) /\ Edited(n) /\ DOMAIN n = DOMAIN a \ {j}
                 /\ \A i \in DOMAIN n : n[i] = a[i]
    BY <1>3, RemoveIs
  <2>2. /\ \A i \in DOMAIN n : i \in Marked(n) => i \in Marked(a)
        /\ \A i \in (Awaited \ excused) \cap DOMAIN a :
             i \in DOMAIN n /\ a[i].enabled /\ n[i].enabled => n[i].runningAt = a[i].runningAt
    BY <2>1 DEF Marked
  <2> QED BY <2>1, <2>2, EditedMatch
<1>4. ASSUME NEW patch \in Patches, Update(j, patch) PROVE MatchInv'
  <2>1. PICK n : /\ Loaded(live) /\ Edited(n) /\ j \in DOMAIN a /\ DOMAIN n = DOMAIN a
                 /\ \A i \in DOMAIN a : i # j => n[i] = a[i]
                 /\ n[j].runningAt \in {Undefined, a[j].runningAt}
                 /\ n[j].enabled => n[j].runningAt = a[j].runningAt
    BY <1>4, UpdateIs
  <2>2. \A i \in DOMAIN n : i \in Marked(n) => i \in Marked(a)
    BY <2>1 DEF Marked
  <2>3. \A i \in (Awaited \ excused) \cap DOMAIN a :
          i \in DOMAIN n /\ a[i].enabled /\ n[i].enabled => n[i].runningAt = a[i].runningAt
    BY <2>1
  <2> QED BY <2>1, <2>2, <2>3, EditedMatch
<1> QED BY <1>2, <1>3, <1>4

LEMMA StutterMatch ==
  ASSUME CronInv, LiveInv, MatchInv, UNCHANGED cronVars PROVE MatchInv'
<1>1. UNCHANGED <<store, live, mem, phase, excused>>
  BY DEF cronVars, batches
<1>2. AllHold /\ Awaited' = Awaited
  BY CronStutterInv, AwaitedIfAllHold DEF CronInv
<1>3. MarkInv'
  BY <1>1, <1>2 DEF MatchInv, MarkInv
<1>4. OneHolder'
  <2> SUFFICES ASSUME NEW j \in Awaited' \ excused', NEW h \in Holders', NEW k \in Holders',
                      j \in Held(h)', j \in Held(k)'
               PROVE  h = k
    BY DEF OneHolder
  <2>1. j \in Awaited \ excused /\ h \in Holders /\ k \in Holders
    BY <1>1, <1>2 DEF Holders
  <2>2. j \in Held(h) /\ j \in Held(k)
    BY <1>2, <2>1 DEF AllHold
  <2> QED BY <2>1, <2>2 DEF MatchInv, OneHolder
<1> QED BY <1>3, <1>4 DEF MatchInv

LEMMA MatchStepInv ==
  ASSUME CronInv, LiveInv, MatchInv, [CronNext]_cronVars, Reload => Quiet PROVE MatchInv'
<1>1. CronInv' /\ LiveInv'
  BY CronNextInv, LiveStepInv
<1>2. CASE UNCHANGED cronVars
  BY <1>2, StutterMatch
<1> QED BY <1>1, <1>2, CronStepIs, StartMatch, OnTimerMatch, ManualMatch, QuietMatch, CallsMatch

\* Settled services run nothing and leave no marker.
LEMMA SettlesMatch ==
  ASSUME CronInv', CronNext, Settled' PROVE MatchInv'
<1>1. Awaited' = {}
  BY SettlesLive
<1>2. MarkInv'
  BY <1>1 DEF Settled, MarkInv, Shows, Marked
<1> QED BY <1>1, <1>2 DEF MatchInv, OneHolder

LEMMA MatchNextInv ==
  CronInv /\ (beside \/ (LiveInv /\ MatchInv)) /\ [CronNext]_cronVars
    => (CronInv /\ (beside \/ (LiveInv /\ MatchInv)))'
<1> SUFFICES ASSUME CronInv, beside \/ (LiveInv /\ MatchInv), [CronNext]_cronVars
             PROVE  CronInv' /\ (beside' \/ (LiveInv' /\ MatchInv'))
  OBVIOUS
<1>1. CronInv'
  BY CronNextInv
<1>2. ASSUME ~beside' PROVE LiveInv' /\ MatchInv'
  BY <1>1, <1>2, BesideAfter, LiveStepInv, SettlesLive, MatchStepInv, SettlesMatch
<1> QED BY <1>1, <1>2

LEMMA MatchInvariant == CronSpec => [](CronInv /\ (beside \/ (LiveInv /\ MatchInv)))
<1>1. CronInit => MatchInv
  <2> SUFFICES ASSUME CronInit PROVE MatchInv
    OBVIOUS
  <2>1. CronInv /\ LiveInv
    BY CronInitInv, InitLive
  <2>2. phase[live] = "new"
    BY ConstantFacts DEF CronInit
  <2>3. Awaited = {}
    BY <2>1, <2>2, NewAwaitsNothing DEF LiveInv
  <2> QED BY <2>2, <2>3 DEF MatchInv, MarkInv, OneHolder
<1>2. CronInit => CronInv /\ (beside \/ (LiveInv /\ MatchInv))
  BY <1>1, CronInitInv, InitLive
<1> QED BY <1>2, MatchNextInv, PTL DEF CronSpec

\* MarkersMatchRuns: a job that runs or waits for its run or outcome is marked in the file,
\* and after the first section of a start only such jobs are; except for excused jobs, and as
\* long as a reload leaves an older service at work (timer.ts, ops.ts).
THEOREM MarkersFollowRuns == CronSpec => []MarkersMatchRuns
<1>1. CronInv /\ (beside \/ (LiveInv /\ MatchInv)) => MarkersMatchRuns
  <2> SUFFICES ASSUME CronInv, LiveInv, MatchInv, ~beside PROVE MarkersMatchRuns
    BY DEF MarkersMatchRuns
  <2>1. phase[live] = "new" => Awaited = {}
    BY NewAwaitsNothing DEF LiveInv
  <2>2. /\ Awaited \ excused \subseteq Marked(store)
        /\ phase[live] # "new" => Marked(store) \subseteq Awaited
    BY <2>1 DEF MatchInv, MarkInv, Shows
  <2> QED BY <2>2 DEF MarkersMatchRuns, Marked
<1> QED BY <1>1, MatchInvariant, PTL

\* OneRunPerJob: no tick, start or manual call runs a job twice at a time, and two of them run
\* the same job only when an edit disabled or removed it, or its marker got older than
\* STUCK_RUN_MS, while it ran, or as long as a reload leaves an older service at work.
THEOREM RunsExcludeEachOther == CronSpec => []OneRunPerJob
<1>1. ASSUME CronInv, NEW e \in execs, NEW f \in execs, e.job = f.job,
             <<e.svc, e.by>> = <<f.svc, f.by>>
      PROVE  e = f
  <2>1. BatchInv /\ BatchTypes /\ e.svc \in Services /\ e.by \in Starters
    BY <1>1, CronInvFacts DEF BatchTypes, Execs
  <2>2. CASE e.by \in {"tick", "start"}
    <3>1. \A x, y \in RunsOf(e.svc, e.by) : x.job = y.job => x = y
      BY <2>1, <2>2 DEF BatchInv, BatchOK, OnceEach
    <3> QED BY <1>1, <3>1 DEF RunsOf
  <2>3. CASE e.by \in ManualRuns
    <3>1. \A x, y \in RunsFor(e.by) : x = y
      BY <2>1, <2>3 DEF BatchInv, ManualOK
    <3> QED BY <1>1, <3>1 DEF RunsFor
  <2> QED BY <2>1, <2>2, <2>3 DEF Starters
<1>2. ASSUME CronInv, LiveInv, MatchInv, NEW e \in execs, NEW f \in execs,
             e.job = f.job, e.job \notin excused
      PROVE  e = f
  <2>1. BatchInv /\ BatchTypes /\ OneHolder /\ \A m \in ManualRuns : m # "tick" /\ m # "start"
    BY <1>2, LiveFacts, CronAssumption DEF MatchInv
  <2>2. e.job \in Awaited
    BY DEF Awaited
  <2>3. ASSUME NEW x \in execs
        PROVE  \/ /\ x.by = "tick" /\ <<"tick", x.svc>> \in Holders
                  /\ x \in RunsOf(x.svc, "tick") /\ x.job \in Held(<<"tick", x.svc>>)
               \/ /\ x.by = "start" /\ <<"start", x.svc>> \in Holders
                  /\ x \in RunsOf(x.svc, "start") /\ x.job \in Held(<<"start", x.svc>>)
               \/ /\ x.by \in ManualRuns /\ <<"manual", x.by>> \in Holders
                  /\ x \in RunsFor(x.by) /\ x.job \in Held(<<"manual", x.by>>)
    <3>1. x.svc \in Services /\ x.by \in Starters
      BY <2>1 DEF BatchTypes, Execs
    <3>2. CASE x.by = "tick"
      BY <3>1, <3>2 DEF Holders, RunsOf, Held, TickHolds, JobsOf
    <3>3. CASE x.by = "start"
      BY <3>1, <3>3 DEF Holders, RunsOf, Held, StartHolds, JobsOf
    <3>4. CASE x.by \in ManualRuns
      BY <3>1, <3>4 DEF Holders, RunsFor, Held, ManualHolds, JobsOf
    <3> QED BY <3>1, <3>2, <3>3, <3>4 DEF Starters
  <2>4. \A h, k \in Holders : e.job \in Held(h) /\ e.job \in Held(k) => h = k
    BY <1>2, <2>1, <2>2 DEF OneHolder
  <2>5. CASE e.by \in {"tick", "start"}
    BY <1>1, <1>2, <2>1, <2>3, <2>4, <2>5
  <2>6. CASE e.by \in ManualRuns
    <3>1. f.by = e.by
      BY <1>2, <2>1, <2>3, <2>4, <2>6
    <3>2. e.svc = manual[e.by].svc /\ f.svc = manual[e.by].svc
      BY <2>1, <2>6, <3>1 DEF BatchInv, ManualOK, RunsFor
    <3> QED BY <1>1, <1>2, <3>1, <3>2
  <2> QED BY <2>3, <2>5, <2>6
<1>3. CronInv /\ (beside \/ (LiveInv /\ MatchInv)) => OneRunPerJob
  BY <1>1, <1>2 DEF OneRunPerJob
<1> QED BY <1>3, MatchInvariant, PTL

=============================================================================
