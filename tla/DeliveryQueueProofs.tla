------------------------- MODULE DeliveryQueueProofs -------------------------
(* The delivery queue keeps its promise for every number of deliveries,      *)
(* recoveries, crashes and I/O errors.                                        *)
EXTENDS DeliveryQueue, FiniteSetTheorems, SequenceTheorems, TLAPS

\* What the promise needs: an entry is only acknowledged for a reason.
AckInv ==
    /\ stored \subseteq Deliveries
    /\ phase \in [Actors -> [Deliveries -> Phases]]
    /\ \A a \in Actors, d \in Deliveries :
         phase[a][d] \in {"acking"} => d \in delivered \cup withdrawn \cup swallowed

\* The initial state acknowledges nothing.
LEMMA AckInit == DQInit => AckInv
<1>1. ASSUME DQInit PROVE AckInv
  BY <1>1 DEF DQInit, AckInv, Phases
<1>. QED BY <1>1

\* Entering a phase is a change at one place.
LEMMA EnterIsLocal ==
    ASSUME phase \in [Actors -> [Deliveries -> Phases]],
           NEW a \in Actors, NEW d \in Deliveries, NEW p \in Phases,
           Enter(a, d, p)
    PROVE  /\ phase' \in [Actors -> [Deliveries -> Phases]]
           /\ phase'[a][d] = p
           /\ \A b \in Actors, e \in Deliveries :
                b # a \/ e # d => phase'[b][e] = phase[b][e]
BY DEF Enter

\* Every step acknowledges only what was sent, aborted or hidden.
LEMMA AckStep == AckInv /\ [DQNext]_dqVars => AckInv'
<1>. SUFFICES ASSUME AckInv, [DQNext]_dqVars PROVE AckInv'
  OBVIOUS
<1>. USE DEF AckInv
<1>done. ASSUME NEW a \in Actors PROVE Done(a) \in Phases /\ Done(a) # "acking"
  BY DEF Done, Phases
<1>1. ASSUME NEW d \in Deliveries, Enqueue(d) PROVE AckInv'
  <2>1. Enter(Live, d, "sending") /\ UNCHANGED outcome
    BY <1>1 DEF Enqueue
  <2>2. Live \in Actors /\ "sending" \in Phases
    BY DEF Actors, Phases
  <2>3. stored' \subseteq Deliveries
    BY <1>1 DEF Enqueue
  <2>. QED BY <2>1, <2>2, <2>3, EnterIsLocal DEF outcome
<1>2. ASSUME NEW d \in Deliveries, SendAborts(d) PROVE AckInv'
  <2>1. After(Live, d, "acking") \in Phases /\ Live \in Actors
    BY DEF After, Phases, Actors
  <2>2. /\ Enter(Live, d, After(Live, d, "acking"))
        /\ withdrawn' = withdrawn \cup {d}
        /\ UNCHANGED <<stored, delivered, swallowed>>
    BY <1>2 DEF SendAborts, disk
  <2>. QED BY <2>1, <2>2, EnterIsLocal
<1>3. ASSUME NEW a \in Actors, NEW d \in Deliveries, CallReturns(a, d) PROVE AckInv'
  <2>1. CASE SendSucceeds(a, d)
    <3>1. After(a, d, "acking") \in Phases
      BY DEF After, Phases
    <3>2. /\ Enter(a, d, After(a, d, "acking"))
          /\ delivered' = delivered \cup {d}
          /\ UNCHANGED <<stored, withdrawn, swallowed>>
      BY <2>1 DEF SendSucceeds, disk
    <3>. QED BY <3>1, <3>2, EnterIsLocal
  <2>2. CASE SendThrows(a, d)
    <3>1. PICK p \in {"failing", "moving"} : Enter(a, d, After(a, d, p))
      BY <2>2 DEF SendThrows, OnError
    <3>2. After(a, d, p) \in Phases /\ After(a, d, p) # "acking"
      BY DEF After, Phases
    <3>3. UNCHANGED <<stored, delivered, withdrawn, swallowed>>
      BY <2>2 DEF SendThrows, disk, outcome
    <3>. QED BY <3>1, <3>2, <3>3, EnterIsLocal
  <2>3. CASE SendHidesErrors(a, d)
    <3>1. UNCHANGED <<stored, delivered, withdrawn>>
      BY <2>3 DEF SendHidesErrors, disk
    <3>2. CASE Enter(a, d, After(a, d, "failing")) /\ UNCHANGED swallowed
      <4>1. After(a, d, "failing") \in Phases /\ After(a, d, "failing") # "acking"
        BY DEF After, Phases
      <4>. QED BY <3>1, <3>2, <4>1, EnterIsLocal
    <3>3. CASE Enter(a, d, After(a, d, "acking")) /\ swallowed' = swallowed \cup {d}
      <4>1. After(a, d, "acking") \in Phases
        BY DEF After, Phases
      <4>. QED BY <3>1, <3>3, <4>1, EnterIsLocal
    <3>. QED BY <2>3, <3>2, <3>3 DEF SendHidesErrors
  <2>4. CASE AckRenames(a, d)
    <3>1. PICK p \in {"unlinking", "failing", "over", "idle"} : Enter(a, d, p)
      BY <2>4 DEF AckRenames, Done
    <3>2. stored' \subseteq stored /\ UNCHANGED outcome
      BY <2>4 DEF AckRenames, FilesAfterRename
    <3>3. p \in Phases /\ p # "acking"
      BY DEF Phases
    <3>. QED BY <3>1, <3>2, <3>3, EnterIsLocal DEF outcome
  <2>5. CASE AckUnlinks(a, d)
    <3>1. Enter(a, d, Done(a)) /\ UNCHANGED <<stored, outcome>>
      BY <2>5 DEF AckUnlinks
    <3>2. Done(a) \in Phases /\ Done(a) # "acking"
      BY <1>done
    <3>. QED BY <3>1, <3>2, EnterIsLocal, SMTT(30) DEF outcome
  <2>6. CASE FailReads(a, d)
    <3>1. PICK p \in {"writing", "over", "idle"} : Enter(a, d, p)
      BY <2>6 DEF FailReads, Done
    <3>2. UNCHANGED <<stored, outcome>>
      BY <2>6 DEF FailReads, disk
    <3>3. p \in Phases /\ p # "acking"
      BY DEF Phases
    <3>. QED BY <3>1, <3>2, <3>3, EnterIsLocal DEF outcome
  <2>7. CASE FailWrites(a, d)
    <3>1. Enter(a, d, Done(a)) /\ UNCHANGED outcome
      BY <2>7 DEF FailWrites
    <3>2. stored' \subseteq Deliveries
      BY <2>7 DEF FailWrites
    <3>3. Done(a) \in Phases /\ Done(a) # "acking"
      BY <1>done
    <3>. QED BY <3>1, <3>2, <3>3, EnterIsLocal DEF outcome
  <2>8. CASE MovesToFailed(a, d)
    <3>1. Enter(a, d, Done(a)) /\ UNCHANGED outcome
      BY <2>8 DEF MovesToFailed
    <3>2. stored' \subseteq Deliveries
      BY <2>8 DEF MovesToFailed, FilesAfterMove
    <3>3. Done(a) \in Phases /\ Done(a) # "acking"
      BY <1>done
    <3>. QED BY <3>1, <3>2, <3>3, EnterIsLocal DEF outcome
  <2>. QED BY <1>3, <2>1, <2>2, <2>3, <2>4, <2>5, <2>6, <2>7, <2>8 DEF CallReturns
<1>4. ASSUME NEW r \in Recoveries, RecoveryStep(r) PROVE AckInv'
  <2>0. r \in Actors
    BY DEF Actors
  <2>1. CASE Load(r)
    <3>. UNCHANGED <<stored, phase, delivered, withdrawn, swallowed>>
      BY <2>1 DEF Load, outcome
    <3>. QED OBVIOUS
  <2>2. ASSUME NEW d \in Deliveries, GivesUp(r, d) PROVE AckInv'
    <3>1. Enter(r, d, "moving") /\ UNCHANGED <<stored, outcome>>
      BY <2>2 DEF GivesUp, Reaches, disk
    <3>2. "moving" \in Phases
      BY DEF Phases
    <3>. QED BY <2>0, <3>1, <3>2, EnterIsLocal DEF outcome
  <2>3. ASSUME NEW d \in Deliveries, Retries(r, d) PROVE AckInv'
    <3>1. Enter(r, d, "sending") /\ UNCHANGED <<stored, outcome>>
      BY <2>3 DEF Retries, Reaches, disk
    <3>2. "sending" \in Phases
      BY DEF Phases
    <3>. QED BY <2>0, <3>1, <3>2, EnterIsLocal DEF outcome
  <2>4. ASSUME NEW d \in Deliveries, Defers(r, d) PROVE AckInv'
    <3>. UNCHANGED <<stored, phase, delivered, withdrawn, swallowed>>
      BY <2>4 DEF Defers, Reaches, disk, outcome
    <3>. QED OBVIOUS
  <2>5. CASE BudgetExceeded(r)
    <3>1. UNCHANGED <<stored, outcome>>
      BY <2>5 DEF BudgetExceeded, disk
    <3>2. phase' \in [Actors -> [Deliveries -> Phases]]
      BY <2>0, <2>5 DEF BudgetExceeded, Phases
    <3>3. ASSUME NEW b \in Actors, NEW e \in Deliveries, phase'[b][e] = "acking"
          PROVE  phase[b][e] = "acking"
      BY <2>0, <2>5, <3>3 DEF BudgetExceeded
    <3>. QED BY <3>1, <3>2, <3>3 DEF outcome
  <2>6. CASE RecoveryEnds(r)
    BY <2>6 DEF RecoveryEnds, disk, outcome
  <2>. QED BY <1>4, <2>1, <2>2, <2>3, <2>4, <2>5, <2>6 DEF RecoveryStep
<1>5. CASE Crash
  <2>1. UNCHANGED <<stored, outcome>>
    BY <1>5 DEF Crash, disk
  <2>2. phase' \in [Actors -> [Deliveries -> Phases]]
    BY <1>5 DEF Crash, Done, Phases
  <2>3. \A b \in Actors, e \in Deliveries : phase'[b][e] # "acking"
    BY <1>5 DEF Crash, Done
  <2>. QED BY <2>1, <2>2, <2>3 DEF outcome
<1>6. CASE Boot
  BY <1>6 DEF Boot, disk, outcome
<1>7. CASE RestartInProcess
  BY <1>7 DEF RestartInProcess, disk, outcome
<1>8. CASE UNCHANGED dqVars
  BY <1>8 DEF dqVars, disk, outcome
<1>. QED BY <1>1, <1>2, <1>3, <1>4, <1>5, <1>6, <1>7, <1>8 DEF DQNext

\* Of every reachable state: what is being acknowledged was sent, aborted, or had
\* its errors hidden (ackDelivery is only reached that way).
THEOREM AckHasReason == DQSpec => []AckInv
BY AckInit, AckStep, PTL DEF DQSpec

\* Each step of the queue is a step of the promise or leaves it alone.
LEMMA PromiseStep ==
    AckInv /\ [DQNext]_dqVars
      => [KeepsPromise!PromiseNext]_(KeepsPromise!promiseVars)
<1>. SUFFICES ASSUME AckInv, [DQNext]_dqVars
              PROVE  \/ KeepsPromise!PromiseNext
                     \/ UNCHANGED <<stored, delivered, withdrawn, swallowed, failedDir>>
  BY DEF KeepsPromise!promiseVars
<1>1. ASSUME NEW d \in Deliveries, Enqueue(d)
      PROVE  KeepsPromise!Keep(d) \/ UNCHANGED <<stored, outcome, failedDir>>
  BY <1>1 DEF Enqueue, KeepsPromise!Keep, outcome
<1>2. ASSUME NEW d \in Deliveries, SendAborts(d) PROVE KeepsPromise!Release(d)
  BY <1>2 DEF SendAborts, KeepsPromise!Release, disk
<1>3. ASSUME NEW a \in Actors, NEW d \in Deliveries, CallReturns(a, d)
      PROVE  \/ KeepsPromise!PromiseNext
             \/ UNCHANGED <<stored, outcome, failedDir>>
  <2>1. CASE SendSucceeds(a, d)
    <3>1. KeepsPromise!Confirm(d)
      BY <2>1 DEF SendSucceeds, KeepsPromise!Confirm, disk
    <3>. QED BY <3>1 DEF KeepsPromise!PromiseNext
  <2>2. CASE SendThrows(a, d)
    BY <2>2 DEF SendThrows, disk
  <2>3. CASE SendHidesErrors(a, d)
    <3>1. KeepsPromise!Release(d) \/ UNCHANGED <<stored, outcome, failedDir>>
      BY <2>3 DEF SendHidesErrors, KeepsPromise!Release, disk, outcome
    <3>. QED BY <3>1 DEF KeepsPromise!PromiseNext
  <2>4. CASE AckRenames(a, d)
    <3>1. UNCHANGED <<outcome, failedDir>>
      BY <2>4 DEF AckRenames
    <3>2. stored' = stored \ {d} \/ stored' = stored
      BY <2>4 DEF AckRenames, FilesAfterRename
    <3>3. d \in delivered \cup withdrawn \cup swallowed
      BY <2>4 DEF AckRenames, AckInv
    <3>4. KeepsPromise!Forget(d) \/ UNCHANGED <<stored, outcome, failedDir>>
      BY <3>1, <3>2, <3>3 DEF KeepsPromise!Forget, outcome
    <3>. QED BY <3>4 DEF KeepsPromise!PromiseNext
  <2>5. CASE AckUnlinks(a, d)
    BY <2>5 DEF AckUnlinks
  <2>6. CASE FailReads(a, d)
    BY <2>6 DEF FailReads, disk
  <2>7. CASE FailWrites(a, d)
    <3>1. KeepsPromise!Keep(d) \/ UNCHANGED <<stored, outcome, failedDir>>
      BY <2>7 DEF FailWrites, KeepsPromise!Keep, outcome
    <3>. QED BY <3>1 DEF KeepsPromise!PromiseNext
  <2>8. CASE MovesToFailed(a, d)
    <3>1. KeepsPromise!SetAside(d) \/ UNCHANGED <<stored, outcome, failedDir>>
      BY <2>8 DEF MovesToFailed, FilesAfterMove, KeepsPromise!SetAside, outcome
    <3>. QED BY <3>1 DEF KeepsPromise!PromiseNext
  <2>. QED BY <1>3, <2>1, <2>2, <2>3, <2>4, <2>5, <2>6, <2>7, <2>8 DEF CallReturns
<1>4. ASSUME NEW r \in Recoveries, RecoveryStep(r)
      PROVE  UNCHANGED <<stored, outcome, failedDir>>
  BY <1>4 DEF RecoveryStep, Load, GivesUp, Retries, Defers, Reaches, BudgetExceeded,
              RecoveryEnds, disk
<1>5. ASSUME Crash \/ Boot \/ RestartInProcess
      PROVE  UNCHANGED <<stored, outcome, failedDir>>
  BY <1>5 DEF Crash, Boot, RestartInProcess, disk
<1>6. CASE UNCHANGED dqVars
  BY <1>6 DEF dqVars, disk, outcome
<1>. QED BY <1>1, <1>2, <1>3, <1>4, <1>5, <1>6
         DEF DQNext, KeepsPromise!PromiseNext, outcome

\* For every number of deliveries, recoveries, crashes and I/O errors: an entry on
\* disk only leaves it once it was delivered, released or moved to failed/
\* (ackDelivery, failDelivery, moveToFailed between the steps of all their callers).
THEOREM QueueKeepsPromise == DQSpec => KeptUntilDelivered
<1>1. DQInit => KeepsPromise!PromiseInit
  BY DEF DQInit, KeepsPromise!PromiseInit
<1>2. AckInv /\ [DQNext]_dqVars
        => [KeepsPromise!PromiseNext]_(KeepsPromise!promiseVars)
  BY PromiseStep
<1>. QED BY <1>1, <1>2, AckHasReason, PTL
         DEF DQSpec, KeptUntilDelivered, KeepsPromise!Promise
-----------------------------------------------------------------------------
(* Every delivery has one owner, unless it is excused: the actor that works on it,  *)
(* or the recovery that has loaded it.                                              *)

\* a works on d, or will.
Engaged(a, d) == InFlight(a, d) \/ (a \in Recoveries /\ d \in PendingIds(a))

Solo(d) ==
    /\ \A a, b \in Actors : Engaged(a, d) /\ Engaged(b, d) => a = b
    /\ \A r \in Recoveries : InFlight(r, d) => d \notin PendingIds(r)

\* What a recovery remembers of an entry is what the file says.
Remembered(d) ==
    \A r \in Recoveries : \A i \in DOMAIN pending[r] :
      pending[r][i].id = d => pending[r][i].retryCount = retryCount[d]

\* One more attempt can be recorded as long as d is tried.
Limited(d) ==
    /\ retryCount[d] <= MaxRetries + budgetHits
    /\ \A a \in Actors :
         /\ phase[a][d] \in {"sending", "failing"} => retryCount[d] < MaxRetries + budgetHits
         /\ phase[a][d] = "writing" => read[a][d] < MaxRetries + budgetHits

\* Once a send succeeded the entry is only acknowledged.
SentIsAcked(d) ==
    d \in delivered =>
      /\ \A a \in Actors : phase[a][d] \in {"idle", "acking", "unlinking", "over"}
      /\ \A r \in Recoveries : d \notin PendingIds(r)
      /\ d \in stored => \E a \in Actors : phase[a][d] = "acking"

\* Once the entry is in failed/ nobody works on it.
FailedIsOver(d) ==
    d \in failedDir =>
      /\ d \notin stored \cup delivered
      /\ \A a \in Actors : ~Engaged(a, d)

Owned(d) ==
    /\ Solo(d) /\ Remembered(d) /\ Limited(d)
    /\ SentIsAcked(d) /\ FailedIsOver(d)
    /\ d \notin twice

\* Types, and the facts that hold of excused deliveries too.
DQTypes ==
    /\ up \in BOOLEAN
    /\ stored \subseteq Deliveries /\ marked \subseteq Deliveries
    /\ failedDir \subseteq Deliveries /\ twice \subseteq Deliveries
    /\ retryCount \in [Deliveries -> Nat]
    /\ order \in Seq(Deliveries)
    /\ phase \in [Actors -> [Deliveries -> Phases]]
    /\ read \in [Actors -> [Deliveries -> Nat]]
    /\ running \in [Recoveries -> {"off", "loading", "loaded", "begun"}]
    /\ pending \in [Recoveries -> Seq([id : Deliveries, retryCount : Nat])]
    /\ budgetHits \in Nat

OrderDistinct == \A i, j \in DOMAIN order : order[i] = order[j] => i = j

\* A recovery loads an entry once.
PendingDistinct ==
    \A r \in Recoveries : \A i, j \in DOMAIN pending[r] :
      pending[r][i].id = pending[r][j].id => i = j

\* A call that was not made yet left no trace.
Untouched(d) ==
    /\ d \notin Written =>
         /\ d \notin stored /\ retryCount[d] = 0
         /\ phase[Live][d] \in {"idle", "sending", "over"}
         /\ \A r \in Recoveries : ~Engaged(r, d)
    /\ phase[Live][d] = "idle" => d \notin Written \cup delivered \cup failedDir

\* A recovery that does not run works on nothing.
AtRest(r) ==
    running[r] \in {"off", "loading"}
      => pending[r] = <<>> /\ \A d \in Deliveries : ~InFlight(r, d)

\* Without a process there is no recovery.
Down == ~up => \A r \in Recoveries : running[r] = "off"

DInv ==
    /\ Down
    /\ DQTypes /\ OrderDistinct /\ PendingDistinct
    /\ \A d \in Deliveries : Untouched(d)
    /\ \A r \in Recoveries : AtRest(r)
    /\ \A d \in Deliveries \ excused : Owned(d)

-----------------------------------------------------------------------------
(* What a step leaves alone. *)

LEMMA ActorTypes ==
  /\ Live \in Actors /\ Recoveries \subseteq Actors
  /\ \A a \in Actors : a # Live <=> a \in Recoveries
  /\ \A a \in Actors : Done(a) \in Phases \ Calls /\ (Done(a) = "idle" <=> a # Live)
  /\ \A a \in Actors, d \in Deliveries, p \in Phases : After(a, d, p) \in Phases
BY DeliveryAssumption DEF Actors, Live, Recoveries, Done, After, Phases, Calls

LEMMA MaxRetriesType == MaxRetries \in Nat /\ MaxRetries > 0
BY DeliveryAssumption

LEMMA LimitPositive == \A n \in Nat : 0 <= MaxRetries + n /\ 0 < MaxRetries + n
BY MaxRetriesType

\* A step that neither touches the entry of d nor engages anybody in it.
LEMMA OwnedFrame ==
  ASSUME DQTypes, NEW d \in Deliveries, Owned(d),
         \A a \in Actors : phase'[a][d] = phase[a][d] /\ read'[a][d] = read[a][d],
         \A r \in Recoveries : \A i \in DOMAIN pending'[r] :
           pending'[r][i].id = d
             => \E j \in DOMAIN pending[r] : pending'[r][i] = pending[r][j],
         retryCount'[d] = retryCount[d],
         budgetHits' \in Nat, budgetHits' >= budgetHits,
         d \in stored' => d \in stored,
         d \in delivered' => d \in delivered,
         d \in failedDir' => d \in failedDir,
         d \in twice' => d \in twice
  PROVE  Owned(d)'
<1> USE DEF Owned
<1>1. \A r \in Recoveries : d \in PendingIds(r)' => d \in PendingIds(r)
  BY DEF PendingIds
<1>2. \A a \in Actors : InFlight(a, d)' <=> InFlight(a, d)
  BY DEF InFlight
<1>3. \A a \in Actors : Engaged(a, d)' => Engaged(a, d)
  BY <1>1, <1>2 DEF Engaged
<1>4. Solo(d)'
  BY <1>1, <1>2, <1>3, ActorTypes DEF Solo
<1>5. Remembered(d)'
  BY DEF Remembered
<1>6. Limited(d)'
  BY MaxRetriesType DEF Limited, DQTypes
<1>7. SentIsAcked(d)'
  BY <1>1 DEF SentIsAcked
<1>8. FailedIsOver(d)'
  BY <1>3 DEF FailedIsOver
<1> QED BY <1>4, <1>5, <1>6, <1>7, <1>8

\* The only actor on d enters p: what is left to show of the entry.
LEMMA OwnedStep ==
  ASSUME DQTypes, DQTypes', NEW a \in Actors, NEW d \in Deliveries, NEW p \in Phases,
         Owned(d), InFlight(a, d), Enter(a, d, p), UNCHANGED pending,
         \A b \in Actors : b # a => read'[b][d] = read[b][d],
         budgetHits' >= budgetHits,
         retryCount'[d] <= MaxRetries + budgetHits,
         p \in {"sending", "failing"} => retryCount'[d] < MaxRetries + budgetHits,
         p = "writing" => read'[a][d] < MaxRetries + budgetHits,
         d \in delivered' => /\ p \in {"idle", "acking", "unlinking", "over"}
                             /\ d \in stored' => p = "acking",
         d \in failedDir' => d \notin stored' \cup delivered' /\ p \notin Calls,
         d \notin twice'
  PROVE  Owned(d)'
<1> USE DEF Owned
<1>1. /\ phase'[a][d] = p
      /\ \A b \in Actors : b # a => phase'[b][d] = phase[b][d]
  BY EnterIsLocal DEF DQTypes
<1>2. /\ \A b \in Actors : b # a => ~Engaged(b, d)
      /\ \A r \in Recoveries : d \notin PendingIds(r)
  BY ActorTypes DEF Solo, Engaged
<1>3. \A r \in Recoveries : d \notin PendingIds(r)'
  BY <1>2 DEF PendingIds
<1>4. \A b \in Actors : b # a => ~Engaged(b, d)' /\ phase'[b][d] \in {"idle", "over"}
  BY <1>1, <1>2, <1>3 DEF Engaged, InFlight, DQTypes, Phases, Calls
<1>5. Solo(d)'
  BY <1>3, <1>4 DEF Solo
<1>6. Remembered(d)'
  BY <1>3 DEF Remembered, PendingIds
<1>7. Limited(d)'
  <2>1. /\ MaxRetries \in Nat /\ budgetHits \in Nat /\ budgetHits' \in Nat
        /\ retryCount'[d] \in Nat /\ read'[a][d] \in Nat
    BY MaxRetriesType DEF DQTypes
  <2>2. retryCount'[d] <= MaxRetries + budgetHits'
    BY <2>1
  <2>3. /\ phase'[a][d] \in {"sending", "failing"} => retryCount'[d] < MaxRetries + budgetHits'
        /\ phase'[a][d] = "writing" => read'[a][d] < MaxRetries + budgetHits'
    BY <1>1, <2>1
  <2> QED BY <1>4, <2>2, <2>3 DEF Limited
<1>8. SentIsAcked(d)'
  BY <1>1, <1>3, <1>4 DEF SentIsAcked
<1>9. FailedIsOver(d)'
  BY <1>1, <1>3, <1>4 DEF FailedIsOver, Engaged, InFlight
<1> QED BY <1>5, <1>6, <1>7, <1>8, <1>9

\* A step of a call for d, made by the actor that works on it.
LEMMA CallKeeps ==
  ASSUME DInv, DQTypes', NEW a \in Actors, NEW d \in Deliveries, NEW p \in Phases,
         InFlight(a, d), Enter(a, d, p), a = Live => p # "idle",
         a = Live /\ d \notin Written => p = "over",
         UNCHANGED <<up, order, running, pending>>, excused \subseteq excused',
         budgetHits' >= budgetHits,
         \A b \in Actors, e \in Deliveries : b # a \/ e # d => read'[b][e] = read[b][e],
         \A e \in Deliveries : e # d =>
           /\ e \in stored' => e \in stored
           /\ retryCount'[e] = retryCount[e]
           /\ e \in delivered' => e \in delivered
           /\ e \in failedDir' => e \in failedDir
           /\ e \in twice' => e \in twice,
         d \in stored' => d \in Written,
         d \notin Written => retryCount'[d] = retryCount[d],
         d \notin excused' => Owned(d)'
  PROVE  DInv'
<1> USE DEF DInv
<1>1. /\ phase'[a][d] = p
      /\ \A b \in Actors, e \in Deliveries : b # a \/ e # d => phase'[b][e] = phase[b][e]
  BY EnterIsLocal DEF DQTypes
<1>2. /\ \A r \in Recoveries : PendingIds(r)' = PendingIds(r)
      /\ Written' = Written
  BY DEF PendingIds, Written, Elems
<1>3. OrderDistinct' /\ PendingDistinct' /\ Down'
  BY DEF OrderDistinct, PendingDistinct, Down
<1>4. ASSUME NEW e \in Deliveries PROVE Untouched(e)'
  <2>1. CASE e # d
    <3>1. \A b \in Actors : phase'[b][e] = phase[b][e]
      BY <1>1, <2>1
    <3>2. \A r \in Recoveries : Engaged(r, e)' <=> Engaged(r, e)
      BY <1>2, <3>1, ActorTypes DEF Engaged, InFlight
    <3> QED BY <1>2, <2>1, <3>1, <3>2, ActorTypes DEF Untouched
  <2>2. CASE e = d /\ a = Live
    <3>1. d \notin Written => p = "over" /\ d \notin stored'
      BY <2>2
    <3>2. phase'[Live][d] = p /\ p # "idle"
      BY <1>1, <2>2
    <3>3. \A r \in Recoveries : phase'[r][d] = phase[r][d]
      BY <1>1, <2>2, ActorTypes
    <3>4. \A r \in Recoveries : Engaged(r, d)' <=> Engaged(r, d)
      BY <1>2, <3>3 DEF Engaged, InFlight
    <3> QED BY <1>2, <2>2, <3>1, <3>2, <3>4 DEF Untouched
  <2>3. CASE e = d /\ a # Live
    <3>1. a \in Recoveries /\ Engaged(a, d)
      BY <2>3, ActorTypes DEF Engaged
    <3>2. d \in Written /\ phase[Live][d] # "idle"
      BY <3>1 DEF Untouched
    <3>3. phase'[Live][d] # "idle"
      BY <1>1, <2>3, <3>2, ActorTypes
    <3> QED BY <1>2, <2>3, <3>2, <3>3 DEF Untouched
  <2> QED BY <2>1, <2>2, <2>3
<1>5. ASSUME NEW r \in Recoveries PROVE AtRest(r)'
  <2> SUFFICES ASSUME running[r] \in {"off", "loading"}
               PROVE  pending'[r] = <<>> /\ \A e \in Deliveries : ~InFlight(r, e)'
    BY DEF AtRest
  <2>1. pending[r] = <<>> /\ \A e \in Deliveries : ~InFlight(r, e)
    BY DEF AtRest
  <2>2. r # a
    BY <2>1
  <2>3. \A e \in Deliveries : phase'[r][e] = phase[r][e]
    BY <1>1, <2>2, ActorTypes
  <2> QED BY <2>1, <2>3 DEF InFlight
<1>6. ASSUME NEW e \in Deliveries, e \notin excused' PROVE Owned(e)'
  <2>1. CASE e # d
    <3>1. Owned(e)
      BY <1>6
    <3>2. \A b \in Actors : phase'[b][e] = phase[b][e] /\ read'[b][e] = read[b][e]
      BY <1>1, <2>1
    <3>3. budgetHits' \in Nat
      BY DEF DQTypes
    <3> QED BY <2>1, <3>1, <3>2, <3>3, OwnedFrame
  <2>2. CASE e = d
    BY <1>6, <2>2
  <2> QED BY <2>1, <2>2
<1> QED BY <1>3, <1>4, <1>5, <1>6

\* What is known of the entry that a call works on.
LEMMA CallFacts ==
  ASSUME DInv, NEW a \in Actors, NEW d \in Deliveries, InFlight(a, d)
  PROVE  /\ a = Live /\ d \notin Written => phase[a][d] = "sending"
         /\ d \notin Written => a = Live /\ d \notin stored
         /\ d \notin excused =>
              /\ Owned(d) /\ d \notin failedDir /\ d \notin twice
              /\ retryCount[d] <= MaxRetries + budgetHits
              /\ phase[a][d] \in {"sending", "failing"}
                   => retryCount[d] < MaxRetries + budgetHits
              /\ phase[a][d] = "writing" => read[a][d] < MaxRetries + budgetHits
              /\ phase[a][d] \notin {"acking", "unlinking"} => d \notin delivered
<1>1. a = Live /\ d \notin Written => phase[a][d] = "sending"
  BY DEF DInv, Untouched, InFlight, Calls
<1>2. d \notin Written => a = Live /\ d \notin stored
  BY ActorTypes DEF DInv, Untouched, Engaged
<1>3. ASSUME d \notin excused
      PROVE  /\ Owned(d) /\ d \notin failedDir /\ d \notin twice
             /\ retryCount[d] <= MaxRetries + budgetHits
             /\ phase[a][d] \in {"sending", "failing"}
                  => retryCount[d] < MaxRetries + budgetHits
             /\ phase[a][d] = "writing" => read[a][d] < MaxRetries + budgetHits
             /\ phase[a][d] \notin {"acking", "unlinking"} => d \notin delivered
  <2>1. Owned(d) /\ d \notin twice
    BY <1>3 DEF DInv, Owned
  <2>2. d \notin failedDir
    BY <2>1 DEF Owned, FailedIsOver, Engaged
  <2>3. d \in delivered => phase[a][d] \in {"acking", "unlinking"}
    BY <2>1 DEF Owned, SentIsAcked, InFlight, Calls
  <2> QED BY <2>1, <2>2, <2>3 DEF Owned, Limited
<1> QED BY <1>1, <1>2, <1>3

LEMMA SendKeeps ==
  ASSUME DInv, NEW a \in Actors, NEW d \in Deliveries,
         SendSucceeds(a, d) \/ SendThrows(a, d) \/ SendHidesErrors(a, d)
           \/ (a = Live /\ SendAborts(d))
  PROVE  DInv'
<1>1. phase[a][d] = "sending"
  BY DEF SendSucceeds, SendThrows, SendHidesErrors, SendAborts
<1>2. InFlight(a, d)
  BY <1>1 DEF InFlight, Calls
<1>3. PICK p \in {"acking", "failing", "moving", "over"} :
        /\ Enter(a, d, p)
        /\ p = "moving" => a # Live
        /\ a = Live /\ d \notin Written <=> p = "over"
        /\ SendSucceeds(a, d) => p \in {"acking", "over"}
  BY DEF SendSucceeds, SendThrows, SendHidesErrors, SendAborts, After, OnError
<1>4. /\ UNCHANGED <<up, disk, read, running, pending, bounds, excused>>
      /\ \/ delivered' = delivered /\ twice' = twice
         \/ /\ SendSucceeds(a, d)
            /\ delivered' = delivered \cup {d}
            /\ twice' = IF d \in delivered THEN twice \cup {d} ELSE twice
  BY DEF SendSucceeds, SendThrows, SendHidesErrors, SendAborts, outcome
<1>5. p \in Phases /\ p # "idle"
  BY DEF Phases
<1>6. phase' \in [Actors -> [Deliveries -> Phases]]
  BY <1>3, <1>5, EnterIsLocal DEF DInv, DQTypes
<1>7. DQTypes'
  BY <1>4, <1>6 DEF DInv, DQTypes, disk, bounds
<1>8. ASSUME d \notin excused' PROVE Owned(d)'
  <2>1. d \notin excused
    BY <1>4, <1>8
  <2>2. /\ Owned(d) /\ d \notin failedDir /\ d \notin twice /\ d \notin delivered
        /\ retryCount[d] < MaxRetries + budgetHits
    BY <1>1, <1>2, <2>1, CallFacts
  <2>3. d \notin twice' /\ d \notin failedDir'
    BY <1>4, <2>2 DEF disk
  <2>4. d \in stored' /\ d \in delivered' => p = "acking"
    BY <1>2, <1>3, <1>4, <2>2, CallFacts DEF disk
  <2>5. d \in delivered' => p \in {"acking", "over"}
    BY <1>3, <1>4, <2>2
  <2>6. budgetHits' >= budgetHits /\ retryCount'[d] < MaxRetries + budgetHits
        /\ retryCount'[d] <= MaxRetries + budgetHits
    BY <1>4, <2>2, MaxRetriesType DEF DInv, DQTypes, disk, bounds
  <2>7. UNCHANGED <<pending, read>> /\ DQTypes /\ p # "writing"
    BY <1>4 DEF DInv
  <2> QED BY <1>2, <1>3, <1>5, <1>7, <2>2, <2>3, <2>4, <2>5, <2>6, <2>7, OwnedStep
<1>9. /\ UNCHANGED <<up, order, running, pending, read, excused, stored, retryCount, failedDir>>
      /\ budgetHits' >= budgetHits
  BY <1>4 DEF disk, bounds, DInv, DQTypes
<1>10. \A e \in Deliveries : e # d =>
         /\ e \in delivered' => e \in delivered
         /\ e \in twice' => e \in twice
  BY <1>4
<1>11. d \in stored' => d \in Written
  BY <1>2, <1>9, CallFacts
<1> QED BY <1>2, <1>3, <1>5, <1>7, <1>8, <1>9, <1>10, <1>11, CallKeeps

\* A step changes the counts of d at most, and what a has read of it.
CountsOnly(d) ==
    /\ retryCount' \in [Deliveries -> Nat]
    /\ \A e \in Deliveries : e # d => retryCount'[e] = retryCount[e]

ReadsOnly(a, d) ==
    /\ read' \in [Actors -> [Deliveries -> Nat]]
    /\ \A b \in Actors, e \in Deliveries : b # a \/ e # d => read'[b][e] = read[b][e]

\* What an operation that ends in phase p has to respect.
Respects(a, d, p) ==
    d \notin excused' =>
      /\ p # "sending"
      /\ retryCount'[d] <= MaxRetries + budgetHits
      /\ p = "failing" => retryCount'[d] < MaxRetries + budgetHits
      /\ p = "writing" => read'[a][d] < MaxRetries + budgetHits
      /\ d \in delivered => /\ p \in {"idle", "acking", "unlinking", "over"}
                            /\ d \in stored' => p = "acking"
      /\ d \in failedDir' => d \notin stored' \cup delivered /\ p \notin Calls

LEMMA CountsAndReads ==
  ASSUME DQTypes, NEW a \in Actors, NEW d \in Deliveries, NEW n \in Nat
  PROVE  /\ UNCHANGED retryCount \/ retryCount' = [retryCount EXCEPT ![d] = n]
              => CountsOnly(d)
         /\ UNCHANGED read \/ read' = [read EXCEPT ![a][d] = n] => ReadsOnly(a, d)
         /\ retryCount' = [retryCount EXCEPT ![d] = n] => retryCount'[d] = n
         /\ read' = [read EXCEPT ![a][d] = n] => read'[a][d] = n
<1>1. UNCHANGED retryCount => CountsOnly(d)
  BY DEF DQTypes, CountsOnly
<1>2. ASSUME retryCount' = [retryCount EXCEPT ![d] = n]
      PROVE  CountsOnly(d) /\ retryCount'[d] = n
  BY <1>2 DEF DQTypes, CountsOnly
<1>3. UNCHANGED read => ReadsOnly(a, d)
  BY DEF DQTypes, ReadsOnly
<1>4. ASSUME read' = [read EXCEPT ![a][d] = n]
      PROVE  ReadsOnly(a, d) /\ read'[a][d] = n
  BY <1>4 DEF DQTypes, ReadsOnly
<1> QED BY <1>1, <1>2, <1>3, <1>4

\* A file operation of the actor that works on d.
LEMMA FileOpKeeps ==
  ASSUME DInv, NEW a \in Actors, NEW d \in Deliveries, NEW p \in Phases,
         InFlight(a, d), phase[a][d] # "sending", Enter(a, d, p), a = Live => p # "idle",
         UNCHANGED <<up, order, running, pending, delivered, twice, budgetHits>>,
         excused \subseteq excused',
         stored' \in {stored, stored \cup {d}, stored \ {d}},
         failedDir' \in {failedDir, failedDir \cup {d}}, marked' \subseteq Deliveries,
         CountsOnly(d), ReadsOnly(a, d), Respects(a, d, p)
  PROVE  DInv'
<1>1. DQTypes
  BY DEF DInv
<1>2. d \in Written
  BY CallFacts
<1>3. phase' \in [Actors -> [Deliveries -> Phases]]
  BY <1>1, EnterIsLocal DEF DQTypes
<1>4. DQTypes'
  BY <1>1, <1>3 DEF DQTypes, CountsOnly, ReadsOnly
<1>5. budgetHits' >= budgetHits
  BY <1>1 DEF DQTypes
<1>6. ASSUME d \notin excused' PROVE Owned(d)'
  <2>1. Owned(d) /\ d \notin twice'
    BY <1>6, CallFacts
  <2>2. \A b \in Actors : b # a => read'[b][d] = read[b][d]
    BY DEF ReadsOnly
  <2> QED BY <1>1, <1>4, <1>5, <1>6, <2>1, <2>2, OwnedStep DEF Respects
<1>7. \A e \in Deliveries : e # d =>
        /\ e \in stored' => e \in stored
        /\ retryCount'[e] = retryCount[e]
        /\ e \in failedDir' => e \in failedDir
  BY DEF CountsOnly
<1>8. UNCHANGED <<up, order, running, pending, delivered, twice>>
  OBVIOUS
<1>9. a = Live /\ d \notin Written => p = "over"
  BY <1>2
<1>10. \A b \in Actors, e \in Deliveries : b # a \/ e # d => read'[b][e] = read[b][e]
  BY DEF ReadsOnly
<1> QED BY <1>2, <1>4, <1>5, <1>6, <1>7, <1>8, <1>9, <1>10, CallKeeps

LEMMA AckKeeps ==
  ASSUME DInv, NEW a \in Actors, NEW d \in Deliveries, AckRenames(a, d) \/ AckUnlinks(a, d)
  PROVE  DInv'
<1>1. /\ DQTypes
      /\ phase[a][d] \in {"acking", "unlinking"} /\ phase[a][d] # "sending"
      /\ InFlight(a, d)
  BY DEF AckRenames, AckUnlinks, InFlight, Calls, DInv
<1>2. /\ UNCHANGED <<up, order, running, pending, delivered, twice, budgetHits, failedDir, read>>
      /\ excused \subseteq excused'
  BY DEF AckRenames, AckUnlinks, outcome, bounds, IoError
<1>3. marked' \subseteq Deliveries
  BY <1>1 DEF AckRenames, AckUnlinks, DQTypes
<1>4. d \notin excused => retryCount[d] <= MaxRetries + budgetHits /\ d \notin failedDir
  BY <1>1, CallFacts
<1>5. 0 \in Nat /\ 0 < MaxRetries + budgetHits /\ 0 <= MaxRetries + budgetHits
  BY <1>1, MaxRetriesType DEF DQTypes
<1>6. ReadsOnly(a, d)
  BY <1>1, <1>2, <1>5, CountsAndReads
<1>7. failedDir' \in {failedDir, failedDir \cup {d}}
  BY <1>2
<1>8. CASE d \in stored /\ stored' = stored \ {d} /\ Enter(a, d, "unlinking")
           /\ retryCount' = [retryCount EXCEPT ![d] = 0] /\ UNCHANGED excused
  <2>1. "unlinking" \in Phases
    BY DEF Phases
  <2>2. CountsOnly(d) /\ retryCount'[d] = 0
    BY <1>1, <1>5, <1>8, CountsAndReads
  <2>3. Respects(a, d, "unlinking")
    BY <1>2, <1>4, <1>5, <1>8, <2>2 DEF Respects
  <2>4. stored' \in {stored, stored \cup {d}, stored \ {d}}
    BY <1>8
  <2> QED BY <1>1, <1>2, <1>3, <1>6, <1>7, <1>8, <2>1, <2>2, <2>3, <2>4, FileOpKeeps
<1>9. CASE UNCHANGED <<stored, retryCount, excused>> /\ Enter(a, d, Done(a))
           /\ (phase[a][d] = "acking" => d \notin stored)
  <2>1. CountsOnly(d)
    BY <1>1, <1>5, <1>9, CountsAndReads
  <2>2. Done(a) \in {"idle", "over"} /\ Done(a) \in Phases /\ Done(a) \notin Calls
    BY ActorTypes DEF Done
  <2>3. d \in delivered /\ d \notin excused => d \notin stored
    <3>1. SUFFICES ASSUME d \in delivered, d \notin excused, d \in stored PROVE FALSE
      OBVIOUS
    <3>2. Owned(d)
      BY <3>1, <1>1, CallFacts
    <3>3. PICK b \in Actors : phase[b][d] = "acking"
      BY <3>1, <3>2 DEF Owned, SentIsAcked
    <3>4. b = a
      BY <3>2, <3>3, <1>1 DEF Owned, Solo, Engaged, InFlight, Calls
    <3> QED BY <1>9, <3>1, <3>3, <3>4
  <2>4. a = Live => Done(a) # "idle"
    BY DEF Done
  <2>5. Respects(a, d, Done(a))
    BY <1>2, <1>4, <1>9, <2>2, <2>3 DEF Respects
  <2>6. stored' \in {stored, stored \cup {d}, stored \ {d}}
    BY <1>9
  <2> QED BY <1>1, <1>2, <1>3, <1>6, <1>7, <1>9, <2>1, <2>2, <2>4, <2>5, <2>6, FileOpKeeps
<1>10. CASE d \in excused' /\ UNCHANGED <<stored, retryCount>>
            /\ Enter(a, d, IF a = Live THEN "over" ELSE "failing")
  <2> DEFINE p == IF a = Live THEN "over" ELSE "failing"
  <2>1. CountsOnly(d)
    BY <1>1, <1>5, <1>10, CountsAndReads
  <2>2. p \in Phases /\ (a = Live => p # "idle")
    BY DEF Phases
  <2>3. Enter(a, d, p)
    BY <1>10
  <2>4. Respects(a, d, p)
    BY <1>10 DEF Respects
  <2>5. stored' \in {stored, stored \cup {d}, stored \ {d}}
    BY <1>10
  <2> HIDE DEF p
  <2> QED BY <1>1, <1>2, <1>3, <1>6, <1>7, <2>1, <2>2, <2>3, <2>4, <2>5, FileOpKeeps
<1> QED BY <1>8, <1>9, <1>10 DEF AckRenames, AckUnlinks, FilesAfterRename, bounds

LEMMA FailAndMoveKeep ==
  ASSUME DInv, NEW a \in Actors, NEW d \in Deliveries,
         FailReads(a, d) \/ FailWrites(a, d) \/ MovesToFailed(a, d)
  PROVE  DInv'
<1>1. /\ DQTypes
      /\ phase[a][d] \in {"failing", "writing", "moving"} /\ phase[a][d] # "sending"
      /\ InFlight(a, d)
  BY DEF FailReads, FailWrites, MovesToFailed, InFlight, Calls, DInv
<1>2. /\ UNCHANGED <<up, order, running, pending, delivered, twice, budgetHits, excused, marked>>
      /\ excused \subseteq excused' /\ marked' \subseteq Deliveries
  BY <1>1 DEF FailReads, FailWrites, MovesToFailed, outcome, bounds, disk, IoError, DQTypes
<1>3. d \notin excused =>
        /\ d \notin failedDir /\ d \notin delivered
        /\ retryCount[d] <= MaxRetries + budgetHits
        /\ phase[a][d] = "failing" => retryCount[d] < MaxRetries + budgetHits
        /\ phase[a][d] = "writing" => read[a][d] < MaxRetries + budgetHits
  BY <1>1, CallFacts
<1>4. /\ 0 \in Nat /\ retryCount[d] \in Nat /\ read[a][d] \in Nat /\ budgetHits \in Nat
      /\ read[a][d] + 1 \in Nat
  BY <1>1 DEF DQTypes
<1>5. /\ Done(a) \in {"idle", "over"} /\ Done(a) \in Phases /\ Done(a) \notin Calls
      /\ "writing" \in Phases
      /\ a = Live => Done(a) # "idle"
  BY ActorTypes DEF Done, Phases
<1>6. CASE Enter(a, d, "writing") /\ read' = [read EXCEPT ![a][d] = retryCount[d]]
           /\ UNCHANGED <<stored, retryCount, failedDir>> /\ phase[a][d] = "failing"
  <2>1. ReadsOnly(a, d) /\ CountsOnly(d) /\ read'[a][d] = retryCount[d]
    BY <1>1, <1>4, <1>6, CountsAndReads
  <2>2. Respects(a, d, "writing")
    BY <1>2, <1>3, <1>6, <2>1 DEF Respects
  <2>3. stored' \in {stored, stored \cup {d}, stored \ {d}}
        /\ failedDir' \in {failedDir, failedDir \cup {d}}
    BY <1>6
  <2> QED BY <1>1, <1>2, <1>5, <1>6, <2>1, <2>2, <2>3, FileOpKeeps
<1>7. CASE Enter(a, d, Done(a)) /\ ReadsOnly(a, d)
           /\ UNCHANGED <<stored, retryCount, failedDir>>
  <2>1. CountsOnly(d)
    BY <1>1, <1>4, <1>7, CountsAndReads
  <2>2. Respects(a, d, Done(a))
    BY <1>2, <1>3, <1>5, <1>7, <2>1 DEF Respects
  <2>3. stored' \in {stored, stored \cup {d}, stored \ {d}}
        /\ failedDir' \in {failedDir, failedDir \cup {d}}
    BY <1>7
  <2> QED BY <1>1, <1>2, <1>5, <1>7, <2>1, <2>2, <2>3, FileOpKeeps
<1>8. CASE Enter(a, d, Done(a)) /\ read' = [read EXCEPT ![a][d] = 0]
           /\ stored' = stored \cup {d} /\ UNCHANGED failedDir /\ phase[a][d] = "writing"
           /\ retryCount' = [retryCount EXCEPT ![d] = read[a][d] + 1]
  <2>1. ReadsOnly(a, d) /\ CountsOnly(d) /\ retryCount'[d] = read[a][d] + 1
    BY <1>1, <1>4, <1>8, CountsAndReads
  <2>2. d \notin excused => retryCount'[d] <= MaxRetries + budgetHits
    BY <1>3, <1>4, <1>8, <2>1, MaxRetriesType
  <2>3. Respects(a, d, Done(a))
    BY <1>2, <1>3, <1>5, <1>8, <2>2 DEF Respects
  <2>4. stored' \in {stored, stored \cup {d}, stored \ {d}}
        /\ failedDir' \in {failedDir, failedDir \cup {d}}
    BY <1>8
  <2> QED BY <1>1, <1>2, <1>5, <1>8, <2>1, <2>3, <2>4, FileOpKeeps
<1>9. CASE Enter(a, d, Done(a)) /\ UNCHANGED read
           /\ stored' = stored \ {d} /\ failedDir' = failedDir \cup {d}
           /\ retryCount' = [retryCount EXCEPT ![d] = 0]
  <2>1. ReadsOnly(a, d) /\ CountsOnly(d) /\ retryCount'[d] = 0
    BY <1>1, <1>4, <1>9, CountsAndReads
  <2>2. 0 <= MaxRetries + budgetHits
    BY <1>4, MaxRetriesType
  <2>3. Respects(a, d, Done(a))
    BY <1>2, <1>3, <1>5, <1>9, <2>1, <2>2 DEF Respects
  <2>4. stored' \in {stored, stored \cup {d}, stored \ {d}}
        /\ failedDir' \in {failedDir, failedDir \cup {d}}
    BY <1>9
  <2> QED BY <1>1, <1>2, <1>5, <1>9, <2>1, <2>3, <2>4, FileOpKeeps
<1>10. CASE FailReads(a, d)
  <2>1. UNCHANGED <<stored, retryCount, failedDir>> /\ phase[a][d] = "failing"
    BY <1>10 DEF FailReads, disk
  <2>2. UNCHANGED read => ReadsOnly(a, d)
    BY <1>1, <1>4, CountsAndReads
  <2> QED BY <1>6, <1>7, <1>10, <2>1, <2>2 DEF FailReads
<1>11. CASE FailWrites(a, d)
  <2>1. ReadsOnly(a, d)
    BY <1>1, <1>4, <1>11, CountsAndReads DEF FailWrites
  <2> QED BY <1>7, <1>8, <1>11, <2>1 DEF FailWrites, Counted
<1>12. CASE MovesToFailed(a, d)
  <2>1. UNCHANGED read
    BY <1>12 DEF MovesToFailed
  <2>2. ReadsOnly(a, d)
    BY <1>1, <1>4, <2>1, CountsAndReads
  <2> QED BY <1>7, <1>9, <1>12, <2>1, <2>2 DEF MovesToFailed, FilesAfterMove
<1> QED BY <1>10, <1>11, <1>12

-----------------------------------------------------------------------------
(* The other steps. *)

LEMMA EnqueueKeeps ==
  ASSUME DInv, NEW d \in Deliveries, Enqueue(d)
  PROVE  DInv'
<1> USE DEF DInv
<1>1. /\ phase[Live][d] = "idle" /\ Enter(Live, d, "sending")
      /\ UNCHANGED <<up, marked, failedDir, read, running, pending, delivered, twice,
                     budgetHits, excused>>
  BY DEF Enqueue, outcome, bounds, IoError
<1>2. /\ \/ stored' = stored \cup {d} /\ order' = Append(order, d)
         \/ stored' = stored /\ order' = order
      /\ retryCount' = retryCount \/ retryCount' = [retryCount EXCEPT ![d] = 0]
  BY DEF Enqueue
<1>3. /\ d \notin Written \cup delivered \cup failedDir \cup stored
      /\ retryCount[d] = 0
      /\ \A r \in Recoveries : ~Engaged(r, d)
  BY <1>1 DEF Untouched
<1>4. "sending" \in Phases /\ Live \in Actors
  BY ActorTypes DEF Phases
<1>5. /\ phase' \in [Actors -> [Deliveries -> Phases]]
      /\ phase'[Live][d] = "sending"
      /\ \A b \in Actors, e \in Deliveries :
           b # Live \/ e # d => phase'[b][e] = phase[b][e]
  BY <1>1, <1>4, EnterIsLocal DEF DQTypes
<1>6. retryCount' \in [Deliveries -> Nat] /\ retryCount'[d] = 0
        /\ \A e \in Deliveries : e # d => retryCount'[e] = retryCount[e]
  BY <1>2, <1>3 DEF DQTypes
<1>7. order' \in Seq(Deliveries) /\ OrderDistinct'
      /\ (Written' = Written \/ (Written' = Written \cup {d}))
      /\ (d \in stored' => d \in Written')
  <2>1. CASE order' = order /\ stored' = stored
    BY <1>3, <2>1 DEF OrderDistinct, Written, Elems, DQTypes
  <2>2. CASE order' = Append(order, d)
    <3>1. /\ order \in Seq(Deliveries) /\ Len(order) \in Nat
          /\ DOMAIN order = 1..Len(order)
      BY LenProperties DEF DQTypes
    <3>2. /\ order' \in Seq(Deliveries) /\ Len(order') = Len(order) + 1
          /\ \A i \in 1..Len(order) : order'[i] = order[i]
          /\ order'[Len(order) + 1] = d
      BY <2>2, <3>1, AppendProperties
    <3>3. DOMAIN order' = 1..(Len(order) + 1)
      BY <3>2, LenProperties
    <3>4. \A i \in 1..(Len(order) + 1) : i \in 1..Len(order) \/ i = Len(order) + 1
      BY <3>1
    <3>5. \A i \in 1..Len(order) : order[i] # d
      BY <1>3, <3>1 DEF Written, Elems
    <3>6. OrderDistinct'
      BY <3>1, <3>2, <3>3, <3>4, <3>5 DEF OrderDistinct
    <3>7. 1..Len(order) \subseteq 1..(Len(order) + 1) /\ Len(order) + 1 \in 1..(Len(order) + 1)
      BY <3>1
    <3>8. Written' = Written \cup {d}
      BY <3>1, <3>2, <3>3, <3>4, <3>7 DEF Written, Elems
    <3> QED BY <3>2, <3>6, <3>8
  <2> QED BY <1>2, <2>1, <2>2
<1>8. DQTypes'
  BY <1>1, <1>2, <1>5, <1>6, <1>7 DEF DQTypes
<1>9. PendingDistinct' /\ Down' /\ \A r \in Recoveries : PendingIds(r)' = PendingIds(r)
  BY <1>1 DEF PendingDistinct, Down, PendingIds
<1>10. \A r \in Recoveries, e \in Deliveries :
          (InFlight(r, e)' <=> InFlight(r, e)) /\ (Engaged(r, e)' <=> Engaged(r, e))
  BY <1>5, <1>9, ActorTypes DEF InFlight, Engaged
<1>11. ASSUME NEW e \in Deliveries PROVE Untouched(e)'
  <2>1. CASE e = d
    BY <1>3, <1>5, <1>6, <1>7, <1>10, <2>1 DEF Untouched
  <2>2. CASE e # d
    <3>1. phase'[Live][e] = phase[Live][e] /\ retryCount'[e] = retryCount[e]
          /\ (e \in stored' <=> e \in stored) /\ (e \in Written' <=> e \in Written)
      BY <1>2, <1>4, <1>5, <1>6, <1>7, <2>2
    <3> QED BY <1>1, <1>10, <3>1 DEF Untouched
  <2> QED BY <2>1, <2>2
<1>12. \A r \in Recoveries : AtRest(r)'
  BY <1>1, <1>10 DEF AtRest
<1>13. ASSUME NEW e \in Deliveries, e \notin excused' PROVE Owned(e)'
  <2>1. Owned(e)
    BY <1>1, <1>13
  <2>2. CASE e # d
    <3>1. \A b \in Actors : phase'[b][e] = phase[b][e] /\ read'[b][e] = read[b][e]
      BY <1>1, <1>5, <2>2
    <3>2. /\ retryCount'[e] = retryCount[e] /\ (e \in stored' => e \in stored)
          /\ budgetHits' \in Nat /\ budgetHits' >= budgetHits
      BY <1>1, <1>2, <1>6, <2>2 DEF DQTypes
    <3> QED BY <1>1, <2>1, <3>1, <3>2, OwnedFrame
  <2>3. CASE e = d
    <3>1. \A r \in Recoveries : d \notin PendingIds(r)' /\ phase'[r][d] \in {"idle", "over"}
      BY <1>3, <1>5, <1>9, <1>10, ActorTypes DEF Engaged, InFlight, Calls, Phases
    <3>2. \A a \in Actors : Engaged(a, d)' => a = Live
      BY <1>3, <1>10, ActorTypes
    <3>3. Solo(d)' /\ Remembered(d)'
      BY <3>1, <3>2 DEF Solo, Remembered, PendingIds
    <3>4. d \notin delivered' /\ d \notin failedDir' /\ d \notin twice'
      BY <1>1, <1>3, <2>1, <2>3 DEF Owned
    <3>5. SentIsAcked(d)' /\ FailedIsOver(d)'
      BY <3>4 DEF SentIsAcked, FailedIsOver
    <3>6. budgetHits' \in Nat
      BY <1>8 DEF DQTypes
    <3>7. 0 <= MaxRetries + budgetHits' /\ 0 < MaxRetries + budgetHits'
      BY <3>6, LimitPositive
    <3>8. \A a \in Actors : phase'[a][d] \in {"idle", "over", "sending"}
      BY <1>5, <3>1, ActorTypes
    <3>9. Limited(d)'
      BY <1>6, <3>7, <3>8 DEF Limited
    <3> QED BY <2>3, <3>3, <3>4, <3>5, <3>9 DEF Owned
  <2> QED BY <2>2, <2>3
<1> QED BY <1>7, <1>8, <1>9, <1>11, <1>12, <1>13

\* A step of a recovery leaves the files alone: an entry that nobody newly works on
\* has not been touched if it was not before.
LEMMA UntouchedFrame ==
  ASSUME NEW d \in Deliveries, Untouched(d), phase'[Live][d] = phase[Live][d],
         UNCHANGED <<order, delivered, failedDir, stored, retryCount>>,
         \A r \in Recoveries : d \notin Written => ~Engaged(r, d)'
  PROVE  Untouched(d)'
BY DEF Untouched, Written, Elems

\* The first of the entries that a recovery has loaded.
LEMMA HeadFacts ==
  ASSUME DInv, NEW r \in Recoveries, NEW d \in Deliveries, Reaches(r, d)
  PROVE  /\ UNCHANGED <<up, stored, retryCount, marked, failedDir, order, read, budgetHits,
                        delivered, twice, excused>>
         /\ pending' \in [Recoveries -> Seq([id : Deliveries, retryCount : Nat])]
         /\ running' \in [Recoveries -> {"off", "loading", "loaded", "begun"}]
         /\ running'[r] = "begun" /\ \A q \in Recoveries : q # r => running'[q] = running[q]
         /\ \A q \in Recoveries : q # r => pending'[q] = pending[q]
         /\ \A q \in Recoveries : \A i \in DOMAIN pending'[q] :
              \E j \in DOMAIN pending[q] : pending'[q][i] = pending[q][j]
         /\ PendingDistinct'
         /\ d \in PendingIds(r) /\ d \notin PendingIds(r)'
         /\ ~InFlight(r, d)
         /\ Remembered(d) => Head(pending[r]).retryCount = retryCount[d]
<1> DEFINE h == pending[r]
<1>1. /\ DQTypes /\ PendingDistinct
      /\ h # <<>> /\ Head(h).id = d /\ ~InFlight(r, d)
      /\ pending' = [pending EXCEPT ![r] = Tail(h)]
      /\ running' = [running EXCEPT ![r] = "begun"]
      /\ UNCHANGED <<up, stored, retryCount, marked, failedDir, order, read, budgetHits,
                     delivered, twice, excused>>
  BY DEF DInv, Reaches, Between, disk, bounds, outcome
<1>2. h \in Seq([id : Deliveries, retryCount : Nat])
  BY <1>1 DEF DQTypes
<1>3. /\ Len(h) \in Nat /\ Len(h) > 0 /\ DOMAIN h = 1..Len(h)
      /\ Tail(h) \in Seq([id : Deliveries, retryCount : Nat])
      /\ Len(Tail(h)) = Len(h) - 1 /\ DOMAIN Tail(h) = 1..(Len(h) - 1)
      /\ \A i \in 1..(Len(h) - 1) : Tail(h)[i] = h[i + 1]
      /\ Head(h) = h[1]
  <2> HIDE DEF h
  <2>1. Len(h) \in Nat \ {0} /\ DOMAIN h = 1..Len(h)
    BY <1>1, <1>2, EmptySeq, LenProperties
  <2>2. /\ Tail(h) \in Seq([id : Deliveries, retryCount : Nat])
        /\ Len(Tail(h)) = Len(h) - 1
        /\ \A i \in 1..Len(Tail(h)) : Tail(h)[i] = h[i + 1]
    BY <1>1, <1>2, HeadTailProperties
  <2>3. DOMAIN Tail(h) = 1..Len(Tail(h))
    BY <2>2, LenProperties
  <2>4. Head(h) = h[1]
    BY <1>1, <1>2
  <2> QED BY <2>1, <2>2, <2>3, <2>4
<1>4. \A i \in 1..(Len(h) - 1) : i + 1 \in 1..Len(h) /\ i + 1 # 1
  BY <1>3
<1>5. /\ pending'[r] = Tail(h)
      /\ \A q \in Recoveries : q # r => pending'[q] = pending[q]
      /\ pending' \in [Recoveries -> Seq([id : Deliveries, retryCount : Nat])]
  BY <1>1, <1>3 DEF DQTypes
<1>6. /\ running'[r] = "begun" /\ \A q \in Recoveries : q # r => running'[q] = running[q]
      /\ running' \in [Recoveries -> {"off", "loading", "loaded", "begun"}]
  BY <1>1 DEF DQTypes
<1>7. \A i, j \in DOMAIN h : h[i].id = h[j].id => i = j
  BY <1>1 DEF PendingDistinct
<1>8. 1 \in DOMAIN h /\ h[1].id = d
  BY <1>1, <1>3
<1>9. d \in PendingIds(r)
  BY <1>8 DEF PendingIds
<1>10. ASSUME NEW i \in DOMAIN Tail(h)
       PROVE  i + 1 \in DOMAIN h /\ Tail(h)[i] = h[i + 1] /\ h[i + 1].id # d
  BY <1>3, <1>4, <1>7, <1>8
<1>11. d \notin PendingIds(r)'
  BY <1>5, <1>10 DEF PendingIds
<1>12. \A q \in Recoveries : \A i \in DOMAIN pending'[q] :
         \E j \in DOMAIN pending[q] : pending'[q][i] = pending[q][j]
  <2> SUFFICES ASSUME NEW q \in Recoveries, NEW i \in DOMAIN pending'[q]
               PROVE  \E j \in DOMAIN pending[q] : pending'[q][i] = pending[q][j]
    OBVIOUS
  <2>1. CASE q = r
    BY <1>5, <1>10, <2>1
  <2>2. CASE q # r
    BY <1>5, <2>2
  <2> QED BY <2>1, <2>2
<1>13. PendingDistinct'
  <2> SUFFICES ASSUME NEW q \in Recoveries, NEW i \in DOMAIN pending'[q],
                      NEW j \in DOMAIN pending'[q], pending'[q][i].id = pending'[q][j].id
               PROVE  i = j
    BY DEF PendingDistinct
  <2>1. CASE q = r
    <3>1. /\ i \in DOMAIN Tail(h) /\ j \in DOMAIN Tail(h)
          /\ Tail(h)[i].id = Tail(h)[j].id
      BY <1>5, <2>1
    <3> HIDE DEF h
    <3>2. i + 1 \in DOMAIN h /\ j + 1 \in DOMAIN h /\ h[i + 1].id = h[j + 1].id
      BY <3>1, <1>10
    <3>3. i + 1 = j + 1
      BY <3>2, <1>7
    <3>4. i \in Int /\ j \in Int
      BY <3>1, <1>3
    <3> QED BY <3>3, <3>4
  <2>2. CASE q # r
    BY <1>1, <1>5, <2>2 DEF PendingDistinct
  <2> QED BY <2>1, <2>2
<1>14. Remembered(d) => Head(pending[r]).retryCount = retryCount[d]
  BY <1>3, <1>8 DEF Remembered
<1> QED BY <1>1, <1>5, <1>6, <1>9, <1>11, <1>12, <1>13, <1>14

\* A recovery takes its next entry and enters p, or defers the entry.
LEMMA ReachKeeps ==
  ASSUME DInv, NEW r \in Recoveries, NEW d \in Deliveries,
         GivesUp(r, d) \/ Retries(r, d) \/ Defers(r, d)
  PROVE  DInv'
<1>1. Reaches(r, d) /\ r \in Actors /\ r # Live
  BY ActorTypes DEF GivesUp, Retries, Defers
<1>2. PICK p \in {"moving", "sending", phase[r][d]} :
        /\ phase' = [phase EXCEPT ![r][d] = p]
        /\ p = "sending" => Head(pending[r]).retryCount < MaxRetries
  <2>1. CASE GivesUp(r, d)
    BY <2>1 DEF GivesUp, Enter
  <2>2. CASE Retries(r, d)
    <3>1. Head(pending[r]).retryCount < MaxRetries
      <4>1. Head(pending[r]).retryCount \in Nat
        <5>1. pending[r] \in Seq([id : Deliveries, retryCount : Nat]) /\ pending[r] # <<>>
          BY <1>1 DEF Reaches, DInv, DQTypes
        <5>2. Head(pending[r]) \in [id : Deliveries, retryCount : Nat]
          BY <5>1, HeadTailProperties
        <5> QED BY <5>2
      <4> QED BY <2>2, <4>1, MaxRetriesType DEF Retries, Exhausted
    <3> QED BY <2>2, <3>1 DEF Retries, Enter
  <2>3. CASE Defers(r, d)
    <3>1. phase' = [phase EXCEPT ![r][d] = phase[r][d]]
      BY <1>1, <2>3 DEF Defers, DInv, DQTypes
    <3>2. phase[r][d] # "sending"
      BY <1>1 DEF Reaches, Between, InFlight, Calls
    <3> QED BY <3>1, <3>2
  <2> QED BY <2>1, <2>2, <2>3
<1>3. DQTypes
  BY DEF DInv
<1>4. p \in Phases
  <2>1. phase[r][d] \in Phases
    BY <1>1, <1>3 DEF DQTypes
  <2>2. "moving" \in Phases /\ "sending" \in Phases
    BY DEF Phases
  <2> QED BY <2>1, <2>2
<1>5. /\ phase' \in [Actors -> [Deliveries -> Phases]]
      /\ phase'[r][d] = p
      /\ \A b \in Actors, e \in Deliveries : b # r \/ e # d => phase'[b][e] = phase[b][e]
  BY <1>1, <1>2, <1>3, <1>4 DEF DQTypes
<1>6. /\ UNCHANGED <<up, stored, retryCount, marked, failedDir, order, read, budgetHits,
                     delivered, twice, excused>>
      /\ d \in PendingIds(r) /\ d \notin PendingIds(r)' /\ ~InFlight(r, d)
      /\ PendingDistinct'
      /\ \A q \in Recoveries : \A i \in DOMAIN pending'[q] :
           \E j \in DOMAIN pending[q] : pending'[q][i] = pending[q][j]
  BY <1>1, HeadFacts
<1>7. DQTypes'
  BY <1>1, <1>3, <1>5, <1>6, HeadFacts DEF DQTypes
<1>8. \A q \in Recoveries, e \in Deliveries : e \in PendingIds(q)' => e \in PendingIds(q)
  BY <1>6 DEF PendingIds
<1>9. \A b \in Actors, e \in Deliveries : b # r \/ e # d =>
        (InFlight(b, e)' <=> InFlight(b, e))
  BY <1>5 DEF InFlight
<1>10. Engaged(r, d)
  BY <1>6 DEF Engaged
<1>11. \A b \in Actors, e \in Deliveries : Engaged(b, e)' => Engaged(b, e)
  BY <1>8, <1>9, <1>10 DEF Engaged
<1>12. OrderDistinct' /\ Down'
  <2>1. running[r] # "off" /\ up' = up
    BY <1>1, <1>6 DEF Reaches
  <2>2. up
    BY <2>1 DEF DInv, Down
  <2> QED BY <1>6, <2>1, <2>2 DEF DInv, OrderDistinct, Down
<1>13. ASSUME NEW e \in Deliveries PROVE Untouched(e)'
  <2>1. Untouched(e)
    BY DEF DInv
  <2>2. phase'[Live][e] = phase[Live][e]
    BY <1>1, <1>5, ActorTypes
  <2>3. \A q \in Recoveries : e \notin Written => ~Engaged(q, e)'
    BY <1>11, <2>1, ActorTypes DEF Untouched
  <2> QED BY <1>6, <2>1, <2>2, <2>3, UntouchedFrame
<1>14. ASSUME NEW q \in Recoveries PROVE AtRest(q)'
  <2>1. CASE q = r
    BY <1>1, <2>1, HeadFacts DEF AtRest
  <2>2. CASE q # r
    BY <1>1, <1>9, <2>2, HeadFacts, ActorTypes DEF AtRest, DInv
  <2> QED BY <2>1, <2>2
<1>15. ASSUME NEW e \in Deliveries, e \notin excused' PROVE Owned(e)'
  <2>1. Owned(e)
    BY <1>6, <1>15 DEF DInv
  <2>2. CASE e # d
    <3>1. \A b \in Actors : phase'[b][e] = phase[b][e] /\ read'[b][e] = read[b][e]
      BY <1>5, <1>6, <2>2
    <3>2. budgetHits' \in Nat /\ budgetHits' >= budgetHits
      BY <1>3, <1>6 DEF DQTypes
    <3> QED BY <1>3, <1>6, <2>1, <3>1, <3>2, OwnedFrame
  <2>3. CASE e = d
    <3>1. \A b \in Actors : b # r => ~Engaged(b, d)' /\ phase'[b][d] \in {"idle", "over"}
      <4> SUFFICES ASSUME NEW b \in Actors, b # r
                   PROVE  ~Engaged(b, d)' /\ phase'[b][d] \in {"idle", "over"}
        OBVIOUS
      <4>1. ~Engaged(b, d)
        BY <1>1, <1>10, <2>1, <2>3 DEF Owned, Solo
      <4>2. ~Engaged(b, d)'
        BY <1>11, <4>1
      <4>3. ~InFlight(b, d)'
        BY <4>2 DEF Engaged
      <4> QED BY <4>2, <4>3, <1>5 DEF InFlight, Calls, Phases
    <3>2. Solo(d)'
      BY <1>6, <3>1, ActorTypes DEF Solo, Engaged
    <3>3. Remembered(d)'
      BY <1>6, <2>1, <2>3 DEF Remembered, Owned
    <3>4. d \notin delivered' /\ d \notin failedDir' /\ d \notin twice'
      BY <1>1, <1>6, <1>10, <2>1, <2>3 DEF Owned, SentIsAcked, FailedIsOver
    <3>5. SentIsAcked(d)' /\ FailedIsOver(d)'
      BY <3>4 DEF SentIsAcked, FailedIsOver
    <3>6. p = "sending" => retryCount[d] < MaxRetries + budgetHits
      <4>1. Remembered(d)
        BY <2>1, <2>3 DEF Owned
      <4>2. Head(pending[r]).retryCount = retryCount[d]
        BY <1>1, <4>1, HeadFacts
      <4>3. retryCount[d] \in Nat /\ budgetHits \in Nat
        BY <1>3 DEF DQTypes
      <4> QED BY <1>2, <4>2, <4>3, MaxRetriesType
    <3>7. p \notin {"failing", "writing"}
      BY <1>2, <1>6 DEF InFlight, Calls
    <3>8. Limited(d)'
      BY <1>5, <1>6, <2>1, <2>3, <3>1, <3>6, <3>7 DEF Limited, Owned
    <3> QED BY <2>3, <3>2, <3>3, <3>4, <3>5, <3>8 DEF Owned
  <2> QED BY <2>2, <2>3
<1> QED BY <1>6, <1>7, <1>12, <1>13, <1>14, <1>15 DEF DInv

\* A scan lists each of its entries once.
LEMMA SortedFacts ==
  ASSUME order \in Seq(Deliveries), OrderDistinct,
         NEW S \in SUBSET Deliveries, NEW ids \in Sorted(S)
  PROVE  /\ ids \in [1..Cardinality(S) -> S] /\ Cardinality(S) \in Nat
         /\ \A i, j \in 1..Cardinality(S) : ids[i] = ids[j] => i = j
<1>1. Cardinality(S) \in Nat
  BY DeliveryAssumption, FS_Subset, FS_CardinalityType
<1>2. ids \in [1..Cardinality(S) -> S]
  BY DEF Sorted
<1>3. ASSUME NEW i \in 1..Cardinality(S), NEW j \in 1..Cardinality(S), i < j, ids[i] = ids[j]
      PROVE  FALSE
  <2>1. Earlier(ids[i], ids[j])
    BY <1>3 DEF Sorted
  <2>2. PICK k, l \in DOMAIN order : k < l /\ order[k] = ids[i] /\ order[l] = ids[j]
    BY <2>1 DEF Earlier
  <2>3. k = l /\ k \in Int
    BY <1>3, <2>2 DEF OrderDistinct
  <2> QED BY <2>2, <2>3
<1>4. \A i, j \in 1..Cardinality(S) : i = j \/ i < j \/ j < i
  BY <1>1
<1> QED BY <1>1, <1>2, <1>3, <1>4

LEMMA LoadKeeps ==
  ASSUME DInv, NEW r \in Recoveries, Load(r)
  PROVE  DInv'
<1>1. /\ DQTypes /\ OrderDistinct /\ running[r] = "loading"
      /\ running' = [running EXCEPT ![r] = "loaded"] /\ marked' = {}
      /\ UNCHANGED <<up, stored, retryCount, failedDir, order, phase, read, budgetHits,
                     delivered, twice>>
  BY DEF Load, DInv, bounds, IoError, outcome
<1>a. PICK skipped \in SUBSET stored :
        \E ids \in Sorted(stored \ skipped) :
          /\ pending' = [pending EXCEPT ![r] =
                           [i \in DOMAIN ids |->
                              [id |-> ids[i], retryCount |-> retryCount[ids[i]]]]]
          /\ excused' = excused \cup {d \in stored \ skipped : Contended(r, d)}
  BY DEF Load
<1>2. PICK ids \in Sorted(stored \ skipped) :
        /\ pending' = [pending EXCEPT ![r] =
                         [i \in DOMAIN ids |->
                            [id |-> ids[i], retryCount |-> retryCount[ids[i]]]]]
        /\ excused' = excused \cup {d \in stored \ skipped : Contended(r, d)}
  BY <1>a
<1> DEFINE S == stored \ skipped
           n == Cardinality(S)
           loaded == [i \in DOMAIN ids |-> [id |-> ids[i], retryCount |-> retryCount[ids[i]]]]
<1>3. /\ S \in SUBSET Deliveries /\ n \in Nat /\ ids \in [1..n -> S]
      /\ \A i, j \in 1..n : ids[i] = ids[j] => i = j
  BY <1>1, SortedFacts DEF DQTypes
<1> HIDE DEF S, n
<1>4. /\ loaded \in [1..n -> [id : Deliveries, retryCount : Nat]]
      /\ \A i \in 1..n : loaded[i].id = ids[i] /\ loaded[i].retryCount = retryCount[ids[i]]
  BY <1>1, <1>3 DEF DQTypes
<1>5. loaded \in Seq([id : Deliveries, retryCount : Nat])
  BY <1>3, <1>4, SeqDef
<1>6. /\ pending'[r] = loaded
      /\ \A q \in Recoveries : q # r => pending'[q] = pending[q]
      /\ pending' \in [Recoveries -> Seq([id : Deliveries, retryCount : Nat])]
  BY <1>1, <1>2, <1>5 DEF DQTypes
<1>7. /\ running'[r] = "loaded" /\ \A q \in Recoveries : q # r => running'[q] = running[q]
      /\ running' \in [Recoveries -> {"off", "loading", "loaded", "begun"}]
  BY <1>1 DEF DQTypes
<1>b. DOMAIN loaded = 1..n
  BY <1>4
<1> HIDE DEF loaded
<1>8. DQTypes'
  <2>1. marked' \subseteq Deliveries
    BY <1>1
  <2>2. UNCHANGED <<up, stored, retryCount, failedDir, order, phase, read, budgetHits, twice>>
    BY <1>1
  <2>3. /\ pending' \in [Recoveries -> Seq([id : Deliveries, retryCount : Nat])]
        /\ running' \in [Recoveries -> {"off", "loading", "loaded", "begun"}]
    BY <1>6, <1>7
  <2> QED BY <1>1, <2>1, <2>2, <2>3 DEF DQTypes
<1>9. PendingDistinct' /\ OrderDistinct' /\ Down'
  <2>1. PendingDistinct'
    <3> SUFFICES ASSUME NEW q \in Recoveries, NEW i \in DOMAIN pending'[q],
                        NEW j \in DOMAIN pending'[q], pending'[q][i].id = pending'[q][j].id
                 PROVE  i = j
      BY DEF PendingDistinct
    <3>1. CASE q = r
      <4>1. i \in 1..n /\ j \in 1..n /\ loaded[i].id = loaded[j].id
        BY <1>6, <1>b, <3>1
      <4>2. ids[i] = ids[j]
        BY <1>4, <4>1
      <4> QED BY <1>3, <4>1, <4>2
    <3>2. CASE q # r
      <4>1. pending'[q] = pending[q] /\ PendingDistinct
        BY <1>6, <3>2 DEF DInv
      <4> QED BY <4>1 DEF PendingDistinct
    <3> QED BY <3>1, <3>2
  <2>2. up
    BY <1>1 DEF DInv, Down
  <2> QED BY <1>1, <2>1, <2>2 DEF OrderDistinct, Down
<1>10. /\ \A e \in PendingIds(r)' : e \in S
       /\ \A q \in Recoveries : q # r => PendingIds(q)' = PendingIds(q)
  BY <1>3, <1>4, <1>6 DEF PendingIds
<1>11. /\ pending[r] = <<>> /\ PendingIds(r) = {}
       /\ \A e \in Deliveries : ~InFlight(r, e)
  BY <1>1 DEF DInv, AtRest, PendingIds
<1>12. \A a \in Actors, e \in Deliveries : InFlight(a, e)' <=> InFlight(a, e)
  BY <1>1 DEF InFlight
<1>13. ASSUME NEW e \in Deliveries PROVE Untouched(e)'
  <2>1. Untouched(e)
    BY DEF DInv
  <2>2. ASSUME NEW q \in Recoveries, e \notin Written PROVE ~Engaged(q, e)'
    <3>1. ~Engaged(q, e) /\ e \notin S
      BY <2>1, <2>2 DEF Untouched, S
    <3> QED BY <1>10, <1>12, <3>1, ActorTypes DEF Engaged
  <2> QED BY <1>1, <2>1, <2>2, UntouchedFrame
<1>14. ASSUME NEW q \in Recoveries PROVE AtRest(q)'
  <2>1. CASE q = r
    BY <1>7, <2>1 DEF AtRest
  <2>2. CASE q # r
    BY <1>6, <1>7, <1>12, <2>2, ActorTypes DEF AtRest, DInv
  <2> QED BY <2>1, <2>2
<1>15. ASSUME NEW e \in Deliveries, e \notin excused' PROVE Owned(e)'
  <2>1. e \notin excused /\ Owned(e)
    BY <1>2, <1>15 DEF DInv
  <2>2. CASE e \notin PendingIds(r)'
    <3>1. \A q \in Recoveries : \A i \in DOMAIN pending'[q] :
            pending'[q][i].id = e => \E j \in DOMAIN pending[q] : pending'[q][i] = pending[q][j]
      BY <1>6, <2>2 DEF PendingIds
    <3>2. budgetHits' \in Nat /\ budgetHits' >= budgetHits
      BY <1>1 DEF DQTypes
    <3> QED BY <1>1, <2>1, <3>1, <3>2, OwnedFrame
  <2>3. CASE e \in PendingIds(r)'
    <3>1. e \in S /\ e \in stored
      BY <1>10, <2>3 DEF S
    <3>2. ~Contended(r, e)
      BY <1>2, <1>15, <3>1 DEF S
    <3>3. /\ \A a \in Actors : ~InFlight(a, e)
          /\ \A q \in Recoveries : q # r => e \notin PendingIds(q)
      BY <3>2 DEF Contended
    <3>4. /\ \A a \in Actors : ~InFlight(a, e)'
          /\ \A a \in Actors : Engaged(a, e)' => a = r
      BY <1>10, <1>12, <3>3 DEF Engaged
    <3>5. Solo(e)'
      BY <3>4, ActorTypes DEF Solo
    <3>6. Remembered(e)'
      <4> SUFFICES ASSUME NEW q \in Recoveries, NEW i \in DOMAIN pending'[q],
                          pending'[q][i].id = e
                   PROVE  pending'[q][i].retryCount = retryCount[e]
        BY <1>1 DEF Remembered
      <4>1. CASE q = r
        BY <1>4, <1>6, <4>1
      <4>2. CASE q # r
        BY <1>10, <3>3, <4>2 DEF PendingIds
      <4> QED BY <4>1, <4>2
    <3>7. Limited(e)'
      BY <1>1, <2>1 DEF Owned, Limited
    <3>8. e \notin delivered
      BY <2>1, <3>1, <3>3 DEF Owned, SentIsAcked, InFlight, Calls
    <3>9. e \notin failedDir /\ e \notin twice
      BY <2>1, <3>1 DEF Owned, FailedIsOver
    <3>10. SentIsAcked(e)' /\ FailedIsOver(e)' /\ e \notin twice'
      BY <1>1, <3>8, <3>9 DEF SentIsAcked, FailedIsOver
    <3> QED BY <3>5, <3>6, <3>7, <3>10 DEF Owned
  <2> QED BY <2>2, <2>3
<1> QED BY <1>8, <1>9, <1>13, <1>14, <1>15 DEF DInv

\* A recovery that is out of time fails what it has not taken yet.
LEMMA BudgetKeeps ==
  ASSUME DInv, NEW r \in Recoveries, BudgetExceeded(r)
  PROVE  DInv'
<1>1. /\ DQTypes /\ running[r] = "begun" /\ r \in Actors /\ r # Live
      /\ \A e \in Deliveries : ~InFlight(r, e)
      /\ budgetHits' = budgetHits + 1
      /\ pending' = [pending EXCEPT ![r] = <<>>]
      /\ UNCHANGED <<up, stored, retryCount, marked, failedDir, order, read, running,
                     delivered, twice, excused>>
  BY ActorTypes DEF BudgetExceeded, DInv, Between, disk, outcome
<1>2. phase' = [phase EXCEPT ![r] =
                  [e \in Deliveries |-> IF e \in PendingIds(r) THEN "failing" ELSE @[e]]]
  BY DEF BudgetExceeded
<1>3. /\ phase' \in [Actors -> [Deliveries -> Phases]]
      /\ \A e \in PendingIds(r) \cap Deliveries : phase'[r][e] = "failing"
      /\ \A b \in Actors, e \in Deliveries :
           b # r \/ e \notin PendingIds(r) => phase'[b][e] = phase[b][e]
  BY <1>1, <1>2 DEF DQTypes, Phases
<1>4. /\ pending' \in [Recoveries -> Seq([id : Deliveries, retryCount : Nat])]
      /\ pending'[r] = <<>> /\ \A q \in Recoveries : q # r => pending'[q] = pending[q]
  <2>1. <<>> \in Seq([id : Deliveries, retryCount : Nat])
    OBVIOUS
  <2> QED BY <1>1, <2>1 DEF DQTypes
<1>5. DQTypes'
  <2>1. budgetHits' \in Nat
    BY <1>1 DEF DQTypes
  <2> QED BY <1>1, <1>3, <1>4, <2>1 DEF DQTypes
<1>6. PendingIds(r)' = {} /\ \A q \in Recoveries : q # r => PendingIds(q)' = PendingIds(q)
  BY <1>4 DEF PendingIds
<1>7. \A b \in Actors, e \in Deliveries : Engaged(b, e)' => Engaged(b, e)
  BY <1>1, <1>3, <1>6 DEF Engaged, InFlight
<1>8. PendingDistinct' /\ OrderDistinct' /\ Down'
  BY <1>1, <1>4 DEF DInv, PendingDistinct, OrderDistinct, Down
<1>9. ASSUME NEW e \in Deliveries PROVE Untouched(e)'
  <2>1. Untouched(e)
    BY DEF DInv
  <2>2. phase'[Live][e] = phase[Live][e]
    BY <1>1, <1>3, ActorTypes
  <2>3. \A q \in Recoveries : e \notin Written => ~Engaged(q, e)'
    BY <1>7, <2>1, ActorTypes DEF Untouched
  <2> QED BY <1>1, <2>1, <2>2, <2>3, UntouchedFrame
<1>10. ASSUME NEW q \in Recoveries PROVE AtRest(q)'
  <2>1. CASE q = r
    BY <1>1, <2>1 DEF AtRest
  <2>2. CASE q # r
    <3>1. AtRest(q) /\ q \in Actors
      BY ActorTypes DEF DInv
    <3>2. pending'[q] = pending[q] /\ running'[q] = running[q]
      BY <1>1, <1>4, <2>2
    <3>3. \A e \in Deliveries : phase'[q][e] = phase[q][e]
      BY <1>3, <2>2, <3>1
    <3> QED BY <3>1, <3>2, <3>3 DEF AtRest, InFlight
  <2> QED BY <2>1, <2>2
<1>11. ASSUME NEW e \in Deliveries, e \notin excused' PROVE Owned(e)'
  <2>1. Owned(e)
    BY <1>1, <1>11 DEF DInv
  <2>2. budgetHits \in Nat /\ budgetHits' \in Nat /\ budgetHits' > budgetHits
    BY <1>1 DEF DQTypes
  <2>3. CASE e \notin PendingIds(r)
    <3>1. \A b \in Actors : phase'[b][e] = phase[b][e] /\ read'[b][e] = read[b][e]
      BY <1>1, <1>3, <2>3
    <3>2. \A q \in Recoveries : \A i \in DOMAIN pending'[q] :
            \E j \in DOMAIN pending[q] : pending'[q][i] = pending[q][j]
      BY <1>4
    <3>3. budgetHits' >= budgetHits /\ budgetHits' \in Nat
      BY <2>2
    <3>4. DQTypes /\ UNCHANGED <<stored, retryCount, failedDir, delivered, twice>>
      BY <1>1
    <3> HIDE DEF PendingIds
    <3> QED BY <2>1, <3>1, <3>2, <3>3, <3>4, OwnedFrame
  <2>4. CASE e \in PendingIds(r)
    <3>1. Engaged(r, e) /\ phase'[r][e] = "failing"
      BY <1>3, <2>4 DEF Engaged
    <3>2. \A b \in Actors : b # r => ~Engaged(b, e)
      BY <1>1, <2>1, <3>1 DEF Owned, Solo
    <3>3. \A q \in Recoveries : e \notin PendingIds(q)'
      BY <1>6, <3>2, ActorTypes DEF Engaged
    <3>4. \A b \in Actors : b # r => ~Engaged(b, e)' /\ phase'[b][e] \in {"idle", "over"}
      BY <1>7, <3>2, <1>3, <1>5 DEF Engaged, InFlight, Calls, Phases, DQTypes
    <3>5. Solo(e)'
      BY <3>3, <3>4 DEF Solo
    <3>6. Remembered(e)'
      BY <3>3 DEF Remembered, PendingIds
    <3>7. e \notin delivered' /\ e \notin failedDir' /\ e \notin twice'
      BY <1>1, <2>1, <2>4, <3>1 DEF Owned, SentIsAcked, FailedIsOver
    <3>8. retryCount'[e] < MaxRetries + budgetHits'
      <4>1. retryCount[e] <= MaxRetries + budgetHits /\ retryCount[e] \in Nat
        BY <1>1, <2>1 DEF Owned, Limited, DQTypes
      <4> QED BY <1>1, <2>2, <4>1, MaxRetriesType
    <3>9. Limited(e)'
      <4>1. retryCount'[e] \in Nat
        BY <1>5 DEF DQTypes
      <4>2. retryCount'[e] <= MaxRetries + budgetHits'
        BY <2>2, <3>8, <4>1, MaxRetriesType
      <4>3. \A b \in Actors : b # r => phase'[b][e] \notin {"sending", "failing", "writing"}
        BY <3>4
      <4> QED BY <3>1, <3>8, <4>2, <4>3 DEF Limited
    <3> QED BY <3>5, <3>6, <3>7, <3>9 DEF Owned, SentIsAcked, FailedIsOver
  <2> QED BY <2>3, <2>4
<1> QED BY <1>5, <1>8, <1>9, <1>10, <1>11 DEF DInv

\* Only how far the recoveries are changes.
LEMMA RunningFrame ==
  ASSUME DInv,
         UNCHANGED <<disk, phase, read, pending, budgetHits, delivered, twice, excused>>
  PROVE  /\ OrderDistinct' /\ PendingDistinct'
         /\ \A d \in Deliveries : Untouched(d)'
         /\ \A d \in Deliveries \ excused' : Owned(d)'
<1>1. /\ DQTypes
      /\ UNCHANGED <<stored, retryCount, marked, failedDir, order, phase, read, pending,
                     budgetHits, delivered, twice, excused>>
  BY DEF DInv, disk
<1>2. OrderDistinct' /\ PendingDistinct'
  BY <1>1 DEF DInv, OrderDistinct, PendingDistinct
<1>3. \A b \in Actors, e \in Deliveries : Engaged(b, e)' <=> Engaged(b, e)
  BY <1>1 DEF Engaged, InFlight, PendingIds
<1>4. ASSUME NEW d \in Deliveries PROVE Untouched(d)'
  <2>1. Untouched(d)
    BY DEF DInv
  <2>2. \A q \in Recoveries : d \notin Written => ~Engaged(q, d)'
    BY <1>3, <2>1, ActorTypes DEF Untouched
  <2> QED BY <1>1, <2>1, <2>2, UntouchedFrame
<1>5. ASSUME NEW d \in Deliveries, d \notin excused' PROVE Owned(d)'
  <2>1. Owned(d)
    BY <1>1, <1>5 DEF DInv
  <2>2. budgetHits' \in Nat /\ budgetHits' >= budgetHits
    BY <1>1 DEF DQTypes
  <2> QED BY <1>1, <2>1, <2>2, OwnedFrame
<1> QED BY <1>2, <1>4, <1>5

\* A recovery ends with nothing left to do.
LEMMA RecoveryEndsKeeps ==
  ASSUME DInv, NEW r \in Recoveries, RecoveryEnds(r)
  PROVE  DInv'
<1>1. /\ DQTypes /\ pending[r] = <<>> /\ \A e \in Deliveries : ~InFlight(r, e)
      /\ running' = [running EXCEPT ![r] = "off"]
      /\ UNCHANGED <<up, disk, phase, read, pending, budgetHits, delivered, twice, excused>>
  BY DEF RecoveryEnds, DInv, Between, bounds, outcome
<1>2. DQTypes'
  BY <1>1 DEF DQTypes, disk
<1>3. ASSUME NEW q \in Recoveries PROVE AtRest(q)'
  BY <1>1 DEF AtRest, DInv, DQTypes, InFlight
<1>4. Down'
  BY <1>1 DEF Down, DInv, DQTypes
<1> QED BY <1>1, <1>2, <1>3, <1>4, RunningFrame DEF DInv

\* A crash ends every actor and excuses what was sent but not acknowledged.
LEMMA CrashKeeps ==
  ASSUME DInv, Crash
  PROVE  DInv'
<1>1. /\ DQTypes /\ up' = FALSE
      /\ excused' = excused \cup {d \in Deliveries : \E a \in Actors : phase[a][d] = "acking"}
      /\ phase' = [a \in Actors |-> [d \in Deliveries |->
                     IF phase[a][d] = "idle" THEN "idle" ELSE Done(a)]]
      /\ read' = [a \in Actors |-> [d \in Deliveries |-> 0]]
      /\ running' = [r \in Recoveries |-> "off"]
      /\ pending' = [r \in Recoveries |-> <<>>]
      /\ UNCHANGED <<stored, retryCount, marked, failedDir, order, budgetHits, delivered,
                     twice>>
  BY DEF Crash, DInv, disk, outcome
<1>2. /\ phase' \in [Actors -> [Deliveries -> Phases]]
      /\ \A a \in Actors, d \in Deliveries : phase'[a][d] \in {"idle", "over"}
      /\ \A d \in Deliveries : phase'[Live][d] = "idle" => phase[Live][d] = "idle"
  <2>1. \A a \in Actors, d \in Deliveries :
          phase'[a][d] = IF phase[a][d] = "idle" THEN "idle" ELSE Done(a)
    BY <1>1
  <2>2. \A a \in Actors : Done(a) \in {"idle", "over"} /\ Done(Live) = "over"
    BY DEF Done
  <2>3. \A a \in Actors, d \in Deliveries : phase'[a][d] \in {"idle", "over"}
    BY <2>1, <2>2
  <2>4. phase' = [a \in Actors |-> [d \in Deliveries |-> phase'[a][d]]]
    BY <1>1
  <2>5. phase' \in [Actors -> [Deliveries -> Phases]]
    BY <2>3, <2>4 DEF Phases
  <2> QED BY <2>1, <2>2, <2>3, <2>5, ActorTypes
<1>3. <<>> \in Seq([id : Deliveries, retryCount : Nat])
  OBVIOUS
<1>4. DQTypes'
  BY <1>1, <1>2, <1>3 DEF DQTypes
<1>5. /\ \A b \in Actors, e \in Deliveries : ~InFlight(b, e)' /\ ~Engaged(b, e)'
      /\ \A q \in Recoveries : PendingIds(q)' = {}
  BY <1>1, <1>2 DEF InFlight, Engaged, Calls, PendingIds
<1>6. OrderDistinct' /\ PendingDistinct' /\ Down'
  BY <1>1 DEF OrderDistinct, PendingDistinct, Down, DInv
<1>7. ASSUME NEW d \in Deliveries PROVE Untouched(d)'
  <2>1. Untouched(d) /\ (d \in Written' <=> d \in Written)
    BY <1>1 DEF DInv, Written, Elems
  <2>2. \A r \in Recoveries : ~Engaged(r, d)'
    BY <1>5, ActorTypes
  <2>3. phase'[Live][d] \in {"idle", "over"}
    BY <1>2, ActorTypes
  <2> QED BY <1>1, <1>2, <2>1, <2>2, <2>3 DEF Untouched
<1>8. ASSUME NEW r \in Recoveries PROVE AtRest(r)'
  BY <1>1, <1>5, ActorTypes DEF AtRest
<1>9. ASSUME NEW d \in Deliveries, d \notin excused' PROVE Owned(d)'
  <2>1. /\ d \notin excused /\ Owned(d)
        /\ \A a \in Actors : phase[a][d] # "acking"
    BY <1>1, <1>9 DEF DInv
  <2>2. Solo(d)' /\ Remembered(d)'
    BY <1>5, ActorTypes DEF Solo, Remembered, PendingIds
  <2>3. Limited(d)'
    BY <1>1, <1>2, <2>1 DEF Limited, Owned
  <2>4. SentIsAcked(d)'
    BY <1>1, <1>2, <1>5, <2>1 DEF SentIsAcked, Owned
  <2>5. FailedIsOver(d)' /\ d \notin twice'
    BY <1>1, <1>5, <2>1 DEF FailedIsOver, Owned
  <2> QED BY <2>2, <2>3, <2>4, <2>5 DEF Owned
<1> QED BY <1>4, <1>6, <1>7, <1>8, <1>9 DEF DInv

\* Both ways of starting the gateway start one recovery that was off.
LEMMA StartKeeps ==
  ASSUME DInv, Boot \/ RestartInProcess
  PROVE  DInv'
<1>1. /\ DQTypes /\ up' = TRUE
      /\ UNCHANGED <<disk, phase, read, pending, budgetHits, delivered, twice, excused>>
  BY DEF Boot, RestartInProcess, DInv, bounds, outcome
<1>2. PICK r \in Recoveries :
        running[r] = "off" /\ running' = [running EXCEPT ![r] = "loading"]
  <2>1. CASE Boot
    <3>1. 1 \in Recoveries
      BY DeliveryAssumption DEF Recoveries
    <3> QED BY <2>1, <3>1 DEF Boot, DInv, Down
  <2>2. CASE RestartInProcess
    BY <2>2 DEF RestartInProcess
  <2> QED BY <2>1, <2>2
<1>3. DQTypes'
  BY <1>1, <1>2 DEF DQTypes, disk
<1>4. ASSUME NEW q \in Recoveries PROVE AtRest(q)'
  BY <1>1, <1>2 DEF AtRest, DInv, DQTypes, InFlight
<1>5. Down'
  BY <1>1 DEF Down
<1> QED BY <1>1, <1>3, <1>4, <1>5, RunningFrame DEF DInv

\* At the start nothing was written and nobody works.
LEMMA DInvInit == DQInit => DInv
<1> SUFFICES ASSUME DQInit PROVE DInv
  OBVIOUS
<1>1. <<>> \in Seq(Deliveries) /\ <<>> \in Seq([id : Deliveries, retryCount : Nat])
  OBVIOUS
<1>2. DQTypes
  BY <1>1 DEF DQInit, DQTypes, Phases
<1>3. \A a \in Actors, d \in Deliveries : phase[a][d] = "idle" /\ ~Engaged(a, d)
  BY DEF DQInit, Engaged, InFlight, Calls, PendingIds
<1>4. \A r \in Recoveries : pending[r] = <<>> /\ PendingIds(r) = {} /\ running[r] = "off"
  BY DEF DQInit, PendingIds
<1>5. OrderDistinct /\ PendingDistinct /\ Down /\ Written = {}
  BY <1>4 DEF DQInit, OrderDistinct, PendingDistinct, Down, Written, Elems
<1>6. ASSUME NEW d \in Deliveries PROVE Untouched(d)
  BY <1>3, <1>5, ActorTypes DEF DQInit, Untouched
<1>7. ASSUME NEW r \in Recoveries PROVE AtRest(r)
  BY <1>3, <1>4, ActorTypes DEF AtRest, Engaged
<1>8. ASSUME NEW d \in Deliveries PROVE Owned(d)
  <2>1. Solo(d) /\ Remembered(d)
    BY <1>3, <1>4, ActorTypes DEF Solo, Remembered
  <2>2. Limited(d)
    BY <1>3, MaxRetriesType DEF Limited, DQInit
  <2>3. SentIsAcked(d) /\ FailedIsOver(d) /\ d \notin twice
    BY DEF SentIsAcked, FailedIsOver, DQInit
  <2> QED BY <2>1, <2>2, <2>3 DEF Owned
<1> QED BY <1>2, <1>5, <1>6, <1>7, <1>8 DEF DInv

\* Every step keeps the invariant.
LEMMA DInvStep == DInv /\ [DQNext]_dqVars => DInv'
<1> SUFFICES ASSUME DInv, [DQNext]_dqVars PROVE DInv'
  OBVIOUS
<1>1. ASSUME NEW d \in Deliveries, Enqueue(d) \/ SendAborts(d) PROVE DInv'
  BY <1>1, EnqueueKeeps, SendKeeps, ActorTypes
<1>2. ASSUME NEW a \in Actors, NEW d \in Deliveries, CallReturns(a, d) PROVE DInv'
  BY <1>2, SendKeeps, AckKeeps, FailAndMoveKeep DEF CallReturns
<1>3. ASSUME NEW r \in Recoveries, RecoveryStep(r) PROVE DInv'
  BY <1>3, LoadKeeps, ReachKeeps, BudgetKeeps, RecoveryEndsKeeps DEF RecoveryStep
<1>4. CASE Crash
  BY <1>4, CrashKeeps
<1>5. CASE Boot \/ RestartInProcess
  BY <1>5, StartKeeps
<1>6. CASE UNCHANGED dqVars
  <2>1. UNCHANGED <<up, disk, phase, read, running, pending, budgetHits, delivered, twice,
                    excused>>
    BY <1>6 DEF dqVars, bounds, outcome
  <2>2. DQTypes' /\ Down'
    BY <2>1 DEF DInv, DQTypes, Down, disk
  <2>3. ASSUME NEW r \in Recoveries PROVE AtRest(r)'
    BY <2>1 DEF DInv, AtRest, InFlight
  <2> QED BY <2>1, <2>2, <2>3, RunningFrame DEF DInv
<1> QED BY <1>1, <1>2, <1>3, <1>4, <1>5, <1>6 DEF DQNext

\* Of every reachable state: each delivery that is not excused has one owner.
THEOREM EveryDeliveryOwned == DQSpec => []DInv
BY DInvInit, DInvStep, PTL DEF DQSpec

\* For every number of deliveries, recoveries, crashes and I/O errors the state keeps
\* its types, and the retryCount of an entry that one actor at a time worked on exceeds
\* MAX_RETRIES only by the budgets that ran out (failDelivery called from
\* recoverPendingDeliveries).
THEOREM DQTypeCorrect == DQSpec => []DQTypeOK
<1>1. DInv => DQTypeOK
  BY DEF DInv, DQTypes, DQTypeOK, Owned, Limited
<1> QED BY <1>1, EveryDeliveryOwned, PTL

\* For every number of deliveries and recoveries: two sends of a delivery succeed only
\* if a crash or an I/O error hit the acknowledgement of the first, or a recovery
\* loaded the entry while another actor worked on it (the live send and
\* recoverPendingDeliveries of any number of starts).
THEOREM DeliveredOnlyOnce == DQSpec => []DeliveredOnce
<1>1. DInv => DeliveredOnce
  BY DEF DInv, DQTypes, DeliveredOnce, Owned
<1> QED BY <1>1, EveryDeliveryOwned, PTL

\* Under the same proviso what moveToFailed set aside was never delivered, is not in
\* the queue and is not sent again.
THEOREM FailedStaysFinal == DQSpec => []FailedIsFinal
<1>1. ASSUME DInv PROVE FailedIsFinal
  <2> SUFFICES ASSUME NEW d \in failedDir \ excused
               PROVE  /\ d \notin stored \cup delivered
                      /\ \A a \in Actors : phase[a][d] # "sending"
    BY DEF FailedIsFinal
  <2>1. d \in Deliveries /\ Owned(d)
    BY <1>1 DEF DInv, DQTypes
  <2>2. d \notin stored \cup delivered /\ \A a \in Actors : ~Engaged(a, d)
    BY <2>1 DEF Owned, FailedIsOver
  <2> QED BY <2>2 DEF Engaged, InFlight, Calls
<1> QED BY <1>1, EveryDeliveryOwned, PTL
=============================================================================
