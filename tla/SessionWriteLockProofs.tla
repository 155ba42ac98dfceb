------------------------- MODULE SessionWriteLockProofs -------------------------
(***************************************************************************)
(* The write lock of a session has one holder at a time, nested holders    *)
(* apart: the file at the path is that of whoever holds the lock within    *)
(* its limits.                                                             *)
(***************************************************************************)
EXTENDS SessionWriteLock, FiniteSetTheorems, TLAPS

-----------------------------------------------------------------------------
(* The parts of the inductive invariant. *)

\* Acquisitions and entries name files that their own process created.
Owned ==
  /\ \A a \in Actors : step[a] \in {"writing", "holding", "unlinking"} =>
        mine[a] \in 1..used /\ owner[mine[a]] = ProcOf[a] /\ run[ProcOf[a]] = "up"
  /\ \A p \in Procs :
        \/ held[p] = NotHeld
        \/ held[p].id \in 1..used /\ owner[held[p].id] = p /\ run[p] = "up"
           /\ held[p].count # 0
  /\ file <= used /\ old \subseteq 1..used /\ None \notin overdue

-----------------------------------------------------------------------------
(* Type correctness. *)

LEMMA LockTypeInit == LockInit => LockTypeOK
BY LockAssumption DEF LockInit, LockTypeOK, None, NotHeld, Ids, Steps

LEMMA LockTypeStep ==
  ASSUME LockTypeOK, Owned, LockNext
  PROVE  LockTypeOK'
<1> USE LockAssumption DEF LockTypeOK, Enter, disk, counters
<1> DEFINE Entry == [id : Ids \cup {None}, count : Nat]
<1>0. NotHeld \in Entry /\ \A p \in Procs : held[p] \in Entry
  BY DEF NotHeld
<1>1. ASSUME NEW a \in Actors, Acquire(a) PROVE LockTypeOK'
  <2> DEFINE e == held[ProcOf[a]]
  <2>1. e \in Entry /\ [e EXCEPT !.count = e.count + 1] \in Entry /\ e.id \in Ids \cup {None}
    BY <1>0
  <2>2. held' = held \/ held' = [held EXCEPT ![ProcOf[a]] = [e EXCEPT !.count = e.count + 1]]
    BY <1>1 DEF Acquire
  <2>3. held' \in [Procs -> Entry]
    BY <2>1, <2>2
  <2>4. mine' = mine \/ mine' = [mine EXCEPT ![a] = e.id]
    BY <1>1 DEF Acquire
  <2>5. mine' \in [Actors -> Ids \cup {None}]
    BY <2>1, <2>4
  <2>6. step' = [step EXCEPT ![a] = "holding"] \/ step' = [step EXCEPT ![a] = "opening"]
    BY <1>1 DEF Acquire
  <2>7. {"holding", "opening"} \subseteq Steps
    BY DEF Steps
  <2>8. UNCHANGED <<run, cleaning, file, owner, written, old, overdue, seen, forced, used,
                    lapsed, robbed, signalled>>
    BY <1>1 DEF Acquire
  <2>9. step' \in [Actors -> Steps]
    <3>1. step \in [Actors -> Steps]
      OBVIOUS
    <3> HIDE DEF LockTypeOK, e, Entry
    <3> QED
      BY <2>6, <2>7, <3>1
  <2> HIDE DEF e, Entry
  <2> QED
    BY <2>3, <2>5, <2>8, <2>9 DEF Entry
<1>2. ASSUME NEW a \in Actors, Create(a) PROVE LockTypeOK'
  <2>1. used' \in 0..MaxIds /\ used' \in Ids
    BY <1>2 DEF Create, Ids
  <2>2. /\ file' = used' /\ owner' = [owner EXCEPT ![used'] = ProcOf[a]]
        /\ mine' = [mine EXCEPT ![a] = used'] /\ step' = [step EXCEPT ![a] = "writing"]
        /\ UNCHANGED <<run, cleaning, written, old, held, overdue, seen, forced, lapsed,
                       robbed, signalled>>
    BY <1>2 DEF Create
  <2> QED
    BY <2>1, <2>2 DEF Steps
<1>3. ASSUME NEW a \in Actors, Exists(a) PROVE LockTypeOK'
  BY <1>3 DEF Exists, Steps
<1>4. ASSUME NEW a \in Actors, Write(a) PROVE LockTypeOK'
  <2>1. held' \in [Procs -> Entry]
    <3>1. [id |-> mine[a], count |-> 1] \in Entry
      OBVIOUS
    <3> QED
      BY <1>4, <3>1 DEF Write
  <2>2. mine[a] # None
    BY <1>4 DEF Owned, Write, None
  <2>3. robbed' \subseteq Ids /\ written' \subseteq Ids
    BY <1>0, <1>4, <2>2 DEF Write
  <2> QED
    BY <1>4, <2>1, <2>3 DEF Write, Steps
<1>5. ASSUME NEW a \in Actors, WriteFails(a) PROVE LockTypeOK'
  BY <1>5 DEF WriteFails, Rm, Steps
<1>6. ASSUME NEW a \in Actors, Read(a) PROVE LockTypeOK'
  BY <1>6 DEF Read, Inspected, None, NotHeld, Ids, Steps
<1>7. ASSUME NEW a \in Actors, CheckAge(a) PROVE LockTypeOK'
  BY <1>7 DEF CheckAge, Inspected, None, NotHeld, Ids, Steps
<1>8. ASSUME NEW a \in Actors, Remove(a) PROVE LockTypeOK'
  BY <1>8 DEF Remove, Inspected, Rm, Steps
<1>9. ASSUME NEW a \in Actors, GiveUp(a) PROVE LockTypeOK'
  BY <1>9 DEF GiveUp, Steps
<1>10. ASSUME NEW a \in Actors, Release(a) PROVE LockTypeOK'
  <2> DEFINE e == held[ProcOf[a]]
  <2>0. e \in Entry /\ e.count \in Nat /\ (e.count > 1 => e.count - 1 \in Nat)
    BY <1>0
  <2>1. e \in Entry /\ (e.count > 1 => [e EXCEPT !.count = e.count - 1] \in Entry)
    BY <2>0
  <2>2. \/ held' = held \/ held' = [held EXCEPT ![ProcOf[a]] = NotHeld]
        \/ e.count > 1 /\ held' = [held EXCEPT ![ProcOf[a]] = [e EXCEPT !.count = e.count - 1]]
    BY <1>10 DEF Release
  <2>3. held' \in [Procs -> Entry]
    <3> DEFINE d == [e EXCEPT !.count = e.count - 1]
    <3>1. e.count > 1 => d \in Entry
      BY <2>1
    <3>2. \/ held' = held \/ held' = [held EXCEPT ![ProcOf[a]] = NotHeld]
          \/ e.count > 1 /\ held' = [held EXCEPT ![ProcOf[a]] = d]
      BY <2>2
    <3>3. held \in [Procs -> Entry] /\ ProcOf[a] \in Procs
      OBVIOUS
    <3> HIDE DEF d, e, Entry
    <3> HIDE DEF LockTypeOK
    <3>4. \A x \in Entry : [held EXCEPT ![ProcOf[a]] = x] \in [Procs -> Entry]
      BY <3>3
    <3> QED
      BY <1>0, <3>1, <3>2, <3>3, <3>4
  <2> QED
    BY <1>10, <2>3 DEF Release, Steps
<1>11. ASSUME NEW a \in Actors, Unlink(a) PROVE LockTypeOK'
  BY <1>11 DEF Unlink, Rm, Steps
<1>12. ASSUME NEW p \in Procs, Watchdog(p) PROVE LockTypeOK'
  BY <1>12 DEF Watchdog, None, NotHeld, Ids
<1>13. ASSUME NEW p \in Procs, WatchdogUnlink(p) PROVE LockTypeOK'
  BY <1>13 DEF WatchdogUnlink, Rm, None, NotHeld, Ids
<1>14. ASSUME NEW p \in Procs, Overrun(p) PROVE LockTypeOK'
  <2>1. held[p].id # None
    BY <1>14 DEF Owned, Overrun, None
  <2>2. held[p].id \in Ids
    BY <1>0, <2>1
  <2> QED
    BY <1>14, <2>2 DEF Overrun
<1>15. ASSUME NEW p \in Procs, StartProc(p) PROVE LockTypeOK'
  BY <1>15 DEF StartProc
<1>16. ASSUME NEW p \in Procs, CleanRead(p) PROVE LockTypeOK'
  <2>1. robbed' \subseteq Ids
    BY <1>16 DEF CleanRead
  <2>2. seen' = seen \/ seen' = [seen EXCEPT ![p] = file]
    BY <1>16 DEF CleanRead
  <2>3. seen' \in [Actors \cup Procs -> Ids \cup {None}]
    BY <2>2
  <2>4. cleaning' \subseteq Procs
    BY <1>16 DEF CleanRead
  <2> QED
    BY <1>16, <2>1, <2>3, <2>4 DEF CleanRead
<1>17. ASSUME NEW p \in Procs, CleanRemove(p) PROVE LockTypeOK'
  BY <1>17 DEF CleanRemove, Rm
<1>18. ASSUME NEW p \in Procs, Crash(p) PROVE LockTypeOK'
  BY <1>0, <1>18 DEF Crash, Dead, Steps
<1>19. ASSUME NEW p \in Procs, Terminate(p) PROVE LockTypeOK'
  <2>1. file' \in Ids \cup {None} /\ robbed' \subseteq Ids
    BY <1>19 DEF Terminate, Rm
  <2> QED
    BY <1>0, <1>19, <2>1 DEF Terminate, Rm, Dead, Steps
<1>20. ASSUME NEW p \in Procs, Signal(p) PROVE LockTypeOK'
  <2>1. held[p].id \in Ids
    BY <1>0, <1>20 DEF Owned, Signal, None
  <2>2. file' \in Ids \cup {None} /\ robbed' \subseteq Ids /\ signalled' \subseteq Ids
    BY <1>20, <2>1 DEF Signal, Rm
  <2> QED
    BY <1>0, <1>20, <2>2 DEF Signal, Rm
<1>21. CASE Age
  BY <1>21 DEF Age, None
<1> QED
  BY <1>1, <1>2, <1>3, <1>4, <1>5, <1>6, <1>7, <1>8, <1>9, <1>10, <1>11, <1>12, <1>13, <1>14,
     <1>15, <1>16, <1>17, <1>18, <1>19, <1>20, <1>21
  DEF LockNext, WaitStep, HoldStep, CleanStep

-----------------------------------------------------------------------------
(* Ownership. *)

LEMMA OwnedInit == LockInit => Owned
BY LockAssumption DEF LockInit, Owned, None, NotHeld, Ids, Steps

LEMMA OwnedStep ==
  ASSUME LockTypeOK, Owned, LockNext
  PROVE  Owned'
<1> USE LockAssumption DEF LockTypeOK, Enter, disk, counters, Up
<1>1. ASSUME NEW a \in Actors, Acquire(a) PROVE Owned'
  <2> DEFINE p == ProcOf[a]
  <2>1. held[p] = NotHeld => held' = held /\ mine' = mine /\ step' = [step EXCEPT ![a] = "opening"]
    BY <1>1 DEF Acquire
  <2>2. held[p] # NotHeld => mine' = [mine EXCEPT ![a] = held[p].id]
                             /\ held' = [held EXCEPT ![p].count = @ + 1]
    BY <1>1 DEF Acquire
  <2>3. CASE held[p] = NotHeld
    BY <1>1, <2>1, <2>3 DEF Acquire, Owned
  <2>4. CASE held[p] # NotHeld
    <3>1. /\ held[p].id \in 1..used /\ owner[held[p].id] = p /\ run[p] = "up"
          /\ held[p].count \in Nat /\ held[p].id \in Ids \cup {None}
      BY <2>4 DEF Owned
    <3> DEFINE e == [held[p] EXCEPT !.count = held[p].count + 1]
    <3>2. e.id = held[p].id /\ e.count # 0 /\ held' = [held EXCEPT ![p] = e]
      BY <2>2, <2>4, <3>1
    <3> HIDE DEF e
    <3>3. /\ \A b \in Actors : b # a => step'[b] = step[b] /\ mine'[b] = mine[b]
          /\ mine'[a] = held[p].id
      BY <1>1, <2>2, <2>4 DEF Acquire
    <3>4. \A q \in Procs : held'[q] = IF q = p THEN e ELSE held[q]
      BY <3>2
    <3>5. UNCHANGED <<run, owner, used, file, old, overdue>>
      BY <1>1 DEF Acquire
    <3> QED
      BY <3>1, <3>2, <3>3, <3>4, <3>5 DEF Owned
  <2> QED
    BY <2>3, <2>4
<1>2. ASSUME NEW a \in Actors, Create(a) PROVE Owned'
  BY <1>2 DEF Create, Owned, None, NotHeld, Ids, Steps
<1>3. ASSUME NEW a \in Actors, Exists(a) PROVE Owned'
  BY <1>3 DEF Exists, Owned, Steps
<1>4. ASSUME NEW a \in Actors, Write(a) PROVE Owned'
  BY <1>4 DEF Write, Owned, NotHeld, Steps
<1>5. ASSUME NEW a \in Actors, WriteFails(a) PROVE Owned'
  BY <1>5 DEF WriteFails, Rm, Owned, None, Steps
<1>6. ASSUME NEW a \in Actors, Read(a) PROVE Owned'
  BY <1>6 DEF Read, Inspected, Owned, Steps
<1>7. ASSUME NEW a \in Actors, CheckAge(a) PROVE Owned'
  BY <1>7 DEF CheckAge, Inspected, Owned, Steps
<1>8. ASSUME NEW a \in Actors, Remove(a) PROVE Owned'
  BY <1>8 DEF Remove, Inspected, Rm, Owned, None, Steps
<1>9. ASSUME NEW a \in Actors, GiveUp(a) PROVE Owned'
  BY <1>9 DEF GiveUp, Owned, Steps
<1>10. ASSUME NEW a \in Actors, Release(a) PROVE Owned'
  <2> DEFINE p == ProcOf[a]
  <2>1. \A b \in Actors : step'[b] \in {"writing", "holding", "unlinking"} =>
           step[b] \in {"writing", "holding", "unlinking"}
    BY <1>10 DEF Release
  <2>2. UNCHANGED <<run, mine, owner, used, file, old, overdue>>
    BY <1>10 DEF Release
  <2>3. held[p] \in [id : Ids \cup {None}, count : Nat] /\ held[p].count \in Nat
    OBVIOUS
  <2>4. \A q \in Procs :
           \/ held'[q] = held[q] \/ held'[q] = NotHeld
           \/ held'[q].id = held[q].id /\ held'[q].count # 0 /\ held[q] # NotHeld
    <3>1. CASE held[p].id = mine[a] /\ held[p].count > 1
      <4>1. held' = [held EXCEPT ![p] = [held[p] EXCEPT !.count = held[p].count - 1]]
        BY <1>10, <3>1 DEF Release
      <4>2. held[p].count - 1 # 0 /\ held[p] # NotHeld
        BY <2>3, <3>1 DEF NotHeld
      <4> QED
        BY <2>3, <4>1, <4>2
    <3>2. CASE ~(held[p].id = mine[a] /\ held[p].count > 1)
      BY <1>10, <3>2 DEF Release
    <3> QED
      BY <3>1, <3>2
  <2> QED
    BY <2>1, <2>2, <2>4 DEF Owned
<1>11. ASSUME NEW a \in Actors, Unlink(a) PROVE Owned'
  BY <1>11 DEF Unlink, Rm, Owned, None, Steps
<1>12. ASSUME NEW p \in Procs, Watchdog(p) PROVE Owned'
  BY <1>12 DEF Watchdog, Owned, NotHeld
<1>13. ASSUME NEW p \in Procs, WatchdogUnlink(p) PROVE Owned'
  BY <1>13 DEF WatchdogUnlink, Rm, Owned, None
<1>14. ASSUME NEW p \in Procs, Overrun(p) PROVE Owned'
  BY <1>14 DEF Overrun, Owned, None
<1>15. ASSUME NEW p \in Procs, StartProc(p) PROVE Owned'
  BY <1>15 DEF StartProc, Owned
<1>16. ASSUME NEW p \in Procs, CleanRead(p) PROVE Owned'
  BY <1>16 DEF CleanRead, Owned
<1>17. ASSUME NEW p \in Procs, CleanRemove(p) PROVE Owned'
  BY <1>17 DEF CleanRemove, Rm, Owned, None
<1>18. ASSUME NEW p \in Procs, Crash(p) PROVE Owned'
  <2>1. \A q \in Procs : held'[q] = (IF q = p THEN NotHeld ELSE held[q])
    BY <1>18 DEF Crash, Dead
  <2>2. \A q \in Procs : run'[q] = (IF q = p THEN "dead" ELSE run[q])
    BY <1>18 DEF Crash, Dead
  <2>3. \A a \in Actors : step'[a] = (IF ProcOf[a] = p THEN "dead" ELSE step[a])
    BY <1>18 DEF Crash, Dead
  <2>4. UNCHANGED <<mine, owner, used, old, file, overdue>>
    BY <1>18 DEF Crash, Dead
  <2> QED
    BY <2>1, <2>2, <2>3, <2>4 DEF Owned
<1>19. ASSUME NEW p \in Procs, Terminate(p) PROVE Owned'
  <2>1. \A q \in Procs : held'[q] = (IF q = p THEN NotHeld ELSE held[q])
    BY <1>19 DEF Terminate, Dead
  <2>2. \A q \in Procs : run'[q] = (IF q = p THEN "dead" ELSE run[q])
    BY <1>19 DEF Terminate, Dead
  <2>3. \A a \in Actors : step'[a] = (IF ProcOf[a] = p THEN "dead" ELSE step[a])
    BY <1>19 DEF Terminate, Dead
  <2>4. UNCHANGED <<mine, owner, used, old, overdue>>
    BY <1>19 DEF Terminate, Dead, Rm
  <2>5. file' = file \/ file' = None
    BY <1>19 DEF Terminate, Dead, Rm
  <2>6. file' <= used'
    BY <2>4, <2>5 DEF Owned, None
  <2> QED
    BY <2>1, <2>2, <2>3, <2>4, <2>6 DEF Owned
<1>20. ASSUME NEW p \in Procs, Signal(p) PROVE Owned'
  <2>1. \A q \in Procs : held'[q] = held[q] \/ held'[q] = NotHeld
    BY <1>20 DEF Signal
  <2>2. UNCHANGED <<run, step, mine, owner, used, old, overdue>> /\ file' = None
    BY <1>20 DEF Signal, Rm
  <2> QED
    BY <2>1, <2>2 DEF Owned, None
<1>21. CASE Age
  <2>1. file \in 1..used
    BY <1>21 DEF Age, Owned, None, Ids
  <2>2. old' \subseteq 1..used'
    BY <1>21, <2>1 DEF Age, Owned
  <2>3. UNCHANGED <<run, step, mine, owner, held, file, used, overdue>>
    BY <1>21 DEF Age
  <2> QED
    BY <2>2, <2>3 DEF Owned
<1> QED
  BY <1>1, <1>2, <1>3, <1>4, <1>5, <1>6, <1>7, <1>8, <1>9, <1>10, <1>11, <1>12, <1>13, <1>14,
     <1>15, <1>16, <1>17, <1>18, <1>19, <1>20, <1>21
  DEF LockNext, WaitStep, HoldStep, CleanStep

LEMMA OwnedStutter ==
  ASSUME LockTypeOK, Owned, UNCHANGED lockVars
  PROVE  LockTypeOK' /\ Owned'
BY DEF LockTypeOK, Owned, lockVars, disk, counters

\* Every acquisition that someone writes under, releases or counts is the file of that
\* process, and the process is up: what a waiter or the watchdog does never leaves a
\* holder, or an entry of HELD_LOCKS, with a file that another process created.
THEOREM LocksAreOwned == LockSpec => [](LockTypeOK /\ Owned)
<1>1. LockInit => LockTypeOK /\ Owned
  BY LockTypeInit, OwnedInit
<1>2. LockTypeOK /\ Owned /\ [LockNext]_lockVars => LockTypeOK' /\ Owned'
  BY LockTypeStep, OwnedStep, OwnedStutter
<1> QED
  BY <1>1, <1>2, PTL DEF LockSpec
-----------------------------------------------------------------------------
(* What every step leaves alone: acquisitions keep their owners, the dead  *)
(* stay dead, and nobody is excused for a time only.                       *)

Grows ==
  /\ used' \in Nat /\ used <= used'
  /\ lapsed \subseteq lapsed' /\ robbed \subseteq robbed' /\ signalled \subseteq signalled'
  /\ \A i \in 1..used : owner'[i] = owner[i]
  /\ \A p \in Procs : run[p] = "dead" => run'[p] = "dead"

\* The steps in which an actor refers to an acquisition of its own.
Using == {"writing", "holding", "unlinking"}

\* A step that gives no actor and no process an acquisition.
UsersStay ==
  /\ \A a \in Actors : step'[a] \in Using => step'[a] = step[a] /\ mine'[a] = mine[a]
  /\ \A p \in Procs : held'[p] = held[p] \/ held'[p] = NotHeld

LEMMA GrowsStep ==
  ASSUME LockTypeOK, Owned, LockNext
  PROVE  Grows
<1> USE LockAssumption DEF LockTypeOK, Grows, disk, counters
<1>1. ASSUME NEW a \in Actors, Acquire(a) \/ Exists(a) \/ Read(a) \/ CheckAge(a) \/ GiveUp(a)
      PROVE  Grows
  BY <1>1 DEF Acquire, Exists, Read, CheckAge, GiveUp, Inspected, Enter
<1>2. ASSUME NEW a \in Actors, Create(a) PROVE Grows
  BY <1>2 DEF Create, Ids
<1>3. ASSUME NEW a \in Actors, Write(a) \/ Release(a) PROVE Grows
  BY <1>3 DEF Write, Release
<1>4. ASSUME NEW a \in Actors, WriteFails(a) \/ Remove(a) \/ Unlink(a) PROVE Grows
  BY <1>4 DEF WriteFails, Remove, Unlink, Rm
<1>5. ASSUME NEW p \in Procs, Watchdog(p) \/ WatchdogUnlink(p) \/ Overrun(p) PROVE Grows
  BY <1>5 DEF Watchdog, WatchdogUnlink, Overrun, Rm
<1>6. ASSUME NEW p \in Procs, StartProc(p) PROVE Grows
  BY <1>6 DEF StartProc
<1>7. ASSUME NEW p \in Procs, CleanRead(p) PROVE Grows
  BY <1>7 DEF CleanRead
<1>8. ASSUME NEW p \in Procs, CleanRemove(p) PROVE Grows
  BY <1>8 DEF CleanRemove, Rm
<1>9. ASSUME NEW p \in Procs, Crash(p) PROVE Grows
  BY <1>9 DEF Crash, Dead
<1>10. ASSUME NEW p \in Procs, Terminate(p) PROVE Grows
  BY <1>10 DEF Terminate, Dead, Rm
<1>11. ASSUME NEW p \in Procs, Signal(p) PROVE Grows
  BY <1>11 DEF Signal, Rm
<1>12. CASE Age
  BY <1>12 DEF Age
<1> QED
  BY <1>1, <1>2, <1>3, <1>4, <1>5, <1>6, <1>7, <1>8, <1>9, <1>10, <1>11, <1>12
  DEF LockNext, WaitStep, HoldStep, CleanStep

LEMMA UsersStayStep ==
  ASSUME LockTypeOK, Owned, LockNext,
         \A a \in Actors : ~Acquire(a) /\ ~Create(a) /\ ~Write(a) /\ ~Release(a)
  PROVE  UsersStay
<1> USE LockAssumption DEF LockTypeOK, UsersStay, Using, Enter, Inspected
<1>1. ASSUME NEW a \in Actors, Exists(a) \/ Read(a) \/ CheckAge(a) \/ GiveUp(a)
      PROVE  UsersStay
  BY <1>1 DEF Exists, Read, CheckAge, GiveUp
<1>2. ASSUME NEW a \in Actors, WriteFails(a) \/ Remove(a) \/ Unlink(a)
      PROVE  UsersStay
  BY <1>2 DEF WriteFails, Remove, Unlink
<1>3. ASSUME NEW p \in Procs, Watchdog(p) \/ WatchdogUnlink(p) \/ Overrun(p) \/ Signal(p)
      PROVE  UsersStay
  BY <1>3 DEF Watchdog, WatchdogUnlink, Overrun, Signal
<1>4. ASSUME NEW p \in Procs, StartProc(p) \/ CleanRead(p) \/ CleanRemove(p)
      PROVE  UsersStay
  BY <1>4 DEF StartProc, CleanRead, CleanRemove
<1>5. ASSUME NEW p \in Procs, Crash(p) \/ Terminate(p) PROVE UsersStay
  BY <1>5 DEF Crash, Terminate, Dead
<1>6. CASE Age
  BY <1>6 DEF Age
<1> QED
  BY <1>1, <1>2, <1>3, <1>4, <1>5, <1>6 DEF LockNext, WaitStep, HoldStep, CleanStep

-----------------------------------------------------------------------------
(* Who writes a payload or removes a file does so alone. *)

Alone ==
  \A a \in Actors : step[a] \in {"writing", "unlinking"} =>
    /\ \A b \in Actors : b # a /\ step[b] \in Using => mine[b] # mine[a]
    /\ \A p \in Procs : held[p].id # mine[a]

HoldersOf(p, i) == {a \in Actors : step[a] = "holding" /\ ProcOf[a] = p /\ mine[a] = i}

\* The entry of HELD_LOCKS is that of the holders within their limits, and counts them.
Counted ==
  /\ \A a \in Actors : step[a] = "holding" /\ mine[a] \notin Excused
        => held[ProcOf[a]].id = mine[a]
  /\ \A p \in Procs : held[p] # NotHeld
        => held[p].count = Cardinality(HoldersOf(p, held[p].id))

\* The last holder is the only one.
LEMMA LastHolder ==
  ASSUME LockTypeOK, Counted, NEW a \in Actors, step[a] = "holding",
         held[ProcOf[a]] # NotHeld, held[ProcOf[a]].id = mine[a], held[ProcOf[a]].count <= 1
  PROVE  \A b \in Actors : step[b] = "holding" /\ ProcOf[b] = ProcOf[a] /\ mine[b] = mine[a]
            => b = a
<1> DEFINE p == ProcOf[a]
           H == HoldersOf(p, mine[a])
<1>1. p \in Procs /\ IsFiniteSet(Actors)
  BY LockAssumption
<1>2. H \subseteq Actors /\ a \in H
  BY DEF HoldersOf
<1>3. IsFiniteSet(H)
  BY <1>1, <1>2, FS_Subset
<1>4. held[p].count = Cardinality(H)
  BY <1>1 DEF Counted
<1>5. Cardinality(H) <= 1
  BY <1>4
<1>6. IsFiniteSet(H \ {a}) /\ Cardinality(H \ {a}) = Cardinality(H) - 1
  BY <1>2, <1>3, FS_RemoveElement
<1>7. Cardinality(H \ {a}) \in Nat /\ Cardinality(H) \in Nat
  BY <1>3, <1>6, FS_CardinalityType
<1>8. Cardinality(H \ {a}) = 0
  BY <1>5, <1>6, <1>7
<1>9. H \ {a} = {}
  BY <1>6, <1>8, FS_EmptySet
<1> QED
  BY <1>9 DEF HoldersOf

LEMMA AloneStep ==
  ASSUME LockTypeOK, Owned, Alone, Counted, LockNext
  PROVE  Alone'
<1> USE LockAssumption DEF LockTypeOK, Using, Enter
<1>1. ASSUME NEW a \in Actors, Acquire(a) PROVE Alone'
  <2> DEFINE p == ProcOf[a]
  <2>1. \A q \in Procs : held'[q].id = held[q].id
    <3>1. held[p] \in [id : Ids \cup {None}, count : Nat]
      OBVIOUS
    <3>2. held' = held \/ held' = [held EXCEPT ![p] = [held[p] EXCEPT !.count = held[p].count + 1]]
      BY <1>1 DEF Acquire
    <3> QED
      BY <3>1, <3>2
  <2>2. \A b \in Actors : b # a => step'[b] = step[b] /\ mine'[b] = mine[b]
    BY <1>1 DEF Acquire
  <2>3. step'[a] = "opening" \/ (step'[a] = "holding" /\ mine'[a] = held[p].id)
    BY <1>1 DEF Acquire
  <2>4. ASSUME NEW b \in Actors, step'[b] \in {"writing", "unlinking"}
        PROVE  /\ \A c \in Actors : c # b /\ step'[c] \in Using => mine'[c] # mine'[b]
               /\ \A q \in Procs : held'[q].id # mine'[b]
    <3>1. b # a /\ step[b] \in {"writing", "unlinking"} /\ mine'[b] = mine[b]
      BY <2>2, <2>3, <2>4
    <3>2. \A q \in Procs : held[q].id # mine[b]
      BY <3>1 DEF Alone
    <3>3. \A c \in Actors : c # b /\ c # a /\ step'[c] \in Using => mine'[c] # mine[b]
      BY <2>2, <3>1 DEF Alone
    <3>4. step'[a] \in Using => mine'[a] # mine[b]
      BY <2>3, <3>2
    <3> QED
      BY <2>1, <3>1, <3>2, <3>3, <3>4
  <2> QED
    BY <2>4 DEF Alone
<1>2. ASSUME NEW a \in Actors, Create(a) PROVE Alone'
  <2>1. mine'[a] = used + 1 /\ step'[a] = "writing" /\ held' = held
    BY <1>2 DEF Create
  <2>2. \A b \in Actors : b # a => step'[b] = step[b] /\ mine'[b] = mine[b]
    BY <1>2 DEF Create
  <2>3. \A b \in Actors : step[b] \in Using => mine[b] <= used
    BY DEF Owned
  <2>4. \A q \in Procs : held[q].id <= used
    BY DEF Owned, NotHeld, None
  <2>5. \A b \in Actors : b # a /\ step[b] \in Using => mine[b] # mine'[a]
    BY <2>1, <2>3
  <2>6. \A q \in Procs : held'[q].id # mine'[a]
    BY <2>1, <2>4
  <2>7. ASSUME NEW b \in Actors, b # a, step'[b] \in {"writing", "unlinking"}
        PROVE  /\ \A c \in Actors : c # b /\ step'[c] \in Using => mine'[c] # mine'[b]
               /\ \A q \in Procs : held'[q].id # mine'[b]
    <3>1. step[b] \in {"writing", "unlinking"} /\ mine'[b] = mine[b]
      BY <2>2, <2>7
    <3>2. mine[b] # mine'[a]
      BY <2>5, <2>7, <3>1
    <3>3. \A c \in Actors : c # b /\ c # a /\ step'[c] \in Using => mine'[c] # mine[b]
      BY <2>2, <3>1 DEF Alone
    <3> QED
      BY <2>1, <3>1, <3>2, <3>3 DEF Alone
  <2>8. \A c \in Actors : c # a /\ step'[c] \in Using => mine'[c] # mine'[a]
    BY <2>2, <2>5
  <2> QED
    BY <2>6, <2>7, <2>8 DEF Alone
<1>3. ASSUME NEW a \in Actors, Write(a) PROVE Alone'
  <2>1. step[a] = "writing" /\ step'[a] = "holding" /\ mine' = mine
    BY <1>3 DEF Write
  <2>2. \A b \in Actors : b # a => step'[b] = step[b]
    BY <1>3 DEF Write
  <2>3. \A q \in Procs : held'[q].id = held[q].id \/ held'[q].id = mine[a]
    BY <1>3 DEF Write
  <2> QED
    BY <2>1, <2>2, <2>3 DEF Alone
<1>4. ASSUME NEW a \in Actors, Release(a) PROVE Alone'
  <2> DEFINE p == ProcOf[a]
  <2>1. step[a] = "holding" /\ mine' = mine /\ Up(a)
    BY <1>4 DEF Release
  <2>2. \A b \in Actors : b # a => step'[b] = step[b]
    BY <1>4 DEF Release
  <2>3. \A q \in Procs : held'[q].id = held[q].id \/ held'[q] = NotHeld
    <3>1. held[p] \in [id : Ids \cup {None}, count : Nat]
      OBVIOUS
    <3> DEFINE e == [held[p] EXCEPT !.count = held[p].count - 1]
    <3>2. \/ held' = held \/ held' = [held EXCEPT ![p] = NotHeld]
          \/ held' = [held EXCEPT ![p] = e]
      BY <1>4 DEF Release
    <3>3. e.id = held[p].id
      BY <3>1
    <3> HIDE DEF e
    <3> QED
      BY <3>2, <3>3
  <2>4. \A b \in Actors : step[b] \in Using => mine[b] # None
    BY DEF Owned, None
  <2>5. \A b \in Actors, q \in Procs : step[b] \in {"writing", "unlinking"} => held'[q].id # mine[b]
    BY <2>3, <2>4 DEF Alone, NotHeld
  <2>6. CASE step'[a] = "over"
    BY <2>1, <2>2, <2>5, <2>6 DEF Alone
  <2>7. CASE step'[a] # "over"
    <3>1. /\ step'[a] = "unlinking" /\ held[p].id = mine[a] /\ ~(held[p].count > 1)
          /\ held' = [held EXCEPT ![p] = NotHeld]
      BY <1>4, <2>7 DEF Release
    <3>2. held[p] # NotHeld /\ held[p].count <= 1
      BY <2>1, <2>4, <3>1 DEF NotHeld
    <3>3. \A b \in Actors : step[b] = "holding" /\ ProcOf[b] = p /\ mine[b] = mine[a] => b = a
      BY <2>1, <3>1, <3>2, LastHolder
    <3>4. \A b \in Actors : step[b] \in Using /\ mine[b] = mine[a] => ProcOf[b] = p
      BY <2>1 DEF Owned
    <3>5. \A b \in Actors : step[b] \in {"writing", "unlinking"} => mine[b] # mine[a]
      BY <3>1 DEF Alone
    <3>6. \A b \in Actors : b # a /\ step[b] \in Using => mine[b] # mine[a]
      BY <3>3, <3>4, <3>5
    <3>7. \A q \in Procs : held'[q].id # mine[a]
      <4>1. held'[p].id = None /\ mine[a] # None
        BY <2>1, <2>4, <3>1 DEF NotHeld
      <4>2. \A q \in Procs : q # p => held'[q] = held[q]
        BY <3>1
      <4>3. \A q \in Procs : held[q].id = mine[a] => owner[mine[a]] = q
        BY <2>1, <2>4 DEF Owned, NotHeld
      <4>4. owner[mine[a]] = p
        BY <2>1 DEF Owned
      <4> QED
        BY <4>1, <4>2, <4>3, <4>4
    <3>8. ASSUME NEW b \in Actors, b # a, step'[b] \in {"writing", "unlinking"}
          PROVE  \A c \in Actors : c # b /\ step'[c] \in Using => mine[c] # mine[b]
      BY <2>1, <2>2, <3>8 DEF Alone
    <3>9. \A c \in Actors : c # a /\ step'[c] \in Using => mine[c] # mine[a]
      BY <2>2, <3>6
    <3>10. \A b \in Actors, q \in Procs :
              b # a /\ step'[b] \in {"writing", "unlinking"} => held'[q].id # mine[b]
      BY <2>2, <2>5
    <3> QED
      BY <2>1, <3>7, <3>8, <3>9, <3>10 DEF Alone
  <2> QED
    BY <2>6, <2>7
<1>5. CASE \A a \in Actors : ~Acquire(a) /\ ~Create(a) /\ ~Write(a) /\ ~Release(a)
  <2>1. UsersStay
    BY <1>5, UsersStayStep
  <2>2. \A b \in Actors : step[b] \in Using => mine[b] # None
    BY DEF Owned, None
  <2>3. \A c \in Actors : step'[c] \in Using => step'[c] = step[c] /\ mine'[c] = mine[c]
    BY <2>1 DEF UsersStay
  <2>4. \A b \in Actors, q \in Procs : step[b] \in {"writing", "unlinking"} => held'[q].id # mine[b]
    <3>1. ASSUME NEW b \in Actors, NEW q \in Procs, step[b] \in {"writing", "unlinking"}
          PROVE  held'[q].id # mine[b]
      <4>1. held[q].id # mine[b] /\ mine[b] # None
        BY <2>2, <3>1 DEF Alone
      <4>2. held'[q] = held[q] \/ held'[q] = NotHeld
        BY <2>1 DEF UsersStay
      <4> QED
        BY <4>1, <4>2 DEF NotHeld
    <3> QED
      BY <3>1
  <2> QED
    BY <2>3, <2>4 DEF Alone
<1> QED
  BY <1>1, <1>2, <1>3, <1>4, <1>5

-----------------------------------------------------------------------------
(* What a waiter or a start may remove: an acquisition that is excused, or   *)
(* one whose owner is dead.                                                  *)

Forfeit(i) == i \in 1..used /\ (i \in Excused \/ OwnerDead(i))

StaleIsForfeit ==
  /\ \A i \in old : Forfeit(i)
  /\ overdue \subseteq lapsed
  /\ \A p \in Procs : forced[p] # None => forced[p] \in lapsed
  /\ \A a \in Actors : step[a] = "removing" => Forfeit(seen[a])
  /\ \A p \in Procs : seen[p] # None => Forfeit(seen[p])

LEMMA ForfeitStays ==
  ASSUME LockTypeOK, Grows, NEW i, Forfeit(i)
  PROVE  Forfeit(i)'
<1> USE LockAssumption DEF LockTypeOK, Grows
<1>1. i \in 1..used' /\ owner'[i] = owner[i]
  BY DEF Forfeit
<1>2. owner[i] \in Procs
  <2>1. MaxIds \in Nat /\ i \in 1..used
    BY DEF Forfeit
  <2>2. i \in Ids
    BY <2>1 DEF Ids
  <2> QED
    BY <2>2
<1> QED
  BY <1>1, <1>2 DEF Forfeit, Excused, OwnerDead

LEMMA StaleStep ==
  ASSUME LockTypeOK, Owned, StaleIsForfeit, LockNext
  PROVE  StaleIsForfeit'
<1> USE LockAssumption DEF LockTypeOK, Enter, disk, counters
<1>0. Grows
  BY GrowsStep
<1>1. \A i : Forfeit(i) => Forfeit(i)'
  BY <1>0, ForfeitStays
<1>2. lapsed \subseteq lapsed'
  BY <1>0 DEF Grows
<1> HIDE DEF LockTypeOK
<1>3. ASSUME UNCHANGED <<old, overdue, forced, seen>>,
             \A a \in Actors : step'[a] = "removing" => step[a] = "removing"
      PROVE  StaleIsForfeit'
  BY <1>1, <1>2, <1>3 DEF StaleIsForfeit
<1> USE DEF LockTypeOK
<1>4. ASSUME NEW a \in Actors, \/ Acquire(a) \/ Create(a) \/ Exists(a) \/ Write(a) \/ WriteFails(a)
                              \/ GiveUp(a) \/ Release(a) \/ Unlink(a)
      PROVE  StaleIsForfeit'
  <2>1. UNCHANGED <<old, overdue, forced, seen>>
    BY <1>4 DEF Acquire, Create, Exists, Write, WriteFails, GiveUp, Release, Unlink, Rm
  <2>2. \A b \in Actors : step'[b] = "removing" => step[b] = "removing"
    BY <1>4 DEF Acquire, Create, Exists, Write, WriteFails, GiveUp, Release, Unlink
  <2> QED
    BY <2>1, <2>2, <1>3
<1>5. ASSUME NEW a \in Actors, Read(a) \/ CheckAge(a) PROVE StaleIsForfeit'
  <2>1. UNCHANGED <<old, overdue, forced, used, lapsed, robbed, signalled, owner, run>>
    BY <1>5 DEF Read, CheckAge
  <2>2. \A x \in Actors \cup Procs : x # a => seen'[x] = seen[x]
    BY <1>5 DEF Read, CheckAge, Inspected
  <2>3. \A b \in Actors : b # a => step'[b] = step[b]
    BY <1>5 DEF Read, CheckAge, Inspected
  <2>4. step'[a] = "removing" => seen'[a] = file /\ file # None
                                 /\ (file \in old \/ OwnerDead(file))
    BY <1>5 DEF Read, CheckAge, Inspected, None, Ids
  <2>5. step'[a] = "removing" => Forfeit(seen'[a])
    BY <2>4 DEF StaleIsForfeit, Forfeit, Owned, None, Ids
  <2>6. \A i : Forfeit(i)' <=> Forfeit(i)
    BY <2>1 DEF Forfeit, Excused, OwnerDead
  <2>7. \A p \in Procs : p # a
    BY DEF LockTypeOK
  <2> QED
    BY <2>1, <2>2, <2>3, <2>5, <2>6, <2>7 DEF StaleIsForfeit
<1>6. ASSUME NEW p \in Procs, Watchdog(p) \/ WatchdogUnlink(p) PROVE StaleIsForfeit'
  <2>1. UNCHANGED <<old, overdue, seen, step>>
    BY <1>6 DEF Watchdog, WatchdogUnlink, Rm
  <2>2. \A q \in Procs : forced'[q] \in overdue \cup {forced[q], None}
    BY <1>6 DEF Watchdog, WatchdogUnlink
  <2> QED
    BY <1>1, <1>2, <2>1, <2>2 DEF StaleIsForfeit
<1>7. ASSUME NEW p \in Procs, Overrun(p) PROVE StaleIsForfeit'
  <2>1. UNCHANGED <<old, forced, seen, step>> /\ overdue' \subseteq lapsed'
    BY <1>7 DEF Overrun, StaleIsForfeit
  <2> QED
    BY <1>1, <1>2, <2>1 DEF StaleIsForfeit
<1>8. ASSUME NEW p \in Procs, StartProc(p) \/ Signal(p) PROVE StaleIsForfeit'
  <2>1. UNCHANGED <<old, overdue, forced, seen, step>>
    BY <1>8 DEF StartProc, Signal, Rm
  <2> QED
    BY <2>1, <1>3
<1>9. ASSUME NEW p \in Procs, CleanRead(p) PROVE StaleIsForfeit'
  <2>1. UNCHANGED <<old, overdue, forced, step>>
    BY <1>9 DEF CleanRead
  <2>2. \A x \in Actors \cup Procs : x # p => seen'[x] = seen[x]
    BY <1>9 DEF CleanRead
  <2>3. \A a \in Actors : a # p
    BY DEF LockTypeOK
  <2>4. CASE seen' = seen
    BY <2>1, <2>4, <1>3
  <2>5. CASE seen' # seen
    <3>1. Stale(file) /\ seen'[p] = file /\ UNCHANGED <<used, owner, run, lapsed>>
      BY <1>9, <2>5 DEF CleanRead
    <3>2. file \in 1..used
      BY <3>1 DEF Stale, Owned, None, Ids
    <3>3. ASSUME file \in old PROVE Forfeit(seen[p])'
      BY <3>1, <3>3, <1>1 DEF StaleIsForfeit
    <3>4. ASSUME OwnerDead(file) PROVE Forfeit(seen[p])'
      BY <3>1, <3>2, <3>4 DEF Forfeit, OwnerDead
    <3>5. ASSUME file \notin written, ~OwnerDead(file) PROVE Forfeit(seen[p])'
      <4>1. file \in robbed'
        BY <1>9, <3>1, <3>5 DEF CleanRead, Stale
      <4> QED
        BY <3>1, <3>2, <4>1 DEF Forfeit, Excused
    <3>6. Forfeit(seen[p])'
      BY <3>1, <3>3, <3>4, <3>5 DEF Stale
    <3> QED
      BY <1>1, <1>2, <2>1, <2>2, <2>3, <3>6 DEF StaleIsForfeit
  <2> QED
    BY <2>4, <2>5
<1>10. ASSUME NEW p \in Procs, Crash(p) \/ Terminate(p) PROVE StaleIsForfeit'
  <2>1. UNCHANGED <<old, overdue, seen>>
    BY <1>10 DEF Crash, Terminate, Dead, Rm
  <2>2. \A q \in Procs : forced'[q] \in {forced[q], None}
    BY <1>10 DEF Crash, Terminate, Dead
  <2>3. \A a \in Actors : step'[a] = "removing" => step[a] = "removing"
    BY <1>10 DEF Crash, Terminate, Dead
  <2> QED
    BY <1>1, <1>2, <2>1, <2>2, <2>3 DEF StaleIsForfeit
<1>11. CASE Age
  <2>1. UNCHANGED <<overdue, forced, seen, step, run, used, owner, robbed, signalled>>
    BY <1>11 DEF Age
  <2>2. old' = old \cup {file} /\ file \in 1..used
    BY <1>11 DEF Age, Owned, None, Ids
  <2>3. OwnerDead(file) \/ file \in lapsed'
    BY <1>11 DEF Age
  <2>4. OwnerDead(file)' <=> OwnerDead(file)
    BY <1>11 DEF Age, OwnerDead
  <2>5. Forfeit(file)'
    BY <2>1, <2>2, <2>3, <2>4, <1>11 DEF Forfeit, Excused, Age, OwnerDead
  <2> QED
    BY <1>1, <1>2, <2>1, <2>2, <2>5, <1>11 DEF StaleIsForfeit, Age
<1>12. ASSUME NEW a \in Actors, Remove(a) PROVE StaleIsForfeit'
  <2>1. UNCHANGED <<old, overdue, forced>>
    BY <1>12 DEF Remove, Rm
  <2>2. \A x \in Actors \cup Procs : x # a => seen'[x] = seen[x]
    BY <1>12 DEF Remove, Inspected
  <2>3. \A b \in Actors : step'[b] = "removing" => b # a /\ step[b] = "removing"
    BY <1>12 DEF Remove, Inspected
  <2>4. \A p \in Procs : p # a
    BY DEF LockTypeOK
  <2> QED
    BY <1>1, <1>2, <2>1, <2>2, <2>3, <2>4 DEF StaleIsForfeit
<1>13. ASSUME NEW p \in Procs, CleanRemove(p) PROVE StaleIsForfeit'
  <2>1. UNCHANGED <<old, overdue, forced, step>>
    BY <1>13 DEF CleanRemove, Rm
  <2>2. seen' = [seen EXCEPT ![p] = None]
    BY <1>13 DEF CleanRemove
  <2>3. \A a \in Actors : seen'[a] = seen[a]
    BY <2>2 DEF LockTypeOK
  <2>4. \A q \in Procs : seen'[q] = seen[q] \/ seen'[q] = None
    BY <2>2 DEF LockTypeOK
  <2> QED
    BY <1>1, <1>2, <2>1, <2>3, <2>4 DEF StaleIsForfeit
<1> QED
  BY <1>4, <1>5, <1>6, <1>7, <1>8, <1>9, <1>10, <1>11, <1>12, <1>13
  DEF LockNext, WaitStep, HoldStep, CleanStep

-----------------------------------------------------------------------------
(* The file at the path is that of whoever refers to it within its limits,   *)
(* and of the entry of HELD_LOCKS.                                           *)

FileIsTheirs ==
  /\ \A a \in Actors : step[a] \in Using /\ mine[a] \notin Excused => file = mine[a]
  /\ \A p \in Procs : held[p] # NotHeld /\ held[p].id \notin Excused => file = held[p].id

\* A removal hits no one but those it is meant for, or they are excused from then on.
LEMMA RemovalIsSafe ==
  ASSUME LockTypeOK, Owned, FileIsTheirs, Grows, UsersStay, NEW i, Rm(i),
         \A a \in Actors : step'[a] \in Using => mine[a] # i \/ i \in Excused',
         \A p \in Procs : held'[p] # NotHeld => held[p].id # i \/ i \in Excused'
  PROVE  FileIsTheirs'
<1>1. Excused \subseteq Excused'
  BY DEF Grows, Excused
<1>2. \/ file' = None /\ file \in {None, i}
      \/ file' = None /\ file \in Excused'
  BY DEF Rm, Excused
<1>3. ASSUME NEW a \in Actors, step'[a] \in Using, mine'[a] \notin Excused' PROVE FALSE
  <2>1. step[a] \in Using /\ mine'[a] = mine[a]
    BY <1>3 DEF UsersStay
  <2>2. file = mine[a] /\ mine[a] # None /\ mine[a] # i
    BY <1>1, <1>3, <2>1 DEF FileIsTheirs, Owned, Using, None
  <2> QED
    BY <1>2, <1>3, <2>1, <2>2
<1>4. ASSUME NEW p \in Procs, held'[p] # NotHeld, held'[p].id \notin Excused' PROVE FALSE
  <2>1. held'[p] = held[p]
    BY <1>4 DEF UsersStay
  <2>2. file = held[p].id /\ held[p].id # None /\ held[p].id # i
    BY <1>1, <1>4, <2>1 DEF FileIsTheirs, Owned, None
  <2> QED
    BY <1>2, <1>4, <2>1, <2>2
<1> QED
  BY <1>3, <1>4 DEF FileIsTheirs

\* A file whose acquisition is forfeit is nobody's who is not excused.
LEMMA ForfeitIsFree ==
  ASSUME Owned, NEW i, Forfeit(i)
  PROVE  /\ \A a \in Actors : step[a] \in Using => mine[a] # i \/ i \in Excused
         /\ \A p \in Procs : held[p] # NotHeld => held[p].id # i \/ i \in Excused
BY DEF Owned, Forfeit, OwnerDead, Using

LEMMA FileStep ==
  ASSUME LockTypeOK, Owned, Alone, StaleIsForfeit, FileIsTheirs, LockNext
  PROVE  FileIsTheirs'
<1> USE LockAssumption DEF Enter
<1>0. Grows
  BY GrowsStep
<1>1. Excused \subseteq Excused'
  BY <1>0 DEF Grows, Excused
<1>2. ASSUME UsersStay, file' = file PROVE FileIsTheirs'
  BY <1>1, <1>2 DEF UsersStay, FileIsTheirs
<1>3. ASSUME NEW a \in Actors, Acquire(a) PROVE FileIsTheirs'
  <2> DEFINE p == ProcOf[a]
  <2>1. UNCHANGED file
    BY <1>3 DEF Acquire, disk
  <2>2. \A b \in Actors : b # a => step'[b] = step[b] /\ mine'[b] = mine[b]
    BY <1>3 DEF Acquire, LockTypeOK
  <2>3. step'[a] \in Using => mine'[a] = held[p].id /\ held[p] # NotHeld
    BY <1>3 DEF Acquire, LockTypeOK, Using
  <2>4. \A q \in Procs : held'[q] # NotHeld => held[q] # NotHeld /\ held'[q].id = held[q].id
    <3>1. held[p] \in [id : Ids \cup {None}, count : Nat]
      BY DEF LockTypeOK
    <3> DEFINE e == [held[p] EXCEPT !.count = held[p].count + 1]
    <3>2. held' = held \/ (held[p] # NotHeld /\ held' = [held EXCEPT ![p] = e])
      BY <1>3 DEF Acquire
    <3>3. e.id = held[p].id
      BY <3>1
    <3> HIDE DEF e
    <3> QED
      BY <3>2, <3>3 DEF LockTypeOK
  <2> QED
    BY <1>1, <2>1, <2>2, <2>3, <2>4 DEF FileIsTheirs
<1>4. ASSUME NEW a \in Actors, Create(a) PROVE FileIsTheirs'
  <2>1. file = None /\ file' = mine'[a] /\ held' = held
    BY <1>4 DEF Create, LockTypeOK
  <2>2. \A b \in Actors : b # a => step'[b] = step[b] /\ mine'[b] = mine[b]
    BY <1>4 DEF Create, LockTypeOK
  <2>3. \A b \in Actors : step[b] \in Using => mine[b] # None
    BY DEF Owned, Using, None
  <2>4. \A q \in Procs : held[q] # NotHeld => held[q].id # None
    BY DEF Owned, None
  <2>5. \A b \in Actors : b # a /\ step'[b] \in Using => mine'[b] \in Excused'
    BY <1>1, <2>1, <2>2, <2>3 DEF FileIsTheirs
  <2>6. \A q \in Procs : held'[q] # NotHeld => held'[q].id \in Excused'
    BY <1>1, <2>1, <2>4 DEF FileIsTheirs
  <2> QED
    BY <2>1, <2>5, <2>6 DEF FileIsTheirs
<1>5. ASSUME NEW a \in Actors, Write(a) PROVE FileIsTheirs'
  <2>1. file' = file /\ mine' = mine /\ step[a] \in Using
    BY <1>5 DEF Write, Using
  <2>2. \A b \in Actors : b # a => step'[b] = step[b]
    BY <1>5 DEF Write, LockTypeOK
  <2>3. \A q \in Procs : held'[q] = held[q] \/ held'[q].id = mine[a]
    BY <1>5 DEF Write, LockTypeOK
  <2> QED
    BY <1>1, <2>1, <2>2, <2>3 DEF FileIsTheirs
<1>6. ASSUME NEW a \in Actors, Release(a) PROVE FileIsTheirs'
  <2> DEFINE p == ProcOf[a]
  <2>1. file' = file /\ mine' = mine /\ step[a] \in Using
    BY <1>6 DEF Release, Using, disk
  <2>2. \A b \in Actors : b # a => step'[b] = step[b]
    BY <1>6 DEF Release, LockTypeOK
  <2>3. \A q \in Procs : held'[q] # NotHeld => held[q] # NotHeld /\ held'[q].id = held[q].id
    <3>1. held[p] \in [id : Ids \cup {None}, count : Nat]
      BY DEF LockTypeOK
    <3> DEFINE e == [held[p] EXCEPT !.count = held[p].count - 1]
    <3>2. \/ held' = held \/ held' = [held EXCEPT ![p] = NotHeld]
          \/ held[p].id = mine[a] /\ held' = [held EXCEPT ![p] = e]
      BY <1>6 DEF Release
    <3>3. e.id = held[p].id
      BY <3>1
    <3>4. mine[a] # None
      BY <2>1 DEF Owned, None, Using
    <3>5. held[p].id = mine[a] => held[p] # NotHeld
      BY <3>4 DEF NotHeld
    <3> HIDE DEF e
    <3>6. \A q \in Procs : q # p => held'[q] = held[q]
      BY <3>2 DEF LockTypeOK
    <3>7. held'[p] = held[p] \/ held'[p] = NotHeld \/ (held[p].id = mine[a] /\ held'[p] = e)
      BY <3>2 DEF LockTypeOK
    <3> QED
      BY <3>3, <3>5, <3>6, <3>7
  <2> QED
    BY <1>1, <2>1, <2>2, <2>3 DEF FileIsTheirs
<1>7. ASSUME \A a \in Actors : ~Acquire(a) /\ ~Create(a) /\ ~Write(a) /\ ~Release(a)
      PROVE  FileIsTheirs'
  <2>0. UsersStay
    BY <1>7, UsersStayStep
  <2>1. \A p \in Procs : held'[p] # NotHeld => held'[p] = held[p] /\ held[p] # NotHeld
    BY <2>0 DEF UsersStay
  <2>2. \A a \in Actors : step'[a] \in Using => step[a] \in Using
    BY <2>0 DEF UsersStay
  <2>3. ASSUME NEW i, Forfeit(i), Rm(i) PROVE FileIsTheirs'
    BY <1>0, <1>1, <2>0, <2>1, <2>2, <2>3, ForfeitIsFree, RemovalIsSafe
  <2>4. ASSUME NEW a \in Actors, WriteFails(a) \/ Unlink(a) PROVE FileIsTheirs'
    <3>1. Rm(mine[a]) /\ step[a] \in {"writing", "unlinking"} /\ step'[a] = "over"
      BY <2>4 DEF WriteFails, Unlink, LockTypeOK
    <3>2. \A b \in Actors : step'[b] \in Using => mine[b] # mine[a]
      BY <2>2, <3>1 DEF Alone, Using
    <3>3. \A q \in Procs : held[q].id # mine[a]
      BY <3>1 DEF Alone
    <3> QED
      BY <1>0, <2>0, <3>1, <3>2, <3>3, RemovalIsSafe
  <2>5. ASSUME NEW a \in Actors, Remove(a) PROVE FileIsTheirs'
    BY <2>3, <2>5 DEF Remove, StaleIsForfeit
  <2>6. ASSUME NEW p \in Procs, WatchdogUnlink(p) PROVE FileIsTheirs'
    <3>1. Rm(forced[p]) /\ forced[p] \in Excused
      BY <2>6 DEF WatchdogUnlink, StaleIsForfeit, Excused
    <3> QED
      BY <1>0, <1>1, <2>0, <3>1, RemovalIsSafe
  <2>7. ASSUME NEW p \in Procs, CleanRemove(p) PROVE FileIsTheirs'
    BY <2>3, <2>7 DEF CleanRemove, StaleIsForfeit
  <2>8. ASSUME NEW p \in Procs, Terminate(p), held[p] # NotHeld PROVE FileIsTheirs'
    <3>1. Rm(held[p].id) /\ held'[p] = NotHeld
      BY <2>8 DEF Terminate, Dead, LockTypeOK
    <3>2. \A a \in Actors : step'[a] \in Using => ProcOf[a] # p
      BY <2>8 DEF Terminate, Dead, Using
    <3>3. owner[held[p].id] = p
      BY <2>8 DEF Owned
    <3>4. \A a \in Actors : step'[a] \in Using => mine[a] # held[p].id
      BY <2>2, <3>2, <3>3 DEF Owned, Using
    <3>5. \A q \in Procs : held'[q] # NotHeld => held[q].id # held[p].id
      BY <2>1, <3>1, <3>3 DEF Owned
    <3> QED
      BY <1>0, <2>0, <3>1, <3>4, <3>5, RemovalIsSafe
  <2>9. ASSUME NEW p \in Procs, Terminate(p), held[p] = NotHeld PROVE FileIsTheirs'
    BY <1>2, <2>0, <2>9 DEF Terminate, Dead, disk
  <2>10. ASSUME NEW a \in Actors, Exists(a) \/ Read(a) \/ CheckAge(a) \/ GiveUp(a)
         PROVE  FileIsTheirs'
    BY <1>2, <2>0, <2>10 DEF Exists, Read, CheckAge, GiveUp, disk
  <2>11. ASSUME NEW p \in Procs, \/ Watchdog(p) \/ Overrun(p) \/ StartProc(p)
                                 \/ CleanRead(p) \/ Crash(p)
         PROVE  FileIsTheirs'
    BY <1>2, <2>0, <2>11 DEF Watchdog, Overrun, StartProc, CleanRead, Crash, disk
  <2>12. ASSUME NEW p \in Procs, Signal(p) PROVE FileIsTheirs'
    <3>1. Rm(held[p].id) /\ held[p].id \in Excused'
      BY <2>12 DEF Signal, Excused
    <3> QED
      BY <1>0, <2>0, <3>1, RemovalIsSafe
  <2>13. CASE Age
    BY <1>2, <2>0, <2>13 DEF Age
  <2> QED
    BY <1>7, <2>4, <2>5, <2>6, <2>7, <2>8, <2>9, <2>10, <2>11, <2>12, <2>13
    DEF LockNext, WaitStep, HoldStep, CleanStep
<1> QED
  BY <1>3, <1>4, <1>5, <1>6, <1>7

-----------------------------------------------------------------------------
(* Counting the holders. *)

\* A step that changes no holder of an entry that stays.
LEMMA CountStays ==
  ASSUME LockTypeOK, Owned, Counted, Grows, UsersStay,
         \A p \in Procs : held'[p] # NotHeld =>
            \A a \in Actors : step[a] = "holding" /\ ProcOf[a] = p => step'[a] = "holding",
         \A a \in Actors : step'[a] = "holding" =>
            held'[ProcOf[a]] = held[ProcOf[a]] \/ held[ProcOf[a]].id \in Excused'
  PROVE  Counted'
<1> USE LockAssumption
<1>1. Excused \subseteq Excused'
  BY DEF Grows, Excused
<1>2. ASSUME NEW a \in Actors, step'[a] = "holding", mine'[a] \notin Excused'
      PROVE  held'[ProcOf[a]].id = mine'[a]
  <2>1. step[a] = "holding" /\ mine'[a] = mine[a]
    BY <1>2 DEF UsersStay, Using
  <2>2. held[ProcOf[a]].id = mine[a]
    BY <1>1, <1>2, <2>1 DEF Counted
  <2> QED
    BY <1>2, <2>1, <2>2
<1>3. ASSUME NEW p \in Procs, held'[p] # NotHeld
      PROVE  held'[p].count = Cardinality(HoldersOf(p, held[p].id)')
  <2>1. held'[p] = held[p] /\ held[p] # NotHeld
    BY <1>3 DEF UsersStay
  <2>2. HoldersOf(p, held[p].id)' = HoldersOf(p, held[p].id)
    BY <1>3, <2>1 DEF HoldersOf, UsersStay, Using
  <2> QED
    BY <2>1, <2>2 DEF Counted
<1> QED
  BY <1>2, <1>3 DEF Counted

LEMMA CountedStep ==
  ASSUME LockTypeOK, Owned, Alone, StaleIsForfeit, Counted, LockNext
  PROVE  Counted'
<1> USE LockAssumption DEF Enter
<1>0. Grows
  BY GrowsStep
<1>1. Excused \subseteq Excused'
  BY <1>0 DEF Grows, Excused
<1>2. \A p \in Procs : \A i : HoldersOf(p, i) \subseteq Actors /\ IsFiniteSet(HoldersOf(p, i))
  BY FS_Subset DEF HoldersOf
<1>3. ASSUME NEW a \in Actors, Acquire(a) PROVE Counted'
  <2> DEFINE p == ProcOf[a]
             e == [held[p] EXCEPT !.count = held[p].count + 1]
  <2>1. \A b \in Actors : b # a => step'[b] = step[b] /\ mine'[b] = mine[b]
    BY <1>3 DEF Acquire, LockTypeOK
  <2>2. step[a] = "idle" /\ UNCHANGED <<lapsed, robbed, signalled>>
    BY <1>3 DEF Acquire
  <2>3. CASE held[p] = NotHeld
    <3>1. held' = held /\ step'[a] # "holding"
      BY <1>3, <2>3 DEF Acquire, LockTypeOK
    <3>2. \A q \in Procs : \A i : HoldersOf(q, i)' = HoldersOf(q, i)
      BY <2>1, <2>2, <3>1 DEF HoldersOf
    <3> QED
      BY <2>1, <2>2, <3>1, <3>2 DEF Counted, Excused
  <2>4. CASE held[p] # NotHeld
    <3>1. /\ step'[a] = "holding" /\ mine'[a] = held[p].id
          /\ held' = [held EXCEPT ![p] = e]
      BY <1>3, <2>4 DEF Acquire, LockTypeOK
    <3>2. held[p] \in [id : Ids \cup {None}, count : Nat]
      BY DEF LockTypeOK
    <3>3. e.id = held[p].id /\ e.count = held[p].count + 1
      BY <3>2
    <3> HIDE DEF e
    <3>4. held'[p] = e /\ \A q \in Procs : q # p => held'[q] = held[q]
      BY <3>1 DEF LockTypeOK
    <3> DEFINE H == HoldersOf(p, held[p].id)
    <3>5. a \notin H /\ HoldersOf(p, held[p].id)' = H \cup {a}
      BY <2>1, <2>2, <3>1, <3>3, <3>4 DEF HoldersOf
    <3>6. Cardinality(H \cup {a}) = Cardinality(H) + 1
      BY <1>2, <3>5, FS_AddElement
    <3>7. held[p].count = Cardinality(H)
      BY <2>4 DEF Counted
    <3>10. \A b \in Actors : step'[b] = "holding" /\ mine'[b] \notin Excused'
              => held'[ProcOf[b]].id = mine'[b]
      BY <2>1, <2>2, <3>1, <3>3, <3>4 DEF Counted, Excused
    <3>11. ASSUME NEW q \in Procs, held'[q] # NotHeld
           PROVE  held'[q].count = Cardinality(HoldersOf(q, held[q].id)')
      <4>1. CASE q = p
        BY <3>3, <3>4, <3>5, <3>6, <3>7, <4>1
      <4>2. CASE q # p
        <5>1. held'[q] = held[q] /\ held[q].count = Cardinality(HoldersOf(q, held[q].id))
          BY <3>4, <3>11, <4>2 DEF Counted
        <5>2. HoldersOf(q, held[q].id)' = HoldersOf(q, held[q].id)
          BY <2>1, <4>2, <5>1 DEF HoldersOf
        <5> QED
          BY <5>1, <5>2
      <4> QED
        BY <4>1, <4>2
    <3> QED
      BY <3>10, <3>11 DEF Counted
  <2> QED
    BY <2>3, <2>4
<1>4. ASSUME NEW a \in Actors, Create(a) PROVE Counted'
  <2>1. \A b \in Actors : step'[b] = "holding" <=> step[b] = "holding"
    BY <1>4 DEF Create, LockTypeOK
  <2>2. \A b \in Actors : step[b] = "holding" => mine'[b] = mine[b]
    BY <1>4 DEF Create, LockTypeOK
  <2>3. UNCHANGED <<held, lapsed, robbed, signalled>>
    BY <1>4 DEF Create
  <2>4. \A q \in Procs : \A i : HoldersOf(q, i)' = HoldersOf(q, i)
    BY <2>1, <2>2 DEF HoldersOf
  <2> QED
    BY <2>1, <2>2, <2>3, <2>4 DEF Counted, Excused
<1>5. ASSUME NEW a \in Actors, Write(a) PROVE Counted'
  <2> DEFINE p == ProcOf[a]
  <2>1. /\ step[a] = "writing" /\ step'[a] = "holding" /\ mine' = mine
        /\ held'[p] = [id |-> mine[a], count |-> 1]
        /\ \A q \in Procs : q # p => held'[q] = held[q]
        /\ \A b \in Actors : b # a => step'[b] = step[b]
    BY <1>5 DEF Write, LockTypeOK
  <2>2. held[p].id # None => held[p].id \in Excused'
    BY <1>5 DEF Write, Excused
  <2>3. \A b \in Actors : b # a /\ step[b] = "holding" => mine[b] # mine[a] /\ mine[b] # None
    BY <2>1 DEF Alone, Using, Owned, None
  <2>6. ASSUME NEW b \in Actors, step'[b] = "holding", mine'[b] \notin Excused'
        PROVE  held'[ProcOf[b]].id = mine'[b]
    <3>1. CASE b = a
      BY <2>1, <3>1
    <3>2. CASE b # a
      <4>1. step[b] = "holding" /\ mine[b] # None /\ held[ProcOf[b]].id = mine[b]
        BY <1>1, <2>1, <2>3, <2>6, <3>2 DEF Counted
      <4>2. ProcOf[b] # p
        BY <2>1, <2>2, <2>6, <4>1
      <4> QED
        BY <2>1, <4>1, <4>2
    <3> QED
      BY <3>1, <3>2
  <2>7. Cardinality({a}) = 1
    BY FS_Singleton
  <2>8. ASSUME NEW q \in Procs, held'[q] # NotHeld
        PROVE  held'[q].count = Cardinality(HoldersOf(q, held[q].id)')
    <3>1. CASE q = p
      <4>1. HoldersOf(p, held[p].id)' = {a}
        BY <2>1, <2>3 DEF HoldersOf
      <4>2. held'[p].count = 1
        BY <2>1
      <4>3. held'[p].count = Cardinality(HoldersOf(p, held[p].id)')
        BY <2>7, <4>1, <4>2
      <4> HIDE DEF p
      <4> QED
        BY <3>1, <4>3
    <3>2. CASE q # p
      <4>1. held'[q] = held[q] /\ held[q].count = Cardinality(HoldersOf(q, held[q].id))
        BY <2>1, <2>8, <3>2 DEF Counted
      <4>2. HoldersOf(q, held[q].id)' = HoldersOf(q, held[q].id)
        BY <2>1, <3>2, <4>1 DEF HoldersOf
      <4> QED
        BY <4>1, <4>2
    <3> QED
      BY <3>1, <3>2
  <2> QED
    BY <2>6, <2>8 DEF Counted
<1>6. ASSUME NEW a \in Actors, Release(a) PROVE Counted'
  <2> DEFINE p == ProcOf[a]
             e == [held[p] EXCEPT !.count = held[p].count - 1]
             H == HoldersOf(p, mine[a])
  <2>1. step[a] = "holding" /\ step'[a] # "holding" /\ UNCHANGED <<mine, lapsed, robbed, signalled>>
    BY <1>6 DEF Release, LockTypeOK
  <2>2. \A b \in Actors : b # a => step'[b] = step[b]
    BY <1>6 DEF Release, LockTypeOK
  <2>3. mine[a] # None
    BY <2>1 DEF Owned, None
  <2>4. held[p] \in [id : Ids \cup {None}, count : Nat] /\ held[p].count \in Nat
    BY DEF LockTypeOK
  <2>5. e.id = held[p].id /\ e.count = held[p].count - 1
    BY <2>4
  <2> HIDE DEF e
  <2>6. \A q \in Procs : q # p => held'[q] = held[q]
    BY <1>6 DEF Release, LockTypeOK
  <2>7. ASSUME NEW q \in Procs, q # p, held'[q] # NotHeld
        PROVE  held'[q].count = Cardinality(HoldersOf(q, held[q].id)')
    <3>1. held'[q] = held[q]
      BY <2>6, <2>7
    <3>2. HoldersOf(q, held[q].id)' = HoldersOf(q, held[q].id)
      BY <2>1, <2>2, <2>7, <3>1 DEF HoldersOf
    <3>3. held[q].count = Cardinality(HoldersOf(q, held[q].id))
      BY <2>7, <3>1 DEF Counted
    <3> QED
      BY <3>1, <3>2, <3>3
  <2>8. ASSUME NEW b \in Actors, step'[b] = "holding", mine'[b] \notin Excused'
        PROVE  b # a /\ step[b] = "holding" /\ mine'[b] = mine[b] /\ held[ProcOf[b]].id = mine[b]
    BY <2>1, <2>2, <2>8 DEF Counted, Excused
  <2>9. CASE held[p].id # mine[a]
    <3>1. held' = held
      BY <1>6, <2>9 DEF Release
    <3>2. ASSUME held[p] # NotHeld PROVE held[p].count = Cardinality(HoldersOf(p, held[p].id)')
      <4>1. HoldersOf(p, held[p].id)' = HoldersOf(p, held[p].id)
        BY <2>1, <2>2, <2>9, <3>1 DEF HoldersOf
      <4> QED
        BY <3>2, <4>1 DEF Counted
    <3> QED
      BY <2>7, <2>8, <3>1, <3>2 DEF Counted
  <2>10. CASE held[p].id = mine[a] /\ held[p].count > 1
    <3>1. held' = [held EXCEPT ![p] = e]
      BY <1>6, <2>10 DEF Release, e
    <3>2. held'[p] = e /\ held[p] # NotHeld
      BY <2>3, <2>10, <3>1 DEF LockTypeOK, NotHeld
    <3>3. a \in H /\ HoldersOf(p, held[p].id)' = H \ {a}
      BY <2>1, <2>2, <2>5, <2>10, <3>2 DEF HoldersOf
    <3>4. held[p].count = Cardinality(H)
      BY <2>10, <3>2 DEF Counted
    <3>5. Cardinality(H \ {a}) = Cardinality(H) - 1
      BY <1>2, <3>3, FS_RemoveElement
    <3>6. held'[p].count = Cardinality(HoldersOf(p, held[p].id)')
      BY <2>5, <3>2, <3>3, <3>4, <3>5
    <3>7. \A b \in Actors : held'[ProcOf[b]].id = held[ProcOf[b]].id
      BY <2>5, <2>6, <3>2
    <3> QED
      BY <2>7, <2>8, <3>6, <3>7 DEF Counted
  <2>11. CASE held[p].id = mine[a] /\ ~(held[p].count > 1)
    <3>1. held'[p] = NotHeld
      BY <1>6, <2>11 DEF Release, LockTypeOK
    <3>2. held[p] # NotHeld /\ held[p].count <= 1
      BY <2>3, <2>4, <2>11 DEF NotHeld
    <3>3. \A b \in Actors : step[b] = "holding" /\ ProcOf[b] = p /\ mine[b] = mine[a] => b = a
      BY <2>1, <2>11, <3>2, LastHolder
    <3>4. ASSUME NEW b \in Actors, step'[b] = "holding", mine'[b] \notin Excused'
          PROVE  held'[ProcOf[b]].id = mine'[b]
      <4>1. ProcOf[b] # p
        BY <2>8, <2>11, <3>3, <3>4
      <4> QED
        BY <2>6, <2>8, <3>4, <4>1
    <3>5. \A q \in Procs : held'[q] # NotHeld => q # p
      BY <3>1
    <3> QED
      BY <2>7, <3>4, <3>5 DEF Counted
  <2> QED
    BY <2>9, <2>10, <2>11
<1>7. ASSUME \A a \in Actors : ~Acquire(a) /\ ~Create(a) /\ ~Write(a) /\ ~Release(a)
      PROVE  Counted'
  <2>0. UsersStay
    BY <1>7, UsersStayStep
  <2>1. ASSUME \A a \in Actors : step[a] = "holding" => step'[a] = "holding",
               \A p \in Procs : held'[p] = held[p] \/ held[p].id \in Excused'
        PROVE  Counted'
    BY <1>0, <1>1, <2>0, <2>1, CountStays
  <2>2. ASSUME NEW a \in Actors, \/ Exists(a) \/ Read(a) \/ CheckAge(a) \/ GiveUp(a)
                                \/ WriteFails(a) \/ Remove(a) \/ Unlink(a)
        PROVE  Counted'
    <3>1. \A b \in Actors : step[b] = "holding" => step'[b] = "holding"
      BY <2>2 DEF Exists, Read, CheckAge, GiveUp, WriteFails, Remove, Unlink, Inspected,
                   LockTypeOK
    <3>2. held' = held
      BY <2>2 DEF Exists, Read, CheckAge, GiveUp, WriteFails, Remove, Unlink
    <3> QED
      BY <2>1, <3>1, <3>2
  <2>3. ASSUME NEW p \in Procs, Watchdog(p) PROVE Counted'
    <3>1. held[p].id \in Excused /\ step' = step
      BY <2>3 DEF Watchdog, StaleIsForfeit, Excused
    <3>2. \A q \in Procs : q # p => held'[q] = held[q]
      BY <2>3 DEF Watchdog, LockTypeOK
    <3> QED
      BY <1>1, <2>1, <3>1, <3>2
  <2>4. ASSUME NEW p \in Procs, \/ WatchdogUnlink(p) \/ Overrun(p) \/ StartProc(p)
                                \/ CleanRead(p) \/ CleanRemove(p)
        PROVE  Counted'
    <3>1. UNCHANGED <<step, held>>
      BY <2>4 DEF WatchdogUnlink, Overrun, StartProc, CleanRead, CleanRemove
    <3> QED
      BY <2>1, <3>1
  <2>5. ASSUME NEW p \in Procs, Crash(p) \/ Terminate(p) PROVE Counted'
    <3>1. Dead(p)
      BY <2>5 DEF Crash, Terminate
    <3>2. held'[p] = NotHeld /\ \A q \in Procs : q # p => held'[q] = held[q]
      BY <3>1 DEF Dead, LockTypeOK
    <3>3. \A a \in Actors : step'[a] = IF ProcOf[a] = p THEN "dead" ELSE step[a]
      BY <3>1 DEF Dead
    <3>4. \A q \in Procs : held'[q] # NotHeld =>
             \A a \in Actors : step[a] = "holding" /\ ProcOf[a] = q => step'[a] = "holding"
      BY <3>2, <3>3
    <3>5. \A a \in Actors : step'[a] = "holding" => held'[ProcOf[a]] = held[ProcOf[a]]
      BY <3>2, <3>3
    <3> QED
      BY <1>0, <2>0, <3>4, <3>5, CountStays
  <2>6. ASSUME NEW p \in Procs, Signal(p) PROVE Counted'
    <3>1. held[p].id \in Excused' /\ step' = step
      BY <2>6 DEF Signal, Excused
    <3>2. \A q \in Procs : q # p => held'[q] = held[q]
      BY <2>6 DEF Signal, LockTypeOK
    <3> QED
      BY <2>1, <3>1, <3>2
  <2>7. CASE Age
    <3>1. UNCHANGED <<step, held>>
      BY <2>7 DEF Age
    <3> QED
      BY <2>1, <3>1
  <2> QED
    BY <1>7, <2>2, <2>3, <2>4, <2>5, <2>6, <2>7 DEF LockNext, WaitStep, HoldStep, CleanStep
<1> QED
  BY <1>3, <1>4, <1>5, <1>6, <1>7

-----------------------------------------------------------------------------
(* Exclusion. *)

LockInv == /\ LockTypeOK /\ Owned /\ Alone
           /\ StaleIsForfeit /\ FileIsTheirs /\ Counted

LEMMA LockInvInit == LockInit => LockInv
<1> SUFFICES ASSUME LockInit PROVE LockInv
  OBVIOUS
<1>1. LockTypeOK /\ Owned
  BY LockTypeInit, OwnedInit
<1>2. \A a \in Actors : step[a] = "idle"
  BY DEF LockInit
<1>3. \A p \in Procs : held[p] = NotHeld
  BY DEF LockInit
<1>4. Alone /\ FileIsTheirs /\ Counted
  BY <1>2, <1>3 DEF Alone, FileIsTheirs, Counted, Using
<1>5. StaleIsForfeit
  BY <1>2 DEF LockInit, StaleIsForfeit
<1> QED
  BY <1>1, <1>4, <1>5 DEF LockInv

LEMMA LockInvStep == LockInv /\ [LockNext]_lockVars => LockInv'
<1>1. ASSUME LockInv, LockNext PROVE LockInv'
  BY <1>1, LockTypeStep, OwnedStep, AloneStep, StaleStep, FileStep, CountedStep DEF LockInv
<1>2. ASSUME LockInv, UNCHANGED lockVars PROVE LockInv'
  <2>1. LockTypeOK' /\ Owned'
    BY <1>2, OwnedStutter DEF LockInv
  <2>2. Alone' /\ FileIsTheirs' /\ Counted'
    BY <1>2 DEF LockInv, Alone, FileIsTheirs, Counted, HoldersOf, Excused, lockVars, disk
  <2>3. StaleIsForfeit'
    BY <1>2 DEF LockInv, StaleIsForfeit, Forfeit, Excused, OwnerDead, lockVars, disk, counters
  <2> QED
    BY <2>1, <2>2, <2>3 DEF LockInv
<1> QED
  BY <1>1, <1>2

\* Two actors that write to the session at once share one acquisition, nested in one
\* process, unless one of them outlasted its limits, lost its file to a removal meant
\* for another, or lost its lock to a signal that its process outlived
\* (acquireSessionWriteLock, releaseHeldLock, the watchdog, handleTerminationSignal),
\* with any number of processes, deaths, signals, overruns and failed writes.
THEOREM OneWriter == LockSpec => []SingleWriter
<1>1. LockInv => SingleWriter
  BY DEF LockInv, FileIsTheirs, SingleWriter, Holders, Using
<1> QED
  BY <1>1, LockInvInit, LockInvStep, PTL DEF LockSpec

\* Holders within their limits, whose lock no signal released, hold the lock that
\* HELD_LOCKS names; its count is the number of those who still hold it, and the file at
\* the path is theirs.
THEOREM LockIsCounted == LockSpec => []HoldersAreCounted
<1>1. ASSUME LockInv PROVE HoldersAreCounted
  <2>1. \A p \in Procs :
           HoldersOf(p, held[p].id) = {a \in Holders : ProcOf[a] = p /\ mine[a] = held[p].id}
    BY DEF HoldersOf, Holders
  <2> QED
    BY <1>1, <2>1 DEF LockInv, FileIsTheirs, Counted, HoldersAreCounted, Holders
<1> QED
  BY <1>1, LockInvInit, LockInvStep, PTL DEF LockSpec
=============================================================================
