-------------------------- MODULE CommandQueueProofs --------------------------
(****************************************************************************)
(* Proofs about CommandQueue for every set of runs, sessions and lanes      *)
(* configurations.  The inductive invariant IInv adds to the properties of  *)
(* CommandQueue the facts they rest on; DrainLanesPreserves, the lemma on   *)
(* the synchronous pump, is used by every operation.                        *)
(****************************************************************************)
EXTENDS CommandQueue, FunctionTheorems, FiniteSetTheorems, SequenceTheorems, TLAPS

\* Every entry has a lane, and only the session level uses session lanes.
LEMMA LaneOfType ==
    \A e \in Entries :
      /\ LaneOf(e) \in Lanes
      /\ LaneOf(e) \in Sessions <=> e.level = "session"
BY ConstantsAssumption
   DEF Entries, Levels, LaneOf, Lanes, GlobalLanes, ResolveGlobalLane

\* A run has one entry per level, and there are finitely many entries.
LEMMA EntryType ==
    \A r \in Runs, level \in Levels :
      /\ Entry(r, level) \in Entries
      /\ Entry(r, level).run = r
      /\ Entry(r, level).level = level
BY DEF Entry, Entries

LEMMA EntryEta == \A e \in Entries : e = Entry(e.run, e.level)
BY DEF Entry, Entries

LEMMA EntriesFinite == IsFiniteSet(Entries)
<1> DEFINE At(level) == {e \in Entries : e.level = level}
           f(level) == [r \in Runs |-> Entry(r, level)]
<1>1. ASSUME NEW level \in Levels PROVE IsFiniteSet(At(level))
  <2>1. f(level) \in [Runs -> At(level)]
    BY EntryType
  <2>2. \A e \in At(level) : \E r \in Runs : f(level)[r] = e
    BY EntryEta, EntryType DEF Entries
  <2>3. f(level) \in Surjection(Runs, At(level))
    BY <2>1, <2>2, Fun_IsSurj
  <2> QED BY <2>3, FS_Surjection, ConstantsAssumption
<1>2. IsFiniteSet(At("cron") \cup At("session"))
  BY <1>1, FS_Union DEF Levels
<1>3. IsFiniteSet((At("cron") \cup At("session")) \cup At("global"))
  <2> HIDE DEF At
  <2> QED BY <1>1, <1>2, FS_Union DEF Levels
<1>4. Entries = (At("cron") \cup At("session")) \cup At("global")
  BY DEF Entries, Levels
<1> QED BY <1>3, <1>4

\* s holds the members of S, each once.
Lists(s, S) ==
    /\ s \in Seq(Entries)
    /\ \A i, j \in DOMAIN s : s[i] = s[j] => i = j
    /\ {s[i] : i \in DOMAIN s} = S

\* A sequence of Orders(S) lists S.
LEMMA OrdersList ==
    ASSUME NEW S \in SUBSET Entries, NEW s \in Orders(S)
    PROVE  Lists(s, S)
<1> DEFINE n == Cardinality(S)
<1> IsFiniteSet(S)
  BY EntriesFinite, FS_Subset
<1>1. n \in Nat /\ IsFiniteSet(1..n) /\ Cardinality(1..n) = n
  BY FS_CardinalityType, FS_Interval
<1>2. s \in [1..n -> S] /\ \A e \in S : \E i \in 1..n : s[i] = e
  BY DEF Orders
<1>3. s \in Surjection(1..n, S)
  BY <1>2, Fun_IsSurj
<1>4. s \in Injection(1..n, S)
  BY <1>1, <1>3, FS_SurjSameCardinalityImpliesInj
<1>5. \A i, j \in 1..n : s[i] = s[j] => i = j
  BY <1>4, Fun_InjectionProperties
<1>6. s \in Seq(Entries)
  BY <1>1, <1>2, SeqDef
<1> QED BY <1>2, <1>5, <1>6 DEF Lists

LEMMA EmptyList ==
    ASSUME NEW s, Lists(s, {})
    PROVE  s = <<>>
<1>1. s \in Seq(Entries) /\ {s[i] : i \in DOMAIN s} = {}
  BY DEF Lists
<1>2. DOMAIN s = 1..Len(s) /\ Len(s) \in Nat
  BY <1>1, LenProperties
<1>3. DOMAIN s = {}
  BY <1>1
<1>4. Len(s) = 0
  BY <1>2, <1>3
<1> QED BY <1>1, <1>4, EmptySeq

\* Two disjoint lists, one after the other.
LEMMA ConcatLists ==
    ASSUME NEW S, NEW T, NEW s, NEW u, Lists(s, S), Lists(u, T), S \cap T = {}
    PROVE  Lists(s \o u, S \cup T)
<1>1. /\ s \in Seq(Entries) /\ Len(s) \in Nat /\ DOMAIN s = 1..Len(s)
      /\ u \in Seq(Entries) /\ Len(u) \in Nat /\ DOMAIN u = 1..Len(u)
  BY LenProperties DEF Lists
<1>2. /\ s \o u \in Seq(Entries)
      /\ Len(s \o u) = Len(s) + Len(u)
      /\ \A i \in 1..Len(s) + Len(u) :
           (s \o u)[i] = IF i <= Len(s) THEN s[i] ELSE u[i - Len(s)]
  BY <1>1, ConcatProperties
<1>3. DOMAIN (s \o u) = 1..Len(s) + Len(u)
  BY <1>2, LenProperties
<1>4. \A i \in 1..Len(s) : i \in 1..Len(s) + Len(u) /\ (s \o u)[i] = s[i]
  BY <1>1, <1>2
<1>5. \A j \in 1..Len(u) :
        Len(s) + j \in 1..Len(s) + Len(u) /\ (s \o u)[Len(s) + j] = u[j]
  BY <1>1, <1>2
<1>6. \A i \in 1..Len(s) + Len(u) :
        i \notin 1..Len(s) => \E j \in 1..Len(u) : i = Len(s) + j
  <2> SUFFICES ASSUME NEW i \in 1..Len(s) + Len(u), i \notin 1..Len(s)
               PROVE  \E j \in 1..Len(u) : i = Len(s) + j
    OBVIOUS
  <2>1. i - Len(s) \in 1..Len(u) /\ i = Len(s) + (i - Len(s))
    BY <1>1
  <2> QED BY <2>1
<1>7. {(s \o u)[i] : i \in DOMAIN (s \o u)} = S \cup T
  <2>1. S = {s[i] : i \in 1..Len(s)} /\ T = {u[i] : i \in 1..Len(u)}
    BY <1>1 DEF Lists
  <2>2. S \cup T \subseteq {(s \o u)[i] : i \in DOMAIN (s \o u)}
    BY <2>1, <1>3, <1>4, <1>5
  <2>3. {(s \o u)[i] : i \in DOMAIN (s \o u)} \subseteq S \cup T
    <3> SUFFICES ASSUME NEW i \in 1..Len(s) + Len(u)
                 PROVE  (s \o u)[i] \in S \cup T
      BY <1>3
    <3>1. CASE i \in 1..Len(s)
      BY <3>1, <1>4, <2>1
    <3>2. CASE i \notin 1..Len(s)
      <4>1. PICK j \in 1..Len(u) : i = Len(s) + j
        BY <3>2, <1>6
      <4> QED BY <4>1, <1>5, <2>1
    <3> QED BY <3>1, <3>2
  <2> QED BY <2>2, <2>3
<1>8. \A i, j \in DOMAIN (s \o u) : (s \o u)[i] = (s \o u)[j] => i = j
  <2> SUFFICES ASSUME NEW i \in 1..Len(s) + Len(u), NEW j \in 1..Len(s) + Len(u),
                      (s \o u)[i] = (s \o u)[j]
               PROVE  i = j
    BY <1>3
  <2>1. \A x \in 1..Len(s) : s[x] \in S /\ s[x] \notin T
    BY <1>1 DEF Lists
  <2>2. \A x \in 1..Len(u) : u[x] \in T /\ u[x] \notin S
    BY <1>1 DEF Lists
  <2>3. CASE i \in 1..Len(s) /\ j \in 1..Len(s)
    BY <2>3, <1>1, <1>4 DEF Lists
  <2>4. CASE i \notin 1..Len(s) /\ j \notin 1..Len(s)
    <3>1. PICK x \in 1..Len(u) : i = Len(s) + x
      BY <2>4, <1>6
    <3>2. PICK y \in 1..Len(u) : j = Len(s) + y
      BY <2>4, <1>6
    <3>3. u[x] = u[y]
      BY <3>1, <3>2, <1>5
    <3> QED BY <3>1, <3>2, <3>3, <1>1 DEF Lists
  <2>5. CASE i \in 1..Len(s) /\ j \notin 1..Len(s)
    BY <2>5, <1>4, <1>5, <1>6, <2>1, <2>2, SMTT(30)
  <2>6. CASE i \notin 1..Len(s) /\ j \in 1..Len(s)
    BY <2>6, <1>4, <1>5, <1>6, <2>1, <2>2, SMTT(30)
  <2> QED BY <2>3, <2>4, <2>5, <2>6
<1> QED BY <1>2, <1>7, <1>8 DEF Lists

\* S takes the oldest members of w.
OldestFirst(w, S) ==
    \A i, j \in DOMAIN w : i < j /\ w[j] \in S => w[i] \in S

\* What one pump of a lane does to its queue and its slots.
LEMMA PumpEffect ==
    ASSUME NEW W, NEW w, Lists(w, W), NEW held, IsFiniteSet(held), W \cap held = {},
           NEW slots \in Nat \ {0}
    PROVE  /\ Pumped(w, held, slots) \subseteq W
           /\ Lists(LeftWaiting(w, held, slots), W \ Pumped(w, held, slots))
           /\ LeftWaiting(w, held, slots) # <<>>
                => Cardinality(held \cup Pumped(w, held, slots)) >= slots
           /\ Pumped(w, held, slots) # {}
                => Cardinality(held \cup Pumped(w, held, slots)) <= slots
           /\ OldestFirst(w, Pumped(w, held, slots))
<1> PICK rest : rest = LeftWaiting(w, held, slots)
  OBVIOUS
<1> PICK go : go = Pumped(w, held, slots)
  OBVIOUS
<1> w \in Seq(Entries)
  BY DEF Lists
<1>1. /\ Len(w) \in Nat
      /\ DOMAIN w = 1..Len(w)
      /\ \A i \in 1..Len(w) : w[i] \in Entries
      /\ \A i, j \in 1..Len(w) : w[i] = w[j] => i = j
      /\ W = {w[i] : i \in 1..Len(w)}
      /\ \A i \in 1..Len(w) : w[i] \notin held
  BY LenProperties, ElementOfSeq DEF Lists
<1>2. Cardinality(held) \in Nat
  BY FS_CardinalityType
<1>3. PICK k \in 0..Len(w) :
        /\ k = PumpCount(w, held, slots)
        /\ k # Len(w) => Cardinality(held) + k >= slots
        /\ k # 0 => Cardinality(held) + k <= slots
  <2> DEFINE n == Len(w)
             c == Cardinality(held)
             p == IF c + n <= slots THEN n ELSE IF c < slots THEN slots - c ELSE 0
  <2>1. n \in Nat /\ c \in Nat
    BY <1>1, <1>2
  <2>2. PumpCount(w, held, slots) = p
    BY DEF PumpCount
  <2> HIDE DEF n, c
  <2>3. /\ p \in 0..n
        /\ p # n => c + p >= slots
        /\ p # 0 => c + p <= slots
    BY <2>1
  <2> HIDE DEF p
  <2> QED BY <2>2, <2>3 DEF n, c
<1>4. k \in Int /\ k+1 \in Int /\ Len(w) \in Int
      /\ \A i \in k+1..Len(w) : w[i] \in Entries
  BY <1>1, <1>3
<1>5. /\ rest \in Seq(Entries)
      /\ Len(rest) = Len(w) - k
      /\ \A i \in 1..Len(w) - k : rest[i] = w[k + i]
  <2>1. rest = SubSeq(w, k+1, Len(w))
    BY <1>3 DEF LeftWaiting
  <2>2. /\ SubSeq(w, k+1, Len(w)) \in Seq(Entries)
        /\ Len(SubSeq(w, k+1, Len(w))) = IF k+1 <= Len(w) THEN Len(w) - (k+1) + 1 ELSE 0
        /\ \A i \in 1..Len(w) - (k+1) + 1 : SubSeq(w, k+1, Len(w))[i] = w[(k+1) + i - 1]
    BY ONLY <1>4, SubSeqProperties
  <2>3. Len(rest) = Len(w) - k
    BY <2>1, <2>2, <1>1, <1>3
  <2>4. ASSUME NEW i \in 1..Len(w) - k PROVE rest[i] = w[k + i]
    <3>1. i \in 1..Len(w) - (k+1) + 1 /\ (k+1) + i - 1 = k + i
      BY <1>1, <1>3
    <3> QED BY <2>1, <2>2, <3>1
  <2> QED BY <2>1, <2>2, <2>3, <2>4
<1>6. DOMAIN rest = 1..Len(w) - k
  BY <1>5, LenProperties
<1>7. go = {w[i] : i \in 1..k}
  BY <1>3 DEF Pumped
<1>8. IsFiniteSet(go) /\ Cardinality(go) = k
  <2> DEFINE f == [i \in 1..k |-> w[i]]
  <2>1. f \in Bijection(1..k, go)
    BY <1>1, <1>3, <1>7, Fun_IsBij
  <2>2. ExistsBijection(1..k, go)
    BY <2>1 DEF ExistsBijection
  <2>3. IsFiniteSet(1..k) /\ Cardinality(1..k) = k
    BY <1>3, FS_Interval
  <2> QED BY <2>2, <2>3, FS_Bijection
<1>9. held \cap go = {}
  BY <1>1, <1>3, <1>7
<1>10. IsFiniteSet(held \cup go) /\ Cardinality(held \cup go) = Cardinality(held) + k
  <2>1. Cardinality(held \cap go) = 0
    BY <1>9, FS_EmptySet
  <2>2. /\ IsFiniteSet(held \cup go)
        /\ Cardinality(held \cup go)
             = Cardinality(held) + Cardinality(go) - Cardinality(held \cap go)
    BY <1>8, FS_Union
  <2> QED BY <1>2, <1>3, <1>8, <2>1, <2>2
<1>11. go \subseteq W
  BY <1>1, <1>3, <1>7
<1>12. {rest[i] : i \in DOMAIN rest} = W \ go
  <2>1. ASSUME NEW i \in 1..Len(w), i \notin 1..k
        PROVE  \E j \in 1..Len(w) - k : rest[j] = w[i]
    <3>1. i - k \in 1..Len(w) - k /\ k + (i - k) = i
      BY <2>1, <1>1, <1>3
    <3> QED BY <3>1, <1>5
  <2>2. ASSUME NEW j \in 1..Len(w) - k
        PROVE  /\ rest[j] \in W
               /\ rest[j] \notin go
    <3>1. rest[j] = w[k + j] /\ k + j \in 1..Len(w) /\ k + j \notin 1..k
      BY <1>1, <1>3, <1>5
    <3> QED BY <3>1, <1>1, <1>3, <1>7
  <2>3. W \ go \subseteq {rest[i] : i \in DOMAIN rest}
    <3> SUFFICES ASSUME NEW i \in 1..Len(w), w[i] \notin go
                 PROVE  w[i] \in {rest[j] : j \in DOMAIN rest}
      BY <1>1
    <3>1. i \notin 1..k
      BY <1>7
    <3> QED BY <3>1, <2>1, <1>6
  <2>4. {rest[i] : i \in DOMAIN rest} \subseteq W \ go
    BY <2>2, <1>6
  <2> QED BY <2>3, <2>4
<1>13. \A i, j \in DOMAIN rest : rest[i] = rest[j] => i = j
  <2> SUFFICES ASSUME NEW i \in 1..Len(w) - k, NEW j \in 1..Len(w) - k,
                      rest[i] = rest[j]
               PROVE  i = j
    BY <1>6
  <2>1. w[k + i] = w[k + j] /\ k + i \in 1..Len(w) /\ k + j \in 1..Len(w)
    BY <1>1, <1>3, <1>5
  <2>2. k + i = k + j
    BY <2>1, <1>1
  <2> QED BY <2>2, <1>3
<1>14. rest # <<>> => Cardinality(held) + k >= slots
  <2>1. rest # <<>> => Len(w) - k # 0
    BY <1>5, EmptySeq
  <2> QED BY <2>1, <1>1, <1>3
<1>15. go # {} => Cardinality(held) + k <= slots
  BY <1>3, <1>7
<1>16. Lists(rest, W \ go)
  BY <1>5, <1>12, <1>13 DEF Lists
<1>17. \A i, j \in DOMAIN w : i < j /\ w[j] \in go => w[i] \in go
  <2> SUFFICES ASSUME NEW i \in 1..Len(w), NEW j \in 1..Len(w), i < j, w[j] \in go
               PROVE  w[i] \in go
    BY <1>1
  <2>1. PICK x \in 1..k : w[j] = w[x]
    BY <1>7
  <2>2. x \in 1..Len(w) /\ x = j
    BY <1>1, <1>3, <2>1
  <2>3. i \in 1..k
    BY <1>1, <1>3, <2>2
  <2> QED BY <1>7, <2>3
<1>18. OldestFirst(w, go)
  BY <1>17 DEF OldestFirst
<1> QED BY <1>10, <1>11, <1>14, <1>15, <1>16, <1>18

-----------------------------------------------------------------------------
(* The inductive invariant. *)

\* Queues and slots agree with what became of the entries.
Accounts(q, a, t, tg, g) ==
    \A l \in Lanes :
      /\ Lists(q[l], {e \in Entries : LaneOf(e) = l /\ t[e] = "queued"})
      /\ a[l] = {e \in Entries : LaneOf(e) = l /\ t[e] = "running" /\ tg[e] = g[l]}

\* No entry started in a generation that is still to come.
Past(tg, g) == \A e \in Entries : tg[e] <= g[LaneOf(e)]

\* Inner entries live inside outer ones, and come after them.
Awaits(t) ==
    \A r \in Runs :
      /\ t[Entry(r, "global")] \in {"queued", "running"}
           => t[Entry(r, "session")] = "running"
      /\ r \in ManualCron /\ t[Entry(r, "session")] \in {"queued", "running"}
           => t[Entry(r, "cron")] = "running"
      /\ t[Entry(r, "session")] \in {"none", "queued"}
           => t[Entry(r, "global")] = "none"

Exclusive(t, tg) ==
    \A r1, r2 \in Runs :
      /\ SessionOf[r1] = SessionOf[r2]
      /\ t[Entry(r1, "session")] = "running"
      /\ t[Entry(r2, "session")] = "running"
      /\ tg[Entry(r1, "session")] = tg[Entry(r2, "session")]
      => r1 = r2

\* A session lane is never configured: it has one slot.
OneSlot(m) == \A l \in Sessions : m[l] = 1

Busy(q, a, m, l) == q[l] # <<>> => Cardinality(a[l]) >= m[l]

IInv ==
    /\ TypeOK
    /\ Accounts(queue, activeTaskIds, task, taskGeneration, generation)
    /\ Past(taskGeneration, generation)
    /\ Awaits(task)
    /\ Exclusive(task, taskGeneration)
    /\ OneSlot(maxConcurrent)
    /\ \A l \in Lanes : Busy(queue, activeTaskIds, maxConcurrent, l)

\* What a step does to the entries when the lanes it pumps hold q and the
\* promises are t: it starts entries within the caps and in their order, a
\* started entry takes its lane's generation, and a run that comes to wait for
\* or hold a shared lane had its session entry started in this very step,
\* outside the drain window.
WithinCaps(t) ==
    \A e \in Entries :
      t[e] # "running" /\ task'[e] = "running"
        => Cardinality(activeTaskIds'[LaneOf(e)]) <= maxConcurrent'[LaneOf(e)]

InOrder(q, t) ==
    \A l \in Lanes : \A i, j \in DOMAIN q[l] :
      i < j /\ t[q[l][j]] # "running" /\ task'[q[l][j]] = "running"
        => task'[q[l][i]] # "queued"

Stamped ==
    \A e \in Entries :
      taskGeneration'[e] \in {taskGeneration[e], generation'[LaneOf(e)]}

EntersFresh(t) ==
    \A r \in Runs :
      task'[Entry(r, "global")] \in {"queued", "running"}
        => \/ t[Entry(r, "global")] \in {"queued", "running"}
           \/ /\ ~gatewayDraining'
              /\ taskGeneration'[Entry(r, "session")] = generation'[SessionOf[r]]

PumpSteps(q, t) == WithinCaps(t) /\ InOrder(q, t) /\ Stamped /\ EntersFresh(t)

\* Draining lanes from any consistent q, a, t in which the other lanes are busy
\* leads to a state with the invariant, and starts entries as a pump does.
LEMMA DrainLanesPreserves ==
    ASSUME NEW D \in SUBSET Lanes,
           NEW q \in [Lanes -> Seq(Entries)],
           NEW a \in [Lanes -> SUBSET Entries],
           NEW t \in [Entries -> TaskState],
           taskGeneration \in [Entries -> Nat],
           maxConcurrent' \in [Lanes -> Nat \ {0}],
           generation' \in [Lanes -> Nat],
           gatewayDraining' \in BOOLEAN,
           Accounts(q, a, t, taskGeneration, generation'),
           Past(taskGeneration, generation'),
           Awaits(t),
           Exclusive(t, taskGeneration),
           OneSlot(maxConcurrent'),
           \A l \in Lanes \ D : Busy(q, a, maxConcurrent', l),
           DrainLanes(D, q, a, t)
    PROVE  IInv' /\ PumpSteps(q, t)
<1> DEFINE outer == D \cap Sessions
           begun == UNION {Pumped(q[l], a[l], maxConcurrent'[l]) : l \in outer}
           pushed == IF gatewayDraining' THEN {}
                     ELSE {Entry(e.run, "global") : e \in begun}
           pushedOn(l) == {e \in pushed : LaneOf(e) = l}
           queuedOn(l) == {e \in Entries : LaneOf(e) = l /\ t[e] = "queued"}
<1>1. PICK m \in Orders(pushedOn("main")), c \in Orders(pushedOn("cron")),
           s \in Orders(pushedOn("subagent")), n \in Orders(pushedOn("nested")) :
             LET order   == [main |-> m, cron |-> c, subagent |-> s, nested |-> n]
                 inner   == {l \in GlobalLanes : l \in D \/ pushedOn(l) # {}}
                 now(l)  == IF l \in Sessions THEN q[l] ELSE q[l] \o order[l]
                 pump(l) == IF l \in outer \cup inner
                            THEN Pumped(now(l), a[l], maxConcurrent'[l]) ELSE {}
                 started == UNION {pump(l) : l \in Lanes}
             IN  /\ queue' = [l \in Lanes |->
                                IF l \in outer \cup inner
                                THEN LeftWaiting(now(l), a[l], maxConcurrent'[l])
                                ELSE now(l)]
                 /\ activeTaskIds' = [l \in Lanes |-> a[l] \cup pump(l)]
                 /\ task' = [e \in Entries |->
                               IF e \in started THEN "running"
                               ELSE IF e \in pushed THEN "queued"
                               ELSE IF /\ e.level = "global"
                                       /\ Entry(e.run, "session") \in begun
                                    THEN "rejected"
                               ELSE t[e]]
                 /\ taskGeneration' = [e \in Entries |->
                               IF e \in started THEN generation'[LaneOf(e)]
                               ELSE taskGeneration[e]]
  BY DEF DrainLanes
<1> DEFINE order == [main |-> m, cron |-> c, subagent |-> s, nested |-> n]
<1> DEFINE inner   == {l \in GlobalLanes : l \in D \/ pushedOn(l) # {}}
           now(l)  == IF l \in Sessions THEN q[l] ELSE q[l] \o order[l]
           pump(l) == IF l \in outer \cup inner
                      THEN Pumped(now(l), a[l], maxConcurrent'[l]) ELSE {}
           started == UNION {pump(l) : l \in Lanes}
           refused == {e \in Entries \ pushed :
                         e.level = "global" /\ Entry(e.run, "session") \in begun}
<1>o. \A l \in GlobalLanes : order[l] \in Orders(pushedOn(l))
  <2> HIDE DEF pushedOn
  <2> QED  BY <1>1 DEF GlobalLanes
<1>2. /\ queue' = [l \in Lanes |->
                     IF l \in outer \cup inner
                     THEN LeftWaiting(now(l), a[l], maxConcurrent'[l])
                     ELSE now(l)]
      /\ activeTaskIds' = [l \in Lanes |-> a[l] \cup pump(l)]
      /\ task' = [e \in Entries |-> IF e \in started THEN "running"
                                    ELSE IF e \in pushed THEN "queued"
                                    ELSE IF e \in refused THEN "rejected"
                                    ELSE t[e]]
      /\ taskGeneration' = [e \in Entries |->
                     IF e \in started THEN generation'[LaneOf(e)]
                     ELSE taskGeneration[e]]
  BY <1>1
<1> HIDE DEF order
<1>3. \A l \in Lanes : /\ Lists(q[l], queuedOn(l))
                       /\ IsFiniteSet(a[l])
                       /\ \A e \in a[l] : t[e] = "running"
  BY EntriesFinite, FS_Subset DEF Accounts
<1>4. Sessions \subseteq Lanes /\ GlobalLanes \subseteq Lanes
      /\ \A l \in Lanes : l \in GlobalLanes <=> l \notin Sessions
  BY ConstantsAssumption DEF Lanes
\* The session entries that start were waiting, and their inner entries are new.
<1>5. \A e \in begun : /\ e \in Entries
                       /\ e.level = "session"
                       /\ t[e] = "queued"
                       /\ e = Entry(e.run, "session")
                       /\ e.run \in Runs
                       /\ t[Entry(e.run, "global")] = "none"
  <2> SUFFICES ASSUME NEW l \in outer,
                      NEW e \in Pumped(q[l], a[l], maxConcurrent'[l])
               PROVE  /\ e \in Entries
                      /\ e.level = "session"
                      /\ t[e] = "queued"
                      /\ e = Entry(e.run, "session")
                      /\ e.run \in Runs
                      /\ t[Entry(e.run, "global")] = "none"
    OBVIOUS
  <2>1. l \in Lanes /\ maxConcurrent'[l] \in Nat \ {0} /\ queuedOn(l) \cap a[l] = {}
    BY <1>3, <1>4
  <2>2. e \in queuedOn(l)
    <3> HIDE DEF queuedOn
    <3> QED BY <1>3, <2>1, PumpEffect
  <2>3. e \in Entries /\ t[e] = "queued" /\ LaneOf(e) = l /\ e.level = "session"
    BY <2>2, LaneOfType
  <2>4. e.run \in Runs /\ e = Entry(e.run, "session")
    BY <2>3, EntryEta DEF Entries
  <2> QED BY <2>3, <2>4 DEF Awaits
<1>6. \A e \in pushed \cup refused :
         /\ e \in Entries
         /\ e.level = "global"
         /\ t[e] = "none"
         /\ e.run \in Runs
         /\ e = Entry(e.run, "global")
         /\ Entry(e.run, "session") \in begun
         /\ LaneOf(e) \in GlobalLanes
  <2>1. \A e \in pushed : e \in Entries /\ e.level = "global"
                          /\ Entry(e.run, "session") \in begun
    <3> HIDE DEF begun
    <3>1. \A e \in begun : /\ Entry(e.run, "global") \in Entries
                           /\ Entry(e.run, "global").level = "global"
                           /\ Entry(e.run, "global").run = e.run
                           /\ Entry(e.run, "session") \in begun
      BY <1>5, EntryType DEF Levels
    <3> QED BY <3>1
  <2>2. \A e \in refused : e \in Entries /\ e.level = "global"
                           /\ Entry(e.run, "session") \in begun
    OBVIOUS
  <2> SUFFICES ASSUME NEW e \in Entries, e.level = "global",
                      Entry(e.run, "session") \in begun
               PROVE  /\ t[e] = "none"
                      /\ e.run \in Runs
                      /\ e = Entry(e.run, "global")
                      /\ LaneOf(e) \in GlobalLanes
    BY <2>1, <2>2
  <2>3. e.run \in Runs /\ e = Entry(e.run, "global")
    BY EntryEta DEF Entries
  <2>4. t[e] = "none"
    <3>1. Entry(e.run, "session").run = e.run
      BY <2>3, EntryType DEF Levels
    <3> QED BY <1>5, <2>3, <3>1
  <2> QED BY <2>3, <2>4, LaneOfType, <1>4
\* What each lane holds when it is pumped.
<1>7. \A l \in Lanes : Lists(now(l), queuedOn(l) \cup pushedOn(l))
  <2> SUFFICES ASSUME NEW l \in Lanes
               PROVE  Lists(now(l), queuedOn(l) \cup pushedOn(l))
    OBVIOUS
  <2>1. CASE l \in Sessions
    <3>1. pushedOn(l) = {}
      BY <1>4, <1>6, <2>1
    <3>2. now(l) = q[l] /\ queuedOn(l) \cup pushedOn(l) = queuedOn(l)
      BY <2>1, <3>1
    <3> QED BY <1>3, <3>2
  <2>2. CASE l \notin Sessions
    <3>0. order[l] \in Orders(pushedOn(l))
      <4> HIDE DEF pushedOn
      <4> QED BY <1>o, <1>4, <2>2
    <3>1. pushedOn(l) \in SUBSET Entries /\ order[l] \in Orders(pushedOn(l))
      BY <1>6, <3>0
    <3>2. Lists(order[l], pushedOn(l))
      BY <3>1, OrdersList
    <3>3. queuedOn(l) \cap pushedOn(l) = {}
      BY <1>6
    <3>4. now(l) = q[l] \o order[l]
      BY <2>2
    <3>5. Lists(q[l], queuedOn(l))
      BY <1>3
    <3> HIDE DEF now, queuedOn, pushedOn
    <3>6. Lists(q[l] \o order[l], queuedOn(l) \cup pushedOn(l))
      BY <3>2, <3>3, <3>5, ConcatLists
    <3> QED BY <3>4, <3>6
  <2> QED BY <2>1, <2>2
<1>8. \A l \in Lanes : (queuedOn(l) \cup pushedOn(l)) \cap a[l] = {}
  BY <1>3, <1>6
<1>9. \A l \in outer \cup inner :
        /\ pump(l) \subseteq queuedOn(l) \cup pushedOn(l)
        /\ Lists(queue'[l], (queuedOn(l) \cup pushedOn(l)) \ pump(l))
        /\ Busy(queue', activeTaskIds', maxConcurrent', l)
        /\ pump(l) # {} => Cardinality(activeTaskIds'[l]) <= maxConcurrent'[l]
  <2> SUFFICES ASSUME NEW l \in outer \cup inner
               PROVE  /\ pump(l) \subseteq queuedOn(l) \cup pushedOn(l)
                      /\ Lists(queue'[l], (queuedOn(l) \cup pushedOn(l)) \ pump(l))
                      /\ Busy(queue', activeTaskIds', maxConcurrent', l)
                      /\ pump(l) # {}
                           => Cardinality(activeTaskIds'[l]) <= maxConcurrent'[l]
    OBVIOUS
  <2>1. l \in Lanes /\ maxConcurrent'[l] \in Nat \ {0}
    BY <1>4
  <2>2. /\ queue'[l] = LeftWaiting(now(l), a[l], maxConcurrent'[l])
        /\ activeTaskIds'[l] = a[l] \cup pump(l)
        /\ pump(l) = Pumped(now(l), a[l], maxConcurrent'[l])
    BY <1>2, <2>1
  <2>3. Lists(now(l), queuedOn(l) \cup pushedOn(l))
    BY <1>7, <2>1
  <2>4. IsFiniteSet(a[l]) /\ (queuedOn(l) \cup pushedOn(l)) \cap a[l] = {}
    BY <1>3, <1>8, <2>1
  <2> HIDE DEF now, pump, queuedOn, pushedOn, outer, inner
  <2>5. /\ pump(l) \subseteq queuedOn(l) \cup pushedOn(l)
        /\ Lists(queue'[l], (queuedOn(l) \cup pushedOn(l)) \ pump(l))
        /\ queue'[l] # <<>> => Cardinality(a[l] \cup pump(l)) >= maxConcurrent'[l]
        /\ pump(l) # {} => Cardinality(a[l] \cup pump(l)) <= maxConcurrent'[l]
    <3> DEFINE W == queuedOn(l) \cup pushedOn(l)
    <3>1. Lists(now(l), W) /\ W \cap a[l] = {}
      BY <2>3, <2>4
    <3> HIDE DEF W
    <3>2. /\ Pumped(now(l), a[l], maxConcurrent'[l]) \subseteq W
          /\ Lists(LeftWaiting(now(l), a[l], maxConcurrent'[l]),
                   W \ Pumped(now(l), a[l], maxConcurrent'[l]))
          /\ LeftWaiting(now(l), a[l], maxConcurrent'[l]) # <<>>
               => Cardinality(a[l] \cup Pumped(now(l), a[l], maxConcurrent'[l]))
                    >= maxConcurrent'[l]
          /\ Pumped(now(l), a[l], maxConcurrent'[l]) # {}
               => Cardinality(a[l] \cup Pumped(now(l), a[l], maxConcurrent'[l]))
                    <= maxConcurrent'[l]
      BY <2>1, <2>4, <3>1, PumpEffect
    <3> QED BY <2>2, <3>2 DEF W
  <2> QED BY <2>2, <2>5 DEF Busy
<1>10. \A l \in Lanes \ (outer \cup inner) :
        /\ pushedOn(l) = {}
        /\ pump(l) = {}
        /\ queue'[l] = now(l)
        /\ activeTaskIds'[l] = a[l]
        /\ Busy(queue', activeTaskIds', maxConcurrent', l)
  <2> SUFFICES ASSUME NEW l \in Lanes, l \notin outer \cup inner
               PROVE  /\ pushedOn(l) = {}
                      /\ pump(l) = {}
                      /\ queue'[l] = now(l)
                      /\ activeTaskIds'[l] = a[l]
                      /\ Busy(queue', activeTaskIds', maxConcurrent', l)
    OBVIOUS
  <2>1. pushedOn(l) = {} /\ l \notin D
    BY <1>4, <1>6
  <2>2. pump(l) = {} /\ queue'[l] = now(l) /\ activeTaskIds'[l] = a[l]
    BY <1>2
  <2>3. now(l) # <<>> => q[l] # <<>>
    <3>1. CASE q[l] = <<>>
      <4>1. queuedOn(l) = {}
        BY <1>3, <3>1, EmptySeq DEF Lists
      <4>2. Lists(now(l), {})
        <5> HIDE DEF now
        <5>1. Lists(now(l), queuedOn(l) \cup pushedOn(l))
          BY <1>7
        <5>2. queuedOn(l) \cup pushedOn(l) = {}
          BY <4>1, <2>1
        <5> HIDE DEF queuedOn, pushedOn
        <5> QED BY <5>1, <5>2
      <4>3. now(l) = <<>>
        <5> HIDE DEF now
        <5> QED BY <4>2, EmptyList
      <4> QED BY <4>3
    <3> QED BY <3>1
  <2> QED BY <2>1, <2>2, <2>3 DEF Busy
<1>11. \A l \in Lanes :
        /\ pump(l) \subseteq queuedOn(l) \cup pushedOn(l)
        /\ Lists(queue'[l], (queuedOn(l) \cup pushedOn(l)) \ pump(l))
        /\ Busy(queue', activeTaskIds', maxConcurrent', l)
        /\ pump(l) # {} => Cardinality(activeTaskIds'[l]) <= maxConcurrent'[l]
        /\ activeTaskIds'[l] = a[l] \cup pump(l)
  <2> SUFFICES ASSUME NEW l \in Lanes
               PROVE  /\ pump(l) \subseteq queuedOn(l) \cup pushedOn(l)
                      /\ Lists(queue'[l], (queuedOn(l) \cup pushedOn(l)) \ pump(l))
                      /\ Busy(queue', activeTaskIds', maxConcurrent', l)
                      /\ pump(l) # {}
                           => Cardinality(activeTaskIds'[l]) <= maxConcurrent'[l]
                      /\ activeTaskIds'[l] = a[l] \cup pump(l)
    OBVIOUS
  <2>1. activeTaskIds'[l] = a[l] \cup pump(l)
    BY <1>2
  <2>2. CASE l \in outer \cup inner
    <3> HIDE DEF queuedOn, pushedOn, pump, outer, inner
    <3> QED BY <2>1, <2>2, <1>9
  <2>3. CASE l \notin outer \cup inner
    <3>1. Lists(now(l), queuedOn(l) \cup pushedOn(l))
      BY <1>7
    <3>2. pump(l) = {} /\ queue'[l] = now(l)
          /\ Busy(queue', activeTaskIds', maxConcurrent', l)
      BY <2>3, <1>10
    <3> HIDE DEF queuedOn, pushedOn, pump, now
    <3>3. (queuedOn(l) \cup pushedOn(l)) \ pump(l) = queuedOn(l) \cup pushedOn(l)
      BY <3>2
    <3> QED BY <2>1, <3>1, <3>2, <3>3
  <2> QED BY <2>2, <2>3
<1>12. \A e \in Entries : LaneOf(e) \in Lanes /\ (e \in started <=> e \in pump(LaneOf(e)))
  <2>1. \A l \in Lanes : \A e \in pump(l) : LaneOf(e) = l
    <3> HIDE DEF pump
    <3> QED BY <1>11
  <2> HIDE DEF pump
  <2> QED BY <2>1, LaneOfType
\* The session entries that start are those begun.
<1>13. \A e \in Entries : e.level = "session" => (e \in started <=> e \in begun)
  <2> SUFFICES ASSUME NEW e \in Entries, e.level = "session"
               PROVE  e \in pump(LaneOf(e)) <=> e \in begun
    BY <1>12
  <2>1. LaneOf(e) \in Sessions /\ LaneOf(e) \notin inner
    BY <1>4, LaneOfType
  <2>2. e \in pump(LaneOf(e)) => e \in begun
    BY <2>1
  <2>3. ASSUME e \in begun PROVE e \in pump(LaneOf(e))
    <3>1. PICK l \in outer : e \in Pumped(q[l], a[l], maxConcurrent'[l])
      BY <2>3
    <3>2. l \in Lanes /\ pump(l) = Pumped(q[l], a[l], maxConcurrent'[l])
      BY <1>4
    <3>3. e \in started
      BY <3>1, <3>2
    <3> QED BY <3>3, <1>12
  <2> QED BY <2>2, <2>3
<1>14. /\ \A e \in started : e \in Entries /\ (t[e] = "queued" \/ e \in pushed)
       /\ \A e \in refused : e \notin started /\ e \notin pushed
       /\ \A e \in pushed : e \in Entries
  <2>1. ASSUME NEW e \in started
        PROVE  e \in Entries /\ (t[e] = "queued" \/ e \in pushed)
    <3>1. PICK l \in Lanes : e \in pump(l)
      OBVIOUS
    <3>2. e \in queuedOn(l) \cup pushedOn(l)
      <4> HIDE DEF pump, queuedOn, pushedOn
      <4> QED BY <3>1, <1>11
    <3>3. CASE e \in queuedOn(l)
      BY <3>3
    <3>4. CASE e \in pushedOn(l)
      <4>1. e \in pushed
        BY <3>4
      <4> QED BY <4>1, <1>6
    <3> QED BY <3>2, <3>3, <3>4
  <2> HIDE DEF started, pushed
  <2> QED BY <2>1, <1>6
<1>15. \A e \in Entries :
         /\ e \in started => task'[e] = "running" /\ taskGeneration'[e] = generation'[LaneOf(e)]
         /\ e \notin started => taskGeneration'[e] = taskGeneration[e]
         /\ e \in pushed \ started => task'[e] = "queued"
         /\ e \in refused => task'[e] = "rejected"
         /\ e \notin started \cup pushed \cup refused => task'[e] = t[e]
  <2> HIDE DEF started, pushed, refused
  <2> QED BY <1>2, <1>14
<1>16. \A e \in Entries : taskGeneration'[e] <= generation'[LaneOf(e)]
  <2> SUFFICES ASSUME NEW e \in Entries
               PROVE  taskGeneration'[e] <= generation'[LaneOf(e)]
    OBVIOUS
  <2>1. generation'[LaneOf(e)] \in Nat /\ taskGeneration[e] <= generation'[LaneOf(e)]
    BY LaneOfType DEF Past
  <2>2. taskGeneration'[e] \in {generation'[LaneOf(e)], taskGeneration[e]}
    <3> HIDE DEF started
    <3> QED BY <1>15
  <2> QED BY <2>1, <2>2
<1>17. \A l \in Lanes :
         (queuedOn(l) \cup pushedOn(l)) \ pump(l)
           = {e \in Entries : LaneOf(e) = l /\ task'[e] = "queued"}
  <2> SUFFICES ASSUME NEW l \in Lanes, NEW e \in Entries
               PROVE  e \in (queuedOn(l) \cup pushedOn(l)) \ pump(l)
                        <=> LaneOf(e) = l /\ task'[e] = "queued"
    <3> HIDE DEF pump
    <3> QED BY <1>6
  <2>1. CASE LaneOf(e) # l
    BY <2>1
  <2>2. CASE LaneOf(e) = l
    <3>1. e \in queuedOn(l) \cup pushedOn(l) <=> t[e] = "queued" \/ e \in pushed
      BY <2>2
    <3>2. e \in pump(l) <=> e \in started
      BY <1>12, <2>2
    <3>3. e \in refused => t[e] = "none"
      BY <1>6
    <3>4. e \in pushed => t[e] = "none"
      BY <1>6
    <3> HIDE DEF pump, started, pushed, refused, queuedOn, pushedOn
    <3> QED BY <2>2, <3>1, <3>2, <3>3, <3>4, <1>14, <1>15
  <2> QED BY <2>1, <2>2
<1>18. \A l \in Lanes :
         activeTaskIds'[l] = {e \in Entries : /\ LaneOf(e) = l
                                              /\ task'[e] = "running"
                                              /\ taskGeneration'[e] = generation'[l]}
  <2> SUFFICES ASSUME NEW l \in Lanes, NEW e \in Entries
               PROVE  e \in a[l] \cup pump(l)
                        <=> /\ LaneOf(e) = l
                            /\ task'[e] = "running"
                            /\ taskGeneration'[e] = generation'[l]
    <3>1. \A l \in Lanes : a[l] \cup pump(l) \subseteq Entries
      BY <1>14
    <3> HIDE DEF pump
    <3> QED BY <1>11, <3>1
  <2>1. e \in a[l] <=> LaneOf(e) = l /\ t[e] = "running" /\ taskGeneration[e] = generation'[l]
    BY DEF Accounts
  <2>2. e \in pump(l) <=> LaneOf(e) = l /\ e \in started
    <3>1. e \in pump(l) => LaneOf(e) = l
      <4> HIDE DEF pump
      <4> QED BY <1>11
    <3> HIDE DEF pump, started
    <3> QED BY <1>12, <3>1
  <2>3. e \in refused \cup pushed => t[e] = "none"
    BY <1>6
  <2> HIDE DEF pump, started, pushed, refused
  <2> QED BY <2>1, <2>2, <2>3, <1>14, <1>15
<1>19. TypeOK'
  <2>1. queue' \in [Lanes -> Seq(Entries)]
    <3>1. \A l \in Lanes : queue'[l] \in Seq(Entries)
      BY <1>11 DEF Lists
    <3>2. queue' = [l \in Lanes |-> queue'[l]]
      BY <1>2
    <3> HIDE DEF outer, inner, now
    <3> QED BY <3>1, <3>2
  <2>2. activeTaskIds' \in [Lanes -> SUBSET Entries]
    <3>1. \A l \in Lanes : activeTaskIds'[l] \in SUBSET Entries
      BY <1>18
    <3>2. activeTaskIds' = [l \in Lanes |-> activeTaskIds'[l]]
      BY <1>2
    <3> HIDE DEF pump
    <3> QED BY <3>1, <3>2
  <2>3. task' \in [Entries -> TaskState] /\ taskGeneration' \in [Entries -> Nat]
    <3> HIDE DEF started, pushed, refused
    <3> QED BY <1>2, LaneOfType DEF TaskState
  <2> QED BY <2>1, <2>2, <2>3 DEF TypeOK
<1>20. Accounts(queue', activeTaskIds', task', taskGeneration', generation')
  <2> SUFFICES ASSUME NEW l \in Lanes
               PROVE  /\ Lists(queue'[l], {e \in Entries : LaneOf(e) = l /\ task'[e] = "queued"})
                      /\ activeTaskIds'[l] = {e \in Entries :
                            /\ LaneOf(e) = l /\ task'[e] = "running"
                            /\ taskGeneration'[e] = generation'[l]}
    BY DEF Accounts
  <2> HIDE DEF pump, queuedOn, pushedOn
  <2>1. Lists(queue'[l], (queuedOn(l) \cup pushedOn(l)) \ pump(l))
    BY <1>11
  <2> QED BY <1>17, <1>18, <2>1
<1>21. Past(taskGeneration', generation')
  BY <1>16 DEF Past
<1>22. Awaits(task')
  <2> SUFFICES ASSUME NEW r \in Runs
               PROVE  /\ task'[Entry(r, "global")] \in {"queued", "running"}
                           => task'[Entry(r, "session")] = "running"
                      /\ r \in ManualCron /\ task'[Entry(r, "session")] \in {"queued", "running"}
                           => task'[Entry(r, "cron")] = "running"
                      /\ task'[Entry(r, "session")] \in {"none", "queued"}
                           => task'[Entry(r, "global")] = "none"
    BY DEF Awaits
  <2> DEFINE G == Entry(r, "global")
             S == Entry(r, "session")
             C == Entry(r, "cron")
  <2>1. /\ G \in Entries /\ G.level = "global" /\ G.run = r
        /\ S \in Entries /\ S.level = "session" /\ S.run = r
        /\ C \in Entries /\ C.level = "cron" /\ C.run = r
    BY EntryType DEF Levels
  <2>2. /\ t[G] \in {"queued", "running"} => t[S] = "running"
        /\ r \in ManualCron /\ t[S] \in {"queued", "running"} => t[C] = "running"
        /\ t[S] \in {"none", "queued"} => t[G] = "none"
    BY DEF Awaits
  <2>3. G \in pushed \cup refused <=> S \in begun
    <3>1. G \in pushed \cup refused => S \in begun
      <4> HIDE DEF pushed, refused, begun
      <4> QED BY <1>6, <2>1
    <3>2. S \in begun => G \in pushed \cup refused
      BY <2>1
    <3> QED BY <3>1, <3>2
  <2>4. S \notin pushed \cup refused /\ C \notin pushed \cup refused
    <3> HIDE DEF pushed, refused
    <3> QED BY <1>6, <2>1
  <2>5. S \in started <=> S \in begun
    BY <1>13, <2>1
  <2>6. /\ S \in started => t[S] = "queued"
        /\ C \in started => t[C] = "queued"
        /\ G \in started => t[G] = "queued" \/ G \in pushed
    <3> HIDE DEF pushed, started, refused
    <3> QED BY <1>14, <2>4
  <2> HIDE DEF pushed, started, refused, begun, G, S, C
  <2>7. /\ S \in started => task'[S] = "running"
        /\ S \notin started => task'[S] = t[S]
        /\ C \in started => task'[C] = "running"
        /\ C \notin started => task'[C] = t[C]
        /\ G \in refused => task'[G] = "rejected"
        /\ G \notin started \cup pushed \cup refused => task'[G] = t[G]
    BY <1>15, <2>1, <2>4
  <2>8. task'[G] \in {"queued", "running"} => task'[S] = "running"
    <3>1. CASE S \in begun
      BY <3>1, <2>5, <2>7
    <3>2. CASE S \notin begun
      BY <3>2, <2>2, <2>3, <2>5, <2>6, <2>7
    <3> QED BY <3>1, <3>2
  <2>9. r \in ManualCron /\ task'[S] \in {"queued", "running"} => task'[C] = "running"
    BY <2>2, <2>6, <2>7
  <2>10. task'[S] \in {"none", "queued"} => task'[G] = "none"
    BY <2>2, <2>3, <2>5, <2>6, <2>7
  <2> QED BY <2>8, <2>9, <2>10 DEF G, S, C
<1>23. Exclusive(task', taskGeneration')
  <2> SUFFICES ASSUME NEW r1 \in Runs, NEW r2 \in Runs,
                      SessionOf[r1] = SessionOf[r2],
                      task'[Entry(r1, "session")] = "running",
                      task'[Entry(r2, "session")] = "running",
                      taskGeneration'[Entry(r1, "session")]
                        = taskGeneration'[Entry(r2, "session")]
               PROVE  r1 = r2
    BY DEF Exclusive
  <2> DEFINE S1 == Entry(r1, "session")
             S2 == Entry(r2, "session")
             l == SessionOf[r1]
  <2>1. /\ S1 \in Entries /\ S1.level = "session" /\ S1.run = r1 /\ LaneOf(S1) = l
        /\ S2 \in Entries /\ S2.level = "session" /\ S2.run = r2 /\ LaneOf(S2) = l
        /\ l \in Sessions /\ l \in Lanes
    BY EntryType, LaneOfType, SMTT(30) DEF Levels, LaneOf
  <2>2. /\ S1 \notin pushed \cup refused
        /\ S2 \notin pushed \cup refused
    <3> HIDE DEF pushed, refused
    <3> QED BY <1>6, <2>1
  <2>3. ASSUME S1 \in started \/ S2 \in started
        PROVE  S1 = S2
    <3>1. pump(l) # {}
      <4> HIDE DEF pump, started
      <4> QED BY <2>3, <1>12, <2>1
    <3>2. S1 \in activeTaskIds'[l] /\ S2 \in activeTaskIds'[l]
      <4>1. taskGeneration'[S1] = generation'[l] /\ taskGeneration'[S2] = generation'[l]
        <5> HIDE DEF started
        <5> QED BY <2>1, <2>3, <1>15
      <4> QED BY <2>1, <4>1, <1>18
    <3>3. Cardinality(activeTaskIds'[l]) <= 1
      <4> HIDE DEF pump
      <4> QED BY <1>11, <2>1, <3>1 DEF OneSlot
    <3>4. IsFiniteSet(activeTaskIds'[l])
      BY <1>18, <2>1, EntriesFinite, FS_Subset
    <3>5. Cardinality(activeTaskIds'[l]) # 0
      BY <3>2, <3>4, FS_EmptySet
    <3>6. Cardinality(activeTaskIds'[l]) = 1
      <4>1. PICK k \in Nat : k = Cardinality(activeTaskIds'[l])
        BY <3>4, FS_CardinalityType
      <4>2. k = 1
        BY <3>3, <3>5, <4>1
      <4> QED BY <4>1, <4>2
    <3>7. PICK x : activeTaskIds'[l] = {x}
      BY <3>4, <3>6, FS_Singleton
    <3> QED BY <3>2, <3>7
  <2>4. ASSUME S1 \notin started, S2 \notin started
        PROVE  r1 = r2
    <3>1. /\ t[S1] = "running" /\ t[S2] = "running"
          /\ taskGeneration[S1] = taskGeneration[S2]
      <4> HIDE DEF started, pushed, refused
      <4> QED BY <2>1, <2>2, <2>4, <1>15
    <3> QED BY <3>1 DEF Exclusive
  <2> QED BY <2>1, <2>3, <2>4
<1>24. \A l \in Lanes : Busy(queue', activeTaskIds', maxConcurrent', l)
  BY <1>11
<1>25. IInv'
  BY <1>19, <1>20, <1>21, <1>22, <1>23, <1>24 DEF IInv
<1>26. ASSUME NEW e \in Entries, t[e] # "running", task'[e] = "running"
       PROVE  Cardinality(activeTaskIds'[LaneOf(e)]) <= maxConcurrent'[LaneOf(e)]
  <2>1. e \in started
    <3> HIDE DEF started, pushed, refused
    <3> QED BY <1>15, <1>26
  <2>2. pump(LaneOf(e)) # {} /\ LaneOf(e) \in Lanes
    BY <2>1, <1>12
  <2> HIDE DEF pump
  <2> QED BY <2>2, <1>11
<1>27. WithinCaps(t)
  BY <1>26 DEF WithinCaps
<1>28. Stamped
  <2> HIDE DEF started
  <2> QED BY <1>15 DEF Stamped
<1>29. EntersFresh(t)
  <2> SUFFICES ASSUME NEW r \in Runs,
                      task'[Entry(r, "global")] \in {"queued", "running"},
                      t[Entry(r, "global")] \notin {"queued", "running"}
               PROVE  /\ ~gatewayDraining'
                      /\ taskGeneration'[Entry(r, "session")] = generation'[SessionOf[r]]
    BY DEF EntersFresh
  <2>1. /\ Entry(r, "global") \in Entries /\ Entry(r, "global").run = r
        /\ Entry(r, "session") \in Entries /\ Entry(r, "session").level = "session"
        /\ LaneOf(Entry(r, "session")) = SessionOf[r]
    BY EntryType DEF Levels, LaneOf
  <2>2. Entry(r, "global") \in pushed
    <3> HIDE DEF started, pushed, refused
    <3> QED BY <1>14, <1>15, <2>1
  <2>3. ~gatewayDraining'
    BY <2>2
  <2>4. Entry(r, "session") \in begun
    <3> HIDE DEF begun, pushed
    <3> QED BY <1>6, <2>1, <2>2
  <2>5. Entry(r, "session") \in started
    <3> HIDE DEF begun, started
    <3> QED BY <1>13, <2>1, <2>4
  <2>6. taskGeneration'[Entry(r, "session")] = generation'[SessionOf[r]]
    <3> HIDE DEF begun, started
    <3> QED BY <1>15, <2>1, <2>5
  <2> QED BY <2>3, <2>6
<1>30. InOrder(q, t)
  <2> SUFFICES ASSUME NEW l \in Lanes, NEW i \in DOMAIN q[l], NEW j \in DOMAIN q[l],
                      i < j, t[q[l][j]] # "running", task'[q[l][j]] = "running"
               PROVE  task'[q[l][i]] # "queued"
    BY DEF InOrder
  <2>1. q[l][i] \in queuedOn(l) /\ q[l][j] \in queuedOn(l)
    <3> HIDE DEF queuedOn
    <3> QED BY <1>3 DEF Lists
  <2>2. q[l][j] \in started
    <3> HIDE DEF started, pushed, refused
    <3> QED BY <1>15, <2>1
  <2>3. q[l][j] \in pump(l)
    <3> HIDE DEF pump, started
    <3> QED BY <1>12, <2>1, <2>2
  <2>4. l \in outer \cup inner /\ pump(l) = Pumped(now(l), a[l], maxConcurrent'[l])
    BY <2>3
  <2>5. \A x \in DOMAIN q[l] : x \in DOMAIN now(l) /\ now(l)[x] = q[l][x]
    <3>1. CASE l \in Sessions
      BY <3>1
    <3>2. CASE l \notin Sessions
      <4>1. order[l] \in Seq(Entries)
        <5>1. pushedOn(l) \in SUBSET Entries /\ order[l] \in Orders(pushedOn(l))
          <6>1. pushedOn(l) \in SUBSET Entries
            BY <1>6
          <6> HIDE DEF pushedOn
          <6> QED BY <1>o, <1>4, <3>2, <6>1
        <5> HIDE DEF pushedOn
        <5> QED BY <5>1, OrdersList DEF Lists
      <4>2. /\ q[l] \in Seq(Entries) /\ Len(q[l]) \in Nat /\ DOMAIN q[l] = 1..Len(q[l])
            /\ Len(order[l]) \in Nat
        BY <4>1, LenProperties
      <4>3. /\ q[l] \o order[l] \in Seq(Entries)
            /\ Len(q[l] \o order[l]) = Len(q[l]) + Len(order[l])
            /\ \A x \in 1..Len(q[l]) + Len(order[l]) :
                 (q[l] \o order[l])[x]
                   = IF x <= Len(q[l]) THEN q[l][x] ELSE order[l][x - Len(q[l])]
        BY <4>1, <4>2, ConcatProperties
      <4>4. DOMAIN (q[l] \o order[l]) = 1..Len(q[l]) + Len(order[l])
        BY <4>3, LenProperties
      <4>5. now(l) = q[l] \o order[l]
        BY <3>2
      <4> HIDE DEF now
      <4> QED BY <4>2, <4>3, <4>4, <4>5
    <3> QED BY <3>1, <3>2
  <2>6. OldestFirst(now(l), Pumped(now(l), a[l], maxConcurrent'[l]))
    <3>1. /\ Lists(now(l), queuedOn(l) \cup pushedOn(l))
          /\ (queuedOn(l) \cup pushedOn(l)) \cap a[l] = {}
          /\ IsFiniteSet(a[l]) /\ maxConcurrent'[l] \in Nat \ {0}
      BY <1>3, <1>7, <1>8
    <3> DEFINE W == queuedOn(l) \cup pushedOn(l)
    <3>2. Lists(now(l), W) /\ W \cap a[l] = {}
      BY <3>1
    <3> HIDE DEF W, now
    <3> QED BY <3>1, <3>2, PumpEffect
  <2>7. q[l][i] \in pump(l)
    <3> HIDE DEF now, pump, outer, inner
    <3> QED BY <2>3, <2>4, <2>5, <2>6 DEF OldestFirst
  <2>8. q[l][i] \in started
    BY <2>7
  <2> HIDE DEF started, queuedOn
  <2>9. task'[q[l][i]] = "running"
    BY <1>15, <1>14, <2>8
  <2> QED BY <2>9
<1>31. PumpSteps(q, t)
  BY <1>27, <1>28, <1>29, <1>30 DEF PumpSteps
<1> QED BY <1>25, <1>31

\* What an operation changes before it pumps does not count: it appends to the
\* queues and settles or queues an outer entry.
LEMMA PumpsFrom ==
    ASSUME NEW q, NEW t, TypeOK, PumpSteps(q, t),
           \A l \in Lanes : \A i \in DOMAIN queue[l] :
             i \in DOMAIN q[l] /\ q[l][i] = queue[l][i],
           \A e \in Entries : task[e] # "running" => t[e] # "running",
           \A r \in Runs : t[Entry(r, "global")] \in {"queued", "running"}
                            => task[Entry(r, "global")] \in {"queued", "running"}
    PROVE  PumpSteps(queue, task)
<1>1. WithinCaps(task)
  BY DEF PumpSteps, WithinCaps
<1>2. EntersFresh(task)
  BY DEF PumpSteps, EntersFresh
<1>3. \A l \in Lanes : \A i \in DOMAIN queue[l] : queue[l][i] \in Entries
  BY ElementOfSeq, LenProperties DEF TypeOK
<1>4. InOrder(queue, task)
  <2> SUFFICES ASSUME NEW l \in Lanes, NEW i \in DOMAIN queue[l], NEW j \in DOMAIN queue[l],
                      i < j, task[queue[l][j]] # "running", task'[queue[l][j]] = "running"
               PROVE  task'[queue[l][i]] # "queued"
    BY DEF InOrder
  <2>1. /\ i \in DOMAIN q[l] /\ j \in DOMAIN q[l]
        /\ q[l][i] = queue[l][i] /\ q[l][j] = queue[l][j]
        /\ t[q[l][j]] # "running"
    BY <1>3
  <2> QED BY <2>1 DEF PumpSteps, InOrder
<1> QED BY <1>1, <1>2, <1>4 DEF PumpSteps

\* A step that pumps nothing starts nothing.
LEMMA NoPump ==
    ASSUME TypeOK, taskGeneration' = taskGeneration,
           \A e \in Entries : task'[e] \in {"queued", "running"} => task'[e] = task[e]
    PROVE  PumpSteps(queue, task)
<1>1. \A l \in Lanes : \A i \in DOMAIN queue[l] : queue[l][i] \in Entries
  BY ElementOfSeq, LenProperties DEF TypeOK
<1>2. \A r \in Runs : Entry(r, "global") \in Entries
  BY EntryType DEF Levels
<1> QED BY <1>1, <1>2 DEF PumpSteps, WithinCaps, InOrder, Stamped, EntersFresh

-----------------------------------------------------------------------------
(* The operations. *)

USE DEF Settled

LEMMA InitInvariant == Init => IInv
<1> SUFFICES ASSUME Init PROVE IInv
  OBVIOUS
<1>1. TypeOK
  <2>1. queue \in [Lanes -> Seq(Entries)]
    BY EmptySeq DEF Init
  <2>2. activeTaskIds \in [Lanes -> SUBSET Entries]
    BY DEF Init
  <2>3. maxConcurrent \in [Lanes -> Nat \ {0}] /\ generation \in [Lanes -> Nat]
    BY DEF Init
  <2>4. gatewayDraining \in BOOLEAN /\ task \in [Entries -> TaskState]
    BY DEF Init, TaskState
  <2>5. taskGeneration \in [Entries -> Nat]
    BY DEF Init
  <2> QED BY <2>1, <2>2, <2>3, <2>4, <2>5 DEF TypeOK
<1>2. Accounts(queue, activeTaskIds, task, taskGeneration, generation)
  <2> SUFFICES ASSUME NEW l \in Lanes
               PROVE  /\ Lists(queue[l], {e \in Entries : LaneOf(e) = l /\ task[e] = "queued"})
                      /\ activeTaskIds[l] = {e \in Entries : /\ LaneOf(e) = l
                                                             /\ task[e] = "running"
                                                             /\ taskGeneration[e] = generation[l]}
    BY DEF Accounts
  <2>1. {e \in Entries : LaneOf(e) = l /\ task[e] = "queued"} = {}
    BY DEF Init
  <2>2. queue[l] = <<>> /\ activeTaskIds[l] = {}
    BY DEF Init
  <2>3. Lists(<<>>, {})
    BY DEF Lists
  <2> QED BY <2>1, <2>2, <2>3 DEF Init
<1>3. Past(taskGeneration, generation) /\ OneSlot(maxConcurrent)
  BY LaneOfType DEF Init, Past, OneSlot, Lanes
<1>4. Awaits(task) /\ Exclusive(task, taskGeneration)
  BY EntryType DEF Init, Awaits, Exclusive, Levels
<1>5. \A l \in Lanes : Busy(queue, activeTaskIds, maxConcurrent, l)
  BY DEF Init, Busy
<1> QED BY <1>1, <1>2, <1>3, <1>4, <1>5 DEF IInv

\* Appending a new entry to its lane.
LEMMA AppendList ==
    ASSUME NEW S \in SUBSET Entries, NEW s, Lists(s, S), NEW e \in Entries, e \notin S
    PROVE  Lists(Append(s, e), S \cup {e})
<1>1. Lists(<<e>>, {e})
  <2>1. <<e>> \in Seq(Entries) /\ DOMAIN <<e>> = {1} /\ <<e>>[1] = e
    OBVIOUS
  <2> QED BY <2>1 DEF Lists
<1>2. Lists(s \o <<e>>, S \cup {e})
  BY <1>1, ConcatLists
<1>3. Append(s, e) = s \o <<e>>
  BY AppendIsConcat DEF Lists
<1> QED BY <1>2, <1>3

\* Entering an entry on its lane's queue.
LEMMA EnqueueInvariant ==
    ASSUME IInv, NEW r \in Runs, NEW e \in {Entry(r, "cron"), Entry(r, "session")},
           e.level = "session" /\ r \in ManualCron => task[Entry(r, "cron")] = "running",
           EnqueueCommandInLane(e)
    PROVE  IInv' /\ PumpSteps(queue, task)
<1>1. e \in Entries /\ e.level \in {"cron", "session"} /\ e.run = r
      /\ e = Entry(r, e.level) /\ LaneOf(e) \in Lanes /\ task[e] = "none"
  BY EntryType, LaneOfType DEF EnqueueCommandInLane, Levels
<1>2. \A r2 \in Runs : Entry(r2, "global") # e /\ (r2 # r => Entry(r2, "session") # e
                                                     /\ Entry(r2, "cron") # e)
  BY <1>1, EntryType DEF Levels
<1>3. TypeOK /\ maxConcurrent' = maxConcurrent /\ generation' = generation
      /\ gatewayDraining' = gatewayDraining
  BY DEF IInv, EnqueueCommandInLane
<1>4. ASSUME NEW out \in {"queued", "rejected"}
      PROVE  /\ [task EXCEPT ![e] = out] \in [Entries -> TaskState]
             /\ Awaits([task EXCEPT ![e] = out])
             /\ Exclusive([task EXCEPT ![e] = out], taskGeneration)
  <2> DEFINE t == [task EXCEPT ![e] = out]
  <2>1. t \in [Entries -> TaskState] /\ t[e] = out
        /\ \A x \in Entries : x # e => t[x] = task[x]
    BY <1>1, <1>3 DEF TypeOK, TaskState
  <2> HIDE DEF t
  <2>2. \A x \in Entries : t[x] = "running" <=> task[x] = "running"
    BY <1>1, <2>1
  <2>3. Exclusive(t, taskGeneration)
    <3>1. \A r1 \in Runs : Entry(r1, "session") \in Entries
      BY EntryType DEF Levels
    <3> QED BY <2>2, <3>1 DEF Exclusive, IInv
  <2>4. ASSUME NEW r2 \in Runs
        PROVE  /\ t[Entry(r2, "global")] \in {"queued", "running"}
                    => t[Entry(r2, "session")] = "running"
               /\ r2 \in ManualCron /\ t[Entry(r2, "session")] \in {"queued", "running"}
                    => t[Entry(r2, "cron")] = "running"
               /\ t[Entry(r2, "session")] \in {"none", "queued"}
                    => t[Entry(r2, "global")] = "none"
    <3> DEFINE G == Entry(r2, "global")
               S == Entry(r2, "session")
               C == Entry(r2, "cron")
    <3>1. /\ G \in Entries /\ S \in Entries /\ C \in Entries
          /\ G # e /\ G # S /\ G # C /\ S # C
          /\ r2 # r => S # e /\ C # e
          /\ r2 = r => e = S \/ e = C
          /\ S = e /\ r2 \in ManualCron => task[C] = "running"
      BY <1>1, <1>2, EntryType DEF Levels
    <3>2. /\ task[G] \in {"queued", "running"} => task[S] = "running"
          /\ r2 \in ManualCron /\ task[S] \in {"queued", "running"} => task[C] = "running"
          /\ task[S] \in {"none", "queued"} => task[G] = "none"
      BY DEF IInv, Awaits
    <3> HIDE DEF G, S, C
    <3>3. t[G] \in {"queued", "running"} => t[S] = "running"
      BY <1>1, <2>1, <3>1, <3>2
    <3>4. r2 \in ManualCron /\ t[S] \in {"queued", "running"} => t[C] = "running"
      BY <1>1, <2>1, <3>1, <3>2
    <3>5. t[S] \in {"none", "queued"} => t[G] = "none"
      BY <1>1, <2>1, <3>1, <3>2
    <3> QED BY <3>3, <3>4, <3>5 DEF G, S, C
  <2>5. Awaits(t)
    BY <2>4 DEF Awaits
  <2> QED BY <2>1, <2>3, <2>5 DEF t
<1>5. CASE /\ gatewayDraining
           /\ task' = [task EXCEPT ![e] = "rejected"]
           /\ UNCHANGED <<queue, activeTaskIds, taskGeneration>>
  <2>1. /\ task' \in [Entries -> TaskState]
        /\ Awaits(task')
        /\ Exclusive(task', taskGeneration')
    BY <1>4, <1>5
  <2>2. \A x \in Entries : /\ task'[x] = "queued" <=> task[x] = "queued"
                           /\ task'[x] = "running" <=> task[x] = "running"
    BY <1>1, <1>3, <1>5 DEF TypeOK
  <2>3. Accounts(queue', activeTaskIds', task', taskGeneration', generation')
    <3> SUFFICES ASSUME NEW l \in Lanes
                 PROVE  /\ Lists(queue[l], {x \in Entries : LaneOf(x) = l /\ task'[x] = "queued"})
                        /\ activeTaskIds[l] = {x \in Entries : /\ LaneOf(x) = l
                                                   /\ task'[x] = "running"
                                                   /\ taskGeneration[x] = generation[l]}
      BY <1>3, <1>5 DEF Accounts
    <3>1. /\ {x \in Entries : LaneOf(x) = l /\ task'[x] = "queued"}
               = {x \in Entries : LaneOf(x) = l /\ task[x] = "queued"}
          /\ {x \in Entries : LaneOf(x) = l /\ task'[x] = "running"
                                /\ taskGeneration[x] = generation[l]}
               = {x \in Entries : LaneOf(x) = l /\ task[x] = "running"
                                /\ taskGeneration[x] = generation[l]}
      BY <2>2
    <3> QED BY <3>1 DEF IInv, Accounts
  <2>4. /\ Past(taskGeneration', generation')
        /\ OneSlot(maxConcurrent')
        /\ \A l \in Lanes : Busy(queue', activeTaskIds', maxConcurrent', l)
    BY <1>3, <1>5 DEF IInv, Past, OneSlot, Busy
  <2>5. TypeOK'
    BY <1>3, <1>5, <2>1 DEF TypeOK
  <2>6. PumpSteps(queue, task)
    <3>1. \A x \in Entries : task'[x] \in {"queued", "running"} => task'[x] = task[x]
      BY <1>1, <1>3, <1>5 DEF TypeOK
    <3> QED BY <1>3, <1>5, <3>1, NoPump
  <2> QED BY <2>1, <2>3, <2>4, <2>5, <2>6 DEF IInv
<1>6. CASE /\ ~gatewayDraining
           /\ DrainLanes({LaneOf(e)},
                         [queue EXCEPT ![LaneOf(e)] = Append(@, e)],
                         activeTaskIds,
                         [task EXCEPT ![e] = "queued"])
  <2> DEFINE q == [queue EXCEPT ![LaneOf(e)] = Append(@, e)]
             t == [task EXCEPT ![e] = "queued"]
  <2>1. /\ q \in [Lanes -> Seq(Entries)]
        /\ \A l \in Lanes : l # LaneOf(e) => q[l] = queue[l]
        /\ q[LaneOf(e)] = Append(queue[LaneOf(e)], e)
    <3>1. Append(queue[LaneOf(e)], e) \in Seq(Entries)
      BY <1>1, <1>3, AppendProperties DEF TypeOK
    <3> QED BY <1>1, <1>3, <3>1 DEF TypeOK
  <2>2. /\ t \in [Entries -> TaskState] /\ t[e] = "queued" /\ task[e] = "none"
        /\ \A x \in Entries : x # e => t[x] = task[x]
    BY <1>1, <1>3, <1>4 DEF TypeOK
  <2>3. Awaits(t) /\ Exclusive(t, taskGeneration)
    BY <1>4
  <2>4. Accounts(q, activeTaskIds, t, taskGeneration, generation')
    <3> SUFFICES ASSUME NEW l \in Lanes
                 PROVE  /\ Lists(q[l], {x \in Entries : LaneOf(x) = l /\ t[x] = "queued"})
                        /\ activeTaskIds[l] = {x \in Entries : /\ LaneOf(x) = l
                                                   /\ t[x] = "running"
                                                   /\ taskGeneration[x] = generation'[l]}
      BY DEF Accounts
    <3> HIDE DEF t, q
    <3>1. Lists(queue[l], {x \in Entries : LaneOf(x) = l /\ task[x] = "queued"})
      BY DEF IInv, Accounts
    <3>2. CASE l = LaneOf(e)
      <4>1. Lists(Append(queue[l], e),
                  {x \in Entries : LaneOf(x) = l /\ task[x] = "queued"} \cup {e})
        BY <1>1, <3>1, AppendList
      <4>2. {x \in Entries : LaneOf(x) = l /\ task[x] = "queued"} \cup {e}
              = {x \in Entries : LaneOf(x) = l /\ t[x] = "queued"}
        BY <1>1, <2>2, <3>2
      <4>3. Lists(q[l], {x \in Entries : LaneOf(x) = l /\ t[x] = "queued"})
        BY <2>1, <3>2, <4>1, <4>2
      <4>4. {x \in Entries : /\ LaneOf(x) = l /\ t[x] = "running"
                             /\ taskGeneration[x] = generation[l]}
              = {x \in Entries : /\ LaneOf(x) = l /\ task[x] = "running"
                                 /\ taskGeneration[x] = generation[l]}
        BY <2>2
      <4> QED BY <1>3, <4>3, <4>4 DEF IInv, Accounts
    <3>3. CASE l # LaneOf(e)
      <4>1. /\ {x \in Entries : LaneOf(x) = l /\ task[x] = "queued"}
                 = {x \in Entries : LaneOf(x) = l /\ t[x] = "queued"}
            /\ {x \in Entries : /\ LaneOf(x) = l /\ t[x] = "running"
                                /\ taskGeneration[x] = generation[l]}
                 = {x \in Entries : /\ LaneOf(x) = l /\ task[x] = "running"
                                    /\ taskGeneration[x] = generation[l]}
        BY <1>1, <2>2, <3>3
      <4>2. q[l] = queue[l]
        BY <2>1, <3>3
      <4> QED BY <1>3, <3>1, <4>1, <4>2 DEF IInv, Accounts
    <3> QED BY <3>2, <3>3
  <2>5. \A l \in Lanes \ {LaneOf(e)} : Busy(q, activeTaskIds, maxConcurrent', l)
    BY <1>3, <2>1 DEF IInv, Busy
  <2>6. DrainLanes({LaneOf(e)}, q, activeTaskIds, t) /\ {LaneOf(e)} \in SUBSET Lanes
    BY <1>1, <1>6
  <2>7. /\ activeTaskIds \in [Lanes -> SUBSET Entries]
        /\ taskGeneration \in [Entries -> Nat]
        /\ maxConcurrent' \in [Lanes -> Nat \ {0}]
        /\ generation' \in [Lanes -> Nat]
        /\ gatewayDraining' \in BOOLEAN
        /\ Past(taskGeneration, generation')
        /\ OneSlot(maxConcurrent')
    BY <1>3 DEF IInv, TypeOK
  <2> HIDE DEF q, t
  <2>8. IInv' /\ PumpSteps(q, t)
    BY <2>1, <2>2, <2>3, <2>4, <2>5, <2>6, <2>7, DrainLanesPreserves
  <2>9. \A l \in Lanes : \A i \in DOMAIN queue[l] :
          i \in DOMAIN q[l] /\ q[l][i] = queue[l][i]
    <3> SUFFICES ASSUME NEW i \in DOMAIN queue[LaneOf(e)]
                 PROVE  /\ i \in DOMAIN q[LaneOf(e)]
                        /\ q[LaneOf(e)][i] = queue[LaneOf(e)][i]
      BY <1>1, <2>1
    <3>1. queue[LaneOf(e)] \in Seq(Entries) /\ i \in 1..Len(queue[LaneOf(e)])
          /\ Len(queue[LaneOf(e)]) \in Nat
      BY <1>1, <1>3, LenProperties DEF TypeOK
    <3>2. /\ Append(queue[LaneOf(e)], e)[i] = queue[LaneOf(e)][i]
          /\ Len(Append(queue[LaneOf(e)], e)) = Len(queue[LaneOf(e)]) + 1
          /\ Append(queue[LaneOf(e)], e) \in Seq(Entries)
      BY <1>1, <3>1, AppendProperties
    <3>3. DOMAIN Append(queue[LaneOf(e)], e) = 1..Len(queue[LaneOf(e)]) + 1
      BY <3>2, LenProperties
    <3> QED BY <2>1, <3>1, <3>2, <3>3
  <2>10. \A r2 \in Runs : t[Entry(r2, "global")] = task[Entry(r2, "global")]
    BY <1>2, <2>2, EntryType DEF Levels
  <2>11. \A x \in Entries : task[x] # "running" => t[x] # "running"
    BY <2>2
  <2>12. PumpSteps(queue, task)
    BY <1>3, <2>8, <2>9, <2>10, <2>11, PumpsFrom
  <2> QED BY <2>8, <2>12
<1> QED BY <1>5, <1>6 DEF EnqueueCommandInLane

\* The end of a running task, before the lane is pumped.
LEMMA SettleFacts ==
    ASSUME IInv, NEW e \in Entries, task[e] = "running", NEW out \in Outcomes(e)
    PROVE  /\ out \in {"resolved", "rejected"}
           /\ [task EXCEPT ![e] = out] \in [Entries -> TaskState]
           /\ Awaits([task EXCEPT ![e] = out])
           /\ Exclusive([task EXCEPT ![e] = out], taskGeneration)
<1> DEFINE t == [task EXCEPT ![e] = out]
<1>1. TypeOK /\ e.level \in Levels /\ e.run \in Runs /\ e = Entry(e.run, e.level)
  BY EntryEta DEF IInv, Entries
<1>2. out \in {"resolved", "rejected"}
  BY <1>1 DEF Outcomes, Levels
<1>3. t \in [Entries -> TaskState] /\ t[e] = out
      /\ \A x \in Entries : x # e => t[x] = task[x]
  BY <1>1, <1>2 DEF TypeOK, TaskState
<1> HIDE DEF t
<1>4. Exclusive(t, taskGeneration)
  <2>1. \A x \in Entries : t[x] = "running" => task[x] = "running"
    BY <1>3
  <2>2. \A r1 \in Runs : Entry(r1, "session") \in Entries
    BY EntryType DEF Levels
  <2> QED BY <2>1, <2>2 DEF Exclusive, IInv
<1>5. ASSUME NEW r2 \in Runs
      PROVE  /\ t[Entry(r2, "global")] \in {"queued", "running"}
                  => t[Entry(r2, "session")] = "running"
             /\ r2 \in ManualCron /\ t[Entry(r2, "session")] \in {"queued", "running"}
                  => t[Entry(r2, "cron")] = "running"
             /\ t[Entry(r2, "session")] \in {"none", "queued"}
                  => t[Entry(r2, "global")] = "none"
  <2> DEFINE G == Entry(r2, "global")
             S == Entry(r2, "session")
             C == Entry(r2, "cron")
  <2>1. /\ G \in Entries /\ S \in Entries /\ C \in Entries
        /\ G # S /\ G # C /\ S # C
        /\ G.level = "global" /\ S.level = "session" /\ C.level = "cron"
    BY EntryType DEF Levels
  <2>2. /\ task[G] \in {"queued", "running"} => task[S] = "running"
        /\ r2 \in ManualCron /\ task[S] \in {"queued", "running"} => task[C] = "running"
        /\ task[S] \in {"none", "queued"} => task[G] = "none"
    BY DEF IInv, Awaits
  <2>3. e = S => out = task[G] /\ task[G] \in {"resolved", "rejected"}
    <3>1. e = S => e.run = r2 /\ e.level = "session"
      BY EntryType DEF Levels
    <3> QED BY <3>1 DEF Outcomes
  <2>4. e = C => task[S] \in {"none", "resolved", "rejected"}
    <3>1. e = C => e.run = r2 /\ e.level = "cron"
      BY EntryType DEF Levels
    <3> QED BY <3>1 DEF Outcomes
  <2> HIDE DEF G, S, C
  <2>5. t[G] \in {"queued", "running"} => t[S] = "running"
    BY <1>2, <1>3, <2>1, <2>2, <2>3
  <2>6. r2 \in ManualCron /\ t[S] \in {"queued", "running"} => t[C] = "running"
    BY <1>2, <1>3, <2>1, <2>2, <2>4
  <2>7. t[S] \in {"none", "queued"} => t[G] = "none"
    <3>1. CASE t[S] \in {"none", "queued"}
      <4>1. e # S /\ t[S] = task[S] /\ task[G] = "none"
        BY <1>2, <1>3, <2>1, <2>2, <3>1
      <4>2. e # G
        BY <4>1
      <4> QED BY <1>3, <2>1, <4>1, <4>2
    <3> QED BY <3>1
  <2> QED BY <2>5, <2>6, <2>7 DEF G, S, C
<1>6. Awaits(t)
  BY <1>5 DEF Awaits
<1> QED BY <1>2, <1>3, <1>4, <1>6 DEF t

LEMMA CompleteTaskInvariant ==
    ASSUME IInv, NEW e \in Entries, CompleteTask(e)
    PROVE  IInv' /\ PumpSteps(queue, task)
<1>1. TypeOK /\ maxConcurrent' = maxConcurrent /\ generation' = generation
      /\ gatewayDraining' = gatewayDraining /\ task[e] = "running"
      /\ LaneOf(e) \in Lanes
  BY LaneOfType DEF IInv, CompleteTask
<1>2. PICK out \in Outcomes(e) :
         \/ /\ taskGeneration[e] = generation[LaneOf(e)]
            /\ DrainLanes({LaneOf(e)}, queue,
                          [activeTaskIds EXCEPT ![LaneOf(e)] = @ \ {e}],
                          [task EXCEPT ![e] = out])
         \/ /\ taskGeneration[e] # generation[LaneOf(e)]
            /\ task' = [task EXCEPT ![e] = out]
            /\ UNCHANGED <<queue, activeTaskIds, taskGeneration>>
  BY DEF CompleteTask
<1> DEFINE t == [task EXCEPT ![e] = out]
           a == [activeTaskIds EXCEPT ![LaneOf(e)] = @ \ {e}]
<1>3. /\ out \in {"resolved", "rejected"}
      /\ t \in [Entries -> TaskState]
      /\ Awaits(t)
      /\ Exclusive(t, taskGeneration)
  BY <1>1, SettleFacts
<1>4. t[e] = out /\ \A x \in Entries : x # e => t[x] = task[x]
  BY <1>1 DEF TypeOK
<1> HIDE DEF t
<1>5. \A l \in Lanes :
        {x \in Entries : LaneOf(x) = l /\ t[x] = "queued"}
          = {x \in Entries : LaneOf(x) = l /\ task[x] = "queued"}
  BY <1>1, <1>3, <1>4
<1>6. CASE /\ taskGeneration[e] = generation[LaneOf(e)]
           /\ DrainLanes({LaneOf(e)}, queue, a, t)
  <2>1. /\ a \in [Lanes -> SUBSET Entries]
        /\ \A l \in Lanes : l # LaneOf(e) => a[l] = activeTaskIds[l]
        /\ a[LaneOf(e)] = activeTaskIds[LaneOf(e)] \ {e}
    BY <1>1 DEF TypeOK
  <2> HIDE DEF a
  <2>2. Accounts(queue, a, t, taskGeneration, generation')
    <3> SUFFICES ASSUME NEW l \in Lanes
                 PROVE  /\ Lists(queue[l], {x \in Entries : LaneOf(x) = l /\ t[x] = "queued"})
                        /\ a[l] = {x \in Entries : /\ LaneOf(x) = l
                                                   /\ t[x] = "running"
                                                   /\ taskGeneration[x] = generation[l]}
      BY <1>1 DEF Accounts
    <3>1. Lists(queue[l], {x \in Entries : LaneOf(x) = l /\ t[x] = "queued"})
      BY <1>5 DEF IInv, Accounts
    <3>2. activeTaskIds[l] = {x \in Entries : /\ LaneOf(x) = l
                                              /\ task[x] = "running"
                                              /\ taskGeneration[x] = generation[l]}
      BY DEF IInv, Accounts
    <3>3. \A x \in Entries : t[x] = "running" <=> x # e /\ task[x] = "running"
      BY <1>3, <1>4
    <3>4. a[l] = activeTaskIds[l] \ {e}
      BY <2>1, <3>2
    <3> QED BY <3>1, <3>2, <3>3, <3>4
  <2>3. \A l \in Lanes \ {LaneOf(e)} : Busy(queue, a, maxConcurrent', l)
    BY <1>1, <2>1 DEF IInv, Busy
  <2>4. /\ queue \in [Lanes -> Seq(Entries)]
        /\ taskGeneration \in [Entries -> Nat]
        /\ maxConcurrent' \in [Lanes -> Nat \ {0}]
        /\ generation' \in [Lanes -> Nat]
        /\ gatewayDraining' \in BOOLEAN
        /\ Past(taskGeneration, generation')
        /\ OneSlot(maxConcurrent')
        /\ {LaneOf(e)} \in SUBSET Lanes
    BY <1>1 DEF IInv, TypeOK
  <2>5. IInv' /\ PumpSteps(queue, t)
    BY <1>3, <1>6, <2>1, <2>2, <2>3, <2>4, DrainLanesPreserves
  <2>6. /\ \A x \in Entries : task[x] # "running" => t[x] # "running"
        /\ \A r \in Runs : t[Entry(r, "global")] \in {"queued", "running"}
                           => task[Entry(r, "global")] \in {"queued", "running"}
    BY <1>3, <1>4, EntryType DEF Levels
  <2>7. PumpSteps(queue, task)
    BY <1>1, <2>5, <2>6, PumpsFrom
  <2> QED BY <2>5, <2>7
<1>7. CASE /\ taskGeneration[e] # generation[LaneOf(e)]
           /\ task' = t
           /\ UNCHANGED <<queue, activeTaskIds, taskGeneration>>
  <2>1. Accounts(queue', activeTaskIds', task', taskGeneration', generation')
    <3> SUFFICES ASSUME NEW l \in Lanes
                 PROVE  /\ Lists(queue[l], {x \in Entries : LaneOf(x) = l /\ t[x] = "queued"})
                        /\ activeTaskIds[l] = {x \in Entries : /\ LaneOf(x) = l
                                                   /\ t[x] = "running"
                                                   /\ taskGeneration[x] = generation[l]}
      BY <1>1, <1>7 DEF Accounts
    <3>1. Lists(queue[l], {x \in Entries : LaneOf(x) = l /\ t[x] = "queued"})
      BY <1>5 DEF IInv, Accounts
    <3>2. activeTaskIds[l] = {x \in Entries : /\ LaneOf(x) = l
                                              /\ task[x] = "running"
                                              /\ taskGeneration[x] = generation[l]}
      BY DEF IInv, Accounts
    <3>3. \A x \in Entries : t[x] = "running" <=> x # e /\ task[x] = "running"
      BY <1>3, <1>4
    <3> QED BY <1>7, <3>1, <3>2, <3>3
  <2>2. /\ Past(taskGeneration', generation')
        /\ OneSlot(maxConcurrent')
        /\ \A l \in Lanes : Busy(queue', activeTaskIds', maxConcurrent', l)
    BY <1>1, <1>7 DEF IInv, Past, OneSlot, Busy
  <2>3. TypeOK'
    BY <1>1, <1>3, <1>7 DEF TypeOK
  <2>4. Awaits(task') /\ Exclusive(task', taskGeneration')
    BY <1>3, <1>7
  <2>5. \A x \in Entries : task'[x] \in {"queued", "running"} => task'[x] = task[x]
    BY <1>3, <1>4, <1>7
  <2>6. PumpSteps(queue, task)
    BY <1>1, <1>7, <2>5, NoPump
  <2> QED BY <2>1, <2>2, <2>3, <2>4, <2>6 DEF IInv
<1> QED BY <1>2, <1>6, <1>7 DEF t

LEMMA ClearCommandLaneInvariant ==
    ASSUME IInv, NEW s \in Sessions, ClearCommandLane(s)
    PROVE  IInv' /\ PumpSteps(queue, task)
<1>1. /\ TypeOK /\ s \in Lanes
      /\ queue' = [queue EXCEPT ![s] = <<>>]
      /\ task' = [e \in Entries |-> IF \E i \in DOMAIN queue[s] : queue[s][i] = e
                                    THEN "rejected" ELSE task[e]]
      /\ UNCHANGED <<activeTaskIds, maxConcurrent, generation, gatewayDraining,
                     taskGeneration>>
  BY DEF IInv, ClearCommandLane, Lanes
<1>2. \A e \in Entries : (\E i \in DOMAIN queue[s] : queue[s][i] = e)
                           <=> LaneOf(e) = s /\ task[e] = "queued"
  <2>1. {queue[s][i] : i \in DOMAIN queue[s]}
          = {e \in Entries : LaneOf(e) = s /\ task[e] = "queued"}
    BY <1>1 DEF IInv, Accounts, Lists
  <2> QED BY <2>1
<1>3. \A e \in Entries :
        /\ LaneOf(e) = s /\ task[e] = "queued" => task'[e] = "rejected"
        /\ ~(LaneOf(e) = s /\ task[e] = "queued") => task'[e] = task[e]
  BY <1>1, <1>2
<1>4. TypeOK'
  <2>1. queue' \in [Lanes -> Seq(Entries)]
    BY <1>1, EmptySeq DEF TypeOK
  <2>2. task' \in [Entries -> TaskState]
    BY <1>1 DEF TypeOK, TaskState
  <2> QED BY <1>1, <2>1, <2>2 DEF TypeOK
<1>5. Accounts(queue', activeTaskIds', task', taskGeneration', generation')
  <2> SUFFICES ASSUME NEW l \in Lanes
               PROVE  /\ Lists(queue'[l], {x \in Entries : LaneOf(x) = l /\ task'[x] = "queued"})
                      /\ activeTaskIds[l] = {x \in Entries : /\ LaneOf(x) = l
                                                 /\ task'[x] = "running"
                                                 /\ taskGeneration[x] = generation[l]}
    BY <1>1 DEF Accounts
  <2>1. activeTaskIds[l] = {x \in Entries : /\ LaneOf(x) = l
                                            /\ task'[x] = "running"
                                            /\ taskGeneration[x] = generation[l]}
    <3>1. \A x \in Entries : task'[x] = "running" <=> task[x] = "running"
      BY <1>3
    <3>2. activeTaskIds[l] = {x \in Entries : /\ LaneOf(x) = l
                                              /\ task[x] = "running"
                                              /\ taskGeneration[x] = generation[l]}
      BY DEF IInv, Accounts
    <3> QED BY <3>1, <3>2
  <2>2. CASE l = s
    <3>1. {x \in Entries : LaneOf(x) = l /\ task'[x] = "queued"} = {}
      BY <1>3, <2>2
    <3>2. queue'[l] = <<>>
      BY <1>1, <2>2 DEF TypeOK
    <3>3. Lists(<<>>, {})
      BY DEF Lists
    <3> QED BY <2>1, <3>1, <3>2, <3>3
  <2>3. CASE l # s
    <3>1. {x \in Entries : LaneOf(x) = l /\ task'[x] = "queued"}
            = {x \in Entries : LaneOf(x) = l /\ task[x] = "queued"}
      BY <1>3, <2>3
    <3>2. queue'[l] = queue[l]
      BY <1>1, <2>3 DEF TypeOK
    <3> QED BY <2>1, <3>1, <3>2 DEF IInv, Accounts
  <2> QED BY <2>2, <2>3
<1>6. Awaits(task')
  <2> SUFFICES ASSUME NEW r \in Runs
               PROVE  /\ task'[Entry(r, "global")] \in {"queued", "running"}
                           => task'[Entry(r, "session")] = "running"
                      /\ r \in ManualCron /\ task'[Entry(r, "session")] \in {"queued", "running"}
                           => task'[Entry(r, "cron")] = "running"
                      /\ task'[Entry(r, "session")] \in {"none", "queued"}
                           => task'[Entry(r, "global")] = "none"
    BY DEF Awaits
  <2>1. /\ Entry(r, "global") \in Entries /\ LaneOf(Entry(r, "global")) # s
        /\ Entry(r, "cron") \in Entries /\ LaneOf(Entry(r, "cron")) # s
        /\ Entry(r, "session") \in Entries
    BY EntryType, LaneOfType DEF Levels
  <2>2. /\ task'[Entry(r, "global")] = task[Entry(r, "global")]
        /\ task'[Entry(r, "cron")] = task[Entry(r, "cron")]
        /\ task'[Entry(r, "session")] \in {task[Entry(r, "session")], "rejected"}
        /\ task[Entry(r, "session")] # "queued"
             => task'[Entry(r, "session")] = task[Entry(r, "session")]
    BY <1>3, <2>1
  <2>3. /\ task[Entry(r, "global")] \in {"queued", "running"}
             => task[Entry(r, "session")] = "running"
        /\ r \in ManualCron /\ task[Entry(r, "session")] \in {"queued", "running"}
             => task[Entry(r, "cron")] = "running"
        /\ task[Entry(r, "session")] \in {"none", "queued"}
             => task[Entry(r, "global")] = "none"
    BY DEF IInv, Awaits
  <2> QED BY <2>2, <2>3
<1>7. Exclusive(task', taskGeneration')
  <2>1. \A r \in Runs : task'[Entry(r, "session")] = "running"
                          => task[Entry(r, "session")] = "running"
    BY <1>3, EntryType DEF Levels
  <2> QED BY <1>1, <2>1 DEF IInv, Exclusive
<1>8. /\ Past(taskGeneration', generation')
      /\ OneSlot(maxConcurrent')
      /\ \A l \in Lanes : Busy(queue', activeTaskIds', maxConcurrent', l)
  <2>1. \A l \in Lanes : queue'[l] \in {queue[l], <<>>}
    BY <1>1 DEF TypeOK
  <2> QED BY <1>1, <2>1 DEF IInv, Past, OneSlot, Busy
<1>9. PumpSteps(queue, task)
  <2>1. \A e \in Entries : task'[e] \in {"queued", "running"} => task'[e] = task[e]
    BY <1>3
  <2> QED BY <1>1, <2>1, NoPump
<1> QED BY <1>4, <1>5, <1>6, <1>7, <1>8, <1>9 DEF IInv

LEMMA SetCommandLaneConcurrencyInvariant ==
    ASSUME IInv, NEW l \in ConfigurableLanes, NEW n \in ConcurrencyChoices[l],
           SetCommandLaneConcurrency(l, n)
    PROVE  IInv' /\ PumpSteps(queue, task)
<1>1. /\ TypeOK /\ l \in Lanes /\ l \notin Sessions /\ n \in Nat
      /\ maxConcurrent' = [maxConcurrent EXCEPT ![l] = Slots(n)]
      /\ generation' = generation
      /\ gatewayDraining' = gatewayDraining
      /\ DrainLanes({l}, queue, activeTaskIds, task)
  BY ConstantsAssumption
     DEF IInv, SetCommandLaneConcurrency, ConfigurableLanes, Lanes, GlobalLanes
<1>2. /\ maxConcurrent' \in [Lanes -> Nat \ {0}]
      /\ \A x \in Lanes : x # l => maxConcurrent'[x] = maxConcurrent[x]
  BY <1>1 DEF TypeOK, Slots
<1>3. OneSlot(maxConcurrent')
  BY <1>1, <1>2 DEF IInv, OneSlot, Lanes
<1>4. \A x \in Lanes \ {l} : Busy(queue, activeTaskIds, maxConcurrent', x)
  BY <1>2 DEF IInv, Busy
<1>5. /\ {l} \in SUBSET Lanes
      /\ queue \in [Lanes -> Seq(Entries)]
      /\ activeTaskIds \in [Lanes -> SUBSET Entries]
      /\ task \in [Entries -> TaskState]
      /\ taskGeneration \in [Entries -> Nat]
      /\ generation' \in [Lanes -> Nat]
      /\ gatewayDraining' \in BOOLEAN
      /\ Accounts(queue, activeTaskIds, task, taskGeneration, generation')
      /\ Past(taskGeneration, generation')
      /\ Awaits(task)
      /\ Exclusive(task, taskGeneration)
  BY <1>1 DEF IInv, TypeOK
<1> QED BY <1>1, <1>2, <1>3, <1>4, <1>5, DrainLanesPreserves

LEMMA ResetAllLanesInvariant ==
    ASSUME IInv, ResetAllLanes
    PROVE  IInv' /\ PumpSteps(queue, task)
<1> DEFINE a == [l \in Lanes |-> {}]
<1>1. /\ TypeOK
      /\ gatewayDraining' = FALSE
      /\ generation' = [l \in Lanes |-> generation[l] + 1]
      /\ maxConcurrent' = maxConcurrent
      /\ DrainLanes(Lanes, queue, a, task)
  BY DEF IInv, ResetAllLanes
<1>2. /\ generation' \in [Lanes -> Nat]
      /\ \A l \in Lanes : generation[l] \in Nat /\ generation'[l] = generation[l] + 1
  BY <1>1 DEF TypeOK
\* Every task that still runs is of an earlier generation.
<1>3. \A e \in Entries : taskGeneration[e] < generation'[LaneOf(e)]
  <2> SUFFICES ASSUME NEW e \in Entries
               PROVE  taskGeneration[e] < generation'[LaneOf(e)]
    OBVIOUS
  <2>1. /\ LaneOf(e) \in Lanes /\ taskGeneration[e] \in Nat
        /\ taskGeneration[e] <= generation[LaneOf(e)]
    BY <1>1, LaneOfType DEF IInv, Past, TypeOK
  <2> QED BY <1>2, <2>1
<1>4. Past(taskGeneration, generation')
  <2> SUFFICES ASSUME NEW e \in Entries
               PROVE  taskGeneration[e] <= generation'[LaneOf(e)]
    BY DEF Past
  <2>1. taskGeneration[e] \in Nat /\ generation'[LaneOf(e)] \in Nat
    BY <1>1, <1>2, LaneOfType DEF TypeOK
  <2> QED BY <1>3, <2>1
<1>5. Accounts(queue, a, task, taskGeneration, generation')
  <2> SUFFICES ASSUME NEW l \in Lanes
               PROVE  {} = {x \in Entries : /\ LaneOf(x) = l
                                            /\ task[x] = "running"
                                            /\ taskGeneration[x] = generation'[l]}
    BY DEF IInv, Accounts
  <2>1. \A x \in Entries : taskGeneration[x] \in Nat /\ generation'[l] \in Nat
    BY <1>1, <1>2 DEF TypeOK
  <2> QED BY <1>3, <2>1
<1>6. /\ Lanes \in SUBSET Lanes
      /\ queue \in [Lanes -> Seq(Entries)]
      /\ a \in [Lanes -> SUBSET Entries]
      /\ task \in [Entries -> TaskState]
      /\ taskGeneration \in [Entries -> Nat]
      /\ maxConcurrent' \in [Lanes -> Nat \ {0}]
      /\ gatewayDraining' \in BOOLEAN
      /\ Awaits(task)
      /\ Exclusive(task, taskGeneration)
      /\ OneSlot(maxConcurrent')
      /\ \A l \in Lanes \ Lanes : Busy(queue, a, maxConcurrent', l)
  BY <1>1 DEF IInv, TypeOK
<1> HIDE DEF a
<1> QED BY <1>1, <1>2, <1>4, <1>5, <1>6, DrainLanesPreserves

-----------------------------------------------------------------------------
(* The theorems. *)

\* The flag for draining can change without harm.
LEMMA ChangesFlagOnly ==
  ASSUME IInv, gatewayDraining' \in BOOLEAN,
         UNCHANGED <<queue, activeTaskIds, maxConcurrent, generation, task,
                     taskGeneration>>
  PROVE  IInv' /\ PumpSteps(queue, task)
<1>1. TypeOK'
  BY DEF IInv, TypeOK
<1>2. /\ Accounts(queue, activeTaskIds, task, taskGeneration, generation)'
      /\ Past(taskGeneration, generation)'
  BY DEF IInv, Accounts, Past
<1>3. /\ Awaits(task)'
      /\ Exclusive(task, taskGeneration)'
      /\ OneSlot(maxConcurrent)'
  BY DEF IInv, Awaits, Exclusive, OneSlot
<1>4. (\A l \in Lanes : Busy(queue, activeTaskIds, maxConcurrent, l))'
  BY DEF IInv, Busy
<1>5. PumpSteps(queue, task)
  BY NoPump DEF IInv
<1> QED BY <1>1, <1>2, <1>3, <1>4, <1>5 DEF IInv

\* Every step keeps the invariant, and starts entries as a pump does.
LEMMA NextPumps == IInv /\ [Next]_vars => IInv' /\ PumpSteps(queue, task)
<1> SUFFICES ASSUME IInv, [Next]_vars PROVE IInv' /\ PumpSteps(queue, task)
  OBVIOUS
<1>1. ASSUME NEW r \in Runs, Submit(r) PROVE IInv' /\ PumpSteps(queue, task)
  <2>1. Outermost(r) \in {Entry(r, "cron"), Entry(r, "session")}
    BY DEF Outermost
  <2>2. Outermost(r).level = "session" => r \notin ManualCron
    BY EntryType DEF Outermost, Levels
  <2> QED BY <1>1, <2>1, <2>2, EnqueueInvariant DEF Submit
<1>2. ASSUME NEW r \in Runs, CronJobStartsRun(r)
      PROVE  IInv' /\ PumpSteps(queue, task)
  BY <1>2, EnqueueInvariant DEF CronJobStartsRun
<1>3. ASSUME NEW e \in Entries, CompleteTask(e)
      PROVE  IInv' /\ PumpSteps(queue, task)
  BY <1>3, CompleteTaskInvariant
<1>4. ASSUME NEW l \in Sessions, ClearCommandLane(l)
      PROVE  IInv' /\ PumpSteps(queue, task)
  BY <1>4, ClearCommandLaneInvariant
<1>5. ASSUME NEW l \in ConfigurableLanes, NEW n \in ConcurrencyChoices[l],
             SetCommandLaneConcurrency(l, n)
      PROVE  IInv' /\ PumpSteps(queue, task)
  BY <1>5, SetCommandLaneConcurrencyInvariant
<1>6. CASE MarkGatewayDraining
  <2>1. /\ gatewayDraining' \in BOOLEAN
        /\ UNCHANGED <<queue, activeTaskIds, maxConcurrent, generation, task,
                       taskGeneration>>
    BY <1>6 DEF MarkGatewayDraining
  <2> QED BY <2>1, ChangesFlagOnly
<1>7. CASE ResetAllLanes
  BY <1>7, ResetAllLanesInvariant
<1>8. CASE UNCHANGED vars
  <2>1. /\ gatewayDraining' \in BOOLEAN
        /\ UNCHANGED <<queue, activeTaskIds, maxConcurrent, generation, task,
                       taskGeneration>>
    BY <1>8 DEF vars, IInv, TypeOK
  <2> QED BY <2>1, ChangesFlagOnly
<1> QED BY <1>1, <1>2, <1>3, <1>4, <1>5, <1>6, <1>7, <1>8 DEF Next

\* Every step keeps the invariant.
THEOREM NextInvariant == IInv /\ [Next]_vars => IInv'
BY NextPumps

\* Type correctness, for any runs, sessions and lane configurations.
THEOREM TypeCorrect == Spec => []TypeOK
<1>1. IInv => TypeOK
  BY DEF IInv
<1> QED BY InitInvariant, NextInvariant, <1>1, PTL DEF Spec

\* Slots: completions of any generation neither leak nor free a foreign slot.
THEOREM SlotsAccounted == Spec => []SlotAccounting
<1>1. IInv => SlotAccounting
  BY DEF IInv, Accounts, SlotAccounting
<1> QED BY InitInvariant, NextInvariant, <1>1, PTL DEF Spec

\* Queues: no accepted entry is lost or duplicated.
THEOREM QueuesAccounted == Spec => []QueueAccounting
<1>1. IInv => QueueAccounting
  BY DEF IInv, Accounts, Lists, QueueAccounting, Waiting
<1> QED BY InitInvariant, NextInvariant, <1>1, PTL DEF Spec

\* No lost wake-up on any lane.
THEOREM NoIdleSlotWhileWaiting == Spec => []WorkConserving
<1>1. IInv => WorkConserving
  BY DEF IInv, Busy, WorkConserving
<1> QED BY InitInvariant, NextInvariant, <1>1, PTL DEF Spec

\* Inner entries live inside the outer entries that await them.
THEOREM SlotsNest == Spec => []SlotNesting
<1>1. IInv => SlotNesting
  BY DEF IInv, Awaits, SlotNesting
<1> QED BY InitInvariant, NextInvariant, <1>1, PTL DEF Spec

\* Within a generation, one run at a time per session.
THEOREM OneRunPerSession == Spec => []SessionExclusive
<1>1. IInv => SessionExclusive
  BY DEF IInv, Exclusive, SessionExclusive, InSession
<1> QED BY InitInvariant, NextInvariant, <1>1, PTL DEF Spec

\* A step that starts entries on a lane leaves the lane within its cap, though a
\* reload may have lowered it below the slots held, and no entry starts ahead of
\* one that waited longer (drainLane's pump).
THEOREM StartsRespectCapAndOrder == Spec => StartsWithinCapInOrder
<1> DEFINE Start(l) ==
      LET started(e) == task[e] # "running" /\ task'[e] = "running"
      IN  /\ (\E e \in Entries : LaneOf(e) = l /\ started(e))
               => Cardinality(activeTaskIds'[l]) <= maxConcurrent'[l]
          /\ \A i, j \in DOMAIN queue[l] :
               i < j /\ started(queue[l][j]) => task'[queue[l][i]] # "queued"
<1>1. IInv /\ [Next]_vars => [\A l \in Lanes : Start(l)]_vars
  <2> SUFFICES ASSUME IInv, [Next]_vars, NEW l \in Lanes PROVE Start(l)
    OBVIOUS
  <2>1. PumpSteps(queue, task)
    BY NextPumps
  <2> QED BY <2>1 DEF PumpSteps, WithinCaps, InOrder
<1>2. Spec => [][\A l \in Lanes : Start(l)]_vars
  <2> HIDE DEF Start
  <2> QED BY <1>1, InitInvariant, NextInvariant, PTL DEF Spec
<1> QED BY <1>2 DEF StartsWithinCapInOrder
=============================================================================
