------------------------- MODULE FollowupQueueProofs -------------------------
(* The followup queue keeps, tells once and tells in order what it accepted,  *)
(* for every number of messages, queue objects, clears, failures and          *)
(* redeliveries.                                                              *)
EXTENDS FollowupQueue, FiniteSetTheorems, SequenceTheorems, TLAPS

Runs == [texts : Seq(Messages), summary : SUBSET Messages, takes : Nat]

Objects ==
    [items : Seq(Messages), dropped : SUBSET Messages, settings : Settings,
     drain : {"idle", "debounce", "running"}, forced : BOOLEAN, run : Runs]

FQTypes ==
    /\ registered \in Queues \cup {None}
    /\ queue \in [Queues -> Objects]
    /\ callback \in BOOLEAN
    /\ recent \subseteq Messages /\ arriving \subseteq Messages
    /\ {clears, failures, redeliveries} \subseteq Nat
    /\ accepted \in Seq(Messages) /\ told \in Seq(Messages)

Distinct(s) == \A i, j \in DOMAIN s : s[i] = s[j] => i = j

\* An object holds what waits in it and what its run was given.
Holds(q, m) == m \in Elems(queue[q].items) \cup Elems(queue[q].run.texts)

\* Each message was accepted once, is held by one object, and only until it is told.
Accepted ==
    /\ Distinct(accepted) /\ recent = Elems(accepted)
    /\ Distinct(told) /\ Elems(told) \subseteq recent
    /\ \A q \in Queues, m \in Messages :
         Holds(q, m) => /\ m \in recent \ Elems(told)
                        /\ \A p \in Queues : Holds(p, m) => p = q

\* m comes before n in s.
Before(s, m, n) == \E i, j \in DOMAIN s : i < j /\ s[i] = m /\ s[j] = n

\* The items of o wait in the order of s; whatever happened to them during its run,
\* none of those that the run was given are left behind the ones it takes.
InOrder(s, o) ==
    /\ \A i, j \in DOMAIN o.items : i < j => Before(s, o.items[i], o.items[j])
    /\ Distinct(o.run.texts)
    /\ \A i \in DOMAIN o.items : i > o.run.takes => o.items[i] \notin Elems(o.run.texts)

\* An object of the registry only waits for the end of a turn without callback.
Woken(q) ==
    q = registered /\ queue[q].items # <<>> /\ callback => Draining(q)

Capped(o) == \E s \in Settings : Len(o.items) <= s.cap

Ordered ==
    \A q \in Queues :
      /\ InOrder(accepted, queue[q]) /\ Capped(queue[q]) /\ Woken(q)
      /\ queue[q].drain # "running" => queue[q].run = NoRun

\* What a run takes is what it was given.
Exact(o) ==
    /\ o.run.takes = Len(o.run.texts) /\ Len(o.run.texts) <= Len(o.items)
    /\ \A i \in DOMAIN o.run.texts : o.items[i] = o.run.texts[i]
    /\ o.run.summary \in {{}, o.dropped}

\* Only the registered object has anything to do.
Sole == \A q \in Queues : Draining(q) \/ HasWork(queue[q]) => q = registered

Settled(m) ==
    \/ m \in Elems(told) \cup mentioned \cup forgiven
    \/ \E q \in Queues : m \in Elems(queue[q].items) \cup queue[q].dropped

ToldInOrder ==
    /\ \A i, j \in DOMAIN told : i < j => Before(accepted, told[i], told[j])
    /\ \A i \in DOMAIN told, q \in Queues : \A j \in DOMAIN queue[q].items :
         Before(accepted, told[i], queue[q].items[j])

\* As long as no drain met a clear and no run an overflow.
Safe ==
    /\ Sole
    /\ \A q \in Queues : Exact(queue[q])
    /\ \A m \in Elems(accepted) : Settled(m)
    /\ ToldInOrder

FQInv == FQTypes /\ Accepted /\ Ordered /\ (~unsafe => Safe)
-----------------------------------------------------------------------------
(* Sequences. *)

LEMMA SeqFacts ==
  ASSUME NEW S, NEW s \in Seq(S)
  PROVE  /\ Len(s) \in Nat /\ DOMAIN s = 1..Len(s)
         /\ \A i \in DOMAIN s : s[i] \in S /\ i \in Nat /\ i >= 1
         /\ s = <<>> <=> Len(s) = 0
BY LenProperties, ElementOfSeq, EmptySeq

\* shift and splice keep what lies behind the first n items.
LEMMA DropFirstFacts ==
  ASSUME NEW S, NEW s \in Seq(S), NEW n \in Nat
  PROVE  /\ DropFirst(s, n) \in Seq(S)
         /\ Len(DropFirst(s, n)) = IF n <= Len(s) THEN Len(s) - n ELSE 0
         /\ \A i \in DOMAIN DropFirst(s, n) :
              i \in Nat /\ i + n \in DOMAIN s /\ DropFirst(s, n)[i] = s[i + n]
         /\ \A i \in DOMAIN s : i > n => s[i] \in Elems(DropFirst(s, n))
<1> DEFINE t == SubSeq(s, n + 1, Len(s))
<1>1. Len(s) \in Nat /\ DOMAIN s = 1..Len(s)
  BY SeqFacts
<1>2. \A i \in (n + 1)..Len(s) : s[i] \in S
  BY <1>1, ElementOfSeq
<1>3. /\ t \in Seq(S)
      /\ Len(t) = IF n + 1 <= Len(s) THEN Len(s) - (n + 1) + 1 ELSE 0
      /\ \A i \in 1..(Len(s) - (n + 1) + 1) : t[i] = s[(n + 1) + i - 1]
  <2>1. n + 1 \in Int /\ Len(s) \in Int
    BY <1>1
  <2> HIDE DEF t
  <2> QED BY <1>2, <2>1, SubSeqProperties DEF t
<1> HIDE DEF t
<1>4. /\ Len(t) = IF n <= Len(s) THEN Len(s) - n ELSE 0
      /\ \A i \in 1..(Len(s) - n) : t[i] = s[i + n]
  <2>1. Len(s) - (n + 1) + 1 = Len(s) - n /\ (n + 1 <= Len(s) <=> n < Len(s))
    BY <1>1
  <2>2. Len(t) = IF n <= Len(s) THEN Len(s) - n ELSE 0
    <3>1. ASSUME NEW k \in Nat
          PROVE  (IF n + 1 <= k THEN k - (n + 1) + 1 ELSE 0) = IF n <= k THEN k - n ELSE 0
      <4>1. CASE n + 1 <= k
        BY <4>1
      <4>2. CASE ~(n + 1 <= k)
        <5>1. n = k \/ ~(n <= k)
          BY <4>2
        <5> QED BY <4>2, <5>1
      <4> QED BY <4>1, <4>2
    <3> QED BY <1>1, <1>3, <3>1
  <2>3. ASSUME NEW i \in 1..(Len(s) - n) PROVE t[i] = s[i + n]
    <3>1. (n + 1) + i - 1 = i + n
      BY <1>1
    <3> QED BY <1>3, <2>1, <3>1
  <2> QED BY <2>2, <2>3
<1>5. DOMAIN t = 1..Len(t)
  BY <1>3, LenProperties
<1>6. \A i \in DOMAIN t : i \in Nat /\ i + n \in DOMAIN s /\ t[i] = s[i + n]
  <2> SUFFICES ASSUME NEW i \in DOMAIN t
               PROVE  i \in Nat /\ i + n \in DOMAIN s /\ t[i] = s[i + n]
    OBVIOUS
  <2>1. i \in 1..(Len(s) - n) /\ n <= Len(s)
    <3>1. i \in 1..Len(t) /\ ~(i \in 1..0)
      BY <1>5
    <3> QED BY <1>4, <3>1
  <2>2. i \in Nat /\ i + n \in 1..Len(s)
    BY <1>1, <2>1
  <2> QED BY <1>1, <1>4, <2>1, <2>2
<1>7. ASSUME NEW i \in DOMAIN s, i > n PROVE s[i] \in Elems(t)
  <2>1. i - n \in 1..(Len(s) - n) /\ n <= Len(s) /\ (i - n) + n = i
    BY <1>1, <1>7
  <2>2. i - n \in DOMAIN t /\ t[i - n] = s[i]
    BY <1>4, <1>5, <2>1
  <2> QED BY <2>2 DEF Elems
<1> QED BY <1>3, <1>4, <1>6, <1>7 DEF t, DropFirst

LEMMA AppendFacts ==
  ASSUME NEW S, NEW s \in Seq(S), NEW e \in S
  PROVE  /\ Append(s, e) \in Seq(S) /\ Append(s, e) # <<>>
         /\ Len(Append(s, e)) = Len(s) + 1
         /\ DOMAIN Append(s, e) = 1..(Len(s) + 1)
         /\ \A i \in DOMAIN s : i \in DOMAIN Append(s, e) /\ Append(s, e)[i] = s[i]
         /\ Append(s, e)[Len(s) + 1] = e
         /\ \A i \in DOMAIN Append(s, e) : i \in DOMAIN s \/ i = Len(s) + 1
         /\ Elems(Append(s, e)) = Elems(s) \cup {e}
<1> DEFINE t == Append(s, e)
<1>1. /\ t \in Seq(S) /\ t # <<>> /\ Len(t) = Len(s) + 1
      /\ \A i \in 1..Len(s) : t[i] = s[i]
      /\ t[Len(s) + 1] = e
  BY AppendProperties
<1> HIDE DEF t
<1>2. /\ Len(s) \in Nat /\ DOMAIN s = 1..Len(s) /\ DOMAIN t = 1..Len(t)
  BY <1>1, SeqFacts
<1>3. /\ DOMAIN t = 1..(Len(s) + 1)
      /\ \A i \in DOMAIN s : i \in DOMAIN t /\ t[i] = s[i]
      /\ \A i \in DOMAIN t : i \in DOMAIN s \/ i = Len(s) + 1
      /\ Len(s) + 1 \in DOMAIN t
  BY <1>1, <1>2
<1>4. Elems(t) = Elems(s) \cup {e}
  BY <1>1, <1>3 DEF Elems
<1> QED BY <1>1, <1>3, <1>4 DEF t

LEMMA ConcatFacts ==
  ASSUME NEW S, NEW s \in Seq(S), NEW t \in Seq(S)
  PROVE  /\ s \o t \in Seq(S)
         /\ \A i \in DOMAIN (s \o t) :
              \/ i \in DOMAIN s /\ (s \o t)[i] = s[i]
              \/ /\ i \notin DOMAIN s /\ i - Len(s) \in DOMAIN t /\ i > Len(s)
                 /\ (s \o t)[i] = t[i - Len(s)]
         /\ Elems(s \o t) = Elems(s) \cup Elems(t)
<1> DEFINE u == s \o t
<1>1. /\ u \in Seq(S) /\ Len(u) = Len(s) + Len(t)
      /\ \A i \in 1..(Len(s) + Len(t)) : u[i] = IF i <= Len(s) THEN s[i] ELSE t[i - Len(s)]
  BY ConcatProperties
<1> HIDE DEF u
<1>2. /\ Len(s) \in Nat /\ DOMAIN s = 1..Len(s)
      /\ Len(t) \in Nat /\ DOMAIN t = 1..Len(t) /\ DOMAIN u = 1..(Len(s) + Len(t))
  BY <1>1, SeqFacts
<1>3. \A i \in DOMAIN u :
        \/ i \in DOMAIN s /\ u[i] = s[i]
        \/ /\ i \notin DOMAIN s /\ i - Len(s) \in DOMAIN t /\ i > Len(s)
           /\ u[i] = t[i - Len(s)]
  BY <1>1, <1>2
<1>4. Elems(u) \subseteq Elems(s) \cup Elems(t)
  BY <1>3 DEF Elems
<1>5. ASSUME NEW i \in DOMAIN s PROVE s[i] \in Elems(u)
  <2>1. i \in DOMAIN u /\ u[i] = s[i]
    BY <1>1, <1>2
  <2> QED BY <2>1 DEF Elems
<1>6. ASSUME NEW i \in DOMAIN t PROVE t[i] \in Elems(u)
  <2>1. i + Len(s) \in DOMAIN u /\ u[i + Len(s)] = t[i]
    BY <1>1, <1>2
  <2> QED BY <2>1 DEF Elems
<1>7. Elems(u) = Elems(s) \cup Elems(t)
  BY <1>4, <1>5, <1>6 DEF Elems
<1> QED BY <1>1, <1>3, <1>7 DEF u

-----------------------------------------------------------------------------
(* Starting and ending drains. *)

LEMMA NoneIsNoQueue == None \notin Queues
BY FollowupAssumption DEF None, Queues

\* The objects differ in nothing but their drains and runs.
SameContent(o) ==
    \A q \in Queues : /\ queue'[q].items = o[q].items
                      /\ queue'[q].dropped = o[q].dropped
                      /\ queue'[q].settings = o[q].settings

\* What scheduleFollowupDrain can change.
LEMMA ScheduleFacts ==
  ASSUME registered \in Queues \cup {None}, callback \in BOOLEAN,
         NEW o \in [Queues -> Objects], ScheduleFollowupDrain(o)
  PROVE  /\ queue' \in [Queues -> Objects] /\ SameContent(o) /\ callback' \in BOOLEAN
         /\ \A q \in Queues :
              /\ queue'[q].run = o[q].run
              /\ \/ queue'[q].drain = o[q].drain
                 \/ /\ q = registered /\ registered' = registered
                    /\ o[q].drain = "idle" /\ queue'[q].drain = "debounce"
         /\ \/ registered' = registered
            \/ /\ registered \in Queues /\ registered' = None
               /\ ~HasWork(o[registered]) /\ o[registered].drain = "idle"
         /\ registered' \in Queues =>
              queue'[registered'].drain # "idle"
<1>1. CASE registered \notin {q \in Queues : o[q].drain = "idle"} /\ queue' = o
             /\ UNCHANGED <<registered, callback>>
  BY <1>1 DEF SameContent
<1>2. CASE /\ registered \in {q \in Queues : o[q].drain = "idle"} /\ callback' = TRUE
           /\ HasWork(o[registered]) /\ UNCHANGED registered
           /\ queue' = [o EXCEPT ![registered].drain = "debounce",
                                 ![registered].forced = FALSE]
  <2>1. registered \in Queues /\ o[registered].drain = "idle" /\ o[registered] \in Objects
    BY <1>2
  <2>2. queue' = [o EXCEPT ![registered] =
                     [@ EXCEPT !.drain = "debounce", !.forced = FALSE]]
    BY <1>2
  <2>3. \A q \in Queues : queue'[q] = IF q = registered
                                      THEN [o[q] EXCEPT !.drain = "debounce", !.forced = FALSE]
                                      ELSE o[q]
    BY <2>1, <2>2
  <2>4. queue' = [q \in Queues |-> queue'[q]]
    BY <2>2
  <2>5. [o[registered] EXCEPT !.drain = "debounce", !.forced = FALSE] \in Objects
    BY <2>1 DEF Objects
  <2>6. queue' \in [Queues -> Objects]
    BY <2>3, <2>4, <2>5
  <2>7. \A q \in Queues : /\ queue'[q].items = o[q].items
                          /\ queue'[q].dropped = o[q].dropped
                          /\ queue'[q].settings = o[q].settings
                          /\ queue'[q].run = o[q].run
                          /\ q # registered => queue'[q].drain = o[q].drain
    BY <2>3 DEF Objects
  <2>8. queue'[registered].drain = "debounce"
    BY <2>1, <2>3 DEF Objects
  <2> QED BY <1>2, <2>1, <2>6, <2>7, <2>8 DEF SameContent
<1>3. CASE /\ registered \in {q \in Queues : o[q].drain = "idle"} /\ callback' = TRUE
           /\ ~HasWork(o[registered]) /\ queue' = o /\ registered' = None
  BY <1>3, NoneIsNoQueue DEF SameContent
<1> QED BY <1>1, <1>2, <1>3 DEF ScheduleFollowupDrain

\* What the end of the drain of q can change.
LEMMA DrainEndsFacts ==
  ASSUME registered \in Queues \cup {None}, callback \in BOOLEAN,
         NEW o \in [Queues -> Objects], NEW q \in Queues, DrainEnds(o, q)
  PROVE  /\ queue' \in [Queues -> Objects] /\ SameContent(o) /\ callback' \in BOOLEAN
         /\ queue'[q].run = NoRun /\ queue'[q].drain # "running"
         /\ \A p \in Queues : p # q =>
              /\ queue'[p].run = o[p].run
              /\ \/ queue'[p].drain = o[p].drain
                 \/ o[p].drain = "idle" /\ p = registered' /\ queue'[p].drain = "debounce"
         /\ queue'[q].drain # "idle" => q = registered'
         /\ registered' \in {registered, None}
         /\ q = registered /\ registered' # registered => ~HasWork(o[q])
         /\ registered' \in Queues => queue'[registered'].drain # "idle"
<1> DEFINE rest == [o EXCEPT ![q].drain = "idle", ![q].run = NoRun]
<1>1. /\ rest \in [Queues -> Objects]
      /\ rest[q].drain = "idle" /\ rest[q].run = NoRun
      /\ \A p \in Queues : /\ rest[p].items = o[p].items
                           /\ rest[p].dropped = o[p].dropped
                           /\ rest[p].settings = o[p].settings
                           /\ p # q => rest[p] = o[p]
  <2>1. \A p \in Queues : rest[p] = IF p = q THEN [o[p] EXCEPT !.drain = "idle", !.run = NoRun]
                                    ELSE o[p]
    OBVIOUS
  <2>2. o[q] \in Objects /\ NoRun \in Runs
    <3>1. <<>> \in Seq(Messages) /\ 0 \in Nat
      OBVIOUS
    <3> QED BY <3>1 DEF NoRun, Runs
  <2>3. [o[q] EXCEPT !.drain = "idle", !.run = NoRun] \in Objects
    BY <2>2 DEF Objects
  <2>4. rest \in [Queues -> Objects]
    BY <2>1, <2>3
  <2> HIDE DEF rest
  <2>5. \A p \in Queues : o[p] \in Objects
    OBVIOUS
  <2> QED BY <2>1, <2>4, <2>5 DEF Objects
<1> HIDE DEF rest
<1>2. HasWork(rest[q]) <=> HasWork(o[q])
  BY <1>1 DEF HasWork
<1>3. CASE ~HasWork(rest[q]) /\ queue' = rest /\ registered' = None /\ UNCHANGED callback
  BY <1>1, <1>2, <1>3, NoneIsNoQueue DEF SameContent
<1>4. CASE HasWork(rest[q]) /\ ScheduleFollowupDrain(rest)
  <2>1. /\ queue' \in [Queues -> Objects] /\ SameContent(rest) /\ callback' \in BOOLEAN
        /\ \A p \in Queues :
              /\ queue'[p].run = rest[p].run
              /\ \/ queue'[p].drain = rest[p].drain
                 \/ /\ p = registered /\ registered' = registered
                    /\ rest[p].drain = "idle" /\ queue'[p].drain = "debounce"
        /\ \/ registered' = registered
           \/ registered \in Queues /\ registered' = None /\ ~HasWork(rest[registered])
        /\ registered' \in Queues => queue'[registered'].drain # "idle"
    BY <1>1, <1>4, ScheduleFacts
  <2>2. SameContent(o)
    BY <1>1, <2>1 DEF SameContent
  <2> QED BY <1>1, <1>2, <1>4, <2>1, <2>2
<1> QED BY <1>3, <1>4 DEF DrainEnds, rest

-----------------------------------------------------------------------------
(* Objects. *)

LEMMA NoRunIsARun ==
  /\ NoRun \in Runs /\ NoRun.texts = <<>> /\ NoRun.takes = 0 /\ NoRun.summary = {}
  /\ Elems(NoRun.texts) = {} /\ DOMAIN NoRun.texts = {} /\ Len(NoRun.texts) = 0
<1>1. <<>> \in Seq(Messages) /\ DOMAIN <<>> = {} /\ Len(<<>>) = 0
  OBVIOUS
<1> QED BY <1>1 DEF NoRun, Runs, Elems

\* Items that wait in the order of a sequence without repetitions do not repeat.
LEMMA OrderedIsDistinct ==
  ASSUME NEW S, NEW s \in Seq(S), Distinct(s), NEW T, NEW t \in Seq(T),
         \A i, j \in DOMAIN t : i < j => Before(s, t[i], t[j])
  PROVE  Distinct(t)
<1>1. ASSUME NEW i \in DOMAIN t, NEW j \in DOMAIN t, i < j, t[i] = t[j] PROVE FALSE
  <2>1. PICK k, l \in DOMAIN s : k < l /\ s[k] = t[i] /\ s[l] = t[j]
    BY <1>1 DEF Before
  <2>2. k = l /\ k \in Nat
    BY <1>1, <2>1, SeqFacts DEF Distinct
  <2> QED BY <2>1, <2>2
<1>2. \A i, j \in DOMAIN t : i < j \/ j < i \/ i = j
  <2>1. \A i \in DOMAIN t : i \in Nat
    BY SeqFacts
  <2> QED BY <2>1
<1> QED BY <1>1, <1>2 DEF Distinct

\* An object that at most forgets its run.
LEMMA CalmObject ==
  ASSUME NEW s, NEW o \in Objects, NEW u \in Objects,
         u.items = o.items, u.dropped = o.dropped, u.run \in {o.run, NoRun}
  PROVE  /\ InOrder(s, o) => InOrder(s, u)
         /\ Capped(o) => Capped(u)
         /\ Exact(o) => Exact(u)
         /\ HasWork(u) <=> HasWork(o)
<1>1. InOrder(s, o) => InOrder(s, u)
  BY NoRunIsARun DEF InOrder, Distinct
<1>2. Exact(o) => Exact(u)
  <2>1. Len(o.items) \in Nat
    BY SeqFacts DEF Objects
  <2>2. CASE u.run = NoRun
    BY <2>1, <2>2, NoRunIsARun DEF Exact
  <2>3. CASE u.run = o.run
    BY <2>3 DEF Exact
  <2> QED BY <2>2, <2>3
<1> QED BY <1>1, <1>2 DEF Capped, HasWork

\* An object whose run resolves.
LEMMA ResolvedObject ==
  ASSUME NEW s, NEW o \in Objects, NEW u \in Objects, InOrder(s, o),
         u.items = DropFirst(o.items, o.run.takes),
         u.dropped = ClearSummary(o.dropped, o.run.summary), u.run = NoRun
  PROVE  /\ InOrder(s, u) /\ Exact(u)
         /\ Capped(o) => Capped(u)
         /\ Elems(u.items) \subseteq Elems(o.items) \ Elems(o.run.texts)
         /\ Exact(o) =>
              /\ Elems(o.items) \subseteq Elems(o.run.texts) \cup Elems(u.items)
              /\ o.dropped \subseteq o.run.summary \cup u.dropped
              /\ \A i, j \in DOMAIN o.run.texts :
                   i < j => Before(s, o.run.texts[i], o.run.texts[j])
              /\ \A i \in DOMAIN o.run.texts, j \in DOMAIN u.items :
                   Before(s, o.run.texts[i], u.items[j])
<1> DEFINE n == o.run.takes
<1>1. /\ o.items \in Seq(Messages) /\ n \in Nat /\ o.run.texts \in Seq(Messages)
      /\ Len(o.items) \in Nat /\ Len(u.items) \in Nat /\ DOMAIN o.items = 1..Len(o.items)
      /\ Len(o.run.texts) \in Nat /\ DOMAIN o.run.texts = 1..Len(o.run.texts)
  <2>1. o.items \in Seq(Messages) /\ u.items \in Seq(Messages) /\ o.run \in Runs
    BY DEF Objects
  <2>2. o.run.takes \in Nat /\ o.run.texts \in Seq(Messages)
    BY <2>1 DEF Runs
  <2> QED BY <2>1, <2>2, SeqFacts
<1>2. /\ Len(u.items) <= Len(o.items)
      /\ \A i \in DOMAIN u.items : i \in Nat /\ i + n \in DOMAIN o.items
                                   /\ u.items[i] = o.items[i + n]
      /\ \A i \in DOMAIN o.items : i > n => o.items[i] \in Elems(u.items)
      /\ \A i \in DOMAIN u.items : i >= 1
  <2>1. /\ Len(DropFirst(o.items, n)) = IF n <= Len(o.items) THEN Len(o.items) - n ELSE 0
        /\ \A i \in DOMAIN u.items : i \in Nat /\ i + n \in DOMAIN o.items
                                     /\ u.items[i] = o.items[i + n]
        /\ \A i \in DOMAIN o.items : i > n => o.items[i] \in Elems(u.items)
    <3> DEFINE r == o.items
    <3>1. r \in Seq(Messages) /\ n \in Nat /\ u.items = DropFirst(r, n)
      BY <1>1
    <3> HIDE DEF n, r
    <3>2. /\ Len(DropFirst(r, n)) = IF n <= Len(r) THEN Len(r) - n ELSE 0
          /\ \A i \in DOMAIN DropFirst(r, n) :
               i \in Nat /\ i + n \in DOMAIN r /\ DropFirst(r, n)[i] = r[i + n]
          /\ \A i \in DOMAIN r : i > n => r[i] \in Elems(DropFirst(r, n))
      BY <3>1, DropFirstFacts
    <3> QED BY <3>1, <3>2 DEF r
  <2>2. \A i \in DOMAIN u.items : i >= 1
    BY SeqFacts DEF Objects
  <2>3. Len(u.items) <= Len(o.items)
    BY <1>1, <2>1
  <2> QED BY <2>1, <2>2, <2>3
<1> HIDE DEF n
<1>3. \A i \in DOMAIN u.items : i + n > n
  BY <1>1, <1>2
<1>4. Elems(u.items) \subseteq Elems(o.items) \ Elems(o.run.texts)
  <2>1. \A i \in DOMAIN u.items : u.items[i] \notin Elems(o.run.texts)
    BY <1>2, <1>3 DEF InOrder, n
  <2> QED BY <1>2, <2>1 DEF Elems
<1>5. InOrder(s, u)
  <2>1. ASSUME NEW i \in DOMAIN u.items, NEW j \in DOMAIN u.items, i < j
        PROVE  Before(s, u.items[i], u.items[j])
    <3>1. i + n < j + n
      BY <1>1, <1>2, <2>1
    <3> QED BY <1>2, <3>1 DEF InOrder
  <2> QED BY <2>1, NoRunIsARun DEF InOrder, Distinct
<1>6. Exact(u)
  BY <1>1, NoRunIsARun DEF Exact
<1>7. Capped(o) => Capped(u)
  <2>1. \A t \in Settings : t.cap \in Nat
    BY FollowupAssumption
  <2> QED BY <1>1, <1>2, <2>1 DEF Capped
<1>8. ASSUME Exact(o)
      PROVE  /\ Elems(o.items) \subseteq Elems(o.run.texts) \cup Elems(u.items)
             /\ o.dropped \subseteq o.run.summary \cup u.dropped
  <2>1. ASSUME NEW i \in DOMAIN o.items PROVE o.items[i] \in Elems(o.run.texts) \cup Elems(u.items)
    <3>1. CASE i > n
      BY <1>2, <3>1
    <3>2. CASE ~(i > n)
      <4>1. i \in DOMAIN o.run.texts
        BY <1>1, <1>8, <3>2 DEF Exact, n
      <4> QED BY <1>8, <4>1 DEF Exact, Elems
    <3> QED BY <3>1, <3>2
  <2>2. o.dropped \subseteq o.run.summary \cup u.dropped
    BY <1>8 DEF Exact, ClearSummary
  <2> QED BY <2>1, <2>2 DEF Elems
<1>9. ASSUME Exact(o)
      PROVE  /\ \A i, j \in DOMAIN o.run.texts :
                  i < j => Before(s, o.run.texts[i], o.run.texts[j])
             /\ \A i \in DOMAIN o.run.texts, j \in DOMAIN u.items :
                  Before(s, o.run.texts[i], u.items[j])
  <2>1. \A i \in DOMAIN o.run.texts :
          i \in DOMAIN o.items /\ o.items[i] = o.run.texts[i] /\ i <= n
    BY <1>1, <1>9 DEF Exact, n
  <2>2. \A i \in DOMAIN o.run.texts, j \in DOMAIN u.items : i < j + n
    BY <1>1, <1>2, <2>1
  <2> QED BY <1>2, <2>1, <2>2 DEF InOrder
<1> QED BY <1>4, <1>5, <1>6, <1>7, <1>8, <1>9

LEMMA NothingCrosses == ~CrossChannel(<<>>)
<1>1. Elems(<<>>) = {}
  BY DEF Elems
<1>2. {RouteOf[m] : m \in Elems(<<>>)} = {}
  BY <1>1
<1>3. Cardinality({}) = 0
  BY FS_EmptySet
<1> DEFINE routes == {RouteOf[m] : m \in Elems(<<>>)}
<1>4. ~("unroutable" \in routes \/ Cardinality(routes) > 1)
  <2>1. routes = {}
    BY <1>2
  <2> HIDE DEF routes
  <2> QED BY <1>3, <2>1
<1> QED BY <1>4 DEF CrossChannel

\* The run that a drain starts is given items of its object.
LEMMA NextRunFacts ==
  ASSUME NEW o \in Objects, ~NothingToRun(o)
  PROVE  \E S \in {{}, o.dropped} :
           \/ o.items # <<>> /\ NextRun(o) = HeadRun(o)
           \/ NextRun(o) = [texts |-> o.items, summary |-> S, takes |-> Len(o.items)]
           \/ NextRun(o) = [texts |-> <<>>, summary |-> S, takes |-> 1]
<1> DEFINE S == IF o.settings.dropPolicy = "summarize" THEN o.dropped ELSE {}
<1>1. S \in {{}, o.dropped}
  OBVIOUS
<1>2. NextRun(o) = IF o.settings.mode = "collect"
                   THEN IF Individually(o) THEN HeadRun(o)
                        ELSE [texts |-> o.items, summary |-> S, takes |-> Len(o.items)]
                   ELSE IF S # {} THEN [texts |-> <<>>, summary |-> S, takes |-> 1]
                        ELSE HeadRun(o)
  BY DEF NextRun
<1> HIDE DEF S
<1>3. o.items # <<>> \/ (o.settings.mode = "collect" /\ ~Individually(o))
  <2>1. o.settings.mode \in {"followup", "collect"}
    BY FollowupAssumption DEF Objects
  <2>2. CASE o.items = <<>>
    <3>1. o.settings.mode = "collect" /\ ~o.forced
      BY <2>1, <2>2 DEF NothingToRun
    <3>2. ~CrossChannel(o.items)
      BY <2>2, NothingCrosses
    <3> QED BY <3>1, <3>2 DEF Individually
  <2> QED BY <2>2
<1> QED BY <1>1, <1>2, <1>3

\* An object whose drain starts a run.
LEMMA StartedObject ==
  ASSUME NEW s \in Seq(Messages), Distinct(s),
         NEW o \in Objects, InOrder(s, o), ~NothingToRun(o),
         NEW u, u.items = o.items, u.dropped = o.dropped, u.run = NextRun(o)
  PROVE  /\ u.run \in Runs /\ InOrder(s, u)
         /\ Elems(u.run.texts) \subseteq Elems(o.items)
         /\ u.run.texts # <<>> \/ u.run.takes # 1 => Exact(u)
<1>1. /\ o.items \in Seq(Messages) /\ o.dropped \subseteq Messages
      /\ Len(o.items) \in Nat /\ DOMAIN o.items = 1..Len(o.items)
      /\ o.items = <<>> <=> Len(o.items) = 0
  BY SeqFacts DEF Objects
<1>2. Distinct(o.items)
  BY <1>1, OrderedIsDistinct DEF InOrder
<1>3. PICK S \in {{}, o.dropped} :
           \/ o.items # <<>> /\ NextRun(o) = HeadRun(o)
           \/ NextRun(o) = [texts |-> o.items, summary |-> S, takes |-> Len(o.items)]
           \/ NextRun(o) = [texts |-> <<>>, summary |-> S, takes |-> 1]
  BY NextRunFacts
<1>4. CASE o.items # <<>> /\ NextRun(o) = HeadRun(o)
  <2>1. Head(o.items) = o.items[1] /\ o.items[1] \in Messages /\ 1 \in DOMAIN o.items
    BY <1>1, <1>4, SeqFacts
  <2>2. u.run.texts = <<o.items[1]>> /\ u.run.summary = {} /\ u.run.takes = 1
    BY <1>4, <2>1 DEF HeadRun
  <2> DEFINE t == <<o.items[1]>>
  <2>3. t \in Seq(Messages) /\ Len(t) = 1 /\ DOMAIN t = {1} /\ t[1] = o.items[1]
    BY <2>1
  <2> HIDE DEF t
  <2>4. u.run.texts = t
    BY <2>2 DEF t
  <2>5. u.run \in Runs
    <3>1. u.run = [texts |-> t, summary |-> {}, takes |-> 1]
      BY <1>4, <2>1 DEF HeadRun, t
    <3>2. {} \in SUBSET Messages /\ 1 \in Nat
      OBVIOUS
    <3> QED BY <2>3, <3>1, <3>2 DEF Runs
  <2>6. Elems(t) = {o.items[1]}
    BY <2>3 DEF Elems
  <2>7. InOrder(s, u)
    <3>1. \A i \in DOMAIN o.items : i > 1 => o.items[i] # o.items[1]
      BY <1>1, <1>2, <2>1 DEF Distinct
    <3> QED BY <2>2, <2>3, <2>4, <2>6, <3>1 DEF InOrder, Distinct
  <2>8. Exact(u)
    BY <1>1, <2>1, <2>2, <2>3, <2>4 DEF Exact
  <2> QED BY <2>1, <2>4, <2>5, <2>6, <2>7, <2>8 DEF Elems
<1>5. CASE NextRun(o) = [texts |-> o.items, summary |-> S, takes |-> Len(o.items)]
  <2>1. u.run.texts = o.items /\ u.run.summary = S /\ u.run.takes = Len(o.items)
    BY <1>5
  <2>2. u.run \in Runs
    BY <1>1, <1>3, <1>5 DEF Runs
  <2>3. InOrder(s, u)
    BY <1>1, <1>2, <2>1 DEF InOrder
  <2>4. Exact(u)
    BY <1>1, <1>3, <2>1 DEF Exact
  <2> QED BY <2>1, <2>2, <2>3, <2>4
<1>6. CASE NextRun(o) = [texts |-> <<>>, summary |-> S, takes |-> 1]
  <2>1. u.run.texts = <<>> /\ u.run.takes = 1 /\ Elems(<<>>) = {} /\ DOMAIN <<>> = {}
    BY <1>6 DEF Elems
  <2>2. u.run \in Runs
    <3>1. <<>> \in Seq(Messages) /\ S \in SUBSET Messages
      BY <1>1, <1>3
    <3> QED BY <1>6, <3>1 DEF Runs
  <2>3. InOrder(s, u)
    BY <2>1 DEF InOrder, Distinct
  <2> QED BY <2>1, <2>2, <2>3
<1> QED BY <1>3, <1>4, <1>5, <1>6

-----------------------------------------------------------------------------
(* Steps. *)

\* Nothing is accepted or told, and nobody holds more than before.
LEMMA AcceptedFrame ==
  ASSUME Accepted, UNCHANGED <<accepted, recent, told>>,
         \A q \in Queues, m \in Messages : Holds(q, m)' => Holds(q, m)
  PROVE  Accepted'
BY DEF Accepted

\* A step that only starts and ends drains.
LEMMA QuietKeeps ==
  ASSUME FQInv, FQTypes',
         UNCHANGED <<accepted, recent, told, mentioned, forgiven, unsafe>>,
         SameContent(queue),
         \A q \in Queues : /\ queue'[q].run \in {queue[q].run, NoRun}
                           /\ queue'[q].drain # "running" => queue'[q].run = NoRun,
         \A q \in Queues : Woken(q)',
         Sole => Sole'
  PROVE  FQInv'
<1>1. /\ FQTypes /\ Accepted /\ Ordered
      /\ \A q \in Queues : queue[q] \in Objects /\ queue'[q] \in Objects
  BY DEF FQInv, FQTypes
<1>2. \A q \in Queues, m \in Messages : Holds(q, m)' => Holds(q, m)
  BY NoRunIsARun DEF Holds, SameContent
<1>3. Accepted'
  BY <1>1, <1>2, AcceptedFrame
<1>4. \A q \in Queues :
        /\ InOrder(accepted, queue[q]) => InOrder(accepted', queue'[q])
        /\ Capped(queue[q]) => Capped(queue'[q])
        /\ Exact(queue[q]) => Exact(queue'[q])
  BY <1>1, CalmObject DEF SameContent
<1>5. Ordered'
  BY <1>1, <1>4 DEF Ordered
<1>6. ASSUME ~unsafe' PROVE Safe'
  <2>1. Safe /\ UNCHANGED <<accepted, told, mentioned, forgiven>>
    BY <1>6 DEF FQInv
  <2>2. Sole' /\ \A q \in Queues : Exact(queue'[q])
    BY <1>4, <2>1 DEF Safe
  <2>3. \A m \in Elems(accepted) : Settled(m)'
    BY <2>1 DEF Safe, Settled, SameContent
  <2>4. ToldInOrder'
    BY <2>1 DEF Safe, ToldInOrder, SameContent
  <2> QED BY <2>1, <2>2, <2>3, <2>4 DEF Safe
<1> QED BY <1>3, <1>5, <1>6 DEF FQInv

\* Steps outside of the queue.
LEMMA OutsideKeeps ==
  ASSUME FQInv,
         UNCHANGED <<registered, queue, callback, recent, clears, failures, accepted, told,
                     mentioned, forgiven, unsafe>>,
         arriving' \subseteq Messages, redeliveries' \in Nat
  PROVE  FQInv'
<1>1. FQTypes'
  BY DEF FQInv, FQTypes
<1>2. /\ SameContent(queue)
      /\ \A q \in Queues : /\ queue'[q].run \in {queue[q].run, NoRun}
                           /\ queue'[q].drain # "running" => queue'[q].run = NoRun
                           /\ Woken(q)'
  BY DEF SameContent, FQInv, Ordered, Woken, Draining
<1>3. Sole => Sole'
  BY DEF Sole, Draining
<1> QED BY <1>1, <1>2, <1>3, QuietKeeps

\* The end of a turn schedules the drain.
LEMMA TurnEndsKeeps ==
  ASSUME FQInv, TurnEnds
  PROVE  FQInv'
<1>1. /\ FQTypes /\ ScheduleFollowupDrain(queue) /\ registered \in Queues \cup {None}
      /\ callback \in BOOLEAN /\ queue \in [Queues -> Objects]
      /\ UNCHANGED <<arriving, recent, clears, failures, redeliveries, accepted, told,
                     mentioned, forgiven, unsafe>>
  BY DEF FQInv, FQTypes, TurnEnds, history
<1>2. /\ queue' \in [Queues -> Objects] /\ SameContent(queue) /\ callback' \in BOOLEAN
      /\ \A q \in Queues :
           /\ queue'[q].run = queue[q].run
           /\ \/ queue'[q].drain = queue[q].drain
              \/ /\ q = registered /\ registered' = registered
                 /\ queue[q].drain = "idle" /\ queue'[q].drain = "debounce"
      /\ \/ registered' = registered
         \/ /\ registered \in Queues /\ registered' = None
            /\ ~HasWork(queue[registered]) /\ queue[registered].drain = "idle"
      /\ registered' \in Queues => queue'[registered'].drain # "idle"
  BY <1>1, ScheduleFacts
<1>3. FQTypes'
  BY <1>1, <1>2 DEF FQTypes
<1>4. \A q \in Queues : Woken(q)'
  BY <1>2 DEF Woken, Draining
<1>5. \A q \in Queues : queue'[q].drain # "running" => queue'[q].run = NoRun
  BY <1>2 DEF FQInv, Ordered
<1>6. Sole => Sole'
  BY <1>2 DEF Sole, Draining, HasWork, SameContent
<1> QED BY <1>1, <1>2, <1>3, <1>4, <1>5, <1>6, QuietKeeps

\* A drain that ends without a run that resolved.
LEMMA DrainEndsKeeps ==
  ASSUME FQInv, NEW q \in Queues, Draining(q), DrainEnds(queue, q), failures' \in Nat,
         UNCHANGED <<arriving, recent, clears, redeliveries, accepted, told, mentioned,
                     forgiven, unsafe>>
  PROVE  FQInv'
<1>1. /\ FQTypes /\ registered \in Queues \cup {None}
      /\ callback \in BOOLEAN /\ queue \in [Queues -> Objects]
  BY DEF FQInv, FQTypes
<1>2. /\ queue' \in [Queues -> Objects] /\ SameContent(queue) /\ callback' \in BOOLEAN
      /\ queue'[q].run = NoRun /\ queue'[q].drain # "running"
      /\ \A p \in Queues : p # q =>
           /\ queue'[p].run = queue[p].run
           /\ \/ queue'[p].drain = queue[p].drain
              \/ queue[p].drain = "idle" /\ p = registered' /\ queue'[p].drain = "debounce"
      /\ queue'[q].drain # "idle" => q = registered'
      /\ registered' \in {registered, None}
      /\ q = registered /\ registered' # registered => ~HasWork(queue[q])
      /\ registered' \in Queues => queue'[registered'].drain # "idle"
  BY <1>1, DrainEndsFacts
<1>3. FQTypes'
  BY <1>1, <1>2 DEF FQTypes
<1>4. \A p \in Queues : Woken(p)'
  BY <1>2 DEF Woken, Draining
<1>5. \A p \in Queues : /\ queue'[p].run \in {queue[p].run, NoRun}
                        /\ queue'[p].drain # "running" => queue'[p].run = NoRun
  <2> SUFFICES ASSUME NEW p \in Queues
               PROVE  /\ queue'[p].run \in {queue[p].run, NoRun}
                      /\ queue'[p].drain # "running" => queue'[p].run = NoRun
    OBVIOUS
  <2>1. CASE p = q
    BY <1>2, <2>1
  <2>2. CASE p # q
    BY <1>2, <2>2 DEF FQInv, Ordered
  <2> QED BY <2>1, <2>2
<1>6. ASSUME Sole PROVE Sole'
  <2>1. \A p \in Queues : HasWork(queue'[p]) <=> HasWork(queue[p])
    BY <1>2 DEF HasWork, SameContent
  <2>2. q = registered
    BY <1>6 DEF Sole
  <2>3. ASSUME NEW p \in Queues, Draining(p)' \/ HasWork(queue'[p]) PROVE p = registered'
    <3>1. CASE p = q
      BY <1>2, <2>1, <2>2, <2>3, <3>1 DEF Draining
    <3>2. CASE p # q
      <4>1. ~Draining(p) /\ ~HasWork(queue[p])
        BY <1>6, <2>2, <3>2 DEF Sole
      <4> QED BY <1>2, <2>1, <2>3, <3>2, <4>1 DEF Draining
    <3> QED BY <3>1, <3>2
  <2> QED BY <2>3 DEF Sole
<1> QED BY <1>2, <1>3, <1>4, <1>5, <1>6, QuietKeeps

LEMMA RunThrowsKeeps ==
  ASSUME FQInv, NEW q \in Queues, RunThrows(q)
  PROVE  FQInv'
<1>1. /\ Draining(q) /\ DrainEnds(queue, q) /\ failures' \in Nat
      /\ UNCHANGED <<arriving, recent, clears, redeliveries, accepted, told, mentioned,
                     forgiven, unsafe>>
  BY DEF RunThrows, Draining, history, FQInv, FQTypes
<1> QED BY <1>1, DrainEndsKeeps

\* A drain starts its next run, or ends with nothing to run.
LEMMA DrainStepKeeps ==
  ASSUME FQInv, NEW q \in Queues, DrainStep(q)
  PROVE  FQInv'
<1>1. /\ FQTypes /\ Accepted /\ Ordered /\ Draining(q) /\ queue[q].drain = "debounce"
      /\ UNCHANGED <<arriving, recent, clears, failures, redeliveries, accepted, told,
                     mentioned, forgiven>>
  BY DEF DrainStep, Draining, history, FQInv
<1>2. CASE NothingToRun(queue[q]) /\ DrainEnds(queue, q) /\ UNCHANGED unsafe
  <2>1. failures' \in Nat
    BY <1>1 DEF FQTypes
  <2> QED BY <1>1, <1>2, <2>1, DrainEndsKeeps
<1>3. ASSUME ~NothingToRun(queue[q]),
             queue' = [queue EXCEPT ![q].drain = "running",
                                    ![q].run = NextRun(queue[q]),
                                    ![q].forced =
                                       @ \/ /\ queue[q].settings.mode = "collect"
                                            /\ CrossChannel(queue[q].items)],
             unsafe' = (unsafe \/ (/\ NextRun(queue[q]).texts = <<>>
                                  /\ NextRun(queue[q]).takes = 1)),
             UNCHANGED <<registered, callback>>
      PROVE  FQInv'
  <2> DEFINE o == queue[q]
             u == queue'[q]
             crosses == o.settings.mode = "collect" /\ CrossChannel(o.items)
  <2>1. /\ o \in Objects /\ accepted \in Seq(Messages) /\ queue \in [Queues -> Objects]
        /\ InOrder(accepted, o) /\ Capped(o) /\ Distinct(accepted)
    BY <1>1 DEF FQTypes, Ordered, Accepted
  <2>2. /\ u = [o EXCEPT !.drain = "running", !.run = NextRun(o), !.forced = @ \/ crosses]
        /\ \A p \in Queues : p # q => queue'[p] = queue[p]
        /\ queue' = [p \in Queues |-> queue'[p]]
    BY <1>3, <2>1
  <2>3. /\ u.items = o.items /\ u.dropped = o.dropped /\ u.run = NextRun(o)
        /\ u.drain = "running" /\ u.settings = o.settings
    BY <2>1, <2>2 DEF Objects
  <2>4. /\ u.run \in Runs /\ InOrder(accepted, u)
        /\ Elems(u.run.texts) \subseteq Elems(o.items)
        /\ u.run.texts # <<>> \/ u.run.takes # 1 => Exact(u)
    BY <1>3, <2>1, <2>3, StartedObject
  <2>5. u \in Objects
    <3>1. \E f \in BOOLEAN : f = (o.forced \/ crosses)
      OBVIOUS
    <3>2. PICK f \in BOOLEAN : u = [o EXCEPT !.drain = "running", !.run = NextRun(o), !.forced = f]
      BY <2>2, <3>1
    <3>3. /\ o.items \in Seq(Messages) /\ o.dropped \in SUBSET Messages
          /\ o.settings \in Settings
      BY <2>1 DEF Objects
    <3> HIDE DEF crosses, u, o
    <3>4. u = [items |-> o.items, dropped |-> o.dropped, settings |-> o.settings,
               drain |-> "running", forced |-> f, run |-> u.run]
      BY <2>1, <2>3, <3>2 DEF Objects
    <3> QED BY <2>4, <3>3, <3>4 DEF Objects
  <2> HIDE DEF o, u, crosses
  <2>6. queue' \in [Queues -> Objects]
    BY <2>1, <2>2, <2>5 DEF u
  <2>7. FQTypes'
    BY <1>1, <1>3, <2>6 DEF FQTypes
  <2>8. \A p \in Queues, m \in Messages : Holds(p, m)' => Holds(p, m)
    <3> SUFFICES ASSUME NEW p \in Queues, NEW m \in Messages, Holds(p, m)' PROVE Holds(p, m)
      OBVIOUS
    <3>1. CASE p = q
      BY <2>3, <2>4, <3>1 DEF Holds, u, o
    <3>2. CASE p # q
      BY <2>2, <3>2 DEF Holds
    <3> QED BY <3>1, <3>2
  <2>9. Accepted'
    BY <1>1, <2>8, AcceptedFrame
  <2>10. Capped(u) /\ u.drain # "idle"
    BY <2>1, <2>3 DEF Capped
  <2>11. Ordered'
    <3> SUFFICES ASSUME NEW p \in Queues
                 PROVE  /\ InOrder(accepted', queue'[p]) /\ Capped(queue'[p]) /\ Woken(p)'
                        /\ queue'[p].drain # "running" => queue'[p].run = NoRun
      BY DEF Ordered
    <3>1. CASE p = q
      BY <1>1, <2>3, <2>4, <2>10, <3>1 DEF Woken, Draining, u
    <3>2. CASE p # q
      BY <1>1, <1>3, <2>2, <3>2 DEF Ordered, Woken, Draining
    <3> QED BY <3>1, <3>2
  <2>12. ASSUME ~unsafe' PROVE Safe'
    <3>1. Safe /\ (u.run.texts # <<>> \/ u.run.takes # 1)
      BY <1>3, <2>3, <2>12 DEF FQInv, o
    <3>2. Sole'
      BY <1>1, <1>3, <2>2, <3>1 DEF Safe, Sole, Draining, HasWork
    <3>3. \A p \in Queues : Exact(queue'[p])
      BY <2>2, <2>4, <3>1 DEF Safe, u
    <3>4. SameContent(queue)
      BY <2>2, <2>3 DEF SameContent, u, o
    <3>5. \A m \in Elems(accepted) : Settled(m)'
      BY <1>1, <3>1, <3>4 DEF Safe, Settled, SameContent
    <3>6. ToldInOrder'
      BY <1>1, <3>1, <3>4 DEF Safe, ToldInOrder, SameContent
    <3> QED BY <1>1, <3>2, <3>3, <3>5, <3>6 DEF Safe
  <2> QED BY <2>7, <2>9, <2>11, <2>12 DEF FQInv
<1> QED BY <1>2, <1>3 DEF DrainStep

\* The object of a run that resolved, before its drain goes on or ends.
Resolved(q) ==
    [queue EXCEPT ![q].items = DropFirst(@, queue[q].run.takes),
                  ![q].dropped = ClearSummary(@, queue[q].run.summary),
                  ![q].run = NoRun]

LEMMA ResolvedFacts ==
  ASSUME queue \in [Queues -> Objects], NEW q \in Queues
  PROVE  /\ Resolved(q) \in [Queues -> Objects]
         /\ Resolved(q)[q].items = DropFirst(queue[q].items, queue[q].run.takes)
         /\ Resolved(q)[q].dropped = ClearSummary(queue[q].dropped, queue[q].run.summary)
         /\ Resolved(q)[q].run = NoRun
         /\ Resolved(q)[q].drain = queue[q].drain
         /\ \A p \in Queues : p # q => Resolved(q)[p] = queue[p]
<1> DEFINE o == queue[q]
           u == [o EXCEPT !.items = DropFirst(o.items, o.run.takes),
                          !.dropped = ClearSummary(o.dropped, o.run.summary), !.run = NoRun]
<1>1. /\ o \in Objects /\ o.items \in Seq(Messages) /\ o.dropped \in SUBSET Messages
      /\ o.run \in Runs
  BY DEF Objects
<1>2. DropFirst(o.items, o.run.takes) \in Seq(Messages)
  <2>1. o.run.takes \in Nat
    BY <1>1 DEF Runs
  <2> HIDE DEF o
  <2> QED BY <1>1, <2>1, DropFirstFacts
<1>3. ClearSummary(o.dropped, o.run.summary) \in SUBSET Messages
  BY <1>1 DEF ClearSummary
<1>4. /\ \A p \in Queues : p # q => Resolved(q)[p] = queue[p]
      /\ Resolved(q)[q] = u
      /\ Resolved(q) = [p \in Queues |-> Resolved(q)[p]]
  BY DEF Resolved
<1>5. /\ u \in Objects /\ u.items = DropFirst(o.items, o.run.takes)
      /\ u.dropped = ClearSummary(o.dropped, o.run.summary)
      /\ u.run = NoRun /\ u.drain = o.drain
  <2> HIDE DEF o
  <2> QED BY <1>1, <1>2, <1>3, NoRunIsARun DEF Objects
<1> HIDE DEF u
<1>6. Resolved(q) \in [Queues -> Objects]
  BY <1>4, <1>5
<1> QED BY <1>4, <1>5, <1>6

\* The drain goes on when the object has work, and ends otherwise.
LEMMA ResolveFacts ==
  ASSUME FQTypes, NEW q \in Queues, RunResolves(q)
  PROVE  /\ queue' \in [Queues -> Objects] /\ SameContent(Resolved(q)) /\ callback' \in BOOLEAN
         /\ queue'[q].run = NoRun /\ queue'[q].drain # "running"
         /\ \A p \in Queues : p # q =>
              /\ queue'[p].run = queue[p].run
              /\ \/ queue'[p].drain = queue[p].drain
                 \/ queue[p].drain = "idle" /\ p = registered' /\ queue'[p].drain = "debounce"
         /\ registered' \in {registered, None}
         /\ \A p \in Queues : Ordered => Woken(p)'
         /\ Sole => Sole'
<1> DEFINE rest == Resolved(q)
<1>1. /\ registered \in Queues \cup {None} /\ callback \in BOOLEAN
      /\ queue \in [Queues -> Objects] /\ Draining(q)
  BY DEF FQTypes, RunResolves, Draining
<1>2. /\ rest \in [Queues -> Objects] /\ rest[q].run = NoRun /\ rest[q].drain = queue[q].drain
      /\ \A p \in Queues : p # q => rest[p] = queue[p]
  BY <1>1, ResolvedFacts
<1>3. \/ /\ HasWork(rest[q])
         /\ queue' = [rest EXCEPT ![q].drain = "debounce"]
         /\ UNCHANGED <<registered, callback>>
      \/ /\ ~HasWork(rest[q])
         /\ DrainEnds(rest, q)
  BY DEF RunResolves, Resolved
<1> HIDE DEF rest
<1>4. CASE /\ HasWork(rest[q]) /\ queue' = [rest EXCEPT ![q].drain = "debounce"]
           /\ UNCHANGED <<registered, callback>>
  <2>1. /\ queue'[q] = [rest[q] EXCEPT !.drain = "debounce"]
        /\ \A p \in Queues : p # q => queue'[p] = rest[p]
        /\ queue' = [p \in Queues |-> queue'[p]]
    BY <1>2, <1>4
  <2>2. rest[q] \in Objects
    BY <1>2
  <2>3. /\ queue'[q] \in Objects /\ queue'[q].items = rest[q].items
        /\ queue'[q].dropped = rest[q].dropped /\ queue'[q].settings = rest[q].settings
        /\ queue'[q].run = NoRun /\ queue'[q].drain = "debounce"
    BY <1>2, <2>1, <2>2 DEF Objects
  <2>4. queue' \in [Queues -> Objects]
    BY <1>2, <2>1, <2>3
  <2>5. SameContent(rest)
    BY <2>1, <2>3 DEF SameContent
  <2>6. Ordered => \A p \in Queues : Woken(p)'
    BY <1>2, <1>4, <2>1, <2>3 DEF Ordered, Woken, Draining
  <2>7. Sole => Sole'
    BY <1>1, <1>2, <1>4, <2>1 DEF Sole, Draining, HasWork
  <2> QED BY <1>1, <1>2, <1>4, <2>1, <2>3, <2>4, <2>5, <2>6, <2>7 DEF rest
<1>5. CASE ~HasWork(rest[q]) /\ DrainEnds(rest, q)
  <2>1. /\ queue' \in [Queues -> Objects] /\ SameContent(rest) /\ callback' \in BOOLEAN
        /\ queue'[q].run = NoRun /\ queue'[q].drain # "running"
        /\ \A p \in Queues : p # q =>
             /\ queue'[p].run = rest[p].run
             /\ \/ queue'[p].drain = rest[p].drain
                \/ rest[p].drain = "idle" /\ p = registered' /\ queue'[p].drain = "debounce"
        /\ queue'[q].drain # "idle" => q = registered'
        /\ registered' \in {registered, None}
        /\ registered' \in Queues => queue'[registered'].drain # "idle"
    BY <1>1, <1>2, <1>5, DrainEndsFacts
  <2>2. \A p \in Queues : Woken(p)'
    BY <2>1 DEF Woken, Draining
  <2>3. ASSUME Sole PROVE Sole'
    <3>1. q = registered
      BY <1>1, <2>3 DEF Sole
    <3>2. \A p \in Queues : HasWork(queue'[p]) <=> HasWork(rest[p])
      BY <2>1 DEF HasWork, SameContent
    <3>3. ASSUME NEW p \in Queues, Draining(p)' \/ HasWork(queue'[p]) PROVE p = registered'
      <4>1. CASE p = q
        BY <1>5, <2>1, <3>2, <3>3, <4>1 DEF Draining
      <4>2. CASE p # q
        <5>1. ~Draining(p) /\ ~HasWork(queue[p])
          BY <2>3, <3>1, <4>2 DEF Sole
        <5> QED BY <1>2, <2>1, <3>2, <3>3, <4>2, <5>1 DEF Draining
      <4> QED BY <4>1, <4>2
    <3> QED BY <3>3 DEF Sole
  <2> QED BY <1>2, <2>1, <2>2, <2>3 DEF rest
<1> QED BY <1>3, <1>4, <1>5

\* A run resolves: what it was given is told.
LEMMA RunResolvesKeeps ==
  ASSUME FQInv, NEW q \in Queues, RunResolves(q)
  PROVE  FQInv'
<1> DEFINE o == queue[q]
           u == queue'[q]
           texts == o.run.texts
<1>1. /\ FQTypes /\ Accepted /\ Ordered /\ Draining(q)
      /\ told' = told \o texts /\ mentioned' = mentioned \cup o.run.summary
      /\ UNCHANGED <<arriving, recent, clears, failures, redeliveries, accepted, forgiven,
                     unsafe>>
  BY DEF FQInv, RunResolves, Draining
<1>2. /\ o \in Objects /\ u \in Objects /\ queue' \in [Queues -> Objects]
      /\ callback' \in BOOLEAN /\ registered' \in {registered, None}
      /\ u.items = DropFirst(o.items, o.run.takes)
      /\ u.dropped = ClearSummary(o.dropped, o.run.summary) /\ u.run = NoRun
      /\ u.drain # "running"
      /\ Ordered => \A p \in Queues : Woken(p)'
      /\ Sole => Sole'
  BY <1>1, ResolveFacts, ResolvedFacts DEF FQTypes, SameContent
<1>3. \A p \in Queues : p # q =>
        /\ queue'[p].items = queue[p].items /\ queue'[p].dropped = queue[p].dropped
        /\ queue'[p].run = queue[p].run
        /\ queue'[p].drain = "running" <=> queue[p].drain = "running"
  BY <1>1, ResolveFacts, ResolvedFacts DEF FQTypes, SameContent
<1>4. /\ InOrder(accepted, u) /\ Exact(u)
      /\ Capped(o) => Capped(u)
      /\ Elems(u.items) \subseteq Elems(o.items) \ Elems(texts)
      /\ Exact(o) =>
           /\ Elems(o.items) \subseteq Elems(texts) \cup Elems(u.items)
           /\ o.dropped \subseteq o.run.summary \cup u.dropped
           /\ \A i, j \in DOMAIN texts : i < j => Before(accepted, texts[i], texts[j])
           /\ \A i \in DOMAIN texts, j \in DOMAIN u.items :
                Before(accepted, texts[i], u.items[j])
  BY <1>1, <1>2, ResolvedObject DEF Ordered
<1>5. /\ told \in Seq(Messages) /\ texts \in Seq(Messages) /\ Distinct(texts)
      /\ o.items \in Seq(Messages)
  <2>1. o.run \in Runs /\ o.items \in Seq(Messages)
    BY <1>2 DEF Objects
  <2> QED BY <1>1, <2>1 DEF Runs, FQTypes, Ordered, InOrder
<1> HIDE DEF o, u, texts
<1>6. /\ told' \in Seq(Messages) /\ Elems(told') = Elems(told) \cup Elems(texts)
      /\ \A i \in DOMAIN told' :
           \/ i \in DOMAIN told /\ told'[i] = told[i]
           \/ /\ i \notin DOMAIN told /\ i - Len(told) \in DOMAIN texts /\ i > Len(told)
              /\ told'[i] = texts[i - Len(told)]
  BY <1>1, <1>5, ConcatFacts
<1>7. FQTypes'
  BY <1>1, <1>2, <1>6 DEF FQTypes
<1>8. \A m \in Messages : m \in Elems(texts) => Holds(q, m)
  BY DEF Holds, texts, o
<1>9. ASSUME NEW p \in Queues, NEW m \in Messages, Holds(p, m)'
      PROVE  Holds(p, m) /\ m \notin Elems(texts)
  <2>1. CASE p = q
    <3>1. m \in Elems(u.items)
      BY <1>2, <1>9, <2>1, NoRunIsARun DEF Holds, u
    <3> QED BY <1>4, <2>1, <3>1 DEF Holds, o
  <2>2. CASE p # q
    <3>1. Holds(p, m)
      BY <1>3, <1>9, <2>2 DEF Holds
    <3> QED BY <1>1, <1>8, <2>2, <3>1 DEF Accepted
  <2> QED BY <2>1, <2>2
<1>10. Accepted'
  <2>1. \A i \in DOMAIN texts : texts[i] \in Messages /\ texts[i] \in recent \ Elems(told)
    <3>1. \A i \in DOMAIN texts : texts[i] \in Messages /\ texts[i] \in Elems(texts)
      BY <1>5, SeqFacts DEF Elems
    <3> QED BY <1>1, <1>8, <3>1 DEF Accepted
  <2>2. Distinct(told')
    <3> SUFFICES ASSUME NEW i \in DOMAIN told', NEW j \in DOMAIN told', told'[i] = told'[j]
                 PROVE  i = j
      BY DEF Distinct
    <3>1. i \in Nat /\ j \in Nat /\ Len(told) \in Nat
      BY <1>5, <1>6, SeqFacts
    <3>2. CASE i \in DOMAIN told /\ j \in DOMAIN told
      BY <1>1, <1>6, <3>2 DEF Accepted, Distinct
    <3>3. CASE i \notin DOMAIN told /\ j \notin DOMAIN told
      <4>1. i - Len(told) = j - Len(told)
        BY <1>5, <1>6, <3>3 DEF Distinct
      <4> QED BY <3>1, <4>1
    <3>4. \A k \in DOMAIN told : told[k] \in Elems(told)
      BY DEF Elems
    <3>5. CASE i \in DOMAIN told /\ j \notin DOMAIN told
      BY <1>6, <2>1, <3>4, <3>5
    <3>6. CASE i \notin DOMAIN told /\ j \in DOMAIN told
      BY <1>6, <2>1, <3>4, <3>6
    <3> QED BY <3>2, <3>3, <3>5, <3>6
  <2>3. Elems(told') \subseteq recent
    <3>1. Elems(texts) \subseteq recent
      BY <2>1 DEF Elems
    <3> QED BY <1>1, <1>6, <3>1 DEF Accepted
  <2>4. \A p \in Queues, m \in Messages :
          Holds(p, m)' => /\ m \in recent \ Elems(told')
                          /\ \A r \in Queues : Holds(r, m)' => r = p
    BY <1>1, <1>6, <1>9 DEF Accepted
  <2> QED BY <1>1, <2>2, <2>3, <2>4 DEF Accepted
<1>11. Ordered'
  <2> SUFFICES ASSUME NEW p \in Queues
               PROVE  /\ InOrder(accepted', queue'[p]) /\ Capped(queue'[p]) /\ Woken(p)'
                      /\ queue'[p].drain # "running" => queue'[p].run = NoRun
    BY DEF Ordered
  <2>1. CASE p = q
    BY <1>1, <1>2, <1>4, <2>1 DEF Ordered, o, u
  <2>2. CASE p # q
    BY <1>1, <1>2, <1>3, <2>2 DEF Ordered, InOrder, Capped
  <2> QED BY <2>1, <2>2
<1>12. ASSUME ~unsafe' PROVE Safe'
  <2>1. Safe /\ Exact(o)
    BY <1>1, <1>12 DEF FQInv, Safe, o
  <2>2. Sole'
    BY <1>2, <2>1 DEF Safe
  <2>3. ASSUME NEW p \in Queues PROVE Exact(queue'[p])
    <3>1. CASE p = q
      BY <1>4, <3>1 DEF u
    <3>2. CASE p # q
      <4>1. Exact(queue[p])
        BY <2>1 DEF Safe
      <4>2. /\ queue'[p].items = queue[p].items /\ queue'[p].dropped = queue[p].dropped
            /\ queue'[p].run = queue[p].run
        BY <1>3, <3>2
      <4> QED BY ONLY <4>1, <4>2 DEF Exact
    <3> QED BY <3>1, <3>2
  <2>4. ASSUME NEW m \in Elems(accepted) PROVE Settled(m)'
    <3>1. Settled(m)
      BY <2>1 DEF Safe
    <3>2. CASE m \in Elems(told) \cup mentioned \cup forgiven
      BY <1>1, <1>6, <3>2 DEF Settled
    <3>3. CASE m \in Elems(o.items) \cup o.dropped
      <4>1. \/ m \in Elems(texts) \cup o.run.summary
            \/ m \in Elems(u.items) \cup u.dropped
        BY <1>4, <2>1, <3>3
      <4> QED BY <1>1, <1>6, <4>1 DEF Settled, u
    <3>4. ASSUME NEW p \in Queues, p # q, m \in Elems(queue[p].items) \cup queue[p].dropped
          PROVE  Settled(m)'
      BY <1>3, <3>4 DEF Settled
    <3> QED BY <3>1, <3>2, <3>3, <3>4 DEF Settled, o
  <2>5. ToldInOrder'
    <3>1. \A i \in DOMAIN texts : i \in DOMAIN o.items /\ o.items[i] = texts[i]
      BY <1>5, <2>1, SeqFacts DEF Exact, texts
    <3>2. \A i \in DOMAIN told, j \in DOMAIN o.items : Before(accepted, told[i], o.items[j])
      BY <2>1 DEF Safe, ToldInOrder, o
    <3>3. \A i \in DOMAIN told, j \in DOMAIN texts : Before(accepted, told[i], texts[j])
      BY <3>1, <3>2
    <3>4. ASSUME NEW i \in DOMAIN told', NEW j \in DOMAIN told', i < j
          PROVE  Before(accepted, told'[i], told'[j])
      <4>1. /\ i \in Nat /\ j \in Nat /\ Len(told) \in Nat /\ DOMAIN told = 1..Len(told)
            /\ i >= 1
        BY <1>5, <1>6, SeqFacts
      <4>2. CASE j \in DOMAIN told
        <5>1. i \in DOMAIN told
          BY <3>4, <4>1, <4>2
        <5> QED BY <1>6, <2>1, <3>4, <4>2, <5>1 DEF Safe, ToldInOrder
      <4>3. CASE i \in DOMAIN told /\ j \notin DOMAIN told
        BY <1>6, <3>3, <4>3
      <4>4. CASE i \notin DOMAIN told /\ j \notin DOMAIN told
        <5>1. i - Len(told) < j - Len(told)
          BY <3>4, <4>1
        <5> QED BY <1>4, <1>6, <2>1, <4>4, <5>1
      <4> QED BY <4>2, <4>3, <4>4
    <3>5. ASSUME NEW i \in DOMAIN told', NEW p \in Queues, NEW j \in DOMAIN queue'[p].items
          PROVE  Before(accepted, told'[i], queue'[p].items[j])
      <4>1. CASE p # q
        <5>1. queue'[p].items = queue[p].items /\ HasWork(queue[p])
          <6>1. queue'[p].items = queue[p].items
            BY <1>3, <4>1
          <6>2. queue[p].items # <<>>
            BY <3>5, <6>1
          <6> QED BY <6>1, <6>2 DEF HasWork
        <5> QED BY <1>1, <2>1, <4>1, <5>1 DEF Safe, Sole
      <4>2. CASE p = q
        <5>1. j \in DOMAIN u.items /\ queue'[p].items[j] = u.items[j]
          BY <3>5, <4>2 DEF u
        <5>2. u.items[j] \in Elems(o.items)
          BY <1>4, <5>1 DEF Elems
        <5>3. \A k \in DOMAIN told : Before(accepted, told[k], u.items[j])
          BY <3>2, <5>2 DEF Elems
        <5> QED BY <1>4, <1>6, <2>1, <5>1, <5>3
      <4> QED BY <4>1, <4>2
    <3> QED BY <1>1, <3>4, <3>5 DEF ToldInOrder
  <2> QED BY <1>1, <2>2, <2>3, <2>4, <2>5 DEF Safe
<1> QED BY <1>7, <1>10, <1>11, <1>12 DEF FQInv

\* A clear that finds no object forgets the callback.
LEMMA ClearNothingKeeps ==
  ASSUME FQInv, ClearSessionQueues, registered = None
  PROVE  FQInv'
<1>1. None \notin Queues
  BY FollowupAssumption DEF None, Queues
<1>2. /\ UNCHANGED <<registered, queue, arriving, recent, failures, redeliveries, accepted,
                     told, mentioned, forgiven>>
      /\ callback' = FALSE
  BY <1>1 DEF ClearSessionQueues
<1>3. clears' = clears + 1 /\ (~unsafe' => ~unsafe)
  BY DEF ClearSessionQueues
<1>4. FQTypes'
  <2>1. FQTypes /\ clears \in Nat
    BY DEF FQInv, FQTypes
  <2>2. clears' \in Nat
    BY <1>3, <2>1
  <2>3. callback' \in BOOLEAN
    BY <1>2
  <2> QED BY <1>2, <2>1, <2>2, <2>3 DEF FQTypes
<1>5. Accepted' /\ Ordered'
  BY <1>2 DEF FQInv, Accepted, Holds, Ordered, Woken, Draining
<1>6. Safe => Safe'
  BY <1>2 DEF Safe, Sole, Settled, ToldInOrder, Draining
<1> QED BY <1>3, <1>4, <1>5, <1>6 DEF FQInv

\* A clear empties the registered object and forgets it.
LEMMA ClearKeeps ==
  ASSUME FQInv, ClearSessionQueues, registered # None
  PROVE  FQInv'
<1> DEFINE q == registered
           o == queue[q]
           u == queue'[q]
<1>1. /\ FQTypes /\ Accepted /\ Ordered /\ q \in Queues /\ o \in Objects
      /\ queue' = [queue EXCEPT ![q].items = <<>>, ![q].dropped = {}]
      /\ registered' = None /\ callback' = FALSE /\ clears' \in Nat
      /\ forgiven' = forgiven \cup Elems(o.items) \cup o.dropped
      /\ unsafe' = (unsafe \/ \E p \in Queues : Draining(p))
      /\ UNCHANGED <<arriving, recent, failures, redeliveries, accepted, told, mentioned>>
  BY DEF FQInv, FQTypes, ClearSessionQueues
<1>2. /\ u = [o EXCEPT !.items = <<>>, !.dropped = {}]
      /\ \A p \in Queues : p # q => queue'[p] = queue[p]
      /\ queue' = [p \in Queues |-> queue'[p]]
  BY <1>1 DEF FQTypes
<1>3. <<>> \in Seq(Messages) /\ Len(<<>>) = 0 /\ DOMAIN <<>> = {} /\ Elems(<<>>) = {}
  BY DEF Elems
<1>4. /\ u \in Objects /\ u.items = <<>> /\ u.dropped = {} /\ u.run = o.run
      /\ u.drain = o.drain
  <2>1. {} \in SUBSET Messages
    OBVIOUS
  <2> QED BY <1>1, <1>2, <1>3, <2>1 DEF Objects
<1> HIDE DEF q, o, u
<1>5. queue' \in [Queues -> Objects]
  BY <1>1, <1>2, <1>4 DEF FQTypes, u
<1>6. FQTypes'
  BY <1>1, <1>5 DEF FQTypes
<1>7. \A p \in Queues, m \in Messages : Holds(p, m)' => Holds(p, m)
  <2> SUFFICES ASSUME NEW p \in Queues, NEW m \in Messages, Holds(p, m)' PROVE Holds(p, m)
    OBVIOUS
  <2>1. CASE p = q
    BY <1>3, <1>4, <2>1 DEF Holds, u, o
  <2>2. CASE p # q
    BY <1>2, <2>2 DEF Holds
  <2> QED BY <2>1, <2>2
<1>8. Accepted'
  BY <1>1, <1>7, AcceptedFrame
<1>9. Ordered'
  <2> SUFFICES ASSUME NEW p \in Queues
               PROVE  /\ InOrder(accepted', queue'[p]) /\ Capped(queue'[p]) /\ Woken(p)'
                      /\ queue'[p].drain # "running" => queue'[p].run = NoRun
    BY DEF Ordered
  <2>1. Woken(p)'
    BY <1>1 DEF Woken
  <2>2. CASE p = q
    <3>1. InOrder(accepted, o)
      BY <1>1 DEF Ordered, o
    <3>2. InOrder(accepted, u)
      BY <1>3, <1>4, <3>1 DEF InOrder
    <3>3. \E s \in Settings : 0 <= s.cap
      <4>1. \A s \in Settings : s.cap \in Nat
        BY FollowupAssumption
      <4> QED BY <4>1, FollowupAssumption
    <3>4. Capped(u)
      BY <1>3, <1>4, <3>3 DEF Capped
    <3> QED BY <1>1, <1>4, <2>1, <2>2, <3>2, <3>4 DEF Ordered, u, o
  <2>3. CASE p # q
    BY <1>1, <1>2, <2>1, <2>3 DEF Ordered
  <2> QED BY <2>2, <2>3
<1>10. ASSUME ~unsafe' PROVE Safe'
  <2>1. Safe /\ \A p \in Queues : ~Draining(p)
    BY <1>1, <1>10 DEF FQInv
  <2>2. Sole'
    BY <1>2, <1>4, <2>1 DEF Safe, Sole, Draining, HasWork, q, o, u
  <2>3. \A p \in Queues : Exact(queue'[p])
    <3>1. o.drain # "running"
      BY <1>1, <2>1 DEF Draining, o
    <3>2. u.run = NoRun
      BY <1>1, <1>4, <3>1 DEF Ordered, o
    <3>3. Exact(u)
      BY <1>3, <1>4, <3>2, NoRunIsARun DEF Exact
    <3> QED BY <1>2, <2>1, <3>3 DEF Safe, u
  <2>4. ASSUME NEW m \in Elems(accepted) PROVE Settled(m)'
    <3>1. Settled(m)
      BY <2>1 DEF Safe
    <3>2. CASE m \in Elems(told) \cup mentioned \cup forgiven
      BY <1>1, <3>2 DEF Settled
    <3>3. CASE m \in Elems(o.items) \cup o.dropped
      BY <1>1, <3>3 DEF Settled, o
    <3>4. ASSUME NEW p \in Queues, p # q, m \in Elems(queue[p].items) \cup queue[p].dropped
          PROVE  Settled(m)'
      BY <1>2, <3>4 DEF Settled
    <3> QED BY <3>1, <3>2, <3>3, <3>4 DEF Settled, o
  <2>5. ToldInOrder'
    <3>1. \A p \in Queues : \A j \in DOMAIN queue'[p].items :
            j \in DOMAIN queue[p].items /\ queue'[p].items[j] = queue[p].items[j]
      BY <1>2, <1>3, <1>4 DEF u
    <3>2. ToldInOrder /\ told' = told /\ accepted' = accepted
      BY <1>1, <2>1 DEF Safe
    <3> QED BY <3>1, <3>2 DEF ToldInOrder
  <2> QED BY <1>1, <2>2, <2>3, <2>4, <2>5 DEF Safe
<1> QED BY <1>6, <1>8, <1>9, <1>10 DEF FQInv

\* The order of what was accepted goes on when a message is accepted.
LEMMA BeforeAppend ==
  ASSUME NEW S, NEW s \in Seq(S), NEW e \in S
  PROVE  /\ \A m, n : Before(s, m, n) => Before(Append(s, e), m, n)
         /\ \A m \in Elems(s) : Before(Append(s, e), m, e)
         /\ \A o : InOrder(s, o) => InOrder(Append(s, e), o)
<1>1. /\ Len(s) \in Nat /\ DOMAIN s = 1..Len(s) /\ DOMAIN Append(s, e) = 1..(Len(s) + 1)
      /\ \A i \in DOMAIN s : i \in DOMAIN Append(s, e) /\ Append(s, e)[i] = s[i]
      /\ Append(s, e)[Len(s) + 1] = e
  BY AppendFacts, SeqFacts
<1>2. \A m, n : Before(s, m, n) => Before(Append(s, e), m, n)
  BY <1>1 DEF Before
<1>3. \A m \in Elems(s) : Before(Append(s, e), m, e)
  <2>1. Len(s) + 1 \in DOMAIN Append(s, e) /\ \A i \in DOMAIN s : i < Len(s) + 1
    BY <1>1
  <2> QED BY <1>1, <2>1 DEF Before, Elems
<1>4. \A o : InOrder(s, o) => InOrder(Append(s, e), o)
  BY <1>2 DEF InOrder
<1> QED BY <1>2, <1>3, <1>4

\* applyQueueDropPolicy makes room for one.
LEMMA DropCountFacts ==
  ASSUME NEW o \in Objects
  PROVE  /\ DropCount(o) \in Nat /\ DropCount(o) <= Len(o.items)
         /\ Len(o.items) - DropCount(o) + 1 <= o.settings.cap
<1>1. Len(o.items) \in Nat
  BY SeqFacts DEF Objects
<1>2. o.settings.cap \in Nat \ {0}
  BY FollowupAssumption DEF Objects
<1> QED BY <1>1, <1>2 DEF DropCount

\* What is dropped and what is kept are all there was.
LEMMA DropsFacts ==
  ASSUME NEW S, NEW s \in Seq(S), NEW n \in Nat, n <= Len(s)
  PROVE  /\ Elems(s) \subseteq Elems(SubSeq(s, 1, n)) \cup Elems(DropFirst(s, n))
         /\ Elems(SubSeq(s, 1, n)) \subseteq Elems(s)
         /\ SubSeq(s, 1, n) = <<>> <=> n = 0
<1> DEFINE t == SubSeq(s, 1, n)
<1>1. Len(s) \in Nat /\ DOMAIN s = 1..Len(s)
  BY SeqFacts
<1>2. \A i \in 1..n : s[i] \in S
  BY <1>1, ElementOfSeq
<1>3. /\ t \in Seq(S) /\ Len(t) = IF 1 <= n THEN n - 1 + 1 ELSE 0
      /\ \A i \in 1..(n - 1 + 1) : t[i] = s[1 + i - 1]
  <2>1. 1 \in Int /\ n \in Int
    OBVIOUS
  <2> HIDE DEF t
  <2> QED BY <1>2, <2>1, SubSeqProperties DEF t
<1> HIDE DEF t
<1>4. Len(t) = n /\ DOMAIN t = 1..n
  <2>1. n - 1 + 1 = n /\ (1 <= n \/ n = 0)
    OBVIOUS
  <2>2. Len(t) = n
    BY <1>3, <2>1
  <2> QED BY <1>3, <2>2, SeqFacts
<1>5. \A i \in DOMAIN t : t[i] = s[i] /\ i \in DOMAIN s
  <2> SUFFICES ASSUME NEW i \in 1..n PROVE t[i] = s[i] /\ i \in DOMAIN s
    BY <1>4
  <2>1. 1 + i - 1 = i /\ i \in 1..(n - 1 + 1) /\ i \in 1..Len(s)
    BY <1>1
  <2> QED BY <1>1, <1>3, <2>1
<1>6. ASSUME NEW i \in DOMAIN s PROVE s[i] \in Elems(t) \cup Elems(DropFirst(s, n))
  <2>1. i > n => s[i] \in Elems(DropFirst(s, n))
    BY DropFirstFacts
  <2>2. ~(i > n) => i \in DOMAIN t
    BY <1>1, <1>4
  <2> QED BY <1>5, <2>1, <2>2 DEF Elems
<1>7. t = <<>> <=> n = 0
  BY <1>3, <1>4, SeqFacts
<1> QED BY <1>5, <1>6, <1>7 DEF Elems, t

-----------------------------------------------------------------------------
(* The step that accepts a message. *)

\* The object that takes a message: the registered one, or a new one in an idle place.
LEMMA TargetFacts ==
  ASSUME FQInv, NEW settings \in Settings,
         registered # None \/ \E q \in Queues : ~Draining(q)
  PROVE  /\ Target \in Queues /\ WithTarget(settings) \in [Queues -> Objects]
         /\ \A p \in Queues : p # Target => WithTarget(settings)[p] = queue[p]
         /\ WithTarget(settings)[Target].settings = settings
         /\ \/ /\ registered = Target
               /\ WithTarget(settings)[Target].items = queue[Target].items
               /\ WithTarget(settings)[Target].dropped = queue[Target].dropped
               /\ WithTarget(settings)[Target].run = queue[Target].run
               /\ WithTarget(settings)[Target].drain = queue[Target].drain
            \/ /\ registered = None
               /\ WithTarget(settings)[Target].items = <<>>
               /\ WithTarget(settings)[Target].dropped = {}
               /\ WithTarget(settings)[Target].run = NoRun
               /\ WithTarget(settings)[Target].drain = "idle"
<1>1. /\ queue \in [Queues -> Objects] /\ registered \in Queues \cup {None}
  BY DEF FQInv, FQTypes
<1>2. Target \in Queues
  <2>1. CASE registered = None
    <3>1. \E q \in Queues : ~Draining(q)
      BY <2>1
    <3> QED BY <2>1, <3>1 DEF Target, Fresh
  <2>2. CASE registered # None
    BY <1>1, <2>2 DEF Target
  <2> QED BY <2>1, <2>2
<1>3. CASE registered = None
  <2>1. WithTarget(settings) = [queue EXCEPT ![Target] = Created(settings)]
    BY <1>3 DEF WithTarget
  <2>2. Created(settings) \in Objects
    <3>1. <<>> \in Seq(Messages) /\ {} \in SUBSET Messages
      OBVIOUS
    <3> QED BY <3>1, NoRunIsARun DEF Created, Objects
  <2> QED BY <1>1, <1>2, <1>3, <2>1, <2>2 DEF Created
<1>4. CASE registered # None
  <2>1. /\ WithTarget(settings) = [queue EXCEPT ![Target].settings = settings]
        /\ registered = Target
    BY <1>4 DEF WithTarget, Target
  <2>2. /\ WithTarget(settings)[Target] = [queue[Target] EXCEPT !.settings = settings]
        /\ \A p \in Queues : p # Target => WithTarget(settings)[p] = queue[p]
        /\ WithTarget(settings) = [p \in Queues |-> WithTarget(settings)[p]]
    BY <1>1, <1>2, <2>1
  <2>3. queue[Target] \in Objects
    BY <1>1, <1>2
  <2> DEFINE u == WithTarget(settings)[Target]
  <2>4. /\ u \in Objects /\ u.settings = settings
        /\ u.items = queue[Target].items /\ u.dropped = queue[Target].dropped
        /\ u.run = queue[Target].run /\ u.drain = queue[Target].drain
    <3>1. u = [queue[Target] EXCEPT !.settings = settings]
      BY <2>2
    <3> HIDE DEF u
    <3> QED BY <2>3, <3>1 DEF Objects
  <2> HIDE DEF u
  <2>5. WithTarget(settings) \in [Queues -> Objects]
    BY <1>1, <2>2, <2>4 DEF u
  <2> QED BY <1>2, <2>1, <2>2, <2>4, <2>5 DEF u
<1> QED BY <1>3, <1>4

\* With its target the queue is as good as before.
LEMMA TargetKeeps ==
  ASSUME FQInv, NEW settings \in Settings,
         registered # None \/ \E q \in Queues : ~Draining(q),
         NEW o, o = WithTarget(settings), NEW q, q = Target
  PROVE  /\ \A p \in Queues :
              /\ InOrder(accepted, o[p]) /\ Capped(o[p])
              /\ o[p].drain # "running" => o[p].run = NoRun
              /\ \A i \in DOMAIN o[p].items :
                   i \in DOMAIN queue[p].items /\ o[p].items[i] = queue[p].items[i]
              /\ \A m \in Messages :
                   m \in Elems(o[p].items) \cup Elems(o[p].run.texts) => Holds(p, m)
         /\ o[q].items # <<>> /\ callback => o[q].drain # "idle"
         /\ \A p \in Queues : p # q /\ Sole => o[p].drain = "idle" /\ ~HasWork(o[p])
         /\ Safe => \A p \in Queues : Exact(o[p])
         /\ Safe => \A p \in Queues, m \in Messages :
              m \in Elems(queue[p].items) \cup queue[p].dropped
                => m \in Elems(o[p].items) \cup o[p].dropped
<1>1. /\ q \in Queues /\ o \in [Queues -> Objects]
      /\ \A p \in Queues : p # q => o[p] = queue[p]
      /\ \/ /\ registered = q /\ o[q].items = queue[q].items
            /\ o[q].dropped = queue[q].dropped /\ o[q].run = queue[q].run
            /\ o[q].drain = queue[q].drain
         \/ /\ registered = None /\ o[q].items = <<>> /\ o[q].dropped = {}
            /\ o[q].run = NoRun /\ o[q].drain = "idle"
  BY TargetFacts
<1>2. Ordered /\ \A p \in Queues : p # None
  BY NoneIsNoQueue DEF FQInv
<1>3. <<>> \in Seq(Messages) /\ Len(<<>>) = 0 /\ DOMAIN <<>> = {} /\ Elems(<<>>) = {}
  BY DEF Elems
<1>4. ASSUME registered = None, o[q].items = <<>>, o[q].dropped = {}, o[q].run = NoRun
      PROVE  InOrder(accepted, o[q]) /\ Capped(o[q]) /\ Exact(o[q])
  <2>1. InOrder(accepted, o[q])
    BY <1>3, <1>4, NoRunIsARun DEF InOrder, Distinct
  <2>2. \E s \in Settings : 0 <= s.cap
    <3>1. \A s \in Settings : s.cap \in Nat
      BY FollowupAssumption
    <3> QED BY <3>1
  <2>3. Capped(o[q]) /\ Exact(o[q])
    BY <1>3, <1>4, <2>2, NoRunIsARun DEF Capped, Exact
  <2> QED BY <2>1, <2>3
<1>5. ASSUME NEW p \in Queues
      PROVE  /\ InOrder(accepted, o[p]) /\ Capped(o[p])
             /\ o[p].drain # "running" => o[p].run = NoRun
  <2>1. InOrder(accepted, queue[p]) /\ Capped(queue[p])
    BY <1>2 DEF Ordered
  <2>2. queue[p].drain # "running" => queue[p].run = NoRun
    BY <1>2 DEF Ordered
  <2>3. CASE p # q
    BY <1>1, <2>1, <2>2, <2>3
  <2>4. CASE p = q /\ registered = q
    BY <1>1, <1>2, <2>1, <2>2, <2>4 DEF InOrder, Capped
  <2>5. CASE p = q /\ registered # q
    BY <1>1, <1>4, <2>5
  <2> QED BY <2>3, <2>4, <2>5
<1>6. ASSUME NEW p \in Queues
      PROVE  /\ \A i \in DOMAIN o[p].items :
                  i \in DOMAIN queue[p].items /\ o[p].items[i] = queue[p].items[i]
             /\ \A m \in Messages :
                  m \in Elems(o[p].items) \cup Elems(o[p].run.texts) => Holds(p, m)
  <2>1. CASE p # q
    BY <1>1, <2>1 DEF Holds
  <2>2. CASE p = q
    BY <1>1, <1>3, <2>2, NoRunIsARun DEF Holds
  <2> QED BY <2>1, <2>2
<1>7. o[q].items # <<>> /\ callback => o[q].drain # "idle"
  BY <1>1, <1>2 DEF Ordered, Woken, Draining
<1>8. ASSUME NEW p \in Queues, p # q, Sole PROVE o[p].drain = "idle" /\ ~HasWork(o[p])
  BY <1>1, <1>2, <1>8 DEF Sole, Draining
<1>9. ASSUME Safe, NEW p \in Queues PROVE Exact(o[p])
  <2>1. Exact(queue[p])
    BY <1>9 DEF Safe
  <2>2. CASE p # q
    BY <1>1, <2>1, <2>2
  <2>3. CASE p = q /\ registered = q
    BY <1>1, <1>2, <2>1, <2>3 DEF Exact
  <2>4. CASE p = q /\ registered # q
    BY <1>1, <1>4, <2>4
  <2> QED BY <2>2, <2>3, <2>4
<1>10. ASSUME Safe, NEW p \in Queues, NEW m \in Messages,
              m \in Elems(queue[p].items) \cup queue[p].dropped
       PROVE  m \in Elems(o[p].items) \cup o[p].dropped
  <2>1. p = registered
    <3>1. HasWork(queue[p])
      BY <1>3, <1>10 DEF HasWork
    <3> QED BY <1>10, <3>1 DEF Safe, Sole
  <2> QED BY <1>1, <1>2, <1>10, <2>1
<1> QED BY <1>1, <1>5, <1>6, <1>7, <1>8, <1>9, <1>10

\* A message is refused: a duplicate, or a new one that finds the queue full.
LEMMA RefuseKeeps ==
  ASSUME FQInv, NEW settings \in Settings,
         registered # None \/ \E q \in Queues : ~Draining(q),
         registered' = Target, queue' = WithTarget(settings), arriving' \subseteq Messages,
         UNCHANGED <<callback, recent, clears, failures, redeliveries, accepted, told,
                     mentioned, forgiven, unsafe>>
  PROVE  FQInv'
<1> DEFINE o == WithTarget(settings)
           q == Target
<1>1. FQTypes /\ Accepted /\ Ordered /\ queue' = o /\ registered' = q
  BY DEF FQInv
<1>2. q \in Queues /\ o \in [Queues -> Objects]
  BY TargetFacts
<1>3. /\ \A p \in Queues :
           /\ InOrder(accepted, o[p]) /\ Capped(o[p])
           /\ o[p].drain # "running" => o[p].run = NoRun
           /\ \A i \in DOMAIN o[p].items :
                i \in DOMAIN queue[p].items /\ o[p].items[i] = queue[p].items[i]
           /\ \A m \in Messages :
                m \in Elems(o[p].items) \cup Elems(o[p].run.texts) => Holds(p, m)
      /\ o[q].items # <<>> /\ callback => o[q].drain # "idle"
      /\ \A p \in Queues : p # q /\ Sole => o[p].drain = "idle" /\ ~HasWork(o[p])
      /\ Safe => \A p \in Queues : Exact(o[p])
      /\ Safe => \A p \in Queues, m \in Messages :
           m \in Elems(queue[p].items) \cup queue[p].dropped
             => m \in Elems(o[p].items) \cup o[p].dropped
  BY TargetKeeps
<1> HIDE DEF o, q
<1>4. FQTypes'
  BY <1>1, <1>2 DEF FQTypes
<1>5. Accepted'
  <2>1. \A p \in Queues, m \in Messages : Holds(p, m)' => Holds(p, m)
    BY <1>1, <1>3 DEF Holds
  <2> QED BY <1>1, <2>1, AcceptedFrame
<1>6. Ordered'
  BY <1>1, <1>3 DEF Ordered, Woken, Draining
<1>7. ASSUME ~unsafe' PROVE Safe'
  <2>1. Safe /\ accepted \in Seq(Messages)
    BY <1>1, <1>7 DEF FQInv, FQTypes
  <2>2. Sole'
    BY <1>1, <1>3, <2>1 DEF Safe, Sole, Draining
  <2>3. ASSUME NEW m \in Elems(accepted) PROVE Settled(m)'
    <3>1. Settled(m) /\ m \in Messages
      BY <2>1, SeqFacts DEF Safe, Elems
    <3> QED BY <1>1, <1>3, <2>1, <3>1 DEF Settled
  <2>4. ToldInOrder'
    <3>1. ToldInOrder /\ told' = told /\ accepted' = accepted
      BY <2>1 DEF Safe
    <3> QED BY <1>1, <1>3, <3>1 DEF ToldInOrder
  <2> QED BY <1>1, <1>3, <2>1, <2>2, <2>3, <2>4 DEF Safe
<1> QED BY <1>4, <1>5, <1>6, <1>7 DEF FQInv

\* The object that took m, when it had n items to drop.
PushedOnto(u, o, s, m, n) ==
    /\ s \in Seq(Messages) /\ m \in Messages /\ m \notin Elems(s)
    /\ o \in Objects /\ InOrder(s, o)
    /\ Elems(o.items) \subseteq Elems(s) /\ Elems(o.run.texts) \subseteq Elems(s)
    /\ n \in Nat /\ n = DropCount(o)
    /\ u \in Objects /\ u.items = Pushed(DropFirst(o.items, n), m) /\ u.run = o.run

LEMMA PushedObject ==
  ASSUME NEW u, NEW o, NEW s, NEW m, NEW n, PushedOnto(u, o, s, m, n)
  PROVE  /\ InOrder(Append(s, m), u) /\ Capped(u) /\ u.items # <<>>
         /\ Elems(u.items) = Elems(DropFirst(o.items, n)) \cup {m}
         /\ \A i \in DOMAIN u.items :
              u.items[i] = m \/ \E j \in DOMAIN o.items : u.items[i] = o.items[j]
         /\ Exact(o) /\ n = 0 /\ u.dropped = o.dropped => Exact(u)
<1>0. /\ s \in Seq(Messages) /\ m \in Messages /\ m \notin Elems(s)
      /\ o \in Objects /\ InOrder(s, o)
      /\ Elems(o.items) \subseteq Elems(s) /\ Elems(o.run.texts) \subseteq Elems(s)
      /\ n \in Nat /\ n = DropCount(o)
      /\ u \in Objects /\ u.items = Pushed(DropFirst(o.items, n), m) /\ u.run = o.run
  BY DEF PushedOnto
<1> USE <1>0
<1> DEFINE k == DropFirst(o.items, n)
<1>1. /\ o.items \in Seq(Messages) /\ n \in Nat /\ n <= Len(o.items)
      /\ Len(o.items) \in Nat /\ DOMAIN o.items = 1..Len(o.items)
      /\ Len(o.items) - n + 1 <= o.settings.cap /\ o.settings \in Settings
      /\ o.run.takes \in Nat /\ o.run.texts \in Seq(Messages)
  <2>1. o.items \in Seq(Messages) /\ o.settings \in Settings /\ o.run \in Runs
    BY DEF Objects
  <2> QED BY <2>1, DropCountFacts, SeqFacts DEF Runs
<1>2. /\ k \in Seq(Messages)
      /\ Len(k) = IF n <= Len(o.items) THEN Len(o.items) - n ELSE 0
      /\ \A i \in DOMAIN k : i \in Nat /\ i + n \in DOMAIN o.items /\ k[i] = o.items[i + n]
  <2> DEFINE t == o.items
  <2>1. t \in Seq(Messages) /\ n \in Nat
    BY <1>1
  <2> HIDE DEF t
  <2>2. /\ DropFirst(t, n) \in Seq(Messages)
        /\ Len(DropFirst(t, n)) = IF n <= Len(t) THEN Len(t) - n ELSE 0
        /\ \A i \in DOMAIN DropFirst(t, n) :
             i \in Nat /\ i + n \in DOMAIN t /\ DropFirst(t, n)[i] = t[i + n]
        /\ \A i \in DOMAIN t : i > n => t[i] \in Elems(DropFirst(t, n))
    <3> HIDE DEF k
    <3> QED BY ONLY <2>1, DropFirstFacts
  <2> QED BY <2>2 DEF t
<1>3. u.items = Append(k, m)
  BY DEF Pushed
<1> HIDE DEF k
<1>4. /\ Len(k) \in Nat /\ Len(k) = Len(o.items) - n /\ DOMAIN k = 1..Len(k)
  BY <1>1, <1>2, SeqFacts
<1>5. /\ u.items # <<>> /\ Len(u.items) = Len(k) + 1 /\ DOMAIN u.items = 1..(Len(k) + 1)
      /\ \A i \in DOMAIN k : i \in DOMAIN u.items /\ u.items[i] = k[i]
      /\ u.items[Len(k) + 1] = m
      /\ \A i \in DOMAIN u.items : i \in DOMAIN k \/ i = Len(k) + 1
      /\ Elems(u.items) = Elems(k) \cup {m}
  <2>1. k \in Seq(Messages) /\ m \in Messages
    BY <1>2
  <2> DEFINE t == Append(k, m)
  <2>2. /\ t # <<>> /\ Len(t) = Len(k) + 1 /\ DOMAIN t = 1..(Len(k) + 1)
        /\ \A i \in DOMAIN k : i \in DOMAIN t /\ t[i] = k[i]
        /\ t[Len(k) + 1] = m
        /\ \A i \in DOMAIN t : i \in DOMAIN k \/ i = Len(k) + 1
        /\ Elems(t) = Elems(k) \cup {m}
    BY ONLY <2>1, AppendFacts
  <2>3. u.items = t
    BY <1>3
  <2> HIDE DEF t
  <2> QED BY ONLY <2>2, <2>3
<1>6. \A i \in DOMAIN k : k[i] \in Elems(s)
  BY <1>2 DEF Elems
<1>7. InOrder(Append(s, m), u)
  <2>1. ASSUME NEW i \in DOMAIN u.items, NEW j \in DOMAIN u.items, i < j
        PROVE  Before(Append(s, m), u.items[i], u.items[j])
    <3>1. i \in DOMAIN k
      BY <1>4, <1>5, <2>1
    <3>2. CASE j \in DOMAIN k
      <4>1. i + n < j + n
        BY <1>1, <1>4, <2>1, <3>1, <3>2
      <4>2. Before(s, k[i], k[j])
        BY <1>2, <3>1, <3>2, <4>1 DEF InOrder
      <4> QED BY <1>5, <3>1, <3>2, <4>2, BeforeAppend
    <3>3. CASE j = Len(k) + 1
      BY <1>5, <1>6, <3>1, <3>3, BeforeAppend
    <3> QED BY <1>5, <3>2, <3>3
  <2>2. ASSUME NEW i \in DOMAIN u.items, i > u.run.takes
        PROVE  u.items[i] \notin Elems(u.run.texts)
    <3>1. CASE i \in DOMAIN k
      <4>1. i + n > o.run.takes
        <5>1. \A a, b, c \in Nat : a > b => a + c > b
          BY ONLY TRUE
        <5>2. i \in Nat /\ n \in Nat /\ o.run.takes \in Nat /\ i > o.run.takes
          BY <1>1, <1>2, <2>2, <3>1
        <5> QED BY ONLY <5>1, <5>2
      <4>2. i + n \in DOMAIN o.items /\ u.items[i] = o.items[i + n]
        BY <1>2, <1>5, <3>1
      <4>3. o.items[i + n] \notin Elems(o.run.texts)
        BY <4>1, <4>2 DEF InOrder
      <4> QED BY <4>2, <4>3
    <3>2. CASE i = Len(k) + 1
      BY <1>5, <3>2
    <3> QED BY <1>5, <3>1, <3>2
  <2> QED BY <2>1, <2>2 DEF InOrder
<1>8. Capped(u)
  <2>1. Len(u.items) <= o.settings.cap
    BY <1>1, <1>4, <1>5
  <2> QED BY <1>1, <2>1 DEF Capped
<1>9. ASSUME Exact(o), n = 0, u.dropped = o.dropped PROVE Exact(u)
  <2>1. Len(k) = Len(o.items) /\ \A i \in DOMAIN k : i + n = i
    BY <1>1, <1>2, <1>4, <1>9
  <2>2. Len(o.run.texts) \in Nat /\ DOMAIN o.run.texts = 1..Len(o.run.texts)
    BY <1>1, SeqFacts
  <2>3. \A i \in DOMAIN o.run.texts : i \in DOMAIN k
    BY <1>1, <1>4, <1>9, <2>1, <2>2 DEF Exact
  <2>4. \A i \in DOMAIN o.run.texts : u.items[i] = o.run.texts[i]
    BY <1>2, <1>5, <1>9, <2>1, <2>3 DEF Exact
  <2>5. Len(o.run.texts) <= Len(u.items)
    BY <1>1, <1>4, <1>5, <1>9, <2>1, <2>2 DEF Exact
  <2> QED BY <1>9, <2>4, <2>5 DEF Exact
<1>10. \A i \in DOMAIN u.items :
          u.items[i] = m \/ \E j \in DOMAIN o.items : u.items[i] = o.items[j]
  BY <1>2, <1>5
<1>11. u.items # <<>> /\ Elems(u.items) = Elems(DropFirst(o.items, n)) \cup {m}
  BY <1>5 DEF k
<1> QED BY <1>7, <1>8, <1>9, <1>10, <1>11

\* kickFollowupDrainIfIdle starts the drain of the object that took the message.
LEMMA KickFacts ==
  ASSUME NEW q \in Queues, registered' = q, NEW e \in [Queues -> Objects], Kick(e)
  PROVE  /\ queue' \in [Queues -> Objects] /\ SameContent(e) /\ callback' = callback
         /\ \A p \in Queues : p # q => queue'[p] = e[p]
         /\ queue'[q].run = e[q].run
         /\ queue'[q].drain = e[q].drain \/ (e[q].drain = "idle" /\ queue'[q].drain = "debounce")
         /\ callback => queue'[q].drain # "idle"
<1>1. CASE /\ callback /\ e[q].drain = "idle" /\ UNCHANGED callback
           /\ queue' = [e EXCEPT ![q].drain = "debounce", ![q].forced = FALSE]
  <2> DEFINE u == queue'[q]
  <2>1. /\ u = [e[q] EXCEPT !.drain = "debounce", !.forced = FALSE]
        /\ \A p \in Queues : p # q => queue'[p] = e[p]
        /\ queue' = [p \in Queues |-> queue'[p]]
    BY <1>1
  <2> HIDE DEF u
  <2>2. e[q] \in Objects
    OBVIOUS
  <2>3. /\ u \in Objects /\ u.items = e[q].items /\ u.dropped = e[q].dropped
        /\ u.settings = e[q].settings /\ u.run = e[q].run /\ u.drain = "debounce"
    BY <2>1, <2>2 DEF Objects
  <2>4. queue' \in [Queues -> Objects]
    BY <2>1, <2>3 DEF u
  <2> QED BY <1>1, <2>1, <2>3, <2>4 DEF SameContent, u
<1>2. CASE ~(callback /\ e[q].drain = "idle") /\ queue' = e /\ UNCHANGED callback
  BY <1>2 DEF SameContent
<1> QED BY <1>1, <1>2 DEF Kick

\* The objects o after q took m in the place of the first n items.
Received(o, q, m, settings, n, drops) ==
    [o EXCEPT ![q].items = Pushed(DropFirst(o[q].items, n), m),
              ![q].dropped = IF settings.dropPolicy = "summarize" THEN @ \cup Elems(drops)
                             ELSE @]

\* A message is accepted: it is pushed, what it displaces is dropped, and the drain is
\* kicked.
LEMMA AcceptKeeps ==
  ASSUME FQInv, NEW m \in Messages, NEW settings \in Settings,
         registered # None \/ \E q \in Queues : ~Draining(q),
         arriving' \subseteq Messages, UNCHANGED <<clears, failures, redeliveries>>,
         registered' = Target,
         NEW o, o = WithTarget(settings), NEW q, q = Target, NEW n, n = DropCount(o[q]),
         NEW drops, drops = SubSeq(o[q].items, 1, n),
         m \notin recent, n = 0 \/ settings.dropPolicy # "new",
         Kick(Received(o, q, m, settings, n, drops)),
         recent' = recent \cup {m}, accepted' = Append(accepted, m),
         forgiven' = IF settings.dropPolicy = "old" THEN forgiven \cup Elems(drops)
                     ELSE forgiven,
         unsafe' = (unsafe \/ (drops # <<>> /\ o[q].drain = "running")),
         UNCHANGED <<told, mentioned>>
  PROVE  FQInv'
<1>1. /\ FQTypes /\ Accepted /\ Ordered /\ q \in Queues /\ o \in [Queues -> Objects]
      /\ o[q] \in Objects /\ o[q].settings = settings
      /\ accepted \in Seq(Messages) /\ recent = Elems(accepted)
  BY TargetFacts DEF FQInv, FQTypes, Accepted
<1>2. /\ \A p \in Queues :
           /\ InOrder(accepted, o[p]) /\ Capped(o[p])
           /\ o[p].drain # "running" => o[p].run = NoRun
           /\ \A i \in DOMAIN o[p].items :
                i \in DOMAIN queue[p].items /\ o[p].items[i] = queue[p].items[i]
           /\ \A x \in Messages :
                x \in Elems(o[p].items) \cup Elems(o[p].run.texts) => Holds(p, x)
      /\ o[q].items # <<>> /\ callback => o[q].drain # "idle"
      /\ \A p \in Queues : p # q /\ Sole => o[p].drain = "idle" /\ ~HasWork(o[p])
      /\ Safe => \A p \in Queues : Exact(o[p])
      /\ Safe => \A p \in Queues, x \in Messages :
           x \in Elems(queue[p].items) \cup queue[p].dropped
             => x \in Elems(o[p].items) \cup o[p].dropped
  BY TargetKeeps
<1>3. /\ n \in Nat /\ n <= Len(o[q].items) /\ o[q].items \in Seq(Messages)
      /\ o[q].dropped \in SUBSET Messages /\ o[q].run.texts \in Seq(Messages)
  <2>1. o[q].run \in Runs
    BY <1>1 DEF Objects
  <2> QED BY <1>1, <2>1, DropCountFacts DEF Objects, Runs
<1>4. /\ DropFirst(o[q].items, n) \in Seq(Messages)
      /\ Elems(o[q].items) \subseteq Elems(drops) \cup Elems(DropFirst(o[q].items, n))
      /\ Elems(drops) \subseteq Elems(o[q].items)
      /\ drops = <<>> <=> n = 0
      /\ Elems(o[q].items) \subseteq Messages
  <2> DEFINE t == o[q].items
  <2>1. t \in Seq(Messages) /\ n \in Nat /\ n <= Len(t) /\ drops = SubSeq(t, 1, n)
    BY <1>3
  <2> HIDE DEF t
  <2>2. DropFirst(t, n) \in Seq(Messages)
    BY <2>1, DropFirstFacts
  <2>3. /\ Elems(t) \subseteq Elems(drops) \cup Elems(DropFirst(t, n))
        /\ Elems(drops) \subseteq Elems(t)
        /\ drops = <<>> <=> n = 0
    BY <2>1, DropsFacts
  <2>4. Elems(t) \subseteq Messages
    BY <2>1, SeqFacts DEF Elems
  <2> QED BY <2>2, <2>3, <2>4 DEF t
<1> DEFINE items == Pushed(DropFirst(o[q].items, n), m)
           dropped == IF settings.dropPolicy = "summarize" THEN o[q].dropped \cup Elems(drops)
                      ELSE o[q].dropped
           e == Received(o, q, m, settings, n, drops)
           u == queue'[q]
<1>5. items \in Seq(Messages)
  BY <1>4, AppendFacts DEF Pushed
<1>6. dropped \in SUBSET Messages
  BY <1>3, <1>4
<1>7. Kick(e)
  OBVIOUS
<1>8. /\ e[q] = [o[q] EXCEPT !.items = items, !.dropped = dropped]
      /\ \A p \in Queues : p # q => e[p] = o[p]
      /\ e = [p \in Queues |-> e[p]]
  BY <1>1 DEF Received
<1> HIDE DEF items, dropped, e, u
<1>9. /\ e \in [Queues -> Objects] /\ e[q].items = items /\ e[q].dropped = dropped
      /\ e[q].run = o[q].run /\ e[q].drain = o[q].drain
  <2>1. /\ e[q] \in Objects /\ e[q].items = items /\ e[q].dropped = dropped
        /\ e[q].run = o[q].run /\ e[q].drain = o[q].drain
    BY <1>1, <1>5, <1>6, <1>8 DEF Objects
  <2> QED BY <1>1, <1>8, <2>1
<1>10. /\ queue' \in [Queues -> Objects] /\ SameContent(e) /\ callback' = callback
       /\ \A p \in Queues : p # q => queue'[p] = e[p]
       /\ queue'[q].run = e[q].run
       /\ queue'[q].drain = e[q].drain \/ (e[q].drain = "idle" /\ queue'[q].drain = "debounce")
       /\ callback => queue'[q].drain # "idle"
  BY <1>1, <1>7, <1>9, KickFacts
<1>11. /\ u \in Objects /\ u.items = items /\ u.dropped = dropped /\ u.run = o[q].run
       /\ u.drain = o[q].drain \/ (o[q].drain = "idle" /\ u.drain = "debounce")
       /\ \A p \in Queues : p # q => queue'[p] = o[p]
  <2>1. \A p \in Queues : p # q => queue'[p] = o[p]
    BY <1>8, <1>10
  <2>2. u \in Objects /\ u.items = e[q].items /\ u.dropped = e[q].dropped
    BY <1>1, <1>10 DEF u, SameContent
  <2>3. /\ u.run = e[q].run
        /\ u.drain = e[q].drain \/ (e[q].drain = "idle" /\ u.drain = "debounce")
    BY <1>10 DEF u
  <2> QED BY <1>9, <2>1, <2>2, <2>3
<1>12. /\ \A x \in Messages : x \in Elems(o[q].items) \cup Elems(o[q].run.texts)
                                => x \in Elems(accepted)
       /\ Elems(o[q].run.texts) \subseteq Messages
  <2>1. Elems(o[q].run.texts) \subseteq Messages
    BY <1>3, SeqFacts DEF Elems
  <2> QED BY <1>1, <1>2, <2>1 DEF Accepted
<1>13. /\ InOrder(Append(accepted, m), u) /\ Capped(u) /\ u.items # <<>>
       /\ Elems(u.items) = Elems(DropFirst(o[q].items, n)) \cup {m}
       /\ \A i \in DOMAIN u.items :
            u.items[i] = m \/ \E j \in DOMAIN o[q].items : u.items[i] = o[q].items[j]
       /\ Exact(o[q]) /\ n = 0 /\ u.dropped = o[q].dropped => Exact(u)
  <2>1. u.items = Pushed(DropFirst(o[q].items, n), m)
    BY <1>11 DEF items
  <2>2. Elems(o[q].items) \subseteq Elems(accepted) /\ Elems(o[q].run.texts) \subseteq Elems(accepted)
    BY <1>4, <1>12
  <2>3. InOrder(accepted, o[q]) /\ m \notin Elems(accepted)
    BY <1>1, <1>2
  <2> DEFINE g == o[q]
             s == accepted
  <2>4. PushedOnto(u, g, s, m, n)
    BY <1>1, <1>3, <1>11, <2>1, <2>2, <2>3 DEF PushedOnto
  <2> HIDE DEF g, s
  <2>5. /\ InOrder(Append(s, m), u) /\ Capped(u) /\ u.items # <<>>
        /\ Elems(u.items) = Elems(DropFirst(g.items, n)) \cup {m}
        /\ \A i \in DOMAIN u.items :
             u.items[i] = m \/ \E j \in DOMAIN g.items : u.items[i] = g.items[j]
        /\ Exact(g) /\ n = 0 /\ u.dropped = g.dropped => Exact(u)
    BY ONLY <2>4, PushedObject
  <2> QED BY <2>5 DEF g, s
<1>14. /\ accepted' \in Seq(Messages) /\ Elems(accepted') = Elems(accepted) \cup {m}
       /\ DOMAIN accepted' = 1..(Len(accepted) + 1)
       /\ \A i \in DOMAIN accepted : accepted'[i] = accepted[i]
       /\ accepted'[Len(accepted) + 1] = m
       /\ \A i \in DOMAIN accepted' : i \in DOMAIN accepted \/ i = Len(accepted) + 1
       /\ Len(accepted) \in Nat
  BY <1>1, AppendFacts, SeqFacts
<1>15. FQTypes'
  BY <1>1, <1>10, <1>14 DEF FQTypes
<1>16. ASSUME NEW p \in Queues, NEW x \in Messages, Holds(p, x)'
       PROVE  Holds(p, x) \/ (p = q /\ x = m)
  <2>1. CASE p # q
    BY <1>2, <1>11, <1>16, <2>1 DEF Holds
  <2>2. CASE p = q
    <3>1. Elems(u.items) \subseteq Elems(o[q].items) \cup {m}
      BY <1>13 DEF Elems
    <3>2. x \in Elems(u.items) \cup Elems(u.run.texts)
      BY <1>16, <2>2 DEF Holds, u
    <3>3. x \in Elems(o[q].items) \cup Elems(o[q].run.texts) \/ x = m
      BY <1>11, <3>1, <3>2
    <3> QED BY <1>1, <1>2, <2>2, <3>3
  <2> QED BY <2>1, <2>2
<1>17. \A p \in Queues : ~Holds(p, m)
  BY <1>1 DEF Accepted
<1>18. Accepted'
  <2>1. Distinct(accepted')
    <3>1. \A i \in DOMAIN accepted : accepted[i] # m
      BY <1>1 DEF Elems
    <3>2. Distinct(accepted)
      BY <1>1 DEF Accepted
    <3> QED BY <1>14, <3>1, <3>2 DEF Distinct
  <2>2. recent' = Elems(accepted') /\ m \notin Elems(told) /\ Elems(told) \subseteq recent'
    BY <1>1, <1>14 DEF Accepted
  <2>3. \A p \in Queues, x \in Messages :
          Holds(p, x)' => /\ x \in recent' \ Elems(told)
                          /\ \A r \in Queues : Holds(r, x)' => r = p
    <3> SUFFICES ASSUME NEW p \in Queues, NEW x \in Messages, Holds(p, x)'
                 PROVE  /\ x \in recent' \ Elems(told)
                        /\ \A r \in Queues : Holds(r, x)' => r = p
      OBVIOUS
    <3>1. CASE x = m
      BY <1>16, <1>17, <2>2, <3>1
    <3>2. CASE x # m
      BY <1>1, <1>16, <3>2 DEF Accepted
    <3> QED BY <3>1, <3>2
  <2> QED BY <1>1, <2>1, <2>2, <2>3 DEF Accepted
<1>19. \A p \in Queues : InOrder(accepted', o[p])
  BY <1>1, <1>2, BeforeAppend
<1>20. Ordered'
  <2> SUFFICES ASSUME NEW p \in Queues
               PROVE  /\ InOrder(accepted', queue'[p]) /\ Capped(queue'[p]) /\ Woken(p)'
                      /\ queue'[p].drain # "running" => queue'[p].run = NoRun
    BY DEF Ordered
  <2>1. CASE p # q
    BY <1>2, <1>11, <1>19, <2>1 DEF Woken
  <2>2. CASE p = q
    <3>1. InOrder(accepted', u) /\ Capped(u)
      BY <1>13
    <3>2. u.drain # "running" => u.run = NoRun
      BY <1>1, <1>2, <1>11
    <3>3. Woken(q)'
      BY <1>10 DEF Woken, Draining
    <3> QED BY <2>2, <3>1, <3>2, <3>3 DEF u
  <2> QED BY <2>1, <2>2
<1>21. ASSUME ~unsafe' PROVE Safe'
  <2>1. Safe /\ (drops = <<>> \/ o[q].drain # "running")
    BY <1>21 DEF FQInv
  <2>2. Sole'
    <3>1. \A p \in Queues : p # q => o[p].drain = "idle" /\ ~HasWork(o[p])
      BY <1>2, <2>1 DEF Safe
    <3> QED BY <1>11, <3>1 DEF Sole, Draining
  <2>3. ASSUME NEW p \in Queues PROVE Exact(queue'[p])
    <3>1. CASE p # q
      BY <1>2, <1>11, <2>1, <3>1
    <3>2. CASE p = q /\ drops = <<>>
      <4>1. n = 0 /\ Elems(drops) = {}
        BY <1>4, <3>2 DEF Elems
      <4>2. u.dropped = o[q].dropped
        BY <1>11, <4>1 DEF dropped
      <4> QED BY <1>1, <1>2, <1>13, <2>1, <3>2, <4>1, <4>2 DEF u
    <3>3. CASE p = q /\ o[q].drain # "running"
      <4>1. u.run = NoRun
        BY <1>1, <1>2, <1>11, <3>3
      <4>2. Len(u.items) \in Nat
        BY <1>11, SeqFacts DEF Objects
      <4>3. Exact(u)
        BY <4>1, <4>2, NoRunIsARun DEF Exact
      <4> QED BY <3>3, <4>3 DEF u
    <3> QED BY <2>1, <3>1, <3>2, <3>3
  <2>4. ASSUME NEW x \in Elems(accepted') PROVE Settled(x)'
    <3>1. CASE x = m
      BY <1>1, <1>13, <3>1 DEF Settled, u
    <3>2. CASE x # m
      <4>1. Settled(x) /\ x \in Messages
        BY <1>1, <1>14, <2>1, <3>2, SeqFacts DEF Safe, Elems
      <4>2. \/ x \in Elems(told) \cup mentioned \cup forgiven
            \/ \E p \in Queues : x \in Elems(o[p].items) \cup o[p].dropped
        BY <1>2, <2>1, <4>1 DEF Settled
      <4>3. CASE x \in Elems(told) \cup mentioned \cup forgiven
        BY <4>3 DEF Settled
      <4>4. ASSUME NEW p \in Queues, p # q, x \in Elems(o[p].items) \cup o[p].dropped
            PROVE  Settled(x)'
        BY <1>11, <4>4 DEF Settled
      <4>5. CASE x \in Elems(o[q].items) \cup o[q].dropped
        <5>1. \/ x \in Elems(u.items) \cup u.dropped
              \/ x \in Elems(drops) /\ settings.dropPolicy = "old"
          <6>1. settings.dropPolicy \in {"old", "new", "summarize"}
            BY FollowupAssumption
          <6>2. n = 0 => Elems(drops) = {}
            BY <1>4 DEF Elems
          <6>3. Elems(drops) # {} => settings.dropPolicy \in {"old", "summarize"}
            BY <6>1, <6>2
          <6>4. u.dropped = dropped /\ o[q].dropped \subseteq dropped
            BY <1>11 DEF dropped
          <6>5. settings.dropPolicy = "summarize" => Elems(drops) \subseteq dropped
            BY DEF dropped
          <6>6. CASE x \in o[q].dropped
            BY <6>4, <6>6
          <6>7. CASE x \in Elems(DropFirst(o[q].items, n))
            BY <1>13, <6>7
          <6>8. CASE x \in Elems(drops)
            BY <6>3, <6>4, <6>5, <6>8
          <6> QED BY <1>4, <4>5, <6>6, <6>7, <6>8
        <5> QED BY <1>1, <5>1 DEF Settled, u
      <4> QED BY <1>1, <4>2, <4>3, <4>4, <4>5
    <3> QED BY <3>1, <3>2
  <2>5. ToldInOrder'
    <3>1. \A x, y : Before(accepted, x, y) => Before(accepted', x, y)
      BY <1>1, BeforeAppend
    <3>2. ToldInOrder
      BY <2>1 DEF Safe
    <3>3. \A i \in DOMAIN told : Before(accepted', told[i], m)
      <4>1. \A i \in DOMAIN told : told[i] \in Elems(accepted)
        BY <1>1 DEF Accepted, Elems
      <4> QED BY <1>1, <4>1, BeforeAppend
    <3>4. ASSUME NEW i \in DOMAIN told, NEW p \in Queues, NEW j \in DOMAIN queue'[p].items
          PROVE  Before(accepted', told[i], queue'[p].items[j])
      <4>1. CASE p # q
        BY <1>2, <1>11, <3>1, <3>2, <3>4, <4>1 DEF ToldInOrder
      <4>2. CASE p = q
        <5>1. j \in DOMAIN u.items /\ queue'[p].items[j] = u.items[j]
          BY <3>4, <4>2 DEF u
        <5>2. u.items[j] = m \/ \E k \in DOMAIN queue[q].items : u.items[j] = queue[q].items[k]
          BY <1>1, <1>2, <1>13, <5>1
        <5> QED BY <1>1, <3>1, <3>2, <3>3, <5>1, <5>2 DEF ToldInOrder
      <4> QED BY <4>1, <4>2
    <3> QED BY <3>1, <3>2, <3>4 DEF ToldInOrder
  <2> QED BY <2>2, <2>3, <2>4, <2>5 DEF Safe
<1> QED BY <1>15, <1>18, <1>20, <1>21 DEF FQInv

LEMMA EnqueueKeeps ==
  ASSUME FQInv, NEW m \in Messages, NEW settings \in Settings, Enqueue(m, settings)
  PROVE  FQInv'
<1> DEFINE o == WithTarget(settings)
           q == Target
           n == DropCount(o[q])
           drops == SubSeq(o[q].items, 1, n)
           kept == SubSeq(o[q].items, n + 1, Len(o[q].items))
<1>1. /\ registered # None \/ \E p \in Queues : ~Draining(p)
      /\ arriving' = arriving \ {m} /\ registered' = q
      /\ UNCHANGED <<clears, failures, redeliveries>>
  BY DEF Enqueue
<1>2. arriving' \subseteq Messages
  BY <1>1 DEF FQInv, FQTypes
<1>3. CASE queue' = o /\ UNCHANGED <<callback, recent, history, unsafe>>
  BY <1>1, <1>2, <1>3, RefuseKeeps DEF history
<1>4. ASSUME /\ ~Duplicate(m, o[q])
             /\ n = 0 \/ settings.dropPolicy # "new"
             /\ Kick([o EXCEPT ![q].items = Pushed(kept, m),
                               ![q].dropped = IF settings.dropPolicy = "summarize"
                                              THEN @ \cup Elems(drops) ELSE @])
             /\ recent' = recent \cup {m} /\ accepted' = Append(accepted, m)
             /\ forgiven' = IF settings.dropPolicy = "old" THEN forgiven \cup Elems(drops)
                            ELSE forgiven
             /\ unsafe' = (unsafe \/ (drops # <<>> /\ o[q].drain = "running"))
             /\ UNCHANGED <<told, mentioned>>
      PROVE  FQInv'
  <2>1. kept = DropFirst(o[q].items, n)
    BY DEF DropFirst
  <2>2. m \notin recent
    BY <1>4 DEF Duplicate
  <2> HIDE DEF n, kept, drops, o, q
  <2>3. Kick(Received(o, q, m, settings, n, drops))
    BY <1>4, <2>1 DEF Received
  <2> DEFINE dropped == IF settings.dropPolicy = "old" THEN forgiven \cup Elems(drops)
                        ELSE forgiven
             hurt == unsafe \/ (drops # <<>> /\ o[q].drain = "running")
  <2>4. /\ FQInv /\ m \in Messages /\ settings \in Settings
        /\ registered # None \/ \E p \in Queues : ~Draining(p)
        /\ arriving' \subseteq Messages /\ UNCHANGED <<clears, failures, redeliveries>>
        /\ registered' = Target
        /\ o = WithTarget(settings) /\ q = Target /\ n = DropCount(o[q])
        /\ drops = SubSeq(o[q].items, 1, n)
        /\ m \notin recent
        /\ n = 0 \/ settings.dropPolicy # "new"
        /\ Kick(Received(o, q, m, settings, n, drops))
        /\ recent' = recent \cup {m} /\ accepted' = Append(accepted, m)
        /\ forgiven' = dropped /\ unsafe' = hurt /\ UNCHANGED <<told, mentioned>>
    BY <1>1, <1>2, <1>4, <2>2, <2>3 DEF o, q, n, drops
  <2> QED BY ONLY <2>4, AcceptKeeps
<1> QED BY <1>3, <1>4 DEF Enqueue

LEMMA FQInvInit == FQInit => FQInv
<1> SUFFICES ASSUME FQInit PROVE FQInv
  OBVIOUS
<1> DEFINE start == CHOOSE s \in Settings : TRUE
<1>1. start \in Settings
  BY FollowupAssumption
<1> HIDE DEF start
<1>2. Created(start) \in Objects
  <2>1. <<>> \in Seq(Messages)
    OBVIOUS
  <2> QED BY <1>1, <2>1, NoRunIsARun DEF Created, Objects
<1>3. /\ registered = None /\ callback = FALSE /\ recent = {} /\ arriving = {}
      /\ clears = 0 /\ failures = 0 /\ redeliveries = 0
      /\ accepted = <<>> /\ told = <<>>
      /\ queue = [q \in Queues |-> Created(start)]
  BY DEF FQInit, start
<1>4. /\ Elems(<<>>) = {} /\ DOMAIN <<>> = {}
      /\ <<>> \in Seq(Messages) /\ Len(<<>>) = 0
  BY DEF Elems
<1>5. FQTypes
  <2>1. queue \in [Queues -> Objects]
    BY <1>2, <1>3
  <2>2. {clears, failures, redeliveries} \subseteq Nat
    <3>1. {clears, failures, redeliveries} = {0}
      BY <1>3
    <3> QED BY <3>1
  <2>3. callback \in BOOLEAN
    BY <1>3
  <2> QED BY <1>3, <1>4, <2>1, <2>2, <2>3 DEF FQTypes
<1>6. \A q \in Queues : /\ queue[q].items = <<>> /\ queue[q].dropped = {}
                        /\ queue[q].drain = "idle" /\ queue[q].run = NoRun
  BY <1>3 DEF Created
<1>7. NoRun.texts = <<>> /\ NoRun.takes = 0 /\ NoRun.summary = {}
  BY DEF NoRun
<1>8. Accepted
  BY <1>3, <1>4, <1>6, <1>7 DEF Accepted, Distinct, Holds
<1>9. Ordered
  <2>1. \A q \in Queues : InOrder(accepted, queue[q])
    BY <1>4, <1>6, <1>7 DEF InOrder, Distinct
  <2>2. \A q \in Queues : Capped(queue[q])
    BY <1>1, <1>4, <1>6, FollowupAssumption DEF Capped
  <2> QED BY <1>6, <2>1, <2>2 DEF Ordered, Woken
<1>10. Safe
  <2>1. Sole
    BY <1>6 DEF Sole, Draining, HasWork
  <2>2. \A q \in Queues : Exact(queue[q])
    BY <1>4, <1>6, <1>7 DEF Exact
  <2> QED BY <1>3, <1>4, <2>1, <2>2 DEF Safe, ToldInOrder
<1> QED BY <1>5, <1>8, <1>9, <1>10 DEF FQInv

LEMMA FQInvStep == FQInv /\ [FQNext]_fqVars => FQInv'
<1> SUFFICES ASSUME FQInv, [FQNext]_fqVars PROVE FQInv'
  OBVIOUS
<1> USE DEF history
<1>1. arriving \subseteq Messages /\ redeliveries \in Nat
  BY DEF FQInv, FQTypes
<1>2. CASE UNCHANGED fqVars
  BY <1>1, <1>2, OutsideKeeps DEF fqVars
<1>3. CASE TurnStarts
  BY <1>1, <1>3, OutsideKeeps DEF TurnStarts
<1>4. CASE TurnEnds
  BY <1>4, TurnEndsKeeps
<1>5. ASSUME NEW m \in Messages, Arrive(m) PROVE FQInv'
  <2>1. arriving' \subseteq Messages /\ redeliveries' \in Nat
    BY <1>1, <1>5 DEF Arrive
  <2> QED BY <1>5, <2>1, OutsideKeeps DEF Arrive
<1>6. ASSUME NEW m \in Messages, NEW s \in Settings, Enqueue(m, s) PROVE FQInv'
  BY <1>6, EnqueueKeeps
<1>7. CASE ClearSessionQueues
  BY <1>7, ClearKeeps, ClearNothingKeeps
<1>8. ASSUME NEW q \in Queues, DrainStep(q) \/ RunResolves(q) \/ RunThrows(q)
      PROVE  FQInv'
  BY <1>8, DrainStepKeeps, RunResolvesKeeps, RunThrowsKeeps
<1> QED BY <1>2, <1>3, <1>4, <1>5, <1>6, <1>7, <1>8 DEF FQNext

\* The invariant of the queue.  Each accepted message is held by one object, as an item or
\* as what its run was given, and by none once it was told; items wait in the order of
\* acceptance.  Until a clear meets a drain, an overflow a run, or a summary takes an item's
\* place, only the registered object works, and a run takes what it was given.
THEOREM QueuesKeepTheirMessages == FQSpec => []FQInv
<1>1. FQInit => FQInv
  BY FQInvInit
<1>2. FQInv /\ [FQNext]_fqVars => FQInv'
  BY FQInvStep
<1> QED BY <1>1, <1>2, PTL DEF FQSpec

-----------------------------------------------------------------------------
(* What the runs check. *)

\* Every variable keeps its type, and no object outgrows the largest cap
\* (applyQueueDropPolicy).
THEOREM FQTypeCorrect == FQSpec => []FQTypeOK
<1>1. FQInv => FQTypeOK
  <2> SUFFICES ASSUME FQInv PROVE FQTypeOK
    OBVIOUS
  <2>1. FQTypes /\ Ordered /\ \A q \in Queues : queue[q] \in Objects
    BY DEF FQInv, FQTypes
  <2>2. \A q \in Queues : /\ queue[q].items \in Seq(Messages)
                          /\ queue[q].dropped \subseteq Messages
                          /\ queue[q].settings \in Settings
                          /\ queue[q].drain \in {"idle", "debounce", "running"}
    BY <2>1 DEF Objects
  <2> QED BY <2>1, <2>2 DEF FQTypeOK, FQTypes, Ordered, Capped
<1> QED BY <1>1, QueuesKeepTheirMessages, PTL

\* No lost wake-up: an object of the registry whose items nobody drains has no callback to
\* be drained with, and the end of the active turn drains it (kickFollowupDrainIfIdle).
THEOREM NoWakeUpIsLost == FQSpec => []IdleQueueHasNoCallback
<1>1. FQInv => IdleQueueHasNoCallback
  BY NoneIsNoQueue DEF FQInv, FQTypes, Ordered, Woken, IdleQueueHasNoCallback
<1> QED BY <1>1, QueuesKeepTheirMessages, PTL

\* Over redeliveries, retries, drops and clears, no message's text is given to two runs that
\* finish (isRunAlreadyQueued and the ids of recent messages, items.shift after the run).
THEOREM TextsAreToldOnce == FQSpec => []ToldOnce
<1>1. FQInv => ToldOnce
  BY DEF FQInv, Accepted, Distinct, ToldOnce
<1> QED BY <1>1, QueuesKeepTheirMessages, PTL

\* Every accepted message was told, mentioned as dropped, given up on purpose, or waits
\* where a drain finds it, unless one of the three interferences happened.
THEOREM AcceptedIsConserved == FQSpec => []Conservation
<1>1. FQInv => Conservation
  <2> SUFFICES ASSUME FQInv, ~unsafe, NEW m \in Elems(accepted)
               PROVE  m \in Elems(told) \cup mentioned \cup forgiven \/ Waits(m)
    BY DEF Conservation, EveryAcceptedMessageReachesTheAgent
  <2>1. Safe /\ Settled(m)
    BY DEF FQInv, Safe
  <2>2. ASSUME NEW q \in Queues, m \in Elems(queue[q].items) \cup queue[q].dropped
        PROVE  Waits(m)
    <3>1. HasWork(queue[q])
      BY <2>2 DEF HasWork, Elems
    <3>2. q = registered
      BY <2>1, <3>1 DEF Safe, Sole
    <3> QED BY <2>2, <3>2 DEF Waits, Live
  <2> QED BY <2>1, <2>2 DEF Settled
<1> QED BY <1>1, QueuesKeepTheirMessages, PTL

\* Messages are told in the order in which they were accepted, unless one of the three
\* interferences happened (the drain takes from the front of items, enqueues push).
THEOREM TextsKeepTheirOrder == FQSpec => []TellsInOrder
<1>1. FQInv => TellsInOrder
  <2> DEFINE place(m) == CHOOSE i \in DOMAIN accepted : accepted[i] = m
  <2> SUFFICES ASSUME FQInv, ~unsafe, NEW i \in DOMAIN told, NEW j \in DOMAIN told, i < j
               PROVE  place(told[i]) < place(told[j])
    BY DEF TellsInOrder
  <2>1. Distinct(accepted) /\ Before(accepted, told[i], told[j])
    BY DEF FQInv, Accepted, Safe, ToldInOrder
  <2>2. PICK a \in DOMAIN accepted, b \in DOMAIN accepted :
               a < b /\ accepted[a] = told[i] /\ accepted[b] = told[j]
    BY <2>1 DEF Before
  <2>3. place(told[i]) = a /\ place(told[j]) = b
    BY <2>1, <2>2 DEF Distinct
  <2> QED BY <2>2, <2>3
<1> QED BY <1>1, QueuesKeepTheirMessages, PTL
=============================================================================
