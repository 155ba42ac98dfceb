---------------------------- MODULE FollowupQueue ----------------------------
(***************************************************************************)
(* The followup queue of one session key (auto-reply/reply/queue): the     *)
(* messages that arrive while an agent run is active wait in a queue       *)
(* object, which a drain hands to followup runs, one by one or collected   *)
(* into one prompt, with drops and a summary when the queue is full.       *)
(*                                                                         *)
(* The registry maps the key to the object that takes new messages.  A     *)
(* drain keeps a reference to its own object across its awaits (the        *)
(* debounce, the followup run), during which enqueues, overflows and       *)
(* clears change the object or the registry under it.                      *)
(***************************************************************************)
EXTENDS Naturals, Sequences, FiniteSets

CONSTANTS
    Messages,         \* inbound messages; each has a provider message id
    RouteOf,          \* where the reply to a message goes, "unroutable" if nowhere
    Settings,         \* [mode, cap, dropPolicy] that enqueues carry
    MaxQueues,        \* BOUND: queue objects at a time
    MaxClears,        \* BOUND: aborts and resets that clear the session's queues
    MaxFailures,      \* BOUND: followup runs that throw
    MaxRedeliveries   \* BOUND: messages the provider delivers again

ASSUME FollowupAssumption ==
    /\ IsFiniteSet(Messages)
    /\ Settings # {}
    /\ Settings \subseteq [mode : {"followup", "collect"}, cap : Nat \ {0},
                           dropPolicy : {"old", "new", "summarize"}]
    /\ {MaxQueues, MaxClears, MaxFailures, MaxRedeliveries} \subseteq Nat

Queues == 1..MaxQueues
None == 0
NoRun == [texts |-> <<>>, summary |-> {}, takes |-> 0]

VARIABLES
    registered,    \* the object FOLLOWUP_QUEUES holds for the key, or None
    queue,         \* queue[q]: the object's fields and where its drain is
    callback,      \* FOLLOWUP_RUN_CALLBACKS has an entry for the key
    turnActive,    \* an agent turn that is not a followup runs for the session
    arriving,      \* messages that saw an active run and have yet to enqueue
    recent,        \* RECENT_QUEUE_MESSAGE_IDS
    clears, failures, redeliveries,  \* counters of the bounds
    accepted,      \* HISTORY: accepted messages in order
    told,          \* HISTORY: messages whose text a finished run was given, in order
    mentioned,     \* HISTORY: messages a finished run was told of as dropped
    forgiven,      \* HISTORY: messages cleared, or dropped by policy "old"
    unsafe         \* HISTORY: see Conservation

fqVars == <<registered, queue, callback, turnActive, arriving, recent, clears,
            failures, redeliveries, accepted, told, mentioned, forgiven, unsafe>>
history == <<accepted, told, mentioned, forgiven>>

Elems(s) == {s[i] : i \in DOMAIN s}

Created(settings) ==
    [items |-> <<>>, dropped |-> {}, settings |-> settings, drain |-> "idle",
     forced |-> FALSE, run |-> NoRun]

FQInit ==
    /\ registered = None
    /\ queue = [q \in Queues |-> Created(CHOOSE s \in Settings : TRUE)]
    /\ callback = FALSE /\ turnActive = FALSE /\ unsafe = FALSE
    /\ arriving = {} /\ recent = {} /\ mentioned = {} /\ forgiven = {}
    /\ clears = 0 /\ failures = 0 /\ redeliveries = 0
    /\ accepted = <<>> /\ told = <<>>

\* Types, and no object holds more items than the largest cap.
FQTypeOK ==
    /\ registered \in Queues \cup {None}
    /\ \A q \in Queues :
         /\ queue[q].items \in Seq(Messages)
         /\ \E s \in Settings : Len(queue[q].items) <= s.cap
         /\ queue[q].dropped \subseteq Messages
         /\ queue[q].settings \in Settings
         /\ queue[q].drain \in {"idle", "debounce", "running"}
         /\ queue[q].drain # "running" => queue[q].run = NoRun
    /\ recent \subseteq Messages /\ arriving \subseteq Messages
    /\ {clears, failures, redeliveries} \subseteq Nat

HasWork(object) == object.items # <<>> \/ object.dropped # {}
Draining(q) == queue[q].drain # "idle"
ActiveRun == turnActive \/ \E q \in Queues : queue[q].drain = "running"

-----------------------------------------------------------------------------
(* Starting and ending drains. *)

\* scheduleFollowupDrain(key) when the objects are o: the drain of the registered
\* object starts unless it runs.  One without work ends at once.
ScheduleFollowupDrain(o) ==
    \/ /\ registered \notin {q \in Queues : o[q].drain = "idle"}
       /\ queue' = o
       /\ UNCHANGED <<registered, callback>>
    \/ /\ registered \in {q \in Queues : o[q].drain = "idle"}
       /\ callback' = TRUE
       /\ \/ /\ HasWork(o[registered])
             /\ queue' = [o EXCEPT ![registered].drain = "debounce",
                                   ![registered].forced = FALSE]
             /\ UNCHANGED registered
          \/ /\ ~HasWork(o[registered])
             /\ queue' = o
             /\ registered' = None

\* The end of the drain of q: the key's entry goes if q is empty, whichever
\* object it holds; otherwise the key's drain is scheduled again.
DrainEnds(o, q) ==
    LET rest == [o EXCEPT ![q].drain = "idle", ![q].run = NoRun]
    IN  \/ /\ ~HasWork(rest[q])
           /\ queue' = rest
           /\ registered' = None
           /\ UNCHANGED callback
        \/ /\ HasWork(rest[q])
           /\ ScheduleFollowupDrain(rest)

-----------------------------------------------------------------------------
(* Inbound messages. *)

\* A turn starts for a message that finds no active run, and drains when it ends.
TurnStarts ==
    /\ ~ActiveRun
    /\ turnActive' = TRUE
    /\ UNCHANGED <<registered, queue, callback, arriving, recent, clears, failures,
                   redeliveries, history, unsafe>>

TurnEnds ==
    /\ turnActive
    /\ turnActive' = FALSE
    /\ ScheduleFollowupDrain(queue)
    /\ UNCHANGED <<arriving, recent, clears, failures, redeliveries, history, unsafe>>

\* runReplyAgent reads isActive, and enqueues after further awaits.
Arrive(m) ==
    /\ ActiveRun
    /\ m \notin arriving
    /\ \/ /\ m \notin Elems(accepted)
          /\ UNCHANGED redeliveries
       \/ /\ m \in Elems(accepted)
          /\ redeliveries < MaxRedeliveries
          /\ redeliveries' = redeliveries + 1
    /\ arriving' = arriving \cup {m}
    /\ UNCHANGED <<registered, queue, callback, turnActive, recent, clears, failures,
                   history, unsafe>>

\* getFollowupQueue: the registered object with the new settings, or a new one.
Fresh == CHOOSE q \in Queues : ~Draining(q)

Target == IF registered = None THEN Fresh ELSE registered

WithTarget(settings) ==
    IF registered = None THEN [queue EXCEPT ![Target] = Created(settings)]
    ELSE [queue EXCEPT ![Target].settings = settings]

\* Mutant: redeliveries are only checked against what still waits.
AlreadyQueued(m, object) == m \in Elems(object.items)

Duplicate(m, object) == m \in recent \/ m \in Elems(object.items)

\* Mutant: a full queue takes one message more.
DropCountLate(object) ==
    IF Len(object.items) <= object.settings.cap THEN 0
    ELSE Len(object.items) - object.settings.cap

\* applyQueueDropPolicy: how many of the oldest items make room for a new one.
DropCount(object) ==
    IF Len(object.items) < object.settings.cap THEN 0
    ELSE Len(object.items) - object.settings.cap + 1

\* Mutant: a message that finds the queue idle is not drained.
NoKick(o) == queue' = o /\ UNCHANGED callback

\* kickFollowupDrainIfIdle, for the object that took the message.
Kick(o) ==
    \/ /\ callback /\ o[registered'].drain = "idle"
       /\ queue' = [o EXCEPT ![registered'].drain = "debounce",
                             ![registered'].forced = FALSE]
       /\ UNCHANGED callback
    \/ /\ ~(callback /\ o[registered'].drain = "idle")
       /\ queue' = o
       /\ UNCHANGED callback

\* Mutant: a new message goes first.
PushedFront(items, m) == <<m>> \o items

Pushed(items, m) == Append(items, m)

Enqueue(m, settings) ==
    /\ m \in arriving
    /\ registered # None \/ \E q \in Queues : ~Draining(q)
    /\ arriving' = arriving \ {m}
    /\ registered' = Target
    /\ LET o      == WithTarget(settings)
           object == o[Target]
           drops  == SubSeq(object.items, 1, DropCount(object))
           kept   == SubSeq(object.items, DropCount(object) + 1, Len(object.items))
           policy == settings.dropPolicy
       IN  \/ /\ \/ Duplicate(m, object)
                 \/ DropCount(object) > 0 /\ policy = "new"
              /\ queue' = o
              /\ UNCHANGED <<callback, recent, history, unsafe>>
           \/ /\ ~Duplicate(m, object)
              /\ DropCount(object) = 0 \/ policy # "new"
              /\ Kick([o EXCEPT ![Target].items = Pushed(kept, m),
                                ![Target].dropped =
                                   IF policy = "summarize" THEN @ \cup Elems(drops)
                                   ELSE @])
              /\ recent' = recent \cup {m}
              /\ accepted' = Append(accepted, m)
              /\ forgiven' = IF policy = "old" THEN forgiven \cup Elems(drops)
                             ELSE forgiven
              /\ unsafe' = (unsafe \/ (drops # <<>> /\ object.drain = "running"))
              /\ UNCHANGED <<told, mentioned>>
    /\ UNCHANGED <<turnActive, clears, failures, redeliveries>>

\* clearSessionQueues: an abort or a reset empties the object, takes it out of the
\* registry and forgets the callback, which may be all there is to forget.
ClearSessionQueues ==
    /\ clears < MaxClears
    /\ clears' = clears + 1
    /\ \/ /\ registered # None
          /\ queue' = [queue EXCEPT ![registered].items = <<>>,
                                    ![registered].dropped = {}]
          /\ forgiven' = forgiven \cup Elems(queue[registered].items)
                                  \cup queue[registered].dropped
       \/ /\ registered = None
          /\ UNCHANGED <<queue, forgiven>>
    /\ registered' = None
    /\ callback' = FALSE
    /\ unsafe' = (unsafe \/ \E q \in Queues : Draining(q))
    /\ UNCHANGED <<turnActive, arriving, recent, failures, redeliveries, accepted,
                   told, mentioned>>

-----------------------------------------------------------------------------
(* The drain. *)

\* hasCrossChannelItems
CrossChannel(items) ==
    LET routes == {RouteOf[m] : m \in Elems(items)}
    IN  "unroutable" \in routes \/ Cardinality(routes) > 1

Individually(object) == object.forced \/ CrossChannel(object.items)

HeadRun(object) == [texts |-> <<Head(object.items)>>, summary |-> {}, takes |-> 1]

\* What the next run of an object is given: all items and the summary when it
\* collects, the summary alone in the place of the oldest item when messages were
\* dropped, and otherwise the oldest item.
NextRun(object) ==
    LET summary == IF object.settings.dropPolicy = "summarize" THEN object.dropped
                   ELSE {}
    IN  IF object.settings.mode = "collect"
        THEN IF Individually(object) THEN HeadRun(object)
             ELSE [texts |-> object.items, summary |-> summary,
                   takes |-> Len(object.items)]
        ELSE IF summary # {} THEN [texts |-> <<>>, summary |-> summary, takes |-> 1]
        ELSE HeadRun(object)

\* The loop breaks when it has nothing to run.
NothingToRun(object) ==
    /\ object.items = <<>>
    /\ object.settings.mode = "followup" \/ object.dropped = {} \/ object.forced

\* After the debounce the drain takes its next step.
DrainStep(q) ==
    /\ queue[q].drain = "debounce"
    /\ \/ /\ NothingToRun(queue[q])
          /\ DrainEnds(queue, q)
          /\ UNCHANGED unsafe
       \/ /\ ~NothingToRun(queue[q])
          /\ queue' = [queue EXCEPT ![q].drain = "running",
                                    ![q].run = NextRun(queue[q]),
                                    ![q].forced =
                                       @ \/ /\ queue[q].settings.mode = "collect"
                                            /\ CrossChannel(queue[q].items)]
          /\ unsafe' = (unsafe \/ (/\ NextRun(queue[q]).texts = <<>>
                                  /\ NextRun(queue[q]).takes = 1))
          /\ UNCHANGED <<registered, callback>>
    /\ UNCHANGED <<turnActive, arriving, recent, clears, failures, redeliveries,
                   history>>

\* Mutant: what arrived during the run is taken with it.
DropAll(items, n) == <<>>

\* items.shift() and items.splice(0, n), of whatever the queue holds by then.
DropFirst(items, n) == SubSeq(items, n + 1, Len(items))

\* Mutant: the summary is not cleared when it was sent.
KeepSummary(dropped, sent) == dropped

\* clearQueueSummaryState, with what was dropped during the run.
ClearSummary(dropped, sent) == IF sent # {} THEN {} ELSE dropped

\* The followup run resolves.
RunResolves(q) ==
    /\ queue[q].drain = "running"
    /\ LET run  == queue[q].run
           rest == [queue EXCEPT ![q].items = DropFirst(@, run.takes),
                                 ![q].dropped = ClearSummary(@, run.summary),
                                 ![q].run = NoRun]
       IN  /\ told' = told \o run.texts
           /\ mentioned' = mentioned \cup run.summary
           /\ \/ /\ HasWork(rest[q])
                 /\ queue' = [rest EXCEPT ![q].drain = "debounce"]
                 /\ UNCHANGED <<registered, callback>>
              \/ /\ ~HasWork(rest[q])
                 /\ DrainEnds(rest, q)
    /\ UNCHANGED <<turnActive, arriving, recent, clears, failures, redeliveries,
                   accepted, forgiven, unsafe>>

\* The followup run throws: nothing is taken, and the drain is scheduled again.
RunThrows(q) ==
    /\ queue[q].drain = "running"
    /\ failures < MaxFailures
    /\ failures' = failures + 1
    /\ DrainEnds(queue, q)
    /\ UNCHANGED <<turnActive, arriving, recent, clears, redeliveries, history, unsafe>>

FQNext ==
    \/ TurnStarts
    \/ TurnEnds
    \/ \E m \in Messages : Arrive(m)
    \/ \E m \in Messages, s \in Settings : Enqueue(m, s)
    \/ ClearSessionQueues
    \/ \E q \in Queues : DrainStep(q) \/ RunResolves(q) \/ RunThrows(q)

FQSpec == FQInit /\ [][FQNext]_fqVars

\* Debounce timers fire and followup runs settle (each run has a timeout).
FQFairness == \A q \in Queues : WF_fqVars(DrainStep(q) \/ RunResolves(q))

FairFQSpec == FQSpec /\ FQFairness

-----------------------------------------------------------------------------
(* Properties. *)

\* No lost wake-up: the registered object is drained, or is left idle only while
\* no drain of the key has ever run since the last clear (enqueueFollowupRun's
\* kick, scheduleFollowupDrain).  Then the end of an agent turn drains it.
IdleQueueHasNoCallback ==
    registered # None /\ queue[registered].items # <<>> /\ ~Draining(registered)
      => ~callback

\* A message's text is given to at most one run that finishes, whatever is
\* redelivered, retried, dropped or cleared meanwhile.
ToldOnce == \A i, j \in DOMAIN told : told[i] = told[j] => i = j

\* An accepted message is given to the agent, is mentioned to it as dropped, was
\* dropped without a summary or cleared on purpose, or still waits in an object
\* that a drain or the registry holds.
Live(q) == q = registered \/ Draining(q)
Waits(m) == \E q \in Queues : Live(q) /\ m \in Elems(queue[q].items) \cup queue[q].dropped
EveryAcceptedMessageReachesTheAgent ==
    \A m \in Elems(accepted) : m \in Elems(told) \cup mentioned \cup forgiven \/ Waits(m)

\* The same, unless an overflow hit a queue whose followup run was in flight, a
\* summary prompt took the place of an item, or a clear met a drain in progress.
Conservation == ~unsafe => EveryAcceptedMessageReachesTheAgent

\* Unless a clear or such an overflow interfered, messages reach the agent in the
\* order in which they were accepted, over retries, mode changes and successive
\* queue objects.
TellsInOrder ==
    LET place(m) == CHOOSE i \in DOMAIN accepted : accepted[i] = m
    IN  ~unsafe => \A i, j \in DOMAIN told : i < j => place(told[i]) < place(told[j])

\* Every drain comes to an end, unless it comes to a state that only a new message
\* or a clear ends: dropped messages, no item, and settings under which no summary
\* is sent.  In mode "followup" the drain breaks off and restarts itself with
\* nothing to run; in mode "collect" it runs the agent on an empty prompt, again
\* and again, once the drop policy is no longer "summarize".
Spins(q) ==
    /\ queue[q].items = <<>> /\ queue[q].dropped # {}
    /\ \/ queue[q].settings.mode = "followup"
       \/ queue[q].settings.dropPolicy # "summarize"
DrainsSettle == \A q \in Queues : Draining(q) ~> (~Draining(q) \/ Spins(q))
=============================================================================
