--------------------------- MODULE NodeInvokeProofs ---------------------------
(***************************************************************************)
(* A decision stays what it was once it is made, so the caller is told it  *)
(* and a command that ran was allowed by it; an allow-once that let a call *)
(* through is consumed; and calls wait only while the node has a session.  *)
(***************************************************************************)
EXTENDS NodeInvoke, TLAPS

\* What the record of an approval says of its promise.
RecordMatchesPromise ==
  \A i \in Approvals :
    /\ record[i] \in {"none", "open"} <=> promise[i] = "open"
    /\ record[i] \in Decisions => promise[i] = record[i]
    /\ record[i] = "consumed" => promise[i] = "allow-once"
    /\ record[i] \in {"timed-out", "no-route"} => promise[i] = "null"

\* The caller is told once the promise has resolved, or that there are no clients.
ToldWhenSettled ==
  /\ RequesterToldDecision
  /\ \A i \in Approvals :
       /\ request[i] = "idle" => told[i] = "nothing"
       /\ request[i] # "idle" => record[i] # "none"
       /\ told[i] # "nothing" => promise[i] # "open"

\* An allow-once that a forwarded call used is consumed or gone.
OnceIsConsumed ==
  \A v \in forwarded :
    ApprovalOf[v] # NoApproval /\ promise[ApprovalOf[v]] = "allow-once" =>
       record[ApprovalOf[v]] \in {"consumed", "gone"}

\* Registered connections were opened, a call that is pending was sent.
Registered ==
  /\ byConn \subseteq 1..opened
  /\ CallsHaveASession

ApprovalInv == ApprovalTypeOK /\ RecordMatchesPromise /\ ToldWhenSettled

-----------------------------------------------------------------------------
(* The steps of approvals. *)

LEMMA ApprovalInitInv == ApprovalInit => ApprovalInv
BY DEF ApprovalInit, ApprovalInv, ApprovalTypeOK, RecordMatchesPromise, ToldWhenSettled,
       RequesterToldDecision, Decisions, Allowing, Settled

\* Settling an entry is the only step that resolves its promise.
LEMMA SettleStep ==
  ASSUME ApprovalInv, NEW i \in Approvals, NEW how \in Settled, NEW value,
         Settle(i, how, value), UNCHANGED <<past, hadClients, waiter>>,
         \/ how \in Decisions /\ value = how
         \/ how \in {"timed-out", "no-route"} /\ value = "null",
         \/ UNCHANGED <<request, told>>
         \/ /\ value = "null" /\ ~hadClients[i] /\ record[i] # "none"
            /\ request' = [request EXCEPT ![i] = "over"]
            /\ told' = [told EXCEPT ![i] = "null"]
  PROVE  ApprovalInv'
<1> USE DEF ApprovalInv, ApprovalTypeOK, Settled, Decisions, Allowing
<1>1. \A j \in Approvals : promise[j] # "open" => promise'[j] = promise[j]
  BY DEF Settle, RecordMatchesPromise
<1>2. ApprovalTypeOK'
  BY DEF Settle
<1>3. RecordMatchesPromise'
  BY DEF Settle, RecordMatchesPromise
<1>4. record[i] # "none" => promise'[i] # "open"
  BY DEF Settle, RecordMatchesPromise
<1>5. ToldWhenSettled'
  <2>0. \A j \in Approvals : record[j] # "none" => record'[j] # "none"
    BY DEF Settle
  <2>1. CASE UNCHANGED <<request, told>>
    BY <1>1, <2>0, <2>1 DEF ToldWhenSettled, RequesterToldDecision
  <2>2. CASE ~UNCHANGED <<request, told>>
    BY <1>1, <1>4, <2>0, <2>2 DEF ToldWhenSettled, RequesterToldDecision
  <2> QED
    BY <2>1, <2>2
<1> QED
  BY <1>2, <1>3, <1>5

\* Every step of the approvals' own preserves what is said of them.
LEMMA ApprovalStep == ASSUME ApprovalInv, ApprovalNext PROVE ApprovalInv'
<1> USE DEF ApprovalInv, ApprovalTypeOK, entry, callers
<1>1. ASSUME NEW i \in Approvals, Request(i) PROVE ApprovalInv'
  BY <1>1 DEF Request, RecordMatchesPromise, ToldWhenSettled, RequesterToldDecision,
              Settled, Decisions, Allowing
<1>2. ASSUME NEW i \in Approvals, NoRoute(i) PROVE ApprovalInv'
  <2>1. record[i] # "none"
    BY <1>2 DEF NoRoute, ToldWhenSettled
  <2> QED
    BY <1>2, <2>1, SettleStep DEF NoRoute, Settled
<1>3. ASSUME NEW i \in Approvals, Forwarded(i) PROVE ApprovalInv'
  BY <1>3 DEF Forwarded, RecordMatchesPromise, ToldWhenSettled, RequesterToldDecision
<1>4. ASSUME NEW i \in Approvals, RespondDecision(i) PROVE ApprovalInv'
  BY <1>4 DEF RespondDecision, Answer, RecordMatchesPromise, ToldWhenSettled,
              RequesterToldDecision, Settled, Decisions, Allowing
<1>5. ASSUME NEW i \in Approvals, WaitDecision(i) PROVE ApprovalInv'
  BY <1>5 DEF WaitDecision, RecordMatchesPromise, ToldWhenSettled, RequesterToldDecision
<1>6. ASSUME NEW i \in Approvals, RespondWait(i) PROVE ApprovalInv'
  BY <1>6 DEF RespondWait, RecordMatchesPromise, ToldWhenSettled, RequesterToldDecision
<1>7. ASSUME NEW i \in Approvals, Expire(i) PROVE ApprovalInv'
  BY <1>7, SettleStep DEF Expire, Settled
<1>8. ASSUME NEW i \in Approvals, Elapse(i) PROVE ApprovalInv'
  BY <1>8 DEF Elapse, RecordMatchesPromise, ToldWhenSettled, RequesterToldDecision
<1>9. ASSUME NEW i \in Approvals, Forget(i) PROVE ApprovalInv'
  BY <1>9 DEF Forget, RecordMatchesPromise, ToldWhenSettled, RequesterToldDecision,
              Settled, Decisions, Allowing
<1>10. ASSUME NEW i \in Approvals, NEW d \in Decisions, Resolve(i, d) PROVE ApprovalInv'
  BY <1>10, SettleStep DEF Resolve, Settled
<1> QED
  BY <1>1, <1>2, <1>3, <1>4, <1>5, <1>6, <1>7, <1>8, <1>9, <1>10
  DEF ApprovalNext, Calls, Timers

\* A settled entry stays settled, as it is or gone, and its promise stays what it is.
LEMMA SettledStays ==
  ASSUME ApprovalInv, ApprovalNext
  PROVE  \A i \in Approvals :
           /\ promise[i] # "open" => promise'[i] = promise[i]
           /\ record[i] \in {"consumed", "gone"} => record'[i] \in {"consumed", "gone"}
<1> USE DEF ApprovalInv, ApprovalTypeOK, RecordMatchesPromise, entry, callers, Settle
<1>1. ASSUME NEW i \in Approvals, Calls(i)
      PROVE  UNCHANGED <<record, promise>> \/ record[i] \in {"none", "open"}
  BY <1>1 DEF Calls, Request, NoRoute, Forwarded, RespondDecision, WaitDecision, RespondWait
<1>2. ASSUME NEW i \in Approvals, Calls(i)
      PROVE  \A j \in Approvals \ {i} : record'[j] = record[j] /\ promise'[j] = promise[j]
  BY <1>2 DEF Calls, Request, NoRoute, Forwarded, RespondDecision, WaitDecision, RespondWait
<1>3. ASSUME NEW i \in Approvals, Timers(i)
      PROVE  \A j \in Approvals :
                /\ promise[j] # "open" => promise'[j] = promise[j]
                /\ record[j] \in {"consumed", "gone"} => record'[j] \in {"consumed", "gone"}
  BY <1>3 DEF Timers, Expire, Elapse, Forget, Settled
<1>4. ASSUME NEW i \in Approvals, NEW d \in Decisions, Resolve(i, d)
      PROVE  \A j \in Approvals :
                /\ promise[j] # "open" => promise'[j] = promise[j]
                /\ record[j] \in {"consumed", "gone"} => record'[j] \in {"consumed", "gone"}
  BY <1>4 DEF Resolve
<1> QED
  BY <1>1, <1>2, <1>3, <1>4 DEF ApprovalNext

-----------------------------------------------------------------------------
(* The steps of calls. *)

InvokeInv == ApprovalInv /\ NodeTypeOK /\ Registered /\ OnceIsConsumed /\ RunsAreApproved

LEMMA InvokeInitInv == InvokeInit => InvokeInv
<1> SUFFICES ASSUME InvokeInit PROVE InvokeInv
  OBVIOUS
<1>1. ApprovalInv
  BY ApprovalInitInv DEF InvokeInit
<1> QED
  BY <1>1, InvokeAssumption DEF InvokeInit, ApprovalInv, InvokeInv, NodeTypeOK, Registered,
     OnceIsConsumed, RunsAreApproved, CallsHaveASession, Results, NoConn

\* Forwarding checks the record and consumes an allow-once, so that the call is the only
\* one that it let through.
LEMMA ForwardStep ==
  ASSUME InvokeInv, NEW v \in Invokes, Forward(v), node # NoConn,
         UNCHANGED <<promise, past, callers, registry>>
  PROVE  InvokeInv'
<1> DEFINE i == ApprovalOf[v]
<1> USE InvokeAssumption DEF InvokeInv, ApprovalInv, ApprovalTypeOK, NodeTypeOK, registry, callers
<1>1. i # NoApproval => i \in Approvals
  OBVIOUS
<1>2. CASE ~Allowed(v)
  <2>1. UNCHANGED <<record, pending, forwarded>> /\ invoke' = [invoke EXCEPT ![v] = "refused"]
    BY <1>2 DEF Forward, End
  <2> QED
    BY <2>1 DEF RecordMatchesPromise, ToldWhenSettled, RequesterToldDecision, Registered,
                CallsHaveASession, OnceIsConsumed, RunsAreApproved, Results
<1>3. CASE Allowed(v)
  <2>1. Consume(v)
    BY <1>3 DEF Forward
  <2>2. \/ UNCHANGED <<pending, forwarded>> /\ invoke' = [invoke EXCEPT ![v] = "unavailable"]
        \/ /\ pending' = pending \cup {v} /\ forwarded' = forwarded \cup {v}
           /\ invoke' = [invoke EXCEPT ![v] = "sent"]
    BY <1>3 DEF Forward, End
  <2>3. \/ record' = record /\ (i # NoApproval => record[i] # "allow-once")
        \/ /\ i # NoApproval /\ record[i] = "allow-once"
           /\ record' = [record EXCEPT ![i] = "consumed"]
    BY <2>1 DEF Consume
  <2>4. ApprovalTypeOK'
    BY <1>1, <2>3 DEF Settled, Decisions, Allowing
  <2>5. RecordMatchesPromise'
    BY <1>1, <2>3 DEF RecordMatchesPromise, Settled, Decisions, Allowing
  <2>6. ToldWhenSettled'
    BY <1>1, <2>3 DEF ToldWhenSettled, RequesterToldDecision
  <2>7. NodeTypeOK'
    BY <2>2, <2>4 DEF Results
  <2>8. Registered'
    BY <2>2 DEF Registered, CallsHaveASession
  <2>9. i # NoApproval =>
           \/ record[i] = "allow-always" /\ promise[i] = "allow-always"
           \/ record[i] = "allow-once" /\ promise[i] = "allow-once" /\ record'[i] = "consumed"
           \/ promise[i] = "null" /\ v \in Fallback
    BY <1>1, <1>3, <2>3 DEF Allowed, RecordMatchesPromise, Decisions, Allowing
  <2>10. \A j \in Approvals : record[j] \in {"consumed", "gone"} => record'[j] \in {"consumed", "gone"}
    BY <1>1, <2>3
  <2>11. forwarded' \subseteq forwarded \cup {v} /\ forwarded \subseteq Invokes
    BY <2>2
  <2>12. OnceIsConsumed'
    BY <2>9, <2>10, <2>11 DEF OnceIsConsumed
  <2>13. \A w \in forwarded : i # NoApproval /\ ApprovalOf[w] = i /\ record[i] = "allow-once" => FALSE
    BY <1>1 DEF OnceIsConsumed, RecordMatchesPromise, Decisions, Allowing
  <2>14. RunsAreApproved'
    <3> SUFFICES ASSUME NEW w \in forwarded', ApprovalOf[w] # NoApproval
                 PROVE  \/ promise[ApprovalOf[w]] = "allow-always"
                        \/ /\ promise[ApprovalOf[w]] = "allow-once"
                           /\ \A u \in forwarded' \ {w} : ApprovalOf[u] # ApprovalOf[w]
                        \/ promise[ApprovalOf[w]] = "null" /\ w \in Fallback
      BY DEF RunsAreApproved
    <3>1. CASE w = v
      BY <2>9, <2>11, <2>13, <3>1
    <3>2. CASE w # v
      <4>1. w \in forwarded
        BY <2>11, <3>2
      <4>2. promise[ApprovalOf[w]] = "allow-once" => i # ApprovalOf[w]
        BY <1>1, <2>9, <2>13, <4>1 DEF OnceIsConsumed
      <4> QED
        BY <2>11, <4>1, <4>2 DEF RunsAreApproved
    <3> QED
      BY <3>1, <3>2
  <2> QED
    BY <2>4, <2>5, <2>6, <2>7, <2>8, <2>12, <2>14
<1> QED
  BY <1>2, <1>3

LEMMA InvokeStep == InvokeInv /\ [InvokeNext]_invokeVars => InvokeInv'
<1> SUFFICES ASSUME InvokeInv, [InvokeNext]_invokeVars PROVE InvokeInv'
  OBVIOUS
<1> USE InvokeAssumption DEF InvokeInv, NodeTypeOK
<1> DEFINE ApprovalKept == UNCHANGED approvalVars => ApprovalInv'
           UsesKept == UNCHANGED <<approvalVars, forwarded>> =>
                          OnceIsConsumed' /\ RunsAreApproved'
<1>1. ApprovalKept
  BY DEF approvalVars, entry, callers, ApprovalInv, ApprovalTypeOK, RecordMatchesPromise,
         ToldWhenSettled, RequesterToldDecision
<1>2. UsesKept
  BY DEF approvalVars, entry, OnceIsConsumed, RunsAreApproved
<1>3. CASE ApprovalNext /\ UNCHANGED nodeVars
  <2>1. ApprovalInv'
    BY <1>3, ApprovalStep
  <2>2. NodeTypeOK' /\ Registered'
    BY <1>3, <2>1 DEF nodeVars, registry, Registered, CallsHaveASession, ApprovalInv
  <2>3. UNCHANGED forwarded
    BY <1>3 DEF nodeVars
  <2>4. \A i \in Approvals : promise[i] # "open" => promise'[i] = promise[i]
    BY <1>3, SettledStays
  <2>5. \A i \in Approvals : record[i] \in {"consumed", "gone"} => record'[i] \in {"consumed", "gone"}
    BY <1>3, SettledStays
  <2>6. \A v \in forwarded : ApprovalOf[v] # NoApproval =>
           ApprovalOf[v] \in Approvals /\ promise[ApprovalOf[v]] # "open"
    BY DEF RunsAreApproved
  <2>7. \A v \in forwarded : ApprovalOf[v] # NoApproval =>
           promise'[ApprovalOf[v]] = promise[ApprovalOf[v]]
    BY <2>4, <2>6
  <2>8. OnceIsConsumed'
    BY <2>3, <2>5, <2>6, <2>7 DEF OnceIsConsumed
  <2>9. RunsAreApproved'
    BY <2>3, <2>7 DEF RunsAreApproved
  <2> QED
    BY <2>1, <2>2, <2>8, <2>9
<1>4. CASE Connect
  <2>1. NodeTypeOK' /\ Registered'
    BY <1>1, <1>4 DEF Connect, Registered, CallsHaveASession, ApprovalInv, NoConn
  <2> QED
    BY <1>1, <1>2, <1>4, <2>1 DEF Connect
<1>5. ASSUME NEW c \in byConn, Close(c) PROVE InvokeInv'
  <2>1. NodeTypeOK' /\ Registered'
    BY <1>1, <1>5 DEF Close, Registered, CallsHaveASession, ApprovalInv, NoConn, Results
  <2> QED
    BY <1>1, <1>2, <1>5, <2>1 DEF Close
<1>6. ASSUME NEW v \in Invokes, node # NoConn, Forward(v),
             UNCHANGED <<promise, past, callers, registry>>
      PROVE  InvokeInv'
  BY <1>6, ForwardStep
<1>7. ASSUME NEW v \in Invokes, NEW r \in Results \cup {"waking"}, End(v, r),
             UNCHANGED <<approvalVars, registry, pending, forwarded>>
      PROVE  InvokeInv'
  <2>1. NodeTypeOK' /\ Registered'
    BY <1>1, <1>7 DEF End, registry, Registered, CallsHaveASession, ApprovalInv
  <2> QED
    BY <1>1, <1>2, <1>7, <2>1
<1>8. ASSUME NEW v \in Invokes, Invoke(v) PROVE InvokeInv'
  BY <1>6, <1>7, <1>8 DEF Invoke, approvalVars, entry
<1>9. ASSUME NEW v \in Invokes, WakeEnds(v) PROVE InvokeInv'
  BY <1>6, <1>7, <1>9 DEF WakeEnds, approvalVars, entry, Results
<1>10. ASSUME NEW v \in Invokes, NEW r \in Results, Return(v, r) PROVE InvokeInv'
  <2>1. NodeTypeOK' /\ Registered'
    BY <1>1, <1>10 DEF Return, End, registry, Registered, CallsHaveASession, ApprovalInv
  <2> QED
    BY <1>1, <1>2, <1>10, <2>1 DEF Return
<1>11. CASE UNCHANGED invokeVars
  BY <1>1, <1>2, <1>11 DEF invokeVars, nodeVars, registry, Registered, CallsHaveASession, ApprovalInv
<1> QED
  BY <1>3, <1>4, <1>5, <1>8, <1>9, <1>10, <1>11
  DEF InvokeNext, Call, HandleInvokeResult, Timeout, Results

LEMMA InvokeInvariant == InvokeSpec => []InvokeInv
BY InvokeInitInv, InvokeStep, PTL DEF InvokeSpec

-----------------------------------------------------------------------------
(* The theorems. *)

\* Records, promises, sessions and calls have their types.
THEOREM NodeTypeCorrect == InvokeSpec => []NodeTypeOK
<1>1. InvokeInv => NodeTypeOK
  BY DEF InvokeInv
<1> QED
  BY <1>1, InvokeInvariant, PTL

\* However connections of a node come and go, a call waits only while the node has a
\* session, and that is the newest one registered (node-registry.ts: register, unregister).
THEOREM PendingCallsHaveASession == InvokeSpec => []CallsHaveASession
<1>1. InvokeInv => CallsHaveASession
  BY DEF InvokeInv, Registered
<1> QED
  BY <1>1, InvokeInvariant, PTL

\* A command that was sent had its approval, and an allow-once let one call through,
\* however many calls name it (exec-approval-manager.ts: consumeAllowOnce).
THEOREM OneRunPerAllowOnce == InvokeSpec => []RunsAreApproved
<1>1. InvokeInv => RunsAreApproved
  BY DEF InvokeInv
<1> QED
  BY <1>1, InvokeInvariant, PTL

\* Whoever asked is told the decision that was made, not what became of the entry.
THEOREM DecisionIsTold == InvokeSpec => []RequesterToldDecision
<1>1. InvokeInv => RequesterToldDecision
  BY DEF InvokeInv, ApprovalInv, ToldWhenSettled
<1> QED
  BY <1>1, InvokeInvariant, PTL
=============================================================================
