------------------------------ MODULE NodeInvoke ------------------------------
(***************************************************************************)
(* Calls of node.invoke (gateway/server-methods/nodes.ts): a node connects *)
(* and reconnects, the registry (gateway/node-registry.ts) keeps its last  *)
(* session and the invokes that await a result, and a command that needs   *)
(* an approval is forwarded only with the decision of its record.          *)
(*                                                                         *)
(* There is one node.  Its connections are numbered in their order.  What  *)
(* the node receives is left open: a result may come or not, over any of   *)
(* its connections.  Waking a node by a push, the allowlist of commands    *)
(* and the queue of actions for a node in the background are left out.     *)
(***************************************************************************)
EXTENDS ExecApproval, Naturals

CONSTANTS
    MaxConns,       \* BOUND: connections of the node
    Invokes,        \* calls of node.invoke
    ApprovalOf,     \* ApprovalOf[v]: the approval the call names, or NoApproval
    NoApproval,
    Fallback        \* calls that ask for "allow-once" where a request timed out

ASSUME InvokeAssumption ==
    /\ MaxConns \in Nat
    /\ NoApproval \notin Approvals
    /\ ApprovalOf \in [Invokes -> Approvals \cup {NoApproval}] /\ Fallback \subseteq Invokes

NoConn == 0

VARIABLES
    opened,     \* the number of connections so far
    node,       \* nodesById of the node: the connection of its session, or NoConn
    byConn,     \* nodesByConn: the registered connections
    invoke,     \* invoke[v]: how far the call is, or its result
    pending,    \* pendingInvokes
    forwarded   \* HISTORY: the calls whose request was sent

registry == <<opened, node, byConn>>
nodeVars == <<registry, invoke, pending, forwarded>>
invokeVars == <<approvalVars, nodeVars>>

Results == {"ok", "timeout", "disconnected", "unavailable", "notConnected", "refused"}

InvokeInit ==
    /\ ApprovalInit
    /\ opened = 0 /\ node = NoConn /\ byConn = {}
    /\ invoke = [v \in Invokes |-> "idle"] /\ pending = {} /\ forwarded = {}

-----------------------------------------------------------------------------
(* Connections. *)

\* register: the session replaces that of an older connection.
Connect ==
    /\ opened < MaxConns /\ opened' = opened + 1
    /\ node' = opened' /\ byConn' = byConn \cup {opened'}
    /\ UNCHANGED <<approvalVars, invoke, pending, forwarded>>

\* Mutant: the invokes of the node are left to their timers.
CloseQuietly(c) ==
    /\ c \in byConn /\ byConn' = byConn \ {c}
    /\ node' = NoConn
    /\ UNCHANGED <<approvalVars, opened, invoke, pending, forwarded>>

\* The socket closes, and unregister removes the session of the node, whatever its
\* connection, and rejects all its invokes.
Close(c) ==
    /\ c \in byConn /\ byConn' = byConn \ {c}
    /\ node' = NoConn
    /\ pending' = {}
    /\ invoke' = [v \in Invokes |-> IF v \in pending THEN "disconnected" ELSE invoke[v]]
    /\ UNCHANGED <<approvalVars, opened, forwarded>>

-----------------------------------------------------------------------------
(* node.invoke *)

End(v, result) == invoke' = [invoke EXCEPT ![v] = result]

\* sanitizeSystemRunParamsForForwarding, by the record of the approval.
\* The code tells a timeout by a record that has no decision and no resolver; a consumed record
\* keeps its resolver, whose id the schema of the connect frame demands (frames.ts).
Allowed(v) ==
    LET i == ApprovalOf[v]
    IN  i # NoApproval =>
            /\ Known(i) /\ i \notin past
            /\ \/ record[i] \in Allowing
               \/ record[i] = "timed-out" /\ v \in Fallback

\* Mutant: the decision stays for the next call.
ConsumeNothing(v) == UNCHANGED record

\* consumeAllowOnce
Consume(v) ==
    LET i == ApprovalOf[v]
    IN  record' = IF i # NoApproval /\ record[i] = "allow-once"
                  THEN [record EXCEPT ![i] = "consumed"] ELSE record

\* With a session: the record is checked and consumed, and the request sent.
Forward(v) ==
    \/ /\ ~Allowed(v)
       /\ End(v, "refused")
       /\ UNCHANGED <<record, pending, forwarded>>
    \/ /\ Allowed(v) /\ Consume(v)
       /\ End(v, "unavailable")
       /\ UNCHANGED <<pending, forwarded>>
    \/ /\ Allowed(v) /\ Consume(v)
       /\ End(v, "sent")
       /\ pending' = pending \cup {v} /\ forwarded' = forwarded \cup {v}

\* Without one the node is woken, and the call waits for it to reconnect.
Invoke(v) ==
    /\ invoke[v] = "idle"
    /\ IF node # NoConn THEN Forward(v)
       ELSE End(v, "waking") /\ UNCHANGED <<record, pending, forwarded>>
    /\ UNCHANGED <<promise, past, callers, registry>>

WakeEnds(v) ==
    /\ invoke[v] = "waking"
    /\ IF node # NoConn THEN Forward(v)
       ELSE End(v, "notConnected") /\ UNCHANGED <<record, pending, forwarded>>
    /\ UNCHANGED <<promise, past, callers, registry>>

Return(v, result) ==
    /\ v \in pending
    /\ pending' = pending \ {v}
    /\ End(v, result)
    /\ UNCHANGED <<approvalVars, registry, forwarded>>

\* A result for a call that is not pending any more is ignored.
HandleInvokeResult(v) == Return(v, "ok")

\* Mutant: the timer only forgets the call.
TimeoutUnanswered(v) ==
    /\ v \in pending
    /\ pending' = pending \ {v}
    /\ UNCHANGED <<approvalVars, registry, invoke, forwarded>>

Timeout(v) == Return(v, "timeout")

-----------------------------------------------------------------------------
(* The specification. *)

Call(v) == Invoke(v) \/ WakeEnds(v) \/ HandleInvokeResult(v) \/ Timeout(v)

InvokeNext ==
    \/ ApprovalNext /\ UNCHANGED nodeVars
    \/ Connect \/ \E c \in byConn : Close(c)
    \/ \E v \in Invokes : Call(v)

InvokeSpec == InvokeInit /\ [][InvokeNext]_invokeVars

\* Timers fire: those of approvals, of waits for a reconnect and of invokes.  The
\* forwarder returns, and promises are acted upon.
InvokeFairness ==
    /\ \A i \in Approvals :
          /\ WF_invokeVars(Expire(i) /\ UNCHANGED nodeVars)
          /\ WF_invokeVars((NoRoute(i) \/ Forwarded(i)) /\ UNCHANGED nodeVars)
          /\ WF_invokeVars((RespondDecision(i) \/ RespondWait(i)) /\ UNCHANGED nodeVars)
    /\ \A v \in Invokes : WF_invokeVars(WakeEnds(v)) /\ WF_invokeVars(Timeout(v))

FairInvokeSpec == InvokeSpec /\ InvokeFairness

-----------------------------------------------------------------------------
(* Properties. *)

NodeTypeOK ==
    /\ ApprovalTypeOK
    /\ opened \in 0..MaxConns /\ byConn \subseteq 1..MaxConns
    /\ node \in byConn \cup {NoConn}
    /\ invoke \in [Invokes -> {"idle", "waking", "sent"} \cup Results]
    /\ pending \subseteq Invokes /\ forwarded \subseteq Invokes

\* A call waits for a result only while the node has a session, and the session is that of
\* the newest of its registered connections, whatever the order in which connections come
\* and go and sockets close.
CallsHaveASession ==
    /\ pending # {} => node # NoConn
    /\ node # NoConn => node \in byConn /\ \A c \in byConn : c <= node

\* A command runs with its approval: allowed by a decision, or by the caller's fallback
\* after a time-out; and an allow-once lets one call through, over waits for the node,
\* retries and the grace period of the entry.
RunsAreApproved ==
    \A v \in forwarded :
        LET i == ApprovalOf[v]
        IN  i # NoApproval =>
              \/ promise[i] = "allow-always"
              \/ promise[i] = "allow-once" /\ \A w \in forwarded \ {v} : ApprovalOf[w] # i
              \/ promise[i] = "null" /\ v \in Fallback

\* Every call is answered: that of node.invoke, of a request for approval, and of
\* waitDecision.
CallsAreAnswered ==
    /\ \A v \in Invokes : invoke[v] \in {"waking", "sent"} ~> invoke[v] \in Results
    /\ \A i \in Approvals : request[i] # "idle" ~> told[i] # "nothing"
    /\ \A i \in Approvals : waiter[i] = "waiting" ~> waiter[i] = "over"
=============================================================================
