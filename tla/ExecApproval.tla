----------------------------- MODULE ExecApproval -----------------------------
(***************************************************************************)
(* Approvals of commands (gateway/exec-approval-manager.ts and the methods *)
(* of server-methods/exec-approval.ts): a request registers a record and   *)
(* is offered to clients and to a forwarder; one of a decision and the     *)
(* timer settles it; the entry stays for a grace period, in which callers  *)
(* may still wait for it and use it.                                       *)
(*                                                                         *)
(* Ids are fresh, as the random ids are.  A client may come at any time    *)
(* and resolve a request.  Looking up an id by its prefix, and which       *)
(* client may, are left out.                                               *)
(***************************************************************************)
CONSTANT Approvals    \* ids of requests

Allowing == {"allow-once", "allow-always"}
Decisions == Allowing \cup {"deny"}

\* Both "timed-out" and "no-route" are records without a decision; "consumed" is an
\* allow-once whose decision is taken out again.
Settled == Decisions \cup {"timed-out", "no-route", "consumed"}

VARIABLES
    record,    \* record[i]: the entry of `pending`: none, open, settled or gone
    promise,   \* promise[i]: "open", or what the promise of the entry resolved to
    past,      \* the approvals i with now > expiresAtMs
    request,   \* request[i]: the request handler
    hadClients,  \* hadClients[i]: hasExecApprovalClients as the handler read it
    waiter,    \* waiter[i]: a call of waitDecision
    told       \* told[i]: what the request handler responded

entry == <<record, promise, past>>
callers == <<request, hadClients, waiter, told>>
approvalVars == <<entry, callers>>

ApprovalInit ==
    /\ record = [i \in Approvals |-> "none"]
    /\ promise = [i \in Approvals |-> "open"]
    /\ past = {}
    /\ request = [i \in Approvals |-> "idle"]
    /\ hadClients = [i \in Approvals |-> FALSE]
    /\ waiter = [i \in Approvals |-> "idle"]
    /\ told = [i \in Approvals |-> "nothing"]

\* getSnapshot finds an entry.
Known(i) == record[i] \notin {"none", "gone"}

-----------------------------------------------------------------------------
(* ExecApprovalManager *)

\* resolve() and expire() settle an open entry and leave any other alone.
Settle(i, how, value) ==
    IF record[i] = "open"
    THEN /\ record' = [record EXCEPT ![i] = how]
         /\ promise' = [promise EXCEPT ![i] = value]
    ELSE UNCHANGED <<record, promise>>

\* exec.approval.resolve, by a client
Resolve(i, decision) ==
    /\ record[i] = "open"
    /\ Settle(i, decision, decision)
    /\ UNCHANGED <<past, callers>>

\* The timer of the entry.
Expire(i) ==
    /\ record[i] = "open"
    /\ Settle(i, "timed-out", "null")
    /\ UNCHANGED <<past, callers>>

\* The clock passes expiresAtMs, before or after the timer has fired.
Elapse(i) ==
    /\ Known(i) /\ i \notin past
    /\ past' = past \cup {i}
    /\ UNCHANGED <<record, promise, callers>>

\* The grace period of a settled entry ends.
Forget(i) ==
    /\ record[i] \in Settled
    /\ record' = [record EXCEPT ![i] = "gone"]
    /\ UNCHANGED <<promise, past, callers>>

-----------------------------------------------------------------------------
(* The methods of the gateway. *)

\* exec.approval.request registers, looks for clients, and awaits the forwarder.
Request(i) ==
    /\ request[i] = "idle" /\ record[i] = "none"
    /\ record' = [record EXCEPT ![i] = "open"]
    /\ \E clients \in BOOLEAN : hadClients' = [hadClients EXCEPT ![i] = clients]
    /\ request' = [request EXCEPT ![i] = "forwarding"]
    /\ UNCHANGED <<promise, past, waiter, told>>

\* With nobody to ask, the entry expires and the caller is told so.
NoRoute(i) ==
    /\ request[i] = "forwarding" /\ ~hadClients[i]
    /\ Settle(i, "no-route", "null")
    /\ request' = [request EXCEPT ![i] = "over"]
    /\ told' = [told EXCEPT ![i] = "null"]
    /\ UNCHANGED <<past, hadClients, waiter>>

Forwarded(i) ==
    /\ request[i] = "forwarding"
    /\ request' = [request EXCEPT ![i] = "awaiting"]
    /\ UNCHANGED <<entry, hadClients, waiter, told>>

\* Mutant: the record is read instead of the promise.
AnswerFromRecord(i) == IF record[i] \in Decisions THEN record[i] ELSE "null"

Answer(i) == promise[i]

RespondDecision(i) ==
    /\ request[i] = "awaiting" /\ promise[i] # "open"
    /\ request' = [request EXCEPT ![i] = "over"]
    /\ told' = [told EXCEPT ![i] = Answer(i)]
    /\ UNCHANGED <<entry, hadClients, waiter>>

\* exec.approval.waitDecision finds the entry, or not.
WaitDecision(i) ==
    /\ waiter[i] = "idle"
    /\ waiter' = [waiter EXCEPT ![i] = IF Known(i) THEN "waiting" ELSE "over"]
    /\ UNCHANGED <<entry, request, hadClients, told>>

RespondWait(i) ==
    /\ waiter[i] = "waiting" /\ promise[i] # "open"
    /\ waiter' = [waiter EXCEPT ![i] = "over"]
    /\ UNCHANGED <<entry, request, hadClients, told>>

-----------------------------------------------------------------------------
(* The steps of an approval. *)

Calls(i) == Request(i) \/ NoRoute(i) \/ Forwarded(i) \/ RespondDecision(i)
            \/ WaitDecision(i) \/ RespondWait(i)
Timers(i) == Expire(i) \/ Elapse(i) \/ Forget(i)

ApprovalNext ==
    \E i \in Approvals : Calls(i) \/ Timers(i) \/ \E d \in Decisions : Resolve(i, d)

-----------------------------------------------------------------------------
(* Properties. *)

ApprovalTypeOK ==
    /\ record \in [Approvals -> {"none", "open", "gone"} \cup Settled]
    /\ promise \in [Approvals -> {"open", "null"} \cup Decisions]
    /\ past \subseteq Approvals
    /\ request \in [Approvals -> {"idle", "forwarding", "awaiting", "over"}]
    /\ hadClients \in [Approvals -> BOOLEAN]
    /\ waiter \in [Approvals -> {"idle", "waiting", "over"}]
    /\ told \in [Approvals -> {"nothing", "null"} \cup Decisions]

\* The caller of a request is told the decision that was made, although the entry may be
\* consumed or gone by then; only one without clients at first is told that there is none.
RequesterToldDecision ==
    \A i \in Approvals : told[i] # "nothing" =>
        told[i] = promise[i] \/ (told[i] = "null" /\ ~hadClients[i])
=============================================================================
