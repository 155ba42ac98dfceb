--------------------------- MODULE DeliveryPromise ---------------------------
(* What the outbound delivery queue promises, whatever crashes: a delivery   *)
(* that was put on disk stays there until it was confirmed, released by its  *)
(* sender, or set aside for the operator.                                    *)
CONSTANT Deliveries

VARIABLES
    kept,       \* deliveries on disk that the next recovery will find
    confirmed,  \* deliveries of which some send succeeded
    released,   \* deliveries whose sender no longer wants them retried
    setAside    \* deliveries given up and kept for inspection

promiseVars == <<kept, confirmed, released, setAside>>

\* Entries may be left from an earlier life of the process.
PromiseInit ==
    kept \in SUBSET Deliveries /\ confirmed = {} /\ released = {} /\ setAside = {}

Keep(d) == kept' = kept \cup {d} /\ UNCHANGED <<confirmed, released, setAside>>

Confirm(d) ==
    confirmed' = confirmed \cup {d} /\ UNCHANGED <<kept, released, setAside>>

Release(d) ==
    released' = released \cup {d} /\ UNCHANGED <<kept, confirmed, setAside>>

Forget(d) ==
    /\ d \in confirmed \cup released
    /\ kept' = kept \ {d}
    /\ UNCHANGED <<confirmed, released, setAside>>

SetAside(d) ==
    /\ kept' = kept \ {d}
    /\ setAside' = setAside \cup {d}
    /\ UNCHANGED <<confirmed, released>>

PromiseNext ==
    \E d \in Deliveries :
      Keep(d) \/ Confirm(d) \/ Release(d) \/ Forget(d) \/ SetAside(d)

Promise == PromiseInit /\ [][PromiseNext]_promiseVars
=============================================================================
