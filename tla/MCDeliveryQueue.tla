--------------------------- MODULE MCDeliveryQueue ---------------------------
(* An instance of DeliveryQueue: a plain delivery and a best-effort one whose *)
(* caller passes onError.                                                     *)
EXTENDS DeliveryQueue

CONSTANTS plain, effort

Both == {plain, effort}
JustEffort == {effort}
JustPlain == {plain}

\* One live send per behaviour keeps the state space small.  That a recovery finds
\* several entries is a second initial state: two calls were made at once, their files
\* were written, and the process has crashed for the last time.
TwoLeftOver ==
    /\ up = FALSE
    /\ stored = Both /\ marked = {} /\ failedDir = {}
    /\ retryCount = [d \in Deliveries |-> 0]
    /\ order = <<plain, effort>>
    /\ phase = [a \in Actors |-> [d \in Deliveries |-> IF a = Live THEN "over" ELSE "idle"]]
    /\ read = [a \in Actors |-> [d \in Deliveries |-> 0]]
    /\ running = [r \in Recoveries |-> "off"]
    /\ pending = [r \in Recoveries |-> <<>>]
    /\ overlaps = MaxOverlaps /\ crashes = MaxCrashes
    /\ ioErrors = 0 /\ budgetHits = 0
    /\ delivered = {} /\ twice = {} /\ withdrawn = {} /\ swallowed = {}
    /\ excused = {}

MCFairDQSpec == (DQInit \/ TwoLeftOver) /\ [][DQNext]_dqVars /\ DQFairness
=============================================================================
