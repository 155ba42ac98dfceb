--------------------------- MODULE MCCommandQueue ---------------------------
(* A small instance of CommandQueue: a chat run and a manual cron run of      *)
(* session s1, which nests three lanes, and a chat run of s2, which competes  *)
(* with the first for lane main.                                              *)
EXTENDS CommandQueue, TLC

CONSTANTS chat1, chat2, job, s1, s2

MCSessions == {s1, s2}
MCRuns == {chat1, chat2, job}
MCSessionOf == (chat1 :> s1) @@ (chat2 :> s2) @@ (job :> s1)
MCLaneArg == [r \in MCRuns |-> IF r = job THEN "cron" ELSE "main"]
JustJob == {job}
MCChoices == ("main" :> {0, 2}) @@ ("cron" :> {}) @@ ("subagent" :> {})
=============================================================================
