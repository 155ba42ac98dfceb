--------------------------- MODULE MCFollowupQueue ---------------------------
(* An instance of FollowupQueue: three messages to two destinations, a queue  *)
(* of one or two places, and settings that switch mode, cap and drop policy. *)
EXTENDS FollowupQueue, TLC

CONSTANTS m1, m2, m3

MCRoutes == (m1 :> "chatA") @@ (m2 :> "chatA") @@ (m3 :> "chatB")
Follow(cap) == [mode |-> "followup", cap |-> cap, dropPolicy |-> "summarize"]
Collect(cap) == [mode |-> "collect", cap |-> cap, dropPolicy |-> "summarize"]
DropOld(cap) == [mode |-> "collect", cap |-> cap, dropPolicy |-> "old"]
MixedSettings == {Follow(2), Collect(2), DropOld(1)}
CollectOnly == {Collect(2)}
ThreeMessages == {m1, m2, m3}
=============================================================================
