---------------------------- MODULE MCNodeInvoke ----------------------------
(* An instance of NodeInvoke: a call and its retry with one approval, the    *)
(* retry with a fallback.                                                    *)
EXTENDS NodeInvoke, TLC

CONSTANTS i1, first, retry, none

OneApproval == {i1}
TwoCalls == {first, retry}
ApprovalOfBoth == first :> i1 @@ retry :> i1
JustRetry == {retry}
=============================================================================
