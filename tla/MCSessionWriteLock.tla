-------------------------- MODULE MCSessionWriteLock --------------------------
(* An instance of SessionWriteLock: a gateway with two callers, which may nest, *)
(* and a further process with one.                                            *)
EXTENDS SessionWriteLock, TLC

CONSTANTS gw, cli, g1, g2, c1

TwoProcs == {gw, cli}
JustGw == {gw}
ThreeActors == {g1, g2, c1}
OwnersOfThree == g1 :> gw @@ g2 :> gw @@ c1 :> cli
=============================================================================
