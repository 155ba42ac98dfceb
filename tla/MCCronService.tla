---------------------------- MODULE MCCronService ----------------------------
(* An instance of CronService: a recurring job and a one-shot.               *)
EXTENDS CronService

CONSTANTS rep, once, m1

Both == {rep, once}
JustOnce == {once}
Nothing == {}
OneManual == {m1}
=============================================================================
