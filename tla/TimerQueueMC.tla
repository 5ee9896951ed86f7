---------------------------- MODULE TimerQueueMC ----------------------------
(***************************************************************************)
(* Instances of TimerQueue for TLC: a one-shot and a recurring timer, two  *)
(* client threads.                                                         *)
(***************************************************************************)
EXTENDS TimerQueue, TLC

CONSTANTS once, tick, kick, t1, t2

MCItems    == {once, tick}
MCThreads  == {t1, t2}
MCInterval == (once :> 0) @@ (tick :> 1) @@ (kick :> 0)

=============================================================================
