--------------------------- MODULE WaitObjectsMC ---------------------------
(***************************************************************************)
(* Two objects of every pair of kinds that signal by hand, or two timers;  *)
(* and the waits TLC makes: on one of them, with a timeout (that may never *)
(* run out), and on both in both orders, for all and for any.              *)
(***************************************************************************)
EXTENDS WaitObjects

Order == <<"auto_reset_event", "manual_reset_event", "semaphore", "mutant">>

\* Objects is {1, 2}; which of the two is which does not matter.
EveryPair == {<<Order[i], Order[j]>> : <<i, j>> \in {p \in (1 .. 4) \X (1 .. 4) : p[1] <= p[2]}}

Pairs == EveryPair \union {<<"synchronization_timer", "notification_timer">>}

SinglesAndPairs ==
    {[objects |-> <<o>>, all |-> FALSE, timed |-> TRUE] : o \in Objects}
      \union {[objects |-> pair, all |-> all, timed |-> ~all] :
                 pair \in {<<1, 2>>, <<2, 1>>}, all \in BOOLEAN}
=============================================================================
