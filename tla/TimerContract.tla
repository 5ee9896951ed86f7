---------------------------- MODULE TimerContract ----------------------------
(***************************************************************************)
(* What the host timer queue promises its clients                          *)
(* (base/threading_timer_queue.h:38-45,70-72), whatever threads, rings and *)
(* lists it is built from: callbacks run one at a time; Disarm waits for a *)
(* running callback and afterwards the timer is dead for good; a callback  *)
(* that disarms its own timer is the last one.                             *)
(***************************************************************************)
CONSTANTS
    Timers,      \* timers clients may create
    Recurring    \* those with a period

VARIABLES
    phase,       \* [Timers -> Phases]
    freed        \* timers whose client was told that no callback will run

tvars == <<phase, freed>>

Phases == {"unborn", "armed", "firing", "last", "dead"}

Firing(i) == phase[i] \in {"firing", "last"}

Init == /\ phase = [i \in Timers |-> "unborn"]
        /\ freed = {}

Become(i, p) == phase' = [phase EXCEPT ![i] = p]

Queue(i) == /\ phase[i] = "unborn"
            /\ Become(i, "armed")
            /\ UNCHANGED freed

Fire(i) == /\ phase[i] = "armed"
           /\ \A j \in Timers : ~Firing(j)
           /\ Become(i, "firing")
           /\ UNCHANGED freed

Rearm(i) == /\ phase[i] = "firing"
            /\ i \in Recurring
            /\ Become(i, "armed")
            /\ UNCHANGED freed

Finish(i) == /\ Firing(i)
             /\ phase[i] = "firing" => i \notin Recurring
             /\ Become(i, "dead")
             /\ UNCHANGED freed

DisarmSelf(i) == /\ phase[i] = "firing"
                 /\ Become(i, "last")
                 /\ UNCHANGED freed

Disarm(i) == /\ phase[i] \in {"armed", "dead"}
             /\ Become(i, "dead")
             /\ freed' = freed \cup {i}

Next == \E i \in Timers :
            \/ Queue(i) \/ Fire(i) \/ Rearm(i) \/ Finish(i)
            \/ DisarmSelf(i) \/ Disarm(i)

Spec == Init /\ [][Next]_tvars
=============================================================================
