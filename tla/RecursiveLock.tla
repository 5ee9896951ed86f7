--------------------------- MODULE RecursiveLock ---------------------------
(***************************************************************************)
(* What a recursive lock promises: at most one thread is in, it may enter  *)
(* again, and it is out when it has left as often as it entered.           *)
(***************************************************************************)
EXTENDS Integers

CONSTANT Threads

VARIABLES inside,   \* the threads in the lock, at most one
          depth     \* how often it has entered

Init == inside = {} /\ depth = 0

Enter(t) == inside = {} /\ inside' = {t} /\ depth' = 1

EnterAgain(t) == t \in inside /\ depth' = depth + 1 /\ UNCHANGED inside

Leave(t) ==
    /\ t \in inside
    /\ depth > 0
    /\ depth' = depth - 1
    /\ inside' = IF depth = 1 THEN {} ELSE inside

Next == \E t \in Threads : Enter(t) \/ EnterAgain(t) \/ Leave(t)

Spec == Init /\ [][Next]_<<inside, depth>>
=============================================================================
