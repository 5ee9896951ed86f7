---------------------------- MODULE ApcContract ----------------------------
(***************************************************************************)
(* What the user APC queue of a thread promises to those who queue: what   *)
(* is queued and not taken back is handed out once, in the order it was    *)
(* queued, to the thread while it runs and for rundown once it exits.      *)
(***************************************************************************)
EXTENDS Sequences, SequencesExt

CONSTANT Apcs

VARIABLES
    queue,    \* the APCs queued, in order
    exiting   \* the thread has begun to run its APCs down

vars == <<queue, exiting>>

Init == queue = <<>> /\ exiting = FALSE

Insert(a) ==
    /\ ~exiting
    /\ \A i \in DOMAIN queue : queue[i] # a
    /\ queue' = Append(queue, a) /\ UNCHANGED exiting

TakeBack(i) ==
    /\ ~exiting
    /\ queue' = RemoveAt(queue, i) /\ UNCHANGED exiting

\* The head is delivered or, once the thread exits, run down.
HandOut ==
    /\ queue # <<>>
    /\ queue' = Tail(queue) /\ UNCHANGED exiting

Exit == ~exiting /\ exiting' = TRUE /\ UNCHANGED queue

Next ==
    \/ HandOut \/ Exit
    \/ \E a \in Apcs : Insert(a)
    \/ \E i \in DOMAIN queue : TakeBack(i)

\* A thread that exits empties its queue; one that runs need not ask for it.
Spec == Init /\ [][Next]_vars /\ WF_vars(exiting /\ HandOut)
=============================================================================
