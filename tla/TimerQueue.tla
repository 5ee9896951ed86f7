----------------------------- MODULE TimerQueue -----------------------------
(***************************************************************************)
(* The host timer queue (base/threading_timer_queue.{h,cc}): one dispatch  *)
(* thread runs the callbacks of all timers.  Any thread hands a wait item  *)
(* over through a multi-producer ring buffer (QueueTimer) and may take the *)
(* timer back at any time (Disarm), including the dispatch thread itself   *)
(* from inside a callback.  All agreement between the two sides goes       *)
(* through one atomic per item, state_, and no lock is ever held.          *)
(*                                                                         *)
(* The ring (disruptorplus, a submodule) is external: claim_one hands out  *)
(* sequence numbers and then waits for room, publish makes a slot visible, *)
(* wait_until_published returns the end of a contiguous published prefix.  *)
(* wait_queue_ is sorted by due time; the model keeps it as a set and      *)
(* takes any item of minimal due time, which covers every tie order.       *)
(***************************************************************************)
EXTENDS Integers

CONSTANTS
    Items,             \* the TimerQueueWaitItem objects clients may create
    Kick,              \* the null item the destructor queues to wake dispatch
    Threads,           \* client threads
    Dispatcher,        \* dispatch_thread_
    NoItem,
    Interval,          \* interval_ of each item, 0 when it is not recurring
    WaitCount,         \* kWaitCount, the capacity of the ring
    MaxTime,           \* BOUND on the clock
    MayDisarmTwice     \* TRUE: a callback may disarm its own item repeatedly

AllItems == Items \cup {Kick}
Actors   == Threads \cup {Dispatcher}
Time     == 0 .. MaxTime

ASSUME ItemsAssumption  == /\ Kick \notin Items
                           /\ NoItem \notin AllItems
ASSUME ActorsAssumption == Dispatcher \notin Threads
ASSUME IntervalAssumption == Interval \in [AllItems -> Nat]
ASSUME BoundsAssumption ==
    /\ WaitCount \in Nat \ {0}
    /\ MaxTime \in Nat
    /\ MayDisarmTwice \in BOOLEAN

VARIABLES
    now,            \* clock::now()
    state,          \* state_ of each item
    due,            \* due_ of each item
    created,        \* items constructed so far
    claimed,        \* next sequence claim_one hands out
    published,      \* sequences published and not yet consumed
    buffer,         \* buffer_, slot -> item
    next_sequence,  \* dispatch: first sequence not yet consumed
    wait_queue,     \* wait_queue_
    rearmed,        \* dispatch: wait_items of the second block
    current,        \* dispatch: the wait_item taken off the queue
    shutdown,       \* shutdown_
    pc,             \* where each actor is
    target,         \* the item the actor's QueueTimer or Disarm is about
    seq,            \* the sequence the actor claimed
    released        \* items whose userdata was freed after Disarm returned

ring  == <<claimed, published, buffer, next_sequence>>
lists == <<wait_queue, rearmed, current>>
calls == <<pc, target, seq>>
vars  == <<now, state, due, created, ring, lists, shutdown, calls, released>>

Running == {"kInCallback", "kInCallbackSelfDisarmed"}
States  == {"kIdle", "kDisarmed"} \cup Running

DispatchPC == {"check", "wait", "scan", "callback", "publish", "disarm",
               "returned", "rearm", "retire", "exited"}
ThreadPC   == {"idle", "publish", "disarm", "kick", "join", "done"}

TypeOK ==
    /\ now \in Time
    /\ state \in [AllItems -> States]
    /\ due \in [AllItems -> Int]
    /\ created \subseteq AllItems
    /\ claimed \in Nat
    /\ published \subseteq Nat
    /\ buffer \in [0 .. WaitCount - 1 -> AllItems \cup {NoItem}]
    /\ next_sequence \in Nat
    /\ wait_queue \subseteq AllItems
    /\ rearmed \subseteq AllItems
    /\ current \in AllItems \cup {NoItem}
    /\ shutdown \in BOOLEAN
    /\ pc \in [Actors -> DispatchPC \cup ThreadPC]
    /\ target \in [Actors -> AllItems \cup {NoItem}]
    /\ seq \in [Actors -> Nat]
    /\ released \subseteq AllItems

Init ==
    /\ now = 0
    /\ state = [i \in AllItems |-> "kIdle"]
    /\ due = [i \in AllItems |-> 0]
    /\ created = {}
    /\ claimed = 0
    /\ published = {}
    /\ buffer = [s \in 0 .. WaitCount - 1 |-> NoItem]
    /\ next_sequence = 0
    /\ wait_queue = {}
    /\ rearmed = {}
    /\ current = NoItem
    /\ shutdown = FALSE
    /\ pc = [a \in Actors |-> IF a = Dispatcher THEN "check" ELSE "idle"]
    /\ target = [a \in Actors |-> NoItem]
    /\ seq = [a \in Actors |-> 0]
    /\ released = {}

Slot(s) == s % WaitCount

Goto(a, where) == pc' = [pc EXCEPT ![a] = where]

\* Where an actor may start a call of the public API: a client thread between
\* calls, the dispatch thread while it runs a callback.
Home(a)   == IF a = Dispatcher THEN "callback" ELSE "idle"
Ready(a)  == pc[a] = Home(a)

\* The call returns and its locals are gone.
Leave(a, where) ==
    /\ Goto(a, where)
    /\ target' = [target EXCEPT ![a] = NoItem]
    /\ seq' = [seq EXCEPT ![a] = 0]

-----------------------------------------------------------------------------
(* QueueTimer *)

Later(s, t) == IF s >= t THEN s ELSE t

\* due_ is moved up to now - interval ("mitigate callback flooding"), then a
\* sequence is claimed.
Enqueue(a, i, d) ==
    /\ created' = created \cup {i}
    /\ due' = [due EXCEPT ![i] = Later(now - Interval[i], d)]
    /\ claimed' = claimed + 1
    /\ seq' = [seq EXCEPT ![a] = claimed]
    /\ target' = [target EXCEPT ![a] = i]
    /\ Goto(a, "publish")
    /\ UNCHANGED <<published, buffer, next_sequence>>

QueueTimer(a, i, d) ==
    /\ Ready(a)
    /\ ~shutdown
    /\ i \notin created
    /\ Enqueue(a, i, d)
    /\ UNCHANGED <<now, state, lists, shutdown, released>>

\* Fault: a producer does not wait for room.
PublishOverwrites(a) ==
    /\ pc[a] = "publish"
    /\ buffer' = [buffer EXCEPT ![Slot(seq[a])] = target[a]]
    /\ published' = published \cup {seq[a]}
    /\ Leave(a, IF target[a] = Kick THEN "join" ELSE Home(a))
    /\ UNCHANGED <<now, state, due, created, claimed, next_sequence, lists,
                   shutdown, released>>

\* claim_one returns once the slot's previous tenant has been consumed; the
\* item is moved into the slot and the sequence published.
Publish(a) ==
    /\ pc[a] = "publish"
    /\ seq[a] < next_sequence + WaitCount
    /\ buffer' = [buffer EXCEPT ![Slot(seq[a])] = target[a]]
    /\ published' = published \cup {seq[a]}
    /\ Leave(a, IF target[a] = Kick THEN "join" ELSE Home(a))
    /\ UNCHANGED <<now, state, due, created, claimed, next_sequence, lists,
                   shutdown, released>>

-----------------------------------------------------------------------------
(* TimerQueueWaitItem::Disarm *)

\* The item's weak_ptr reaches clients when QueueTimer returns.
Known(i) == i \in created \cap Items
            /\ \A a \in Actors : pc[a] = "publish" => target[a] # i

\* A callback normally disarms its own item at most once.
BeginDisarm(a, i) ==
    /\ Ready(a)
    /\ Known(i)
    /\ (a = Dispatcher /\ i = current /\ ~MayDisarmTwice)
          => state[i] = "kInCallback"
    /\ target' = [target EXCEPT ![a] = i]
    /\ Goto(a, "disarm")
    /\ UNCHANGED <<now, state, due, created, ring, lists, shutdown, seq,
                   released>>

\* Special case for calling from a callback itself.
SelfDisarm(a) ==
    /\ pc[a] = "disarm"
    /\ a = Dispatcher
    /\ state[target[a]] = "kInCallback"
    /\ state' = [state EXCEPT ![target[a]] = "kInCallbackSelfDisarmed"]
    /\ Leave(a, Home(a))
    /\ UNCHANGED <<now, due, created, ring, lists, shutdown, released>>

\* Fault: Disarm does not wait for a running callback.
DisarmAtOnce(a) ==
    /\ pc[a] = "disarm"
    /\ state[target[a]] # "kInCallbackSelfDisarmed"
    /\ state' = [state EXCEPT ![target[a]] = "kDisarmed"]
    /\ released' = released \cup {target[a]}
    /\ Leave(a, Home(a))
    /\ UNCHANGED <<now, due, created, ring, lists, shutdown>>

\* The loop ends by its compare-exchange from kIdle or on kDisarmed; in the
\* two callback states it spins.  Having been told that no callback will run
\* any more, the owner of the timer frees what the callback works on.
Disarm(a) ==
    /\ pc[a] = "disarm"
    /\ state[target[a]] \in {"kIdle", "kDisarmed"}
    /\ state' = [state EXCEPT ![target[a]] = "kDisarmed"]
    /\ released' = released \cup {target[a]}
    /\ Leave(a, Home(a))
    /\ UNCHANGED <<now, due, created, ring, lists, shutdown>>

-----------------------------------------------------------------------------
(* TimerThreadMain *)

CheckShutdown ==
    /\ pc[Dispatcher] = "check"
    /\ Goto(Dispatcher, IF shutdown THEN "exited" ELSE "wait")
    /\ UNCHANGED <<now, state, due, created, ring, lists, shutdown, target,
                   seq, released>>

\* Fault: due means past its due time.
ExpiredLate == {i \in wait_queue : due[i] < now}

Expired == {i \in wait_queue : due[i] <= now}

\* wait_until_published saw the sequences up to available: their items move
\* to the wait queue and the slots are given back.
ConsumeUpTo(available) ==
    LET batch == next_sequence .. available IN
    /\ available >= next_sequence
    /\ batch \subseteq published
    /\ available + 1 \notin published
    /\ wait_queue' = wait_queue \cup {buffer[Slot(s)] : s \in batch}
    /\ buffer' = [s \in 0 .. WaitCount - 1 |->
                     IF \E b \in batch : Slot(b) = s THEN NoItem ELSE buffer[s]]
    /\ published' = published \ batch
    /\ next_sequence' = available + 1

Consume ==
    /\ pc[Dispatcher] = "wait"
    /\ \E available \in published : ConsumeUpTo(available)
    /\ Goto(Dispatcher, "scan")
    /\ UNCHANGED <<now, state, due, created, claimed, rearmed, current,
                   shutdown, target, seq, released>>

\* The wait timed out at the front's due time.
WaitTimeout ==
    /\ pc[Dispatcher] = "wait"
    /\ next_sequence \notin published
    /\ Expired # {}
    /\ Goto(Dispatcher, "scan")
    /\ UNCHANGED <<now, state, due, created, ring, lists, shutdown, target,
                   seq, released>>

Front(i) == i \in Expired /\ \A j \in wait_queue : due[i] <= due[j]

\* The front item is due: pop it and claim it for its callback, unless it was
\* disarmed, in which case it is dropped.
Invoke(i) ==
    /\ pc[Dispatcher] = "scan"
    /\ Front(i)
    /\ wait_queue' = wait_queue \ {i}
    /\ IF state[i] = "kIdle"
       THEN /\ state' = [state EXCEPT ![i] = "kInCallback"]
            /\ current' = i
            /\ Goto(Dispatcher, "callback")
       ELSE UNCHANGED <<state, current, pc>>
    /\ UNCHANGED <<now, due, created, ring, rearmed, shutdown, target, seq,
                   released>>

CallbackReturn ==
    /\ pc[Dispatcher] = "callback"
    /\ Goto(Dispatcher, "returned")
    /\ UNCHANGED <<now, state, due, created, ring, lists, shutdown, target,
                   seq, released>>

\* Fault: a self-disarmed timer is rearmed.
AfterCallbackForgets ==
    /\ pc[Dispatcher] = "returned"
    /\ Goto(Dispatcher, IF Interval[current] # 0 THEN "rearm" ELSE "retire")
    /\ UNCHANGED <<now, state, due, created, ring, lists, shutdown, target,
                   seq, released>>

\* Recurring and not self-disarmed: rearm, else retire.
AfterCallback ==
    /\ pc[Dispatcher] = "returned"
    /\ Goto(Dispatcher, IF /\ Interval[current] # 0
                           /\ state[current] # "kInCallbackSelfDisarmed"
                        THEN "rearm" ELSE "retire")
    /\ UNCHANGED <<now, state, due, created, ring, lists, shutdown, target,
                   seq, released>>

Rearm ==
    /\ pc[Dispatcher] = "rearm"
    /\ due' = [due EXCEPT ![current] = @ + Interval[current]]
    /\ state' = [state EXCEPT ![current] = "kIdle"]
    /\ rearmed' = rearmed \cup {current}
    /\ current' = NoItem
    /\ Goto(Dispatcher, "scan")
    /\ UNCHANGED <<now, created, ring, wait_queue, shutdown, target, seq,
                   released>>

\* Fault: the state is left as it was.
RetireLeavesState ==
    /\ pc[Dispatcher] = "retire"
    /\ current' = NoItem
    /\ Goto(Dispatcher, "scan")
    /\ UNCHANGED <<now, state, due, created, ring, wait_queue, rearmed,
                   shutdown, target, seq, released>>

Retire ==
    /\ pc[Dispatcher] = "retire"
    /\ state' = [state EXCEPT ![current] = "kDisarmed"]
    /\ current' = NoItem
    /\ Goto(Dispatcher, "scan")
    /\ UNCHANGED <<now, due, created, ring, wait_queue, rearmed, shutdown,
                   target, seq, released>>

\* Fault: the rearmed items are dropped.
EndScanDrops ==
    /\ pc[Dispatcher] = "scan"
    /\ Expired = {}
    /\ rearmed' = {}
    /\ Goto(Dispatcher, "check")
    /\ UNCHANGED <<now, state, due, created, ring, wait_queue, current,
                   shutdown, target, seq, released>>

\* Nothing due any more: the rearmed items go back and the outer loop turns.
EndScan ==
    /\ pc[Dispatcher] = "scan"
    /\ Expired = {}
    /\ wait_queue' = wait_queue \cup rearmed
    /\ rearmed' = {}
    /\ Goto(Dispatcher, "check")
    /\ UNCHANGED <<now, state, due, created, ring, current, shutdown, target,
                   seq, released>>

-----------------------------------------------------------------------------
(* ~TimerQueue *)

Shutdown(t) ==
    /\ pc[t] = "idle"
    /\ ~shutdown
    /\ shutdown' = TRUE
    /\ Goto(t, "kick")
    /\ UNCHANGED <<now, state, due, created, ring, lists, target, seq,
                   released>>

\* The kick has no callback: it is disarmed before it is queued.
QueueKick(t) ==
    /\ pc[t] = "kick"
    /\ state' = [state EXCEPT ![Kick] = "kDisarmed"]
    /\ Enqueue(t, Kick, 0)
    /\ UNCHANGED <<now, lists, shutdown, released>>

Join(t) ==
    /\ pc[t] = "join"
    /\ pc[Dispatcher] = "exited"
    /\ Goto(t, "done")
    /\ UNCHANGED <<now, state, due, created, ring, lists, shutdown, target,
                   seq, released>>

-----------------------------------------------------------------------------

Tick ==
    /\ now < MaxTime
    /\ now' = now + 1
    /\ UNCHANGED <<state, due, created, ring, lists, shutdown, calls,
                   released>>

\* The loop of the dispatch thread apart from the body of a callback.
DispatchLoop ==
    \/ CheckShutdown \/ Consume \/ WaitTimeout
    \/ \E i \in AllItems : Invoke(i)
    \/ AfterCallback \/ Rearm \/ Retire \/ EndScan

\* Steps an actor takes to finish a call it has begun.
CallStep(a) == Publish(a) \/ SelfDisarm(a) \/ Disarm(a)

ThreadStep(t) == QueueKick(t) \/ Join(t)

Next ==
    \/ Tick
    \/ DispatchLoop
    \/ CallbackReturn
    \/ \E a \in Actors :
          \/ \E i \in Items, d \in Time : QueueTimer(a, i, d)
          \/ \E i \in Items : BeginDisarm(a, i)
          \/ CallStep(a)
    \/ \E t \in Threads : Shutdown(t) \/ ThreadStep(t)

Spec == Init /\ [][Next]_vars

\* Threads that can run do run and the clock advances.  A callback returns
\* after finitely many calls (strong fairness: each call interrupts it).
\* Nobody is obliged to queue, to disarm or to shut down.
Fairness ==
    /\ WF_vars(Tick)
    /\ WF_vars(DispatchLoop)
    /\ SF_vars(CallbackReturn)
    /\ \A a \in Actors : WF_vars(CallStep(a))
    /\ \A t \in Threads : WF_vars(ThreadStep(t))

FairSpec == Spec /\ Fairness

-----------------------------------------------------------------------------
(* Properties *)

\* The dispatch thread is executing i's callback, whatever state_ says.
InCallback(i) ==
    /\ current = i
    /\ pc[Dispatcher] \in {"callback", "publish", "disarm"}

\* "No callbacks will be running after this call": once a Disarm by anyone
\* but the callback itself has returned, the callback is not running, so the
\* memory it uses may be freed (threading_timer_queue.h:38, .cc:198).
NoCallbackAfterDisarm == \A i \in released : ~InCallback(i)

\* The item whose callback runs is the only one whose state_ says so: what
\* a Disarm spins on is exactly what the dispatch thread is doing (the
\* assertion at .cc:138 rests on it).
StateTellsCallback ==
    \A i \in AllItems : state[i] \in Running <=> current = i

\* A destructor's kick, which has no callback, is never invoked (.cc:121).
KickIsInert == current # Kick

InRing(i) == {<<"ring", s>> : s \in {p \in published : buffer[Slot(p)] = i}}

\* Nothing is lost or duplicated on the way from QueueTimer to the callback:
\* an item is in one place only and an armed item is in one.
OnePlace ==
    \A i \in created :
      LET places ==
            InRing(i)
            \cup {<<"wait_queue">> : x \in {i} \cap wait_queue}
            \cup {<<"rearmed">> : x \in {i} \cap rearmed}
            \cup {<<"current">> : x \in {i} \cap {current}}
            \cup {<<"call", a>> : a \in {b \in Actors :
                     pc[b] = "publish" /\ target[b] = i}}
      IN /\ \A p, q \in places : p = q
         /\ state[i] = "kIdle" => places # {}

\* kDisarmed is final: neither a rearm in flight nor a second Disarm brings an
\* item back.
DisarmIsFinal ==
    [][\A i \in AllItems :
         state[i] = "kDisarmed" => state'[i] = "kDisarmed"]_vars

\* A one-shot timer, and a recurring one that disarmed itself, is over when
\* its callback has returned.
LastCallback ==
    [][\A i \in AllItems :
         /\ state[i] \in Running /\ state'[i] \notin Running
         /\ Interval[i] = 0 \/ state[i] = "kInCallbackSelfDisarmed"
         => state'[i] = "kDisarmed"]_vars

\* Somebody waits for room in the ring that nobody will make: the dispatch
\* thread, the only consumer, queues from a callback into a full ring, or it
\* has exited.  With kWaitCount timers in flight at once the code can get here.
StuckForRoom ==
    \E a \in Actors :
      /\ pc[a] = "publish" /\ seq[a] >= next_sequence + WaitCount
      /\ a = Dispatcher \/ pc[Dispatcher] = "exited"

\* A callback that disarms its own timer a second time finds the state it set
\* itself and spins, and the dispatch thread with it (.cc:203).
SpinsOnItself ==
    /\ pc[Dispatcher] = "disarm" /\ target[Dispatcher] = current
    /\ state[current] = "kInCallbackSelfDisarmed"

Stuck == StuckForRoom \/ SpinsOnItself

\* A timer that stays armed fires once its time has come.
Fires ==
    \A i \in Items :
      i \in created /\ due[i] <= MaxTime
        ~> \/ state[i] # "kIdle" \/ due[i] > MaxTime
           \/ shutdown \/ Stuck

\* Disarm, which waits for a running callback only, and ~TimerQueue return.
CallsReturn ==
    /\ \A a \in Actors : pc[a] = "disarm" ~> pc[a] # "disarm" \/ Stuck
    /\ shutdown ~> Stuck \/ \E t \in Threads : pc[t] = "done"

-----------------------------------------------------------------------------
(* The inductive invariant behind the safety properties. *)

\* Which program points each kind of actor has, and the locals live there.
ControlInv ==
    /\ pc[Dispatcher] \in DispatchPC
    /\ \A t \in Threads : pc[t] \in ThreadPC
    /\ current # NoItem <=>
         pc[Dispatcher] \in {"callback", "publish", "disarm", "returned",
                            "rearm", "retire"}
    /\ \A a \in Actors :
         /\ pc[a] = "publish" => target[a] \in created
         /\ pc[a] = "publish" /\ a = Dispatcher => target[a] \in Items
         /\ pc[a] = "disarm" => target[a] \in created \cap Items
    /\ pc[Dispatcher] = "rearm" =>
         Interval[current] # 0 /\ state[current] = "kInCallback"
    /\ pc[Dispatcher] = "retire" =>
         Interval[current] = 0 \/ state[current] = "kInCallbackSelfDisarmed"

\* The published sequences lie in one window of the ring and each of their
\* slots holds an item; sequences claimed and not yet published are above
\* what was consumed, and each belongs to one actor.
RingInv ==
    /\ next_sequence <= claimed
    /\ \A s \in published :
          /\ next_sequence <= s /\ s < next_sequence + WaitCount
          /\ s < claimed
          /\ buffer[Slot(s)] \in created
    /\ \A a \in Actors : pc[a] = "publish" =>
          /\ next_sequence <= seq[a] /\ seq[a] < claimed
          /\ seq[a] \notin published
          /\ \A b \in Actors :
                pc[b] = "publish" /\ seq[b] = seq[a] => a = b
    /\ wait_queue \cup rearmed \cup ({current} \ {NoItem}) \subseteq created

\* An item is idle until it is queued.  What is final: a released item is
\* disarmed, and so is the kick from the moment it is queued.
DisarmedInv ==
    /\ \A i \in AllItems \ created : state[i] = "kIdle"
    /\ \A i \in released : state[i] = "kDisarmed"
    /\ Kick \in created => state[Kick] = "kDisarmed"

TimerInv ==
    /\ TypeOK
    /\ ControlInv
    /\ RingInv
    /\ DisarmedInv
    /\ StateTellsCallback
    /\ KickIsInert

-----------------------------------------------------------------------------
(* The queue implements TimerContract. *)

PhaseOf == [kIdle |-> "armed", kInCallback |-> "firing",
            kInCallbackSelfDisarmed |-> "last", kDisarmed |-> "dead"]

phaseBar == [i \in Items |->
               IF i \in created THEN PhaseOf[state[i]] ELSE "unborn"]

Contract == INSTANCE TimerContract WITH
    Timers <- Items,
    Recurring <- {i \in Items : Interval[i] # 0},
    phase <- phaseBar,
    freed <- released

\* Every step of the ring, the dispatch thread and Disarm's spinning is a step
\* of the contract or invisible to a client (threading_timer_queue.h:38-45).
ImplementsContract == Contract!Spec
=============================================================================
