---------------------------- MODULE GlobalMutex ----------------------------
(***************************************************************************)
(* The recursive mutex behind the global critical region on Linux          *)
(* (xe_global_mutex, base/mutex.cc): a word in user space, and a futex to  *)
(* sleep on when it is contended.                                          *)
(*                                                                         *)
(* state_ is 0 when free, 1 when locked, 2 when somebody may be asleep.    *)
(* Every atomic operation, store and system call is a step.  futex_wait    *)
(* compares and goes to sleep in one; it may return for no reason, as it   *)
(* does when a signal arrives.                                             *)
(***************************************************************************)
EXTENDS Integers, FiniteSets

CONSTANTS
    Callers,
    Nobody,      \* owner_ of a free mutex
    MaxDepth,    \* BOUND on nesting
    MaxCalls     \* BOUND on calls of lock and try_lock that do not nest

ASSUME MutexAssumption ==
    /\ Nobody \notin Callers
    /\ MaxDepth \in Nat \ {0} /\ MaxCalls \in Nat

VARIABLES
    state_, owner_, recursion_count_,
    point,    \* where each thread is in lock or unlock
    calls     \* outermost calls made

mutex_vars == <<state_, owner_, recursion_count_, point, calls>>

Points == {"out", "cas", "spin", "exchange", "wait", "asleep", "retry",
           "took", "holding", "disown", "release", "wake"}

MutexTypeOK ==
    /\ state_ \in 0 .. 2
    /\ owner_ \in Callers \union {Nobody}
    /\ recursion_count_ \in Nat
    /\ point \in [Callers -> Points]
    /\ calls \in Nat

MutexInit ==
    /\ state_ = 0
    /\ owner_ = Nobody
    /\ recursion_count_ = 0
    /\ point = [t \in Callers |-> "out"]
    /\ calls = 0

Advance(t, where) == point' = [point EXCEPT ![t] = where]

-----------------------------------------------------------------------------
(* lock *)

\* The owner only counts; whoever else reads owner_ never reads itself there.
LockAgain(t) ==
    /\ point[t] = "holding" /\ owner_ = t
    /\ recursion_count_ < MaxDepth
    /\ recursion_count_' = recursion_count_ + 1
    /\ UNCHANGED <<state_, owner_, point, calls>>

Lock(t) ==
    /\ point[t] = "out" /\ owner_ # t
    /\ calls < MaxCalls
    /\ calls' = calls + 1
    /\ Advance(t, "cas")
    /\ UNCHANGED <<state_, owner_, recursion_count_>>

\* A compare-and-exchange from 0: it takes the lock or goes on elsewhere.
TakeOr(t, locked, elsewhere) ==
    IF state_ = 0
    THEN state_' = locked /\ Advance(t, "took")
    ELSE Advance(t, elsewhere) /\ UNCHANGED state_

FastPath(t) ==
    /\ point[t] = "cas"
    /\ TakeOr(t, 1, "spin")
    /\ UNCHANGED <<owner_, recursion_count_, calls>>

\* One round of the spin phase, the last one or not.
Spin(t) ==
    /\ point[t] = "spin"
    /\ TakeOr(t, 1, "spin") \/ TakeOr(t, 1, "exchange")
    /\ UNCHANGED <<owner_, recursion_count_, calls>>

\* Fault: locked and uncontended is taken for free.
ExchangeMisread(t) ==
    /\ point[t] = "exchange"
    /\ state_' = 2
    /\ Advance(t, IF state_ # 2 THEN "took" ELSE "wait")
    /\ UNCHANGED <<owner_, recursion_count_, calls>>

Exchange(t) ==
    /\ point[t] = "exchange"
    /\ state_' = 2
    /\ Advance(t, IF state_ = 0 THEN "took" ELSE "wait")
    /\ UNCHANGED <<owner_, recursion_count_, calls>>

FutexWait(t) ==
    /\ point[t] = "wait"
    /\ Advance(t, IF state_ = 2 THEN "asleep" ELSE "retry")
    /\ UNCHANGED <<state_, owner_, recursion_count_, calls>>

\* EINTR.
SpuriousWakeup(t) ==
    /\ point[t] = "asleep"
    /\ Advance(t, "retry")
    /\ UNCHANGED <<state_, owner_, recursion_count_, calls>>

\* Fault: whoever was woken takes the lock without comparing.
RetryStore(t) ==
    /\ point[t] = "retry"
    /\ state_' = 2
    /\ Advance(t, "took")
    /\ UNCHANGED <<owner_, recursion_count_, calls>>

\* After sleeping the lock is taken as contended: others may still sleep.
Retry(t) ==
    /\ point[t] = "retry"
    /\ TakeOr(t, 2, "exchange")
    /\ UNCHANGED <<owner_, recursion_count_, calls>>

Own(t) ==
    /\ point[t] = "took"
    /\ owner_' = t
    /\ recursion_count_' = 1
    /\ Advance(t, "holding")
    /\ UNCHANGED <<state_, calls>>

\* try_lock, when it succeeds; the nested case is LockAgain.
TryLock(t) ==
    /\ point[t] = "out" /\ owner_ # t
    /\ calls < MaxCalls
    /\ state_ = 0
    /\ calls' = calls + 1
    /\ state_' = 1
    /\ Advance(t, "took")
    /\ UNCHANGED <<owner_, recursion_count_>>

-----------------------------------------------------------------------------
(* unlock *)

Unlock(t) ==
    /\ point[t] = "holding"
    /\ recursion_count_' = recursion_count_ - 1
    /\ Advance(t, IF recursion_count_ - 1 > 0 THEN "holding" ELSE "disown")
    /\ UNCHANGED <<state_, owner_, calls>>

Disown(t) ==
    /\ point[t] = "disown"
    /\ owner_' = Nobody
    /\ Advance(t, "release")
    /\ UNCHANGED <<state_, recursion_count_, calls>>

FreeWord(t) ==
    /\ point[t] = "release"
    /\ state_' = 0
    /\ Advance(t, IF state_ = 2 THEN "wake" ELSE "out")
    /\ UNCHANGED <<owner_, recursion_count_, calls>>

\* FUTEX_WAKE of one: whoever sleeps, if anybody does.
Asleep == {t \in Callers : point[t] = "asleep"}

\* Fault: nobody is woken.
WakeNobody(t) ==
    /\ point[t] = "wake"
    /\ Advance(t, "out")
    /\ UNCHANGED <<state_, owner_, recursion_count_, calls>>

FutexWake(t) ==
    /\ point[t] = "wake"
    /\ \/ /\ Asleep = {}
          /\ Advance(t, "out")
       \/ \E sleeper \in Asleep :
             point' = [point EXCEPT ![sleeper] = "retry", ![t] = "out"]
    /\ UNCHANGED <<state_, owner_, recursion_count_, calls>>

-----------------------------------------------------------------------------

\* What a thread does inside lock and unlock without being asked again.
Proceed(t) ==
    \/ FastPath(t) \/ Spin(t) \/ Exchange(t) \/ FutexWait(t) \/ Retry(t)
    \/ Own(t) \/ Disown(t) \/ FreeWord(t) \/ FutexWake(t)

MutexNext ==
    \E t \in Callers :
       Lock(t) \/ LockAgain(t) \/ TryLock(t) \/ Unlock(t)
         \/ SpuriousWakeup(t) \/ Proceed(t)

MutexSpec == MutexInit /\ [][MutexNext]_mutex_vars

\* Threads are scheduled, and whoever holds the lock leaves it (it stops
\* nesting); nothing is assumed about spurious wake-ups.
MutexFairSpec ==
    /\ MutexSpec
    /\ \A t \in Callers :
          /\ WF_mutex_vars(Proceed(t))
          /\ WF_mutex_vars(Unlock(t))
          /\ SF_mutex_vars(Unlock(t) /\ recursion_count_ = 1)

-----------------------------------------------------------------------------
(* Properties *)

\* From the exchange that took the word to the one that frees it.
Inside == {t \in Callers : point[t] \in {"took", "holding", "disown", "release"}}

\* At most one thread is in, and the word says so.
OneInside ==
    /\ \A t, u \in Inside : t = u
    /\ Inside = {} <=> state_ = 0

\* owner_ names a thread only while that thread holds the lock, so that nobody
\* takes the recursive path by mistake.
OwnerHolds ==
    /\ owner_ # Nobody => point[owner_] \in {"holding", "disown"}
    /\ \A t \in Callers : point[t] \in {"holding", "disown"} => owner_ = t
    /\ \A t \in Callers : point[t] = "holding" => recursion_count_ > 0

\* No wake-up is lost: while somebody sleeps, the word makes the next unlock
\* wake a thread, or a thread is under way that wakes one or marks the word.
NoLostWakeup ==
    Asleep # {} =>
        \/ state_ = 2
        \/ \E t \in Callers : point[t] \in {"wake", "retry", "exchange", "wait"}

\* The mutex is a recursive lock.
Promise == INSTANCE RecursiveLock WITH
    Threads <- Callers,
    inside <- Inside,
    depth  <- IF Inside = {} THEN 0
              ELSE IF \E t \in Callers : point[t] = "holding" THEN recursion_count_
              ELSE 1

ImplementsRecursiveLock == Promise!Spec

\* Of finitely many calls every one gets the lock and gives it back: nobody
\* sleeps for ever.
EveryCallReturns == \A t \in Callers : point[t] # "out" ~> point[t] = "out"

MutexInv ==
    /\ MutexTypeOK
    /\ OneInside
    /\ OwnerHolds
    /\ NoLostWakeup
=============================================================================
