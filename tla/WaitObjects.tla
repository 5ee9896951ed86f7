---------------------------- MODULE WaitObjects ----------------------------
(***************************************************************************)
(* Events, semaphores, mutants and timers on POSIX and the waits on them   *)
(* (PosixCondition<T> and PosixConditionBase, base/threading_posix.cc),    *)
(* the timers as the kernel uses them (XTimer, kernel/xtimer.cc).          *)
(*                                                                         *)
(* Each object has a mutex and a condition variable.  A wait on one object *)
(* blocks on the condition variable; a wait on several cannot, so it       *)
(* locks the objects one by one without blocking, starts over when one is  *)
(* busy, and polls.  A section that locks one object and unlocks it again  *)
(* is one step here.  The release of a mutant reads owner_ and count_      *)
(* before it locks, in steps of their own.  A timer is signaled by the     *)
(* dispatch thread of the timer queue, of which this module takes what its *)
(* contract (TimerContract) promises: Disarm returns when no callback runs.*)
(***************************************************************************)
EXTENDS Integers, Sequences, FiniteSets, SequencesExt

CONSTANTS
    Threads, Nobody,
    Objects,
    Creations,       \* which kinds of objects may be created together
    Waits,           \* the waits threads make: objects, all or any, timed
    maximum_count_,  \* of the semaphores
    MaxSignals       \* BOUND on the signals of all objects

Kinds == {"auto_reset_event", "manual_reset_event", "semaphore", "mutant",
          "synchronization_timer", "notification_timer"}

ASSUME WaitObjectsAssumption ==
    /\ IsFiniteSet(Threads) /\ IsFiniteSet(Objects) /\ Nobody \notin Threads \union Objects
    /\ Creations \subseteq [Objects -> Kinds]
    /\ Waits \subseteq [objects : Seq(Objects), all : BOOLEAN, timed : BOOLEAN]
    /\ maximum_count_ \in Nat \ {0} /\ MaxSignals \in Nat

VARIABLES
    kind,      \* of each object, chosen when it is created
    count_,    \* signal_ of events and timers as 0 or 1, count_ of the others
    owner_,    \* of the mutants
    armed,     \* whether and how each timer is queued
    completing,  \* the timer whose CompletionRoutine the dispatch thread is in
    completed, \* it has signaled that timer and has its callback to run
    mutex_,    \* the thread that holds each object's mutex across steps
    at,        \* where each thread is
    wait,      \* the wait it is in
    releasing, \* the mutant it is releasing
    locked,    \* how many of its objects it has locked
    woken,     \* it was notified since it blocked
    signals,   \* history: how often each object was signaled, in units
    grants,    \* history: what each thread consumed, mutants it gave back excepted
    surplus    \* history: the mutants that somebody went to release once too often

state   == <<kind, count_, owner_>>
timers  == <<armed, completing, completed>>
thread  == <<at, wait, releasing, locked, woken>>
history == <<signals, grants, surplus>>
vars    == <<state, timers, mutex_, thread, history>>

AutoEvents   == {o \in Objects : kind[o] = "auto_reset_event"}
ManualEvents == {o \in Objects : kind[o] = "manual_reset_event"}
Semaphores   == {o \in Objects : kind[o] = "semaphore"}
Mutants      == {o \in Objects : kind[o] = "mutant"}
Events       == AutoEvents \union ManualEvents
Timers       == {o \in Objects : kind[o] \in {"synchronization_timer", "notification_timer"}}
AutoReset    == AutoEvents \union {o \in Timers : kind[o] = "synchronization_timer"}
ManualReset  == (Events \union Timers) \ AutoReset

At == {"idle", "enter", "blocked", "poll", "sleep", "owner_read", "count_read",
       "pulsing", "arming", "dead"}
On(objects) == [objects |-> objects, all |-> FALSE, timed |-> FALSE]
NoWait == On(<<>>)

WaitTypeOK ==
    /\ kind \in Creations
    /\ count_ \in [Objects -> Int]
    /\ \A o \in Objects \ (Mutants \cap surplus) : count_[o] >= 0
    /\ owner_ \in [Objects -> Threads \union {Nobody}]
    /\ \A o \in AutoReset \union ManualReset : count_[o] <= 1
    /\ \A s \in Semaphores : count_[s] <= maximum_count_
    /\ armed \in [Objects -> {"no", "once", "repeating"}]
    /\ completing \in Objects \union {Nobody} /\ completed \in BOOLEAN
    /\ mutex_ \in [Objects -> Threads \union {Nobody}]
    /\ at \in [Threads -> At]
    /\ wait \in [Threads -> Waits \union {NoWait} \union {On(<<o>>) : o \in Objects}]
    /\ releasing \in [Threads -> Objects \union {Nobody}]
    /\ \A t \in Threads : locked[t] \in 0 .. Len(wait[t].objects)
    /\ woken \in [Threads -> BOOLEAN]
    /\ signals \in [Objects -> Nat] /\ grants \in [Objects -> [Threads -> Int]]
    /\ surplus \subseteq Mutants

Init ==
    /\ kind \in Creations
    /\ count_ = [o \in Objects |-> 0]
    /\ owner_ = [o \in Objects |-> Nobody]
    /\ armed = [o \in Objects |-> "no"]
    /\ completing = Nobody /\ completed = FALSE
    /\ mutex_ = [o \in Objects |-> Nobody]
    /\ at = [t \in Threads |-> "idle"]
    /\ wait = [t \in Threads |-> NoWait]
    /\ releasing = [t \in Threads |-> Nobody]
    /\ locked = [t \in Threads |-> 0]
    /\ woken = [t \in Threads |-> FALSE]
    /\ signals = [o \in Objects |-> 0]
    /\ grants = [o \in Objects |-> [t \in Threads |-> 0]]
    /\ surplus = {}

-----------------------------------------------------------------------------
(* signaled, post_execution, notify_all *)

\* The count of a mutant is a uint32_t.  One that is decremented at zero wraps
\* around; it stands below zero here, for that much below 2^32, and is tested
\* as the unsigned number it is: count_ > 0 is count_ # 0.
Signaled(o, t) == IF o \in Mutants THEN count_[o] = 0 \/ owner_[o] = t
                  ELSE count_[o] > 0

BlockedOn(o) == {t \in Threads : at[t] = "blocked" /\ wait[t].objects[1] = o}

\* Notified(O) is woken once the condition variables of O are notified.
Notified(O) == [t \in Threads |-> woken[t] \/ \E o \in O : t \in BlockedOn(o)]

Notify(O) == woken' = Notified(O)

\* A successful wait of t consumes from each object of O; a semaphore also
\* notifies.
Take(t, O) ==
    /\ woken' = [Notified(O \cap Semaphores) EXCEPT ![t] = FALSE]
    /\ count_' = [o \in Objects |->
          IF o \notin O \/ o \in ManualReset THEN count_[o]
          ELSE IF o \in Mutants THEN count_[o] + 1
          ELSE IF o \in Semaphores THEN count_[o] - 1
          ELSE 0]
    /\ owner_' = [o \in Objects |-> IF o \in O \cap Mutants THEN t ELSE owner_[o]]
    /\ UNCHANGED kind
    /\ grants' = [o \in Objects |->
          IF o \in O \ ManualReset THEN [grants[o] EXCEPT ![t] = @ + 1] ELSE grants[o]]

-----------------------------------------------------------------------------
(* Signalling events and semaphores: the object is locked during the call. *)

\* BOUND on the nesting of mutants.
MayWait(t, w) ==
    \A m \in Mutants \cap ToSet(w.objects) : owner_[m] = t => count_[m] < 2

\* BOUND: signals are counted together.
FewSignals == FoldFunctionOnSet(+, 0, signals, Objects) < MaxSignals

MaySignal(t, o) ==
    /\ at[t] = "idle" /\ mutex_[o] = Nobody
    /\ FewSignals

Counted(o, n) == signals' = [signals EXCEPT ![o] = @ + n]

SignalEvent(e) ==
    /\ count_' = [count_ EXCEPT ![e] = 1]
    /\ Notify({e}) /\ Counted(e, 1)
    /\ UNCHANGED <<kind, owner_, grants, surplus>>

\* All or nothing: a release beyond the maximum changes nothing.
SignalSemaphore(s, release_count) ==
    /\ count_[s] + release_count <= maximum_count_
    /\ count_' = [count_ EXCEPT ![s] = @ + release_count]
    /\ Notify({s}) /\ Counted(s, release_count)
    /\ UNCHANGED <<kind, owner_, grants, surplus>>

Set(t, e) ==
    /\ e \in Events /\ MaySignal(t, e) /\ SignalEvent(e)
    /\ UNCHANGED <<timers, mutex_, at, wait, releasing, locked>>

ReleaseSemaphore(t, s, release_count) ==
    /\ s \in Semaphores /\ MaySignal(t, s) /\ SignalSemaphore(s, release_count)
    /\ UNCHANGED <<timers, mutex_, at, wait, releasing, locked>>

Reset(t, e) ==
    /\ e \in Events
    /\ at[t] = "idle" /\ mutex_[e] = Nobody
    /\ count_[e] = 1
    /\ count_' = [count_ EXCEPT ![e] = 0]
    /\ UNCHANGED <<kind, owner_, timers, mutex_, thread, history>>

\* Pulse sets, yields and sleeps, and resets.
Pulse(t, e) ==
    /\ e \in Events /\ MaySignal(t, e) /\ SignalEvent(e)
    /\ at' = [at EXCEPT ![t] = "pulsing"]
    /\ wait' = [wait EXCEPT ![t] = On(<<e>>)]
    /\ UNCHANGED <<timers, mutex_, releasing, locked>>

PulseReset(t) ==
    /\ at[t] = "pulsing"
    /\ LET e == wait[t].objects[1] IN
         /\ mutex_[e] = Nobody
         /\ count_' = [count_ EXCEPT ![e] = 0]
    /\ at' = [at EXCEPT ![t] = "idle"]
    /\ wait' = [wait EXCEPT ![t] = NoWait]
    /\ UNCHANGED <<kind, owner_, timers, mutex_, releasing, locked, woken, history>>

-----------------------------------------------------------------------------
(* Releasing a mutant *)

\* Fault: anybody may release.
ReleaseByAnybody(t, m, w) ==
    /\ m \in Mutants /\ at[t] = "idle" /\ FewSignals
    /\ releasing' = [releasing EXCEPT ![t] = m]
    /\ wait' = [wait EXCEPT ![t] = w]
    /\ at' = [at EXCEPT ![t] = "owner_read"]
    /\ surplus' = IF count_[m] = 0 THEN surplus \union {m} ELSE surplus
    /\ UNCHANGED <<state, timers, mutex_, locked, woken, signals, grants>>

\* The caller reads owner_, without the mutex, and goes on when it is itself,
\* also when it has released the mutant before: owner_ stays.  The wait w is
\* what SignalAndWait has to do afterwards.
BeginRelease(t, m, w) ==
    /\ m \in Mutants /\ at[t] = "idle" /\ FewSignals
    /\ owner_[m] = t
    /\ releasing' = [releasing EXCEPT ![t] = m]
    /\ wait' = [wait EXCEPT ![t] = w]
    /\ at' = [at EXCEPT ![t] = "owner_read"]
    /\ surplus' = IF count_[m] = 0 THEN surplus \union {m} ELSE surplus
    /\ UNCHANGED <<state, timers, mutex_, locked, woken, signals, grants>>

ReleaseMutant(t, m) == BeginRelease(t, m, NoWait)

Return(t) ==
    /\ at' = [at EXCEPT ![t] = "idle"]
    /\ wait' = [wait EXCEPT ![t] = NoWait]

\* It reads count_.  Whoever takes the mutant counts before it writes owner_:
\* an old owner_ with a new count_ is what reading in two steps can give.
TestCount(t) ==
    /\ at[t] = "owner_read"
    /\ IF count_[releasing[t]] # 0
       THEN at' = [at EXCEPT ![t] = "count_read"] /\ UNCHANGED <<wait, releasing>>
       ELSE Return(t) /\ releasing' = [releasing EXCEPT ![t] = Nobody]
    /\ UNCHANGED <<state, timers, mutex_, locked, woken, history>>

\* The call has released the mutant m, and the thread has yet to enter the wait
\* of SignalAndWait.
Released(t, m) ==
    /\ count_' = [count_ EXCEPT ![m] = @ - 1]
    /\ Counted(m, 1)
    /\ grants' = [grants EXCEPT ![m][t] = @ - 1]
    /\ releasing' = [releasing EXCEPT ![t] = Nobody]
    /\ at' = [at EXCEPT ![t] = IF wait[t] = NoWait THEN "idle" ELSE "enter"]
    /\ UNCHANGED <<kind, owner_, surplus, timers, mutex_, wait, locked>>

\* Fault: the count is tested before it is decremented.
ReleaseNotifiesNobody(t) ==
    /\ at[t] = "count_read" /\ mutex_[releasing[t]] = Nobody
    /\ Notify(IF count_[releasing[t]] = 0 THEN {releasing[t]} ELSE {})
    /\ Released(t, releasing[t])

\* It locks and decrements, whoever holds the mutant by now; only the last
\* release lets others in.
SignalMutant(t) ==
    /\ at[t] = "count_read" /\ mutex_[releasing[t]] = Nobody
    /\ Notify(IF count_[releasing[t]] = 1 THEN {releasing[t]} ELSE {})
    /\ Released(t, releasing[t])

\* Signals one object and waits for another, which are two steps: when the
\* signal fails nothing happens, and when it succeeds the thread has yet to
\* enter its wait.  Timers are not signaled by hand.
SignalAndWait(t, o, w) ==
    /\ Len(w.objects) = 1 /\ MayWait(t, w)
    /\ \/ BeginRelease(t, o, w)
       \/ /\ MaySignal(t, o)
          /\ \/ o \in Events /\ SignalEvent(o)
             \/ o \in Semaphores /\ SignalSemaphore(o, 1)
          /\ wait' = [wait EXCEPT ![t] = w]
          /\ at' = [at EXCEPT ![t] = "enter"]
          /\ UNCHANGED <<timers, mutex_, releasing, locked>>

\* A thread ends, whatever it owns.  BOUND: one that owns no mutant leaves
\* nothing behind, so it need not end.
Die(t) ==
    /\ at[t] = "idle" /\ \E m \in Mutants : owner_[m] = t /\ count_[m] > 0
    /\ at' = [at EXCEPT ![t] = "dead"]
    /\ UNCHANGED <<state, timers, mutex_, wait, releasing, locked, woken, history>>

-----------------------------------------------------------------------------
(* Timers.  XTimer holds its timer_lock_ over SetTimer and Cancel. *)

TimerUnlocked(o) == \A t \in Threads : at[t] = "arming" => wait[t].objects[1] # o

\* Fault: a completion under way is not waited for.
DisarmedAtOnce(o) == TimerUnlocked(o)

\* Disarm returns once the dispatch thread is not in the completion of o.
Disarmed(o) == TimerUnlocked(o) /\ completing # o

\* SetTimer cancels what was set before...
SetTimer(t, o) ==
    /\ at[t] = "idle" /\ o \in Timers /\ Disarmed(o)
    /\ armed' = [armed EXCEPT ![o] = "no"]
    /\ at' = [at EXCEPT ![t] = "arming"]
    /\ wait' = [wait EXCEPT ![t] = On(<<o>>)]
    /\ UNCHANGED <<state, completing, completed, mutex_, releasing, locked, woken,
                   history>>

\* ...and then resets the signal and queues the timer under the mutex.
Arm(t) ==
    /\ at[t] = "arming"
    /\ LET o == wait[t].objects[1] IN
         /\ mutex_[o] = Nobody
         /\ count_' = [count_ EXCEPT ![o] = 0]
         /\ \E how \in {"once", "repeating"} : armed' = [armed EXCEPT ![o] = how]
    /\ at' = [at EXCEPT ![t] = "idle"]
    /\ wait' = [wait EXCEPT ![t] = NoWait]
    /\ UNCHANGED <<kind, owner_, completing, completed, mutex_, releasing, locked, woken,
                   history>>

CancelTimer(t, o) ==
    /\ at[t] = "idle" /\ o \in Timers /\ Disarmed(o)
    /\ armed[o] # "no"
    /\ armed' = [armed EXCEPT ![o] = "no"]
    /\ UNCHANGED <<state, completing, completed, mutex_, thread, history>>

\* The timer is due.  BOUND: its signal counts with the others.
Expire(o) ==
    /\ completing = Nobody /\ armed[o] # "no"
    /\ FewSignals
    /\ completing' = o
    /\ UNCHANGED <<state, armed, completed, mutex_, thread, history>>

\* CompletionRoutine signals...
Complete ==
    /\ completing # Nobody /\ ~completed
    /\ mutex_[completing] = Nobody
    /\ SignalEvent(completing)
    /\ completed' = TRUE
    /\ UNCHANGED <<armed, completing, mutex_, at, wait, releasing, locked>>

\* ...and takes a copy of the callback under the mutex and runs it; a timer
\* that does not repeat is then no longer queued.
RunCallback ==
    /\ completed /\ mutex_[completing] = Nobody
    /\ armed' = [armed EXCEPT ![completing] = IF @ = "once" THEN "no" ELSE @]
    /\ completing' = Nobody /\ completed' = FALSE
    /\ UNCHANGED <<state, mutex_, thread, history>>

-----------------------------------------------------------------------------
(* Wait on one object *)

BeginWait(t, w) ==
    /\ at[t] = "idle" /\ MayWait(t, w)
    /\ wait' = [wait EXCEPT ![t] = w]
    /\ at' = [at EXCEPT ![t] = IF Len(w.objects) = 1 THEN "enter" ELSE "poll"]
    /\ UNCHANGED <<state, timers, mutex_, releasing, locked, woken, history>>

Enter(t) ==
    /\ at[t] = "enter"
    /\ LET o == wait[t].objects[1] IN
         /\ mutex_[o] = Nobody
         /\ IF Signaled(o, t)
            THEN Take(t, {o}) /\ Return(t)
            ELSE /\ at' = [at EXCEPT ![t] = "blocked"]
                 /\ woken' = [woken EXCEPT ![t] = FALSE]
                 /\ UNCHANGED <<state, wait, grants>>
    /\ UNCHANGED <<timers, mutex_, releasing, locked, signals, surplus>>

\* A notified thread tests its predicate again.
Wake(t) ==
    /\ at[t] = "blocked" /\ woken[t]
    /\ LET o == wait[t].objects[1] IN
         /\ mutex_[o] = Nobody
         /\ IF Signaled(o, t)
            THEN Take(t, {o}) /\ Return(t)
            ELSE /\ woken' = [woken EXCEPT ![t] = FALSE]
                 /\ UNCHANGED <<state, at, wait, grants>>
    /\ UNCHANGED <<timers, mutex_, releasing, locked, signals, surplus>>

\* When the time is up the predicate is tested once more.
Timeout(t) ==
    /\ at[t] = "blocked" /\ wait[t].timed
    /\ LET o == wait[t].objects[1] IN
         /\ mutex_[o] = Nobody
         /\ IF Signaled(o, t)
            THEN Take(t, {o})
            ELSE /\ woken' = [woken EXCEPT ![t] = FALSE]
                 /\ UNCHANGED <<state, grants>>
    /\ Return(t)
    /\ UNCHANGED <<timers, mutex_, releasing, locked, signals, surplus>>

-----------------------------------------------------------------------------
(* Wait on several objects *)

Unlocked(t) == [o \in Objects |-> IF mutex_[o] = t THEN Nobody ELSE mutex_[o]]

Wanted(t) == wait[t].objects[locked[t] + 1]

\* One try_lock that succeeds.
Lock(t) ==
    /\ at[t] = "poll" /\ locked[t] < Len(wait[t].objects)
    /\ mutex_[Wanted(t)] = Nobody
    /\ mutex_' = [mutex_ EXCEPT ![Wanted(t)] = t]
    /\ locked' = [locked EXCEPT ![t] = @ + 1]
    /\ UNCHANGED <<state, timers, at, wait, releasing, woken, history>>

\* Fault: the locks already taken are forgotten.
BackOffForgets(t) ==
    /\ at[t] = "poll" /\ locked[t] < Len(wait[t].objects)
    /\ mutex_[Wanted(t)] # Nobody
    /\ locked' = [locked EXCEPT ![t] = 0]
    /\ UNCHANGED <<state, timers, mutex_, at, wait, releasing, woken, history>>

\* Fault: the locks already taken are kept while the thread tries again.
BackOffHolds(t) ==
    /\ at[t] = "poll" /\ locked[t] < Len(wait[t].objects)
    /\ mutex_[Wanted(t)] # Nobody
    /\ UNCHANGED vars

\* One that fails: the locks already taken are given back.
BackOff(t) ==
    /\ at[t] = "poll" /\ locked[t] < Len(wait[t].objects)
    /\ mutex_[Wanted(t)] # Nobody
    /\ mutex_' = Unlocked(t)
    /\ locked' = [locked EXCEPT ![t] = 0]
    /\ UNCHANGED <<state, timers, at, wait, releasing, woken, history>>

ConditionMet(t) ==
    LET O == ToSet(wait[t].objects)
    IN  IF wait[t].all THEN \A o \in O : Signaled(o, t)
        ELSE \E o \in O : Signaled(o, t)

\* All of them, or the first signaled one.
Satisfied(t) ==
    LET objects == wait[t].objects
    IN  IF wait[t].all THEN ToSet(objects)
        ELSE {objects[i] : i \in {j \in DOMAIN objects :
                 /\ Signaled(objects[j], t)
                 /\ \A k \in 1 .. j - 1 : ~Signaled(objects[k], t)}}

\* With every lock held; a timed wait may find its time is up.
Poll(t) ==
    /\ at[t] = "poll" /\ locked[t] = Len(wait[t].objects)
    /\ IF ConditionMet(t)
       THEN Take(t, Satisfied(t)) /\ Return(t)
       ELSE /\ \/ at' = [at EXCEPT ![t] = "sleep"] /\ UNCHANGED wait
               \/ wait[t].timed /\ Return(t)
            /\ UNCHANGED <<state, woken, grants>>
    /\ mutex_' = Unlocked(t)
    /\ locked' = [locked EXCEPT ![t] = 0]
    /\ UNCHANGED <<timers, releasing, signals, surplus>>

PollAgain(t) ==
    /\ at[t] = "sleep"
    /\ at' = [at EXCEPT ![t] = "poll"]
    /\ UNCHANGED <<state, timers, mutex_, wait, releasing, locked, woken, history>>

-----------------------------------------------------------------------------

WaitStep(t) ==
    Enter(t) \/ Wake(t) \/ Lock(t) \/ BackOff(t) \/ Poll(t) \/ PollAgain(t)
      \/ TestCount(t) \/ SignalMutant(t) \/ PulseReset(t) \/ Arm(t)

Completion == Complete \/ RunCallback

Next ==
    \/ Completion
    \/ \E o \in Objects : Expire(o)
    \/ \E t \in Threads :
       \/ WaitStep(t) \/ Timeout(t) \/ Die(t)
       \/ \E w \in Waits : BeginWait(t, w)
       \/ \E o \in Objects :
             \/ Set(t, o) \/ Reset(t, o) \/ Pulse(t, o) \/ ReleaseMutant(t, o)
             \/ \E n \in 1 .. maximum_count_ : ReleaseSemaphore(t, o, n)
             \/ \E w \in Waits : SignalAndWait(t, o, w)
             \/ SetTimer(t, o) \/ CancelTimer(t, o)

Spec == Init /\ [][Next]_vars

\* Waits for a mutex: of one object, or of another one with some held.
Contended(t) ==
    Enter(t) \/ Wake(t) \/ SignalMutant(t) \/ PulseReset(t) \/ Arm(t)
      \/ (Lock(t) /\ locked[t] > 0)

\* Threads inside a call are scheduled and a mutex that is free again and again
\* is obtained.  A thread that backs off yields before it tries again, so
\* threads that want the same locks do not run into each other for ever.
FairSpec ==
    /\ Spec
    /\ \A t \in Threads : WF_vars(WaitStep(t)) /\ SF_vars(Contended(t))

-----------------------------------------------------------------------------
(* Properties *)

\* Mutants that were released only by threads that held them at the time.
Proper == Mutants \ surplus

\* A mutant is held by one thread, the one recorded, as often as its waits
\* succeeded and it has not released it; unless a thread that held it before
\* released it once too often, which may take the mutant from its next holder.
MutantIsExclusive ==
    \A m \in Proper, t \in Threads :
        grants[m][t] = IF owner_[m] = t THEN count_[m] ELSE 0

\* Each unit signaled is consumed at most once: what is left in a semaphore is
\* what was released and not taken, an auto-reset event or a synchronization
\* timer satisfies at most one wait per Set or expiration, a mutant is its one
\* owner's, and a wait on all objects takes from all or from none.
UnitsAreConserved ==
    LET Taken(o) == FoldFunction(+, 0, grants[o]) IN
    /\ MutantIsExclusive
    /\ \A s \in Semaphores : count_[s] = signals[s] - Taken(s)
    /\ \A o \in AutoReset : Taken(o) + count_[o] <= signals[o]

\* The wait on several objects holds locks only while it decides.
LocksAreReturned ==
    \A o \in Objects : mutex_[o] # Nobody =>
        /\ at[mutex_[o]] = "poll"
        /\ \E i \in 1 .. locked[mutex_[o]] : wait[mutex_[o]].objects[i] = o

\* All variables have their types, and locks are held only by waits that decide.
WaitInv == WaitTypeOK /\ LocksAreReturned

\* A timer that was cancelled or is being set anew is not signaled by an
\* expiration of its earlier setting, and one that is set to expire once is not
\* signaled before it does.
TimersKeepTime ==
    \A o \in Timers :
        /\ completing = o => armed[o] # "no"
        /\ armed[o] = "once" /\ count_[o] = 1 => completing = o

\* No signal is missed: a thread blocked on an object that is signaled for it
\* was notified.  A mutant's count that has wrapped around may reach zero
\* without anybody being notified.
NoMissedSignal ==
    \A t \in Threads :
       at[t] = "blocked" /\ wait[t].objects[1] \notin surplus
         /\ Signaled(wait[t].objects[1], t) => woken[t]

\* A wait on one object that stays signaled ends, with the same exception.  Waits on several objects in
\* different orders that run into each other and back off do not keep each
\* other out for ever: of those who poll while all their conditions are met,
\* somebody returns.
SingleMet(t) ==
    /\ at[t] \in {"enter", "blocked"} /\ wait[t].objects[1] \notin surplus
    /\ Signaled(wait[t].objects[1], t)

PollersMet(P) ==
    /\ P = {t \in Threads : at[t] \in {"poll", "sleep"}}
    /\ \A t \in P : ConditionMet(t)

WaitsEnd ==
    /\ \A t \in Threads : SingleMet(t) ~> ~SingleMet(t)
    /\ \A P \in SUBSET Threads \ {{}} : PollersMet(P) ~> ~PollersMet(P)
=============================================================================
