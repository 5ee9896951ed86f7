------------------------- MODULE WaitObjectsProofs -------------------------
(***************************************************************************)
(* Proofs about WaitObjects, for any threads, any objects of any kinds and *)
(* any waits: locks are held only by waits that decide, a mutant has one   *)
(* owner as long as only owners release it, a unit that was signaled       *)
(* satisfies at most one wait, timers are signaled only by their own       *)
(* expiration, and no thread stays blocked, unnotified, on an object that  *)
(* is signaled for it.                                                     *)
(***************************************************************************)
EXTENDS WaitObjects, TLAPS, FiniteSetTheorems

AllWaits == Waits \union {NoWait} \union {On(<<o>>) : o \in Objects}

\* The object a thread waits for, pulses or sets.
Object(t) == wait[t].objects[1]

\* The parts of the inductive invariant.  What the objects hold:
Holdings ==
    /\ kind \in [Objects -> Kinds]
    /\ count_ \in [Objects -> Int]
    /\ surplus \subseteq Mutants
    /\ \A o \in Objects : o \notin surplus => count_[o] >= 0
    /\ owner_ \in [Objects -> Threads \union {Nobody}]
    /\ signals \in [Objects -> Nat] /\ grants \in [Objects -> [Threads -> Int]]
    /\ \A o \in AutoReset \union ManualReset : count_[o] <= 1
    /\ \A s \in Semaphores : count_[s] <= maximum_count_
    /\ MutantIsExclusive

\* where the threads are:
Places ==
    /\ mutex_ \in [Objects -> Threads \union {Nobody}]
    /\ at \in [Threads -> At]
    /\ wait \in [Threads -> AllWaits]
    /\ locked \in [Threads -> Nat]
    /\ \A t \in Threads :
          /\ locked[t] <= Len(wait[t].objects)
          /\ locked[t] > 0 => at[t] = "poll"
          /\ at[t] \in {"enter", "blocked"} => Object(t) \in Objects
          /\ at[t] = "pulsing" => Object(t) \in Events
          /\ at[t] = "arming" => Object(t) \in Timers
    /\ LocksAreReturned

\* who releases a mutant: unless it is a release too many, the thread holds it
\* all through the call, although it tests without the mutex;
Releasing(t) == at[t] \in {"owner_read", "count_read"}

Rightful ==
    /\ releasing \in [Threads -> Objects \union {Nobody}]
    /\ \A t \in Threads : Releasing(t) =>
          /\ releasing[t] \in Mutants
          /\ wait[t] = NoWait \/ Object(t) \in Objects
          /\ releasing[t] \notin surplus =>
                owner_[releasing[t]] = t /\ count_[releasing[t]] > 0

\* and what keeps the time: while a thread sets a timer, the timer is not
\* queued and nobody else sets it.
Clockwork ==
    /\ armed \in [Objects -> {"no", "once", "repeating"}]
    /\ completing \in Timers \union {Nobody} /\ completed \in BOOLEAN
    /\ completed => completing # Nobody
    /\ \A o \in Objects : armed[o] # "no" => o \in Timers
    /\ \A t \in Threads : at[t] = "arming" =>
          /\ armed[Object(t)] = "no"
          /\ \A u \in Threads : at[u] = "arming" /\ Object(u) = Object(t) => u = t
    /\ TimersKeepTime

Notices == woken \in [Threads -> BOOLEAN] /\ NoMissedSignal

IInv == kind \in Creations /\ Holdings /\ Places /\ Rightful /\ Clockwork /\ Notices

-----------------------------------------------------------------------------
(* Waits and kinds *)

\* Every kind of object belongs to one of these groups.
LEMMA Groups ==
  ASSUME kind \in [Objects -> Kinds], NEW o \in Objects
  PROVE  /\ o \in Mutants \/ o \in Semaphores \/ o \in AutoReset \/ o \in ManualReset
         /\ o \in Mutants => o \notin Semaphores \union AutoReset \union ManualReset
         /\ o \in Semaphores => o \notin AutoReset \union ManualReset
         /\ o \in AutoReset => o \notin ManualReset
         /\ o \in Events \union Timers <=> o \in AutoReset \union ManualReset
         /\ ~(o \in Events /\ o \in Timers)
BY DEF Kinds, Mutants, Semaphores, AutoReset, ManualReset, Events, Timers, AutoEvents,
       ManualEvents

\* A wait has a number of objects.
LEMMA WaitObjectsAreObjects ==
  ASSUME NEW w \in AllWaits
  PROVE  /\ Len(w.objects) \in Nat
         /\ \A i \in 1 .. Len(w.objects) : w.objects[i] \in Objects
BY WaitObjectsAssumption DEF AllWaits, NoWait, On

\* No wait, and the one that names the object a thread pulses or sets.
LEMMA SmallWaits ==
  /\ NoWait \in AllWaits /\ Len(NoWait.objects) = 0
  /\ \A o \in Objects : /\ On(<<o>>) \in AllWaits /\ Len(On(<<o>>).objects) = 1
                        /\ On(<<o>>).objects[1] = o
BY DEF AllWaits, NoWait, On

-----------------------------------------------------------------------------
(* What signals and successful waits do to the objects *)

\* A timer or an event is reset.
Zeroed(o) ==
    /\ count_' = [count_ EXCEPT ![o] = 0]
    /\ UNCHANGED <<kind, owner_, history>>

\* A successful wait takes from objects that are signaled.
LEMMA TakeKeepsHoldings ==
  ASSUME Holdings, NEW t \in Threads, NEW O \in SUBSET Objects,
         \A o \in O : Signaled(o, t), Take(t, O), UNCHANGED <<signals, surplus>>
  PROVE  Holdings'
<1> USE WaitObjectsAssumption DEF Holdings, Take
<1>1. kind' = kind
  OBVIOUS
<1>2. ASSUME NEW o \in Objects
      PROVE  /\ count_'[o] \in Int /\ (o \notin surplus => count_'[o] >= 0)
             /\ owner_'[o] \in Threads \union {Nobody}
             /\ grants'[o] \in [Threads -> Int]
             /\ o \in AutoReset \union ManualReset => count_'[o] <= 1
             /\ o \in Semaphores => count_'[o] <= maximum_count_
  <2>1. /\ count_[o] \in Int /\ (o \notin surplus => count_[o] >= 0)
        /\ owner_[o] \in Threads \union {Nobody}
        /\ grants[o] \in [Threads -> Int]
    OBVIOUS
  <2>2. o \in O /\ o \in Semaphores => count_[o] > 0
    BY Groups DEF Signaled
  <2>3. count_'[o] \in Int /\ (o \notin surplus => count_'[o] >= 0)
    BY <2>1, <2>2, Groups
  <2>4. owner_'[o] \in Threads \union {Nobody}
    BY <2>1
  <2>5. grants'[o] \in [Threads -> Int]
    BY <2>1
  <2>6. o \in AutoReset \union ManualReset => count_'[o] <= 1
    BY <2>1, Groups
  <2>7. o \in Semaphores => count_'[o] <= maximum_count_
    BY <2>1, <2>2, Groups
  <2> QED
    BY <2>3, <2>4, <2>5, <2>6, <2>7
<1>3. MutantIsExclusive'
  <2> SUFFICES ASSUME NEW m \in Proper, NEW u \in Threads
               PROVE  grants'[m][u] = IF owner_'[m] = u THEN count_'[m] ELSE 0
    BY <1>1 DEF MutantIsExclusive, Proper, Mutants
  <2>1. m \in Objects /\ m \notin ManualReset \union Semaphores
    BY Groups DEF Proper, Mutants
  <2>2. grants[m][u] = IF owner_[m] = u THEN count_[m] ELSE 0
    BY DEF MutantIsExclusive
  <2>3. CASE m \notin O
    BY <2>1, <2>2, <2>3
  <2>4. CASE m \in O
    <3>1. count_[m] = 0 \/ owner_[m] = t
      BY <2>4 DEF Signaled, Proper
    <3>2. /\ count_'[m] = count_[m] + 1 /\ owner_'[m] = t
          /\ grants'[m] = [grants[m] EXCEPT ![t] = @ + 1]
      BY <2>1, <2>4 DEF Proper
    <3>3. grants[m] \in [Threads -> Int] /\ count_[m] \in Int
      BY <2>1
    <3> QED
      BY <2>2, <3>1, <3>2, <3>3
  <2> QED
    BY <2>3, <2>4
<1>4. /\ count_' \in [Objects -> Int] /\ owner_' \in [Objects -> Threads \union {Nobody}]
      /\ grants' \in [Objects -> [Threads -> Int]]
  BY <1>2
<1>5. /\ \A o \in (AutoReset \union ManualReset)' : count_'[o] <= 1
      /\ \A s \in Semaphores' : count_'[s] <= maximum_count_
      /\ surplus' \subseteq Mutants'
      /\ \A o \in Objects : o \notin surplus' => count_'[o] >= 0
  BY <1>1, <1>2 DEF Mutants, AutoReset, ManualReset, Semaphores, Events, Timers, AutoEvents, ManualEvents
<1> QED
  BY <1>1, <1>3, <1>4, <1>5

\* Events and timers are set ...
LEMMA SetKeepsHoldings ==
  ASSUME Holdings, NEW e \in Events \union Timers, SignalEvent(e)
  PROVE  Holdings'
<1> USE WaitObjectsAssumption DEF Holdings, SignalEvent, Counted
<1>1. e \in Objects /\ e \notin Mutants \union Semaphores
  BY Groups DEF Events, Timers, AutoEvents, ManualEvents
<1>2. kind' = kind
  OBVIOUS
<1>3. /\ count_' \in [Objects -> Int] /\ signals' \in [Objects -> Nat]
      /\ \A o \in Objects : count_'[o] = IF o = e THEN 1 ELSE count_[o]
  BY <1>1
<1>4. MutantIsExclusive'
  BY <1>1, <1>2, <1>3 DEF MutantIsExclusive, Proper, Mutants
<1> QED
  BY <1>1, <1>2, <1>3, <1>4
     DEF Mutants, AutoReset, ManualReset, Semaphores, Events, Timers, AutoEvents, ManualEvents

\* ... and reset.
LEMMA ZeroKeepsHoldings ==
  ASSUME Holdings, NEW e \in Events \union Timers, Zeroed(e)
  PROVE  Holdings'
<1> USE WaitObjectsAssumption DEF Holdings, Zeroed, history
<1>1. e \in Objects /\ e \notin Mutants \union Semaphores
  BY Groups DEF Events, Timers, AutoEvents, ManualEvents
<1>2. kind' = kind
  OBVIOUS
<1>3. /\ count_' \in [Objects -> Int]
      /\ \A o \in Objects : count_'[o] = IF o = e THEN 0 ELSE count_[o]
  BY <1>1
<1>4. MutantIsExclusive'
  BY <1>1, <1>2, <1>3 DEF MutantIsExclusive, Proper, Mutants
<1> QED
  BY <1>1, <1>2, <1>3, <1>4
     DEF Mutants, AutoReset, ManualReset, Semaphores, Events, Timers, AutoEvents, ManualEvents

LEMMA ReleaseKeepsHoldings ==
  ASSUME Holdings, NEW s \in Semaphores, NEW n \in Nat, SignalSemaphore(s, n)
  PROVE  Holdings'
<1> USE WaitObjectsAssumption DEF Holdings, SignalSemaphore, Counted
<1>1. s \in Objects /\ s \notin Mutants \union AutoReset \union ManualReset
  BY Groups DEF Semaphores
<1>2. kind' = kind
  OBVIOUS
<1>3. /\ count_' \in [Objects -> Int] /\ signals' \in [Objects -> Nat]
      /\ \A o \in Objects : count_'[o] = IF o = s THEN count_[s] + n ELSE count_[o]
  BY <1>1
<1>4. MutantIsExclusive'
  BY <1>1, <1>2, <1>3 DEF MutantIsExclusive, Proper, Mutants
<1> QED
  BY <1>1, <1>2, <1>3, <1>4
     DEF Mutants, AutoReset, ManualReset, Semaphores, Events, Timers, AutoEvents, ManualEvents

LEMMA MutantKeepsHoldings ==
  ASSUME Holdings, Rightful, NEW t \in Threads, SignalMutant(t)
  PROVE  Holdings'
<1> DEFINE m == releasing[t]
<1>1. m \in Mutants /\ m \in Objects /\ m \notin Semaphores \union AutoReset \union ManualReset
  BY Groups DEF Holdings, Rightful, Releasing, SignalMutant, Mutants
<1>2. m \notin surplus => owner_[m] = t /\ count_[m] > 0
  BY DEF Rightful, Releasing, SignalMutant
<1>3. /\ count_' = [count_ EXCEPT ![m] = @ - 1] /\ signals' = [signals EXCEPT ![m] = @ + 1]
      /\ grants' = [grants EXCEPT ![m][t] = @ - 1]
      /\ kind' = kind /\ owner_' = owner_ /\ surplus' = surplus
  BY DEF SignalMutant, Released, Counted
<1> HIDE DEF m
<1> USE WaitObjectsAssumption DEF Holdings
<1>4. /\ count_' \in [Objects -> Int] /\ signals' \in [Objects -> Nat]
      /\ \A o \in Objects : count_'[o] = IF o = m THEN count_[m] - 1 ELSE count_[o]
  BY <1>1, <1>3
<1>5. /\ grants' \in [Objects -> [Threads -> Int]]
      /\ \A o \in Objects, u \in Threads :
            grants'[o][u] = IF o = m /\ u = t THEN grants[m][t] - 1 ELSE grants[o][u]
  BY <1>1, <1>3
<1>6. ASSUME NEW o \in Objects, o \notin surplus
      PROVE  count_'[o] >= 0
  <2>1. count_[o] \in Int /\ count_[o] >= 0 /\ count_[m] \in Int
    BY <1>1, <1>6
  <2>2. CASE o = m
    <3>1. count_[m] > 0
      BY <1>2, <1>6, <2>2
    <3> QED
      BY <1>4, <2>1, <2>2, <3>1
  <2>3. CASE o # m
    BY <1>4, <2>1, <2>3
  <2> QED
    BY <2>2, <2>3
<1>7. MutantIsExclusive'
  BY <1>1, <1>2, <1>3, <1>4, <1>5 DEF MutantIsExclusive, Proper, Mutants
<1> QED
  BY <1>1, <1>3, <1>4, <1>5, <1>6, <1>7
     DEF Mutants, AutoReset, ManualReset, Semaphores, Events, Timers, AutoEvents, ManualEvents

\* Who waits on several objects has them all locked; what satisfies the wait
\* is signaled.
LEMMA SatisfiedIsSignaled ==
  ASSUME NEW t \in Threads, wait[t] \in AllWaits, ConditionMet(t)
  PROVE  /\ Satisfied(t) \in SUBSET Objects
         /\ \A o \in Satisfied(t) : Signaled(o, t)
<1>1. DOMAIN wait[t].objects = 1 .. Len(wait[t].objects)
  BY WaitObjectsAssumption DEF AllWaits, NoWait, On
<1>2. ToSet(wait[t].objects) \subseteq Objects
  BY <1>1, WaitObjectsAreObjects DEF ToSet
<1> QED
  BY <1>1, <1>2, WaitObjectsAreObjects DEF Satisfied, ConditionMet

-----------------------------------------------------------------------------
(* Whoever is blocked on an object that becomes signaled is notified *)

LEMMA TakeNotifies ==
  ASSUME Holdings, woken \in [Threads -> BOOLEAN], NEW t \in Threads,
         NEW O \in SUBSET Objects, \A o \in O : Signaled(o, t), Take(t, O)
  PROVE  /\ woken' \in [Threads -> BOOLEAN]
         /\ \A u \in Threads \ {t}, o \in Objects :
               /\ u \in BlockedOn(o) /\ o \notin surplus
               /\ Signaled(o, u) => woken[u]
               /\ Signaled(o, u)'
               => woken'[u]
<1>1. woken' \in [Threads -> BOOLEAN]
  BY DEF Take, Notified
<1> SUFFICES ASSUME NEW u \in Threads \ {t}, NEW o \in Objects,
                    u \in BlockedOn(o), o \notin surplus, Signaled(o, u) => woken[u], Signaled(o, u)'
             PROVE  woken'[u]
  BY <1>1
<1>2. woken[u] => woken'[u]
  BY DEF Take, Notified
<1>3. Signaled(o, u)
  <2>1. kind' = kind /\ (o \in Mutants' <=> o \in Mutants)
    BY DEF Take, Mutants
  <2>2. count_[o] \in Int /\ count_[o] >= 0
    BY DEF Holdings
  <2>3. CASE o \notin O
    BY <2>1, <2>3 DEF Signaled, Take
  <2>4. CASE o \in O /\ o \in Mutants
    <3>1. o \notin ManualReset
      BY <2>4, Groups DEF Holdings
    <3>2. count_'[o] = count_[o] + 1 /\ owner_'[o] = t
      BY <2>4, <3>1 DEF Take
    <3> QED
      BY <2>1, <2>2, <2>4, <3>2 DEF Signaled
  <2>5. CASE o \in O /\ o \notin Mutants
    BY <2>1, <2>2, <2>5 DEF Signaled
  <2> QED
    BY <2>3, <2>4, <2>5
<1> QED
  BY <1>2, <1>3

LEMMA SetNotifies ==
  ASSUME Holdings, woken \in [Threads -> BOOLEAN], NEW e \in Events \union Timers,
         SignalEvent(e)
  PROVE  /\ woken' \in [Threads -> BOOLEAN]
         /\ \A u \in Threads, o \in Objects :
               /\ u \in BlockedOn(o)
               /\ Signaled(o, u) => woken[u]
               /\ Signaled(o, u)'
               => woken'[u]
<1>1. woken' \in [Threads -> BOOLEAN]
  BY DEF SignalEvent, Notify, Notified
<1> SUFFICES ASSUME NEW u \in Threads, NEW o \in Objects,
                    u \in BlockedOn(o), Signaled(o, u) => woken[u], Signaled(o, u)'
             PROVE  woken'[u]
  BY <1>1
<1>2. (woken[u] => woken'[u]) /\ (o = e => woken'[u])
  BY DEF SignalEvent, Notify, Notified
<1>3. o # e => Signaled(o, u)
  <2>1. o \in Mutants' <=> o \in Mutants
    BY DEF SignalEvent, Mutants
  <2> QED
    BY <2>1 DEF SignalEvent, Signaled, Holdings
<1> QED
  BY <1>2, <1>3

LEMMA ZeroNotifies ==
  ASSUME Holdings, NEW e \in Events \union Timers, Zeroed(e), NEW u \in Threads,
         NEW o \in Objects, Signaled(o, u)'
  PROVE  Signaled(o, u)
<1>1. o \in Mutants' <=> o \in Mutants
  BY DEF Zeroed, Mutants
<1>2. e \in Objects /\ e \notin Mutants
  BY Groups DEF Holdings, Events, Timers, AutoEvents, ManualEvents
<1> QED
  BY <1>1, <1>2 DEF Zeroed, Signaled, Holdings

LEMMA ReleaseNotifies ==
  ASSUME Holdings, woken \in [Threads -> BOOLEAN], NEW s \in Semaphores, NEW n \in Nat,
         SignalSemaphore(s, n)
  PROVE  /\ woken' \in [Threads -> BOOLEAN]
         /\ \A u \in Threads, o \in Objects :
               /\ u \in BlockedOn(o)
               /\ Signaled(o, u) => woken[u]
               /\ Signaled(o, u)'
               => woken'[u]
<1>1. woken' \in [Threads -> BOOLEAN]
  BY DEF SignalSemaphore, Notify, Notified
<1> SUFFICES ASSUME NEW u \in Threads, NEW o \in Objects,
                    u \in BlockedOn(o), Signaled(o, u) => woken[u], Signaled(o, u)'
             PROVE  woken'[u]
  BY <1>1
<1>2. (woken[u] => woken'[u]) /\ (o = s => woken'[u])
  BY DEF SignalSemaphore, Notify, Notified
<1>3. o # s => Signaled(o, u)
  <2>1. o \in Mutants' <=> o \in Mutants
    BY DEF SignalSemaphore, Mutants
  <2> QED
    BY <2>1 DEF SignalSemaphore, Signaled, Holdings
<1> QED
  BY <1>2, <1>3

LEMMA MutantNotifies ==
  ASSUME Holdings, Rightful, woken \in [Threads -> BOOLEAN], NEW t \in Threads,
         SignalMutant(t)
  PROVE  /\ woken' \in [Threads -> BOOLEAN]
         /\ \A u \in Threads, o \in Objects :
               /\ u \in BlockedOn(o)
               /\ Signaled(o, u) => woken[u]
               /\ Signaled(o, u)'
               => woken'[u]
<1> DEFINE m == releasing[t]
<1>0. m \in Mutants /\ m \in Objects
  BY DEF Rightful, Releasing, SignalMutant, Mutants
<1>1. /\ woken' = Notified(IF count_[m] = 1 THEN {m} ELSE {})
      /\ count_' = [count_ EXCEPT ![m] = @ - 1] /\ kind' = kind /\ owner_' = owner_
  BY DEF SignalMutant, Released, Notify
<1> HIDE DEF m
<1>2. woken' \in [Threads -> BOOLEAN]
  BY <1>1 DEF Notified
<1> SUFFICES ASSUME NEW u \in Threads, NEW o \in Objects,
                    u \in BlockedOn(o), Signaled(o, u) => woken[u], Signaled(o, u)'
             PROVE  woken'[u]
  BY <1>2
<1>3. (woken[u] => woken'[u]) /\ (o = m /\ count_[m] = 1 => woken'[u])
  BY <1>1 DEF Notified
<1>4. o \in Mutants' <=> o \in Mutants
  BY <1>1 DEF Mutants
<1>5. o # m => Signaled(o, u)
  BY <1>1, <1>4 DEF Signaled, Holdings
<1>6. o = m => Signaled(o, u) \/ count_[m] = 1
  <2>1. count_[m] \in Int /\ count_'[m] = count_[m] - 1
    BY <1>0, <1>1 DEF Holdings
  <2> QED
    BY <1>0, <1>1, <1>4, <2>1 DEF Signaled
<1> QED
  BY <1>3, <1>5, <1>6

-----------------------------------------------------------------------------
(* Initially *)

LEMMA InitIInv == Init => IInv
<1> SUFFICES ASSUME Init
             PROVE  IInv
  OBVIOUS
<1> USE WaitObjectsAssumption DEF Init
<1>1. Holdings
  BY DEF Holdings, MutantIsExclusive, Proper, AutoReset, ManualReset, Semaphores, Mutants, Events,
         Timers, AutoEvents, ManualEvents
<1>2. Places
  BY SmallWaits DEF Places, LocksAreReturned, At
<1>3. Clockwork
  BY DEF Clockwork, TimersKeepTime, Timers
<1>4. Notices
  BY DEF Notices, NoMissedSignal
<1>5. Rightful
  BY DEF Rightful, Releasing
<1> QED
  BY <1>1, <1>2, <1>3, <1>4, <1>5 DEF IInv

-----------------------------------------------------------------------------
(* Where the threads are *)

\* A thread that does not poll holds no locks, so it may go elsewhere, ...
Moves(t, where, w) ==
    /\ at' = [at EXCEPT ![t] = where] /\ wait' = [wait EXCEPT ![t] = w]
    /\ UNCHANGED <<kind, mutex_, locked>>

LEMMA MovesKeepPlaces ==
  ASSUME Places, NEW t \in Threads, at[t] # "poll", NEW where \in At, NEW w \in AllWaits,
         Moves(t, where, w),
         where \in {"enter", "blocked"} => w.objects[1] \in Objects,
         where = "pulsing" => w.objects[1] \in Events,
         where = "arming" => w.objects[1] \in Timers
  PROVE  Places'
<1> USE WaitObjectsAssumption DEF Places, Moves
<1>1. Events' = Events /\ Timers' = Timers
  BY DEF Events, Timers, AutoEvents, ManualEvents
<1>2. locked[t] = 0
  OBVIOUS
<1>3. ASSUME NEW u \in Threads, u # t
      PROVE  at'[u] = at[u] /\ wait'[u] = wait[u] /\ Object(u)' = Object(u)
  BY <1>3 DEF Object
<1>4. at'[t] = where /\ wait'[t] = w /\ Object(t)' = w.objects[1]
  BY DEF Object
<1>5. Len(w.objects) \in Nat
  BY WaitObjectsAreObjects
<1>6. \A u \in Threads :
          /\ locked'[u] <= Len(wait'[u].objects)
          /\ locked'[u] > 0 => at'[u] = "poll"
          /\ at'[u] \in {"enter", "blocked"} => Object(u)' \in Objects
          /\ at'[u] = "pulsing" => Object(u)' \in Events'
          /\ at'[u] = "arming" => Object(u)' \in Timers'
  BY <1>1, <1>2, <1>3, <1>4, <1>5
<1>7. LocksAreReturned'
  BY <1>3 DEF LocksAreReturned
<1> QED
  BY <1>6, <1>7

\* ... and one that polls gives all its locks back when it goes.
LEMMA UnlockKeepsPlaces ==
  ASSUME Places, NEW t \in Threads, NEW where \in {"poll", "sleep", "idle"},
         NEW w \in {wait[t], NoWait},
         at' = [at EXCEPT ![t] = where], wait' = [wait EXCEPT ![t] = w],
         mutex_' = Unlocked(t), locked' = [locked EXCEPT ![t] = 0], kind' = kind
  PROVE  Places'
<1> USE WaitObjectsAssumption DEF Places
<1>1. Events' = Events /\ Timers' = Timers
  BY DEF Events, Timers, AutoEvents, ManualEvents
<1>2. w \in AllWaits /\ Len(w.objects) \in Nat
  BY SmallWaits, WaitObjectsAreObjects
<1>3. ASSUME NEW u \in Threads, u # t
      PROVE  /\ at'[u] = at[u] /\ wait'[u] = wait[u] /\ Object(u)' = Object(u)
             /\ locked'[u] = locked[u]
  BY <1>3 DEF Object
<1>4. at'[t] = where /\ wait'[t] = w /\ locked'[t] = 0
  OBVIOUS
<1>5. at' \in [Threads -> At] /\ wait' \in [Threads -> AllWaits] /\ locked' \in [Threads -> Nat]
  BY <1>2 DEF At
<1>6. mutex_' \in [Objects -> Threads \union {Nobody}]
  BY DEF Unlocked
<1>7. \A u \in Threads :
          /\ locked'[u] <= Len(wait'[u].objects)
          /\ locked'[u] > 0 => at'[u] = "poll"
          /\ at'[u] \in {"enter", "blocked"} => Object(u)' \in Objects
          /\ at'[u] = "pulsing" => Object(u)' \in Events'
          /\ at'[u] = "arming" => Object(u)' \in Timers'
  BY <1>1, <1>2, <1>3, <1>4
<1>8. LocksAreReturned'
  <2> SUFFICES ASSUME NEW o \in Objects, mutex_'[o] # Nobody
               PROVE  /\ at'[mutex_'[o]] = "poll"
                      /\ \E i \in 1 .. locked'[mutex_'[o]] :
                            wait'[mutex_'[o]].objects[i] = o
    BY DEF LocksAreReturned
  <2>1. mutex_'[o] = mutex_[o] /\ mutex_[o] # t /\ mutex_[o] \in Threads
    BY DEF Unlocked
  <2> QED
    BY <1>3, <2>1 DEF LocksAreReturned
<1> QED
  BY <1>5, <1>6, <1>7, <1>8

\* One more lock is the wait's own.
LEMMA LockKeepsPlaces ==
  ASSUME Places, NEW t \in Threads, Lock(t)
  PROVE  Places'
<1> USE WaitObjectsAssumption DEF Places
<1>1. Events' = Events /\ Timers' = Timers
  BY DEF Lock, state, Events, Timers, AutoEvents, ManualEvents
<1>2. at' = at /\ wait' = wait /\ at[t] = "poll"
  BY DEF Lock
<1>3. Len(wait[t].objects) \in Nat /\ locked[t] \in Nat /\ locked[t] < Len(wait[t].objects)
  BY WaitObjectsAreObjects DEF Lock
<1>4. Wanted(t) \in Objects
  BY <1>3, WaitObjectsAreObjects DEF Wanted
<1>5. /\ mutex_' = [mutex_ EXCEPT ![Wanted(t)] = t]
      /\ locked' = [locked EXCEPT ![t] = locked[t] + 1]
      /\ mutex_[Wanted(t)] = Nobody
  BY DEF Lock
<1>6. /\ mutex_' \in [Objects -> Threads \union {Nobody}] /\ locked' \in [Threads -> Nat]
  BY <1>3, <1>4, <1>5
<1>7. \A u \in Threads : locked'[u] = IF u = t THEN locked[t] + 1 ELSE locked[u]
  BY <1>5
<1>8. \A u \in Threads : locked'[u] <= Len(wait[u].objects) /\ (locked'[u] > 0 => at[u] = "poll")
  BY <1>2, <1>3, <1>7
<1>9. LocksAreReturned'
  <2> SUFFICES ASSUME NEW o \in Objects, mutex_'[o] # Nobody
               PROVE  /\ at[mutex_'[o]] = "poll"
                      /\ \E i \in 1 .. locked'[mutex_'[o]] : wait[mutex_'[o]].objects[i] = o
    BY <1>2 DEF LocksAreReturned
  <2>1. CASE o = Wanted(t)
    <3>1. mutex_'[o] = t
      BY <1>5, <2>1
    <3>2. locked[t] + 1 \in 1 .. locked'[t] /\ wait[t].objects[locked[t] + 1] = o
      BY <1>3, <1>7, <2>1 DEF Wanted
    <3> QED
      BY <1>2, <3>1, <3>2
  <2>2. CASE o # Wanted(t)
    <3>1. mutex_'[o] = mutex_[o] /\ mutex_[o] \in Threads
      BY <1>5, <2>2
    <3>2. PICK i \in 1 .. locked[mutex_[o]] : wait[mutex_[o]].objects[i] = o
      BY <3>1 DEF LocksAreReturned
    <3>3. i \in 1 .. locked'[mutex_[o]]
      <4> DEFINE u == mutex_[o]
      <4>1. u \in Threads /\ locked[u] \in Nat /\ i \in 1 .. locked[u]
        BY <3>1, <3>2
      <4>2. locked'[u] = locked[u] \/ locked'[u] = locked[u] + 1
        BY <1>7, <4>1
      <4> HIDE DEF u
      <4>3. i \in 1 .. locked'[u]
        BY <4>1, <4>2
      <4> QED
        BY <4>3 DEF u
    <3> QED
      BY <3>1, <3>2, <3>3 DEF LocksAreReturned
  <2> QED
    BY <2>1, <2>2
<1> QED
  BY <1>1, <1>2, <1>6, <1>8, <1>9 DEF Object

LEMMA PlacesKept ==
  ASSUME Holdings, Places, Rightful, [Next]_vars
  PROVE  Places'
<1> USE WaitObjectsAssumption DEF state, thread, history, timers
\* Signals, resets and the timers' own steps leave the threads where they are.
<1>0. ASSUME UNCHANGED <<kind, mutex_, at, wait, locked>>
      PROVE  Places'
  BY <1>0 DEF Places, Object, LocksAreReturned, Events, Timers, AutoEvents, ManualEvents
<1>1. CASE Complete \/ RunCallback \/ \E o \in Objects : Expire(o)
  BY <1>0, <1>1 DEF Complete, RunCallback, Expire, SignalEvent
<1>2. ASSUME NEW t \in Threads, NEW o \in Objects, NEW n \in 1 .. maximum_count_,
             \/ Set(t, o) \/ Reset(t, o)
             \/ ReleaseSemaphore(t, o, n) \/ CancelTimer(t, o)
      PROVE  Places'
  BY <1>0, <1>2 DEF Set, Reset, ReleaseSemaphore, CancelTimer, SignalEvent, SignalSemaphore
<1>3. ASSUME NEW t \in Threads, Enter(t)
      PROVE  Places'
  <2>1. at[t] = "enter" /\ Object(t) \in Objects /\ wait[t] \in AllWaits
    BY <1>3 DEF Enter, Places
  <2>2. Moves(t, "idle", NoWait) \/ Moves(t, "blocked", wait[t])
    BY <1>3, <2>1 DEF Enter, Moves, Take, Return, Places
  <2> QED
    BY <2>1, <2>2, MovesKeepPlaces, SmallWaits DEF At, Object
<1>4. ASSUME NEW t \in Threads, Wake(t) \/ Timeout(t)
      PROVE  Places'
  <2>1. at[t] = "blocked" /\ Object(t) \in Objects /\ wait[t] \in AllWaits
    BY <1>4 DEF Wake, Timeout, Places
  <2>2. Moves(t, "idle", NoWait) \/ UNCHANGED <<kind, mutex_, at, wait, locked>>
    BY <1>4, <2>1 DEF Wake, Timeout, Moves, Take, Return, Places
  <2> QED
    BY <1>0, <2>1, <2>2, MovesKeepPlaces, SmallWaits DEF At, Object
<1>5. ASSUME NEW t \in Threads, Lock(t)
      PROVE  Places'
  BY <1>5, LockKeepsPlaces
<1>6. ASSUME NEW t \in Threads, BackOff(t) \/ Poll(t)
      PROVE  Places'
  <2>1. /\ mutex_' = Unlocked(t) /\ locked' = [locked EXCEPT ![t] = 0] /\ kind' = kind
        /\ at[t] = "poll"
    BY <1>6 DEF BackOff, Poll, Take
  <2>2. \E where \in {"poll", "sleep", "idle"}, w \in {wait[t], NoWait} :
            at' = [at EXCEPT ![t] = where] /\ wait' = [wait EXCEPT ![t] = w]
    BY <1>6, <2>1 DEF BackOff, Poll, Return, Places
  <2> QED
    BY <2>1, <2>2, UnlockKeepsPlaces
<1>7. ASSUME NEW t \in Threads, PollAgain(t)
      PROVE  Places'
  <2>1. at[t] = "sleep" /\ wait[t] \in AllWaits /\ Moves(t, "poll", wait[t])
    BY <1>7 DEF PollAgain, Moves, Places
  <2> QED
    BY <2>1, MovesKeepPlaces DEF At
<1>8. ASSUME NEW t \in Threads, PulseReset(t) \/ Arm(t)
      PROVE  Places'
  <2>1. at[t] \in {"pulsing", "arming"} /\ Moves(t, "idle", NoWait)
    BY <1>8 DEF PulseReset, Arm, Moves
  <2> QED
    BY <2>1, MovesKeepPlaces, SmallWaits DEF At
<1>9. ASSUME NEW t \in Threads, Die(t)
      PROVE  Places'
  <2>1. at[t] = "idle" /\ wait[t] \in AllWaits /\ Moves(t, "dead", wait[t])
    BY <1>9 DEF Die, Moves, Places
  <2> QED
    BY <2>1, MovesKeepPlaces DEF At
<1>10. ASSUME NEW t \in Threads, NEW w \in Waits, BeginWait(t, w)
       PROVE  Places'
  <2>1. w \in AllWaits /\ at[t] = "idle"
    BY <1>10 DEF AllWaits, BeginWait
  <2>2. Len(w.objects) = 1 => w.objects[1] \in Objects
    BY <2>1, WaitObjectsAreObjects
  <2>3. Moves(t, IF Len(w.objects) = 1 THEN "enter" ELSE "poll", w)
    BY <1>10 DEF BeginWait, Moves
  <2> QED
    BY <2>1, <2>2, <2>3, MovesKeepPlaces DEF At
<1>11. ASSUME NEW t \in Threads, NEW o \in Objects, NEW w \in Waits, SignalAndWait(t, o, w)
       PROVE  Places'
  <2>1. w \in AllWaits /\ at[t] = "idle" /\ Len(w.objects) = 1
    BY <1>11 DEF AllWaits, SignalAndWait, MaySignal, BeginRelease
  <2>2. w.objects[1] \in Objects
    BY <2>1, WaitObjectsAreObjects
  <2>3. Moves(t, "enter", w) \/ Moves(t, "owner_read", w)
    BY <1>11 DEF SignalAndWait, SignalEvent, SignalSemaphore, BeginRelease, Moves
  <2> QED
    BY <2>1, <2>2, <2>3, MovesKeepPlaces DEF At
<1>12. ASSUME NEW t \in Threads, NEW o \in Objects, Pulse(t, o) \/ SetTimer(t, o)
       PROVE  Places'
  <2>1. at[t] = "idle" /\ \/ Moves(t, "pulsing", On(<<o>>)) /\ o \in Events
                          \/ Moves(t, "arming", On(<<o>>)) /\ o \in Timers
    BY <1>12 DEF Pulse, SetTimer, MaySignal, SignalEvent, Moves
  <2>2. On(<<o>>) \in AllWaits /\ On(<<o>>).objects[1] = o
    BY SmallWaits
  <2> QED
    BY <2>1, <2>2, MovesKeepPlaces DEF At
<1>13. ASSUME NEW t \in Threads, NEW o \in Objects, ReleaseMutant(t, o)
       PROVE  Places'
  <2>1. at[t] = "idle" /\ Moves(t, "owner_read", NoWait)
    BY <1>13 DEF ReleaseMutant, BeginRelease, Moves
  <2> QED
    BY <2>1, MovesKeepPlaces, SmallWaits DEF At
<1>14. ASSUME NEW t \in Threads, TestCount(t) \/ SignalMutant(t)
       PROVE  Places'
  <2>1. Releasing(t) /\ wait[t] \in AllWaits
    BY <1>14 DEF TestCount, SignalMutant, Releasing, Places
  <2>2. wait[t] = NoWait \/ Object(t) \in Objects
    BY <2>1 DEF Rightful
  <2>3. \/ Moves(t, "idle", NoWait) \/ Moves(t, "count_read", wait[t])
        \/ Moves(t, IF wait[t] = NoWait THEN "idle" ELSE "enter", wait[t])
    BY <1>14 DEF TestCount, SignalMutant, Released, Return, Moves, Places
  <2> QED
    BY <2>1, <2>2, <2>3, MovesKeepPlaces, SmallWaits DEF At, Object, Releasing
<1>15. CASE UNCHANGED vars
  BY <1>0, <1>15 DEF vars
<1> QED
  BY <1>1, <1>2, <1>3, <1>4, <1>5, <1>6, <1>7, <1>8, <1>9, <1>10, <1>11, <1>12, <1>13,
     <1>14, <1>15
     DEF Next, Completion, WaitStep

-----------------------------------------------------------------------------
(* What the steps do to the objects, and whom they notify *)

\* A wait that ends takes from signaled objects or from none.
LEMMA WaitTakes ==
  ASSUME Places, NEW t \in Threads, Enter(t) \/ Wake(t) \/ Timeout(t) \/ Poll(t)
  PROVE  /\ UNCHANGED <<kind, signals, surplus>>
         /\ \/ UNCHANGED <<count_, owner_, grants>>
            \/ /\ \E O \in SUBSET Objects : (\A o \in O : Signaled(o, t)) /\ Take(t, O)
               /\ Return(t)
<1>1. CASE Enter(t) \/ Wake(t) \/ Timeout(t)
  <2>1. Object(t) \in Objects
    BY <1>1 DEF Enter, Wake, Timeout, Places
  <2>2. {Object(t)} \in SUBSET Objects
    BY <2>1
  <2> QED
    BY <1>1, <2>2 DEF Enter, Wake, Timeout, Object, Take, state
<1>2. CASE Poll(t)
  <2>1. CASE ConditionMet(t)
    <3>1. wait[t] \in AllWaits
      BY DEF Places
    <3> QED
      BY <1>2, <2>1, <3>1, SatisfiedIsSignaled DEF Poll, Take
  <2>2. CASE ~ConditionMet(t)
    BY <1>2, <2>2 DEF Poll, state
  <2> QED
    BY <2>1, <2>2
<1> QED
  BY <1>1, <1>2

\* Steps that touch no object: the timers' queue, and threads on their way.
Asks(t) ==
    \/ TestCount(t)
    \/ \E m \in Objects, w \in Waits \union {NoWait} : 
          BeginRelease(t, m, w) /\ (w = NoWait \/ Len(w.objects) = 1)

Quiet ==
    \/ RunCallback \/ \E o \in Objects : Expire(o)
    \/ UNCHANGED vars
    \/ \E t \in Threads :
          \/ Lock(t) \/ BackOff(t) \/ PollAgain(t) \/ Die(t) \/ Asks(t)
          \/ \E w \in Waits : BeginWait(t, w)
          \/ \E o \in Objects : SetTimer(t, o) \/ CancelTimer(t, o)

\* Steps that set an event or a timer.
Sets(e) ==
    \/ Complete /\ e = completing
    \/ e \in Events /\ \E t \in Threads :
          \/ Set(t, e) \/ Pulse(t, e)
          \/ SignalEvent(e) /\ \E w \in Waits : SignalAndWait(t, e, w)

\* Steps that reset one.
Resets(e) ==
    \E t \in Threads :
        \/ Reset(t, e)
        \/ PulseReset(t) /\ e = Object(t)
        \/ Arm(t) /\ e = Object(t)

Releases(s, n) ==
    \E t \in Threads :
        \/ ReleaseSemaphore(t, s, n)
        \/ SignalSemaphore(s, n) /\ \E w \in Waits : SignalAndWait(t, s, w)

LEMMA StepsByEffect ==
  ASSUME Holdings, Places, Clockwork, [Next]_vars
  PROVE  \/ Quiet
         \/ \E e \in Events \union Timers : Sets(e) /\ SignalEvent(e)
         \/ \E e \in Events \union Timers : Resets(e) /\ Zeroed(e)
         \/ \E t \in Threads : SignalMutant(t)
         \/ \E s \in Semaphores, n \in Nat : Releases(s, n) /\ SignalSemaphore(s, n)
         \/ \E t \in Threads : Enter(t) \/ Wake(t) \/ Timeout(t) \/ Poll(t)
<1>1. CASE Complete
  <2>1. completing \in Timers
    BY <1>1 DEF Complete, Clockwork
  <2> QED
    BY <1>1, <2>1 DEF Complete, Sets
<1>2. ASSUME NEW t \in Threads, NEW o \in Objects, Set(t, o) \/ Pulse(t, o)
      PROVE  \E e \in Events \union Timers : Sets(e) /\ SignalEvent(e)
  BY <1>2 DEF Set, Pulse, Sets
<1>3. ASSUME NEW t \in Threads, NEW o \in Objects, Reset(t, o)
      PROVE  \E e \in Events \union Timers : Resets(e) /\ Zeroed(e)
  BY <1>3 DEF Reset, Resets, Zeroed
<1>4. ASSUME NEW t \in Threads, PulseReset(t) \/ Arm(t)
      PROVE  \E e \in Events \union Timers : Resets(e) /\ Zeroed(e)
  <2>1. Object(t) \in Events \union Timers
    BY <1>4 DEF PulseReset, Arm, Places
  <2>2. Resets(Object(t)) /\ Zeroed(Object(t))
    BY <1>4 DEF PulseReset, Arm, Resets, Zeroed, Object, history
  <2> QED
    BY <2>1, <2>2
<1>5. ASSUME NEW t \in Threads, NEW o \in Objects, ReleaseMutant(t, o)
      PROVE  Quiet
  BY <1>5, SmallWaits DEF ReleaseMutant, Asks, Quiet
<1>6. ASSUME NEW t \in Threads, NEW o \in Objects, NEW n \in 1 .. maximum_count_,
             ReleaseSemaphore(t, o, n)
      PROVE  \E s \in Semaphores, k \in Nat : Releases(s, k) /\ SignalSemaphore(s, k)
  <2>1. n \in Nat
    BY WaitObjectsAssumption
  <2> QED
    BY <1>6, <2>1 DEF ReleaseSemaphore, Releases
<1>7. ASSUME NEW t \in Threads, NEW o \in Objects, NEW w \in Waits, SignalAndWait(t, o, w)
      PROVE  \/ \E e \in Events \union Timers : Sets(e) /\ SignalEvent(e)
             \/ Quiet
             \/ \E s \in Semaphores, k \in Nat : Releases(s, k) /\ SignalSemaphore(s, k)
  <2>2. CASE o \in Events /\ SignalEvent(o)
    BY <1>7, <2>2 DEF Sets
  <2>3. CASE o \in Semaphores /\ SignalSemaphore(o, 1)
    BY <1>7, <2>3 DEF Releases
  <2>4. CASE BeginRelease(t, o, w)
    <3>1. w \in Waits \union {NoWait} /\ Len(w.objects) = 1
      BY <1>7 DEF SignalAndWait
    <3>2. Asks(t)
      BY <2>4, <3>1 DEF Asks
    <3> QED
      BY <3>2 DEF Quiet
  <2> QED
    BY <1>7, <2>2, <2>3, <2>4 DEF SignalAndWait
<1> QED
  BY <1>1, <1>2, <1>3, <1>4, <1>5, <1>6, <1>7 DEF Next, Completion, WaitStep, Quiet, Asks

LEMMA QuietIsQuiet ==
  ASSUME Quiet
  PROVE  /\ UNCHANGED <<kind, count_, owner_, signals, grants, woken>>
         /\ surplus \subseteq surplus'
         /\ surplus \subseteq Mutants => surplus' \subseteq Mutants'
BY DEF Quiet, RunCallback, Expire, Lock, BackOff, PollAgain, Die, BeginWait, SetTimer,
       CancelTimer, Asks, TestCount, BeginRelease, Mutants, vars, state, history, thread

LEMMA UnchangedHoldings ==
  ASSUME Holdings, UNCHANGED <<kind, count_, owner_, signals, grants>>,
         surplus \subseteq surplus', surplus' \subseteq Mutants'
  PROVE  Holdings'
BY DEF Holdings, MutantIsExclusive, Proper, Mutants, Semaphores, AutoReset, ManualReset, Events,
       Timers, AutoEvents, ManualEvents

LEMMA HoldingsKept ==
  ASSUME Holdings, Places, Rightful, Clockwork, [Next]_vars
  PROVE  Holdings' /\ kind' = kind
<1>1. CASE Quiet
  BY <1>1, QuietIsQuiet, UnchangedHoldings DEF Holdings
<1>2. ASSUME NEW e \in Events \union Timers, SignalEvent(e)
      PROVE  Holdings' /\ kind' = kind
  BY <1>2, SetKeepsHoldings DEF SignalEvent
<1>3. ASSUME NEW e \in Events \union Timers, Zeroed(e)
      PROVE  Holdings' /\ kind' = kind
  BY <1>3, ZeroKeepsHoldings DEF Zeroed
<1>4. ASSUME NEW t \in Threads, SignalMutant(t)
      PROVE  Holdings' /\ kind' = kind
  BY <1>4, MutantKeepsHoldings DEF SignalMutant, Released
<1>5. ASSUME NEW s \in Semaphores, NEW n \in Nat, SignalSemaphore(s, n)
      PROVE  Holdings' /\ kind' = kind
  BY <1>5, ReleaseKeepsHoldings DEF SignalSemaphore
<1>6. ASSUME NEW t \in Threads, Enter(t) \/ Wake(t) \/ Timeout(t) \/ Poll(t)
      PROVE  Holdings' /\ kind' = kind
  <2>1. UNCHANGED <<kind, signals, surplus>> /\ surplus' \subseteq Mutants'
    BY <1>6, WaitTakes DEF Holdings, Mutants
  <2> QED
    BY <1>6, <2>1, WaitTakes, TakeKeepsHoldings, UnchangedHoldings
<1> QED
  BY <1>1, <1>2, <1>3, <1>4, <1>5, <1>6, StepsByEffect

-----------------------------------------------------------------------------
(* No signal is missed *)

\* Steps other than waits block nobody.
LEMMA NobodyBlocks ==
  ASSUME Places, NEW u \in Threads, at'[u] = "blocked",
         \/ Quiet
         \/ \E e \in Events \union Timers : Sets(e) \/ Resets(e)
         \/ \E t \in Threads : SignalMutant(t)
         \/ \E s \in Semaphores, n \in Nat : Releases(s, n)
  PROVE  at[u] = "blocked" /\ Object(u)' = Object(u)
<1> USE DEF Places, Object, At, thread
<1>1. CASE Quiet
  BY <1>1 DEF Quiet, RunCallback, Expire, Lock, BackOff, PollAgain, Die, BeginWait, SetTimer,
              CancelTimer, Asks, TestCount, BeginRelease, Return, vars
<1>2. CASE \E e \in Events \union Timers : Sets(e)
  BY <1>2 DEF Sets, Complete, Set, Pulse, SignalAndWait, BeginRelease
<1>3. CASE \E e \in Events \union Timers : Resets(e)
  BY <1>3 DEF Resets, Reset, PulseReset, Arm
<1>4. CASE \E t \in Threads : SignalMutant(t)
  BY <1>4 DEF SignalMutant, Released
<1>5. CASE \E s \in Semaphores, n \in Nat : Releases(s, n)
  BY <1>5 DEF Releases, ReleaseSemaphore, SignalAndWait, BeginRelease
<1> QED
  BY <1>1, <1>2, <1>3, <1>4, <1>5

\* A wait takes nobody's notification, and blocks its own thread only on an
\* object that is not signaled.
LEMMA WaitBlocks ==
  ASSUME Places, woken \in [Threads -> BOOLEAN], NEW t \in Threads,
         Enter(t) \/ Wake(t) \/ Timeout(t) \/ Poll(t)
  PROVE  /\ woken' \in [Threads -> BOOLEAN]
         /\ \A u \in Threads \ {t} :
               at'[u] = at[u] /\ Object(u)' = Object(u) /\ (woken[u] => woken'[u])
         /\ at'[t] = "blocked" =>
               ~Signaled(Object(t), t) /\ Object(t)' = Object(t)
         /\ Return(t) => at'[t] = "idle"
<1> USE DEF Places, Object, Return, Take, Notified, state
<1>1. CASE Enter(t)
  BY <1>1 DEF Enter
<1>2. CASE Wake(t)
  BY <1>2 DEF Wake
<1>3. CASE Timeout(t)
  BY <1>3 DEF Timeout
<1>4. CASE Poll(t)
  BY <1>4 DEF Poll
<1> QED
  BY <1>1, <1>2, <1>3, <1>4

\* A release too many is not forgotten.
LEMMA SurplusGrows ==
  ASSUME Holdings, Places, Clockwork, [Next]_vars
  PROVE  surplus \subseteq surplus'
<1>1. CASE Quiet
  BY <1>1, QuietIsQuiet
<1>2. CASE \E e \in Events \union Timers : SignalEvent(e) \/ Zeroed(e)
  BY <1>2 DEF SignalEvent, Zeroed, history
<1>3. CASE \E t \in Threads : SignalMutant(t)
  BY <1>3 DEF SignalMutant, Released
<1>4. CASE \E s \in Semaphores, n \in Nat : SignalSemaphore(s, n)
  BY <1>4 DEF SignalSemaphore
<1>5. CASE \E t \in Threads : Enter(t) \/ Wake(t) \/ Timeout(t) \/ Poll(t)
  BY <1>5, WaitTakes
<1> QED
  BY <1>1, <1>2, <1>3, <1>4, <1>5, StepsByEffect

LEMMA NoticesKept ==
  ASSUME Holdings, Places, Rightful, Clockwork, Notices, [Next]_vars
  PROVE  Notices'
<1>0. /\ woken \in [Threads -> BOOLEAN]
      /\ \A u \in Threads : at[u] = "blocked" =>
            /\ Object(u) \in Objects /\ u \in BlockedOn(Object(u))
            /\ Object(u) \notin surplus => (Signaled(Object(u), u) => woken[u])
  BY DEF Notices, NoMissedSignal, Places, BlockedOn, Object
<1>S. surplus \subseteq surplus'
  BY SurplusGrows
<1>1. ASSUME woken' \in [Threads -> BOOLEAN],
             \A u \in Threads :
                at'[u] = "blocked" /\ Object(u)' \notin surplus /\ Signaled(Object(u), u)'
                  => woken'[u]
      PROVE  Notices'
  BY <1>1, <1>S DEF Notices, NoMissedSignal, Object
<1>2. CASE Quiet
  <2>1. UNCHANGED <<kind, count_, owner_, woken>>
    BY <1>2, QuietIsQuiet
  <2>2. \A u \in Threads, o \in Objects : Signaled(o, u)' => Signaled(o, u)
    BY <2>1 DEF Signaled, Mutants
  <2> QED
    BY <1>0, <1>1, <1>2, <2>1, <2>2, NobodyBlocks
<1>3. ASSUME NEW e \in Events \union Timers, Sets(e), SignalEvent(e)
      PROVE  Notices'
  BY <1>0, <1>1, <1>3, SetNotifies, NobodyBlocks
<1>4. ASSUME NEW e \in Events \union Timers, Resets(e), Zeroed(e)
      PROVE  Notices'
  <2>1. UNCHANGED woken
    BY <1>4 DEF Resets, Reset, PulseReset, Arm, thread
  <2> QED
    BY <1>0, <1>1, <1>4, <2>1, ZeroNotifies, NobodyBlocks
<1>5. ASSUME NEW t \in Threads, SignalMutant(t)
      PROVE  Notices'
  BY <1>0, <1>1, <1>5, MutantNotifies, NobodyBlocks
<1>6. ASSUME NEW s \in Semaphores, NEW n \in Nat, Releases(s, n), SignalSemaphore(s, n)
      PROVE  Notices'
  BY <1>0, <1>1, <1>6, ReleaseNotifies, NobodyBlocks
<1>7. ASSUME NEW t \in Threads, Enter(t) \/ Wake(t) \/ Timeout(t) \/ Poll(t)
      PROVE  Notices'
  <2>1. /\ woken' \in [Threads -> BOOLEAN]
        /\ \A u \in Threads \ {t} :
              at'[u] = at[u] /\ Object(u)' = Object(u) /\ (woken[u] => woken'[u])
        /\ at'[t] = "blocked" => ~Signaled(Object(t), t) /\ Object(t)' = Object(t)
        /\ Return(t) => at'[t] = "idle"
    BY <1>0, <1>7, WaitBlocks
  <2>2. CASE /\ \E O \in SUBSET Objects : (\A o \in O : Signaled(o, t)) /\ Take(t, O)
             /\ Return(t)
    BY <1>0, <1>1, <2>1, <2>2, TakeNotifies
  <2>3. CASE UNCHANGED <<kind, count_, owner_, grants>>
    <3>1. \A u \in Threads, o \in Objects : Signaled(o, u)' => Signaled(o, u)
      BY <2>3 DEF Signaled, Mutants
    <3>2. ASSUME NEW u \in Threads, at'[u] = "blocked", Object(u)' \notin surplus,
                 Signaled(Object(u), u)'
          PROVE  woken'[u]
      <4>1. Object(u)' = Object(u)
        BY <2>1, <3>2
      <4>2. CASE u = t
        <5>1. at[t] \in {"enter", "blocked", "poll"}
          BY <1>7 DEF Enter, Wake, Timeout, Poll
        <5>2. at[t] # "poll"
          BY <1>7, <3>2, <4>2 DEF Enter, Wake, Timeout, Poll, Return, Places
        <5>3. Object(t) \in Objects
          BY <5>1, <5>2 DEF Places
        <5> QED
          BY <2>1, <3>1, <3>2, <4>1, <4>2, <5>3
      <4>3. CASE u # t
        <5>1. at[u] = "blocked" /\ (woken[u] => woken'[u])
          BY <2>1, <3>2, <4>3
        <5> QED
          BY <1>0, <3>1, <3>2, <4>1, <5>1
      <4> QED
        BY <4>2, <4>3
    <3> QED
      BY <1>1, <2>1, <3>2
  <2> QED
    BY <1>7, <2>2, <2>3, WaitTakes
<1> QED
  BY <1>2, <1>3, <1>4, <1>5, <1>6, <1>7, StepsByEffect

-----------------------------------------------------------------------------
(* The clockwork *)

\* A timer becomes signaled only by its own completion.
LEMMA OnlyCompletionSignals ==
  ASSUME Holdings, Places, Rightful, Clockwork, [Next]_vars, NEW o \in Timers, count_'[o] = 1
  PROVE  count_[o] = 1 \/ (Complete /\ completing = o)
<1>1. o \in Objects /\ o \notin Events \union Mutants \union Semaphores
  BY Groups DEF Timers, Holdings
<1>2. CASE Quiet
  BY <1>2, QuietIsQuiet
<1>3. ASSUME NEW e \in Events \union Timers, Sets(e), SignalEvent(e)
      PROVE  count_[o] = 1 \/ (Complete /\ completing = o)
  BY <1>1, <1>3 DEF Sets, SignalEvent, Holdings
<1>4. ASSUME NEW e \in Events \union Timers, Zeroed(e)
      PROVE  count_[o] = 1
  BY <1>1, <1>4 DEF Zeroed, Holdings
<1>5. ASSUME NEW t \in Threads, SignalMutant(t)
      PROVE  count_[o] = 1
  BY <1>1, <1>5 DEF SignalMutant, Released, Rightful, Releasing, Holdings
<1>6. ASSUME NEW s \in Semaphores, NEW n \in Nat, SignalSemaphore(s, n)
      PROVE  count_[o] = 1
  BY <1>1, <1>6 DEF SignalSemaphore, Holdings
<1>7. ASSUME NEW t \in Threads, Enter(t) \/ Wake(t) \/ Timeout(t) \/ Poll(t)
      PROVE  count_[o] = 1
  <2>1. ASSUME NEW O \in SUBSET Objects, Take(t, O)
        PROVE  count_'[o] \in {count_[o], 0}
    BY <1>1, <2>1 DEF Take
  <2> QED
    BY <1>7, <2>1, WaitTakes
<1> QED
  BY <1>2, <1>3, <1>4, <1>5, <1>6, <1>7, StepsByEffect

\* Steps that neither set, cancel nor complete a timer.
LEMMA OthersKeepClockwork ==
  ASSUME Holdings, Places, Rightful, Clockwork, [Next]_vars, ~Complete, kind' = kind,
         UNCHANGED timers,
         \A t \in Threads : at'[t] = "arming" => at[t] = "arming" /\ Object(t)' = Object(t)
  PROVE  Clockwork'
<1>1. Timers' = Timers
  BY DEF Timers
<1>2. TimersKeepTime'
  BY <1>1, OnlyCompletionSignals DEF Clockwork, TimersKeepTime, timers
<1> QED
  BY <1>1, <1>2 DEF Clockwork, timers

LEMMA ClockworkKept ==
  ASSUME Holdings, Places, Rightful, Clockwork, [Next]_vars
  PROVE  Clockwork'
<1> USE WaitObjectsAssumption
<1>1. kind' = kind /\ Timers' = Timers
  BY HoldingsKept DEF Timers
<1>2. \A o \in Timers : o \in Objects
  BY DEF Timers
<1>3. CASE Complete
  <2>1. UNCHANGED <<armed, completing, at, wait>> /\ completed' = TRUE /\ completing # Nobody
    BY <1>3 DEF Complete
  <2>2. \A o \in Timers : count_'[o] = 1 => count_[o] = 1 \/ completing = o
    BY OnlyCompletionSignals
  <2>3. TimersKeepTime'
    BY <1>1, <2>1, <2>2 DEF Clockwork, TimersKeepTime
  <2> QED
    BY <1>1, <2>1, <2>3 DEF Clockwork, Object
<1>4. CASE RunCallback
  <2>1. /\ completing \in Timers /\ UNCHANGED <<count_, at, wait>>
        /\ completing' = Nobody /\ completed' = FALSE
    BY <1>4 DEF RunCallback, Clockwork, state, thread
  <2>2. armed' = [armed EXCEPT ![completing] =
                      IF armed[completing] = "once" THEN "no" ELSE armed[completing]]
    BY <1>4 DEF RunCallback
  <2>3. TimersKeepTime'
    BY <1>1, <1>2, <2>1, <2>2 DEF Clockwork, TimersKeepTime
  <2>4. /\ armed' \in [Objects -> {"no", "once", "repeating"}]
        /\ \A o \in Objects : armed[o] = "no" => armed'[o] = "no"
    BY <1>2, <2>2 DEF Clockwork
  <2>5. \A t \in Threads : at'[t] = "arming" =>
            /\ armed'[Object(t)'] = "no"
            /\ \A u \in Threads : at'[u] = "arming" /\ Object(u)' = Object(t)' => u = t
    BY <1>2, <2>1, <2>4 DEF Clockwork, Places, Object
  <2>6. \A o \in Objects : armed'[o] # "no" => o \in Timers'
    BY <1>1, <2>4 DEF Clockwork
  <2> QED
    BY <2>1, <2>3, <2>4, <2>5, <2>6 DEF Clockwork
<1>5. ASSUME NEW o \in Objects, Expire(o)
      PROVE  Clockwork'
  <2>1. /\ o \in Timers /\ UNCHANGED <<count_, armed, completed, at, wait>>
        /\ completing = Nobody /\ completing' = o /\ armed[o] # "no"
    BY <1>5 DEF Expire, Clockwork, state, thread
  <2>2. TimersKeepTime'
    BY <1>1, <1>2, <2>1 DEF Clockwork, TimersKeepTime
  <2> QED
    BY <1>1, <1>2, <2>1, <2>2 DEF Clockwork, Object
<1>6. ASSUME NEW t \in Threads, NEW o \in Objects, SetTimer(t, o)
      PROVE  Clockwork'
  <2>1. /\ o \in Timers /\ completing # o /\ UNCHANGED <<count_, completing, completed>>
        /\ \A u \in Threads : at[u] = "arming" => Object(u) # o
        /\ armed' = [armed EXCEPT ![o] = "no"]
    BY <1>6 DEF SetTimer, Disarmed, TimerUnlocked, Object, state
  <2>2. /\ \A u \in Threads \ {t} : at'[u] = at[u] /\ Object(u)' = Object(u)
        /\ Object(t)' = o
    BY <1>6, SmallWaits DEF SetTimer, Places, Object
  <2>3. TimersKeepTime'
    BY <1>1, <1>2, <2>1 DEF Clockwork, TimersKeepTime
  <2>4. \A u \in Threads : at'[u] = "arming" =>
            /\ armed'[Object(u)'] = "no"
            /\ \A v \in Threads : at'[v] = "arming" /\ Object(v)' = Object(u)' => v = u
    BY <1>2, <2>1, <2>2 DEF Clockwork, Places
  <2> QED
    BY <1>1, <1>2, <2>1, <2>3, <2>4 DEF Clockwork
<1>7. ASSUME NEW t \in Threads, Arm(t)
      PROVE  Clockwork'
  <2> DEFINE o == Object(t)
  <2>1. o \in Timers /\ armed[o] = "no" /\ completing # o
    BY <1>2, <1>7 DEF Arm, Places, Clockwork, TimersKeepTime
  <2>2. PICK how \in {"once", "repeating"} : armed' = [armed EXCEPT ![o] = how]
    BY <1>7 DEF Arm, Object
  <2>3. count_' = [count_ EXCEPT ![o] = 0] /\ UNCHANGED <<completing, completed>>
    BY <1>7 DEF Arm, Object
  <2>4. /\ \A u \in Threads \ {t} : at'[u] = at[u] /\ Object(u)' = Object(u)
        /\ at'[t] # "arming"
    BY <1>7 DEF Arm, Places, Object
  <2>5. \A u \in Threads \ {t} : at[u] = "arming" => Object(u) # o
    BY <1>7 DEF Arm, Clockwork
  <2> HIDE DEF o
  <2>6. \A p \in Timers : count_'[p] = IF p = o THEN 0 ELSE count_[p]
    BY <1>2, <2>1, <2>3 DEF Holdings
  <2>7. TimersKeepTime'
    BY <1>1, <1>2, <2>1, <2>2, <2>3, <2>6 DEF Clockwork, TimersKeepTime
  <2>8. \A u \in Threads : at'[u] = "arming" =>
            /\ armed'[Object(u)'] = "no"
            /\ \A v \in Threads : at'[v] = "arming" /\ Object(v)' = Object(u)' => v = u
    <3>1. ASSUME NEW u \in Threads, at'[u] = "arming"
          PROVE  /\ u # t /\ at[u] = "arming" /\ Object(u)' = Object(u)
                 /\ Object(u) \in Objects \ {o}
      BY <1>2, <2>4, <2>5, <3>1 DEF Places
    <3>2. \A p \in Objects \ {o} : armed'[p] = armed[p]
      BY <2>2 DEF Clockwork
    <3> QED
      BY <3>1, <3>2 DEF Clockwork
  <2> QED
    BY <1>1, <1>2, <2>1, <2>2, <2>3, <2>7, <2>8 DEF Clockwork
<1>8. ASSUME NEW t \in Threads, NEW o \in Objects, CancelTimer(t, o)
      PROVE  Clockwork'
  <2>1. /\ o \in Timers /\ completing # o /\ UNCHANGED <<count_, completing, completed, at, wait>>
        /\ armed' = [armed EXCEPT ![o] = "no"]
    BY <1>8 DEF CancelTimer, Disarmed, state, thread
  <2>2. TimersKeepTime'
    BY <1>1, <1>2, <2>1 DEF Clockwork, TimersKeepTime
  <2> QED
    BY <1>1, <1>2, <2>1, <2>2 DEF Clockwork, Object
<1>9. ASSUME ~Complete,
             \/ \E t \in Threads : Enter(t) \/ Wake(t) \/ Timeout(t) \/ Poll(t) \/ Lock(t)
                                   \/ BackOff(t) \/ PollAgain(t) \/ PulseReset(t) \/ Die(t)
                                   \/ TestCount(t) \/ SignalMutant(t)
             \/ \E t \in Threads, w \in Waits : BeginWait(t, w)
             \/ \E t \in Threads, o \in Objects :
                   \/ Set(t, o) \/ Reset(t, o) \/ Pulse(t, o) \/ ReleaseMutant(t, o)
                   \/ \E n \in 1 .. maximum_count_ : ReleaseSemaphore(t, o, n)
                   \/ \E w \in Waits : SignalAndWait(t, o, w)
             \/ UNCHANGED vars
      PROVE  Clockwork'
  <2>1. CASE \E t \in Threads : Enter(t) \/ Wake(t) \/ Timeout(t) \/ Poll(t)
    <3>1. UNCHANGED timers
      BY <2>1 DEF Enter, Wake, Timeout, Poll
    <3>2. \A u \in Threads : at'[u] = "arming" => at[u] = "arming" /\ Object(u)' = Object(u)
      BY <2>1 DEF Enter, Wake, Timeout, Poll, Return, Places, Object
    <3> QED
      BY <1>1, <1>9, <3>1, <3>2, OthersKeepClockwork
  <2>2. CASE \E t \in Threads : \/ Lock(t) \/ BackOff(t) \/ PollAgain(t) \/ PulseReset(t)
                                \/ Die(t) \/ TestCount(t) \/ SignalMutant(t)
    <3>1. UNCHANGED timers
      BY <2>2 DEF Lock, BackOff, PollAgain, PulseReset, Die, TestCount, SignalMutant, Released,
                  timers
    <3>2. \A u \in Threads : at'[u] = "arming" => at[u] = "arming" /\ Object(u)' = Object(u)
      BY <2>2 DEF Lock, BackOff, PollAgain, PulseReset, Die, TestCount, SignalMutant, Released,
                  Return, Places, Object
    <3> QED
      BY <1>1, <1>9, <3>1, <3>2, OthersKeepClockwork
  <2>3. CASE \E t \in Threads :
                \/ \E w \in Waits : BeginWait(t, w)
                \/ \E o \in Objects : \/ Pulse(t, o) \/ ReleaseMutant(t, o)
                                    \/ \E w \in Waits : SignalAndWait(t, o, w)
    <3>1. UNCHANGED timers
      BY <2>3 DEF BeginWait, SignalAndWait, ReleaseMutant, BeginRelease, Pulse
    <3>2. \A u \in Threads : at'[u] = "arming" => at[u] = "arming" /\ Object(u)' = Object(u)
      <4>1. ASSUME NEW t \in Threads, NEW w \in AllWaits, NEW where \in {"enter", "poll", "pulsing", "owner_read"},
                   at' = [at EXCEPT ![t] = where], wait' = [wait EXCEPT ![t] = w]
            PROVE  \A u \in Threads : at'[u] = "arming" => at[u] = "arming" /\ Object(u)' = Object(u)
        BY <4>1 DEF Places, Object
      <4>2. CASE \E t \in Threads, w \in Waits : BeginWait(t, w)
        BY <4>1, <4>2 DEF BeginWait, AllWaits
      <4>3. CASE \E t \in Threads, o \in Objects, w \in Waits : SignalAndWait(t, o, w)
        BY <4>1, <4>3 DEF SignalAndWait, BeginRelease, AllWaits
      <4>5. CASE \E t \in Threads, o \in Objects : ReleaseMutant(t, o)
        BY <4>1, <4>5, SmallWaits DEF ReleaseMutant, BeginRelease
      <4>4. CASE \E t \in Threads, o \in Objects : Pulse(t, o)
        BY <4>1, <4>4, SmallWaits DEF Pulse
      <4> QED
        BY <2>3, <4>2, <4>3, <4>4, <4>5
    <3> QED
      BY <1>1, <1>9, <3>1, <3>2, OthersKeepClockwork
  <2>4. CASE UNCHANGED <<timers, at, wait>>
    BY <1>1, <1>9, <2>4, OthersKeepClockwork DEF Object
  <2>5. ASSUME NEW t \in Threads, NEW o \in Objects,
               \/ Set(t, o) \/ Reset(t, o)
               \/ \E n \in 1 .. maximum_count_ : ReleaseSemaphore(t, o, n)
        PROVE  UNCHANGED <<timers, at, wait>>
    BY <2>5 DEF Set, Reset, ReleaseSemaphore, thread
  <2> QED
    BY <1>9, <2>1, <2>2, <2>3, <2>4, <2>5 DEF vars, thread
<1> QED
  BY <1>3, <1>4, <1>5, <1>6, <1>7, <1>8, <1>9 DEF Next, Completion, WaitStep

-----------------------------------------------------------------------------
(* Releasing a mutant *)

\* Who does not begin to release and whose mutant is left alone stays rightful.
LEMMA RightfulFrame ==
  ASSUME Rightful, UNCHANGED <<kind, surplus>>,
         releasing' \in [Threads -> Objects \union {Nobody}],
         \A u \in Threads : Releasing(u)' =>
            /\ Releasing(u) /\ releasing'[u] = releasing[u]
            /\ wait'[u] = wait[u]
            /\ releasing[u] \notin surplus =>
                  /\ count_'[releasing[u]] = count_[releasing[u]]
                  /\ owner_'[releasing[u]] = owner_[releasing[u]]
  PROVE  Rightful'
BY DEF Rightful, Mutants, Object

LEMMA RightfulKept ==
  ASSUME Holdings, Places, Rightful, Clockwork, [Next]_vars
  PROVE  Rightful'
<1> USE WaitObjectsAssumption
<1>1. ASSUME NEW t \in Threads, NEW m \in Objects, NEW w \in Waits \union {NoWait},
             w = NoWait \/ Len(w.objects) = 1, BeginRelease(t, m, w)
      PROVE  Rightful'
  <2>1. /\ m \in Mutants /\ owner_[m] = t /\ UNCHANGED state
        /\ surplus' = IF count_[m] = 0 THEN surplus \union {m} ELSE surplus
        /\ releasing' = [releasing EXCEPT ![t] = m] /\ wait' = [wait EXCEPT ![t] = w]
        /\ at' = [at EXCEPT ![t] = "owner_read"]
    BY <1>1 DEF BeginRelease
  <2>2. w \in AllWaits /\ (w = NoWait \/ w.objects[1] \in Objects)
    <3>1. CASE w = NoWait
      BY <3>1, SmallWaits
    <3>2. CASE w \in Waits /\ Len(w.objects) = 1
      BY <3>2, WaitObjectsAreObjects DEF AllWaits
    <3> QED
      BY <1>1, <3>1, <3>2
  <2>3. m \notin surplus' => count_[m] > 0
    BY <2>1 DEF Holdings
  <2>4. ASSUME NEW u \in Threads, u # t
        PROVE  /\ releasing'[u] = releasing[u] /\ wait'[u] = wait[u] /\ at'[u] = at[u]
               /\ releasing[u] \notin surplus' => releasing[u] \notin surplus
    BY <2>1, <2>4
  <2>5. releasing'[t] = m /\ wait'[t] = w
    BY <2>1 DEF Rightful, Places
  <2>6. releasing' \in [Threads -> Objects \union {Nobody}]
    BY <2>1 DEF Rightful
  <2> QED
    BY <2>1, <2>2, <2>3, <2>4, <2>5, <2>6 DEF Rightful, Releasing, Object, Mutants, state
<1>2. ASSUME NEW t \in Threads, TestCount(t)
      PROVE  Rightful'
  BY <1>2, RightfulFrame DEF TestCount, Return, Releasing, Rightful, Places, state, history
<1>3. ASSUME NEW t \in Threads, SignalMutant(t)
      PROVE  Rightful'
  <2>1. /\ count_' = [count_ EXCEPT ![releasing[t]] = @ - 1]
        /\ releasing' = [releasing EXCEPT ![t] = Nobody]
        /\ at' = [at EXCEPT ![t] = IF wait[t] = NoWait THEN "idle" ELSE "enter"]
        /\ UNCHANGED <<kind, owner_, surplus, wait>> /\ Releasing(t)
    BY <1>3 DEF SignalMutant, Released, Releasing
  <2>2. ~Releasing(t)' /\ \A u \in Threads \ {t} : at'[u] = at[u] /\ releasing'[u] = releasing[u]
    BY <2>1 DEF Releasing, Places
  <2>3. \A u \in Threads \ {t} : Releasing(u) /\ releasing[u] \notin surplus =>
            releasing[u] # releasing[t] /\ releasing[u] \in Objects
    BY <2>1 DEF Rightful, Mutants
  <2>4. \A u \in Threads \ {t} : Releasing(u) /\ releasing[u] \notin surplus =>
            count_'[releasing[u]] = count_[releasing[u]]
    BY <2>1, <2>3 DEF Holdings
  <2>5. releasing' \in [Threads -> Objects \union {Nobody}]
    BY <2>1 DEF Rightful
  <2> QED
    BY <2>1, <2>2, <2>4, <2>5, RightfulFrame DEF Releasing
<1>4. ASSUME NEW t \in Threads, Enter(t) \/ Wake(t) \/ Timeout(t) \/ Poll(t)
      PROVE  Rightful'
  <2>1. UNCHANGED <<kind, surplus, releasing>> /\ ~Releasing(t)
    BY <1>4, WaitTakes DEF Enter, Wake, Timeout, Poll, Releasing
  <2>2. ~Releasing(t)' /\ \A u \in Threads \ {t} : at'[u] = at[u] /\ wait'[u] = wait[u]
    BY <1>4 DEF Enter, Wake, Timeout, Poll, Return, Releasing, Places
  <2>3. ASSUME NEW u \in Threads, Releasing(u), releasing[u] \notin surplus
        PROVE  /\ count_'[releasing[u]] = count_[releasing[u]]
               /\ owner_'[releasing[u]] = owner_[releasing[u]]
    <3>1. CASE UNCHANGED <<count_, owner_, grants>>
      BY <3>1
    <3>2. ASSUME NEW O \in SUBSET Objects, \A o \in O : Signaled(o, t), Take(t, O)
          PROVE  /\ count_'[releasing[u]] = count_[releasing[u]]
                 /\ owner_'[releasing[u]] = owner_[releasing[u]]
      <4>1. releasing[u] \in Mutants /\ releasing[u] \in Objects
        BY <2>3 DEF Rightful, Mutants
      <4>2. releasing[u] \notin O
        BY <2>1, <2>3, <3>2, <4>1 DEF Rightful, Signaled
      <4> QED
        BY <3>2, <4>1, <4>2 DEF Take
    <3> QED
      BY <1>4, <3>1, <3>2, WaitTakes
  <2> QED
    BY <2>1, <2>2, <2>3, RightfulFrame DEF Releasing, Rightful
\* Steps of others, or of a thread that is not releasing and does not begin to.
<1>5. ASSUME UNCHANGED <<kind, surplus, releasing>>,
             \A u \in Threads : Releasing(u)' => Releasing(u) /\ wait'[u] = wait[u],
             \A m \in Mutants : count_'[m] = count_[m] /\ owner_'[m] = owner_[m]
      PROVE  Rightful'
  BY <1>5, RightfulFrame DEF Rightful
<1>6. CASE Complete \/ RunCallback \/ (\E o \in Objects : Expire(o)) \/ UNCHANGED vars
  <2>1. /\ UNCHANGED <<kind, surplus, releasing, at, wait, owner_>>
        /\ UNCHANGED count_ \/ (SignalEvent(completing) /\ completing # Nobody)
    BY <1>6 DEF Complete, RunCallback, Expire, SignalEvent, vars, state, thread, history
  <2>2. \A m \in Mutants : m \notin Timers /\ m \in Objects
    BY Groups DEF Holdings, Mutants
  <2>3. \A m \in Mutants : count_'[m] = count_[m]
    BY <2>1, <2>2 DEF SignalEvent, Clockwork, Holdings
  <2> QED
    BY <1>5, <2>1, <2>3 DEF Releasing
<1>7. ASSUME NEW t \in Threads, NEW o \in Objects,
             \/ Set(t, o) \/ Reset(t, o) \/ Pulse(t, o)
             \/ \E n \in 1 .. maximum_count_ : ReleaseSemaphore(t, o, n)
             \/ SetTimer(t, o) \/ CancelTimer(t, o)
             \/ \E w \in Waits : SignalAndWait(t, o, w) /\ ~BeginRelease(t, o, w)
      PROVE  Rightful'
  <2>1. /\ UNCHANGED <<kind, surplus, releasing, owner_>>
        /\ \A p \in Objects \ {o} : count_'[p] = count_[p]
        /\ o \in Events \union Timers \union Semaphores
    BY <1>7 DEF Set, Reset, Pulse, ReleaseSemaphore, SetTimer, CancelTimer, SignalAndWait,
                SignalEvent, SignalSemaphore, Holdings, state, thread, history
  <2>2. \A m \in Mutants : m # o /\ m \in Objects
    BY <2>1, Groups DEF Holdings, Mutants
  <2>3. \A u \in Threads : Releasing(u)' => Releasing(u) /\ wait'[u] = wait[u]
    BY <1>7 DEF Set, Reset, Pulse, ReleaseSemaphore, SetTimer, CancelTimer, SignalAndWait,
                Releasing, Places, thread
  <2> QED
    BY <1>5, <2>1, <2>2, <2>3
<1>8. ASSUME NEW t \in Threads,
             \/ Lock(t) \/ BackOff(t) \/ PollAgain(t) \/ Die(t) \/ PulseReset(t) \/ Arm(t)
             \/ \E w \in Waits : BeginWait(t, w)
      PROVE  Rightful'
  <2>1. UNCHANGED <<kind, surplus, releasing, owner_>>
    BY <1>8 DEF Lock, BackOff, PollAgain, Die, PulseReset, Arm, BeginWait, state, history
  <2>2. \A u \in Threads : Releasing(u)' => Releasing(u) /\ wait'[u] = wait[u]
    BY <1>8 DEF Lock, BackOff, PollAgain, Die, PulseReset, Arm, BeginWait, Releasing, Places
  <2>3. at[t] \in {"pulsing", "arming"} => Object(t) \in Events \union Timers
    BY DEF Places
  <2>4. \/ UNCHANGED count_
        \/ count_' = [count_ EXCEPT ![Object(t)] = 0] /\ Object(t) \in Events \union Timers
    BY <1>8, <2>3 DEF Lock, BackOff, PollAgain, Die, PulseReset, Arm, BeginWait, Object, state
  <2>5. \A m \in Mutants : m \notin Events \union Timers /\ m \in Objects
    BY Groups DEF Holdings, Mutants
  <2>6. \A m \in Mutants : count_'[m] = count_[m]
    BY <2>4, <2>5 DEF Holdings
  <2> QED
    BY <1>5, <2>1, <2>2, <2>6
<1>9. ASSUME NEW t \in Threads, NEW o \in Objects,
             ReleaseMutant(t, o) \/ \E w \in Waits : SignalAndWait(t, o, w) /\ BeginRelease(t, o, w)
      PROVE  Rightful'
  <2>1. CASE ReleaseMutant(t, o)
    BY <1>1, <2>1 DEF ReleaseMutant
  <2>2. ASSUME NEW w \in Waits, SignalAndWait(t, o, w), BeginRelease(t, o, w)
        PROVE  Rightful'
    <3>1. Len(w.objects) = 1 /\ w \in Waits \union {NoWait}
      BY <2>2 DEF SignalAndWait
    <3> QED
      BY <1>1, <2>2, <3>1
  <2> QED
    BY <1>9, <2>1, <2>2
<1> QED
  BY <1>2, <1>3, <1>4, <1>6, <1>7, <1>8, <1>9 DEF Next, Completion, WaitStep

-----------------------------------------------------------------------------
(* Results *)

LEMMA NextIInv == IInv /\ [Next]_vars => IInv'
<1> SUFFICES ASSUME IInv, [Next]_vars
             PROVE  IInv'
  OBVIOUS
<1>1. Holdings' /\ kind' = kind
  BY HoldingsKept DEF IInv
<1>2. Places'
  BY PlacesKept DEF IInv
<1>3. Clockwork'
  BY ClockworkKept DEF IInv
<1>4. Notices'
  BY NoticesKept DEF IInv
<1>5. Rightful'
  BY RightfulKept DEF IInv
<1> QED
  BY <1>1, <1>2, <1>3, <1>4, <1>5 DEF IInv

LEMMA Invariance == Spec => []IInv
BY InitIInv, NextIInv, PTL DEF Spec

\* The mutex of an object is held across steps only by a wait on several
\* objects that is about to decide and that names the object (WaitMultiple).
THEOREM WaitInvariance == Spec => []WaitInv
<1>1. IInv => WaitInv
  <2> SUFFICES ASSUME IInv
               PROVE  WaitInv
    OBVIOUS
  <2>1. \A t \in Threads : locked[t] \in 0 .. Len(wait[t].objects)
    BY WaitObjectsAreObjects DEF IInv, Places
  <2>2. completing \in Objects \union {Nobody}
    BY DEF IInv, Clockwork, Timers
  <2> QED
    BY <2>1, <2>2
       DEF IInv, Holdings, Places, Rightful, Clockwork, Notices, WaitInv, WaitTypeOK, AllWaits
<1> QED
  BY <1>1, Invariance, PTL

\* A mutant has one owner, who holds it as often as its waits succeeded and it
\* has not released it, also when its owner has ended: although Release tests
\* owner_ and count_ before it locks, only a release too many, by a thread that
\* held the mutant before, can break that.
THEOREM MutantsExclude == Spec => []MutantIsExclusive
<1>1. IInv => MutantIsExclusive
  BY DEF IInv, Holdings
<1> QED
  BY <1>1, Invariance, PTL

\* A timer that was cancelled or is being set anew is not signaled by its
\* earlier setting.
THEOREM TimersAreOnTime == Spec => []TimersKeepTime
<1>1. IInv => TimersKeepTime
  BY DEF IInv, Clockwork
<1> QED
  BY <1>1, Invariance, PTL

\* Whoever is blocked on an object that is signaled for it has been notified.
THEOREM SignalsAreNotMissed == Spec => []NoMissedSignal
<1>1. IInv => NoMissedSignal
  BY DEF IInv, Notices
<1> QED
  BY <1>1, Invariance, PTL

-----------------------------------------------------------------------------
(* Sums *)

\* Induction over finite sets, as the search for a smallest counterexample.
LEMMA SmallestSubset ==
  ASSUME NEW S, IsFiniteSet(S), NEW B \in SUBSET SUBSET S, B # {}
  PROVE  \E s \in B : \A r \in B : r \subseteq s => r = s
<1> DEFINE R == StrictSubsetOrdering(S)
<1>1. IsWellFoundedOn(R, SUBSET S)
  BY FS_StrictSubsetOrderingWellFounded, FS_FiniteSubsetsOfFinite
<1>2. PICK s \in B : \A r \in B : <<r, s>> \notin R
  BY <1>1, WFMin
<1> QED
  BY <1>2 DEF StrictSubsetOrdering

\* The sum of the values f has on T, by the recursion that folds make.
Chosen(s) == CHOOSE x \in s : TRUE

PartialSums(f, T, g) ==
    g = [s \in SUBSET T |-> IF s = {} THEN 0 ELSE f[Chosen(s)] + g[s \ {Chosen(s)}]]

Total(f, T) == (CHOOSE g : PartialSums(f, T, g))[T]

\* The fold of the properties is that sum.
LEMMA FoldIsTotal == \A f : FoldFunction(+, 0, f) = Total(f, DOMAIN f)
BY DEF FoldFunction, FoldFunctionOnSet, MapThenFoldSet, Total, PartialSums, Chosen

\* The element the fold takes next.
LEMMA ChosenIsElement ==
  \A s : s # {} => Chosen(s) \in s
BY DEF Chosen

\* The recursion of the fold has one solution at most, ...
LEMMA PartialSumsAgree ==
  ASSUME NEW f, NEW T, IsFiniteSet(T), NEW g, NEW h, PartialSums(f, T, g),
         PartialSums(f, T, h)
  PROVE  g = h
<1> DEFINE B == {s \in SUBSET T : g[s] # h[s]}
<1>0. /\ g = [s \in SUBSET T |-> g[s]] /\ g[{}] = 0
      /\ h = [s \in SUBSET T |-> h[s]] /\ h[{}] = 0
  BY DEF PartialSums
<1>1. CASE B = {}
  BY <1>0, <1>1
<1>2. CASE B # {}
  <2>1. PICK s \in B : \A r \in B : r \subseteq s => r = s
    <3> B \in SUBSET SUBSET T
      OBVIOUS
    <3> HIDE DEF B
    <3> QED
      BY <1>2, SmallestSubset
  <2>2. s # {}
    BY <1>0, <2>1
  <2>3. s \ {Chosen(s)} \in SUBSET T /\ s \ {Chosen(s)} # s /\ s \ {Chosen(s)} \subseteq s
    BY <2>1, <2>2, ChosenIsElement
  <2>4. g[s \ {Chosen(s)}] = h[s \ {Chosen(s)}]
    BY <2>1, <2>3
  <2>5. /\ g[s] = f[Chosen(s)] + g[s \ {Chosen(s)}]
        /\ h[s] = f[Chosen(s)] + h[s \ {Chosen(s)}]
    BY <2>1, <2>2 DEF PartialSums
  <2> QED
    BY <2>1, <2>4, <2>5
<1> QED
  BY <1>1, <1>2

\* ... which is the solution for every subset as well, ...
LEMMA PartialSumsRestricted ==
  ASSUME NEW f, NEW T, IsFiniteSet(T), NEW g, PartialSums(f, T, g), NEW R \in SUBSET T
  PROVE  PartialSums(f, R, [r \in SUBSET R |-> g[r]]) /\ g[R] = Total(f, R)
<1> DEFINE h == [r \in SUBSET R |-> g[r]]
<1>1. PartialSums(f, R, h)
  <2>1. \A r \in SUBSET R : r # {} => r \ {Chosen(r)} \in SUBSET R
    OBVIOUS
  <2>2. \A r \in SUBSET R :
           h[r] = IF r = {} THEN 0 ELSE f[Chosen(r)] + h[r \ {Chosen(r)}]
    BY <2>1 DEF PartialSums
  <2> QED
    BY <2>2 DEF PartialSums
<1>2. IsFiniteSet(R)
  BY FS_Subset
<1>3. Total(f, R) = h[R]
  <2> HIDE DEF h
  <2>1. PartialSums(f, R, CHOOSE k : PartialSums(f, R, k))
    BY <1>1
  <2> QED
    BY <1>1, <1>2, <2>1, PartialSumsAgree DEF Total
<1> QED
  BY <1>1, <1>3

\* ... and it has one.
LEMMA PartialSumsExist ==
  ASSUME NEW f, NEW T, IsFiniteSet(T)
  PROVE  \E g : PartialSums(f, T, g)
<1> DEFINE B == {s \in SUBSET T : ~ \E g : PartialSums(f, s, g)}
<1> SUFFICES ASSUME B # {}
             PROVE  FALSE
  OBVIOUS
<1>1. PICK s \in B : \A r \in B : r \subseteq s => r = s
  <2> B \in SUBSET SUBSET T
    OBVIOUS
  <2> HIDE DEF B
  <2> QED
    BY SmallestSubset
<1> DEFINE Rest(r) == r \ {Chosen(r)}
           g == [r \in SUBSET s |-> IF r = {} THEN 0 ELSE f[Chosen(r)] + Total(f, Rest(r))]
<1>2. ASSUME NEW r \in SUBSET s, r # s
      PROVE  g[r] = Total(f, r)
  <2>1. PICK h : PartialSums(f, r, h)
    BY <1>1, <1>2
  <2>2. IsFiniteSet(r)
    BY FS_Subset
  <2>3. \A q \in SUBSET r : h[q] = Total(f, q)
    BY <2>1, <2>2, PartialSumsRestricted
  <2>4. r \in SUBSET r /\ Rest(r) \in SUBSET r
    OBVIOUS
  <2>5. h[r] = IF r = {} THEN 0 ELSE f[Chosen(r)] + h[Rest(r)]
    BY <2>1 DEF PartialSums
  <2> QED
    BY <2>3, <2>4, <2>5
<1>3. \A r \in SUBSET s : r # {} => Rest(r) \in SUBSET s /\ Rest(r) # s
  BY ChosenIsElement
<1>4. \A r \in SUBSET s : g[r] = IF r = {} THEN 0 ELSE f[Chosen(r)] + g[Rest(r)]
  BY <1>2, <1>3
<1>5. PartialSums(f, s, g)
  BY <1>4 DEF PartialSums
<1> QED
  BY <1>1, <1>5

\* So the sum can be taken element by element, ...
LEMMA TotalOfValues ==
  ASSUME NEW f, NEW T, IsFiniteSet(T)
  PROVE  Total(f, T) = IF T = {} THEN 0 ELSE f[Chosen(T)] + Total(f, T \ {Chosen(T)})
<1>1. PICK g : PartialSums(f, T, g)
  BY PartialSumsExist
<1>2. \A R \in SUBSET T : g[R] = Total(f, R)
  BY <1>1, PartialSumsRestricted
<1>3. T \in SUBSET T /\ T \ {Chosen(T)} \in SUBSET T
  OBVIOUS
<1>4. g[T] = IF T = {} THEN 0 ELSE f[Chosen(T)] + g[T \ {Chosen(T)}]
  BY <1>1, <1>3 DEF PartialSums
<1> QED
  BY <1>2, <1>3, <1>4

\* ... changes with the value of one element as one expects, ...
LEMMA TotalOfChange ==
  ASSUME NEW T, IsFiniteSet(T), NEW f \in [T -> Int], NEW g \in [T -> Int], NEW t \in T,
         \A x \in T \ {t} : g[x] = f[x]
  PROVE  Total(f, T) \in Int /\ Total(g, T) = Total(f, T) - f[t] + g[t]
<1> DEFINE Good(s) == /\ Total(f, s) \in Int
                      /\ Total(g, s) = IF t \in s THEN Total(f, s) - f[t] + g[t] ELSE Total(f, s)
           B == {s \in SUBSET T : ~Good(s)}
<1>1. CASE B = {}
  BY <1>1
<1>2. CASE B # {}
  <2>1. PICK s \in B : \A r \in B : r \subseteq s => r = s
    <3> B \in SUBSET SUBSET T
      OBVIOUS
    <3> HIDE DEF B
    <3> QED
      BY <1>2, SmallestSubset
  <2>2. IsFiniteSet(s)
    BY FS_Subset
  <2> DEFINE c == Chosen(s)
             q == s \ {c}
  <2>3. CASE s = {}
    <3>1. Total(f, {}) = 0 /\ Total(g, {}) = 0
      BY <2>2, <2>3, TotalOfValues
    <3> QED
      BY <2>1, <2>3, <3>1
  <2>4. CASE s # {}
    <3>1. c \in s /\ c \in T /\ q \in SUBSET T /\ q # s
      BY <2>1, <2>4, ChosenIsElement
    <3>2. Good(q)
      BY <2>1, <3>1
    <3>3. Total(f, s) = f[c] + Total(f, q) /\ Total(g, s) = g[c] + Total(g, q)
      BY <2>2, <2>4, TotalOfValues
    <3>4. c \notin q /\ \A x : x \in q <=> x \in s /\ x # c
      OBVIOUS
    <3>5. f[c] \in Int /\ g[c] \in Int /\ (c # t => g[c] = f[c])
      BY <3>1
    <3>6. Good(s)
      <4> HIDE DEF c, q
      <4>1. CASE c = t
        BY <4>1, <3>1, <3>2, <3>3, <3>4, <3>5
      <4>2. CASE c # t
        BY <4>2, <3>1, <3>2, <3>3, <3>4, <3>5
      <4> QED
        BY <4>1, <4>2
    <3> QED
      BY <2>1, <3>6
  <2> QED
    BY <2>3, <2>4
<1> QED
  BY <1>1, <1>2

\* ... and is zero when all values are.
LEMMA TotalOfZeros ==
  ASSUME NEW T, IsFiniteSet(T)
  PROVE  Total([x \in T |-> 0], T) = 0
<1> DEFINE z == [x \in T |-> 0]
           B == {s \in SUBSET T : Total(z, s) # 0}
<1>1. CASE B # {}
  <2>1. PICK s \in B : \A r \in B : r \subseteq s => r = s
    <3> B \in SUBSET SUBSET T
      OBVIOUS
    <3> HIDE DEF B
    <3> QED
      BY <1>1, SmallestSubset
  <2>2. IsFiniteSet(s)
    BY FS_Subset
  <2>3. s # {}
    BY <2>1, <2>2, TotalOfValues
  <2>4. Chosen(s) \in T /\ Total(z, s \ {Chosen(s)}) = 0
    BY <2>1, <2>3, ChosenIsElement
  <2>5. Total(z, s) = z[Chosen(s)] + Total(z, s \ {Chosen(s)})
    BY <2>2, <2>3, TotalOfValues
  <2> QED
    BY <2>1, <2>4, <2>5
<1> QED
  BY <1>1

-----------------------------------------------------------------------------
(* Units *)

\* What semaphores, auto-reset events and synchronization timers have left.
Units ==
    /\ \A s \in Semaphores : count_[s] = signals[s] - Total(grants[s], Threads)
    /\ \A o \in AutoReset : Total(grants[o], Threads) + count_[o] <= signals[o]

\* What was taken of an object is a number.
LEMMA TotalsAreNumbers ==
  ASSUME Holdings, NEW o \in Objects
  PROVE  Total(grants[o], Threads) \in Int
<1>1. grants[o] \in [Threads -> Int] /\ IsFiniteSet(Threads)
  BY WaitObjectsAssumption DEF Holdings
<1>2. CASE Threads = {}
  <2>1. Total(grants[o], Threads) = 0
    BY <1>1, <1>2, TotalOfValues
  <2> QED
    BY <2>1
<1>3. CASE Threads # {}
  <2>1. PICK t : t \in Threads
    BY <1>3
  <2>2. \A x \in Threads \ {t} : grants[o][x] = grants[o][x]
    OBVIOUS
  <2> QED
    BY <1>1, <2>1, <2>2, TotalOfChange
<1> QED
  BY <1>2, <1>3

\* An object of which nothing is taken keeps its units ...
LEMMA UnitsUntouched ==
  ASSUME Holdings, Units, kind' = kind,
         count_' \in [Objects -> Int], signals' \in [Objects -> Nat],
         \A o \in Semaphores \union AutoReset : grants'[o] = grants[o],
         \A s \in Semaphores : count_'[s] - signals'[s] = count_[s] - signals[s],
         \A o \in AutoReset : count_'[o] - signals'[o] <= count_[o] - signals[o]
  PROVE  Units'
<1>1. Semaphores' = Semaphores /\ AutoReset' = AutoReset
  BY DEF Semaphores, AutoReset, AutoEvents, Timers
<1>2. ASSUME NEW o \in Objects
      PROVE  /\ Total(grants[o], Threads) \in Int
             /\ count_[o] \in Int /\ count_'[o] \in Int /\ signals[o] \in Nat /\ signals'[o] \in Nat
  <2>1. Total(grants[o], Threads) \in Int
    BY TotalsAreNumbers
  <2> QED
    BY <2>1 DEF Holdings
<1>3. \A o \in Semaphores : o \in Objects /\ o \notin AutoReset
  BY Groups DEF Semaphores, Holdings
<1>4. \A o \in AutoReset : o \in Objects
  BY DEF AutoReset, AutoEvents, Timers
<1>5. ASSUME NEW s \in Semaphores
      PROVE  count_'[s] = signals'[s] - Total(grants'[s], Threads)
  BY <1>2, <1>3 DEF Units
<1>6. ASSUME NEW o \in AutoReset
      PROVE  Total(grants'[o], Threads) + count_'[o] <= signals'[o]
  BY <1>2, <1>4 DEF Units
<1> QED
  BY <1>1, <1>5, <1>6 DEF Units

\* ... and one of which a thread takes has one less.
LEMMA TakeKeepsUnits ==
  ASSUME Holdings, Units, NEW t \in Threads, NEW O \in SUBSET Objects,
         \A o \in O : Signaled(o, t), Take(t, O), UNCHANGED signals
  PROVE  Units'
<1>1. Semaphores' = Semaphores /\ AutoReset' = AutoReset
  BY DEF Take, Semaphores, AutoReset, AutoEvents, Timers
<1>2. ASSUME NEW o \in Semaphores \union AutoReset
      PROVE  /\ o \in Objects /\ o \notin Mutants \union ManualReset
             /\ o \in Semaphores => o \notin AutoReset
  BY <1>2, Groups DEF Holdings, Semaphores, AutoReset, AutoEvents, Timers
<1>3. ASSUME NEW o \in Semaphores \union AutoReset
      PROVE  /\ o \in O => /\ count_[o] > 0
                           /\ count_'[o] = IF o \in Semaphores THEN count_[o] - 1 ELSE 0
                           /\ Total(grants'[o], Threads) = Total(grants[o], Threads) + 1
             /\ o \notin O => count_'[o] = count_[o] /\ grants'[o] = grants[o]
  <2>1. o \notin O => count_'[o] = count_[o] /\ grants'[o] = grants[o]
    BY <1>2, <1>3 DEF Take
  <2>2. ASSUME o \in O
        PROVE  /\ count_[o] > 0
               /\ count_'[o] = IF o \in Semaphores THEN count_[o] - 1 ELSE 0
               /\ grants'[o] = [grants[o] EXCEPT ![t] = @ + 1]
    BY <1>2, <1>3, <2>2 DEF Take, Signaled
  <2>3. ASSUME o \in O
        PROVE  Total(grants'[o], Threads) = Total(grants[o], Threads) + 1
    <3>1. grants[o] \in [Threads -> Int] /\ IsFiniteSet(Threads)
      BY <1>2, <1>3, WaitObjectsAssumption DEF Holdings
    <3>2. /\ grants'[o] \in [Threads -> Int]
          /\ \A u \in Threads \ {t} : grants'[o][u] = grants[o][u]
          /\ grants'[o][t] = grants[o][t] + 1
      BY <2>2, <2>3, <3>1
    <3>3. /\ Total(grants[o], Threads) \in Int
          /\ Total(grants'[o], Threads) = Total(grants[o], Threads) - grants[o][t] + grants'[o][t]
      BY <3>1, <3>2, TotalOfChange
    <3> QED
      BY <3>1, <3>2, <3>3
  <2> QED
    BY <2>1, <2>2, <2>3
<1>4. ASSUME NEW o \in Semaphores \union AutoReset
      PROVE  /\ Total(grants[o], Threads) \in Int /\ count_[o] \in Int /\ signals'[o] = signals[o]
             /\ signals[o] \in Nat /\ (o \in AutoReset => count_[o] <= 1)
  BY <1>2, <1>4, TotalsAreNumbers DEF Holdings
<1>5. ASSUME NEW s \in Semaphores
      PROVE  count_'[s] = signals'[s] - Total(grants'[s], Threads)
  BY <1>3, <1>4 DEF Units
<1>6. ASSUME NEW o \in AutoReset
      PROVE  Total(grants'[o], Threads) + count_'[o] <= signals'[o]
  BY <1>2, <1>3, <1>4 DEF Units
<1> QED
  BY <1>1, <1>5, <1>6 DEF Units

\* Every step conserves the units.
LEMMA UnitsKept ==
  ASSUME Holdings, Places, Rightful, Clockwork, Units, [Next]_vars
  PROVE  Units'
<1>1. Holdings' /\ kind' = kind
  BY HoldingsKept
<1>2. /\ count_ \in [Objects -> Int] /\ signals \in [Objects -> Nat]
      /\ count_' \in [Objects -> Int] /\ signals' \in [Objects -> Nat]
  BY <1>1 DEF Holdings
<1>3. \A o \in Semaphores \union AutoReset : o \in Objects /\ o \notin Mutants
  BY Groups DEF Holdings, Semaphores, AutoReset, AutoEvents, Timers
<1>4. \A e \in Events \union Timers : e \in Objects /\ e \notin Semaphores
  BY Groups DEF Holdings, Semaphores, Events, AutoEvents, ManualEvents, Timers
<1>4a. \A o \in AutoReset : count_[o] >= 0
  BY <1>3 DEF Holdings
<1>5. CASE UNCHANGED <<count_, signals, grants>>
  BY <1>1, <1>2, <1>3, <1>5, UnitsUntouched
<1>6. CASE Quiet
  BY <1>5, <1>6, QuietIsQuiet
<1>7. ASSUME NEW e \in Events \union Timers, SignalEvent(e)
      PROVE  Units'
  <2>1. /\ \A o \in Objects : /\ count_'[o] = IF o = e THEN 1 ELSE count_[o]
                              /\ signals'[o] = IF o = e THEN signals[o] + 1 ELSE signals[o]
        /\ grants' = grants
    BY <1>2, <1>7 DEF SignalEvent, Counted
  <2>2. \A s \in Semaphores : count_'[s] - signals'[s] = count_[s] - signals[s]
    BY <1>3, <1>4, <1>7, <2>1
  <2>3. ASSUME NEW o \in AutoReset
        PROVE  count_'[o] - signals'[o] <= count_[o] - signals[o]
    BY <1>2, <1>3, <1>4a, <2>1
  <2> QED
    BY <1>1, <1>2, <2>1, <2>2, <2>3, UnitsUntouched
<1>8. ASSUME NEW e \in Events \union Timers, Zeroed(e)
      PROVE  Units'
  <2>1. /\ \A o \in Objects : count_'[o] = IF o = e THEN 0 ELSE count_[o]
        /\ signals' = signals /\ grants' = grants
    BY <1>2, <1>8 DEF Zeroed, history
  <2>2. \A s \in Semaphores : count_'[s] - signals'[s] = count_[s] - signals[s]
    BY <1>3, <1>4, <1>8, <2>1
  <2>3. ASSUME NEW o \in AutoReset
        PROVE  count_'[o] - signals'[o] <= count_[o] - signals[o]
    BY <1>2, <1>3, <1>4a, <2>1
  <2> QED
    BY <1>1, <1>2, <2>1, <2>2, <2>3, UnitsUntouched
<1>9. ASSUME NEW t \in Threads, SignalMutant(t)
      PROVE  Units'
  <2>1. \A o \in Objects \ {releasing[t]} :
            count_'[o] = count_[o] /\ signals'[o] = signals[o] /\ grants'[o] = grants[o]
    BY <1>2, <1>9 DEF SignalMutant, Released, Counted, Holdings
  <2>2. releasing[t] \in Mutants
    BY <1>9 DEF SignalMutant, Rightful, Releasing
  <2> QED
    BY <1>1, <1>2, <1>3, <2>1, <2>2, UnitsUntouched
<1>10. ASSUME NEW s \in Semaphores, NEW n \in Nat, SignalSemaphore(s, n)
       PROVE  Units'
  <2>1. /\ \A o \in Objects : /\ count_'[o] = IF o = s THEN count_[o] + n ELSE count_[o]
                              /\ signals'[o] = IF o = s THEN signals[o] + n ELSE signals[o]
        /\ grants' = grants
    BY <1>2, <1>10 DEF SignalSemaphore, Counted
  <2> QED
    BY <1>1, <1>2, <1>3, <2>1, UnitsUntouched
<1>11. ASSUME NEW t \in Threads, Enter(t) \/ Wake(t) \/ Timeout(t) \/ Poll(t)
       PROVE  Units'
  <2>1. UNCHANGED signals
    BY <1>11, WaitTakes
  <2>2. CASE UNCHANGED <<count_, owner_, grants>>
    BY <1>5, <2>1, <2>2
  <2>3. CASE \E O \in SUBSET Objects : (\A o \in O : Signaled(o, t)) /\ Take(t, O)
    BY <2>1, <2>3, TakeKeepsUnits
  <2> QED
    BY <1>11, <2>2, <2>3, WaitTakes
<1> QED
  BY <1>6, <1>7, <1>8, <1>9, <1>10, <1>11, StepsByEffect

\* Each unit signaled satisfies at most one wait, whatever waits compete.
THEOREM UnitsConserved == Spec => []UnitsAreConserved
<1>1. Init => Units
  <2> SUFFICES ASSUME Init
               PROVE  Units
    OBVIOUS
  <2>1. \A o \in Objects : Total(grants[o], Threads) = 0
    BY WaitObjectsAssumption, TotalOfZeros DEF Init
  <2>2. \A o \in Semaphores \union AutoReset : o \in Objects /\ count_[o] = 0 /\ signals[o] = 0
    BY DEF Init, Semaphores, AutoReset, AutoEvents, Timers
  <2> QED
    BY <2>1, <2>2 DEF Units
<1>2. IInv /\ Units /\ [Next]_vars => Units'
  BY UnitsKept DEF IInv
<1>3. IInv /\ Units => UnitsAreConserved
  <2> SUFFICES ASSUME IInv, Units
               PROVE  UnitsAreConserved
    OBVIOUS
  <2>1. \A o \in Objects : FoldFunction(+, 0, grants[o]) = Total(grants[o], Threads)
    BY FoldIsTotal DEF IInv, Holdings
  <2>2. \A o \in Semaphores \union AutoReset : o \in Objects
    BY DEF Semaphores, AutoReset, AutoEvents, Timers
  <2> QED
    BY <2>1, <2>2 DEF UnitsAreConserved, Units, IInv, Holdings
<1> QED
  BY <1>1, <1>2, <1>3, Invariance, PTL DEF Spec
=============================================================================
