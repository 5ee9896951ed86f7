--------------------------- MODULE ReadWriteLock ---------------------------
(***************************************************************************)
(* The guest kernel's reader-writer lock (X_ERWLOCK and the ...            *)
(* ReadWriteLock exports, kernel/xboxkrnl/xboxkrnl_threading.cc).          *)
(*                                                                         *)
(* Four counters are changed under a spin lock, so each section is one     *)
(* action.  A thread that must wait does so after leaving the section, on  *)
(* a synchronization event (writers) or a semaphore (readers); a release   *)
(* hands the lock over in the counters first and signals afterwards, so a  *)
(* hand-over may be in flight while other threads come and go.             *)
(***************************************************************************)
EXTENDS Integers, FiniteSets

CONSTANTS
    Writers,    \* threads that acquire exclusively
    Readers,    \* threads that acquire shared
    Modulus     \* BOUND: stands for 2^32, the width of the counters

ASSUME RWAssumption ==
    /\ IsFiniteSet(Writers) /\ IsFiniteSet(Readers)
    /\ Modulus \in Nat /\ Modulus > Cardinality(Writers \union Readers) + 1

VARIABLES
    lock_count, writers_waiting_count, readers_waiting_count,
    readers_entry_count,
    writer_event,       \* the synchronization event is set
    reader_semaphore,   \* its count
    at,                 \* what each thread does with the lock
    grant               \* permits a releasing reader or writer has yet to post

counts == <<lock_count, writers_waiting_count, readers_waiting_count,
            readers_entry_count>>
vars == <<counts, writer_event, reader_semaphore, at, grant>>

Threads == Writers \union Readers
At == {"idle", "wait_write", "wait_read", "writing", "reading",
       "set_event", "release_semaphore"}

\* be<uint32_t> arithmetic.
Wrap(n) == n % Modulus

RWTypeOK ==
    /\ lock_count \in -1 .. Cardinality(Threads) - 1
    /\ writers_waiting_count \in 0 .. Modulus - 1
    /\ readers_waiting_count \in 0 .. Modulus - 1
    /\ readers_entry_count \in 0 .. Modulus - 1
    /\ writer_event \in BOOLEAN
    /\ reader_semaphore \in Nat
    /\ at \in [Threads -> At]
    /\ grant \in [Threads -> Nat]

Init ==
    /\ lock_count = -1
    /\ writers_waiting_count = 0
    /\ readers_waiting_count = 0
    /\ readers_entry_count = 0
    /\ writer_event = FALSE
    /\ reader_semaphore = 0
    /\ at = [t \in Threads |-> "idle"]
    /\ grant = [t \in Threads |-> 0]

Goto(t, where) == at' = [at EXCEPT ![t] = where]

-----------------------------------------------------------------------------

AcquireExclusive(t) ==
    /\ at[t] = "idle"
    /\ lock_count' = lock_count + 1
    /\ IF lock_count = -1
       THEN Goto(t, "writing") /\ UNCHANGED writers_waiting_count
       ELSE /\ writers_waiting_count' = Wrap(writers_waiting_count + 1)
            /\ Goto(t, "wait_write")
    /\ UNCHANGED <<readers_waiting_count, readers_entry_count, writer_event,
                   reader_semaphore, grant>>

\* A failing try changes nothing.
TryToAcquireExclusive(t) ==
    /\ at[t] = "idle"
    /\ lock_count < 0
    /\ lock_count' = 0
    /\ Goto(t, "writing")
    /\ UNCHANGED <<writers_waiting_count, readers_waiting_count,
                   readers_entry_count, writer_event, reader_semaphore, grant>>

\* Fault: waiting writers are not looked at.
MayAlwaysShare == readers_entry_count # 0

\* Readers share only with readers that are in, and not past a waiting writer.
MayShare == readers_entry_count # 0 /\ writers_waiting_count = 0

AcquireShared(t) ==
    /\ at[t] = "idle"
    /\ lock_count' = lock_count + 1
    /\ IF lock_count = -1 \/ MayShare
       THEN /\ readers_entry_count' = Wrap(readers_entry_count + 1)
            /\ Goto(t, "reading")
            /\ UNCHANGED readers_waiting_count
       ELSE /\ readers_waiting_count' = Wrap(readers_waiting_count + 1)
            /\ Goto(t, "wait_read")
            /\ UNCHANGED readers_entry_count
    /\ UNCHANGED <<writers_waiting_count, writer_event, reader_semaphore, grant>>

\* Fault: a lock count of zero is taken for a free lock.
TrySharedOffByOne(t) ==
    /\ at[t] = "idle"
    /\ lock_count <= 0 \/ MayShare
    /\ lock_count' = lock_count + 1
    /\ readers_entry_count' = Wrap(readers_entry_count + 1)
    /\ Goto(t, "reading")
    /\ UNCHANGED <<writers_waiting_count, readers_waiting_count, writer_event,
                   reader_semaphore, grant>>

TryToAcquireShared(t) ==
    /\ at[t] = "idle"
    /\ lock_count < 0 \/ MayShare
    /\ lock_count' = lock_count + 1
    /\ readers_entry_count' = Wrap(readers_entry_count + 1)
    /\ Goto(t, "reading")
    /\ UNCHANGED <<writers_waiting_count, readers_waiting_count, writer_event,
                   reader_semaphore, grant>>

\* The waits are satisfied: the event resets, the semaphore counts down.
EnterExclusive(t) ==
    /\ at[t] = "wait_write"
    /\ writer_event
    /\ writer_event' = FALSE
    /\ Goto(t, "writing")
    /\ UNCHANGED <<counts, reader_semaphore, grant>>

EnterShared(t) ==
    /\ at[t] = "wait_read"
    /\ reader_semaphore > 0
    /\ reader_semaphore' = reader_semaphore - 1
    /\ Goto(t, "reading")
    /\ UNCHANGED <<counts, writer_event, grant>>

-----------------------------------------------------------------------------
(* ExReleaseReadWriteLock: one section, four ways out *)

Holds(t) == at[t] \in {"writing", "reading"}

\* The last one out.
ReleaseFree(t) ==
    /\ lock_count - 1 < 0
    /\ readers_entry_count' = 0
    /\ Goto(t, "idle")
    /\ UNCHANGED <<writers_waiting_count, readers_waiting_count, grant>>

\* Fault: only one of the waiting readers gets a permit.
ReleaseToOneReader(t) ==
    /\ lock_count - 1 >= 0
    /\ readers_entry_count = 0 /\ readers_waiting_count # 0
    /\ readers_entry_count' = readers_waiting_count
    /\ readers_waiting_count' = 0
    /\ grant' = [grant EXCEPT ![t] = 1]
    /\ Goto(t, "release_semaphore")
    /\ UNCHANGED writers_waiting_count

\* With no reader counted in, all waiting readers enter together.
ReleaseToReaders(t) ==
    /\ lock_count - 1 >= 0
    /\ readers_entry_count = 0 /\ readers_waiting_count # 0
    /\ readers_entry_count' = readers_waiting_count
    /\ readers_waiting_count' = 0
    /\ grant' = [grant EXCEPT ![t] = readers_waiting_count]
    /\ Goto(t, "release_semaphore")
    /\ UNCHANGED writers_waiting_count

\* Fault: the first reader to leave lets a writer in.
ReleaseAnyReader(t) ==
    /\ lock_count - 1 >= 0
    /\ ~(readers_entry_count = 0 /\ readers_waiting_count # 0)
    /\ readers_entry_count' = Wrap(readers_entry_count - 1)
    /\ writers_waiting_count' = Wrap(writers_waiting_count - 1)
    /\ Goto(t, "set_event")
    /\ UNCHANGED <<readers_waiting_count, grant>>

\* Otherwise one reader less; with none left a waiting writer is let in.
ReleaseOneReader(t) ==
    /\ lock_count - 1 >= 0
    /\ ~(readers_entry_count = 0 /\ readers_waiting_count # 0)
    /\ readers_entry_count' = Wrap(readers_entry_count - 1)
    /\ IF readers_entry_count' # 0
       THEN Goto(t, "idle") /\ UNCHANGED writers_waiting_count
       ELSE /\ writers_waiting_count' = Wrap(writers_waiting_count - 1)
            /\ Goto(t, "set_event")
    /\ UNCHANGED <<readers_waiting_count, grant>>

Release(t) ==
    /\ Holds(t)
    /\ lock_count' = lock_count - 1
    /\ ReleaseFree(t) \/ ReleaseToReaders(t) \/ ReleaseOneReader(t)
    /\ UNCHANGED <<writer_event, reader_semaphore>>

\* After the spin lock was released.
SetEvent(t) ==
    /\ at[t] = "set_event"
    /\ writer_event' = TRUE
    /\ Goto(t, "idle")
    /\ UNCHANGED <<counts, reader_semaphore, grant>>

ReleaseSemaphore(t) ==
    /\ at[t] = "release_semaphore"
    /\ reader_semaphore' = reader_semaphore + grant[t]
    /\ grant' = [grant EXCEPT ![t] = 0]
    /\ Goto(t, "idle")
    /\ UNCHANGED <<counts, writer_event>>

-----------------------------------------------------------------------------

Leave(t) == Release(t) \/ SetEvent(t) \/ ReleaseSemaphore(t)

Next ==
    \/ \E w \in Writers :
          AcquireExclusive(w) \/ TryToAcquireExclusive(w) \/ EnterExclusive(w)
    \/ \E r \in Readers :
          AcquireShared(r) \/ TryToAcquireShared(r) \/ EnterShared(r)
    \/ \E t \in Threads : Leave(t)

Spec == Init /\ [][Next]_vars

\* Whoever holds the lock releases it, and a satisfied wait returns.  A
\* permit may be contended, so a single waiter is not promised it each time.
Fairness ==
    /\ \A t \in Threads : WF_vars(Leave(t))
    /\ \A w \in Writers : SF_vars(EnterExclusive(w))
    /\ \A r \in Readers : SF_vars(EnterShared(r))

FairSpec == Spec /\ Fairness

-----------------------------------------------------------------------------
(* Properties *)

\* A writer excludes everybody, readers exclude writers, also while
\* hand-overs are in flight.
MutualExclusion ==
    \A w \in Writers : at[w] = "writing" =>
        \A t \in Threads \ {w} : ~Holds(t)

\* A permit is posted for a thread that waits for it, and for it alone: a
\* hand-over to a writer is never pending together with another owner.
HandOverIsExclusive ==
    writer_event \/ (\E t \in Threads : at[t] = "set_event") =>
        /\ \A t \in Threads : ~Holds(t)
        /\ \E w \in Writers : at[w] = "wait_write"
        /\ reader_semaphore = 0 /\ \A t \in Threads : grant[t] = 0

\* The counter that decides about hand-overs counts those who hold the lock
\* or wait for it.
LockCountIsExact ==
    lock_count + 1 = Cardinality({t \in Threads : Holds(t)
                                   \/ at[t] \in {"wait_write", "wait_read"}})

\* All variables have their types, the count is exact and hand-overs exclude.
RWInv == RWTypeOK /\ LockCountIsExact /\ HandOverIsExclusive

\* A reader that arrives never passes a writer that waits.
WriterNotOvertaken ==
    [][\A r \in Readers :
         at[r] = "idle" /\ at'[r] = "reading"
           => \A w \in Writers : at[w] # "wait_write"]_vars

\* A release has taken readers_entry_count below zero
\* (xboxkrnl_threading.cc:1815): the hand-over to a waiting writer was left out,
\* and nobody wakes it any more.
CountWrapped == readers_entry_count > Cardinality(Threads)

\* Everybody who asks gets the lock, unless the count of readers wraps around.
EveryoneEnters ==
    \A t \in Threads :
       at[t] \in {"wait_write", "wait_read"} ~> Holds(t) \/ CountWrapped
=============================================================================
