----------------------------- MODULE LockProofs -----------------------------
(***************************************************************************)
(* Proofs about the two locks.                                             *)
(*                                                                         *)
(* The reader-writer lock, for any numbers of readers and writers and      *)
(* counters wide enough for them: counts are exact, owners exclude each    *)
(* other and hand-overs, and readers do not overtake writers.              *)
(*                                                                         *)
(* The global mutex, for any number of threads, calls and levels of        *)
(* nesting: it excludes, loses no wake-up and implements a recursive lock. *)
(***************************************************************************)
EXTENDS ReadWriteLock, GlobalMutex, FiniteSetTheorems, TLAPS

-----------------------------------------------------------------------------
(* The reader-writer lock *)


\* How many threads are in one of some stages.
Num(stages) == Cardinality({t \in Threads : at[t] \in stages})

Writing    == Num({"writing"})
Reading    == Num({"reading"})
WaitWrite  == Num({"wait_write"})
WaitRead   == Num({"wait_read"})
Signalling == Num({"set_event"})
Posting    == Num({"release_semaphore"})
Counted    == Num({"writing", "reading", "wait_write", "wait_read"})

\* The readers that are counted in; a count that wrapped around counts nobody.
Entries == IF CountWrapped THEN 0 ELSE readers_entry_count

\* Permits that waiting readers were granted and have not used.
Permits == Entries - Reading

\* Hand-overs to a writer that are in flight.
EventSet  == IF writer_event THEN 1 ELSE 0
HandOvers == Signalling + EventSet

Roles ==
    \A t \in Threads : /\ at[t] \in {"writing", "wait_write"} => t \in Writers
                       /\ at[t] \in {"reading", "wait_read"} => t \in Readers

\* Each counter says how many threads are where.
Counts ==
    /\ lock_count + 1 = Counted
    /\ Counted = Writing + Reading + WaitWrite + WaitRead
    /\ WaitWrite = writers_waiting_count + HandOvers
    /\ WaitRead = readers_waiting_count + Permits
    /\ CountWrapped => readers_entry_count = Modulus - 1 /\ writers_waiting_count > 0

\* The permits are in the semaphore, or one thread is about to post them.
Posts ==
    /\ Permits >= 0
    /\ \/ Posting = 0 /\ reader_semaphore = Permits
       \/ Posting = 1 /\ reader_semaphore = 0 /\ Permits > 0

Grants ==
    \A t \in Threads : grant[t] = IF at[t] = "release_semaphore" THEN Permits ELSE 0

\* A writer in the lock, a hand-over to a writer and readers exclude each other.
Exclusion ==
    /\ Writing + HandOvers <= 1
    /\ Writing + HandOvers = 1 => readers_entry_count = 0
    /\ CountWrapped => Writing + HandOvers = 0
    /\ readers_waiting_count > 0 => writers_waiting_count > 0 \/ readers_entry_count = 0

\* The part of the invariant that is about numbers ...
NumberTypes ==
    /\ lock_count \in -1 .. Cardinality(Threads) - 1
    /\ writers_waiting_count \in 0 .. Modulus - 1
    /\ readers_waiting_count \in 0 .. Modulus - 1
    /\ readers_entry_count \in 0 .. Modulus - 1
    /\ reader_semaphore \in Nat
    /\ EventSet \in 0 .. 1

Balance == NumberTypes /\ Counts /\ Posts /\ Exclusion

\* ... and the part about threads.
ThreadTypes ==
    at \in [Threads -> At] /\ grant \in [Threads -> Nat] /\ writer_event \in BOOLEAN

Places == ThreadTypes /\ Roles /\ Grants

IInv == Balance /\ Places

-----------------------------------------------------------------------------
LEMMA Finite == IsFiniteSet(Threads) /\ Cardinality(Threads) \in Nat
BY RWAssumption, FS_Union, FS_CardinalityType DEF Threads

\* A counter that stays in its width does not wrap.
LEMMA Wraps ==
    /\ \A n \in 0 .. Modulus - 1 : Wrap(n) = n
    /\ Wrap(-1) = Modulus - 1
    /\ \A n \in Int : Wrap(n) \in 0 .. Modulus - 1
BY RWAssumption, Finite DEF Wrap, Threads

\* A number of threads is not zero when one of them is there.
LEMMA NumType ==
    ASSUME NEW stages
    PROVE  /\ Num(stages) \in 0 .. Cardinality(Threads)
           /\ \A t \in Threads : at[t] \in stages => Num(stages) > 0
           /\ Num(stages) > 0 => \E t \in Threads : at[t] \in stages
           /\ \A t, u \in Threads :
                 at[t] \in stages /\ at[u] \in stages /\ Num(stages) = 1 => t = u
<1> DEFINE S == {t \in Threads : at[t] \in stages}
<1>1. IsFiniteSet(S) /\ Cardinality(S) \in Nat /\ Cardinality(S) <= Cardinality(Threads)
  BY Finite, FS_Subset, FS_CardinalityType
<1>2. Cardinality(S) = 0 <=> S = {}
  BY <1>1, FS_EmptySet
<1>3. ASSUME NEW t \in S, NEW u \in S, Cardinality(S) = 1 PROVE t = u
  BY <1>1, <1>3, FS_Singleton
<1> QED
  BY <1>1, <1>2, <1>3, Finite DEF Num

\* When one thread moves, the numbers follow.
LEMMA Moves ==
    ASSUME at \in [Threads -> At], NEW t \in Threads, NEW where, Goto(t, where), NEW stages
    PROVE  Num(stages)' = Num(stages) + (IF where \in stages THEN 1 ELSE 0)
                                      - (IF at[t] \in stages THEN 1 ELSE 0)
<1> DEFINE S == {u \in Threads : at[u] \in stages}
           T == {u \in Threads : at'[u] \in stages}
<1>0. IsFiniteSet(S) /\ Cardinality(S) \in Nat
  BY Finite, FS_Subset, FS_CardinalityType
<1>1. /\ at[t] \in stages <=> t \in S
      /\ where \in stages <=> t \in T
      /\ \A u : u # t => (u \in S <=> u \in T)
  BY DEF Goto
<1> SUFFICES Cardinality(T) = Cardinality(S) + (IF t \in T THEN 1 ELSE 0)
                                             - (IF t \in S THEN 1 ELSE 0)
  BY <1>1 DEF Num
<1> HIDE DEF S, T
<1>2. CASE t \in S <=> t \in T
  <2>1. S = T
    BY <1>1, <1>2
  <2> QED  BY <1>0, <1>2, <2>1
<1>3. CASE t \in T /\ t \notin S
  <2>1. T = S \cup {t}
    BY <1>1, <1>3
  <2> QED  BY <1>0, <1>3, <2>1, FS_AddElement
<1>4. CASE t \in S /\ t \notin T
  <2>1. T = S \ {t}
    BY <1>1, <1>4
  <2> QED  BY <1>0, <1>4, <2>1, FS_RemoveElement
<1> QED
  BY <1>2, <1>3, <1>4

NumbersOK ==
    /\ Writing \in 0 .. Cardinality(Threads) /\ Reading \in 0 .. Cardinality(Threads)
    /\ WaitWrite \in 0 .. Cardinality(Threads) /\ WaitRead \in 0 .. Cardinality(Threads)
    /\ Signalling \in 0 .. Cardinality(Threads) /\ Posting \in 0 .. Cardinality(Threads)
    /\ Counted \in 0 .. Cardinality(Threads)

\* All numbers of threads, before and after a step.
LEMMA NumbersType == NumbersOK /\ NumbersOK'
<1>1. NumbersOK
  BY NumType DEF NumbersOK, Writing, Reading, WaitWrite, WaitRead, Signalling, Posting, Counted
<1> QED
  BY <1>1, PTL

\* The numbers when a thread goes from one stage to another.
One(condition) == IF condition THEN 1 ELSE 0
Change(t, where, stage) == One(where = stage) - One(at[t] = stage)

LEMMA NumbersMove ==
    ASSUME at \in [Threads -> At], NEW t \in Threads, NEW where, Goto(t, where)
    PROVE  /\ Writing' = Writing + Change(t, where, "writing")
           /\ Reading' = Reading + Change(t, where, "reading")
           /\ WaitWrite' = WaitWrite + Change(t, where, "wait_write")
           /\ WaitRead' = WaitRead + Change(t, where, "wait_read")
           /\ Signalling' = Signalling + Change(t, where, "set_event")
           /\ Posting' = Posting + Change(t, where, "release_semaphore")
           /\ Counted' = Counted
                 + One(where \in {"writing", "reading", "wait_write", "wait_read"})
                 - One(at[t] \in {"writing", "reading", "wait_write", "wait_read"})
BY Moves, NumbersType
   DEF Writing, Reading, WaitWrite, WaitRead, Signalling, Posting, Counted, Change, One,
   NumbersOK

LEMMA InitIInv == Init => IInv
<1> SUFFICES ASSUME Init PROVE IInv
  OBVIOUS
<1> USE RWAssumption, Finite DEF Init
<1>1. /\ Writing = 0 /\ Reading = 0 /\ WaitWrite = 0 /\ WaitRead = 0
      /\ Signalling = 0 /\ Posting = 0 /\ Counted = 0
  BY FS_EmptySet DEF Num, Writing, Reading, WaitWrite, WaitRead, Signalling, Posting, Counted
<1>2. EventSet = 0
  BY DEF EventSet
<1>3. Entries = 0 /\ Permits = 0 /\ HandOvers = 0
  BY <1>1, <1>2 DEF Permits, Entries, CountWrapped, HandOvers
<1>4. Balance
  BY <1>1, <1>2, <1>3 DEF Balance, NumberTypes, Counts, Posts, Exclusion, CountWrapped, Threads
<1>5. writer_event \in BOOLEAN
  BY Zenon
<1>6. Places
  BY <1>3, <1>5 DEF Places, ThreadTypes, Roles, Grants, At
<1> QED
  BY <1>4, <1>6 DEF IInv

-----------------------------------------------------------------------------
\* What the numbers say of where a thread is.
LEMMA Here ==
    ASSUME NEW t \in Threads
    PROVE  /\ at[t] = "writing" => Writing > 0
           /\ at[t] = "reading" => Reading > 0
           /\ at[t] = "wait_write" => WaitWrite > 0
           /\ at[t] = "wait_read" => WaitRead > 0
           /\ at[t] = "set_event" => Signalling > 0
           /\ at[t] = "release_semaphore" => Posting > 0
BY NumType DEF Writing, Reading, WaitWrite, WaitRead, Signalling, Posting

\* A step is described by where the thread goes, what becomes of the counters
\* and of the permits.
LEMMA PlacesKept ==
    ASSUME Places, NEW t \in Threads, NEW where \in At \ {"release_semaphore"}, Goto(t, where),
           at[t] # "release_semaphore",
           where \in {"writing", "wait_write"} => t \in Writers,
           where \in {"reading", "wait_read"} => t \in Readers,
           grant' = grant, writer_event' \in BOOLEAN,
           Permits' = Permits \/ \A u \in Threads : at[u] # "release_semaphore"
    PROVE  Places'
BY DEF Places, ThreadTypes, Roles, Grants, Goto

\* A writer finds the lock free.
LEMMA WriterEnters ==
    ASSUME IInv, NEW t \in Threads, t \in Writers,
           at[t] = "idle", Goto(t, "writing"),
           lock_count = -1, lock_count' = 0,
           UNCHANGED <<writers_waiting_count, readers_waiting_count, readers_entry_count,
                      writer_event, reader_semaphore, grant>>
    PROVE  IInv'
<1> USE RWAssumption, Finite, Wraps, NumbersType DEF NumbersOK
<1>0. Balance /\ Places /\ at \in [Threads -> At]
  BY DEF IInv, Places, ThreadTypes
<1>2. /\ Writing' = Writing + 1 /\ Counted' = Counted + 1
      /\ UNCHANGED <<Reading, WaitWrite, WaitRead, Signalling, Posting, EventSet>>
  BY <1>0, NumbersMove, Here DEF Change, One, EventSet
<1>3. Balance'
  BY <1>0, <1>2
     DEF Balance, NumberTypes, Counts, Posts, Exclusion, HandOvers, Entries,
           Permits, CountWrapped, counts
<1>4. Permits' = Permits
  BY <1>0, <1>2 DEF Balance, NumberTypes, Counts, Posts, Exclusion, HandOvers, Entries,
           Permits, CountWrapped, counts
<1>5. Places'
  BY <1>0, <1>4, PlacesKept DEF At, Places, ThreadTypes
<1> QED
  BY <1>3, <1>5 DEF IInv

\* A writer waits.
LEMMA WriterWaits ==
    ASSUME IInv, NEW t \in Threads, t \in Writers,
           at[t] = "idle", Goto(t, "wait_write"),
           lock_count # -1, lock_count' = lock_count + 1,
           writers_waiting_count' = Wrap(writers_waiting_count + 1),
           UNCHANGED <<readers_waiting_count, readers_entry_count, writer_event,
                      reader_semaphore, grant>>
    PROVE  IInv'
<1> USE RWAssumption, Finite, Wraps, NumbersType DEF NumbersOK
<1>0. Balance /\ Places /\ at \in [Threads -> At]
  BY DEF IInv, Places, ThreadTypes
<1>1. Wrap(writers_waiting_count + 1) = writers_waiting_count + 1
  BY <1>0 DEF Balance, NumberTypes, Counts, HandOvers, Threads
<1>2. /\ WaitWrite' = WaitWrite + 1 /\ Counted' = Counted + 1
      /\ UNCHANGED <<Writing, Reading, WaitRead, Signalling, Posting, EventSet>>
  BY <1>0, NumbersMove DEF Change, One, EventSet
<1>3. Balance'
  BY <1>0, <1>2, <1>1
     DEF Balance, NumberTypes, Counts, Posts, Exclusion, HandOvers, Entries,
           Permits, CountWrapped
<1>4. Permits' = Permits
  BY <1>0, <1>2, <1>1 DEF Balance, NumberTypes, Counts, Posts, Exclusion, HandOvers, Entries,
           Permits, CountWrapped
<1>5. Places'
  BY <1>0, <1>4, PlacesKept DEF At, Places, ThreadTypes
<1> QED
  BY <1>3, <1>5 DEF IInv

\* A writer gets the lock by the event.
LEMMA WriterIsLetIn ==
    ASSUME IInv, NEW t \in Threads, t \in Writers,
           at[t] = "wait_write", Goto(t, "writing"),
           writer_event, writer_event' = FALSE,
           UNCHANGED <<counts, reader_semaphore, grant>>
    PROVE  IInv'
<1> USE RWAssumption, Finite, Wraps, NumbersType DEF NumbersOK
<1>0. Balance /\ Places /\ at \in [Threads -> At]
  BY DEF IInv, Places, ThreadTypes
<1>2. /\ Writing' = Writing + 1 /\ WaitWrite' = WaitWrite - 1
      /\ EventSet = 1 /\ EventSet' = 0
      /\ UNCHANGED <<Reading, WaitRead, Signalling, Posting, Counted>>
  BY <1>0, NumbersMove, Here DEF Change, One, EventSet
<1>3. Balance'
  BY <1>0, <1>2
     DEF Balance, NumberTypes, Counts, Posts, Exclusion, HandOvers, Entries,
           Permits, CountWrapped, counts
<1>4. Permits' = Permits
  BY <1>0, <1>2 DEF Balance, NumberTypes, Counts, Posts, Exclusion, HandOvers, Entries,
           Permits, CountWrapped, counts
<1>5. Places'
  BY <1>0, <1>4, PlacesKept DEF At, Places, ThreadTypes
<1> QED
  BY <1>3, <1>5 DEF IInv

\* A reader finds the lock free or shares it.
LEMMA ReaderEnters ==
    ASSUME IInv, NEW t \in Threads, t \in Readers,
           at[t] = "idle", Goto(t, "reading"),
           lock_count = -1 \/ MayShare, lock_count' = lock_count + 1,
           readers_entry_count' = Wrap(readers_entry_count + 1),
           UNCHANGED <<writers_waiting_count, readers_waiting_count, writer_event,
                      reader_semaphore, grant>>
    PROVE  IInv'
<1> USE RWAssumption, Finite, Wraps, NumbersType DEF NumbersOK
<1>0. Balance /\ Places /\ at \in [Threads -> At]
  BY DEF IInv, Places, ThreadTypes
<1>1. ~CountWrapped /\ readers_entry_count + 1 <= Cardinality(Threads)
  <2>1. ~CountWrapped
    BY <1>0 DEF Balance, NumberTypes, Counts, Posts, HandOvers, Permits, Entries,
           CountWrapped, MayShare
  <2>2. readers_entry_count <= Counted
    BY <1>0, <2>1 DEF Balance, NumberTypes, Counts, Posts, HandOvers, Permits, Entries,
           CountWrapped
  <2>3. Counted' = Counted + 1
    BY <1>0, NumbersMove DEF Change, One
  <2> QED  BY <1>0, <2>1, <2>2, <2>3 DEF Balance, NumberTypes
<1>6. readers_entry_count' = readers_entry_count + 1
  BY <1>0, <1>1 DEF Balance, NumberTypes, Threads
<1>2. /\ Reading' = Reading + 1 /\ Counted' = Counted + 1
      /\ UNCHANGED <<Writing, WaitWrite, WaitRead, Signalling, Posting, EventSet>>
  BY <1>0, NumbersMove DEF Change, One, EventSet
<1>3. Balance'
  BY <1>0, <1>2, <1>1, <1>6
     DEF Balance, NumberTypes, Counts, Posts, Exclusion, HandOvers, Entries,
           Permits, CountWrapped, MayShare
<1>4. Permits' = Permits
  BY <1>0, <1>1, <1>2, <1>6 DEF Balance, NumberTypes, Counts, Posts, Exclusion,
         HandOvers, Entries,
           Permits, CountWrapped
<1>5. Places'
  BY <1>0, <1>4, PlacesKept DEF At, Places, ThreadTypes
<1> QED
  BY <1>3, <1>5 DEF IInv

\* A reader waits.
LEMMA ReaderWaits ==
    ASSUME IInv, NEW t \in Threads, t \in Readers,
           at[t] = "idle", Goto(t, "wait_read"),
           lock_count # -1, ~MayShare, lock_count' = lock_count + 1,
           readers_waiting_count' = Wrap(readers_waiting_count + 1),
           UNCHANGED <<writers_waiting_count, readers_entry_count, writer_event,
                      reader_semaphore, grant>>
    PROVE  IInv'
<1> USE RWAssumption, Finite, Wraps, NumbersType DEF NumbersOK
<1>0. Balance /\ Places /\ at \in [Threads -> At]
  BY DEF IInv, Places, ThreadTypes
<1>1. Wrap(readers_waiting_count + 1) = readers_waiting_count + 1
  BY <1>0 DEF Balance, NumberTypes, Counts, Posts, Threads, Permits, Entries, CountWrapped
<1>2. /\ WaitRead' = WaitRead + 1 /\ Counted' = Counted + 1
      /\ UNCHANGED <<Writing, Reading, WaitWrite, Signalling, Posting, EventSet>>
  BY <1>0, NumbersMove DEF Change, One, EventSet
<1>3. Balance'
  BY <1>0, <1>2, <1>1
     DEF Balance, NumberTypes, Counts, Posts, Exclusion, HandOvers, Entries,
           Permits, CountWrapped, MayShare
<1>4. Permits' = Permits
  BY <1>0, <1>2, <1>1 DEF Balance, NumberTypes, Counts, Posts, Exclusion, HandOvers, Entries,
           Permits, CountWrapped
<1>5. Places'
  BY <1>0, <1>4, PlacesKept DEF At, Places, ThreadTypes
<1> QED
  BY <1>3, <1>5 DEF IInv

\* A hand-over to a writer arrives.
LEMMA EventIsSet ==
    ASSUME IInv, NEW t \in Threads, at[t] = "set_event", Goto(t, "idle"),
           writer_event' = TRUE,
           UNCHANGED <<counts, reader_semaphore, grant>>
    PROVE  IInv'
<1> USE RWAssumption, Finite, Wraps, NumbersType DEF NumbersOK
<1>0. Balance /\ Places /\ at \in [Threads -> At]
  BY DEF IInv, Places, ThreadTypes
<1>2. /\ Signalling' = Signalling - 1 /\ Signalling > 0
      /\ EventSet' = 1
      /\ UNCHANGED <<Writing, Reading, WaitWrite, WaitRead, Posting, Counted>>
  BY <1>0, NumbersMove, Here DEF Change, One, EventSet
<1>3. Balance'
  BY <1>0, <1>2
     DEF Balance, NumberTypes, Counts, Posts, Exclusion, HandOvers, Entries,
           Permits, CountWrapped, counts
<1>4. Permits' = Permits
  BY <1>0, <1>2 DEF Balance, NumberTypes, Counts, Posts, Exclusion, HandOvers, Entries,
           Permits, CountWrapped, counts
<1>5. Places'
  BY <1>0, <1>4, PlacesKept DEF At, Places, ThreadTypes
<1> QED
  BY <1>3, <1>5 DEF IInv

\* A reader gets the lock by a permit.
LEMMA ReaderIsLetIn ==
    ASSUME IInv, NEW t \in Threads, t \in Readers, at[t] = "wait_read", Goto(t, "reading"),
           reader_semaphore > 0, reader_semaphore' = reader_semaphore - 1,
           UNCHANGED <<counts, writer_event, grant>>
    PROVE  IInv'
<1> USE RWAssumption, Finite, Wraps, NumbersType DEF NumbersOK
<1>0. Balance /\ Places /\ at \in [Threads -> At]
  BY DEF IInv, Places, ThreadTypes
<1>2. /\ Reading' = Reading + 1 /\ WaitRead' = WaitRead - 1 /\ WaitRead > 0
      /\ UNCHANGED <<Writing, WaitWrite, Signalling, Posting, Counted, EventSet>>
  BY <1>0, NumbersMove, Here DEF Change, One, EventSet
<1>3. Balance'
  BY <1>0, <1>2
     DEF Balance, NumberTypes, Counts, Posts, Exclusion, HandOvers, Entries,
           Permits, CountWrapped, counts
<1>4. \A u \in Threads : at[u] # "release_semaphore"
  BY <1>0, Here DEF Balance, Posts
<1>5. Places'
  BY <1>0, <1>4, PlacesKept DEF At, Places, ThreadTypes
<1> QED
  BY <1>3, <1>5 DEF IInv

\* The permits are posted.
LEMMA PermitsArePosted ==
    ASSUME IInv, NEW t \in Threads, at[t] = "release_semaphore", Goto(t, "idle"),
           reader_semaphore' = reader_semaphore + grant[t], grant' = [grant EXCEPT ![t] = 0],
           UNCHANGED <<counts, writer_event>>
    PROVE  IInv'
<1> USE RWAssumption, Finite, Wraps, NumbersType DEF NumbersOK
<1>0. Balance /\ Places /\ at \in [Threads -> At]
  BY DEF IInv, Places, ThreadTypes
<1>1. grant[t] = Permits
  BY <1>0 DEF Places, Grants
<1>2. /\ Posting' = Posting - 1 /\ Posting > 0
      /\ UNCHANGED <<Writing, Reading, WaitWrite, WaitRead, Signalling, Counted, EventSet>>
  BY <1>0, NumbersMove, Here DEF Change, One, EventSet
<1>3. Balance'
  BY <1>0, <1>1, <1>2
     DEF Balance, NumberTypes, Counts, Posts, Exclusion, HandOvers, Entries,
           Permits, CountWrapped, counts
<1>4. Posting = 1
  BY <1>0, <1>2 DEF Balance, Posts
<1>5. \A u \in Threads \ {t} : at[u] # "release_semaphore"
  BY <1>4, NumType DEF Posting
<1>6. Places'
  BY <1>0, <1>5 DEF Places, ThreadTypes, Roles, Grants, Goto, At
<1> QED
  BY <1>3, <1>6 DEF IInv

-----------------------------------------------------------------------------
(* Release *)

Releases(t) ==
    /\ lock_count' = lock_count - 1
    /\ UNCHANGED <<writer_event, reader_semaphore>>

\* Who releases was counted in and is not any more; who else is counted waits,
\* or is a reader like the one who releases.
LeavesTo(t, where) ==
    /\ Counted' = Counted - 1 /\ UNCHANGED <<WaitWrite, WaitRead, EventSet>>
    /\ Posting' = Posting + One(where = "release_semaphore")
    /\ Signalling' = Signalling + One(where = "set_event")
    /\ \/ /\ at[t] = "writing" /\ Writing = 1 /\ Writing' = 0 /\ Reading' = Reading
          /\ HandOvers = 0 /\ readers_entry_count = 0 /\ Reading = 0 /\ Permits = 0
       \/ /\ at[t] = "reading" /\ Reading > 0 /\ Reading' = Reading - 1
          /\ Writing = 0 /\ Writing' = 0 /\ HandOvers = 0
          /\ ~CountWrapped /\ readers_entry_count = Reading + Permits

LEMMA Releaser ==
    ASSUME IInv, NEW t \in Threads, Holds(t),
           NEW where \in {"idle", "set_event", "release_semaphore"}, Goto(t, where),
           UNCHANGED writer_event
    PROVE  LeavesTo(t, where)
<1> USE RWAssumption, Finite, Wraps, NumbersType DEF NumbersOK
<1>0. Balance /\ Places /\ at \in [Threads -> At]
  BY DEF IInv, Places, ThreadTypes
<1>1. CASE at[t] = "writing"
  <2>1. /\ Writing' = Writing - 1 /\ Writing > 0 /\ Counted' = Counted - 1
        /\ Posting' = Posting + One(where = "release_semaphore")
        /\ Signalling' = Signalling + One(where = "set_event")
        /\ UNCHANGED <<Reading, WaitWrite, WaitRead, EventSet>>
    BY <1>0, <1>1, NumbersMove, Here DEF Change, One, EventSet
  <2> QED
    BY <1>0, <1>1, <2>1 DEF LeavesTo, Balance, NumberTypes, Counts, Posts, Exclusion,
           HandOvers, Entries,
           Permits, CountWrapped
<1>2. CASE at[t] = "reading"
  <2>1. /\ Reading' = Reading - 1 /\ Reading > 0 /\ Counted' = Counted - 1
        /\ Posting' = Posting + One(where = "release_semaphore")
        /\ Signalling' = Signalling + One(where = "set_event")
        /\ UNCHANGED <<Writing, WaitWrite, WaitRead, EventSet>>
    BY <1>0, <1>2, NumbersMove, Here DEF Change, One, EventSet
  <2> QED
    BY <1>0, <1>2, <2>1 DEF LeavesTo, Balance, NumberTypes, Counts, Posts, Exclusion,
           HandOvers, Entries,
           Permits, CountWrapped
<1> QED
  BY <1>1, <1>2 DEF Holds

\* The three ways out of ExReleaseReadWriteLock.
LEMMA FreeKeeps ==
    ASSUME IInv, NEW t \in Threads, Holds(t), Releases(t), ReleaseFree(t)
    PROVE  IInv'
<1> USE RWAssumption, Finite, Wraps, NumbersType DEF NumbersOK
<1>0. Balance /\ Places /\ at \in [Threads -> At]
  BY DEF IInv, Places, ThreadTypes
<1>1. LeavesTo(t, "idle") /\ Goto(t, "idle")
  BY Releaser DEF ReleaseFree, Releases
<1>2. /\ lock_count = 0 /\ lock_count' = -1 /\ readers_entry_count' = 0
      /\ UNCHANGED <<writers_waiting_count, readers_waiting_count, reader_semaphore, grant,
                     writer_event>>
  <2>1. lock_count >= 0
    BY <1>0, <1>1 DEF LeavesTo, Balance, NumberTypes, Counts
  <2> QED
    BY <1>0, <2>1 DEF ReleaseFree, Releases, Balance, NumberTypes
<1>3. /\ Counted = 1 /\ Counted' = 0 /\ Writing' = 0 /\ Reading' = 0
      /\ WaitWrite = 0 /\ WaitRead = 0 /\ HandOvers = 0 /\ Permits = 0
      /\ UNCHANGED <<WaitWrite, WaitRead, EventSet, Signalling, Posting>>
  BY <1>0, <1>1, <1>2
     DEF LeavesTo, One, Balance, NumberTypes, Counts, Posts, Exclusion, HandOvers, Entries,
           Permits, CountWrapped
<1>4. Balance' /\ Permits' = Permits
  BY <1>0, <1>2, <1>3
     DEF Balance, NumberTypes, Counts, Posts, Exclusion, HandOvers, Entries,
           Permits, CountWrapped
<1>5. Places'
  BY <1>0, <1>1, <1>2, <1>4, PlacesKept DEF At, Places, ThreadTypes, Holds
<1> QED
  BY <1>4, <1>5 DEF IInv

LEMMA ToReadersKeeps ==
    ASSUME IInv, NEW t \in Threads, Holds(t), Releases(t), ReleaseToReaders(t)
    PROVE  IInv'
<1> USE RWAssumption, Finite, Wraps, NumbersType DEF NumbersOK
<1>0. Balance /\ Places /\ at \in [Threads -> At]
  BY DEF IInv, Places, ThreadTypes
<1>1. /\ LeavesTo(t, "release_semaphore") /\ Goto(t, "release_semaphore")
      /\ readers_entry_count = 0
      /\ readers_waiting_count # 0 /\ readers_entry_count' = readers_waiting_count
      /\ readers_waiting_count' = 0 /\ grant' = [grant EXCEPT ![t] = readers_waiting_count]
      /\ UNCHANGED <<writers_waiting_count, reader_semaphore, writer_event>>
  BY Releaser DEF ReleaseToReaders, Releases
<1>2. /\ Posting' = Posting + 1 /\ Permits = 0 /\ Reading' = 0 /\ HandOvers = 0
      /\ Signalling' = Signalling /\ Writing' = 0 /\ Counted' = Counted - 1
      /\ Counted' = WaitWrite + WaitRead
      /\ UNCHANGED <<WaitWrite, WaitRead, EventSet>>
  BY <1>0, <1>1 DEF LeavesTo, Balance, NumberTypes, Counts, Posts, Exclusion, HandOvers,
         Entries,
           Permits, CountWrapped, One
<1>b. ~CountWrapped' /\ Permits' = readers_waiting_count /\ Posting = 0
  <2>1. readers_waiting_count <= Cardinality(Threads)
    BY <1>0, <1>2 DEF Balance, NumberTypes, Counts
  <2>2. ~CountWrapped'
    BY <1>0, <1>1, <2>1 DEF CountWrapped, Balance, NumberTypes
  <2> QED
    BY <1>0, <1>1, <1>2, <2>2 DEF Permits, Entries, Balance, NumberTypes, Posts
<1>3. Balance' /\ Permits' = readers_waiting_count /\ Posting = 0
  BY <1>0, <1>1, <1>2, <1>b
     DEF Balance, NumberTypes, Counts, Posts, Exclusion, HandOvers, Entries,
           Permits, CountWrapped, Releases
<1>4. \A u \in Threads : at[u] # "release_semaphore"
  BY <1>3, Here
<1>5. Places'
  BY <1>0, <1>1, <1>3, <1>4 DEF Places, ThreadTypes, Roles, Grants, Goto, At, Balance,
         NumberTypes
<1> QED
  BY <1>3, <1>5 DEF IInv

LEMMA OneReaderKeeps ==
    ASSUME IInv, NEW t \in Threads, Holds(t), Releases(t), ReleaseOneReader(t)
    PROVE  IInv'
<1> USE RWAssumption, Finite, Wraps, NumbersType DEF NumbersOK
<1>0. Balance /\ Places /\ at \in [Threads -> At]
  BY DEF IInv, Places, ThreadTypes
<1>a. /\ readers_entry_count' = Wrap(readers_entry_count - 1)
       /\ lock_count - 1 >= 0 /\ ~(readers_entry_count = 0 /\ readers_waiting_count # 0)
       /\ UNCHANGED <<readers_waiting_count, grant, writer_event, reader_semaphore>>
       /\ lock_count' = lock_count - 1
  BY DEF ReleaseOneReader, Releases
<1>1. CASE readers_entry_count' # 0
  <2>1. LeavesTo(t, "idle") /\ Goto(t, "idle") /\ UNCHANGED writers_waiting_count
    BY <1>a, <1>1, Releaser DEF ReleaseOneReader
  <2>2. CASE at[t] = "writing"
    <3>1. readers_entry_count' = Modulus - 1 /\ readers_waiting_count = 0
      BY <1>0, <1>a, <2>1, <2>2 DEF LeavesTo
    <3>2. Balance' /\ Permits' = Permits
      BY <1>0, <1>a, <2>1, <2>2, <3>1
         DEF LeavesTo, Balance, NumberTypes, Counts, Posts, Exclusion, HandOvers, Entries,
           Permits, CountWrapped, One, Threads
    <3> QED
      BY <1>0, <1>a, <2>1, <2>2, <3>2, PlacesKept DEF At, Places, ThreadTypes, IInv
  <2>3. CASE at[t] = "reading"
    <3>1. readers_entry_count' = readers_entry_count - 1
      BY <1>0, <1>a, <2>1, <2>3 DEF LeavesTo, Balance, NumberTypes, Counts, Posts,
             Exclusion, HandOvers, Entries,
           Permits, CountWrapped
    <3>2. Balance' /\ Permits' = Permits
      BY <1>0, <1>a, <1>1, <2>1, <2>3, <3>1
         DEF LeavesTo, Balance, NumberTypes, Counts, Posts, Exclusion, HandOvers, Entries,
           Permits, CountWrapped, One
    <3> QED
      BY <1>0, <1>a, <2>1, <2>3, <3>2, PlacesKept DEF At, Places, ThreadTypes, IInv
  <2> QED
    BY <2>2, <2>3 DEF Holds
<1>2. CASE readers_entry_count' = 0
  <2>1. /\ LeavesTo(t, "set_event") /\ Goto(t, "set_event")
        /\ writers_waiting_count' = Wrap(writers_waiting_count - 1)
    BY <1>a, <1>2, Releaser DEF ReleaseOneReader
  <2>2. at[t] = "reading" /\ readers_entry_count = 1
    <3>1. ASSUME at[t] = "writing" PROVE FALSE
      <4>1. readers_entry_count = 0
        BY <2>1, <3>1 DEF LeavesTo
      <4>2. Wrap(readers_entry_count - 1) = Modulus - 1
        BY <4>1
      <4> QED
        BY <1>a, <1>2, <4>2 DEF Threads
    <3>2. at[t] = "reading"
      BY <3>1 DEF Holds
    <3>3. readers_entry_count > 0 /\ readers_entry_count <= Modulus - 1
      BY <1>0, <2>1, <3>2 DEF LeavesTo, Balance, NumberTypes, Counts, Posts, Exclusion,
             HandOvers, Entries,
           Permits, CountWrapped
    <3>4. readers_entry_count \in Int /\ Wrap(readers_entry_count - 1) = readers_entry_count - 1
      BY <1>0, <3>3 DEF Balance, NumberTypes
    <3> QED
      BY <1>a, <1>2, <3>2, <3>4
  <2>3. Reading = 1 /\ Permits = 0 /\ Writing = 0 /\ HandOvers = 0
    BY <1>0, <2>1, <2>2 DEF LeavesTo, Balance, NumberTypes, Counts, Posts, Exclusion,
           HandOvers, Entries,
           Permits, CountWrapped
  <2>4. writers_waiting_count > 0
    BY <1>0, <1>a, <2>2, <2>3 DEF Balance, NumberTypes, Counts, Posts, Exclusion
  <2>5. writers_waiting_count' = writers_waiting_count - 1
    BY <1>0, <2>1, <2>4 DEF Balance, NumberTypes
  <2>6. Balance' /\ Permits' = Permits
    BY <1>0, <1>a, <1>2, <2>1, <2>2, <2>3, <2>4, <2>5
       DEF LeavesTo, Balance, NumberTypes, Counts, Posts, Exclusion, HandOvers, Entries,
           Permits, CountWrapped, One
  <2> QED
    BY <1>0, <1>a, <2>1, <2>2, <2>6, PlacesKept DEF At, Places, ThreadTypes, IInv
<1> QED
  BY <1>1, <1>2

-----------------------------------------------------------------------------
LEMMA NextIInv == IInv /\ [Next]_vars => IInv'
<1> SUFFICES ASSUME IInv, [Next]_vars PROVE IInv'
  OBVIOUS
<1>0. Balance /\ Places
  BY DEF IInv
<1>1. ASSUME NEW w \in Writers,
             AcquireExclusive(w) \/ TryToAcquireExclusive(w) \/ EnterExclusive(w)
      PROVE  IInv'
  <2>1. w \in Threads /\ lock_count \in Int /\ lock_count >= -1
    BY <1>0 DEF Threads, Balance, NumberTypes
  <2>2. CASE AcquireExclusive(w)
    BY <2>1, <2>2, WriterEnters, WriterWaits DEF AcquireExclusive
  <2>3. CASE TryToAcquireExclusive(w)
    BY <2>1, <2>3, WriterEnters DEF TryToAcquireExclusive
  <2>4. CASE EnterExclusive(w)
    BY <2>1, <2>4, WriterIsLetIn DEF EnterExclusive
  <2> QED
    BY <1>1, <2>2, <2>3, <2>4
<1>2. ASSUME NEW r \in Readers, AcquireShared(r) \/ TryToAcquireShared(r) \/ EnterShared(r)
      PROVE  IInv'
  <2>1. r \in Threads /\ lock_count \in Int /\ lock_count >= -1
    BY <1>0 DEF Threads, Balance, NumberTypes
  <2>2. CASE AcquireShared(r)
    BY <2>1, <2>2, ReaderEnters, ReaderWaits DEF AcquireShared
  <2>3. CASE TryToAcquireShared(r)
    BY <2>1, <2>3, ReaderEnters DEF TryToAcquireShared
  <2>4. CASE EnterShared(r)
    BY <2>1, <2>4, ReaderIsLetIn DEF EnterShared
  <2> QED
    BY <1>2, <2>2, <2>3, <2>4
<1>3. ASSUME NEW t \in Threads, Leave(t) PROVE IInv'
  <2>1. CASE Release(t)
    BY <2>1, FreeKeeps, ToReadersKeeps, OneReaderKeeps DEF Release, Releases
  <2>2. CASE SetEvent(t)
    BY <2>2, EventIsSet DEF SetEvent
  <2>3. CASE ReleaseSemaphore(t)
    BY <2>3, PermitsArePosted DEF ReleaseSemaphore
  <2> QED
    BY <1>3, <2>1, <2>2, <2>3 DEF Leave
<1>4. CASE UNCHANGED vars
  BY <1>4
     DEF vars, counts, IInv, Balance, NumberTypes, Counts, Posts, Exclusion, HandOvers, Entries,
         Permits, CountWrapped, Places, ThreadTypes, Roles, Grants, EventSet, Num, Writing,
         Reading, WaitWrite, WaitRead, Signalling, Posting, Counted
<1> QED
  BY <1>1, <1>2, <1>3, <1>4 DEF Next

\* What the numbers say together.
LEMMA Meaning ==
    ASSUME IInv
    PROVE  /\ \A w, t \in Threads : at[w] = "writing" /\ t # w => ~Holds(t)
           /\ HandOvers > 0 => /\ Writing = 0 /\ Reading = 0 /\ Posting = 0 /\ WaitWrite > 0
                               /\ reader_semaphore = 0
           /\ lock_count = -1 \/ MayShare => WaitWrite = 0
<1> USE RWAssumption, Finite, NumbersType DEF NumbersOK
<1>0. Balance /\ Places
  BY DEF IInv
<1>1. ASSUME NEW w \in Threads, NEW t \in Threads, at[w] = "writing", t # w PROVE ~Holds(t)
  <2>1. Writing = 1 /\ Reading = 0
    BY <1>0, <1>1, Here
       DEF Balance, NumberTypes, Counts, Posts, Exclusion, HandOvers, Entries, Permits,
           CountWrapped
  <2>2. at[t] # "writing"
    BY <1>1, <2>1, NumType DEF Writing
  <2>3. at[t] # "reading"
    BY <2>1, Here
  <2> QED
    BY <2>2, <2>3 DEF Holds
<1>2. HandOvers > 0 => /\ Writing = 0 /\ Reading = 0 /\ Posting = 0 /\ WaitWrite > 0
                       /\ reader_semaphore = 0
  BY <1>0
     DEF Balance, NumberTypes, Counts, Posts, Exclusion, HandOvers, Entries, Permits,
         CountWrapped
<1>3. lock_count = -1 \/ MayShare => WaitWrite = 0
  BY <1>0
     DEF Balance, NumberTypes, Counts, Posts, Exclusion, HandOvers, Entries, Permits,
         CountWrapped, MayShare
<1> QED
  BY <1>1, <1>2, <1>3

LEMMA ImpliesRWInv == IInv => RWInv
<1> SUFFICES ASSUME IInv PROVE RWInv
  OBVIOUS
<1>0. Balance /\ Places
  BY DEF IInv
<1>1. RWTypeOK
  BY <1>0 DEF Balance, NumberTypes, Places, ThreadTypes, RWTypeOK
<1>2. LockCountIsExact
  <2>1. {t \in Threads : Holds(t) \/ at[t] \in {"wait_write", "wait_read"}} =
        {t \in Threads : at[t] \in {"writing", "reading", "wait_write", "wait_read"}}
    BY DEF Holds
  <2> QED
    BY <1>0, <2>1 DEF LockCountIsExact, Balance, Counts, Counted, Num
<1>3. HandOverIsExclusive
  <2> SUFFICES ASSUME writer_event \/ \E t \in Threads : at[t] = "set_event"
               PROVE  /\ \A t \in Threads : ~Holds(t)
                      /\ \E w \in Writers : at[w] = "wait_write"
                      /\ reader_semaphore = 0 /\ \A t \in Threads : grant[t] = 0
    BY DEF HandOverIsExclusive
  <2>1. EventSet = 1 \/ Signalling > 0
    BY Here DEF EventSet
  <2>2. HandOvers > 0
    BY <1>0, <2>1, NumbersType, Finite DEF HandOvers, NumbersOK, Balance, NumberTypes
  <2>3. Writing = 0 /\ Reading = 0 /\ Posting = 0 /\ WaitWrite > 0 /\ reader_semaphore = 0
    BY <2>2, Meaning
  <2>4. \A t \in Threads : ~Holds(t) /\ at[t] # "release_semaphore"
    BY <2>3, Here DEF Holds
  <2>5. \E t \in Threads : at[t] = "wait_write"
    BY <2>3, NumType DEF WaitWrite
  <2> QED
    BY <1>0, <2>3, <2>4, <2>5 DEF Places, Roles, Grants
<1> QED
  BY <1>1, <1>2, <1>3 DEF RWInv

-----------------------------------------------------------------------------
\* lock_count counts owners and waiters, and a hand-over to a writer that is
\* in flight excludes every owner, for any number of threads.
THEOREM LockInvariance == Spec => []RWInv
<1>1. Init => IInv
  BY InitIInv
<1>2. IInv /\ [Next]_vars => IInv'
  BY NextIInv
<1>3. IInv => RWInv
  BY ImpliesRWInv
<1> QED
  BY <1>1, <1>2, <1>3, PTL DEF Spec

\* A writer excludes everybody, also while the lock is handed over
\* (ExReleaseReadWriteLock).
THEOREM WriterExcludes == Spec => []MutualExclusion
<1>1. Init => IInv
  BY InitIInv
<1>2. IInv /\ [Next]_vars => IInv'
  BY NextIInv
<1>3. IInv => MutualExclusion
  BY Meaning DEF MutualExclusion, Threads
<1> QED
  BY <1>1, <1>2, <1>3, PTL DEF Spec

\* What WriterNotOvertaken says of one step.
NoOvertaking ==
    \A r \in Readers :
        at[r] = "idle" /\ at'[r] = "reading" => \A w \in Writers : at[w] # "wait_write"

LEMMA NoStepOvertakes == ASSUME IInv, [Next]_vars PROVE NoOvertaking
<1> SUFFICES ASSUME NEW r \in Readers, at[r] = "idle", at'[r] = "reading"
             PROVE  \A w \in Writers : at[w] # "wait_write"
  BY DEF NoOvertaking
<1>0. at \in [Threads -> At] /\ r \in Threads
  BY DEF IInv, Places, ThreadTypes, Threads
<1>1. lock_count = -1 \/ MayShare \/ lock_count < 0
  <2>1. ASSUME NEW w \in Writers,
               AcquireExclusive(w) \/ TryToAcquireExclusive(w) \/ EnterExclusive(w)
        PROVE  FALSE
    BY <1>0, <2>1 DEF AcquireExclusive, TryToAcquireExclusive, EnterExclusive, Goto, Threads
  <2>2. ASSUME NEW u \in Readers, AcquireShared(u) \/ TryToAcquireShared(u) \/ EnterShared(u)
        PROVE  lock_count = -1 \/ MayShare \/ lock_count < 0
    BY <1>0, <2>2 DEF AcquireShared, TryToAcquireShared, EnterShared, Goto, Threads
  <2>3. ASSUME NEW t \in Threads, Leave(t) PROVE FALSE
    BY <1>0, <2>3 DEF Leave, Release, ReleaseFree, ReleaseToReaders, ReleaseOneReader, SetEvent,
                      ReleaseSemaphore, Goto
  <2> QED
    BY <2>1, <2>2, <2>3 DEF Next, vars
<1>2. lock_count < 0 => lock_count = -1
  BY Finite DEF IInv, Balance, NumberTypes
<1>3. WaitWrite = 0
  BY <1>1, <1>2, Meaning
<1> QED
  BY <1>3, Here, NumbersType, Finite DEF Threads, NumbersOK

\* A reader that arrives never passes a writer that waits.
THEOREM ReadersDoNotOvertake == Spec => WriterNotOvertaken
<1>1. Init => IInv
  BY InitIInv
<1>2. IInv /\ [Next]_vars => IInv'
  BY NextIInv
<1>3. IInv /\ [Next]_vars => [NoOvertaking]_vars
  BY NoStepOvertakes
<1>4. Spec => [][NoOvertaking]_vars
  BY <1>1, <1>2, <1>3, PTL DEF Spec
<1> QED
  BY <1>4 DEF WriterNotOvertaken, NoOvertaking

-----------------------------------------------------------------------------
(* The global mutex *)


LEMMA MutexStarts == MutexInit => MutexInv
BY MutexAssumption
DEF MutexInit, MutexInv, MutexTypeOK, Points, OneInside, Inside, OwnerHolds,
    NoLostWakeup, Asleep

\* Every step keeps the invariant; the steps are independent, so each is a
\* leaf for each part.
LEMMA MutexKeeps == MutexInv /\ [MutexNext]_mutex_vars => MutexInv'
<1> SUFFICES ASSUME MutexInv, [MutexNext]_mutex_vars PROVE MutexInv'
    OBVIOUS
<1> USE MutexAssumption DEF MutexInv, MutexTypeOK, Points, OneInside, Inside,
        OwnerHolds, NoLostWakeup, Asleep, Advance, TakeOr
<1>1. ASSUME NEW t \in Callers, Lock(t) PROVE MutexInv'
    BY <1>1 DEF Lock
<1>2. ASSUME NEW t \in Callers, LockAgain(t) PROVE MutexInv'
    BY <1>2 DEF LockAgain
<1>3. ASSUME NEW t \in Callers, TryLock(t) PROVE MutexInv'
    BY <1>3 DEF TryLock
<1>4. ASSUME NEW t \in Callers, Unlock(t) PROVE MutexInv'
    BY <1>4 DEF Unlock
<1>5. ASSUME NEW t \in Callers, SpuriousWakeup(t) PROVE MutexInv'
    BY <1>5 DEF SpuriousWakeup
<1>6. ASSUME NEW t \in Callers, FastPath(t) PROVE MutexInv'
    BY <1>6 DEF FastPath
<1>7. ASSUME NEW t \in Callers, Spin(t) PROVE MutexInv'
    BY <1>7 DEF Spin
<1>8. ASSUME NEW t \in Callers, Exchange(t) PROVE MutexInv'
    BY <1>8 DEF Exchange
<1>9. ASSUME NEW t \in Callers, FutexWait(t) PROVE MutexInv'
    BY <1>9 DEF FutexWait
<1>10. ASSUME NEW t \in Callers, Retry(t) PROVE MutexInv'
    BY <1>10 DEF Retry
<1>11. ASSUME NEW t \in Callers, Own(t) PROVE MutexInv'
    BY <1>11 DEF Own
<1>12. ASSUME NEW t \in Callers, Disown(t) PROVE MutexInv'
    BY <1>12 DEF Disown
<1>13. ASSUME NEW t \in Callers, FreeWord(t) PROVE MutexInv'
    BY <1>13 DEF FreeWord
<1>14. ASSUME NEW t \in Callers, FutexWake(t) PROVE MutexInv'
    BY <1>14 DEF FutexWake
<1>15. CASE UNCHANGED mutex_vars
    BY <1>15 DEF mutex_vars
<1>16. QED
    BY <1>1, <1>2, <1>3, <1>4, <1>5, <1>6, <1>7, <1>8, <1>9, <1>10, <1>11,
       <1>12, <1>13, <1>14, <1>15 DEF MutexNext, Proceed

\* The inductive invariant: what each state of the word means, who owner_
\* may name, and who will wake the sleepers.
THEOREM MutexInvariance == MutexSpec => []MutexInv
BY MutexStarts, MutexKeeps, PTL DEF MutexSpec

\* At most one thread is inside the lock, from the exchange that takes the
\* word to the one that frees it (base/mutex.cc, lock and unlock).
THEOREM MutexExcludes == MutexSpec => []OneInside
<1>1. MutexInv => OneInside
    BY DEF MutexInv
<1>2. QED
    BY MutexInvariance, <1>1, PTL

\* Whenever a thread sleeps on the futex, the word is marked contended or some
\* thread is about to wake one or to mark it (the exchange to 2 and the
\* compare-and-exchange to 2 of lock_slow).
THEOREM WakeupsAreNotLost == MutexSpec => []NoLostWakeup
<1>1. MutexInv => NoLostWakeup
    BY DEF MutexInv
<1>2. QED
    BY MutexInvariance, <1>1, PTL

-----------------------------------------------------------------------------
(* Refinement *)

Depth == IF Inside = {} THEN 0
         ELSE IF \E t \in Callers : point[t] = "holding" THEN recursion_count_
         ELSE 1

LEMMA PromiseInit == MutexInit => Promise!Init
BY DEF MutexInit, Promise!Init, Inside

\* A thread enters when its exchange finds the word free, and leaves when it
\* frees it, or when it unlocks a nested call.
LEMMA PromiseStep ==
    MutexInv /\ MutexInv' /\ [MutexNext]_mutex_vars
      => [Promise!Next]_<<Inside, Depth>>
<1> SUFFICES ASSUME MutexInv, MutexInv', [MutexNext]_mutex_vars
             PROVE  [Promise!Next]_<<Inside, Depth>>
    OBVIOUS
<1> USE DEF MutexInv, MutexTypeOK, Points, OneInside, OwnerHolds, Advance, TakeOr
<1>a. ASSUME NEW t \in Callers, Inside = {}, point' = [point EXCEPT ![t] = "took"]
      PROVE  Promise!Next
    <2>1. Inside' = {t}
        BY <1>a DEF Inside
    <2>2. Depth = 0 /\ Depth' = 1
        BY <1>a, <2>1 DEF Depth, Inside
    <2>3. QED
        BY <1>a, <2>1, <2>2 DEF Promise!Next, Promise!Enter, Depth
<1>b. ASSUME Inside' = Inside, Depth' = Depth PROVE UNCHANGED <<Inside, Depth>>
    BY <1>b
<1>1. ASSUME NEW t \in Callers, Lock(t) PROVE UNCHANGED <<Inside, Depth>>
    BY <1>1 DEF Lock, Inside, Depth
<1>2. ASSUME NEW t \in Callers, LockAgain(t) PROVE Promise!Next
    BY <1>2 DEF LockAgain, Inside, Depth, Promise!Next, Promise!EnterAgain
<1>3. ASSUME NEW t \in Callers, TryLock(t) PROVE Promise!Next
    BY <1>3, <1>a DEF TryLock
<1>4. ASSUME NEW t \in Callers, Unlock(t) PROVE [Promise!Next]_<<Inside, Depth>>
    <2>1. CASE recursion_count_ - 1 > 0
        BY <1>4, <2>1 DEF Unlock, Inside, Depth, Promise!Next, Promise!Leave
    <2>2. CASE ~(recursion_count_ - 1 > 0)
        BY <1>4, <2>2 DEF Unlock, Inside, Depth
    <2>3. QED
        BY <2>1, <2>2
<1>5. ASSUME NEW t \in Callers, SpuriousWakeup(t) PROVE UNCHANGED <<Inside, Depth>>
    BY <1>5 DEF SpuriousWakeup, Inside, Depth
<1>6. ASSUME NEW t \in Callers, FastPath(t) PROVE [Promise!Next]_<<Inside, Depth>>
    <2>1. CASE state_ = 0
        BY <1>6, <2>1, <1>a DEF FastPath
    <2>2. CASE state_ # 0
        BY <1>6, <2>2 DEF FastPath, Inside, Depth
    <2>3. QED
        BY <2>1, <2>2
<1>7. ASSUME NEW t \in Callers, Spin(t) PROVE [Promise!Next]_<<Inside, Depth>>
    <2>1. CASE state_ = 0
        BY <1>7, <2>1, <1>a DEF Spin
    <2>2. CASE state_ # 0
        BY <1>7, <2>2 DEF Spin, Inside, Depth
    <2>3. QED
        BY <2>1, <2>2
<1>8. ASSUME NEW t \in Callers, Exchange(t) PROVE [Promise!Next]_<<Inside, Depth>>
    <2>1. CASE state_ = 0
        BY <1>8, <2>1, <1>a DEF Exchange
    <2>2. CASE state_ # 0
        BY <1>8, <2>2 DEF Exchange, Inside, Depth
    <2>3. QED
        BY <2>1, <2>2
<1>9. ASSUME NEW t \in Callers, FutexWait(t) PROVE UNCHANGED <<Inside, Depth>>
    BY <1>9 DEF FutexWait, Inside, Depth
<1>10. ASSUME NEW t \in Callers, Retry(t) PROVE [Promise!Next]_<<Inside, Depth>>
    <2>1. CASE state_ = 0
        BY <1>10, <2>1, <1>a DEF Retry
    <2>2. CASE state_ # 0
        BY <1>10, <2>2 DEF Retry, Inside, Depth
    <2>3. QED
        BY <2>1, <2>2
<1>11. ASSUME NEW t \in Callers, Own(t) PROVE UNCHANGED <<Inside, Depth>>
    BY <1>11 DEF Own, Inside, Depth
<1>12. ASSUME NEW t \in Callers, Disown(t) PROVE UNCHANGED <<Inside, Depth>>
    BY <1>12 DEF Disown, Inside, Depth
<1>13. ASSUME NEW t \in Callers, FreeWord(t) PROVE Promise!Next
    <2>1. Inside = {t} /\ Inside' = {}
        BY <1>13 DEF FreeWord, Inside
    <2>2. Depth = 1 /\ Depth' = 0
        BY <1>13, <2>1 DEF FreeWord, Depth, Inside
    <2>3. QED
        BY <2>1, <2>2 DEF Promise!Next, Promise!Leave, Depth
<1>14. ASSUME NEW t \in Callers, FutexWake(t) PROVE UNCHANGED <<Inside, Depth>>
    BY <1>14 DEF FutexWake, Inside, Depth, Asleep
<1>15. CASE UNCHANGED mutex_vars
    BY <1>15 DEF mutex_vars, Inside, Depth
<1>16. QED
    BY <1>1, <1>2, <1>3, <1>4, <1>5, <1>6, <1>7, <1>8, <1>9, <1>10, <1>11,
       <1>12, <1>13, <1>14, <1>15 DEF MutexNext, Proceed

\* The mutex implements the recursive lock.
THEOREM MutexRefinement == MutexSpec => ImplementsRecursiveLock
<1>1. MutexInv /\ MutexInv' /\ [MutexNext]_mutex_vars
        => [Promise!Next]_<<Inside, IF Inside = {} THEN 0
              ELSE IF \E t \in Callers : point[t] = "holding" THEN recursion_count_
              ELSE 1>>
    BY PromiseStep DEF Depth
<1>2. QED
    BY MutexInvariance, PromiseInit, <1>1, PTL
       DEF MutexSpec, ImplementsRecursiveLock, Promise!Spec
=============================================================================
