------------------------------ MODULE ApcQueue ------------------------------
(***************************************************************************)
(* The APC lists of one guest thread (xboxkrnl_threading.cc, native_list.h)*)
(* from its creation to its exit.                                          *)
(*                                                                         *)
(* A list is a ring of entries linked both ways, the head being a member   *)
(* of the thread.  Everybody inserts and removes under apc_lock, which is  *)
(* one step here; the thread takes entries out one by one and releases the *)
(* lock to run each, and when it exits it unlinks the head and walks the   *)
(* rest without the lock.                                                  *)
(***************************************************************************)
EXTENDS Integers, Sequences, FiniteSets, SequencesExt

CONSTANTS
    Queuers, Self,   \* threads that queue APCs: others and the thread itself
    Heap,            \* APCs NtQueueApcThread can allocate
    Own,             \* APCs that belong to the guest
    None,
    MaxDepth,        \* BOUND on APCs that wait alertably themselves
    MayQueueLate     \* BOUND: somebody queues after the thread began to exit

Actors == Queuers \union {Self}
Apcs   == Heap \union Own
Heads  == {"kernel_list", "user_list"}
Nodes  == Heads \union Apcs

ASSUME ApcQueueAssumption ==
    /\ IsFiniteSet(Apcs) /\ Heap \cap Own = {} /\ Apcs \cap Heads = {}
    /\ None \notin Nodes /\ Self \notin Queuers
    /\ MaxDepth \in Nat \ {0} /\ MayQueueLate \in BOOLEAN

VARIABLES
    flink, blink,     \* the links of heads and entries
    enqueued,         \* the flag of each APC
    normal_routine,   \* it has one
    apc_mode,         \* the list it goes to
    allocated,        \* the APCs allocated from the system heap
    in_hand,          \* the one each actor has allocated and not yet inserted
    at,               \* where the thread is
    depth,            \* calls of xeProcessUserApcs it is in
    current_entry,    \* the APC it took, or the one its rundown has come to
    result            \* the entry its rundown began with

links   == <<flink, blink, enqueued>>
routine == <<normal_routine, apc_mode>>
thread  == <<at, depth, current_entry, result>>
vars    == <<links, routine, allocated, in_hand, thread>>

At == {"created", "guest", "scan", "taken", "rundown", "kernel_rundown", "gone"}

Exiting == at \in {"rundown", "kernel_rundown", "gone"}

Init ==
    /\ flink = [n \in Nodes |-> n] /\ blink = [n \in Nodes |-> n]
    /\ enqueued = [a \in Apcs |-> FALSE]
    /\ normal_routine = [a \in Apcs |-> TRUE]
    /\ apc_mode = [a \in Apcs |-> "user_list"]
    /\ allocated = {}
    /\ in_hand = [t \in Actors |-> None]
    /\ at = "created" /\ depth = 0 /\ current_entry = None /\ result = None

-----------------------------------------------------------------------------
(* Lists *)

\* The nodes from n on, up to but not including last.
Chain(n, last) ==
    LET node[i \in 0 .. Cardinality(Nodes)] == IF i = 0 THEN n ELSE flink[node[i - 1]]
        Ends(i) == node[i] = last /\ \A j \in 0 .. i - 1 : node[j] # last
    IN  IF \E i \in DOMAIN node : Ends(i)
        THEN [i \in 1 .. CHOOSE k \in DOMAIN node : Ends(k) |-> node[i - 1]]
        ELSE [i \in 1 .. Cardinality(Nodes) + 1 |-> node[i - 1]]

Entries(list) == Chain(flink[list], list)

\* XeInsertHeadList: a is linked in behind the node position.
InsertBehind(position, a) ==
    LET next == flink[position] IN
    /\ flink' = [flink EXCEPT ![a] = next, ![position] = a]
    /\ blink' = [blink EXCEPT ![a] = position, ![next] = a]

\* XeRemoveEntryList; the links of a itself stay.
Unlink(a) ==
    /\ flink' = [flink EXCEPT ![blink[a]] = flink[a]]
    /\ blink' = [blink EXCEPT ![flink[a]] = blink[a]]

\* Fault: the newest entry goes first.
BehindHead(a) == apc_mode[a]

\* Behind what an APC is inserted: one with a normal routine goes to the tail;
\* one without goes before the first that has one, or else before the last.
InsertionPosition(a) ==
    LET list    == apc_mode[a]
        entries == Entries(list)
        normal  == {i \in DOMAIN entries : normal_routine[entries[i]]}
    IN  IF entries = <<>> \/ normal_routine[a] THEN blink[list]
        ELSE blink[entries[IF normal = {} THEN Len(entries)
                           ELSE CHOOSE i \in normal : \A j \in normal : i <= j]]

-----------------------------------------------------------------------------
(* Queueing.  may_queue_apcs is set when the thread is created and never    *)
(* cleared, so it refuses nothing.                                          *)

\* BOUND; the thread itself queues from guest code.
MayQueue(t) ==
    /\ t = Self => at = "guest"
    /\ MayQueueLate \/ ~Exiting

\* Who is between allocating and inserting does nothing else.
Ready(t) == in_hand[t] = None /\ MayQueue(t)

\* What KeInitializeApc makes of its arguments.
Initialized(a, has_normal, mode) ==
    /\ normal_routine' = [normal_routine EXCEPT ![a] = has_normal]
    /\ apc_mode' = [apc_mode EXCEPT ![a] = IF has_normal THEN mode ELSE "kernel_list"]

\* The guest initialises only what is neither queued nor being run down.
KeInitializeApc(t, a) ==
    /\ Ready(t) /\ ~enqueued[a] /\ at \notin {"taken", "rundown"}
    /\ \E has_normal \in BOOLEAN, mode \in Heads : Initialized(a, has_normal, mode)
    /\ UNCHANGED <<links, allocated, in_hand, thread>>

Accepted(a) == ~enqueued[a]

\* xeKeInsertQueueApc, the whole of it under apc_lock.
Insert(a) ==
    IF Accepted(a)
    THEN /\ InsertBehind(InsertionPosition(a), a)
         /\ enqueued' = [enqueued EXCEPT ![a] = TRUE]
    ELSE UNCHANGED links

KeInsertQueueApc(t, a) ==
    /\ Ready(t)
    /\ Insert(a)
    /\ UNCHANGED <<routine, allocated, in_hand, thread>>

KeRemoveQueueApc(t, a) ==
    /\ Ready(t) /\ enqueued[a]
    /\ Unlink(a)
    /\ enqueued' = [enqueued EXCEPT ![a] = FALSE]
    /\ UNCHANGED <<routine, allocated, in_hand, thread>>

\* NtQueueApcThread allocates an APC and initialises it, with or without a
\* routine...
Allocate(t, a) ==
    /\ Ready(t) /\ a \notin allocated
    /\ allocated' = allocated \union {a}
    /\ in_hand' = [in_hand EXCEPT ![t] = a]
    /\ \E has_normal \in BOOLEAN : Initialized(a, has_normal, "user_list")
    /\ enqueued' = [enqueued EXCEPT ![a] = FALSE]
    /\ UNCHANGED <<flink, blink, thread>>

\* ...and inserts it, or frees it again.
InsertAllocated(t) ==
    /\ in_hand[t] # None
    /\ Insert(in_hand[t])
    /\ allocated' = IF Accepted(in_hand[t]) THEN allocated ELSE allocated \ {in_hand[t]}
    /\ in_hand' = [in_hand EXCEPT ![t] = None]
    /\ UNCHANGED <<routine, thread>>

-----------------------------------------------------------------------------
(* Delivery: xeProcessUserApcs, when the thread starts, at an alertable     *)
(* wait, and again from the routine of an APC.                              *)

ProcessUserApcs ==
    /\ at = "created" \/ (at = "guest" /\ in_hand[Self] = None)
    /\ depth < MaxDepth
    /\ at' = "scan" /\ depth' = depth + 1
    /\ UNCHANGED <<links, routine, allocated, in_hand, current_entry, result>>

\* The entry is copied, removed and marked, and the lock released.
TakeApc ==
    /\ at = "scan" /\ Entries("user_list") # <<>>
    /\ LET a == flink["user_list"] IN
         /\ Unlink(a)
         /\ enqueued' = [enqueued EXCEPT ![a] = FALSE]
         /\ current_entry' = a
    /\ at' = "taken"
    /\ UNCHANGED <<routine, allocated, in_hand, depth, result>>

\* Fault: the APC is run and kept.
RunAndKeep ==
    /\ at = "taken"
    /\ at' = "guest" /\ current_entry' = None
    /\ UNCHANGED <<links, routine, allocated, in_hand, depth, result>>

\* An allocated APC is freed before its routine runs; for one of the guest its
\* kernel routine runs first.  Both are guest code.
RunApc ==
    /\ at = "taken"
    /\ allocated' = allocated \ {current_entry}
    /\ at' = "guest" /\ current_entry' = None
    /\ UNCHANGED <<links, routine, in_hand, depth, result>>

ReturnFromRoutine ==
    /\ at = "guest" /\ depth > 0 /\ in_hand[Self] = None
    /\ at' = "scan"
    /\ UNCHANGED <<links, routine, allocated, in_hand, depth, current_entry, result>>

FinishProcessing ==
    /\ at = "scan" /\ Entries("user_list") = <<>>
    /\ at' = "guest" /\ depth' = depth - 1
    /\ UNCHANGED <<links, routine, allocated, in_hand, current_entry, result>>

-----------------------------------------------------------------------------
(* Exit: xeRundownApcs, at whatever depth.                                  *)

\* YankApcList under the lock: every entry is marked and the head unlinked,
\* which leaves the entries linked to each other and the head's links as they
\* were.
Yank(list) ==
    /\ enqueued' = [a \in Apcs |-> enqueued[a] /\ a \notin ToSet(Entries(list))]
    /\ IF Entries(list) = <<>> THEN UNCHANGED <<flink, blink>> ELSE Unlink(list)

YankUserApcs ==
    /\ at = "guest" /\ in_hand[Self] = None
    /\ MayQueueLate \/ \A t \in Actors : in_hand[t] = None
    /\ Yank("user_list")
    /\ IF Entries("user_list") = <<>>
       THEN at' = "kernel_rundown" /\ UNCHANGED <<current_entry, result>>
       ELSE /\ at' = "rundown"
            /\ result' = flink["user_list"] /\ current_entry' = flink["user_list"]
    /\ UNCHANGED <<routine, allocated, in_hand, depth>>

\* The next entry is read before this one is freed or its rundown routine run.
RundownApc ==
    /\ at = "rundown"
    /\ allocated' = allocated \ {current_entry}
    /\ IF flink[current_entry] = result
       THEN at' = "kernel_rundown" /\ current_entry' = None /\ result' = None
       ELSE current_entry' = flink[current_entry] /\ UNCHANGED <<at, result>>
    /\ UNCHANGED <<links, routine, in_hand, depth>>

\* The kernel list is only unlinked: nobody delivers or frees what is in it.
YankKernelApcs ==
    /\ at = "kernel_rundown"
    /\ Yank("kernel_list")
    /\ at' = "gone"
    /\ UNCHANGED <<routine, allocated, in_hand, depth, current_entry, result>>

-----------------------------------------------------------------------------

Rundown == RundownApc \/ YankKernelApcs

Next ==
    \/ ProcessUserApcs \/ TakeApc \/ RunApc \/ ReturnFromRoutine \/ FinishProcessing
    \/ YankUserApcs \/ Rundown
    \/ \E t \in Actors :
          \/ \E a \in Own :
                KeInitializeApc(t, a) \/ KeInsertQueueApc(t, a) \/ KeRemoveQueueApc(t, a)
          \/ \E a \in Heap : Allocate(t, a)
          \/ InsertAllocated(t)

\* A thread that exits goes through with it; a rundown routine returns.
Spec == Init /\ [][Next]_vars /\ WF_vars(Rundown)

-----------------------------------------------------------------------------
(* Properties *)

ApcTypeOK ==
    /\ flink \in [Nodes -> Nodes] /\ blink \in [Nodes -> Nodes]
    /\ enqueued \in [Apcs -> BOOLEAN] /\ normal_routine \in [Apcs -> BOOLEAN]
    /\ apc_mode \in [Apcs -> Heads]
    /\ allocated \subseteq Heap /\ in_hand \in [Actors -> Heap \union {None}]
    /\ at \in At /\ depth \in 0 .. MaxDepth
    /\ current_entry \in Apcs \union {None} /\ result \in Apcs \union {None}

\* A list the thread still has is a ring of exactly the APCs marked as queued
\* there, linked the same way in both directions, special APCs before those
\* with a normal routine, and none of them freed.
LinkedBothWays(list) ==
    \A n \in {list} \union ToSet(Entries(list)) : blink[flink[n]] = n /\ flink[blink[n]] = n

ListIsSound(list) ==
    LET entries == Entries(list) IN
    /\ {a \in Apcs : enqueued[a] /\ apc_mode[a] = list} = ToSet(entries)
    /\ IsInjective(entries) /\ LinkedBothWays(list)
    /\ ToSet(entries) \subseteq allocated \union Own
    /\ \A i, j \in DOMAIN entries :
          normal_routine[entries[i]] /\ ~normal_routine[entries[j]] => j < i

\* Once the user list was yanked nothing is marked as queued there, whoever
\* wanted to remove an APC or to queue it again.
ListsAreSound ==
    /\ at # "gone" => ListIsSound("kernel_list")
    /\ IF Exiting THEN \A a \in Apcs : enqueued[a] => apc_mode[a] = "kernel_list"
       ELSE ListIsSound("user_list")


\* Every allocated APC is in somebody's hands, queued, taken, or still to be
\* run down; none is freed early or leaks.  Those without a routine go to the
\* kernel list and are never freed.
ToRunDown == IF at = "rundown" THEN ToSet(<<current_entry>> \o Chain(flink[current_entry], result))
             ELSE {}

HeapIsExact ==
    LET user == {a \in Heap : normal_routine[a]}
        held == {in_hand[t] : t \in Actors} \union {a \in Heap : enqueued[a]}
                  \union {current_entry} \union ToRunDown
    IN  /\ allocated \cap user = held \cap user
        /\ ToRunDown \subseteq allocated \union Own

\* All variables have their types, the lists are sound and the heap is exact.
ApcInv == ApcTypeOK /\ ListsAreSound /\ HeapIsExact

\* The user list is the queue others were promised: first in, first out, each
\* APC handed out once, across the yanking of the list.
Contract == INSTANCE ApcContract WITH
    queue <- IF at = "rundown" THEN <<current_entry>> \o Chain(flink[current_entry], result)
             ELSE IF Exiting THEN <<>> ELSE Entries("user_list"),
    exiting <- Exiting

ImplementsApcContract == Contract!Spec
=============================================================================
