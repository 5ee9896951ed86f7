---------------------------- MODULE ObjectTable ----------------------------
(***************************************************************************)
(* The kernel's handle table and the lifetime of its objects               *)
(* (kernel/util/object_table.cc, kernel/xobject.cc), driven by the exports *)
(* that create, duplicate, reference and close handles                     *)
(* (xboxkrnl_threading.cc, xboxkrnl_ob.cc).                                *)
(*                                                                         *)
(* An object is counted twice: each slot counts the references to its      *)
(* handle, and the object counts the pointers to it, one per slot and one  *)
(* per kernel call that uses it.  Each operation of the table is atomic    *)
(* under the global critical region; an export makes several of them.     *)
(***************************************************************************)
EXTENDS Integers, FiniteSets, Sequences, SequencesExt

CONSTANTS
    Objects,     \* kernel objects the guest may create
    Namings,     \* the ways to name the objects: functions to names and NoName
    NoName, NoObject, NoSlot,
    Threads,     \* guest threads
    Calls,       \* the kinds of calls the guest makes
    Grow,        \* BOUND: first capacity; 16 * 1024 in the code
    MaxSlots,    \* BOUND on the slots of the table
    MaxRefs,     \* BOUND on the references the guest holds to one handle or object
    MayMix,      \* FALSE, a BOUND: see Unmixed
    MayRace      \* FALSE, a BOUND: see MayBegin

AllCalls == {"use", "duplicate", "duplicate_close", "reference", "purge"}

ASSUME ObjectTableAssumption ==
    /\ IsFiniteSet(Objects) /\ IsFiniteSet(Threads)
    /\ NoObject \notin Objects
    /\ Calls \subseteq AllCalls
    /\ MayMix \in BOOLEAN /\ MayRace \in BOOLEAN
    /\ Grow \in Nat \ {0, 1} /\ MaxSlots \in Nat /\ NoSlot \notin 0 .. MaxSlots

Slots == 0 .. MaxSlots - 1

VARIABLES
    NameOf,            \* each object's name, chosen once
    table,             \* table_: object and handle_ref_count of each slot
    table_capacity_,
    last_free_entry_,
    name_table_,
    handles_,          \* XObject::handles_
    stale,             \* first word of an emptied handles_
    pointer_ref_count_,
    dispatch_handle,   \* the handle stashed in the guest's dispatch header
    created, deleted,  \* objects constructed, destroyed
    at, pin, arg,      \* each thread's stage, object_ref and handle in a call
    owned,             \* history: references to each handle the guest owes
    owner,             \* history: the object it got the handle for
    referenced,        \* history: guest pointers from ObReferenceObjectByHandle
    purged             \* history: what was in the table when a title ended

tables  == <<table, table_capacity_, last_free_entry_>>
objects == <<handles_, stale, pointer_ref_count_, created, deleted, dispatch_handle>>
call    == <<at, pin, arg>>
guest   == <<owned, owner, referenced, purged>>
vars    == <<NameOf, tables, name_table_, objects, call, guest>>

Names == {NameOf[o] : o \in Objects} \ {NoName}

At == {"idle", "lookup", "unretain", "retain", "new", "publish",
       "using", "add", "close_source", "referencing", "dereferencing"}

FreeSlot == [object |-> NoObject, refs |-> 0]

OTTypeOK ==
    /\ NameOf \in Namings
    /\ table \in [Slots -> [object : Objects \union {NoObject}, refs : Int]]
    /\ table_capacity_ \in 0 .. MaxSlots /\ last_free_entry_ \in 0 .. MaxSlots
    /\ name_table_ \in [Names -> Slots \union {NoSlot}]
    /\ handles_ \in [Objects -> Seq(Slots)]
    /\ stale \in [Objects -> Slots \union {NoSlot}]
    /\ dispatch_handle \in [Objects -> Slots \union {NoSlot}]
    /\ pointer_ref_count_ \in [Objects -> Nat]
    /\ deleted \subseteq created /\ created \subseteq Objects
    /\ at \in [Threads -> At]
    /\ pin \in [Threads -> Objects \union {NoObject}]
    /\ arg \in [Threads -> Slots \union {NoSlot}]
    /\ owned \in [Slots -> Nat] /\ referenced \in [Objects -> Nat]
    /\ owner \in [Slots -> Objects \union {NoObject}] /\ purged \subseteq created

Init ==
    /\ NameOf \in Namings
    /\ table = [s \in Slots |-> FreeSlot]
    /\ table_capacity_ = 0 /\ last_free_entry_ = 0
    /\ name_table_ = [n \in Names |-> NoSlot]
    /\ handles_ = [o \in Objects |-> <<>>]
    /\ stale = [o \in Objects |-> NoSlot]
    /\ dispatch_handle = [o \in Objects |-> NoSlot]
    /\ pointer_ref_count_ = [o \in Objects |-> 0]
    /\ created = {} /\ deleted = {}
    /\ at = [t \in Threads |-> "idle"]
    /\ pin = [t \in Threads |-> NoObject]
    /\ arg = [t \in Threads |-> NoSlot]
    /\ owned = [s \in Slots |-> 0]
    /\ owner = [s \in Slots |-> NoObject]
    /\ referenced = [o \in Objects |-> 0]
    /\ purged = {}

-----------------------------------------------------------------------------
(* The operations of the table *)

\* handles_[0]; of an empty vector it is the word the last erase left behind.
Handle0(o) == IF handles_[o] # <<>> THEN Head(handles_[o]) ELSE stale[o]

\* FindFreeSlot and Resize: the first free slot from last_free_entry_ on, in
\* a circle, or the first slot of the enlarged table.
FreeSlots == {s \in 0 .. table_capacity_ - 1 : table[s].object = NoObject}

FindFreeSlot(s) ==
    IF FreeSlots # {}
    THEN LET Distance(x) ==
                 (x - last_free_entry_ + table_capacity_) % table_capacity_
         IN  /\ s \in FreeSlots
             /\ \A x \in FreeSlots : Distance(s) <= Distance(x)
             /\ UNCHANGED <<table_capacity_, last_free_entry_>>
    ELSE LET doubled == 2 * table_capacity_
             capacity == IF doubled > Grow THEN doubled ELSE Grow
         IN  /\ capacity <= MaxSlots
             /\ s = table_capacity_
             /\ table_capacity_' = capacity
             /\ last_free_entry_' = s + 1

AddHandle(o, s) ==
    /\ FindFreeSlot(s)
    /\ table' = [table EXCEPT ![s] = [object |-> o, refs |-> 1]]
    /\ handles_' = [handles_ EXCEPT ![o] = Append(@, s)]

\* Pointers come and go: `to` gains `more`, each of `from` loses one; an
\* object that has none left is deleted.
Pointers(to, more, from) ==
    /\ pointer_ref_count_' = [o \in Objects |->
           pointer_ref_count_[o] + (IF o = to THEN more ELSE 0)
             - Cardinality({i \in DOMAIN from : from[i] = o})]
    /\ deleted' = deleted \union
           {o \in created : pointer_ref_count_'[o] = 0}

Retain(o)  == Pointers(o, 1, <<>>)

\* RetainHandle: a slot counts whether or not it holds an object.
RetainHandle(s) == table' = [table EXCEPT ![s].refs = @ + 1]

\* Fault: the object keeps the handle.
RemoveHandleKeepsEntry(s, unpin) ==
    LET o == table[s].object IN
    IF o = NoObject
    THEN /\ Pointers(NoObject, 0, unpin)
         /\ UNCHANGED <<handles_, stale, name_table_>>
    ELSE /\ name_table_' = [n \in Names |->
                IF n = NameOf[o] THEN NoSlot ELSE name_table_[n]]
         /\ Pointers(NoObject, 0, unpin \o <<o>>)
         /\ UNCHANGED <<handles_, stale>>

\* Fault: the name stays mapped.
RemoveHandleKeepsName(s, unpin) ==
    LET o == table[s].object IN
    IF o = NoObject
    THEN /\ Pointers(NoObject, 0, unpin)
         /\ UNCHANGED <<handles_, stale, name_table_>>
    ELSE /\ handles_' = [handles_ EXCEPT ![o] = RemoveFirst(@, s)]
         /\ stale' = [stale EXCEPT ![o] = s]
         /\ Pointers(NoObject, 0, unpin \o <<o>>)
         /\ UNCHANGED name_table_

\* RemoveHandle: the slot is freed, the object forgets the handle, its name is
\* unmapped.  `unpin` are the other pointers the same step gives up.
RemoveHandle(s, unpin) ==
    LET o == table[s].object IN
    IF o = NoObject
    THEN /\ Pointers(NoObject, 0, unpin)
         /\ UNCHANGED <<handles_, stale, name_table_>>
    ELSE /\ handles_' = [handles_ EXCEPT ![o] = RemoveFirst(@, s)]
         /\ stale' = [stale EXCEPT ![o] = s]
         /\ name_table_' = [n \in Names |->
                IF n = NameOf[o] THEN NoSlot ELSE name_table_[n]]
         /\ Pointers(NoObject, 0, unpin \o <<o>>)

ReleaseHandle(s, unpin) ==
    IF table[s].refs = 1
    THEN table' = [table EXCEPT ![s] = FreeSlot] /\ RemoveHandle(s, unpin)
    ELSE /\ table' = [table EXCEPT ![s].refs = @ - 1]
         /\ Pointers(NoObject, 0, unpin)
         /\ UNCHANGED <<handles_, stale, name_table_>>

-----------------------------------------------------------------------------
(* Stages of a call *)

Goto(t, where, o, s) ==
    /\ at' = [at EXCEPT ![t] = where]
    /\ pin' = [pin EXCEPT ![t] = o]
    /\ arg' = [arg EXCEPT ![t] = s]

Return(t) == Goto(t, "idle", NoObject, NoSlot)

\* The guest is given a reference to a handle that stands for o.
Give(s, o) ==
    /\ owned' = [owned EXCEPT ![s] = @ + 1]
    /\ owner' = [owner EXCEPT ![s] = o]

Capacity == UNCHANGED <<table_capacity_, last_free_entry_>>

\* BOUND: on objects with names calls do not overlap, and none clears a slot
\* whatever its count (Kinds, PurgeAllObjects).  Two calls that overlap can
\* return a handle that is closed (ObjectTableRace).
Kinds == IF Names = {} THEN Calls ELSE Calls \ {"duplicate_close", "purge"}

MayBegin(t) ==
    /\ at[t] = "idle"
    /\ MayRace \/ Names = {} \/ \A u \in Threads \ {t} : at[u] = "idle"

\* Where a name leads; an object without a name is never found by name.
Mapped(o) == IF NameOf[o] = NoName THEN NoSlot ELSE name_table_[NameOf[o]]

-----------------------------------------------------------------------------
(* NtCreateEvent and its like: LookupNamedObject, then a new object *)

\* GetObjectByName finds the name and references the handle.
FindName(t, o) ==
    /\ MayBegin(t)
    /\ o \notin created
    /\ LET s == Mapped(o) IN
         /\ s # NoSlot /\ owned[s] < MaxRefs
         /\ RetainHandle(Handle0(table[s].object))
         /\ Goto(t, "lookup", NoObject, s)
    /\ Capacity /\ UNCHANGED <<name_table_, objects, guest>>

\* The reference just taken keeps the slot in use (MayBegin keeps the calls
\* that clear a slot whatever its count away).
LookupNamed(t) ==
    /\ at[t] = "lookup"
    /\ LET o == table[arg[t]].object IN
         /\ o # NoObject
         /\ Retain(o)
         /\ Goto(t, "unretain", o, arg[t])
    /\ UNCHANGED <<tables, name_table_, handles_, stale, created, dispatch_handle, guest>>

\* LookupNamedObject gives back the reference ("The caller will do as it likes").
Unretain(t) ==
    /\ at[t] = "unretain"
    /\ ReleaseHandle(Handle0(pin[t]), <<>>)
    /\ Goto(t, "retain", pin[t], NoSlot)
    /\ Capacity /\ UNCHANGED <<created, dispatch_handle, guest>>

\* The export takes one of its own and returns the handle.
ReturnExisting(t) ==
    /\ at[t] = "retain"
    /\ RetainHandle(Handle0(pin[t]))
    /\ Pointers(NoObject, 0, <<pin[t]>>)
    /\ Give(Handle0(pin[t]), pin[t])
    /\ Return(t)
    /\ Capacity
    /\ UNCHANGED <<name_table_, handles_, stale, created, dispatch_handle, referenced,
                   purged>>

NameNotFound(t, o) ==
    /\ MayBegin(t)
    /\ o \notin created /\ \A u \in Threads : pin[u] # o
    /\ Mapped(o) = NoSlot
    /\ Goto(t, "new", o, NoSlot)
    /\ UNCHANGED <<tables, name_table_, objects, guest>>

\* The constructor takes a pointer and a slot; the guest object remembers the
\* handle.
NewObject(t) ==
    /\ at[t] = "new"
    /\ \E s \in Slots :
          /\ AddHandle(pin[t], s)
          /\ dispatch_handle' = [dispatch_handle EXCEPT ![pin[t]] = s]
    /\ created' = created \union {pin[t]}
    /\ Pointers(pin[t], 2, <<>>)
    /\ Goto(t, "publish", pin[t], NoSlot)
    /\ UNCHANGED <<name_table_, stale, guest>>

\* SetAttributes (a collision is ignored); the object_ref goes out of scope.
Publish(t) ==
    /\ at[t] = "publish"
    /\ LET o == pin[t] IN
         /\ name_table_' = [n \in Names |->
                IF n = NameOf[o] /\ name_table_[n] = NoSlot
                THEN Handle0(o) ELSE name_table_[n]]
         /\ Pointers(NoObject, 0, <<o>>)
         /\ Give(Handle0(o), o)
    /\ Return(t)
    /\ UNCHANGED <<tables, handles_, stale, created, dispatch_handle, referenced,
                   purged>>

-----------------------------------------------------------------------------
(* Calls on a handle: LookupObject, an operation, the object_ref ends *)

NextStage ==
    [use |-> "using", duplicate |-> "add", duplicate_close |-> "add",
     reference |-> "referencing"]

\* BOUND: an object is referenced by pointer only while the handle it was
\* created with is its only one, and not duplicated while it is referenced.
\* Otherwise the reference is counted in one slot and given back in another.
Unmixed(o, kind) ==
    LET Inside(stages) == \E u \in Threads : pin[u] = o /\ at[u] \in stages IN
    /\ kind = "reference" =>
          handles_[o] = <<dispatch_handle[o]>> /\ ~Inside({"add"})
    /\ kind \in {"duplicate", "duplicate_close"} =>
          referenced[o] = 0 /\ ~Inside({"referencing", "dereferencing"})

\* Fault: the object found is not retained.
LookupUnretained(t, s, kind) ==
    /\ MayBegin(t) /\ kind \in Kinds \intersect DOMAIN NextStage
    /\ owned[s] > 0
    /\ table[s].object # NoObject
    /\ Goto(t, NextStage[kind], table[s].object, s)
    /\ UNCHANGED <<tables, name_table_, objects, guest>>

Lookup(t, s, kind) ==
    /\ MayBegin(t) /\ kind \in Kinds \intersect DOMAIN NextStage
    /\ owned[s] > 0
    /\ table[s].object # NoObject
    /\ kind \in {"duplicate", "duplicate_close"} =>
          Cardinality({x \in Slots : table[x].object # NoObject}) < MaxSlots
    /\ kind = "reference" => referenced[table[s].object] < MaxRefs
    /\ MayMix \/ Unmixed(table[s].object, kind)
    /\ Retain(table[s].object)
    /\ Goto(t, NextStage[kind], table[s].object,
            IF kind = "duplicate" THEN NoSlot ELSE s)
    /\ IF kind = "duplicate_close"
       THEN owned' = [owned EXCEPT ![s] = @ - 1] /\ UNCHANGED <<owner, referenced, purged>>
       ELSE UNCHANGED guest
    /\ UNCHANGED <<tables, name_table_, handles_, stale, created, dispatch_handle>>

\* A wait, a signal, a query: the object is only kept alive.
Used(t) ==
    /\ at[t] = "using"
    /\ Pointers(NoObject, 0, <<pin[t]>>)
    /\ Return(t)
    /\ UNCHANGED <<tables, name_table_, handles_, stale, created, dispatch_handle, guest>>

\* DuplicateHandle adds the new handle.
Duplicate(t) ==
    /\ at[t] = "add"
    /\ \E s \in Slots : AddHandle(pin[t], s) /\ Give(s, pin[t])
    /\ Pointers(pin[t], 1, <<pin[t]>>)
    /\ IF arg[t] = NoSlot THEN Return(t) ELSE Goto(t, "close_source", NoObject, arg[t])
    /\ UNCHANGED <<name_table_, stale, created, dispatch_handle, referenced,
                   purged>>

\* DUPLICATE_CLOSE_SOURCE removes the source whatever its count.
CloseSource(t) ==
    /\ at[t] = "close_source"
    /\ table' = [table EXCEPT ![arg[t]] = FreeSlot]
    /\ RemoveHandle(arg[t], <<>>)
    /\ Return(t)
    /\ Capacity /\ UNCHANGED <<created, dispatch_handle, guest>>

\* Fault: nothing is referenced.
ReferenceUnretained(t) ==
    /\ at[t] = "referencing"
    /\ referenced' = [referenced EXCEPT ![pin[t]] = @ + 1]
    /\ Pointers(NoObject, 0, <<pin[t]>>)
    /\ Return(t)
    /\ UNCHANGED <<tables, name_table_, handles_, stale, created,
                   dispatch_handle, owned, owner, purged>>

\* ObReferenceObjectByHandle references the object's first handle.
Reference(t) ==
    /\ at[t] = "referencing"
    /\ RetainHandle(Handle0(pin[t]))
    /\ referenced' = [referenced EXCEPT ![pin[t]] = @ + 1]
    /\ Pointers(NoObject, 0, <<pin[t]>>)
    /\ Return(t)
    /\ Capacity
    /\ UNCHANGED <<name_table_, handles_, stale, created, dispatch_handle, owned,
                   owner, purged>>

\* ObDereferenceObject goes by the handle in the dispatch header.
BeginDereference(t, o) ==
    /\ MayBegin(t)
    /\ referenced[o] > 0
    /\ referenced' = [referenced EXCEPT ![o] = @ - 1]
    /\ LET found == table[dispatch_handle[o]].object IN
         IF found = NoObject
         THEN UNCHANGED <<call, pointer_ref_count_, deleted>>
         ELSE Retain(found) /\ Goto(t, "dereferencing", found, NoSlot)
    /\ UNCHANGED <<tables, name_table_, handles_, stale, created, dispatch_handle, owned,
                   owner, purged>>

Dereference(t) ==
    /\ at[t] = "dereferencing"
    /\ ReleaseHandle(Handle0(pin[t]), <<pin[t]>>)
    /\ Return(t)
    /\ Capacity /\ UNCHANGED <<created, dispatch_handle, guest>>

\* NtClose.  The guest does not close a handle that a call it has not returned
\* from is referencing by.
Close(t, s) ==
    /\ MayBegin(t)
    /\ owned[s] > Cardinality({u \in Threads : at[u] = "referencing" /\ arg[u] = s})
    /\ ReleaseHandle(s, <<>>)
    /\ owned' = [owned EXCEPT ![s] = @ - 1]
    /\ Capacity /\ UNCHANGED <<created, dispatch_handle, call, owner, referenced, purged>>

\* PurgeAllObjects when the title ends and its threads are gone: every slot's
\* count is set to zero and then decremented through handles_[0], so the handle
\* is never removed; the slots are cleared, the objects keep the pointers of the
\* table.  BOUND: no object has several handles then.
PurgeAllObjects ==
    /\ "purge" \in Kinds /\ \A t \in Threads : at[t] = "idle"
    /\ created # {}
    /\ \A o \in Objects : Cardinality({s \in Slots : table[s].object = o}) <= 1
    /\ table' = [s \in Slots |-> IF table[s].object = NoObject THEN table[s]
                                 ELSE [object |-> NoObject, refs |-> -1]]
    /\ owned' = [s \in Slots |-> 0]
    /\ referenced' = [o \in Objects |-> 0]
    /\ purged' = purged \union {table[s].object : s \in {x \in Slots : table[x].object # NoObject}}
    /\ Capacity /\ UNCHANGED <<name_table_, objects, call, owner>>

-----------------------------------------------------------------------------

Step(t) ==
    \/ LookupNamed(t) \/ Unretain(t) \/ ReturnExisting(t)
    \/ NewObject(t) \/ Publish(t)
    \/ Used(t) \/ Duplicate(t) \/ CloseSource(t)
    \/ Reference(t) \/ Dereference(t)
    \/ \E o \in Objects :
          FindName(t, o) \/ NameNotFound(t, o) \/ BeginDereference(t, o)
    \/ \E s \in Slots :
          Close(t, s) \/ \E kind \in AllCalls : Lookup(t, s, kind)

Next == (PurgeAllObjects \/ \E t \in Threads : Step(t)) /\ UNCHANGED NameOf

Spec == Init /\ [][Next]_vars

-----------------------------------------------------------------------------
(* Properties *)

Open(s) == table[s].object # NoObject
Pinned(o) == {t \in Threads : pin[t] = o /\ at[t] # "new"}

\* An object's pointers are the slots it is in and the calls that use it: it
\* is neither freed under a call nor kept for ever.  Only what was in the table
\* when a title ended keeps one pointer that nobody will give up.
PointersAreExact ==
    \A o \in Objects : pointer_ref_count_[o] =
        Cardinality({s \in Slots : table[s].object = o}) + Cardinality(Pinned(o))
          + (IF o \in purged THEN 1 ELSE 0)

\* What nobody points to was destroyed, and no slot and no call has a pointer to
\* a destroyed object.
NoUseAfterFree ==
    /\ deleted = {o \in created : pointer_ref_count_[o] = 0}
    /\ \A s \in Slots : table[s].object \notin deleted
    /\ \A t \in Threads : pin[t] \notin deleted

\* Objects live exactly as long as somebody has a pointer to them.
LifetimesAreExact == PointersAreExact /\ NoUseAfterFree

\* The table and the objects agree on which handle is whose, until the title ends.
HandlesAgree ==
    \A o \in Objects \ purged :
        /\ ToSet(handles_[o]) = {s \in Slots : table[s].object = o}
        /\ IsInjective(handles_[o])

\* All variables have their types, and table and objects agree.
OTInv == OTTypeOK /\ HandlesAgree

\* What the guest was given and has not closed stays open and stands for the
\* object it was given for.
GuestHandlesStayOpen ==
    \A s \in Slots : owned[s] > 0 => table[s].object = owner[s] /\ Open(s)

\* A mapped name leads to an open handle of an object with that name, the one
\* GetObjectByName references.
NamesResolve ==
    \A n \in Names : name_table_[n] # NoSlot =>
        LET o == table[name_table_[n]].object IN
            /\ o \in created \ deleted
            /\ NameOf[o] = n
            /\ Handle0(o) = name_table_[n]
=============================================================================
