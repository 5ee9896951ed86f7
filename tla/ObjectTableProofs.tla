------------------------- MODULE ObjectTableProofs -------------------------
(***************************************************************************)
(* Proofs about the handle table and the lifetime of objects.              *)
(*                                                                         *)
(* LifeInv is inductive by itself: the table and handles_ name each other, *)
(* a pointer is counted for each slot and each call in progress, and what  *)
(* a title left behind is out of reach.  NamesInv needs LifeInv and that   *)
(* calls on named objects do not overlap; HandleInv needs both and that    *)
(* references by pointer go through an object's only handle.               *)
(***************************************************************************)
EXTENDS ObjectTable, FiniteSetTheorems, TLAPS

\* The slots an object is in.
SlotsOf(o) == {s \in Slots : table[s].object = o}

\* The object a thread has a pointer to; a name that was not found is only noted.
Holds(t) == IF at[t] = "new" THEN NoObject ELSE pin[t]

\* The parts of the inductive invariant.  The table and the handles agree:
TableInv ==
    /\ table \in [Slots -> [object : Objects \union {NoObject}, refs : Int]]
    /\ table_capacity_ \in 0 .. MaxSlots /\ last_free_entry_ \in 0 .. MaxSlots
    /\ name_table_ \in [Names -> Slots \union {NoSlot}]
    /\ handles_ \in [Objects -> Seq(Slots)]
    /\ stale \in [Objects -> Slots \union {NoSlot}]
    /\ dispatch_handle \in [Objects -> Slots \union {NoSlot}]
    /\ created \subseteq Objects /\ purged \subseteq created
    /\ \A s \in Slots : Open(s) => s < table_capacity_ /\ table[s].object \in created
    /\ \A o \in created : Handle0(o) \in Slots /\ dispatch_handle[o] \in Slots
    /\ HandlesAgree

\* a thread has a pointer to an object that was created, or notes one that was not:
CallInv ==
    /\ at \in [Threads -> At]
    /\ pin \in [Threads -> Objects \union {NoObject}]
    /\ arg \in [Threads -> Slots \union {NoSlot}]
    /\ \A t \in Threads :
          /\ at[t] \in {"idle", "lookup", "close_source"} <=> pin[t] = NoObject
          /\ at[t] \in {"lookup", "close_source"} => arg[t] \in Slots
          /\ at[t] = "new" => /\ pin[t] \notin created
                              /\ \A u \in Threads \ {t} : pin[u] # pin[t]
          /\ at[t] # "new" => pin[t] \in created \union {NoObject}

\* the pointers are counted:
CountInv ==
    /\ pointer_ref_count_ \in [Objects -> Nat]
    /\ PointersAreExact
    /\ deleted = {o \in created : pointer_ref_count_[o] = 0}

\* the guest has references to what was created, and what a title left behind is
\* out of everyone's reach:
GuestInv ==
    /\ owned \in [Slots -> Nat] /\ referenced \in [Objects -> Nat]
    /\ owner \in [Slots -> Objects \union {NoObject}]
    /\ \A o \in Objects : referenced[o] > 0 => o \in created

OutOfReach ==
    \A o \in purged : /\ \A s \in Slots : table[s].object # o
                      /\ \A t \in Threads : pin[t] # o

LifeInv == NameOf \in Namings /\ TableInv /\ CallInv /\ CountInv /\ GuestInv /\ OutOfReach

-----------------------------------------------------------------------------
(* Sequences and sets *)

\* std::find and erase on a vector without duplicates: the handle goes, the
\* others stay in their order.
LEMMA RemoveOne ==
  ASSUME NEW S, NEW h \in Seq(S), IsInjective(h), NEW e \in ToSet(h)
  PROVE  /\ RemoveFirst(h, e) \in Seq(S)
         /\ ToSet(RemoveFirst(h, e)) = ToSet(h) \ {e}
         /\ IsInjective(RemoveFirst(h, e))
         /\ Head(h) # e => RemoveFirst(h, e) # <<>> /\ Head(RemoveFirst(h, e)) = Head(h)
<1>1. PICK k \in 1 .. Len(h) : h[k] = e
  BY DEF ToSet
<1>2. \A i \in 1 .. Len(h) : h[i] = e => i = k
  BY <1>1 DEF IsInjective
<1>3. {i \in 1 .. Len(h) : h[i] = e} = {k}
  BY <1>1, <1>2
<1>4. Min({k}) = k
  BY <1>1 DEF Min
<1> DEFINE r == RemoveAt(h, k)
<1>5. RemoveFirst(h, e) = r
  BY <1>1, <1>3, <1>4 DEF RemoveFirst, SelectInSeq
<1>6. /\ r \in Seq(S) /\ Len(r) = Len(h) - 1
      /\ \A i \in 1 .. k - 1 : r[i] = h[i]
      /\ \A i \in k .. Len(h) - 1 : r[i] = h[i + 1]
  <2> DEFINE a == SubSeq(h, 1, k - 1)
             b == SubSeq(h, k + 1, Len(h))
  <2>1. /\ a \in Seq(S) /\ Len(a) = k - 1
        /\ \A i \in 1 .. k - 1 : a[i] = h[i]
    BY <1>1
  <2>2. /\ b \in Seq(S) /\ Len(b) = Len(h) - k
        /\ \A i \in 1 .. Len(h) - k : b[i] = h[k + i]
    BY <1>1
  <2>3. r = a \o b
    BY DEF RemoveAt
  <2> HIDE DEF a, b, r
  <2>4. Len(h) \in Nat /\ k \in 1 .. Len(h)
    BY <1>1
  <2>5. r \in Seq(S) /\ Len(r) = Len(h) - 1
    BY <2>1, <2>2, <2>3, <2>4
  <2>6. \A i \in 1 .. k - 1 : r[i] = h[i]
    BY <2>1, <2>2, <2>3, <2>4
  <2>7. \A i \in k .. Len(h) - 1 : r[i] = h[i + 1]
    BY <2>1, <2>2, <2>3, <2>4
  <2> QED BY <2>5, <2>6, <2>7
<1> HIDE DEF r
<1>7. DOMAIN r = 1 .. Len(h) - 1 /\ DOMAIN h = 1 .. Len(h) /\ Len(h) \in Nat
  BY <1>6
<1>8. ToSet(r) = ToSet(h) \ {e}
  <2>1. ASSUME NEW i \in 1 .. Len(h) - 1
        PROVE  r[i] \in ToSet(h) /\ r[i] # e
    <3>1. CASE i < k
      BY <1>1, <1>2, <1>6, <1>7, <3>1 DEF ToSet
    <3>2. CASE i >= k
      <4>1. i + 1 \in 1 .. Len(h) /\ i + 1 # k
        BY <1>1, <1>7, <3>2
      <4> QED BY <1>1, <1>2, <1>6, <1>7, <3>2, <4>1 DEF ToSet
    <3> QED BY <1>1, <1>7, <3>1, <3>2
  <2>2. ASSUME NEW i \in 1 .. Len(h), h[i] # e
        PROVE  h[i] \in ToSet(r)
    <3>1. CASE i < k
      BY <1>1, <1>6, <1>7, <3>1 DEF ToSet
    <3>2. CASE i > k
      <4>1. i - 1 \in k .. Len(h) - 1 /\ i - 1 \in 1 .. Len(h) - 1 /\ (i - 1) + 1 = i
        BY <1>1, <1>7, <3>2
      <4> QED BY <1>6, <1>7, <4>1 DEF ToSet
    <3> QED BY <1>1, <1>7, <2>2, <3>1, <3>2
  <2> QED BY <1>7, <2>1, <2>2 DEF ToSet
<1>9. IsInjective(r)
  <2> SUFFICES ASSUME NEW i \in 1 .. Len(h) - 1, NEW j \in 1 .. Len(h) - 1, r[i] = r[j]
               PROVE  i = j
    BY <1>7 DEF IsInjective
  <2> DEFINE up(x) == IF x < k THEN x ELSE x + 1
  <2>1. up(i) \in 1 .. Len(h) /\ up(j) \in 1 .. Len(h)
    BY <1>7
  <2>2. r[i] = h[up(i)] /\ r[j] = h[up(j)]
    BY <1>1, <1>6, <1>7
  <2>3. up(i) = up(j)
    BY <1>7, <2>1, <2>2 DEF IsInjective
  <2> QED BY <1>1, <2>3
<1>10. Head(h) # e => r # <<>> /\ Head(r) = Head(h)
  <2> SUFFICES ASSUME Head(h) # e PROVE r # <<>> /\ Head(r) = Head(h)
    OBVIOUS
  <2>1. h[1] # e /\ k > 1
    BY <1>1
  <2> QED BY <1>1, <1>6, <1>7, <2>1
<1> QED BY <1>5, <1>6, <1>8, <1>9, <1>10

\* push_back of a handle the object does not have.
LEMMA AppendOne ==
  ASSUME NEW S, NEW h \in Seq(S), IsInjective(h), NEW e \in S, e \notin ToSet(h)
  PROVE  /\ Append(h, e) \in Seq(S) /\ Append(h, e) # <<>>
         /\ ToSet(Append(h, e)) = ToSet(h) \union {e}
         /\ IsInjective(Append(h, e))
         /\ Head(Append(h, e)) \in S
<1> DEFINE r == Append(h, e)
<1>1. /\ r \in Seq(S) /\ Len(r) = Len(h) + 1 /\ Len(h) \in Nat
      /\ \A i \in 1 .. Len(h) : r[i] = h[i]
      /\ r[Len(h) + 1] = e
      /\ DOMAIN r = 1 .. Len(h) + 1 /\ DOMAIN h = 1 .. Len(h)
  OBVIOUS
<1> HIDE DEF r
<1>2. ToSet(r) = ToSet(h) \union {e}
  BY <1>1 DEF ToSet
<1>3. IsInjective(r)
  BY <1>1 DEF IsInjective, ToSet
<1>4. r # <<>> /\ Head(r) \in S
  BY <1>1
<1> QED BY <1>1, <1>2, <1>3, <1>4 DEF r

\* One element comes or goes: the cardinality follows.
LEMMA OneChanges ==
  ASSUME NEW A, NEW B, NEW x, IsFiniteSet(A), A \ {x} = B \ {x}
  PROVE  /\ IsFiniteSet(B)
         /\ Cardinality(A) \in Nat /\ Cardinality(B) \in Nat
         /\ Cardinality(B) = Cardinality(A) - (IF x \in A THEN 1 ELSE 0)
                                            + (IF x \in B THEN 1 ELSE 0)
<1>1. IsFiniteSet(A \ {x}) /\ Cardinality(A \ {x}) = Cardinality(A) - (IF x \in A THEN 1 ELSE 0)
  BY FS_RemoveElement, FS_CardinalityType
<1>2. x \in B => B = (A \ {x}) \cup {x} /\ x \notin A \ {x}
  OBVIOUS
<1>3. x \notin B => B = A \ {x}
  OBVIOUS
<1>4. IsFiniteSet((A \ {x}) \cup {x}) /\ Cardinality((A \ {x}) \cup {x}) = Cardinality(A \ {x}) + 1
  <2>1. x \notin A \ {x}
    OBVIOUS
  <2> QED BY <1>1, <2>1, FS_AddElement
<1>5. IsFiniteSet(B)
  BY <1>1, <1>2, <1>3, <1>4
<1>6. Cardinality(A) \in Nat /\ Cardinality(B) \in Nat
  BY <1>5, FS_CardinalityType
<1>7. CASE x \in B
  <2>1. Cardinality(B) = Cardinality((A \ {x}) \cup {x})
    BY <1>2, <1>7
  <2> QED BY <1>1, <1>4, <1>5, <1>6, <1>7, <2>1
<1>8. CASE x \notin B
  <2>1. Cardinality(B) = Cardinality(A \ {x})
    BY <1>3, <1>8
  <2> QED BY <1>1, <1>5, <1>6, <1>8, <2>1
<1> QED BY <1>7, <1>8

\* How often a sequence of at most two names o.
Times(from, o) == Cardinality({i \in DOMAIN from : from[i] = o})

LEMMA TimesOfFew ==
  ASSUME NEW o
  PROVE  /\ Times(<<>>, o) = 0
         /\ \A p : Times(<<p>>, o) = (IF p = o THEN 1 ELSE 0)
         /\ \A p, q : Times(<<p>> \o <<q>>, o) = (IF p = o THEN 1 ELSE 0) + (IF q = o THEN 1 ELSE 0)
<1>1. Times(<<>>, o) = 0
  <2>1. {i \in DOMAIN <<>> : <<>>[i] = o} = {}
    OBVIOUS
  <2> QED BY <2>1, FS_EmptySet DEF Times
<1>2. ASSUME NEW p PROVE Times(<<p>>, o) = (IF p = o THEN 1 ELSE 0)
  <2>1. {i \in DOMAIN <<p>> : <<p>>[i] = o} = IF p = o THEN {1} ELSE {}
    OBVIOUS
  <2> QED BY <2>1, FS_EmptySet, FS_Singleton DEF Times
<1>3. ASSUME NEW p, NEW q
      PROVE  Times(<<p>> \o <<q>>, o) = (IF p = o THEN 1 ELSE 0) + (IF q = o THEN 1 ELSE 0)
  <2> DEFINE A == {i \in {1} : p = o}
             both == <<p>> \o <<q>>
             B == {i \in DOMAIN both : both[i] = o}
  <2>1. A = IF p = o THEN {1} ELSE {}
    OBVIOUS
  <2>2. IsFiniteSet(A) /\ Cardinality(A) = IF p = o THEN 1 ELSE 0
    <3> HIDE DEF A
    <3>1. /\ IsFiniteSet({1}) /\ Cardinality({1}) = 1
          /\ IsFiniteSet({}) /\ Cardinality({}) = 0
      BY FS_EmptySet, FS_Singleton
    <3> QED BY <2>1, <3>1
  <2>3. 2 \notin A /\ B = A \union (IF q = o THEN {2} ELSE {})
    <3>1. <<p>> \in Seq({p, q}) /\ <<q>> \in Seq({p, q}) /\ Len(<<p>>) = 1 /\ Len(<<q>>) = 1
      OBVIOUS
    <3>2. both \in Seq({p, q}) /\ Len(both) = 2 /\ both[1] = p /\ both[2] = q
      BY <3>1
    <3> HIDE DEF both
    <3>3. DOMAIN both = {1, 2}
      BY <3>2
    <3> QED BY <2>1, <3>2, <3>3
  <2> HIDE DEF A, B, both
  <2> SUFFICES Cardinality(B) = Cardinality(A) + (IF q = o THEN 1 ELSE 0)
    BY <2>2 DEF Times, B, both
  <2>4. CASE q = o
    <3>1. Cardinality(A \union {2}) = Cardinality(A) + 1
      BY <2>2, <2>3, FS_AddElement
    <3> QED BY <2>2, <2>3, <2>4, <3>1
  <2>5. CASE q # o
    <3>1. B = A
      BY <2>3, <2>5
    <3> QED BY <2>2, <2>5, <3>1
  <2> QED BY <2>4, <2>5
<1> QED BY <1>1, <1>2, <1>3

-----------------------------------------------------------------------------
(* Counting pointers *)

\* The sets that are counted are finite.
LEMMA CountsAreNumbers ==
  ASSUME NEW o
  PROVE  /\ IsFiniteSet(SlotsOf(o)) /\ Cardinality(SlotsOf(o)) \in Nat
         /\ IsFiniteSet(Pinned(o)) /\ Cardinality(Pinned(o)) \in Nat
         /\ Cardinality(SlotsOf(o)') \in Nat /\ Cardinality(Pinned(o)') \in Nat
<1>1. IsFiniteSet(Slots) /\ SlotsOf(o) \subseteq Slots /\ SlotsOf(o)' \subseteq Slots
  BY ObjectTableAssumption, FS_Interval DEF Slots, SlotsOf
<1>2. IsFiniteSet(Threads) /\ Pinned(o) \subseteq Threads /\ Pinned(o)' \subseteq Threads
  BY ObjectTableAssumption DEF Pinned
<1> QED BY <1>1, <1>2, FS_Subset, FS_CardinalityType

\* One slot changes hands.
LEMMA SlotsChange ==
  ASSUME NEW s \in Slots, \A x \in Slots \ {s} : table'[x].object = table[x].object, NEW o
  PROVE  Cardinality(SlotsOf(o))' = Cardinality(SlotsOf(o))
            - (IF table[s].object = o THEN 1 ELSE 0) + (IF table'[s].object = o THEN 1 ELSE 0)
<1>1. SlotsOf(o) \ {s} = SlotsOf(o)' \ {s}
  BY DEF SlotsOf
<1>2. (s \in SlotsOf(o) <=> table[s].object = o) /\ (s \in SlotsOf(o)' <=> table'[s].object = o)
  BY DEF SlotsOf
<1> QED BY <1>1, <1>2, CountsAreNumbers, OneChanges

\* No slot changes hands.
LEMMA SlotsStay ==
  ASSUME \A x \in Slots : table'[x].object = table[x].object, NEW o
  PROVE  Cardinality(SlotsOf(o))' = Cardinality(SlotsOf(o))
BY DEF SlotsOf

\* One thread takes, gives up or exchanges a pointer.
LEMMA PinsChange ==
  ASSUME NEW t \in Threads, \A u \in Threads \ {t} : pin'[u] = pin[u] /\ at'[u] = at[u],
         NEW o \in Objects
  PROVE  Cardinality(Pinned(o))' = Cardinality(Pinned(o))
            - (IF Holds(t) = o THEN 1 ELSE 0) + (IF Holds(t)' = o THEN 1 ELSE 0)
<1>1. Pinned(o) \ {t} = Pinned(o)' \ {t}
  BY DEF Pinned
<1>2. (t \in Pinned(o) <=> Holds(t) = o) /\ (t \in Pinned(o)' <=> Holds(t)' = o)
  BY ObjectTableAssumption DEF Pinned, Holds
<1> QED BY <1>1, <1>2, CountsAreNumbers, OneChanges

\* Who is in a slot or in use has a pointer.
LEMMA InUse ==
  ASSUME CountInv, NEW o \in Objects,
         (\E s \in Slots : table[s].object = o) \/ (\E t \in Threads : Holds(t) = o)
  PROVE  pointer_ref_count_[o] > 0
<1>1. SlotsOf(o) # {} \/ Pinned(o) # {}
  BY ObjectTableAssumption DEF SlotsOf, Pinned, Holds
<1>2. Cardinality(SlotsOf(o)) # 0 \/ Cardinality(Pinned(o)) # 0
  BY <1>1, CountsAreNumbers, FS_EmptySet
<1>3. pointer_ref_count_[o] = Cardinality(SlotsOf(o)) + Cardinality(Pinned(o))
                    + (IF o \in purged THEN 1 ELSE 0)
  BY DEF CountInv, PointersAreExact, SlotsOf
<1> QED BY <1>2, <1>3, CountsAreNumbers

\* When each pointer that comes or goes is counted, the counts stay exact and the
\* objects nobody points to are the destroyed ones.
LEMMA CountStep ==
  ASSUME CountInv, created' = created, purged' = purged,
         pointer_ref_count_' = [o \in Objects |-> pointer_ref_count_'[o]],
         deleted' = deleted \union {o \in created : pointer_ref_count_'[o] = 0},
         \A o \in deleted : pointer_ref_count_'[o] <= pointer_ref_count_[o],
         \A o \in Objects : pointer_ref_count_'[o] = pointer_ref_count_[o]
            + (Cardinality(SlotsOf(o))' - Cardinality(SlotsOf(o)))
            + (Cardinality(Pinned(o))' - Cardinality(Pinned(o))),
         created \subseteq Objects
  PROVE  CountInv'
<1>1. ASSUME NEW o \in Objects
      PROVE  /\ pointer_ref_count_'[o] = Cardinality(SlotsOf(o))' + Cardinality(Pinned(o))'
                    + (IF o \in purged' THEN 1 ELSE 0)
             /\ pointer_ref_count_'[o] \in Nat
  <2>1. Cardinality(SlotsOf(o))' \in Nat /\ Cardinality(Pinned(o))' \in Nat
    BY CountsAreNumbers
  <2>2. pointer_ref_count_[o] = Cardinality(SlotsOf(o)) + Cardinality(Pinned(o))
                    + (IF o \in purged THEN 1 ELSE 0)
    BY DEF CountInv, PointersAreExact, SlotsOf
  <2>3. /\ Cardinality(SlotsOf(o)) \in Nat /\ Cardinality(Pinned(o)) \in Nat
        /\ pointer_ref_count_[o] \in Nat
    BY CountsAreNumbers DEF CountInv
  <2> QED BY <2>1, <2>2, <2>3
<1>2. pointer_ref_count_' \in [Objects -> Nat]
  BY <1>1
<1>3. PointersAreExact'
  BY <1>1 DEF PointersAreExact, SlotsOf
<1>4. deleted' = {o \in created' : pointer_ref_count_'[o] = 0}
  BY <1>2 DEF CountInv
<1> QED BY <1>2, <1>3, <1>4 DEF CountInv

-----------------------------------------------------------------------------
(* The operations of the table *)

\* A pointer comes or goes as Pointers says.
LEMMA PointersCount ==
  ASSUME NEW to, NEW more, NEW from, Pointers(to, more, from)
  PROVE  /\ pointer_ref_count_' = [o \in Objects |-> pointer_ref_count_'[o]]
         /\ deleted' = deleted \union {o \in created : pointer_ref_count_'[o] = 0}
         /\ \A o \in Objects : pointer_ref_count_'[o] =
               pointer_ref_count_[o] + (IF o = to THEN more ELSE 0) - Times(from, o)
<1>1. pointer_ref_count_' = [o \in Objects |->
           pointer_ref_count_[o] + (IF o = to THEN more ELSE 0) - Times(from, o)]
  BY DEF Pointers, Times
<1> QED BY <1>1 DEF Pointers

\* A reference to a handle changes no slot's object.
LEMMA RetainKeeps ==
  ASSUME TableInv, NEW s, NEW d \in Int, table' = [table EXCEPT ![s].refs = @ + d],
         UNCHANGED <<table_capacity_, last_free_entry_, name_table_, handles_, stale,
                     dispatch_handle, created, purged, NameOf>>
  PROVE  TableInv' /\ \A x \in Slots : table'[x].object = table[x].object
<1>1. \A x \in Slots : table'[x].object = table[x].object
  BY DEF TableInv
<1>2. table' \in [Slots -> [object : Objects \union {NoObject}, refs : Int]]
  <2>1. CASE s \in Slots
    <3> DEFINE r == table[s]
    <3>1. r \in [object : Objects \union {NoObject}, refs : Int]
      BY <2>1 DEF TableInv
    <3> HIDE DEF r
    <3>2. [r EXCEPT !.refs = @ + d] \in [object : Objects \union {NoObject}, refs : Int]
      BY <3>1
    <3> QED BY <2>1, <3>2 DEF TableInv, r
  <2>2. CASE s \notin Slots
    <3>1. table' = table
      BY <2>2 DEF TableInv
    <3> QED BY <3>1 DEF TableInv
  <2> QED BY <2>1, <2>2
<1>3. HandlesAgree'
  BY <1>1 DEF TableInv, HandlesAgree
<1> QED BY <1>1, <1>2, <1>3 DEF TableInv, Open, Handle0, Names

\* A slot is freed, and its object forgets the handle and loses a pointer.
LEMMA RemoveKeeps ==
  ASSUME TableInv, OutOfReach, NEW s \in Slots, NEW p, NEW unpin \in {<<>>, <<p>>},
         table' = [table EXCEPT ![s] = FreeSlot], RemoveHandle(s, unpin),
         UNCHANGED <<table_capacity_, last_free_entry_, dispatch_handle, created,
                     purged, NameOf>>
  PROVE  /\ TableInv'
         /\ \A x \in Slots \ {s} : table'[x].object = table[x].object
         /\ table'[s].object = NoObject
<1>1. /\ \A x \in Slots \ {s} : table'[x] = table[x]
      /\ table'[s] = FreeSlot /\ table'[s].object = NoObject
      /\ table' \in [Slots -> [object : Objects \union {NoObject}, refs : Int]]
  BY DEF TableInv, FreeSlot
<1>2. CASE table[s].object = NoObject
  <2>1. UNCHANGED <<handles_, stale, name_table_>>
    BY <1>2 DEF RemoveHandle
  <2>2. \A x \in Slots : table'[x].object = table[x].object
    BY <1>1, <1>2
  <2>3. HandlesAgree'
    BY <2>1, <2>2 DEF TableInv, HandlesAgree
  <2> QED BY <1>1, <2>1, <2>2, <2>3 DEF TableInv, Open, Handle0, Names
<1>3. CASE table[s].object # NoObject
  <2> PICK o : o = table[s].object
    OBVIOUS
  <2>1. /\ handles_' = [handles_ EXCEPT ![o] = RemoveFirst(@, s)]
        /\ stale' = [stale EXCEPT ![o] = s]
        /\ name_table_' = [n \in Names |-> IF n = NameOf[o] THEN NoSlot ELSE name_table_[n]]
    BY <1>3 DEF RemoveHandle
  <2>2. o \in created /\ o \in Objects /\ o \notin purged
    BY <1>3 DEF TableInv, Open, OutOfReach
  <2>3. s \in ToSet(handles_[o]) /\ IsInjective(handles_[o]) /\ handles_[o] \in Seq(Slots)
    BY <2>2 DEF TableInv, HandlesAgree
  <2>4. /\ handles_'[o] \in Seq(Slots) /\ IsInjective(handles_'[o])
        /\ ToSet(handles_'[o]) = ToSet(handles_[o]) \ {s}
    <3>1. handles_'[o] = RemoveFirst(handles_[o], s)
      BY <2>1, <2>2 DEF TableInv
    <3> QED BY <2>3, <3>1, RemoveOne
  <2>5. handles_' \in [Objects -> Seq(Slots)] /\ \A x \in Objects \ {o} : handles_'[x] = handles_[x]
    BY <2>1, <2>2, <2>4 DEF TableInv
  <2>6. /\ stale' \in [Objects -> Slots \union {NoSlot}] /\ stale'[o] = s
        /\ \A x \in Objects \ {o} : stale'[x] = stale[x]
    BY <2>1, <2>2 DEF TableInv
  <2>7. HandlesAgree'
    <3> SUFFICES ASSUME NEW x \in Objects \ purged
                 PROVE  /\ ToSet(handles_'[x]) = {y \in Slots : table'[y].object = x}
                        /\ IsInjective(handles_'[x])
      BY DEF HandlesAgree
    <3>1. ToSet(handles_[x]) = {y \in Slots : table[y].object = x} /\ IsInjective(handles_[x])
      BY DEF TableInv, HandlesAgree
    <3>2. {y \in Slots : table'[y].object = x} = {y \in Slots : table[y].object = x} \ {s}
      BY <1>1, ObjectTableAssumption
    <3>3. CASE x = o
      BY <2>4, <3>1, <3>2, <3>3
    <3>4. CASE x # o
      BY <1>1, <2>5, <3>1, <3>4, ObjectTableAssumption
    <3> QED BY <3>3, <3>4
  <2>8. \A x \in created : Handle0(x)' \in Slots
    <3>1. Handle0(o)' \in Slots
      <4>1. handles_'[o] # <<>> => Head(handles_'[o]) \in Slots
        BY <2>4
      <4> QED BY <2>6, <4>1 DEF Handle0
    <3>2. ASSUME NEW x \in created, x # o PROVE Handle0(x)' = Handle0(x)
      BY <2>5, <2>6, <3>2 DEF Handle0, TableInv
    <3> QED BY <3>1, <3>2 DEF TableInv
  <2>9. name_table_' \in [Names' -> Slots \union {NoSlot}]
    BY <2>1 DEF TableInv, Names
  <2>10. \A x \in Slots : Open(x)' => x < table_capacity_ /\ table'[x].object \in created
    BY <1>1, <1>3 DEF TableInv, Open
  <2> QED BY <1>1, <2>5, <2>6, <2>7, <2>8, <2>9, <2>10 DEF TableInv
<1> QED BY <1>1, <1>2, <1>3

\* The pointers RemoveHandle gives up are those of the slot and of the caller.
LEMMA RemoveCounts ==
  ASSUME NEW s \in Slots, NEW p, NEW unpin \in {<<>>, <<p>>}, RemoveHandle(s, unpin),
         \A x \in Slots \ {s} : table'[x].object = table[x].object,
         table'[s].object = NoObject, pointer_ref_count_ \in [Objects -> Nat]
  PROVE  /\ pointer_ref_count_' = [o \in Objects |-> pointer_ref_count_'[o]]
         /\ deleted' = deleted \union {o \in created : pointer_ref_count_'[o] = 0}
         /\ \A x \in Objects : /\ pointer_ref_count_'[x] = pointer_ref_count_[x] - Times(unpin, x)
                                     + (Cardinality(SlotsOf(x))' - Cardinality(SlotsOf(x)))
                               /\ pointer_ref_count_'[x] <= pointer_ref_count_[x]
<1> DEFINE o == table[s].object
<1>1. /\ \A x : Times(<<>>, x) = 0
      /\ \A x : Times(<<p>>, x) = (IF p = x THEN 1 ELSE 0)
      /\ \A x : Times(<<p>> \o <<o>>, x) = (IF p = x THEN 1 ELSE 0) + (IF o = x THEN 1 ELSE 0)
      /\ \A x : Times(<<o>>, x) = (IF o = x THEN 1 ELSE 0)
  BY TimesOfFew
<1>2. \A x \in Objects : Cardinality(SlotsOf(x))' = Cardinality(SlotsOf(x)) - (IF o = x THEN 1 ELSE 0)
  BY SlotsChange, CountsAreNumbers, ObjectTableAssumption
<1>3. \E from : /\ Pointers(NoObject, 0, from)
                /\ \A x \in Objects : Times(from, x) = Times(unpin, x) + (IF o = x THEN 1 ELSE 0)
  <2>1. CASE o = NoObject
    <3>1. Pointers(NoObject, 0, unpin)
      BY <2>1 DEF RemoveHandle
    <3>2. \A x \in Objects : Times(unpin, x) = Times(unpin, x) + (IF o = x THEN 1 ELSE 0)
      BY <1>1, <2>1, ObjectTableAssumption
    <3> QED BY <3>1, <3>2
  <2>2. CASE o # NoObject
    <3>1. Pointers(NoObject, 0, unpin \o <<o>>)
      BY <2>2 DEF RemoveHandle
    <3>2. <<>> \o <<o>> = <<o>>
      OBVIOUS
    <3>3. CASE unpin = <<>>
      BY <1>1, <3>1, <3>2, <3>3
    <3>4. CASE unpin = <<p>>
      BY <1>1, <3>1, <3>4
    <3> QED BY <3>3, <3>4
  <2> QED BY <2>1, <2>2
<1>4. PICK from : /\ Pointers(NoObject, 0, from)
                  /\ \A x \in Objects : Times(from, x) = Times(unpin, x) + (IF o = x THEN 1 ELSE 0)
  BY <1>3
<1> HIDE DEF o
<1>5. \A x \in Objects : /\ pointer_ref_count_'[x] = pointer_ref_count_[x]
                                - (Times(unpin, x) + (IF o = x THEN 1 ELSE 0))
                         /\ Times(unpin, x) \in Nat
  <2>1. \A x \in Objects : Times(unpin, x) \in Nat
    BY <1>1
  <2>2. \A x \in Objects : x # NoObject
    BY ObjectTableAssumption
  <2> QED BY <1>4, <2>1, <2>2, PointersCount
<1>6. \A x \in Objects : Cardinality(SlotsOf(x)) \in Nat
  BY CountsAreNumbers
<1> QED BY <1>2, <1>4, <1>5, <1>6, PointersCount

\* ReleaseHandle: the slot loses a reference, or is freed.
LEMMA ReleaseKeeps ==
  ASSUME TableInv, OutOfReach, NEW s \in Slots, NEW p, NEW unpin \in {<<>>, <<p>>},
         ReleaseHandle(s, unpin), pointer_ref_count_ \in [Objects -> Nat],
         UNCHANGED <<table_capacity_, last_free_entry_, dispatch_handle, created,
                     purged, NameOf>>
  PROVE  /\ TableInv'
         /\ \A x \in Slots : table'[x].object \in {table[x].object, NoObject}
         /\ pointer_ref_count_' = [o \in Objects |-> pointer_ref_count_'[o]]
         /\ deleted' = deleted \union {o \in created : pointer_ref_count_'[o] = 0}
         /\ \A x \in Objects : /\ pointer_ref_count_'[x] = pointer_ref_count_[x] - Times(unpin, x)
                                     + (Cardinality(SlotsOf(x))' - Cardinality(SlotsOf(x)))
                               /\ pointer_ref_count_'[x] <= pointer_ref_count_[x]
<1>1. CASE table[s].refs = 1
  <2>1. table' = [table EXCEPT ![s] = FreeSlot] /\ RemoveHandle(s, unpin)
    BY <1>1 DEF ReleaseHandle
  <2>2. /\ TableInv'
        /\ \A x \in Slots \ {s} : table'[x].object = table[x].object
        /\ table'[s].object = NoObject
    BY <2>1, RemoveKeeps
  <2> QED BY <2>1, <2>2, RemoveCounts
<1>2. CASE table[s].refs # 1
  <2>1. /\ table' = [table EXCEPT ![s].refs = @ + (-1)]
        /\ Pointers(NoObject, 0, unpin) /\ UNCHANGED <<handles_, stale, name_table_>>
    BY <1>2 DEF ReleaseHandle, TableInv
  <2>2. TableInv' /\ \A x \in Slots : table'[x].object = table[x].object
    BY <2>1, RetainKeeps, -1 \in Int
  <2>3. \A x \in Objects : Cardinality(SlotsOf(x))' = Cardinality(SlotsOf(x))
    BY <2>2, SlotsStay
  <2>4. \A x \in Objects : Times(unpin, x) \in Nat /\ Cardinality(SlotsOf(x)) \in Nat
    <3>1. \A x \in Objects : Times(<<>>, x) \in Nat /\ Times(<<p>>, x) \in Nat
      BY TimesOfFew
    <3> QED BY <3>1, CountsAreNumbers
  <2>5. \A x \in Objects : x # NoObject
    BY ObjectTableAssumption
  <2>6. \A x \in Objects : pointer_ref_count_'[x] = pointer_ref_count_[x] - Times(unpin, x)
    BY <2>1, <2>4, <2>5, PointersCount
  <2> QED BY <2>1, <2>2, <2>3, <2>4, <2>6, PointersCount
<1> QED BY <1>1, <1>2

\* FindFreeSlot finds a free slot of the table, which may have grown.
LEMMA FreeSlotFound ==
  ASSUME TableInv, NEW s \in Slots, FindFreeSlot(s)
  PROVE  /\ table[s].object = NoObject
         /\ table_capacity_' \in 0 .. MaxSlots /\ last_free_entry_' \in 0 .. MaxSlots
         /\ s < table_capacity_' /\ table_capacity_ <= table_capacity_'
<1> USE ObjectTableAssumption
<1>1. CASE FreeSlots # {}
  BY <1>1 DEF FindFreeSlot, FreeSlots, TableInv, Slots
<1>2. CASE FreeSlots = {}
  <2> DEFINE capacity == IF 2 * table_capacity_ > Grow THEN 2 * table_capacity_ ELSE Grow
  <2>1. /\ capacity <= MaxSlots /\ s = table_capacity_ /\ table_capacity_' = capacity
        /\ last_free_entry_' = s + 1
    BY <1>2 DEF FindFreeSlot
  <2>2. table_capacity_ \in Nat /\ capacity \in Nat /\ table_capacity_ < capacity
    BY DEF TableInv
  <2>3. table[s].object = NoObject
    BY <2>1, <2>2 DEF TableInv, Open, Slots
  <2> HIDE DEF capacity
  <2> QED BY <2>1, <2>2, <2>3
<1> QED BY <1>1, <1>2

\* AddHandle: the slot is given to the object.
LEMMA AddKeeps ==
  ASSUME TableInv, NEW o \in Objects \ purged, NEW s \in Slots, AddHandle(o, s),
         o \in created', created' = created \union {o},
         dispatch_handle' \in [Objects -> Slots \union {NoSlot}],
         \A x \in created' : dispatch_handle'[x] \in Slots,
         UNCHANGED <<name_table_, stale, purged, NameOf>>
  PROVE  /\ TableInv' /\ table[s].object = NoObject /\ table'[s].object = o
         /\ \A x \in Slots \ {s} : table'[x].object = table[x].object
<1> USE ObjectTableAssumption
<1>1. /\ table[s].object = NoObject
      /\ table_capacity_' \in 0 .. MaxSlots /\ last_free_entry_' \in 0 .. MaxSlots
      /\ s < table_capacity_' /\ table_capacity_ <= table_capacity_'
  BY FreeSlotFound DEF AddHandle
<1>2. /\ table' \in [Slots -> [object : Objects \union {NoObject}, refs : Int]]
      /\ table'[s].object = o /\ \A x \in Slots \ {s} : table'[x].object = table[x].object
  BY DEF AddHandle, TableInv
<1>3. /\ handles_[o] \in Seq(Slots) /\ IsInjective(handles_[o])
      /\ ToSet(handles_[o]) = {x \in Slots : table[x].object = o}
  BY DEF TableInv, HandlesAgree
<1>4. /\ handles_'[o] \in Seq(Slots) /\ handles_'[o] # <<>> /\ Head(handles_'[o]) \in Slots
      /\ ToSet(handles_'[o]) = ToSet(handles_[o]) \union {s} /\ IsInjective(handles_'[o])
  <2>1. handles_'[o] = Append(handles_[o], s) /\ s \notin ToSet(handles_[o])
    BY <1>1, <1>3 DEF AddHandle, TableInv
  <2> QED BY <1>3, <2>1, AppendOne
<1>5. handles_' \in [Objects -> Seq(Slots)] /\ \A x \in Objects \ {o} : handles_'[x] = handles_[x]
  BY <1>4 DEF AddHandle, TableInv
<1>6. HandlesAgree'
  <2> SUFFICES ASSUME NEW x \in Objects \ purged
               PROVE  /\ ToSet(handles_'[x]) = {y \in Slots : table'[y].object = x}
                      /\ IsInjective(handles_'[x])
    BY DEF HandlesAgree
  <2>1. ToSet(handles_[x]) = {y \in Slots : table[y].object = x} /\ IsInjective(handles_[x])
    BY DEF TableInv, HandlesAgree
  <2>2. CASE x = o
    BY <1>2, <1>3, <1>4, <2>2
  <2>3. CASE x # o
    BY <1>1, <1>2, <1>5, <2>1, <2>3
  <2> QED BY <2>2, <2>3
<1>7. \A x \in created' : Handle0(x)' \in Slots
  <2>1. Handle0(o)' \in Slots
    BY <1>4 DEF Handle0
  <2>2. ASSUME NEW x \in created, x # o PROVE Handle0(x)' = Handle0(x)
    BY <1>5, <2>2 DEF Handle0, TableInv
  <2> QED BY <2>1, <2>2 DEF TableInv
<1>8. \A x \in Slots : Open(x)' => x < table_capacity_' /\ table'[x].object \in created'
  <2> SUFFICES ASSUME NEW x \in Slots, table'[x].object # NoObject
               PROVE  x < table_capacity_' /\ table'[x].object \in created'
    BY DEF Open
  <2>1. CASE x = s
    BY <1>1, <1>2, <2>1
  <2>2. CASE x # s
    <3>1. x < table_capacity_ /\ table[x].object \in created /\ table'[x].object = table[x].object
      BY <1>2, <2>2 DEF TableInv, Open
    <3> QED BY <1>1, <3>1 DEF Slots, TableInv
  <2> QED BY <2>1, <2>2
<1> QED BY <1>1, <1>2, <1>5, <1>6, <1>7, <1>8 DEF TableInv, Names

-----------------------------------------------------------------------------
(* Calls *)

\* A thread goes on with a pointer to an object that was created, or none.
LEMMA CallsMove ==
  ASSUME CallInv, NEW t \in Threads, NEW w \in At \ {"new"}, NEW o, NEW s \in Slots \union {NoSlot},
         Goto(t, w, o, s), created \subseteq created', created' \subseteq created \union {pin[t]},
         created' \subseteq Objects, o \in created' \union {NoObject},
         w \in {"idle", "lookup", "close_source"} <=> o = NoObject,
         w \in {"lookup", "close_source"} => s \in Slots
  PROVE  /\ CallInv' /\ Holds(t)' = o
         /\ \A u \in Threads \ {t} : pin'[u] = pin[u] /\ at'[u] = at[u]
<1>1. /\ at'[t] = w /\ pin'[t] = o /\ arg'[t] = s
      /\ \A u \in Threads \ {t} : pin'[u] = pin[u] /\ at'[u] = at[u] /\ arg'[u] = arg[u]
      /\ at' \in [Threads -> At] /\ pin' \in [Threads -> Objects \union {NoObject}]
      /\ arg' \in [Threads -> Slots \union {NoSlot}]
  BY DEF CallInv, Goto
<1>2. ASSUME NEW u \in Threads
      PROVE  /\ at'[u] \in {"idle", "lookup", "close_source"} <=> pin'[u] = NoObject
             /\ at'[u] \in {"lookup", "close_source"} => arg'[u] \in Slots
             /\ at'[u] = "new" => /\ pin'[u] \notin created'
                                  /\ \A v \in Threads \ {u} : pin'[v] # pin'[u]
             /\ at'[u] # "new" => pin'[u] \in created' \union {NoObject}
  <2>1. CASE u = t
    BY <1>1, <2>1
  <2>2. CASE u # t
    <3>1. at'[u] = "new" => /\ pin'[u] \notin created'
                            /\ \A v \in Threads \ {u} : pin'[v] # pin'[u]
      <4> SUFFICES ASSUME at[u] = "new"
                   PROVE  /\ pin[u] \notin created'
                          /\ \A v \in Threads \ {u} : pin'[v] # pin[u]
        BY <1>1, <2>2
      <4>1. pin[u] \notin created /\ \A v \in Threads \ {u} : pin[v] # pin[u]
        BY DEF CallInv
      <4>2. pin[u] # NoObject
        BY DEF CallInv
      <4> QED BY <1>1, <2>2, <4>1, <4>2
    <3> QED BY <1>1, <2>2, <3>1 DEF CallInv
  <2> QED BY <2>1, <2>2
<1>3. Holds(t)' = o
  BY <1>1 DEF Holds
<1> QED BY <1>1, <1>2, <1>3 DEF CallInv

\* One step of a call that has its pointers counted keeps the invariant: the
\* thread gives up what it holds and takes o, which it held or found in a slot.
LEMMA CallStep ==
  ASSUME LifeInv, NEW t \in Threads, at[t] # "new",
         TableInv', GuestInv', UNCHANGED <<created, purged, NameOf>>,
         NEW w \in At \ {"new"}, NEW o, NEW s \in Slots \union {NoSlot}, Goto(t, w, o, s),
         w \in {"idle", "lookup", "close_source"} <=> o = NoObject,
         w \in {"lookup", "close_source"} => s \in Slots,
         o \in {NoObject, pin[t]} \/ \E x \in Slots : o = table[x].object,
         \A x \in Slots : table'[x].object \in {table[x].object, NoObject, pin[t]},
         pointer_ref_count_' = [x \in Objects |-> pointer_ref_count_'[x]],
         deleted' = deleted \union {x \in created : pointer_ref_count_'[x] = 0},
         \A x \in Objects : pointer_ref_count_'[x] = pointer_ref_count_[x]
            + (Cardinality(SlotsOf(x))' - Cardinality(SlotsOf(x)))
            - (IF pin[t] = x THEN 1 ELSE 0) + (IF o = x THEN 1 ELSE 0)
  PROVE  LifeInv'
<1>1. o \in created \union {NoObject} /\ created \subseteq Objects /\ pin[t] \in created \union {NoObject}
  BY DEF LifeInv, CallInv, TableInv, Open
<1>2. /\ CallInv' /\ Holds(t)' = o
      /\ \A u \in Threads \ {t} : pin'[u] = pin[u] /\ at'[u] = at[u]
  BY <1>1, CallsMove DEF LifeInv
<1>3. Holds(t) = pin[t] /\ pin'[t] = o
  BY DEF Holds, LifeInv, CallInv, Goto
<1>4. \A x \in Objects : Cardinality(Pinned(x))' = Cardinality(Pinned(x))
            - (IF pin[t] = x THEN 1 ELSE 0) + (IF o = x THEN 1 ELSE 0)
  BY <1>2, <1>3, PinsChange
<1>5. \A x \in Objects : /\ Cardinality(Pinned(x)) \in Nat /\ Cardinality(SlotsOf(x)) \in Nat
                         /\ Cardinality(SlotsOf(x))' \in Nat /\ pointer_ref_count_[x] \in Nat
  BY CountsAreNumbers DEF LifeInv, CountInv
<1>6. \A x \in deleted : pointer_ref_count_'[x] <= pointer_ref_count_[x]
  <2> SUFFICES ASSUME NEW x \in deleted
               PROVE  pointer_ref_count_'[x] <= pointer_ref_count_[x]
    OBVIOUS
  <2>1. x \in Objects /\ pointer_ref_count_[x] = 0
    BY <1>1 DEF LifeInv, CountInv
  <2>2. (\A y \in Slots : table[y].object # x) /\ pin[t] # x
    BY <1>3, <2>1, InUse DEF LifeInv
  <2>3. SlotsOf(x) = {} /\ SlotsOf(x)' = {} /\ o # x
    BY <2>1, <2>2, ObjectTableAssumption DEF SlotsOf
  <2>4. Cardinality(SlotsOf(x)) = 0 /\ Cardinality(SlotsOf(x))' = 0
    BY <2>3, FS_EmptySet
  <2>5. pointer_ref_count_'[x] = pointer_ref_count_[x]
            + (Cardinality(SlotsOf(x))' - Cardinality(SlotsOf(x)))
            - (IF pin[t] = x THEN 1 ELSE 0) + (IF o = x THEN 1 ELSE 0)
    BY <2>1
  <2> QED BY <2>1, <2>2, <2>3, <2>4, <2>5
<1>7. CountInv'
  <2>1. \A x \in Objects : pointer_ref_count_'[x] = pointer_ref_count_[x]
            + (Cardinality(SlotsOf(x))' - Cardinality(SlotsOf(x)))
            + (Cardinality(Pinned(x))' - Cardinality(Pinned(x)))
    BY <1>4, <1>5
  <2> QED BY <1>1, <1>6, <2>1, CountStep DEF LifeInv
<1>8. OutOfReach'
  <2> SUFFICES ASSUME NEW x \in purged
               PROVE  /\ \A y \in Slots : table'[y].object # x
                      /\ \A u \in Threads : pin'[u] # x
    BY DEF OutOfReach
  <2>1. /\ \A y \in Slots : table[y].object # x
        /\ \A u \in Threads : pin[u] # x
        /\ x # NoObject
    BY <1>1, ObjectTableAssumption DEF LifeInv, OutOfReach, TableInv
  <2>2. o # x
    BY <2>1
  <2> QED BY <1>2, <1>3, <2>1, <2>2
<1> QED BY <1>2, <1>7, <1>8 DEF LifeInv

\* The guest is given a reference.
LEMMA GiveKeeps ==
  ASSUME GuestInv, NEW s, NEW o \in Objects \union {NoObject}, Give(s, o),
         UNCHANGED <<referenced, created>>
  PROVE  GuestInv'
<1>1. owned' \in [Slots -> Nat]
  <2>1. CASE s \in Slots
    BY <2>1 DEF GuestInv, Give
  <2>2. CASE s \notin Slots
    <3>1. owned' = owned
      BY <2>2 DEF GuestInv, Give
    <3> QED BY <3>1 DEF GuestInv
  <2> QED BY <2>1, <2>2
<1>2. owner' \in [Slots -> Objects \union {NoObject}]
  BY DEF GuestInv, Give
<1> QED BY <1>1, <1>2 DEF GuestInv

\* Nothing happens to the table.
LEMMA TableSame ==
  ASSUME TableInv, UNCHANGED <<tables, name_table_, handles_, stale, dispatch_handle,
                               created, purged, NameOf>>
  PROVE  TableInv'
BY DEF TableInv, tables, Open, Handle0, Names, HandlesAgree

\* What Pointers does when one pointer is taken, given up or passed on.
LEMMA FewPointers ==
  ASSUME CountInv, NEW p \in Objects \union {NoObject}
  PROVE  /\ Retain(p) => \A x \in Objects : pointer_ref_count_'[x] =
               pointer_ref_count_[x] + (IF p = x THEN 1 ELSE 0)
         /\ Pointers(NoObject, 0, <<p>>) => \A x \in Objects : pointer_ref_count_'[x] =
               pointer_ref_count_[x] - (IF p = x THEN 1 ELSE 0)
         /\ Pointers(p, 1, <<p>>) => \A x \in Objects : pointer_ref_count_'[x] =
               pointer_ref_count_[x]
<1>1. \A x \in Objects : /\ Times(<<>>, x) = 0 /\ Times(<<p>>, x) = (IF p = x THEN 1 ELSE 0)
                         /\ x # NoObject /\ pointer_ref_count_[x] \in Nat
  BY TimesOfFew, ObjectTableAssumption DEF CountInv
<1>2. ASSUME Retain(p), NEW x \in Objects
      PROVE  pointer_ref_count_'[x] = pointer_ref_count_[x] + (IF p = x THEN 1 ELSE 0)
  <2>1. Pointers(p, 1, <<>>)
    BY <1>2 DEF Retain
  <2>2. pointer_ref_count_'[x] =
               pointer_ref_count_[x] + (IF x = p THEN 1 ELSE 0) - Times(<<>>, x)
    BY <2>1, PointersCount
  <2> QED BY <1>1, <2>2
<1>3. ASSUME Pointers(NoObject, 0, <<p>>), NEW x \in Objects
      PROVE  pointer_ref_count_'[x] = pointer_ref_count_[x] - (IF p = x THEN 1 ELSE 0)
  <2>1. pointer_ref_count_'[x] =
               pointer_ref_count_[x] + (IF x = NoObject THEN 0 ELSE 0) - Times(<<p>>, x)
    BY <1>3, PointersCount
  <2> QED BY <1>1, <2>1
<1>4. ASSUME Pointers(p, 1, <<p>>), NEW x \in Objects
      PROVE  pointer_ref_count_'[x] = pointer_ref_count_[x]
  <2>1. pointer_ref_count_'[x] =
               pointer_ref_count_[x] + (IF x = p THEN 1 ELSE 0) - Times(<<p>>, x)
    BY <1>4, PointersCount
  <2> QED BY <1>1, <2>1
<1> QED BY <1>2, <1>3, <1>4

\* A call that changes no slot's object: it takes one pointer or gives one up.
LEMMA QuietStep ==
  ASSUME LifeInv, NEW t \in Threads, at[t] # "new",
         TableInv', GuestInv', UNCHANGED <<created, purged, NameOf>>,
         NEW w \in At \ {"new"}, NEW o, NEW s \in Slots \union {NoSlot}, Goto(t, w, o, s),
         w \in {"idle", "lookup", "close_source"} <=> o = NoObject,
         w \in {"lookup", "close_source"} => s \in Slots,
         \A x \in Slots : table'[x].object = table[x].object,
         \/ pin[t] = NoObject /\ Retain(o) /\ \E x \in Slots : o = table[x].object
         \/ o = NoObject /\ Pointers(NoObject, 0, <<pin[t]>>)
         \/ o = pin[t] /\ UNCHANGED <<pointer_ref_count_, deleted>>
  PROVE  LifeInv'
<1>1. /\ \A x \in Objects : Cardinality(SlotsOf(x))' = Cardinality(SlotsOf(x))
      /\ \A x \in Objects : /\ Cardinality(SlotsOf(x)) \in Nat /\ pointer_ref_count_[x] \in Nat
                            /\ x # NoObject
  BY SlotsStay, CountsAreNumbers, ObjectTableAssumption DEF LifeInv, CountInv
<1>2. /\ CountInv /\ created \subseteq Objects
      /\ o \in Objects \union {NoObject} /\ pin[t] \in Objects \union {NoObject}
  BY DEF LifeInv, TableInv, CallInv
<1>3. /\ pointer_ref_count_' = [x \in Objects |-> pointer_ref_count_'[x]]
      /\ deleted' = deleted \union {x \in created : pointer_ref_count_'[x] = 0}
      /\ \A x \in Objects : pointer_ref_count_'[x] = pointer_ref_count_[x]
            - (IF pin[t] = x THEN 1 ELSE 0) + (IF o = x THEN 1 ELSE 0)
  <2>1. CASE pin[t] = NoObject /\ Retain(o)
    <3>1. \A x \in Objects : pointer_ref_count_'[x] = pointer_ref_count_[x] + (IF o = x THEN 1 ELSE 0)
      BY <1>2, <2>1, FewPointers
    <3> QED BY <1>1, <2>1, <3>1, PointersCount DEF Retain
  <2>2. CASE o = NoObject /\ Pointers(NoObject, 0, <<pin[t]>>)
    <3>1. \A x \in Objects : pointer_ref_count_'[x] = pointer_ref_count_[x] - (IF pin[t] = x THEN 1 ELSE 0)
      BY <1>2, <2>2, FewPointers
    <3> QED BY <1>1, <2>2, <3>1, PointersCount
  <2>3. CASE o = pin[t] /\ UNCHANGED <<pointer_ref_count_, deleted>>
    BY <1>1, <1>2, <2>3 DEF CountInv
  <2> QED BY <2>1, <2>2, <2>3
<1>4. \A x \in Objects : pointer_ref_count_'[x] = pointer_ref_count_[x]
            + (Cardinality(SlotsOf(x))' - Cardinality(SlotsOf(x)))
            - (IF pin[t] = x THEN 1 ELSE 0) + (IF o = x THEN 1 ELSE 0)
  BY <1>1, <1>3
<1> QED BY <1>3, <1>4, CallStep

-----------------------------------------------------------------------------
(* Every step keeps the invariant *)

LEMMA LifeInit == Init => LifeInv
<1> SUFFICES ASSUME Init PROVE LifeInv
  OBVIOUS
<1> USE ObjectTableAssumption DEF Init
<1>1. /\ \A s \in Slots : table[s].object = NoObject
      /\ \A o \in Objects : SlotsOf(o) = {} /\ Pinned(o) = {}
  BY DEF SlotsOf, Pinned, FreeSlot
<1>2. TableInv
  <2>1. /\ table \in [Slots -> [object : Objects \union {NoObject}, refs : Int]]
        /\ 0 \in 0 .. MaxSlots
    BY DEF FreeSlot
  <2>2. HandlesAgree
    <3>1. ToSet(<<>>) = {} /\ IsInjective(<<>>)
      BY DEF ToSet, IsInjective
    <3> QED BY <1>1, <3>1 DEF HandlesAgree
  <2> QED BY <1>1, <2>1, <2>2 DEF TableInv, Open
<1>3. CallInv
  BY DEF CallInv, At
<1>4. CountInv
  <2>1. \A o \in Objects : Cardinality(SlotsOf(o)) = 0 /\ Cardinality(Pinned(o)) = 0
    BY <1>1, FS_EmptySet
  <2> QED BY <2>1 DEF CountInv, PointersAreExact, SlotsOf
<1> QED BY <1>2, <1>3, <1>4 DEF LifeInv, GuestInv, OutOfReach

\* Calls on names.
LEMMA LifeNaming ==
  ASSUME LifeInv, UNCHANGED NameOf, NEW t \in Threads,
         \/ \E o \in Objects : FindName(t, o) \/ NameNotFound(t, o)
         \/ LookupNamed(t) \/ Unretain(t) \/ ReturnExisting(t) \/ NewObject(t) \/ Publish(t)
  PROVE  LifeInv'
<1> USE DEF At
<1>0. /\ TableInv /\ CallInv /\ CountInv /\ GuestInv /\ OutOfReach
      /\ created \subseteq Objects /\ pin[t] \in Objects \union {NoObject}
      /\ NoObject \notin Objects
  BY ObjectTableAssumption DEF LifeInv, TableInv, CallInv
<1>1. ASSUME NEW o \in Objects, FindName(t, o) PROVE LifeInv'
  <2> DEFINE s == Mapped(o)
  <2>1. /\ at[t] = "idle" /\ s # NoSlot /\ Goto(t, "lookup", NoObject, s)
        /\ table' = [table EXCEPT ![Handle0(table[s].object)].refs = @ + 1]
        /\ Capacity /\ UNCHANGED <<name_table_, objects, guest>>
    BY <1>1 DEF FindName, MayBegin, RetainHandle
  <2>2. s \in Slots
    BY <2>1 DEF LifeInv, TableInv, Mapped, Names
  <2> HIDE DEF s
  <2>3. TableInv' /\ \A x \in Slots : table'[x].object = table[x].object
    BY <1>0, <2>1, RetainKeeps, 1 \in Int DEF Capacity, objects, guest
  <2>4. GuestInv'
    BY <1>0, <2>1 DEF GuestInv, guest, objects
  <2>5. pin[t] = NoObject
    BY <1>0, <2>1 DEF CallInv
  <2> QED BY <2>1, <2>2, <2>3, <2>4, <2>5, QuietStep DEF objects, guest
<1>2. ASSUME NEW o \in Objects, NameNotFound(t, o) PROVE LifeInv'
  <2>1. /\ at[t] = "idle" /\ o \notin created /\ \A u \in Threads : pin[u] # o
        /\ at' = [at EXCEPT ![t] = "new"] /\ pin' = [pin EXCEPT ![t] = o]
        /\ arg' = [arg EXCEPT ![t] = NoSlot]
        /\ UNCHANGED <<tables, name_table_, objects, guest>>
    BY <1>2 DEF NameNotFound, MayBegin, Goto
  <2>2. TableInv' /\ GuestInv'
    BY <1>0, <2>1, TableSame DEF GuestInv, objects, guest
  <2>3. CallInv'
    BY <1>0, <2>1 DEF CallInv, objects
  <2>4. Holds(t) = NoObject /\ Holds(t)' = NoObject /\ \A u \in Threads \ {t} : pin'[u] = pin[u] /\ at'[u] = at[u]
    BY <1>0, <2>1 DEF CallInv, Holds
  <2>5. \A x \in Objects : /\ Cardinality(Pinned(x))' = Cardinality(Pinned(x))
                           /\ Cardinality(SlotsOf(x))' = Cardinality(SlotsOf(x))
    <3>1. \A x \in Objects : Cardinality(Pinned(x))' = Cardinality(Pinned(x))
               - (IF NoObject = x THEN 1 ELSE 0) + (IF NoObject = x THEN 1 ELSE 0)
      BY <2>4, PinsChange
    <3>2. \A x \in Objects : Cardinality(Pinned(x)) \in Nat /\ x # NoObject
      BY <1>0, CountsAreNumbers
    <3> QED BY <2>1, <3>1, <3>2, SlotsStay DEF tables
  <2>6. CountInv'
    BY <1>0, <2>1, <2>5 DEF CountInv, PointersAreExact, SlotsOf, objects, guest
  <2>7. OutOfReach'
    <3>1. o \notin purged
      BY <1>0, <2>1 DEF TableInv
    <3> QED BY <1>0, <2>1, <3>1 DEF OutOfReach, CallInv, tables, guest
  <2> QED BY <2>2, <2>3, <2>6, <2>7 DEF LifeInv
<1>3. CASE LookupNamed(t)
  <2> PICK o : o = table[arg[t]].object
    OBVIOUS
  <2>1. /\ at[t] = "lookup" /\ o # NoObject /\ Retain(o) /\ Goto(t, "unretain", o, arg[t])
        /\ UNCHANGED <<tables, name_table_, handles_, stale, created, dispatch_handle, guest>>
    BY <1>3 DEF LookupNamed
  <2>2. TableInv' /\ GuestInv' /\ \A x \in Slots : table'[x].object = table[x].object
    BY <1>0, <2>1, TableSame DEF GuestInv, guest, tables
  <2>3. pin[t] = NoObject /\ arg[t] \in Slots
    BY <1>0, <2>1 DEF CallInv
  <2> QED BY <2>1, <2>2, <2>3, QuietStep DEF guest
<1>4. CASE Unretain(t)
  <2> PICK p, s : p = pin[t] /\ s = Handle0(p)
    OBVIOUS
  <2>1. /\ at[t] = "unretain" /\ ReleaseHandle(s, <<>>) /\ Goto(t, "retain", p, NoSlot)
        /\ Capacity /\ UNCHANGED <<created, dispatch_handle, guest>>
    BY <1>4 DEF Unretain
  <2>2. p \in created /\ p # NoObject /\ s \in Slots
    BY <1>0, <2>1 DEF CallInv, TableInv
  <2>3. /\ TableInv'
        /\ \A x \in Slots : table'[x].object \in {table[x].object, NoObject}
        /\ pointer_ref_count_' = [x \in Objects |-> pointer_ref_count_'[x]]
        /\ deleted' = deleted \union {x \in created : pointer_ref_count_'[x] = 0}
        /\ \A x \in Objects : pointer_ref_count_'[x] = pointer_ref_count_[x] - Times(<<>>, x)
                                     + (Cardinality(SlotsOf(x))' - Cardinality(SlotsOf(x)))
    BY <1>0, <2>1, <2>2, ReleaseKeeps DEF CountInv, Capacity, guest
  <2>4. \A x \in Objects : pointer_ref_count_'[x] = pointer_ref_count_[x]
            + (Cardinality(SlotsOf(x))' - Cardinality(SlotsOf(x)))
            - (IF p = x THEN 1 ELSE 0) + (IF p = x THEN 1 ELSE 0)
    <3>1. \A x \in Objects : /\ Times(<<>>, x) = 0 /\ Cardinality(SlotsOf(x)) \in Nat
                             /\ Cardinality(SlotsOf(x))' \in Nat /\ pointer_ref_count_[x] \in Nat
      BY <1>0, TimesOfFew, CountsAreNumbers DEF CountInv
    <3> QED BY <2>3, <3>1
  <2>5. GuestInv'
    BY <1>0, <2>1 DEF GuestInv, guest
  <2> QED BY <2>1, <2>2, <2>3, <2>4, <2>5, CallStep DEF guest
<1>5. CASE ReturnExisting(t)
  <2>1. /\ at[t] = "retain" /\ table' = [table EXCEPT ![Handle0(pin[t])].refs = @ + 1]
        /\ Pointers(NoObject, 0, <<pin[t]>>) /\ Give(Handle0(pin[t]), pin[t])
        /\ Goto(t, "idle", NoObject, NoSlot)
        /\ Capacity
        /\ UNCHANGED <<name_table_, handles_, stale, created, dispatch_handle, referenced, purged>>
    BY <1>5 DEF ReturnExisting, RetainHandle, Return
  <2>2. TableInv' /\ \A x \in Slots : table'[x].object = table[x].object
    BY <1>0, <2>1, RetainKeeps, 1 \in Int DEF Capacity
  <2>3. GuestInv'
    BY <1>0, <2>1, GiveKeeps
  <2> QED BY <2>1, <2>2, <2>3, QuietStep
<1>6. CASE NewObject(t)
  <2> PICK p : p = pin[t]
    OBVIOUS
  <2>1. PICK s \in Slots : AddHandle(p, s) /\ dispatch_handle' = [dispatch_handle EXCEPT ![p] = s]
    BY <1>6 DEF NewObject
  <2>2. /\ at[t] = "new" /\ created' = created \union {p} /\ Pointers(p, 2, <<>>)
        /\ Goto(t, "publish", p, NoSlot) /\ UNCHANGED <<name_table_, stale, guest>>
    BY <1>6 DEF NewObject
  <2>3. p \in Objects /\ p \notin created /\ p \notin purged /\ p # NoObject
    BY <1>0, <2>2 DEF CallInv, TableInv
  <2>4. /\ dispatch_handle' \in [Objects -> Slots \union {NoSlot}]
        /\ \A x \in created' : dispatch_handle'[x] \in Slots
    BY <1>0, <2>1, <2>2, <2>3 DEF TableInv
  <2>5. /\ TableInv' /\ table[s].object = NoObject /\ table'[s].object = p
        /\ \A x \in Slots \ {s} : table'[x].object = table[x].object
    BY <1>0, <2>1, <2>2, <2>3, <2>4, AddKeeps DEF guest
  <2>6. /\ CallInv' /\ Holds(t)' = p
        /\ \A u \in Threads \ {t} : pin'[u] = pin[u] /\ at'[u] = at[u]
    BY <1>0, <2>2, <2>3, CallsMove
  <2>7. Holds(t) = NoObject
    BY <2>2 DEF Holds
  <2>8. ASSUME NEW x \in Objects
        PROVE  /\ pointer_ref_count_'[x] = Cardinality(SlotsOf(x))' + Cardinality(Pinned(x))'
                        + (IF x \in purged THEN 1 ELSE 0)
               /\ pointer_ref_count_'[x] \in Nat
               /\ pointer_ref_count_'[x] = pointer_ref_count_[x] + (IF x = p THEN 2 ELSE 0)
    <3>1. Cardinality(SlotsOf(x))' = Cardinality(SlotsOf(x)) - 0 + (IF p = x THEN 1 ELSE 0)
      BY <1>0, <2>5, SlotsChange
    <3>2. Cardinality(Pinned(x))' = Cardinality(Pinned(x)) - 0 + (IF p = x THEN 1 ELSE 0)
      BY <1>0, <2>6, <2>7, PinsChange
    <3>3. pointer_ref_count_'[x] = pointer_ref_count_[x] + (IF x = p THEN 2 ELSE 0) - 0
      BY <2>2, PointersCount, TimesOfFew
    <3>4. pointer_ref_count_[x] = Cardinality(SlotsOf(x)) + Cardinality(Pinned(x))
                        + (IF x \in purged THEN 1 ELSE 0)
      BY <1>0 DEF CountInv, PointersAreExact, SlotsOf
    <3>5. Cardinality(SlotsOf(x)) \in Nat /\ Cardinality(Pinned(x)) \in Nat
      BY CountsAreNumbers
    <3> QED BY <3>1, <3>2, <3>3, <3>4, <3>5
  <2>9. CountInv'
    <3>1. pointer_ref_count_' \in [Objects -> Nat]
      BY <2>2, <2>8, PointersCount
    <3>2. PointersAreExact'
      BY <2>2, <2>8 DEF PointersAreExact, SlotsOf, guest
    <3>3. deleted' = {x \in created' : pointer_ref_count_'[x] = 0}
      <4>1. pointer_ref_count_[p] \in Nat /\ pointer_ref_count_'[p] = pointer_ref_count_[p] + 2
        BY <1>0, <2>3, <2>8 DEF CountInv
      <4>2. \A x \in created : /\ pointer_ref_count_'[x] = pointer_ref_count_[x]
                               /\ pointer_ref_count_[x] \in Nat
        BY <1>0, <2>3, <2>8 DEF CountInv
      <4>3. deleted' = deleted \union {x \in created : pointer_ref_count_'[x] = 0}
        BY <2>2, PointersCount
      <4> QED BY <1>0, <2>2, <4>1, <4>2, <4>3 DEF CountInv
    <3> QED BY <3>1, <3>2, <3>3 DEF CountInv
  <2>10. GuestInv' /\ OutOfReach'
    <3>1. GuestInv'
      BY <1>0, <2>2 DEF GuestInv, guest
    <3>2. pin'[t] = p
      BY <1>0, <2>2 DEF CallInv, Goto
    <3> QED BY <1>0, <2>2, <2>3, <2>5, <2>6, <3>1, <3>2 DEF OutOfReach, guest
  <2> QED BY <2>5, <2>6, <2>9, <2>10 DEF LifeInv
<1>7. CASE Publish(t)
  <2> PICK p : p = pin[t]
    OBVIOUS
  <2>1. /\ at[t] = "publish"
        /\ name_table_' = [n \in Names |->
                IF n = NameOf[p] /\ name_table_[n] = NoSlot THEN Handle0(p) ELSE name_table_[n]]
        /\ Pointers(NoObject, 0, <<p>>) /\ Give(Handle0(p), p)
        /\ Goto(t, "idle", NoObject, NoSlot)
        /\ UNCHANGED <<tables, handles_, stale, created, dispatch_handle, referenced, purged>>
    BY <1>7 DEF Publish, Return
  <2>2. p \in created /\ Handle0(p) \in Slots
    BY <1>0, <2>1 DEF CallInv, TableInv
  <2>3. TableInv' /\ \A x \in Slots : table'[x].object = table[x].object
    <3>1. name_table_' \in [Names' -> Slots \union {NoSlot}]
      BY <1>0, <2>1, <2>2 DEF TableInv, Names
    <3> QED BY <1>0, <2>1, <3>1 DEF TableInv, tables, Open, Handle0, HandlesAgree
  <2>4. GuestInv'
    BY <1>0, <2>1, GiveKeeps
  <2> QED BY <2>1, <2>3, <2>4, QuietStep
<1> QED BY <1>1, <1>2, <1>3, <1>4, <1>5, <1>6, <1>7

\* Calls on handles.
LEMMA LifeCalls ==
  ASSUME LifeInv, UNCHANGED NameOf, NEW t \in Threads,
         \/ \E s \in Slots : Close(t, s) \/ \E k \in AllCalls : Lookup(t, s, k)
         \/ \E o \in Objects : BeginDereference(t, o)
         \/ Used(t) \/ Duplicate(t) \/ CloseSource(t) \/ Reference(t) \/ Dereference(t)
  PROVE  LifeInv'
<1> USE DEF At
<1>0. /\ TableInv /\ CallInv /\ CountInv /\ GuestInv /\ OutOfReach
      /\ created \subseteq Objects /\ pin[t] \in Objects \union {NoObject}
      /\ NoObject \notin Objects
  BY ObjectTableAssumption DEF LifeInv, TableInv, CallInv
<1>1. ASSUME NEW s \in Slots, NEW k \in AllCalls, Lookup(t, s, k) PROVE LifeInv'
  <2> PICK o, w, a : /\ o = table[s].object /\ w = NextStage[k]
                     /\ a = IF k = "duplicate" THEN NoSlot ELSE s
    OBVIOUS
  <2>1. /\ at[t] = "idle" /\ k \in DOMAIN NextStage /\ owned[s] > 0 /\ o # NoObject
        /\ Retain(o) /\ Goto(t, w, o, a)
        /\ UNCHANGED <<tables, name_table_, handles_, stale, created, dispatch_handle>>
        /\ \/ owned' = [owned EXCEPT ![s] = @ - 1] /\ UNCHANGED <<owner, referenced, purged>>
           \/ UNCHANGED guest
    BY <1>1 DEF Lookup, MayBegin
  <2>2. w \in {"using", "add", "referencing"} /\ a \in Slots \union {NoSlot}
    BY <2>1 DEF NextStage
  <2>3. UNCHANGED <<referenced, owner, purged>> /\ owned' \in [Slots -> Nat]
    BY <1>0, <2>1 DEF guest, GuestInv
  <2>4. TableInv' /\ GuestInv' /\ \A x \in Slots : table'[x].object = table[x].object
    BY <1>0, <2>1, <2>3, TableSame DEF GuestInv, tables
  <2>5. pin[t] = NoObject
    BY <1>0, <2>1 DEF CallInv
  <2> QED BY <2>1, <2>2, <2>3, <2>4, <2>5, QuietStep
<1>2. CASE Used(t)
  <2>1. /\ at[t] = "using" /\ Pointers(NoObject, 0, <<pin[t]>>)
        /\ Goto(t, "idle", NoObject, NoSlot)
        /\ UNCHANGED <<tables, name_table_, handles_, stale, created, dispatch_handle, guest>>
    BY <1>2 DEF Used, Return
  <2>2. TableInv' /\ GuestInv' /\ \A x \in Slots : table'[x].object = table[x].object
    BY <1>0, <2>1, TableSame DEF GuestInv, tables, guest
  <2> QED BY <2>1, <2>2, QuietStep DEF guest
<1>3. CASE Duplicate(t)
  <2> PICK p, w, o, a : /\ p = pin[t] /\ o = NoObject
                        /\ w = IF arg[t] = NoSlot THEN "idle" ELSE "close_source"
                        /\ a = IF arg[t] = NoSlot THEN NoSlot ELSE arg[t]
    OBVIOUS
  <2>1. PICK s \in Slots : AddHandle(p, s) /\ Give(s, p)
    BY <1>3 DEF Duplicate
  <2>2. /\ at[t] = "add" /\ Pointers(p, 1, <<p>>) /\ Goto(t, w, o, a)
        /\ UNCHANGED <<name_table_, stale, created, dispatch_handle, referenced, purged>>
    BY <1>3 DEF Duplicate, Return
  <2>3. /\ p \in created /\ p \in Objects \ purged /\ a \in Slots \union {NoSlot}
        /\ w = "close_source" => a \in Slots
    BY <1>0, <2>2 DEF CallInv, OutOfReach
  <2>4. /\ TableInv' /\ table[s].object = NoObject /\ table'[s].object = p
        /\ \A x \in Slots \ {s} : table'[x].object = table[x].object
    <3>1. /\ dispatch_handle' \in [Objects -> Slots \union {NoSlot}]
          /\ \A x \in created' : dispatch_handle'[x] \in Slots
          /\ created' = created \union {p} /\ p \in created'
      BY <1>0, <2>2, <2>3 DEF TableInv
    <3> QED BY <1>0, <2>1, <2>2, <2>3, <3>1, AddKeeps
  <2>5. \A x \in Objects : pointer_ref_count_'[x] = pointer_ref_count_[x]
            + (Cardinality(SlotsOf(x))' - Cardinality(SlotsOf(x)))
            - (IF p = x THEN 1 ELSE 0) + (IF o = x THEN 1 ELSE 0)
    <3> SUFFICES ASSUME NEW x \in Objects
                 PROVE  pointer_ref_count_'[x] = pointer_ref_count_[x]
                           + (Cardinality(SlotsOf(x))' - Cardinality(SlotsOf(x)))
                           - (IF p = x THEN 1 ELSE 0)
      BY <1>0, <2>3, CountsAreNumbers DEF CountInv
    <3>1. Cardinality(SlotsOf(x))' = Cardinality(SlotsOf(x)) - 0 + (IF p = x THEN 1 ELSE 0)
      BY <1>0, <2>4, SlotsChange
    <3>2. pointer_ref_count_'[x] = pointer_ref_count_[x]
      BY <1>0, <2>2, <2>3, FewPointers
    <3>3. Cardinality(SlotsOf(x)) \in Nat /\ pointer_ref_count_[x] \in Nat
      BY <1>0, CountsAreNumbers DEF CountInv
    <3> QED BY <3>1, <3>2, <3>3
  <2>6. GuestInv'
    BY <1>0, <2>1, <2>2, <2>3, GiveKeeps
  <2>7. /\ pointer_ref_count_' = [x \in Objects |-> pointer_ref_count_'[x]]
        /\ deleted' = deleted \union {x \in created : pointer_ref_count_'[x] = 0}
    BY <2>2, PointersCount
  <2>8. \A x \in Slots : table'[x].object \in {table[x].object, NoObject, pin[t]}
    BY <2>4
  <2>9. /\ w \in At \ {"new"} /\ w \in {"idle", "close_source"} /\ at[t] # "new"
        /\ o \in {NoObject, pin[t]} /\ o = NoObject
    BY <2>2
  <2> QED BY <2>2, <2>3, <2>4, <2>5, <2>6, <2>7, <2>8, <2>9, CallStep
<1>4. CASE CloseSource(t)
  <2> PICK s : s = arg[t]
    OBVIOUS
  <2>1. /\ at[t] = "close_source" /\ table' = [table EXCEPT ![s] = FreeSlot]
        /\ RemoveHandle(s, <<>>) /\ Goto(t, "idle", NoObject, NoSlot)
        /\ Capacity /\ UNCHANGED <<created, dispatch_handle, guest>>
    BY <1>4 DEF CloseSource, Return
  <2>2. s \in Slots /\ pin[t] = NoObject
    BY <1>0, <2>1 DEF CallInv
  <2>3. /\ TableInv' /\ table'[s].object = NoObject
        /\ \A x \in Slots \ {s} : table'[x].object = table[x].object
    BY <1>0, <2>1, <2>2, RemoveKeeps DEF Capacity, guest
  <2>4. /\ pointer_ref_count_' = [x \in Objects |-> pointer_ref_count_'[x]]
        /\ deleted' = deleted \union {x \in created : pointer_ref_count_'[x] = 0}
        /\ \A x \in Objects : pointer_ref_count_'[x] = pointer_ref_count_[x] - Times(<<>>, x)
                                     + (Cardinality(SlotsOf(x))' - Cardinality(SlotsOf(x)))
    BY <1>0, <2>1, <2>2, <2>3, RemoveCounts DEF CountInv
  <2>5. \A x \in Objects : pointer_ref_count_'[x] = pointer_ref_count_[x]
            + (Cardinality(SlotsOf(x))' - Cardinality(SlotsOf(x)))
            - (IF pin[t] = x THEN 1 ELSE 0) + (IF NoObject = x THEN 1 ELSE 0)
    <3>1. \A x \in Objects : /\ Times(<<>>, x) = 0 /\ Cardinality(SlotsOf(x)) \in Nat
                             /\ Cardinality(SlotsOf(x))' \in Nat /\ pointer_ref_count_[x] \in Nat
      BY <1>0, TimesOfFew, CountsAreNumbers DEF CountInv
    <3> QED BY <1>0, <2>2, <2>4, <3>1
  <2>6. GuestInv'
    BY <1>0, <2>1 DEF GuestInv, guest
  <2>7. \A x \in Slots : table'[x].object \in {table[x].object, NoObject, pin[t]}
    BY <2>3
  <2> QED BY <2>1, <2>3, <2>4, <2>5, <2>6, <2>7, CallStep DEF guest
<1>5. CASE Reference(t)
  <2>1. /\ at[t] = "referencing" /\ table' = [table EXCEPT ![Handle0(pin[t])].refs = @ + 1]
        /\ referenced' = [referenced EXCEPT ![pin[t]] = @ + 1]
        /\ Pointers(NoObject, 0, <<pin[t]>>) /\ Goto(t, "idle", NoObject, NoSlot) /\ Capacity
        /\ UNCHANGED <<name_table_, handles_, stale, created, dispatch_handle, owned,
                       owner, purged>>
    BY <1>5 DEF Reference, RetainHandle, Return
  <2>2. TableInv' /\ \A x \in Slots : table'[x].object = table[x].object
    BY <1>0, <2>1, RetainKeeps, 1 \in Int DEF Capacity
  <2>3. GuestInv'
    <3>1. pin[t] \in created
      BY <1>0, <2>1 DEF CallInv
    <3> QED BY <1>0, <2>1, <3>1 DEF GuestInv
  <2> QED BY <2>1, <2>2, <2>3, QuietStep
<1>6. ASSUME NEW o \in Objects, BeginDereference(t, o) PROVE LifeInv'
  <2> PICK found : found = table[dispatch_handle[o]].object
    OBVIOUS
  <2>1. /\ at[t] = "idle" /\ referenced[o] > 0 /\ referenced' = [referenced EXCEPT ![o] = @ - 1]
        /\ UNCHANGED <<tables, name_table_, handles_, stale, created, dispatch_handle, owned,
                       owner, purged>>
        /\ \/ found = NoObject /\ UNCHANGED <<call, pointer_ref_count_, deleted>>
           \/ found # NoObject /\ Retain(found) /\ Goto(t, "dereferencing", found, NoSlot)
    BY <1>6 DEF BeginDereference, MayBegin
  <2>2. TableInv' /\ GuestInv' /\ \A x \in Slots : table'[x].object = table[x].object
    BY <1>0, <2>1, TableSame DEF GuestInv, tables
  <2>3. pin[t] = NoObject /\ dispatch_handle[o] \in Slots
    BY <1>0, <2>1 DEF CallInv, GuestInv, TableInv
  <2>4. CASE found = NoObject
    BY <1>0, <2>1, <2>2, <2>4
       DEF LifeInv, CallInv, CountInv, PointersAreExact, OutOfReach, Pinned, tables, call
  <2>5. CASE found # NoObject
    BY <2>1, <2>2, <2>3, <2>5, QuietStep
  <2> QED BY <2>4, <2>5
<1>7. CASE Dereference(t)
  <2> PICK p, s : p = pin[t] /\ s = Handle0(p)
    OBVIOUS
  <2>1. /\ at[t] = "dereferencing" /\ ReleaseHandle(s, <<p>>) /\ Goto(t, "idle", NoObject, NoSlot)
        /\ Capacity /\ UNCHANGED <<created, dispatch_handle, guest>>
    BY <1>7 DEF Dereference, Return
  <2>2. p \in created /\ p # NoObject /\ s \in Slots
    BY <1>0, <2>1 DEF CallInv, TableInv
  <2>3. /\ TableInv'
        /\ \A x \in Slots : table'[x].object \in {table[x].object, NoObject}
        /\ pointer_ref_count_' = [x \in Objects |-> pointer_ref_count_'[x]]
        /\ deleted' = deleted \union {x \in created : pointer_ref_count_'[x] = 0}
        /\ \A x \in Objects : pointer_ref_count_'[x] = pointer_ref_count_[x] - Times(<<p>>, x)
                                     + (Cardinality(SlotsOf(x))' - Cardinality(SlotsOf(x)))
    BY <1>0, <2>1, <2>2, ReleaseKeeps DEF CountInv, Capacity, guest
  <2>4. \A x \in Objects : pointer_ref_count_'[x] = pointer_ref_count_[x]
            + (Cardinality(SlotsOf(x))' - Cardinality(SlotsOf(x)))
            - (IF p = x THEN 1 ELSE 0) + (IF NoObject = x THEN 1 ELSE 0)
    <3>1. \A x \in Objects : /\ Times(<<p>>, x) = (IF p = x THEN 1 ELSE 0) /\ x # NoObject
                             /\ Cardinality(SlotsOf(x)) \in Nat
                             /\ Cardinality(SlotsOf(x))' \in Nat /\ pointer_ref_count_[x] \in Nat
      BY <1>0, TimesOfFew, CountsAreNumbers DEF CountInv
    <3> SUFFICES ASSUME NEW x \in Objects
                 PROVE  pointer_ref_count_'[x] = pointer_ref_count_[x]
                           + (Cardinality(SlotsOf(x))' - Cardinality(SlotsOf(x)))
                           - (IF p = x THEN 1 ELSE 0) + (IF NoObject = x THEN 1 ELSE 0)
      OBVIOUS
    <3>2. pointer_ref_count_'[x] = pointer_ref_count_[x] - (IF p = x THEN 1 ELSE 0)
                                     + (Cardinality(SlotsOf(x))' - Cardinality(SlotsOf(x)))
      BY <2>3, <3>1
    <3> QED BY <3>1, <3>2
  <2>5. GuestInv'
    BY <1>0, <2>1 DEF GuestInv, guest
  <2> QED BY <2>1, <2>3, <2>4, <2>5, CallStep DEF guest
<1>8. ASSUME NEW s \in Slots, Close(t, s) PROVE LifeInv'
  <2>1. /\ owned' = [owned EXCEPT ![s] = @ - 1] /\ ReleaseHandle(s, <<>>)
        /\ owned[s] > Cardinality({u \in Threads : at[u] = "referencing" /\ arg[u] = s})
        /\ Capacity /\ UNCHANGED <<created, dispatch_handle, call, owner, referenced, purged>>
    BY <1>8 DEF Close
  <2>2. GuestInv'
    <3>1. Cardinality({u \in Threads : at[u] = "referencing" /\ arg[u] = s}) \in Nat
      <4>1. {u \in Threads : at[u] = "referencing" /\ arg[u] = s} \subseteq Threads
        OBVIOUS
      <4> QED BY <4>1, ObjectTableAssumption, FS_Subset, FS_CardinalityType
    <3>2. owned[s] - 1 \in Nat
      BY <1>0, <2>1, <3>1 DEF GuestInv
    <3> QED BY <1>0, <2>1, <3>2 DEF GuestInv
  <2>3. /\ TableInv'
        /\ \A x \in Slots : table'[x].object \in {table[x].object, NoObject}
        /\ pointer_ref_count_' = [x \in Objects |-> pointer_ref_count_'[x]]
        /\ deleted' = deleted \union {x \in created : pointer_ref_count_'[x] = 0}
        /\ \A x \in Objects : /\ pointer_ref_count_'[x] = pointer_ref_count_[x] - Times(<<>>, x)
                                     + (Cardinality(SlotsOf(x))' - Cardinality(SlotsOf(x)))
                              /\ pointer_ref_count_'[x] <= pointer_ref_count_[x]
    BY <1>0, <2>1, ReleaseKeeps DEF CountInv, Capacity
  <2>4. CallInv' /\ \A x \in Objects : Cardinality(Pinned(x))' = Cardinality(Pinned(x))
    BY <1>0, <2>1 DEF CallInv, call, Pinned
  <2>5. CountInv'
    <3>1. \A x \in Objects : pointer_ref_count_'[x] = pointer_ref_count_[x]
              + (Cardinality(SlotsOf(x))' - Cardinality(SlotsOf(x)))
              + (Cardinality(Pinned(x))' - Cardinality(Pinned(x)))
      <4>1. \A x \in Objects : /\ Times(<<>>, x) = 0 /\ Cardinality(SlotsOf(x)) \in Nat
                               /\ Cardinality(SlotsOf(x))' \in Nat /\ pointer_ref_count_[x] \in Nat
                               /\ Cardinality(Pinned(x)) \in Nat
        BY <1>0, TimesOfFew, CountsAreNumbers DEF CountInv
      <4> QED BY <2>3, <2>4, <4>1
    <3>2. deleted \subseteq Objects
      BY <1>0 DEF CountInv
    <3> QED BY <1>0, <2>1, <2>3, <3>1, <3>2, CountStep
  <2>6. OutOfReach'
    BY <1>0, <2>1, <2>3, ObjectTableAssumption DEF OutOfReach, TableInv, call
  <2> QED BY <2>2, <2>3, <2>4, <2>5, <2>6 DEF LifeInv
<1> QED BY <1>1, <1>2, <1>3, <1>4, <1>5, <1>6, <1>7, <1>8

\* The title ends: what was in the table keeps the pointer the slot had.
LEMMA LifePurge ==
  ASSUME LifeInv, UNCHANGED NameOf, PurgeAllObjects
  PROVE  LifeInv'
<1> DEFINE inTable == {table[s].object : s \in {x \in Slots : table[x].object # NoObject}}
<1>0. /\ TableInv /\ CallInv /\ CountInv /\ GuestInv /\ OutOfReach
      /\ created \subseteq Objects /\ NoObject \notin Objects
  BY ObjectTableAssumption DEF LifeInv, TableInv
<1>1. /\ \A t \in Threads : at[t] = "idle"
      /\ \A o \in Objects : Cardinality(SlotsOf(o)) <= 1
      /\ table' = [s \in Slots |-> IF table[s].object = NoObject THEN table[s]
                                   ELSE [object |-> NoObject, refs |-> -1]]
      /\ owned' = [s \in Slots |-> 0] /\ referenced' = [o \in Objects |-> 0]
      /\ purged' = purged \union inTable
      /\ Capacity /\ UNCHANGED <<name_table_, objects, call, owner>>
  BY DEF PurgeAllObjects, SlotsOf
<1>2. /\ \A s \in Slots : table'[s].object = NoObject
      /\ table' \in [Slots -> [object : Objects \union {NoObject}, refs : Int]]
  BY <1>0, <1>1 DEF TableInv
<1>3. inTable \subseteq created
  BY <1>0 DEF TableInv, Open
<1>4. HandlesAgree'
  <2> SUFFICES ASSUME NEW o \in Objects \ purged'
               PROVE  /\ ToSet(handles_'[o]) = {s \in Slots : table'[s].object = o}
                      /\ IsInjective(handles_'[o])
    BY DEF HandlesAgree
  <2>1. {s \in Slots : table[s].object = o} = {} /\ {s \in Slots : table'[s].object = o} = {}
    BY <1>0, <1>1, <1>2
  <2>2. handles_' = handles_ /\ o \notin purged
    BY <1>1 DEF objects
  <2> QED BY <1>0, <2>1, <2>2 DEF TableInv, HandlesAgree
<1>5. TableInv'
  BY <1>0, <1>1, <1>2, <1>3, <1>4 DEF TableInv, Capacity, objects, Open, Handle0, Names
<1>6. CallInv' /\ GuestInv'
  BY <1>0, <1>1 DEF CallInv, GuestInv, call, objects
<1>7. CountInv'
  <2>1. ASSUME NEW o \in Objects
        PROVE  pointer_ref_count_[o] = Cardinality(SlotsOf(o)') + Cardinality(Pinned(o)')
                                         + (IF o \in purged' THEN 1 ELSE 0)
    <3>1. pointer_ref_count_[o] = Cardinality(SlotsOf(o)) + Cardinality(Pinned(o))
                                         + (IF o \in purged THEN 1 ELSE 0)
      BY <1>0 DEF CountInv, PointersAreExact, SlotsOf
    <3>2. Cardinality(SlotsOf(o)') = 0 /\ Pinned(o)' = Pinned(o)
      <4>1. SlotsOf(o)' = {}
        BY <1>0, <1>2 DEF SlotsOf
      <4> QED BY <1>1, <4>1, FS_EmptySet DEF Pinned, call
    <3>3. Cardinality(SlotsOf(o)) = (IF o \in inTable THEN 1 ELSE 0)
      <4>1. SlotsOf(o) # {} <=> o \in inTable
        BY <1>0 DEF SlotsOf
      <4>2. Cardinality(SlotsOf(o)) = 0 <=> SlotsOf(o) = {}
        BY CountsAreNumbers, FS_EmptySet
      <4> QED BY <1>1, <4>1, <4>2, CountsAreNumbers
    <3>4. o \in inTable => o \notin purged
      BY <1>0 DEF OutOfReach
    <3>5. Cardinality(Pinned(o)) \in Nat
      BY CountsAreNumbers
    <3> HIDE DEF inTable
    <3> QED BY <1>1, <3>1, <3>2, <3>3, <3>4, <3>5
  <2> QED BY <1>0, <1>1, <2>1 DEF CountInv, PointersAreExact, SlotsOf, objects
<1>8. OutOfReach'
  BY <1>0, <1>1, <1>2, <1>3 DEF OutOfReach, CallInv, TableInv, call
<1> QED BY <1>5, <1>6, <1>7, <1>8 DEF LifeInv

LEMMA LifeStep == LifeInv /\ [Next]_vars => LifeInv'
<1> SUFFICES ASSUME LifeInv, [Next]_vars PROVE LifeInv'
  OBVIOUS
<1>1. ASSUME NEW t \in Threads, Step(t), UNCHANGED NameOf PROVE LifeInv'
  BY <1>1, LifeNaming, LifeCalls DEF Step
<1>2. CASE UNCHANGED vars
  <2>1. TableInv' /\ GuestInv' /\ CallInv'
    BY <1>2, TableSame DEF vars, objects, call, guest, LifeInv, CallInv, GuestInv
  <2>2. CountInv' /\ OutOfReach'
    BY <1>2 DEF vars, tables, objects, call, guest, LifeInv, CountInv, OutOfReach,
                PointersAreExact, Pinned
  <2> QED BY <1>2, <2>1, <2>2 DEF LifeInv, vars
<1> QED BY <1>1, <1>2, LifePurge DEF Next

LEMMA LifeAlways == Spec => []LifeInv
BY LifeInit, LifeStep, PTL DEF Spec

\* All variables have their types, and table and objects agree on which handle
\* is whose, whatever the guest does and however calls overlap.
THEOREM TableAgrees == Spec => []OTInv
<1>1. LifeInv => OTInv
  BY DEF LifeInv, TableInv, CallInv, CountInv, GuestInv, OTInv, OTTypeOK
<1> QED BY <1>1, LifeAlways, PTL

\* No slot and no call has a pointer to a destroyed object.
LEMMA NobodyHasADeadPointer == LifeInv => NoUseAfterFree
<1> SUFFICES ASSUME LifeInv PROVE NoUseAfterFree
  OBVIOUS
<1>1. CountInv /\ deleted \subseteq Objects /\ NoObject \notin Objects
  BY ObjectTableAssumption DEF LifeInv, CountInv, TableInv
<1>2. \A o \in deleted : pointer_ref_count_[o] = 0
  BY <1>1 DEF CountInv
<1>3. ASSUME NEW s \in Slots, table[s].object \in deleted PROVE FALSE
  BY <1>1, <1>2, <1>3, InUse
<1>4. ASSUME NEW t \in Threads, pin[t] \in deleted PROVE FALSE
  <2>1. Holds(t) = pin[t]
    BY <1>1, <1>4 DEF LifeInv, CallInv, CountInv, Holds
  <2> QED BY <1>1, <1>2, <1>4, <2>1, InUse
<1> QED BY <1>1, <1>3, <1>4 DEF NoUseAfterFree, CountInv

\* An object lives exactly as long as a slot or a call has a pointer to it (or
\* the title that owned it has ended), whatever the guest does and however calls
\* overlap.
THEOREM ObjectsLiveExactly == Spec => []LifetimesAreExact
<1>1. LifeInv => LifetimesAreExact
  BY NobodyHasADeadPointer DEF LifeInv, CountInv, LifetimesAreExact
<1> QED BY <1>1, LifeAlways, PTL

-----------------------------------------------------------------------------
(* Names *)

\* On objects with names calls do not overlap.
Alone == \A t, u \in Threads : at[t] = "idle" \/ at[u] = "idle" \/ t = u

\* A new object has its first handle when its name is published.
Fresh == \A t \in Threads : at[t] = "publish" => handles_[pin[t]] # <<>>

NamesInv == Names # {} => Alone /\ Fresh /\ NamesResolve

\* While a thread takes a step the others are idle.
LEMMA OthersIdle ==
  ASSUME LifeInv, MayRace = FALSE, Names # {}, Alone, NEW t \in Threads, Step(t)
  PROVE  \A u \in Threads \ {t} : at[u] = "idle" /\ at'[u] = "idle"
<1>1. \A u \in Threads \ {t} : at[u] = "idle"
  <2>1. CASE at[t] = "idle"
    <3>1. MayBegin(t)
      BY <2>1 DEF Step, FindName, NameNotFound, Lookup, BeginDereference, Close, LookupNamed,
         Unretain, ReturnExisting, NewObject, Publish, Used, Duplicate, CloseSource, Reference,
         Dereference
    <3> QED BY <3>1 DEF MayBegin
  <2>2. CASE at[t] # "idle"
    BY <2>2 DEF Alone
  <2> QED BY <2>1, <2>2
<1>2. \A u \in Threads \ {t} : at'[u] = at[u]
  <2>1. (\E w, o, s : Goto(t, w, o, s)) \/ UNCHANGED call
    BY DEF Step, FindName, NameNotFound, Lookup, BeginDereference, Close, LookupNamed,
       Unretain, ReturnExisting, NewObject, Publish, Used, Duplicate, CloseSource, Reference,
       Dereference, Return
  <2> QED BY <2>1 DEF Goto, call, LifeInv, CallInv
<1> QED BY <1>1, <1>2

\* Nor will they have one.
LEMMA NorLater == LifeInv' => NoUseAfterFree'
BY NobodyHasADeadPointer, PTL

\* A mapped name still leads where it should.
Leads(n, m, o) == o \in created \ deleted /\ NameOf[o] = n /\ Handle0(o) = m

\* Where mapped names led.
LEMMA NameLed ==
  ASSUME LifeInv, NamesResolve, NEW n \in Names, NEW m, NEW o,
         m = name_table_[n], m # NoSlot, o = table[m].object
  PROVE  /\ Leads(n, m, o) /\ m \in Slots /\ o \in created /\ o \in Objects \ purged
         /\ o # NoObject /\ handles_[o] # <<>> /\ handles_[o] \in Seq(Slots)
<1>1. /\ m \in Slots /\ o \in created /\ o \in Objects /\ o # NoObject /\ Leads(n, m, o)
  BY ObjectTableAssumption DEF NamesResolve, LifeInv, TableInv, Leads
<1>2. o \notin purged
  BY <1>1 DEF LifeInv, OutOfReach
<1>3. m \in ToSet(handles_[o])
  BY <1>1, <1>2 DEF LifeInv, TableInv, HandlesAgree
<1> QED BY <1>1, <1>2, <1>3 DEF LifeInv, TableInv, ToSet

\* Where they will lead.
LEMMA NameWillLead ==
  ASSUME LifeInv', UNCHANGED NameOf,
         \A n \in Names : \A m, o : m = name_table_'[n] /\ m # NoSlot /\ o = table'[m].object
             => m \in Slots /\ o \in created' /\ NameOf[o] = n /\ Handle0(o)' = m
  PROVE  NamesResolve'
<1> SUFFICES ASSUME NEW n \in Names, NEW m, NEW o,
                    m = name_table_'[n], m # NoSlot, o = table'[m].object
             PROVE  o \in created' \ deleted' /\ NameOf[o] = n /\ Handle0(o)' = m
  BY DEF NamesResolve, Names
<1> QED BY NorLater DEF NoUseAfterFree

\* A step that leaves objects, handles and names alone.
LEMMA NamesQuiet ==
  ASSUME LifeInv, LifeInv', NamesResolve, \A x \in Slots : table'[x].object = table[x].object,
         UNCHANGED <<name_table_, handles_, stale, created, NameOf>>
  PROVE  NamesResolve'
<1>1. ASSUME NEW n \in Names, NEW m, NEW o, m = name_table_'[n], m # NoSlot, o = table'[m].object
      PROVE  m \in Slots /\ o \in created' /\ NameOf[o] = n /\ Handle0(o)' = m
  <2>1. m \in Slots
    BY <1>1 DEF LifeInv, TableInv
  <2>2. Leads(n, m, o) /\ o \in created
    BY <1>1, <2>1, NameLed
  <2> QED BY <2>1, <2>2 DEF Leads, Handle0
<1> QED BY <1>1, NameWillLead

\* RemoveHandle unmaps the name of the object whose slot it frees.
LEMMA NamesRemove ==
  ASSUME LifeInv, LifeInv', NamesResolve, NEW s \in Slots, NEW unpin,
         table' = [table EXCEPT ![s] = FreeSlot], RemoveHandle(s, unpin),
         UNCHANGED <<created, NameOf>>
  PROVE  NamesResolve'
<1>1. CASE table[s].object = NoObject
  <2>1. \A x \in Slots : table'[x].object = table[x].object
    BY <1>1 DEF FreeSlot, LifeInv, TableInv
  <2> QED BY <1>1, <2>1, NamesQuiet DEF RemoveHandle
<1>2. CASE table[s].object # NoObject
  <2> PICK o : o = table[s].object
    OBVIOUS
  <2>1. /\ handles_' = [handles_ EXCEPT ![o] = RemoveFirst(@, s)]
        /\ stale' = [stale EXCEPT ![o] = s]
        /\ name_table_' = [n \in Names |-> IF n = NameOf[o] THEN NoSlot ELSE name_table_[n]]
    BY <1>2 DEF RemoveHandle
  <2>2. ASSUME NEW n \in Names, NEW m, NEW p, m = name_table_'[n], m # NoSlot, p = table'[m].object
        PROVE  m \in Slots /\ p \in created' /\ NameOf[p] = n /\ Handle0(p)' = m
    <3> PICK q : q = table[m].object
      OBVIOUS
    <3>1. m = name_table_[n] /\ n # NameOf[o]
      BY <2>1, <2>2
    <3>2. Leads(n, m, q) /\ m \in Slots /\ q \in created /\ q \in Objects
      BY <2>2, <3>1, NameLed
    <3>3. q # o /\ m # s /\ q = p
      BY <2>2, <3>1, <3>2 DEF Leads, LifeInv, TableInv
    <3>4. handles_'[q] = handles_[q] /\ stale'[q] = stale[q]
      BY <2>1, <3>2, <3>3 DEF LifeInv, TableInv
    <3> QED BY <3>2, <3>3, <3>4 DEF Leads, Handle0
  <2> QED BY <2>2, NameWillLead
<1> QED BY <1>1, <1>2

LEMMA NamesRelease ==
  ASSUME LifeInv, LifeInv', NamesResolve, NEW s \in Slots, NEW unpin, ReleaseHandle(s, unpin),
         UNCHANGED <<created, NameOf>>
  PROVE  NamesResolve'
<1>1. CASE table[s].refs = 1
  BY <1>1, NamesRemove DEF ReleaseHandle
<1>2. CASE table[s].refs # 1
  <2>1. /\ table' = [table EXCEPT ![s].refs = @ - 1]
        /\ UNCHANGED <<handles_, stale, name_table_>>
    BY <1>2 DEF ReleaseHandle
  <2>2. \A x \in Slots : table'[x].object = table[x].object
    BY <2>1 DEF LifeInv, TableInv
  <2> QED BY <2>1, <2>2, NamesQuiet
<1> QED BY <1>1, <1>2

\* A new handle of an object is not its first if a name leads to one.
LEMMA NamesAdd ==
  ASSUME LifeInv, LifeInv', NamesResolve, NEW o \in Objects, NEW s \in Slots,
         table[s].object = NoObject, AddHandle(o, s), created \subseteq created',
         UNCHANGED <<name_table_, stale, NameOf>>
  PROVE  NamesResolve'
<1>1. ASSUME NEW n \in Names, NEW m, NEW p, m = name_table_'[n], m # NoSlot, p = table'[m].object
      PROVE  m \in Slots /\ p \in created' /\ NameOf[p] = n /\ Handle0(p)' = m
  <2> PICK q : q = table[m].object
    OBVIOUS
  <2>1. /\ Leads(n, m, q) /\ m \in Slots /\ q \in created /\ q \in Objects
        /\ q # NoObject /\ handles_[q] # <<>> /\ handles_[q] \in Seq(Slots)
    BY <1>1, NameLed
  <2>2. m # s /\ p = q
    BY <1>1, <2>1 DEF AddHandle, LifeInv, TableInv
  <2>3. Handle0(q)' = m
    <3>1. CASE q = o
      <4>1. handles_'[q] = Append(handles_[q], s)
        BY <2>1, <3>1 DEF AddHandle, LifeInv, TableInv
      <4>2. handles_'[q] # <<>> /\ Head(handles_'[q]) = Head(handles_[q])
        BY <2>1, <4>1
      <4> QED BY <2>1, <4>2 DEF Handle0, Leads
    <3>2. CASE q # o
      <4>1. handles_'[q] = handles_[q]
        BY <2>1, <3>2 DEF AddHandle, LifeInv, TableInv
      <4> QED BY <2>1, <4>1 DEF Handle0, Leads
    <3> QED BY <3>1, <3>2
  <2> QED BY <2>1, <2>2, <2>3 DEF Leads
<1> QED BY <1>1, NameWillLead


\* Names lead where they should when calls do not overlap.
LEMMA NamesStep ==
  ASSUME LifeInv, LifeInv', MayRace = FALSE, NamesInv, Next
  PROVE  NamesInv'
<1> SUFFICES ASSUME Names' # {} PROVE Alone' /\ Fresh' /\ NamesResolve'
  BY DEF NamesInv
<1>0. Names # {} /\ NameOf' = NameOf /\ Alone /\ Fresh /\ NamesResolve
  BY DEF NamesInv, Next, Names
<1>1. "purge" \notin Kinds /\ "duplicate_close" \notin Kinds
  BY <1>0 DEF Kinds
<1>2. PICK t \in Threads : Step(t)
  BY <1>1 DEF Next, PurgeAllObjects
<1>3. \A u \in Threads \ {t} : at[u] = "idle" /\ at'[u] = "idle"
  BY <1>0, <1>2, OthersIdle
<1>4. Alone'
  BY <1>3 DEF Alone
<1>5. TableInv /\ CallInv /\ Threads # {} /\ at[t] \in At
  BY DEF LifeInv, CallInv
<1> USE DEF tables, objects, guest, Return
<1>6. ASSUME NEW o \in Objects, FindName(t, o) PROVE at'[t] # "publish" /\ NamesResolve'
  <2>1. \A x \in Slots : table'[x].object = table[x].object
    BY <1>6 DEF FindName, RetainHandle, LifeInv, TableInv
  <2> QED BY <1>0, <1>5, <1>6, <2>1, NamesQuiet DEF FindName, Goto, CallInv
<1>7. ASSUME NEW o \in Objects, NameNotFound(t, o) PROVE at'[t] # "publish" /\ NamesResolve'
  BY <1>0, <1>5, <1>7, NamesQuiet DEF NameNotFound, Goto, CallInv
<1>8. CASE LookupNamed(t)
  <2>1. at'[t] # "publish"
    BY <1>5, <1>8 DEF LookupNamed, Goto, CallInv
  <2> QED BY <1>0, <1>3, <1>8, <2>1, <1>4, NamesQuiet DEF LookupNamed, Fresh
<1>9. CASE Unretain(t)
  <2>1. at'[t] # "publish"
    BY <1>5, <1>9 DEF Unretain, Goto, CallInv
  <2>2. pin[t] \in created /\ Handle0(pin[t]) \in Slots
    BY <1>5, <1>9 DEF Unretain, CallInv, TableInv
  <2>3. NamesResolve'
    BY <1>0, <1>9, <2>2, NamesRelease DEF Unretain
  <2> QED BY <1>3, <1>4, <2>1, <2>3 DEF Fresh
<1>10. CASE ReturnExisting(t)
  <2>1. at'[t] # "publish"
    BY <1>5, <1>10 DEF ReturnExisting, Goto, CallInv
  <2>2. \A x \in Slots : table'[x].object = table[x].object
    BY <1>10 DEF ReturnExisting, RetainHandle, LifeInv, TableInv
  <2>3. NamesResolve'
    BY <1>0, <1>10, <2>2, NamesQuiet DEF ReturnExisting
  <2> QED BY <1>3, <1>4, <2>1, <2>3 DEF Fresh
<1>11. CASE NewObject(t)
  <2> PICK p : p = pin[t]
    OBVIOUS
  <2>1. PICK s \in Slots : AddHandle(p, s)
    BY <1>11 DEF NewObject
  <2>2. p \in Objects /\ pin'[t] = p
    BY <1>5, <1>11, ObjectTableAssumption DEF NewObject, CallInv, Goto
  <2>3. table[s].object = NoObject
    BY <1>5, <2>1, FreeSlotFound DEF AddHandle
  <2>4. NamesResolve'
    BY <1>0, <1>11, <2>1, <2>2, <2>3, NamesAdd DEF NewObject
  <2>5. handles_'[p] # <<>>
    <3>1. handles_[p] \in Seq(Slots) /\ handles_'[p] = Append(handles_[p], s)
      BY <1>5, <2>1, <2>2 DEF AddHandle, TableInv
    <3> QED BY <3>1
  <2> QED BY <1>3, <1>4, <2>2, <2>4, <2>5 DEF Fresh
<1>12. CASE Publish(t)
  <2> PICK o : o = pin[t]
    OBVIOUS
  <2>1. /\ at[t] = "publish"
        /\ name_table_' = [n \in Names |->
                IF n = NameOf[o] /\ name_table_[n] = NoSlot THEN Handle0(o) ELSE name_table_[n]]
        /\ UNCHANGED <<table, handles_, stale, created>>
    BY <1>12 DEF Publish
  <2>2. o \in created /\ o \notin purged /\ Handle0(o) \in Slots
    BY <1>5, <2>1 DEF CallInv, TableInv, LifeInv, OutOfReach
  <2>3. table[Handle0(o)].object = o
    <3>1. handles_[o] # <<>> /\ handles_[o] \in Seq(Slots)
      BY <1>0, <1>5, <2>1, <2>2 DEF Fresh, TableInv
    <3>2. Handle0(o) = handles_[o][1] /\ handles_[o][1] \in ToSet(handles_[o])
      BY <3>1 DEF Handle0, ToSet
    <3> QED BY <1>5, <2>2, <3>2 DEF TableInv, HandlesAgree
  <2>4. ASSUME NEW n \in Names, NEW m, NEW p, m = name_table_'[n], m # NoSlot, p = table'[m].object
        PROVE  m \in Slots /\ p \in created' /\ NameOf[p] = n /\ Handle0(p)' = m
    <3>1. CASE n = NameOf[o] /\ name_table_[n] = NoSlot
      <4>1. m = Handle0(o) /\ p = o
        BY <2>1, <2>3, <2>4, <3>1
      <4> QED BY <2>1, <2>2, <3>1, <4>1 DEF Handle0
    <3>2. CASE ~(n = NameOf[o] /\ name_table_[n] = NoSlot)
      <4>1. m = name_table_[n] /\ p = table[m].object
        BY <2>1, <2>4, <3>2
      <4>2. Leads(n, m, p) /\ m \in Slots /\ p \in created
        BY <1>0, <2>4, <4>1, NameLed
      <4> QED BY <2>1, <4>2 DEF Leads, Handle0
    <3> QED BY <3>1, <3>2
  <2>5. NamesResolve'
    BY <1>0, <2>4, NameWillLead
  <2>6. at'[t] # "publish"
    BY <1>5, <1>12 DEF Publish, Goto, CallInv
  <2> QED BY <1>3, <1>4, <2>5, <2>6 DEF Fresh
<1>13. CASE Used(t)
  <2>1. at'[t] # "publish"
    BY <1>5, <1>13 DEF Used, Goto, CallInv
  <2> QED BY <1>0, <1>3, <1>4, <1>13, <2>1, NamesQuiet DEF Used, Fresh
<1>14. CASE Duplicate(t)
  <2> PICK p : p = pin[t]
    OBVIOUS
  <2>1. PICK s \in Slots : AddHandle(p, s)
    BY <1>14 DEF Duplicate
  <2>2. p \in Objects
    BY <1>5, <1>14 DEF Duplicate, CallInv, TableInv
  <2>3. table[s].object = NoObject
    BY <1>5, <2>1, FreeSlotFound DEF AddHandle
  <2>4. NamesResolve'
    BY <1>0, <1>14, <2>1, <2>2, <2>3, NamesAdd DEF Duplicate
  <2>5. at'[t] # "publish"
    BY <1>5, <1>14 DEF Duplicate, Goto, CallInv
  <2> QED BY <1>3, <1>4, <2>4, <2>5 DEF Fresh
<1>15. CASE CloseSource(t)
  <2>1. arg[t] \in Slots
    BY <1>5, <1>15 DEF CloseSource, CallInv
  <2>2. NamesResolve'
    BY <1>0, <1>15, <2>1, NamesRemove DEF CloseSource
  <2>3. at'[t] # "publish"
    BY <1>5, <1>15 DEF CloseSource, Goto, CallInv
  <2> QED BY <1>3, <1>4, <2>2, <2>3 DEF Fresh
<1>16. CASE Reference(t)
  <2>1. at'[t] # "publish"
    BY <1>5, <1>16 DEF Reference, Goto, CallInv
  <2>2. \A x \in Slots : table'[x].object = table[x].object
    BY <1>16 DEF Reference, RetainHandle, LifeInv, TableInv
  <2>3. NamesResolve'
    BY <1>0, <1>16, <2>2, NamesQuiet DEF Reference
  <2> QED BY <1>3, <1>4, <2>1, <2>3 DEF Fresh
<1>17. CASE Dereference(t)
  <2>1. at'[t] # "publish"
    BY <1>5, <1>17 DEF Dereference, Goto, CallInv
  <2>2. pin[t] \in created /\ Handle0(pin[t]) \in Slots
    BY <1>5, <1>17 DEF Dereference, CallInv, TableInv
  <2>3. NamesResolve'
    BY <1>0, <1>17, <2>2, NamesRelease DEF Dereference
  <2> QED BY <1>3, <1>4, <2>1, <2>3 DEF Fresh
<1>18. ASSUME NEW o \in Objects, BeginDereference(t, o) PROVE at'[t] # "publish" /\ NamesResolve'
  <2>1. NamesResolve'
    BY <1>0, <1>18, NamesQuiet DEF BeginDereference
  <2>2. at[t] = "idle" /\ (UNCHANGED call \/ \E p : Goto(t, "dereferencing", p, NoSlot))
    BY <1>18 DEF BeginDereference, MayBegin
  <2> QED BY <1>5, <2>1, <2>2 DEF Goto, CallInv, call
<1>19. ASSUME NEW s \in Slots, Close(t, s) PROVE at'[t] # "publish" /\ NamesResolve'
  BY <1>0, <1>19, NamesRelease DEF Close, MayBegin, call
<1>20. ASSUME NEW s \in Slots, NEW k \in AllCalls, Lookup(t, s, k)
       PROVE  at'[t] # "publish" /\ NamesResolve'
  <2>1. NamesResolve'
    BY <1>0, <1>20, NamesQuiet DEF Lookup
  <2>2. k \in DOMAIN NextStage /\ at' = [at EXCEPT ![t] = NextStage[k]]
    BY <1>20 DEF Lookup, Goto
  <2> QED BY <1>5, <2>1, <2>2 DEF NextStage, CallInv
<1>21. at'[t] # "publish" => Fresh'
  BY <1>3 DEF Fresh
<1> QED BY <1>2, <1>4, <1>6, <1>7, <1>8, <1>9, <1>10, <1>11, <1>12, <1>13, <1>14, <1>15,
     <1>16, <1>17, <1>18, <1>19, <1>20, <1>21 DEF Step

LEMMA NamesAlways ==
  ASSUME MayRace = FALSE
  PROVE  Spec => []NamesInv
<1>1. Init => NamesInv
  BY DEF Init, NamesInv, Alone, Fresh, NamesResolve
<1>2. LifeInv /\ LifeInv' /\ NamesInv /\ [Next]_vars => NamesInv'
  <2>1. ASSUME LifeInv, LifeInv', NamesInv, UNCHANGED vars PROVE NamesInv'
    <3>1. NamesResolve => NamesResolve'
      BY <2>1 DEF vars, tables, objects, NamesResolve, Names, Handle0
    <3> QED BY <2>1, <3>1 DEF vars, tables, objects, call, NamesInv, Alone, Fresh, Names
  <2> QED BY <2>1, NamesStep
<1> QED BY <1>1, <1>2, LifeAlways, PTL DEF Spec

\* A mapped name leads to an open handle of a living object with that name, the
\* one GetObjectByName references, if calls on named objects do not overlap.
THEOREM NamesLeadToObjects ==
  ASSUME MayRace = FALSE
  PROVE  Spec => []NamesResolve
<1>1. NamesInv => NamesResolve
  BY DEF NamesInv, NamesResolve
<1> QED BY <1>1, NamesAlways, PTL

-----------------------------------------------------------------------------
(* What the guest owns *)

\* The reference to a handle that a thread will give back or pass on.
Claim(t) ==
    IF at[t] \in {"lookup", "unretain", "add", "close_source"} THEN arg[t]
    ELSE IF at[t] \in {"publish", "dereferencing"} THEN dispatch_handle[pin[t]]
    ELSE NoSlot

Claims(s) == {t \in Threads : Claim(t) = s}

\* The handle an object was created with is its only one.
SoleHandle(o) == handles_[o] = <<dispatch_handle[o]>> /\ o \notin purged

\* An object is referenced by pointer, or will be.
ByPointer(o) ==
    referenced[o] > 0 \/ \E t \in Threads : pin[t] = o /\ at[t] \in {"referencing", "dereferencing"}

\* The parts of the invariant.  The references to an open handle are those the guest
\* owes, those calls will give back, and those made by pointer:
Counted ==
    \A s \in Slots : Open(s) =>
        LET o == table[s].object IN
        /\ table[s].refs = owned[s] + Cardinality(Claims(s))
                             + (IF dispatch_handle[o] = s THEN referenced[o] ELSE 0)
        /\ table[s].refs >= 1

Claimed == \A t \in Threads : Claim(t) # NoSlot => Claim(t) \in Slots /\ Open(Claim(t))

\* references by pointer go to the first handle and come back to it:
Pointing ==
    /\ \A o \in Objects : ByPointer(o) => SoleHandle(o)
    /\ \A t \in Threads : at[t] = "referencing" =>
          arg[t] = dispatch_handle[pin[t]] /\ owned[arg[t]] > 0
    /\ \A t \in Threads : at[t] = "add" => ~ByPointer(pin[t])

\* a new object is its creator's alone until its handle is returned:
Publishing ==
    \A t \in Threads : at[t] = "publish" =>
        /\ SoleHandle(pin[t]) /\ owned[dispatch_handle[pin[t]]] = 0 /\ ~ByPointer(pin[t])
        /\ \A u \in Threads \ {t} : pin[u] # pin[t]

\* so is a handle that DUPLICATE_CLOSE_SOURCE will close:
Sources ==
    \A t \in Threads : at[t] \in {"add", "close_source"} /\ arg[t] # NoSlot =>
        /\ owned[arg[t]] = 0 /\ Claims(arg[t]) = {t} /\ ~ByPointer(table[arg[t]].object)
        /\ Names = {}

\* and one that was found by name is kept by the reference of the lookup.
ByName ==
    \A t \in Threads :
       /\ at[t] \in {"lookup", "unretain", "retain"} => Names # {}
       /\ at[t] \in {"lookup", "unretain"} => /\ table[arg[t]].refs >= 2
                                              /\ Handle0(table[arg[t]].object) = arg[t]
       /\ at[t] = "unretain" => table[arg[t]].object = pin[t]
       /\ at[t] = "retain" => table[Handle0(pin[t])].object = pin[t]

HandleInv ==
    /\ Counted /\ Claimed /\ Pointing /\ Publishing /\ Sources /\ ByName
    /\ Names = {} => \A s \in Slots : owned[s] <= 1
    /\ GuestHandlesStayOpen

LEMMA ClaimsAreNumbers ==
  ASSUME NEW s
  PROVE  /\ IsFiniteSet(Claims(s)) /\ Cardinality(Claims(s)) \in Nat
         /\ Cardinality(Claims(s)') \in Nat
<1>1. IsFiniteSet(Threads) /\ Claims(s) \subseteq Threads /\ Claims(s)' \subseteq Threads
  BY ObjectTableAssumption DEF Claims
<1> QED BY <1>1, FS_Subset, FS_CardinalityType

\* One thread's claim changes.
LEMMA ClaimsChange ==
  ASSUME NEW t \in Threads, \A u \in Threads \ {t} : Claim(u)' = Claim(u), NEW s
  PROVE  Cardinality(Claims(s))' = Cardinality(Claims(s))
            - (IF Claim(t) = s THEN 1 ELSE 0) + (IF Claim(t)' = s THEN 1 ELSE 0)
<1>1. Claims(s) \ {t} = Claims(s)' \ {t}
  BY DEF Claims
<1>2. (t \in Claims(s) <=> Claim(t) = s) /\ (t \in Claims(s)' <=> Claim(t)' = s)
  BY DEF Claims
<1> QED BY <1>1, <1>2, ClaimsAreNumbers, OneChanges

\* The claim of one thread counts.
LEMMA ClaimCounts ==
  ASSUME NEW t \in Threads, NEW s, Claim(t) = s
  PROVE  Cardinality(Claims(s)) >= 1
<1>1. Claims(s) # {}
  BY DEF Claims
<1> QED BY <1>1, ClaimsAreNumbers, FS_EmptySet

\* The only handle of an object is the only slot it is in.
LEMMA SoleSlot ==
  LifeInv => \A o \in Objects : SoleHandle(o) =>
      /\ dispatch_handle[o] \in Slots /\ table[dispatch_handle[o]].object = o
      /\ \A s \in Slots : table[s].object = o => s = dispatch_handle[o]
      /\ Handle0(o) = dispatch_handle[o]
<1> SUFFICES ASSUME LifeInv, NEW o \in Objects, SoleHandle(o)
             PROVE  /\ dispatch_handle[o] \in Slots /\ table[dispatch_handle[o]].object = o
                    /\ \A s \in Slots : table[s].object = o => s = dispatch_handle[o]
                    /\ Handle0(o) = dispatch_handle[o]
  OBVIOUS
<1>1. handles_[o] = <<dispatch_handle[o]>> /\ o \in Objects \ purged
  BY DEF SoleHandle
<1>2. ToSet(<<dispatch_handle[o]>>) = {dispatch_handle[o]}
  BY DEF ToSet
<1>3. ToSet(handles_[o]) = {s \in Slots : table[s].object = o}
  BY <1>1 DEF LifeInv, TableInv, HandlesAgree
<1>4. Handle0(o) = dispatch_handle[o]
  BY <1>1 DEF Handle0
<1> QED BY <1>1, <1>2, <1>3, <1>4

\* Nobody else is between the lookup of a name and its result.
LEMMA OthersDoNotName ==
  ASSUME LifeInv, NamesInv, HandleInv, MayRace = FALSE, NEW t \in Threads, Step(t)
  PROVE  \A u \in Threads \ {t} : /\ at[u] \notin {"lookup", "unretain", "retain"}
                                  /\ Names # {} => at[u] = "idle"
BY OthersIdle DEF NamesInv, HandleInv, ByName

\* A step of one thread's call that leaves objects and handles alone keeps the
\* invariant if the references stay counted, only f may be newly referenced by
\* pointer, and what it does fits the calls of the others.
LEMMA PointingKeeps ==
  ASSUME LifeInv, LifeInv', HandleInv, NEW t \in Threads, NEW w, NEW q, NEW a, NEW c, NEW f,
         at'[t] = w, pin'[t] = q, arg'[t] = a, Claim(t)' = c,
         \A u \in Threads \ {t} : /\ pin'[u] = pin[u] /\ at'[u] = at[u] /\ arg'[u] = arg[u]
                                  /\ at[u] \notin {"lookup", "unretain", "retain"},
         \A x \in Slots : table'[x].object = table[x].object,
         UNCHANGED <<handles_, stale, dispatch_handle, purged, NameOf>>,
         Counted', \A o \in Objects : ByPointer(o)' => ByPointer(o) \/ o = f,
         f \in Objects => SoleHandle(f) /\ w \notin {"add", "close_source"},
         \A u \in Threads \ {t} :
            /\ at[u] \in {"add", "publish"} => pin[u] # f
            /\ at[u] \in {"add", "close_source"} /\ arg[u] # NoSlot => table[arg[u]].object # f,
         c # NoSlot => c \in Slots /\ Open(c),
         w = "referencing" => a = dispatch_handle[q] /\ owned'[a] > 0,
         w = "add" => ~ByPointer(q), w # "publish",
         w \in {"add", "close_source"} /\ a # NoSlot =>
             /\ owned'[a] = 0 /\ Claims(a)' = {t} /\ ~ByPointer(table[a].object) /\ Names = {},
         w \in {"lookup", "unretain", "retain"} => Names # {},
         w \in {"lookup", "unretain"} =>
             a \in Slots /\ table'[a].refs >= 2 /\ Handle0(table[a].object) = a,
         w = "unretain" => table[a].object = q,
         w = "retain" => table[Handle0(q)].object = q,
         \A u \in Threads \ {t} :
            /\ at[u] = "referencing" => owned'[arg[u]] > 0
            /\ at[u] = "publish" => owned'[dispatch_handle[pin[u]]] = 0 /\ q # pin[u]
            /\ at[u] \in {"add", "close_source"} /\ arg[u] # NoSlot =>
                  owned'[arg[u]] = 0 /\ c # arg[u],
         Names = {} => \A s \in Slots : owned'[s] <= 1, GuestHandlesStayOpen'
  PROVE  HandleInv'
<1>1. \A u \in Threads \ {t} : Claim(u)' = Claim(u)
  BY DEF Claim
<1>2. \A x \in Slots : Open(x)' <=> Open(x)
  BY DEF Open
<1>3. \A o : SoleHandle(o)' <=> SoleHandle(o)
  BY DEF SoleHandle
<1>4. Names' = Names /\ \A o : Handle0(o)' = Handle0(o)
  BY DEF Names, Handle0
<1>5. \A u \in Threads : arg'[u] \in Slots \union {NoSlot} /\ pin'[u] \in Objects \union {NoObject}
  BY DEF LifeInv, CallInv
<1>6. ASSUME NEW u \in Threads \ {t}
      PROVE  /\ at[u] = "add" => pin[u] \in Objects
             /\ at[u] = "publish" => pin[u] \in Objects
             /\ at[u] = "referencing" => pin[u] \in Objects
             /\ at[u] \in {"add", "close_source"} /\ arg[u] # NoSlot =>
                   arg[u] \in Slots /\ Open(arg[u]) /\ table[arg[u]].object \in Objects
  <2>1. /\ at[u] \in {"add", "publish", "referencing"} => pin[u] \in Objects
        /\ arg[u] \in Slots \union {NoSlot}
    BY DEF LifeInv, CallInv
  <2>2. at[u] \in {"add", "close_source"} /\ arg[u] # NoSlot => Claim(u) = arg[u]
    BY DEF Claim
  <2> QED BY <2>1, <2>2 DEF HandleInv, Claimed, LifeInv, TableInv, Open
<1>7. Claimed'
  BY <1>1, <1>2 DEF HandleInv, Claimed
<1>8. Pointing'
  <2>1. \A o \in Objects : ByPointer(o)' => SoleHandle(o)'
    BY <1>3 DEF HandleInv, Pointing
  <2>2. \A u \in Threads : at'[u] = "referencing" =>
            arg'[u] = dispatch_handle'[pin'[u]] /\ owned'[arg'[u]] > 0
    BY DEF HandleInv, Pointing
  <2>3. ASSUME NEW u \in Threads, NEW p, p = pin'[u], at'[u] = "add" PROVE ~ByPointer(p)'
    <3>1. p \in Objects
      BY <2>3 DEF LifeInv, CallInv
    <3> QED BY <2>3, <3>1 DEF HandleInv, Pointing
  <2> QED BY <2>1, <2>2, <2>3 DEF Pointing
<1>9. Publishing'
  <2> SUFFICES ASSUME NEW u \in Threads, at'[u] = "publish", NEW p, p = pin'[u]
               PROVE  /\ SoleHandle(p)' /\ owned'[dispatch_handle'[p]] = 0 /\ ~ByPointer(p)'
                      /\ \A v \in Threads \ {u} : pin'[v] # p
    BY DEF Publishing
  <2>1. u # t /\ at[u] = "publish" /\ p = pin[u]
    OBVIOUS
  <2>2. p \in Objects /\ SoleHandle(p) /\ ~ByPointer(p) /\ \A v \in Threads \ {u} : pin[v] # p
    BY <1>6, <2>1 DEF HandleInv, Publishing
  <2> QED BY <1>3, <2>1, <2>2
<1>10. Sources'
  <2> SUFFICES ASSUME NEW u \in Threads, at'[u] \in {"add", "close_source"}, NEW b, b = arg'[u],
                      b # NoSlot, NEW o, o = table'[b].object
               PROVE  /\ owned'[b] = 0 /\ Claims(b)' = {u} /\ ~ByPointer(o)'
                      /\ Names' = {}
    BY DEF Sources
  <2>0. b \in Slots
    BY <1>5
  <2>1. CASE u = t
    <3>1. Claim(t)' = b
      BY <2>1 DEF Claim
    <3>2. o = table[b].object /\ o \in Objects
      BY <2>0, <2>1, <3>1 DEF Open, LifeInv, TableInv
    <3> QED BY <1>4, <2>1, <3>2
  <2>2. CASE u # t
    <3>1. at[u] \in {"add", "close_source"} /\ b = arg[u] /\ o = table[b].object /\ o \in Objects
      BY <1>6, <2>0, <2>2
    <3>2. Claims(b) = {u} /\ ~ByPointer(o) /\ Names = {}
      BY <2>2, <3>1 DEF HandleInv, Sources
    <3>3. Claims(b)' = {u}
      BY <1>1, <2>2, <3>1, <3>2 DEF Claims
    <3> QED BY <1>4, <2>2, <3>1, <3>2, <3>3
  <2> QED BY <2>1, <2>2
<1>11. ByName'
  <2> SUFFICES ASSUME NEW u \in Threads, at'[u] \in {"lookup", "unretain", "retain"},
                      NEW b, b = arg'[u], NEW p, p = pin'[u], NEW o, o = table'[b].object,
                      NEW h, h = Handle0(p)'
               PROVE  /\ Names' # {}
                      /\ at'[u] \in {"lookup", "unretain"} => table'[b].refs >= 2 /\ Handle0(o)' = b
                      /\ at'[u] = "unretain" => o = p
                      /\ at'[u] = "retain" => table'[h].object = p
    BY DEF ByName
  <2>1. u = t
    OBVIOUS
  <2>2. at'[u] \in {"lookup", "unretain"} => b \in Slots
    BY <2>1
  <2>3. at'[u] = "retain" => h \in Slots
    BY DEF LifeInv, CallInv, TableInv
  <2> QED BY <1>4, <2>1, <2>2, <2>3
<1> QED BY <1>4, <1>7, <1>8, <1>9, <1>10, <1>11 DEF HandleInv

\* The same when nobody's reference by pointer is new.
LEMMA QuietKeeps ==
  ASSUME LifeInv, LifeInv', HandleInv, NEW t \in Threads, NEW w, NEW q, NEW a, NEW c,
         at'[t] = w, pin'[t] = q, arg'[t] = a, Claim(t)' = c,
         \A u \in Threads \ {t} : /\ pin'[u] = pin[u] /\ at'[u] = at[u] /\ arg'[u] = arg[u]
                                  /\ at[u] \notin {"lookup", "unretain", "retain"},
         \A x \in Slots : table'[x].object = table[x].object,
         UNCHANGED <<handles_, stale, dispatch_handle, purged, NameOf>>,
         Counted', \A o \in Objects : ByPointer(o)' => ByPointer(o),
         c # NoSlot => c \in Slots /\ Open(c),
         w = "referencing" => a = dispatch_handle[q] /\ owned'[a] > 0,
         w = "add" => ~ByPointer(q), w # "publish",
         w \in {"add", "close_source"} /\ a # NoSlot =>
             /\ owned'[a] = 0 /\ Claims(a)' = {t} /\ ~ByPointer(table[a].object) /\ Names = {},
         w \in {"lookup", "unretain", "retain"} => Names # {},
         w \in {"lookup", "unretain"} =>
             a \in Slots /\ table'[a].refs >= 2 /\ Handle0(table[a].object) = a,
         w = "unretain" => table[a].object = q,
         w = "retain" => table[Handle0(q)].object = q,
         \A u \in Threads \ {t} :
            /\ at[u] = "referencing" => owned'[arg[u]] > 0
            /\ at[u] = "publish" => owned'[dispatch_handle[pin[u]]] = 0 /\ q # pin[u]
            /\ at[u] \in {"add", "close_source"} /\ arg[u] # NoSlot =>
                  owned'[arg[u]] = 0 /\ c # arg[u],
         Names = {} => \A s \in Slots : owned'[s] <= 1, GuestHandlesStayOpen'
  PROVE  HandleInv'
<1>1. NoObject \notin Objects
  BY ObjectTableAssumption
<1>2. \A u \in Threads \ {t} :
         /\ at[u] \in {"add", "publish"} => pin[u] # NoObject
         /\ at[u] \in {"add", "close_source"} /\ arg[u] # NoSlot => table[arg[u]].object # NoObject
  <2> SUFFICES ASSUME NEW u \in Threads \ {t}, at[u] \in {"add", "close_source"}, arg[u] # NoSlot
               PROVE  table[arg[u]].object # NoObject
    BY DEF LifeInv, CallInv
  <2>1. Claim(u) = arg[u]
    BY DEF Claim
  <2> QED BY <2>1 DEF HandleInv, Claimed, Open
<1> QED BY <1>1, <1>2, PointingKeeps

\* The count of a slot changes as the guest's references, a thread's claim, from b
\* to c, and the references by pointer do.
Accounted(s, o, b, c) ==
    /\ table'[s].refs = table[s].refs + (owned'[s] - owned[s])
           - (IF b = s THEN 1 ELSE 0) + (IF c = s THEN 1 ELSE 0)
           + (IF dispatch_handle[o] = s THEN referenced'[o] - referenced[o] ELSE 0)
    /\ table'[s].refs >= 1

\* Then the references stay counted.
LEMMA CountedStep ==
  ASSUME LifeInv, LifeInv', HandleInv, NEW t \in Threads, NEW b, NEW c,
         Claim(t) = b, Claim(t)' = c, \A u \in Threads \ {t} : Claim(u)' = Claim(u),
         \A x \in Slots : table'[x].object = table[x].object, dispatch_handle' = dispatch_handle,
         \A s \in Slots, o \in Objects : Open(s) /\ o = table[s].object => Accounted(s, o, b, c)
  PROVE  Counted'
<1> SUFFICES ASSUME NEW s \in Slots, Open(s)', NEW o, o = table'[s].object
             PROVE  /\ table'[s].refs = owned'[s] + Cardinality(Claims(s))'
                             + (IF dispatch_handle'[o] = s THEN referenced'[o] ELSE 0)
                    /\ table'[s].refs >= 1
  BY DEF Counted
<1>1. Open(s) /\ o = table[s].object /\ o \in Objects
  BY DEF Open, LifeInv, TableInv
<1>2. table[s].refs = owned[s] + Cardinality(Claims(s))
                             + (IF dispatch_handle[o] = s THEN referenced[o] ELSE 0)
  BY <1>1 DEF HandleInv, Counted
<1>3. Cardinality(Claims(s))' = Cardinality(Claims(s)) - (IF b = s THEN 1 ELSE 0) + (IF c = s THEN 1 ELSE 0)
  BY ClaimsChange
<1>4. /\ Cardinality(Claims(s)) \in Nat /\ owned[s] \in Nat /\ owned'[s] \in Nat
      /\ referenced[o] \in Nat /\ referenced'[o] \in Nat
  BY <1>1, ClaimsAreNumbers DEF LifeInv, GuestInv
<1>5. /\ table'[s].refs = table[s].refs + (owned'[s] - owned[s])
                    - (IF b = s THEN 1 ELSE 0) + (IF c = s THEN 1 ELSE 0)
                    + (IF dispatch_handle[o] = s THEN referenced'[o] - referenced[o] ELSE 0)
      /\ table'[s].refs >= 1
  BY <1>1 DEF Accounted
<1>6. CASE dispatch_handle[o] = s
  BY <1>2, <1>3, <1>4, <1>5, <1>6
<1>7. CASE dispatch_handle[o] # s
  BY <1>2, <1>3, <1>4, <1>5, <1>7
<1> QED BY <1>6, <1>7

\* The hypotheses of a step, and what the invariants say of the others.
Sound == LifeInv /\ NamesInv /\ HandleInv

LEMMA Others ==
  ASSUME Sound, MayRace = FALSE, NEW t \in Threads, Step(t)
  PROVE  \A u \in Threads \ {t} :
            /\ at[u] \notin {"lookup", "unretain", "retain"} /\ (Names # {} => at[u] = "idle")
            /\ at[u] = "referencing" => owned[arg[u]] > 0
            /\ at[u] = "publish" => owned[dispatch_handle[pin[u]]] = 0 /\ pin[t] # pin[u]
            /\ at[u] \in {"add", "close_source"} /\ arg[u] # NoSlot =>
                  owned[arg[u]] = 0 /\ Claim(t) # arg[u]
<1>1. ASSUME NEW u \in Threads \ {t}, at[u] \in {"add", "close_source"}, arg[u] # NoSlot
      PROVE  owned[arg[u]] = 0 /\ Claim(t) # arg[u]
  BY <1>1 DEF Sound, HandleInv, Sources, Claims
<1> QED BY <1>1, OthersDoNotName DEF Sound, HandleInv, Pointing, Publishing

LEMMA HandlesFindName ==
  ASSUME Sound, LifeInv', MayRace = FALSE, NEW t \in Threads, Step(t),
         NEW o \in Objects, FindName(t, o), NameOf' = NameOf
  PROVE  HandleInv'
<1> PICK s : s = Mapped(o)
  OBVIOUS
<1>1. /\ at[t] = "idle" /\ s # NoSlot
      /\ table' = [table EXCEPT ![Handle0(table[s].object)].refs = @ + 1]
      /\ at' = [at EXCEPT ![t] = "lookup"] /\ pin' = [pin EXCEPT ![t] = NoObject]
      /\ arg' = [arg EXCEPT ![t] = s]
      /\ UNCHANGED <<handles_, stale, dispatch_handle, purged, owned, owner, referenced>>
  BY DEF FindName, MayBegin, Goto, RetainHandle, objects, guest
<1>2. Names # {} /\ s \in Slots /\ Handle0(table[s].object) = s /\ table[s].object \in Objects
  <2> PICK n, p : n = NameOf[o] /\ p = table[s].object
    OBVIOUS
  <2>1. n \in Names /\ s = name_table_[n]
    BY <1>1 DEF Mapped, Names
  <2>2. NamesResolve
    BY <2>1 DEF Sound, NamesInv
  <2>3. Leads(n, s, p) /\ s \in Slots /\ p \in Objects
    BY <1>1, <2>1, <2>2, NameLed DEF Sound
  <2> QED BY <2>1, <2>3 DEF Leads
<1>3. /\ \A u \in Threads \ {t} : pin'[u] = pin[u] /\ at'[u] = at[u] /\ arg'[u] = arg[u] /\ at[u] = "idle"
      /\ at'[t] = "lookup" /\ pin'[t] = NoObject /\ arg'[t] = s /\ pin[t] = NoObject
  BY <1>1, <1>2, Others DEF Sound, LifeInv, CallInv
<1>4. /\ \A x \in Slots : table'[x].object = table[x].object
      /\ table'[s].refs = table[s].refs + 1
      /\ \A x \in Slots \ {s} : table'[x].refs = table[x].refs
      /\ \A x \in Slots : table[x].refs \in Int /\ owned[x] \in Nat
      /\ \A x \in Objects : referenced[x] \in Nat
      /\ Open(s) /\ NoSlot \notin Slots
  BY <1>1, <1>2, ObjectTableAssumption DEF Sound, LifeInv, TableInv, GuestInv, Slots, Open
<1>5. Claim(t) = NoSlot /\ Claim(t)' = s /\ \A u \in Threads \ {t} : Claim(u)' = Claim(u)
  BY <1>1, <1>3 DEF Claim
<1>6. \A x \in Slots : Open(x) => table[x].refs >= 1
  BY DEF Sound, HandleInv, Counted
<1>7. Counted'
  <2>1. ASSUME NEW x \in Slots, NEW p \in Objects, Open(x), p = table[x].object
        PROVE  Accounted(x, p, NoSlot, s)
    <3>1. p \in Objects
      BY DEF Open, Sound, LifeInv, TableInv
    <3> QED BY <2>1, <1>1, <1>4, <1>6, <3>1 DEF Accounted
  <2> QED BY <1>1, <1>4, <1>5, <2>1, CountedStep DEF Sound
<1>8. \A p \in Objects : ByPointer(p)' => ByPointer(p)
  BY <1>1, <1>3 DEF ByPointer
<1>9. GuestHandlesStayOpen' /\ (Names = {} => \A x \in Slots : owned'[x] <= 1)
  BY <1>1, <1>4 DEF Sound, HandleInv, GuestHandlesStayOpen, Open
<1>10. table'[s].refs >= 2
  BY <1>2, <1>4, <1>6
<1> QED BY <1>1, <1>2, <1>3, <1>4, <1>5, <1>7, <1>8, <1>9, <1>10, QuietKeeps DEF Sound

\* The ranges of the counts.
LEMMA Numbers ==
  ASSUME LifeInv
  PROVE  /\ \A x \in Slots : table[x].refs \in Int /\ owned[x] \in Nat
         /\ \A x \in Slots : Open(x) => table[x].object \in created /\ table[x].object \in Objects
         /\ \A x \in Objects : referenced[x] \in Nat
         /\ NoSlot \notin Slots /\ NoObject \notin Objects
BY ObjectTableAssumption DEF LifeInv, TableInv, GuestInv, Slots, Open

\* A handle the guest has is not one of an object whose creator has not returned.
LEMMA NotPublished ==
  ASSUME Sound, NEW s \in Slots, owned[s] > 0, NEW u \in Threads, at[u] = "publish"
  PROVE  table[s].object # pin[u]
<1>1. pin[u] \in Objects /\ SoleHandle(pin[u]) /\ owned[dispatch_handle[pin[u]]] = 0
  BY DEF Sound, HandleInv, Publishing, LifeInv, CallInv
<1> QED BY <1>1, SoleSlot DEF Sound

\* Goto leaves the other threads alone.
LEMMA OthersStay ==
  ASSUME LifeInv, NEW t \in Threads, NEW w, NEW q, NEW a, Goto(t, w, q, a)
  PROVE  /\ at'[t] = w /\ pin'[t] = q /\ arg'[t] = a
         /\ \A u \in Threads \ {t} : pin'[u] = pin[u] /\ at'[u] = at[u] /\ arg'[u] = arg[u]
         /\ dispatch_handle' = dispatch_handle => \A u \in Threads \ {t} : Claim(u)' = Claim(u)
<1>1. /\ at'[t] = w /\ pin'[t] = q /\ arg'[t] = a
      /\ \A u \in Threads \ {t} : pin'[u] = pin[u] /\ at'[u] = at[u] /\ arg'[u] = arg[u]
  BY DEF Goto, LifeInv, CallInv
<1> QED BY <1>1 DEF Claim

\* A step that only moves the thread on, with the same claim.
LEMMA MoveKeeps ==
  ASSUME Sound, LifeInv', MayRace = FALSE, NEW t \in Threads, Step(t),
         NEW w, NEW q, NEW a, Goto(t, w, q, a),
         UNCHANGED <<table, handles_, stale, dispatch_handle, purged, NameOf,
                     owned, owner, referenced>>,
         at[t] \in {"idle", "lookup", "using"}, Claim(t)' = Claim(t),
         w \in {"idle", "new", "unretain", "using", "add"},
         w = "unretain" => at[t] = "lookup" /\ a = arg[t] /\ q = table[a].object,
         w = "add" => a = NoSlot /\ q \in Objects /\ ~ByPointer(q),
         \A u \in Threads \ {t} : at[u] = "publish" => q # pin[u]
  PROVE  HandleInv'
<1>1. /\ at'[t] = w /\ pin'[t] = q /\ arg'[t] = a
      /\ \A u \in Threads \ {t} : pin'[u] = pin[u] /\ at'[u] = at[u] /\ arg'[u] = arg[u]
      /\ \A u \in Threads \ {t} : Claim(u)' = Claim(u)
  BY OthersStay DEF Sound
<1> PICK c : c = Claim(t)
  OBVIOUS
<1>2. /\ c # NoSlot => c \in Slots /\ Open(c)
      /\ \A x \in Slots : Open(x) => table[x].refs >= 1
  BY DEF Sound, HandleInv, Claimed, Counted
<1>3. Counted'
  <2>1. ASSUME NEW x \in Slots, NEW p \in Objects, Open(x), p = table[x].object
        PROVE  Accounted(x, p, c, c)
    BY <2>1, <1>2, Numbers DEF Accounted, Sound
  <2> QED BY <1>1, <2>1, CountedStep DEF Sound
<1>4. \A p \in Objects : ByPointer(p)' => ByPointer(p)
  BY <1>1 DEF ByPointer
<1>5. GuestHandlesStayOpen' /\ (Names = {} => \A x \in Slots : owned'[x] <= 1)
  BY DEF Sound, HandleInv, GuestHandlesStayOpen, Open
<1>6. w = "unretain" => a \in Slots /\ table'[a].refs >= 2 /\ Handle0(table[a].object) = a /\ Names # {}
  BY DEF Sound, HandleInv, ByName, LifeInv, CallInv
<1>7. \A u \in Threads \ {t} :
            /\ at[u] \notin {"lookup", "unretain", "retain"}
            /\ at[u] = "referencing" => owned'[arg[u]] > 0
            /\ at[u] = "publish" => owned'[dispatch_handle[pin[u]]] = 0 /\ q # pin[u]
            /\ at[u] \in {"add", "close_source"} /\ arg[u] # NoSlot =>
                  owned'[arg[u]] = 0 /\ c # arg[u]
  BY Others
<1> QED BY <1>1, <1>2, <1>3, <1>4, <1>5, <1>6, <1>7, QuietKeeps DEF Sound

LEMMA HandlesMove ==
  ASSUME Sound, LifeInv', MayRace = FALSE, MayMix = FALSE, NEW t \in Threads, Step(t),
         NameOf' = NameOf,
         \/ \E o \in Objects : NameNotFound(t, o)
         \/ LookupNamed(t) \/ Used(t)
         \/ \E s \in Slots : Lookup(t, s, "use") \/ Lookup(t, s, "duplicate")
  PROVE  HandleInv'
<1> USE DEF tables, objects, guest
<1>1. ASSUME NEW o \in Objects, NameNotFound(t, o) PROVE HandleInv'
  <2>1. /\ at[t] = "idle" /\ Goto(t, "new", o, NoSlot) /\ \A u \in Threads : pin[u] # o
        /\ UNCHANGED <<tables, objects, guest>>
    BY <1>1 DEF NameNotFound, MayBegin
  <2>2. Claim(t)' = Claim(t)
    BY <2>1, OthersStay DEF Claim, Sound
  <2> QED BY <2>1, <2>2, MoveKeeps
<1>2. CASE LookupNamed(t)
  <2> PICK o, a : a = arg[t] /\ o = table[a].object
    OBVIOUS
  <2>1. /\ at[t] = "lookup" /\ Goto(t, "unretain", o, a)
        /\ UNCHANGED <<tables, handles_, stale, dispatch_handle, guest>>
    BY <1>2 DEF LookupNamed
  <2>2. Claim(t)' = Claim(t)
    BY <2>1, OthersStay DEF Claim, Sound
  <2>3. \A u \in Threads \ {t} : at[u] # "publish"
    <3>1. Names # {}
      BY <2>1 DEF Sound, HandleInv, ByName
    <3> QED BY <3>1, Others
  <2> QED BY <2>1, <2>2, <2>3, MoveKeeps
<1>3. CASE Used(t)
  <2>1. /\ at[t] = "using" /\ Goto(t, "idle", NoObject, NoSlot)
        /\ UNCHANGED <<tables, handles_, stale, dispatch_handle, guest>>
    BY <1>3 DEF Used, Return
  <2>2. Claim(t)' = Claim(t)
    BY <2>1, OthersStay DEF Claim, Sound
  <2>3. \A u \in Threads \ {t} : at[u] = "publish" => NoObject # pin[u]
    BY DEF Sound, LifeInv, CallInv
  <2> QED BY <2>1, <2>2, <2>3, MoveKeeps
<1>4. ASSUME NEW s \in Slots, Lookup(t, s, "use") PROVE HandleInv'
  <2> PICK o : o = table[s].object
    OBVIOUS
  <2>1. /\ at[t] = "idle" /\ Goto(t, "using", o, s) /\ owned[s] > 0
        /\ UNCHANGED <<tables, handles_, stale, dispatch_handle, guest>>
    BY <1>4 DEF Lookup, MayBegin, NextStage
  <2>2. Claim(t)' = Claim(t)
    BY <2>1, OthersStay DEF Claim, Sound
  <2> QED BY <2>1, <2>2, NotPublished, MoveKeeps
<1>5. ASSUME NEW s \in Slots, Lookup(t, s, "duplicate") PROVE HandleInv'
  <2> PICK o : o = table[s].object
    OBVIOUS
  <2>1. /\ at[t] = "idle" /\ Goto(t, "add", o, NoSlot) /\ owned[s] > 0 /\ o # NoObject
        /\ UNCHANGED <<tables, handles_, stale, dispatch_handle, guest>>
        /\ Unmixed(o, "duplicate")
    BY <1>5 DEF Lookup, MayBegin, NextStage
  <2>2. Claim(t)' = Claim(t)
    BY <2>1, OthersStay DEF Claim, Sound
  <2>3. o \in Objects /\ ~ByPointer(o)
    BY <2>1, Numbers DEF Unmixed, ByPointer, Sound, LifeInv, TableInv
  <2> QED BY <2>1, <2>2, <2>3, NotPublished, MoveKeeps
<1> QED BY <1>1, <1>2, <1>3, <1>4, <1>5

\* A found object's handle: the lookup gave back its own reference to it.
LEMMA HandlesReturnExisting ==
  ASSUME Sound, LifeInv', MayRace = FALSE, NEW t \in Threads, Step(t), NameOf' = NameOf,
         ReturnExisting(t)
  PROVE  HandleInv'
<1> PICK p, h : p = pin[t] /\ h = Handle0(p)
  OBVIOUS
<1>1. /\ at[t] = "retain" /\ Goto(t, "idle", NoObject, NoSlot)
      /\ table' = [table EXCEPT ![h].refs = @ + 1]
      /\ owned' = [owned EXCEPT ![h] = @ + 1] /\ owner' = [owner EXCEPT ![h] = p]
      /\ UNCHANGED <<handles_, stale, dispatch_handle, purged, referenced>>
  BY DEF ReturnExisting, RetainHandle, Give, Return
<1>2. Names # {} /\ p \in Objects /\ h \in Slots /\ table[h].object = p /\ Open(h)
  BY <1>1, Numbers DEF Sound, HandleInv, ByName, LifeInv, CallInv, TableInv, Open
<1>3. /\ at'[t] = "idle" /\ pin'[t] = NoObject /\ arg'[t] = NoSlot
      /\ \A u \in Threads \ {t} : pin'[u] = pin[u] /\ at'[u] = at[u] /\ arg'[u] = arg[u]
      /\ \A u \in Threads \ {t} : Claim(u)' = Claim(u) /\ at[u] = "idle"
      /\ Claim(t) = NoSlot /\ Claim(t)' = NoSlot
  <2>1. /\ at'[t] = "idle" /\ pin'[t] = NoObject /\ arg'[t] = NoSlot
        /\ \A u \in Threads \ {t} : pin'[u] = pin[u] /\ at'[u] = at[u] /\ arg'[u] = arg[u]
        /\ \A u \in Threads \ {t} : Claim(u)' = Claim(u)
    BY <1>1, OthersStay DEF Sound
  <2>2. \A u \in Threads \ {t} : at[u] = "idle"
    BY <1>2, Others
  <2>3. Claim(t) = NoSlot /\ Claim(t)' = NoSlot
    BY <1>1, <2>1 DEF Claim
  <2> QED BY <2>1, <2>2, <2>3
<1>4. /\ \A x \in Slots : table'[x].object = table[x].object
      /\ table'[h].refs = table[h].refs + 1 /\ owned'[h] = owned[h] + 1
      /\ \A x \in Slots \ {h} : table'[x].refs = table[x].refs /\ owned'[x] = owned[x]
      /\ \A x \in Slots \ {h} : owner'[x] = owner[x]
      /\ owner'[h] = p
  BY <1>1, <1>2 DEF Sound, LifeInv, TableInv, GuestInv
<1>5. \A x \in Slots : Open(x) => table[x].refs >= 1
  BY DEF Sound, HandleInv, Counted
<1>6. Counted'
  <2>1. ASSUME NEW x \in Slots, NEW o \in Objects, Open(x), o = table[x].object
        PROVE  Accounted(x, o, NoSlot, NoSlot)
    BY <2>1, <1>1, <1>4, <1>5, Numbers DEF Accounted, Sound
  <2> QED BY <1>1, <1>3, <1>4, <2>1, CountedStep DEF Sound
<1>7. \A o \in Objects : ByPointer(o)' => ByPointer(o)
  BY <1>1, <1>3 DEF ByPointer
<1>8. GuestHandlesStayOpen'
  BY <1>2, <1>4 DEF Sound, HandleInv, GuestHandlesStayOpen, Open
<1> QED BY <1>1, <1>2, <1>3, <1>4, <1>6, <1>7, <1>8, QuietKeeps DEF Sound

\* A new object's handle is returned: the creator's claim becomes the guest's.
LEMMA HandlesPublish ==
  ASSUME Sound, LifeInv', MayRace = FALSE, NEW t \in Threads, Step(t), NameOf' = NameOf,
         Publish(t)
  PROVE  HandleInv'
<1> PICK p, d : p = pin[t] /\ d = dispatch_handle[p]
  OBVIOUS
<1>1. p \in Objects /\ SoleHandle(p) /\ owned[d] = 0 /\ at[t] = "publish"
  BY DEF Publish, Sound, HandleInv, Publishing, LifeInv, CallInv
<1>2. d \in Slots /\ table[d].object = p /\ Handle0(p) = d /\ Open(d)
  BY <1>1, SoleSlot, Numbers DEF Sound, Open
<1>3. /\ Goto(t, "idle", NoObject, NoSlot)
      /\ owned' = [owned EXCEPT ![d] = @ + 1] /\ owner' = [owner EXCEPT ![d] = p]
      /\ UNCHANGED <<table, handles_, stale, dispatch_handle, purged, referenced>>
  BY <1>2 DEF Publish, Give, Return, tables
<1>4. /\ at'[t] = "idle" /\ pin'[t] = NoObject /\ arg'[t] = NoSlot
      /\ \A u \in Threads \ {t} : pin'[u] = pin[u] /\ at'[u] = at[u] /\ arg'[u] = arg[u]
      /\ \A u \in Threads \ {t} : Claim(u)' = Claim(u)
      /\ Claim(t) = d /\ Claim(t)' = NoSlot
  BY <1>1, <1>3, OthersStay DEF Sound, Claim
<1>5. /\ owned'[d] = 1 /\ owner'[d] = p
      /\ \A x \in Slots \ {d} : owned'[x] = owned[x] /\ owner'[x] = owner[x]
  BY <1>1, <1>2, <1>3 DEF Sound, LifeInv, GuestInv
<1>6. \A x \in Slots : Open(x) => table[x].refs >= 1
  BY DEF Sound, HandleInv, Counted
<1>7. Counted'
  <2>1. ASSUME NEW x \in Slots, NEW o \in Objects, Open(x), o = table[x].object
        PROVE  Accounted(x, o, d, NoSlot)
    BY <2>1, <1>1, <1>3, <1>5, <1>6, Numbers DEF Accounted, Sound
  <2> QED BY <1>3, <1>4, <2>1, CountedStep DEF Sound
<1>8. \A o \in Objects : ByPointer(o)' => ByPointer(o)
  BY <1>1, <1>3, <1>4 DEF ByPointer
<1>9. GuestHandlesStayOpen' /\ (Names = {} => \A x \in Slots : owned'[x] <= 1)
  BY <1>2, <1>3, <1>5 DEF Sound, HandleInv, GuestHandlesStayOpen, Open
<1>10. ASSUME NEW u \in Threads \ {t}
       PROVE  /\ at[u] \notin {"lookup", "unretain", "retain"}
              /\ at[u] = "referencing" => owned'[arg[u]] > 0
              /\ at[u] = "publish" => owned'[dispatch_handle[pin[u]]] = 0 /\ NoObject # pin[u]
              /\ at[u] \in {"add", "close_source"} /\ arg[u] # NoSlot =>
                    owned'[arg[u]] = 0 /\ NoSlot # arg[u]
  <2>1. at[u] = "publish" => /\ dispatch_handle[pin[u]] \in Slots /\ pin[u] \in Objects
                             /\ table[dispatch_handle[pin[u]]].object = pin[u] /\ pin[u] # p
    BY SoleSlot, Others DEF Sound, HandleInv, Publishing, LifeInv, CallInv
  <2>2. at[u] \in {"add", "close_source"} /\ arg[u] # NoSlot => arg[u] \in Slots /\ d # arg[u]
    <3>1. at[u] \in {"add", "close_source"} /\ arg[u] # NoSlot => d # arg[u]
      BY <1>4, Others
    <3> QED BY <3>1 DEF Sound, LifeInv, CallInv
  <2>3. at[u] = "referencing" => arg[u] \in Slots
    <3>1. at[u] = "referencing" => pin[u] \in Objects /\ ByPointer(pin[u])
      BY DEF ByPointer, Sound, LifeInv, CallInv
    <3> QED BY <3>1, SoleSlot DEF Sound, HandleInv, Pointing
  <2>4. /\ at[u] \notin {"lookup", "unretain", "retain"}
        /\ at[u] = "referencing" => owned[arg[u]] > 0
        /\ at[u] = "publish" => owned[dispatch_handle[pin[u]]] = 0
        /\ at[u] \in {"add", "close_source"} /\ arg[u] # NoSlot => owned[arg[u]] = 0
    BY Others
  <2>5. at[u] = "referencing" => owned'[arg[u]] > 0
    <3>1. CASE arg[u] = d
      BY <1>5, <3>1
    <3>2. CASE arg[u] # d
      BY <1>5, <2>3, <2>4, <3>2
    <3> QED BY <3>1, <3>2
  <2>6. at[u] = "publish" => owned'[dispatch_handle[pin[u]]] = 0 /\ NoObject # pin[u]
    BY <1>2, <1>5, <2>1, <2>4, Numbers DEF Sound
  <2> QED BY <1>5, <2>2, <2>4, <2>5, <2>6, Numbers DEF Sound
<1> QED BY <1>3, <1>4, <1>7, <1>8, <1>9, <1>10, QuietKeeps DEF Sound

\* DUPLICATE_CLOSE_SOURCE takes the guest's reference to the source.
LEMMA HandlesCloseLater ==
  ASSUME Sound, LifeInv', MayRace = FALSE, MayMix = FALSE, NEW t \in Threads, Step(t),
         NameOf' = NameOf, NEW s \in Slots, Lookup(t, s, "duplicate_close")
  PROVE  HandleInv'
<1> PICK o : o = table[s].object
  OBVIOUS
<1>1. /\ at[t] = "idle" /\ Goto(t, "add", o, s) /\ owned[s] > 0 /\ o # NoObject
      /\ owned' = [owned EXCEPT ![s] = @ - 1]
      /\ UNCHANGED <<table, handles_, stale, dispatch_handle, purged, owner, referenced>>
      /\ Unmixed(o, "duplicate_close") /\ "duplicate_close" \in Kinds
  BY DEF Lookup, MayBegin, NextStage, tables
<1>2. /\ Names = {} /\ o \in Objects /\ Open(s) /\ ~ByPointer(o)
      /\ owned[s] = 1
  <2>1. Names = {}
    BY <1>1 DEF Kinds
  <2>2. o \in Objects /\ Open(s) /\ ~ByPointer(o)
    BY <1>1, Numbers DEF Unmixed, ByPointer, Sound, LifeInv, TableInv, Open
  <2>3. owned[s] <= 1 /\ owned[s] \in Nat
    BY <2>1, Numbers DEF Sound, HandleInv
  <2> QED BY <1>1, <2>1, <2>2, <2>3
<1>3. /\ at'[t] = "add" /\ pin'[t] = o /\ arg'[t] = s
      /\ \A u \in Threads \ {t} : pin'[u] = pin[u] /\ at'[u] = at[u] /\ arg'[u] = arg[u]
      /\ \A u \in Threads \ {t} : Claim(u)' = Claim(u)
      /\ Claim(t) = NoSlot /\ Claim(t)' = s
  BY <1>1, OthersStay DEF Sound, Claim
<1>4. /\ owned'[s] = 0 /\ \A x \in Slots \ {s} : owned'[x] = owned[x]
      /\ \A x \in Slots : owned'[x] <= owned[x] /\ owned'[x] \in Nat
  BY <1>1, <1>2, Numbers DEF Sound, LifeInv, GuestInv
<1>5. \A u \in Threads : ByPointer(pin[u]) => pin[u] # o
  BY <1>2
<1>6. \A u \in Threads : at[u] \in {"referencing", "dereferencing"} =>
          /\ pin[u] \in Objects /\ dispatch_handle[pin[u]] \in Slots
          /\ dispatch_handle[pin[u]] # s
  <2> SUFFICES ASSUME NEW u \in Threads, at[u] \in {"referencing", "dereferencing"},
                      NEW p, p = pin[u]
               PROVE  p \in Objects /\ dispatch_handle[p] \in Slots /\ dispatch_handle[p] # s
    OBVIOUS
  <2>1. p \in Objects
    BY DEF Sound, LifeInv, CallInv
  <2>2. ByPointer(p) /\ p # o
    BY <1>5 DEF ByPointer
  <2>3. SoleHandle(p)
    BY <2>1, <2>2 DEF Sound, HandleInv, Pointing
  <2> QED BY <2>1, <2>2, <2>3, SoleSlot DEF Sound
<1>7. Claims(s)' = {t}
  <2>1. ASSUME NEW u \in Threads PROVE Claim(u) # s
    <3>1. at[u] \notin {"lookup", "unretain"}
      BY <1>2 DEF Sound, HandleInv, ByName
    <3>2. at[u] \in {"add", "close_source"} => arg[u] # s
      BY <1>2, Numbers DEF Sound, HandleInv, Sources
    <3>3. at[u] = "publish" => dispatch_handle[pin[u]] # s
      BY <1>2 DEF Sound, HandleInv, Publishing
    <3>4. s # NoSlot
      BY Numbers DEF Sound
    <3> QED BY <1>6, <3>1, <3>2, <3>3, <3>4 DEF Claim
  <2> QED BY <1>3, <2>1 DEF Claims
<1>8. \A x \in Slots : Open(x) => table[x].refs >= 1
  BY DEF Sound, HandleInv, Counted
<1>9. Counted'
  <2>1. ASSUME NEW x \in Slots, NEW p \in Objects, Open(x), p = table[x].object
        PROVE  Accounted(x, p, NoSlot, s)
    BY <2>1, <1>1, <1>2, <1>4, <1>8, Numbers DEF Accounted, Sound
  <2> QED BY <1>1, <1>3, <2>1, CountedStep DEF Sound
<1>10. \A p \in Objects : ByPointer(p)' => ByPointer(p)
  BY <1>1, <1>3 DEF ByPointer
<1>11. GuestHandlesStayOpen' /\ (Names = {} => \A x \in Slots : owned'[x] <= 1)
  <2>1. \A x \in Slots : owned'[x] > 0 => owned[x] > 0
    BY <1>4, Numbers DEF Sound
  <2>2. \A x \in Slots : Names = {} => owned'[x] <= 1
    BY <1>4, Numbers DEF Sound, HandleInv
  <2> QED BY <1>1, <2>1, <2>2 DEF Sound, HandleInv, GuestHandlesStayOpen, Open
<1>12. ASSUME NEW u \in Threads \ {t}
       PROVE  /\ at[u] \notin {"lookup", "unretain", "retain"}
              /\ at[u] = "referencing" => owned'[arg[u]] > 0
              /\ at[u] = "publish" => owned'[dispatch_handle[pin[u]]] = 0 /\ o # pin[u]
              /\ at[u] \in {"add", "close_source"} /\ arg[u] # NoSlot =>
                    owned'[arg[u]] = 0 /\ s # arg[u]
  <2>1. /\ at[u] \notin {"lookup", "unretain", "retain"}
        /\ at[u] = "referencing" => owned[arg[u]] > 0
        /\ at[u] = "publish" => owned[dispatch_handle[pin[u]]] = 0
        /\ at[u] \in {"add", "close_source"} /\ arg[u] # NoSlot => owned[arg[u]] = 0
    BY Others
  <2>2. at[u] = "referencing" => arg[u] \in Slots \ {s}
    BY <1>6 DEF Sound, HandleInv, Pointing
  <2>3. at[u] = "publish" => dispatch_handle[pin[u]] \in Slots \ {s}
    <3>1. at[u] = "publish" => SoleHandle(pin[u]) /\ pin[u] \in Objects
      BY DEF Sound, HandleInv, Publishing, LifeInv, CallInv
    <3> QED BY <1>2, <2>1, <3>1, SoleSlot DEF Sound
  <2>4. at[u] \in {"add", "close_source"} /\ arg[u] # NoSlot => arg[u] \in Slots \ {s}
    BY <1>2, <2>1 DEF Sound, LifeInv, CallInv
  <2>5. at[u] = "publish" => o # pin[u]
    BY <1>1, NotPublished
  <2> QED BY <1>4, <2>1, <2>2, <2>3, <2>4, <2>5
<1> QED BY <1>1, <1>2, <1>3, <1>4, <1>7, <1>9, <1>10, <1>11, <1>12, Numbers, QuietKeeps DEF Sound

\* An object is found that will be referenced by pointer: the handle is its only one.
LEMMA HandlesReferenceLater ==
  ASSUME Sound, LifeInv', MayRace = FALSE, MayMix = FALSE, NEW t \in Threads, Step(t),
         NameOf' = NameOf, NEW s \in Slots, Lookup(t, s, "reference")
  PROVE  HandleInv'
<1> PICK o : o = table[s].object
  OBVIOUS
<1>1. /\ at[t] = "idle" /\ Goto(t, "referencing", o, s) /\ owned[s] > 0 /\ o # NoObject
      /\ UNCHANGED <<table, handles_, stale, dispatch_handle, purged, owned, owner, referenced>>
      /\ Unmixed(o, "reference")
  BY DEF Lookup, MayBegin, NextStage, tables, guest
<1>2. /\ o \in Objects /\ SoleHandle(o) /\ s = dispatch_handle[o]
      /\ \A x \in Slots : table[x].object = o => x = s
      /\ \A u \in Threads : at[u] = "add" => pin[u] # o
  <2>1. o \in Objects /\ o \notin purged
    BY <1>1, Numbers DEF Sound, LifeInv, OutOfReach, Open
  <2>2. SoleHandle(o) /\ \A u \in Threads : at[u] = "add" => pin[u] # o
    BY <1>1, <2>1 DEF Unmixed, SoleHandle
  <2> QED BY <2>1, <2>2, SoleSlot DEF Sound
<1>3. /\ at'[t] = "referencing" /\ pin'[t] = o /\ arg'[t] = s
      /\ \A u \in Threads \ {t} : pin'[u] = pin[u] /\ at'[u] = at[u] /\ arg'[u] = arg[u]
      /\ \A u \in Threads \ {t} : Claim(u)' = Claim(u)
      /\ Claim(t) = NoSlot /\ Claim(t)' = NoSlot
  BY <1>1, OthersStay DEF Sound, Claim
<1>4. \A x \in Slots : Open(x) => table[x].refs >= 1
  BY DEF Sound, HandleInv, Counted
<1>5. Counted'
  <2>1. ASSUME NEW x \in Slots, NEW z \in Objects, Open(x), z = table[x].object
        PROVE  Accounted(x, z, NoSlot, NoSlot)
    <3>1. table[x].refs >= 1 /\ table[x].refs \in Int /\ owned[x] \in Nat
          /\ NoSlot # x /\ referenced[z] \in Nat
      BY <2>1, <1>1, <1>4, Numbers DEF Sound
    <3> QED BY <2>1, <1>1, <1>4, <3>1 DEF Accounted
  <2> QED BY <1>1, <1>3, <2>1, CountedStep DEF Sound
<1>6. \A p \in Objects : ByPointer(p)' => ByPointer(p) \/ p = o
  BY <1>1, <1>3 DEF ByPointer
<1>7. GuestHandlesStayOpen' /\ (Names = {} => \A x \in Slots : owned'[x] <= 1)
  BY <1>1 DEF Sound, HandleInv, GuestHandlesStayOpen, Open
<1>8. ASSUME NEW u \in Threads \ {t}
      PROVE  /\ at[u] \in {"add", "publish"} => pin[u] # o
             /\ at[u] \in {"add", "close_source"} /\ arg[u] # NoSlot => table[arg[u]].object # o
             /\ at[u] \notin {"lookup", "unretain", "retain"}
             /\ at[u] = "referencing" => owned'[arg[u]] > 0
             /\ at[u] = "publish" => owned'[dispatch_handle[pin[u]]] = 0 /\ o # pin[u]
             /\ at[u] \in {"add", "close_source"} /\ arg[u] # NoSlot =>
                   owned'[arg[u]] = 0 /\ NoSlot # arg[u]
  <2>1. /\ at[u] \notin {"lookup", "unretain", "retain"}
        /\ at[u] = "referencing" => owned[arg[u]] > 0
        /\ at[u] = "publish" => owned[dispatch_handle[pin[u]]] = 0
        /\ at[u] \in {"add", "close_source"} /\ arg[u] # NoSlot => owned[arg[u]] = 0
    BY Others
  <2>2. at[u] = "publish" => o # pin[u]
    BY <1>1, NotPublished
  <2>3. at[u] \in {"add", "close_source"} /\ arg[u] # NoSlot => arg[u] \in Slots /\ arg[u] # s
    BY <1>1, <2>1 DEF Sound, LifeInv, CallInv
  <2> QED BY <1>1, <1>2, <2>1, <2>2, <2>3
<1> QED BY <1>1, <1>2, <1>3, <1>5, <1>6, <1>7, <1>8, PointingKeeps DEF Sound

\* Who refers to an object by pointer refers to the handle it was created with.
LEMMA Referred ==
  ASSUME Sound, NEW p \in Objects, ByPointer(p)
  PROVE  /\ dispatch_handle[p] \in Slots /\ Open(dispatch_handle[p])
         /\ table[dispatch_handle[p]].object = p /\ Handle0(p) = dispatch_handle[p]
         /\ \A x \in Slots : table[x].object = p => x = dispatch_handle[p]
<1>1. SoleHandle(p)
  BY DEF Sound, HandleInv, Pointing
<1> QED BY <1>1, SoleSlot, Numbers DEF Sound, Open

\* ObReferenceObjectByHandle counts in the slot what the guest has.
LEMMA HandlesReference ==
  ASSUME Sound, LifeInv', MayRace = FALSE, NEW t \in Threads, Step(t), NameOf' = NameOf,
         Reference(t)
  PROVE  HandleInv'
<1> PICK p, d : p = pin[t] /\ d = dispatch_handle[p]
  OBVIOUS
<1>1. at[t] = "referencing" /\ p \in Objects /\ ByPointer(p)
  BY DEF Reference, Sound, LifeInv, CallInv, ByPointer
<1>2. /\ d \in Slots /\ table[d].object = p /\ Handle0(p) = d /\ Open(d)
      /\ \A x \in Slots : table[x].object = p => x = d
  BY <1>1, Referred
<1>3. /\ Goto(t, "idle", NoObject, NoSlot)
      /\ table' = [table EXCEPT ![d].refs = @ + 1]
      /\ referenced' = [referenced EXCEPT ![p] = @ + 1]
      /\ UNCHANGED <<handles_, stale, dispatch_handle, purged, owned, owner>>
  BY <1>2 DEF Reference, Return, RetainHandle
<1>4. /\ at'[t] = "idle" /\ pin'[t] = NoObject /\ arg'[t] = NoSlot
      /\ \A u \in Threads \ {t} : pin'[u] = pin[u] /\ at'[u] = at[u] /\ arg'[u] = arg[u]
      /\ \A u \in Threads \ {t} : Claim(u)' = Claim(u)
      /\ Claim(t) = NoSlot /\ Claim(t)' = NoSlot
  BY <1>1, <1>3, OthersStay DEF Sound, Claim
<1>5. /\ \A x \in Slots : table'[x].object = table[x].object
      /\ table'[d].refs = table[d].refs + 1 /\ referenced'[p] = referenced[p] + 1
      /\ \A x \in Slots \ {d} : table'[x].refs = table[x].refs
      /\ \A z \in Objects \ {p} : referenced'[z] = referenced[z]
  BY <1>1, <1>2, <1>3 DEF Sound, LifeInv, TableInv, GuestInv
<1>6. \A x \in Slots : Open(x) => table[x].refs >= 1
  BY DEF Sound, HandleInv, Counted
<1>7. Counted'
  <2>1. ASSUME NEW x \in Slots, NEW z \in Objects, Open(x), z = table[x].object
        PROVE  Accounted(x, z, NoSlot, NoSlot)
    <3>1. table[x].refs >= 1 /\ table[x].refs \in Int /\ owned[x] \in Nat
          /\ NoSlot # x /\ referenced[z] \in Nat
      BY <2>1, <1>1, <1>2, <1>3, <1>5, <1>6, Numbers DEF Sound
    <3> QED BY <2>1, <1>1, <1>2, <1>3, <1>5, <1>6, <3>1 DEF Accounted
  <2> QED BY <1>3, <1>4, <1>5, <2>1, CountedStep DEF Sound
<1>8. \A z \in Objects : ByPointer(z)' => ByPointer(z)
  <2> SUFFICES ASSUME NEW z \in Objects, z # p, ByPointer(z)' PROVE ByPointer(z)
    BY <1>1
  <2>1. referenced'[z] = referenced[z]
    BY <1>5
  <2> QED BY <1>4, <2>1 DEF ByPointer
<1>9. GuestHandlesStayOpen' /\ (Names = {} => \A x \in Slots : owned'[x] <= 1)
  BY <1>3, <1>5 DEF Sound, HandleInv, GuestHandlesStayOpen, Open
<1>10. ASSUME NEW u \in Threads \ {t}
       PROVE  /\ at[u] \notin {"lookup", "unretain", "retain"}
              /\ at[u] = "referencing" => owned'[arg[u]] > 0
              /\ at[u] = "publish" => owned'[dispatch_handle[pin[u]]] = 0 /\ NoObject # pin[u]
              /\ at[u] \in {"add", "close_source"} /\ arg[u] # NoSlot =>
                    owned'[arg[u]] = 0 /\ NoSlot # arg[u]
  BY <1>3, Others DEF Sound, LifeInv, CallInv
<1> QED BY <1>3, <1>4, <1>5, <1>7, <1>8, <1>9, <1>10, QuietKeeps DEF Sound

\* ObDereferenceObject finds the object in the slot of that handle.
LEMMA HandlesBeginDereference ==
  ASSUME Sound, LifeInv', MayRace = FALSE, NEW t \in Threads, Step(t), NameOf' = NameOf,
         NEW p \in Objects, BeginDereference(t, p)
  PROVE  HandleInv'
<1> PICK d : d = dispatch_handle[p]
  OBVIOUS
<1>1. at[t] = "idle" /\ ByPointer(p) /\ referenced[p] > 0
  BY DEF BeginDereference, MayBegin, ByPointer
<1>2. /\ d \in Slots /\ table[d].object = p /\ Open(d) /\ p # NoObject
      /\ \A x \in Slots : table[x].object = p => x = d
  BY <1>1, Referred, Numbers DEF Sound
<1>3. /\ Goto(t, "dereferencing", p, NoSlot)
      /\ referenced' = [referenced EXCEPT ![p] = @ - 1]
      /\ UNCHANGED <<table, handles_, stale, dispatch_handle, purged, owned, owner>>
  BY <1>2 DEF BeginDereference, tables
<1>4. /\ at'[t] = "dereferencing" /\ pin'[t] = p /\ arg'[t] = NoSlot
      /\ \A u \in Threads \ {t} : pin'[u] = pin[u] /\ at'[u] = at[u] /\ arg'[u] = arg[u]
      /\ \A u \in Threads \ {t} : Claim(u)' = Claim(u)
      /\ Claim(t) = NoSlot /\ Claim(t)' = d
  BY <1>1, <1>3, OthersStay DEF Sound, Claim
<1>5. /\ referenced'[p] = referenced[p] - 1
      /\ \A z \in Objects \ {p} : referenced'[z] = referenced[z]
  BY <1>3 DEF Sound, LifeInv, GuestInv
<1>6. \A x \in Slots : Open(x) => table[x].refs >= 1
  BY DEF Sound, HandleInv, Counted
<1>7. Counted'
  <2>1. ASSUME NEW x \in Slots, NEW z \in Objects, Open(x), z = table[x].object
        PROVE  Accounted(x, z, NoSlot, d)
    <3>1. table[x].refs >= 1 /\ table[x].refs \in Int /\ owned[x] \in Nat
          /\ NoSlot # x /\ referenced[z] \in Nat
      BY <2>1, <1>1, <1>2, <1>3, <1>5, <1>6, Numbers DEF Sound
    <3> QED BY <2>1, <1>1, <1>2, <1>3, <1>5, <1>6, <3>1 DEF Accounted
  <2> QED BY <1>3, <1>4, <2>1, CountedStep DEF Sound
<1>8. \A z \in Objects : ByPointer(z)' => ByPointer(z)
  <2> SUFFICES ASSUME NEW z \in Objects, z # p, ByPointer(z)' PROVE ByPointer(z)
    BY <1>1
  <2>1. referenced'[z] = referenced[z]
    BY <1>5
  <2> QED BY <1>4, <2>1 DEF ByPointer
<1>9. GuestHandlesStayOpen' /\ (Names = {} => \A x \in Slots : owned'[x] <= 1)
  BY <1>3 DEF Sound, HandleInv, GuestHandlesStayOpen, Open
<1>10. ASSUME NEW u \in Threads \ {t}
       PROVE  /\ at[u] \notin {"lookup", "unretain", "retain"}
              /\ at[u] = "referencing" => owned'[arg[u]] > 0
              /\ at[u] = "publish" => owned'[dispatch_handle[pin[u]]] = 0 /\ p # pin[u]
              /\ at[u] \in {"add", "close_source"} /\ arg[u] # NoSlot =>
                    owned'[arg[u]] = 0 /\ d # arg[u]
  <2>1. at[u] = "publish" => p # pin[u]
    BY <1>1 DEF Sound, HandleInv, Publishing
  <2>2. at[u] \in {"add", "close_source"} /\ arg[u] # NoSlot => d # arg[u]
    BY <1>1, <1>2 DEF Sound, HandleInv, Sources
  <2> QED BY <1>3, <2>1, <2>2, Others
<1> QED BY <1>2, <1>3, <1>4, <1>7, <1>8, <1>9, <1>10, QuietKeeps DEF Sound

\* A free slot is given to an object nobody refers to by pointer.
LEMMA PlaceKeeps ==
  ASSUME Sound, LifeInv', NEW t \in Threads, NEW s \in Slots, NEW p \in Objects,
         NEW c, NEW a, NEW w, Claim(t)' = c, arg'[t] = a, at'[t] = w,
         table[s].object = NoObject, table'[s].object = p, ~ByPointer(p),
         \A x \in Slots \ {s} : /\ table'[x] = table[x]
                                /\ owned'[x] = owned[x] /\ owner'[x] = owner[x],
         \A o \in Objects \ {p} : /\ handles_'[o] = handles_[o]
                                  /\ dispatch_handle'[o] = dispatch_handle[o],
         (\E x \in Slots : table[x].object = p) => dispatch_handle'[p] = dispatch_handle[p],
         UNCHANGED <<purged, referenced, NameOf>>,
         \A u \in Threads \ {t} : /\ pin'[u] = pin[u] /\ at'[u] = at[u] /\ arg'[u] = arg[u]
                                  /\ Claim(u)' = Claim(u)
                                  /\ at[u] \notin {"lookup", "unretain", "retain"}
                                  /\ at[u] = "publish" => pin[u] # p /\ pin'[t] # pin[u],
         table'[s].refs = owned'[s] + (IF c = s THEN 1 ELSE 0), table'[s].refs >= 1,
         c = s => Claim(t) = NoSlot, c # s => c = Claim(t),
         w \in {"idle", "publish", "close_source"},
         w = "publish" => /\ pin'[t] = p /\ SoleHandle(p)' /\ dispatch_handle'[p] = s
                          /\ owned'[s] = 0 /\ \A u \in Threads \ {t} : pin[u] # p,
         w = "close_source" => at[t] = "add" /\ a = arg[t],
         owned'[s] <= 1, owned'[s] > 0 => owner'[s] = p
  PROVE  HandleInv'
<1>1. /\ owned[s] = 0 /\ \A u \in Threads : Claim(u) # s
      /\ NoSlot \notin Slots /\ NoObject \notin Objects
      /\ \A x \in Slots : owned[x] \in Nat /\ owned'[x] \in Nat
  <2>1. NoSlot \notin Slots /\ NoObject \notin Objects /\ \A x \in Slots : owned[x] \in Nat
    BY Numbers DEF Sound
  <2>2. \A x \in Slots : owned'[x] \in Nat
    BY DEF LifeInv, GuestInv
  <2>3. ~Open(s)
    BY DEF Open
  <2> QED BY <2>1, <2>2, <2>3 DEF Sound, HandleInv, GuestHandlesStayOpen, Claimed
<1>2. \A x \in Slots : (Open(x)' <=> Open(x) \/ x = s)
  BY <1>1 DEF Open
<1>3. \A o \in Objects : ByPointer(o)' => ByPointer(o) /\ o # p
  <2>1. w \notin {"referencing", "dereferencing"}
    OBVIOUS
  <2> QED BY <2>1 DEF ByPointer
<1>4. \A o \in Objects \ {p} : SoleHandle(o) => SoleHandle(o)'
  BY DEF SoleHandle
<1>5. \A x \in Slots \ {s} : Claims(x)' = Claims(x)
  BY <1>1 DEF Claims
<1>6. Names' = Names
  BY DEF Names
<1>7. Counted'
  <2> SUFFICES ASSUME NEW x \in Slots, Open(x)', NEW o, o = table'[x].object
               PROVE  /\ table'[x].refs = owned'[x] + Cardinality(Claims(x))'
                               + (IF dispatch_handle'[o] = x THEN referenced'[o] ELSE 0)
                      /\ table'[x].refs >= 1
    BY DEF Counted
  <2>1. CASE x = s
    <3>1. Claims(s)' = IF c = s THEN {t} ELSE {}
      BY <1>1 DEF Claims
    <3>2. Cardinality(Claims(s))' = IF c = s THEN 1 ELSE 0
      <4>1. Cardinality({t}) = 1 /\ Cardinality({}) = 0
        BY FS_Singleton, FS_EmptySet
      <4> QED BY <3>1, <4>1
    <3>3. o = p /\ referenced'[p] = 0
      <4>1. ~(referenced[p] > 0) /\ referenced[p] \in Nat
        BY Numbers DEF ByPointer, Sound
      <4> QED BY <2>1, <4>1
    <3> QED BY <1>1, <2>1, <3>2, <3>3
  <2>2. CASE x # s
    <3>1. /\ Open(x) /\ o = table[x].object /\ o \in Objects
          /\ table'[x] = table[x] /\ owned'[x] = owned[x]
      BY <1>2, <2>2, Numbers DEF Sound
    <3>2. /\ table[x].refs = owned[x] + Cardinality(Claims(x))
                               + (IF dispatch_handle[o] = x THEN referenced[o] ELSE 0)
          /\ table[x].refs >= 1
      BY <3>1 DEF Sound, HandleInv, Counted
    <3>3. dispatch_handle'[o] = dispatch_handle[o]
      BY <1>1, <3>1
    <3>4. Cardinality(Claims(x))' = Cardinality(Claims(x))
      BY <1>5, <2>2
    <3> QED BY <3>1, <3>2, <3>3, <3>4
  <2> QED BY <2>1, <2>2
<1>8. Claimed'
  <2> SUFFICES ASSUME NEW u \in Threads, NEW y, y = Claim(u)', y # NoSlot
               PROVE  y \in Slots /\ Open(y)'
    BY DEF Claimed
  <2>1. y = s \/ y = Claim(u)
    OBVIOUS
  <2> QED BY <1>2, <2>1 DEF Sound, HandleInv, Claimed
<1>9. Pointing'
  <2>1. \A o \in Objects : ByPointer(o)' => SoleHandle(o)'
    BY <1>3, <1>4 DEF Sound, HandleInv, Pointing
  <2>2. ASSUME NEW u \in Threads, at'[u] = "referencing", NEW o, o = pin'[u], NEW b, b = arg'[u]
        PROVE  b = dispatch_handle'[o] /\ owned'[b] > 0
    <3>1. u # t /\ at[u] = "referencing" /\ o = pin[u] /\ b = arg[u]
      BY <2>2
    <3>2. o \in Objects /\ ByPointer(o) /\ b = dispatch_handle[o] /\ owned[b] > 0
      BY <3>1 DEF Sound, LifeInv, CallInv, HandleInv, Pointing, ByPointer
    <3>3. o # p /\ b \in Slots /\ b # s
      BY <1>1, <3>2, Referred
    <3> QED BY <3>2, <3>3
  <2>3. ASSUME NEW u \in Threads, at'[u] = "add", NEW o, o = pin'[u] PROVE ~ByPointer(o)'
    <3>1. u # t /\ at[u] = "add" /\ o = pin[u]
      BY <2>3
    <3>2. o \in Objects /\ ~ByPointer(o)
      BY <3>1 DEF Sound, LifeInv, CallInv, HandleInv, Pointing
    <3> QED BY <1>3, <3>2
  <2> QED BY <2>1, <2>2, <2>3 DEF Pointing
<1>10. Publishing'
  <2> SUFFICES ASSUME NEW u \in Threads, at'[u] = "publish", NEW o, o = pin'[u]
               PROVE  /\ SoleHandle(o)' /\ owned'[dispatch_handle'[o]] = 0 /\ ~ByPointer(o)'
                      /\ \A v \in Threads \ {u} : pin'[v] # o
    BY DEF Publishing
  <2>1. CASE u = t
    BY <1>3, <2>1
  <2>2. CASE u # t
    <3>1. at[u] = "publish" /\ o = pin[u] /\ o # p /\ o \in Objects
      BY <2>2 DEF Sound, LifeInv, CallInv
    <3>2. /\ SoleHandle(o) /\ owned[dispatch_handle[o]] = 0 /\ ~ByPointer(o)
          /\ \A v \in Threads \ {u} : pin[v] # o
      BY <3>1 DEF Sound, HandleInv, Publishing
    <3>3. dispatch_handle[o] \in Slots /\ table[dispatch_handle[o]].object = o
      BY <3>1, <3>2, SoleSlot DEF Sound
    <3>4. dispatch_handle[o] # s /\ dispatch_handle'[o] = dispatch_handle[o]
      BY <1>1, <3>1, <3>3
    <3>5. \A v \in Threads \ {u} : pin'[v] # o
      BY <2>2, <3>1, <3>2
    <3> QED BY <1>3, <1>4, <3>1, <3>2, <3>3, <3>4, <3>5
  <2> QED BY <2>1, <2>2
<1>11. Sources'
  <2> SUFFICES ASSUME NEW u \in Threads, at'[u] \in {"add", "close_source"}, NEW b, b = arg'[u],
                      b # NoSlot, NEW o, o = table'[b].object
               PROVE  /\ owned'[b] = 0 /\ Claims(b)' = {u} /\ ~ByPointer(o)'
                      /\ Names' = {}
    BY DEF Sources
  <2>1. at[u] \in {"add", "close_source"} /\ b = arg[u]
    OBVIOUS
  <2>2. Claim(u) = b
    BY <2>1 DEF Claim
  <2>3. b \in Slots /\ Open(b) /\ b # s
    BY <1>1, <2>2 DEF Sound, HandleInv, Claimed
  <2>4. /\ owned[b] = 0 /\ Claims(b) = {u} /\ ~ByPointer(table[b].object) /\ Names = {}
    BY <2>1 DEF Sound, HandleInv, Sources
  <2>5. o = table[b].object /\ o \in Objects
    BY <2>3, Numbers DEF Sound
  <2> QED BY <1>3, <1>5, <1>6, <2>3, <2>4, <2>5
<1>12. ByName'
  <2>1. \A u \in Threads : at'[u] \notin {"lookup", "unretain", "retain"}
    OBVIOUS
  <2> QED BY <2>1 DEF ByName
<1>13. GuestHandlesStayOpen' /\ (Names' = {} => \A x \in Slots : owned'[x] <= 1)
  <2>1. ASSUME NEW x \in Slots, owned'[x] > 0
        PROVE  table'[x].object = owner'[x] /\ Open(x)'
    <3>1. CASE x = s
      BY <1>2, <2>1, <3>1
    <3>2. CASE x # s
      BY <1>2, <2>1, <3>2 DEF Sound, HandleInv, GuestHandlesStayOpen
    <3> QED BY <3>1, <3>2
  <2> QED BY <1>6, <2>1 DEF Sound, HandleInv, GuestHandlesStayOpen
<1> QED BY <1>7, <1>8, <1>9, <1>10, <1>11, <1>12, <1>13 DEF HandleInv

\* AddHandle on the table: the slot was free.
LEMMA SlotAdded ==
  ASSUME TableInv, NEW p \in Objects, NEW s \in Slots, AddHandle(p, s)
  PROVE  /\ table[s].object = NoObject
         /\ table'[s].object = p /\ table'[s].refs = 1
         /\ \A x \in Slots \ {s} : table'[x] = table[x]
         /\ handles_'[p] = Append(handles_[p], s)
         /\ \A o \in Objects \ {p} : handles_'[o] = handles_[o]
<1>1. table[s].object = NoObject
  BY FreeSlotFound DEF AddHandle
<1> QED BY <1>1 DEF AddHandle, TableInv

\* A new object's first handle.
LEMMA HandlesNewObject ==
  ASSUME Sound, LifeInv', MayRace = FALSE, NEW t \in Threads, Step(t), NameOf' = NameOf,
         NewObject(t)
  PROVE  HandleInv'
<1> PICK p : p = pin[t]
  OBVIOUS
<1>1. PICK s \in Slots : /\ at[t] = "new" /\ AddHandle(p, s)
                         /\ dispatch_handle' = [dispatch_handle EXCEPT ![p] = s]
                         /\ Goto(t, "publish", p, NoSlot)
                         /\ UNCHANGED <<stale, owned, owner, referenced, purged>>
  BY DEF NewObject, guest
<1>2. p \in Objects /\ p \notin created /\ \A u \in Threads \ {t} : pin[u] # p
  BY <1>1 DEF Sound, LifeInv, CallInv
<1>3. /\ table[s].object = NoObject
      /\ table'[s].object = p /\ table'[s].refs = 1
      /\ \A x \in Slots \ {s} : table'[x] = table[x]
      /\ handles_'[p] = Append(handles_[p], s)
      /\ \A o \in Objects \ {p} : handles_'[o] = handles_[o]
  BY <1>1, <1>2, SlotAdded DEF Sound, LifeInv
<1>4. /\ dispatch_handle'[p] = s
      /\ \A o \in Objects \ {p} : dispatch_handle'[o] = dispatch_handle[o]
      /\ p \notin purged /\ \A x \in Slots : table[x].object # p
  <2>1. \A x \in Slots : Open(x) => table[x].object \in created
    BY Numbers DEF Sound
  <2>2. p \notin purged /\ NoObject \notin Objects
    BY <1>2, Numbers DEF Sound, LifeInv, TableInv
  <2> QED BY <1>1, <1>2, <2>1, <2>2 DEF Open, Sound, LifeInv, TableInv
<1>5. SoleHandle(p)'
  <2>1. handles_[p] \in Seq(Slots) /\ ToSet(handles_[p]) = {}
    BY <1>2, <1>4 DEF Sound, LifeInv, TableInv, HandlesAgree
  <2>2. handles_[p] = <<>>
    <3>1. handles_[p] # <<>> => Head(handles_[p]) = handles_[p][1] /\ 1 \in DOMAIN handles_[p]
      BY <2>1
    <3> QED BY <2>1, <3>1 DEF ToSet
  <2> QED BY <1>1, <1>3, <1>4, <2>2 DEF SoleHandle
<1>6. ~ByPointer(p)
  <2>1. ~(referenced[p] > 0)
    BY <1>2 DEF Sound, LifeInv, GuestInv
  <2> QED BY <1>1, <1>2, <2>1 DEF ByPointer
<1>7. /\ at'[t] = "publish" /\ pin'[t] = p /\ arg'[t] = NoSlot
      /\ \A u \in Threads \ {t} : pin'[u] = pin[u] /\ at'[u] = at[u] /\ arg'[u] = arg[u]
  BY <1>1, OthersStay DEF Sound
<1>8. Claim(t) = NoSlot /\ Claim(t)' = s /\ \A u \in Threads \ {t} : Claim(u)' = Claim(u)
  <2>1. Claim(t) = NoSlot /\ Claim(t)' = s
    BY <1>1, <1>4, <1>7 DEF Claim
  <2>2. ASSUME NEW u \in Threads \ {t}, NEW o, o = pin[u] PROVE Claim(u)' = Claim(u)
    <3>1. at[u] \in {"publish", "dereferencing"} => dispatch_handle'[o] = dispatch_handle[o]
      BY <1>2, <1>4, <2>2 DEF Sound, LifeInv, CallInv
    <3>2. at'[u] = at[u] /\ pin'[u] = o /\ arg'[u] = arg[u]
      BY <1>7, <2>2
    <3> QED BY <2>2, <3>1, <3>2 DEF Claim
  <2> QED BY <2>1, <2>2
<1>9. owned[s] = 0
  <2>1. ~Open(s)
    BY <1>3 DEF Open
  <2> QED BY <2>1, Numbers DEF Sound, HandleInv, GuestHandlesStayOpen
<1>10. \A u \in Threads \ {t} : at[u] \notin {"lookup", "unretain", "retain"}
  BY Others
<1> QED BY <1>1, <1>2, <1>3, <1>4, <1>5, <1>6, <1>7, <1>8, <1>9, <1>10, PlaceKeeps

\* A new handle of an object the guest has another handle of.
LEMMA HandlesDuplicate ==
  ASSUME Sound, LifeInv', MayRace = FALSE, NEW t \in Threads, Step(t), NameOf' = NameOf,
         Duplicate(t)
  PROVE  HandleInv'
<1> PICK p, a : p = pin[t] /\ a = arg[t]
  OBVIOUS
<1>1. PICK s \in Slots : /\ at[t] = "add" /\ AddHandle(p, s) /\ Give(s, p)
                         /\ IF a = NoSlot THEN Goto(t, "idle", NoObject, NoSlot)
                            ELSE Goto(t, "close_source", NoObject, a)
                         /\ UNCHANGED <<stale, dispatch_handle, referenced, purged>>
  BY DEF Duplicate, Return
<1>2. p \in Objects /\ ~ByPointer(p)
  BY <1>1 DEF Sound, LifeInv, CallInv, HandleInv, Pointing
<1>3. /\ table[s].object = NoObject
      /\ table'[s].object = p /\ table'[s].refs = 1
      /\ \A x \in Slots \ {s} : table'[x] = table[x]
      /\ \A o \in Objects \ {p} : handles_'[o] = handles_[o]
  BY <1>1, <1>2, SlotAdded DEF Sound, LifeInv
<1>4. PICK w : /\ at'[t] = w /\ pin'[t] = NoObject /\ arg'[t] = a
               /\ w = IF a = NoSlot THEN "idle" ELSE "close_source"
               /\ \A u \in Threads \ {t} : pin'[u] = pin[u] /\ at'[u] = at[u] /\ arg'[u] = arg[u]
               /\ \A u \in Threads \ {t} : Claim(u)' = Claim(u)
  BY <1>1, OthersStay DEF Sound
<1>5. Claim(t) = a /\ Claim(t)' = a
  BY <1>1, <1>4 DEF Claim
<1>6. /\ owned'[s] = 1 /\ owner'[s] = p /\ a # s
      /\ \A x \in Slots \ {s} : owned'[x] = owned[x] /\ owner'[x] = owner[x]
  <2>1. ~Open(s)
    BY <1>3 DEF Open
  <2>2. owned[s] = 0 /\ a # s
    BY <1>5, <2>1, Numbers DEF Sound, HandleInv, GuestHandlesStayOpen, Claimed
  <2> QED BY <1>1, <2>2 DEF Give, Sound, LifeInv, GuestInv
<1>7. \A u \in Threads \ {t} : /\ at[u] \notin {"lookup", "unretain", "retain"}
                               /\ at[u] = "publish" => pin[u] # p /\ NoObject # pin[u]
  BY Others DEF Sound, LifeInv, CallInv
<1> QED BY <1>1, <1>2, <1>3, <1>4, <1>5, <1>6, <1>7, PlaceKeeps

\* The last reference to a handle is given back and its slot freed: nobody else
\* has a claim on it, and nobody refers to its object by pointer.
LEMMA FreeKeeps ==
  ASSUME Sound, LifeInv', NEW t \in Threads, NEW s \in Slots, NEW p \in Objects,
         table[s].object = p, table'[s].object = NoObject,
         \A x \in Slots \ {s} : table'[x] = table[x] /\ owned'[x] = owned[x],
         \A o \in Objects \ {p} : handles_'[o] = handles_[o],
         UNCHANGED <<dispatch_handle, purged, owner, referenced, NameOf>>,
         \A u \in Threads \ {t} : /\ pin'[u] = pin[u] /\ at'[u] = at[u] /\ arg'[u] = arg[u]
                                  /\ Claim(u)' = Claim(u) /\ Claim(u) # s
                                  /\ at[u] \notin {"lookup", "unretain", "retain"},
         at'[t] = "idle", pin'[t] = NoObject, Claim(t) \in {s, NoSlot},
         owned'[s] = 0, ~ByPointer(p)'
  PROVE  HandleInv'
<1>1. /\ NoSlot \notin Slots /\ NoObject \notin Objects
      /\ \A x \in Slots : owned[x] \in Nat /\ owned'[x] \in Nat
  BY Numbers DEF Sound, LifeInv, GuestInv
<1>2. /\ Claim(t)' = NoSlot
      /\ \A x \in Slots : (Open(x)' <=> Open(x) /\ x # s)
  BY <1>1 DEF Open, Claim
<1>3. \A o \in Objects : ByPointer(o)' => ByPointer(o) /\ o # p
  BY DEF ByPointer
<1>4. \A o \in Objects \ {p} : SoleHandle(o) => SoleHandle(o)'
  BY DEF SoleHandle
<1>5. \A x \in Slots \ {s} : Claims(x)' = Claims(x)
  <2> SUFFICES ASSUME NEW x \in Slots \ {s}, NEW u \in Threads
               PROVE  Claim(u)' = x <=> Claim(u) = x
    BY DEF Claims
  <2> QED BY <1>1, <1>2
<1>6. Names' = Names
  BY DEF Names
<1>7. Counted'
  <2> SUFFICES ASSUME NEW x \in Slots, Open(x)', NEW o, o = table'[x].object
               PROVE  /\ table'[x].refs = owned'[x] + Cardinality(Claims(x))'
                               + (IF dispatch_handle'[o] = x THEN referenced'[o] ELSE 0)
                      /\ table'[x].refs >= 1
    BY DEF Counted
  <2>1. x # s /\ Open(x) /\ table'[x] = table[x] /\ owned'[x] = owned[x] /\ o = table[x].object
    BY <1>2
  <2>2. /\ table[x].refs = owned[x] + Cardinality(Claims(x))
                             + (IF dispatch_handle[o] = x THEN referenced[o] ELSE 0)
        /\ table[x].refs >= 1
    BY <2>1 DEF Sound, HandleInv, Counted
  <2>3. Cardinality(Claims(x))' = Cardinality(Claims(x))
    BY <1>5, <2>1
  <2> QED BY <2>1, <2>2, <2>3
<1>8. Claimed'
  <2> SUFFICES ASSUME NEW u \in Threads, NEW y, y = Claim(u)', y # NoSlot
               PROVE  y \in Slots /\ Open(y)'
    BY DEF Claimed
  <2>1. y # s /\ y = Claim(u)
    BY <1>2
  <2> QED BY <1>2, <2>1 DEF Sound, HandleInv, Claimed
<1>9. Pointing'
  <2>1. \A o \in Objects : ByPointer(o)' => SoleHandle(o)'
    BY <1>3, <1>4 DEF Sound, HandleInv, Pointing
  <2>2. ASSUME NEW u \in Threads, at'[u] = "referencing", NEW o, o = pin'[u], NEW b, b = arg'[u]
        PROVE  b = dispatch_handle'[o] /\ owned'[b] > 0
    <3>1. u # t /\ at[u] = "referencing" /\ o = pin[u] /\ b = arg[u]
      BY <2>2
    <3>2. o \in Objects /\ ByPointer(o) /\ b = dispatch_handle[o] /\ owned[b] > 0 /\ ByPointer(o)'
      BY <2>2, <3>1 DEF Sound, LifeInv, CallInv, HandleInv, Pointing, ByPointer
    <3>3. o # p /\ b \in Slots /\ b # s
      BY <3>2, Referred
    <3> QED BY <3>2, <3>3
  <2>3. ASSUME NEW u \in Threads, at'[u] = "add", NEW o, o = pin'[u] PROVE ~ByPointer(o)'
    <3>1. u # t /\ at[u] = "add" /\ o = pin[u]
      BY <2>3
    <3>2. o \in Objects /\ ~ByPointer(o)
      BY <3>1 DEF Sound, LifeInv, CallInv, HandleInv, Pointing
    <3> QED BY <1>3, <3>2
  <2> QED BY <2>1, <2>2, <2>3 DEF Pointing
<1>10. Publishing'
  <2> SUFFICES ASSUME NEW u \in Threads, at'[u] = "publish", NEW o, o = pin'[u]
               PROVE  /\ SoleHandle(o)' /\ owned'[dispatch_handle'[o]] = 0 /\ ~ByPointer(o)'
                      /\ \A v \in Threads \ {u} : pin'[v] # o
    BY DEF Publishing
  <2>1. u # t /\ at[u] = "publish" /\ o = pin[u] /\ o \in Objects
    BY DEF Sound, LifeInv, CallInv
  <2>2. /\ SoleHandle(o) /\ owned[dispatch_handle[o]] = 0 /\ ~ByPointer(o)
        /\ \A v \in Threads \ {u} : pin[v] # o
    BY <2>1 DEF Sound, HandleInv, Publishing
  <2>3. /\ dispatch_handle[o] \in Slots
        /\ \A x \in Slots : table[x].object = o => x = dispatch_handle[o]
    BY <2>1, <2>2, SoleSlot DEF Sound
  <2>4. Claim(u) = dispatch_handle[o]
    BY <2>1 DEF Claim
  <2>5. dispatch_handle[o] # s /\ o # p
    BY <2>1, <2>3, <2>4
  <2>6. \A v \in Threads \ {u} : pin'[v] # o
    BY <1>1, <2>1, <2>2
  <2> QED BY <1>3, <1>4, <2>1, <2>2, <2>3, <2>5, <2>6
<1>11. Sources'
  <2> SUFFICES ASSUME NEW u \in Threads, at'[u] \in {"add", "close_source"}, NEW b, b = arg'[u],
                      b # NoSlot, NEW o, o = table'[b].object
               PROVE  /\ owned'[b] = 0 /\ Claims(b)' = {u} /\ ~ByPointer(o)'
                      /\ Names' = {}
    BY DEF Sources
  <2>1. u # t /\ at[u] \in {"add", "close_source"} /\ b = arg[u]
    OBVIOUS
  <2>2. Claim(u) = b
    BY <2>1 DEF Claim
  <2>3. b \in Slots /\ Open(b) /\ b # s
    BY <2>1, <2>2 DEF Sound, HandleInv, Claimed
  <2>4. /\ owned[b] = 0 /\ Claims(b) = {u} /\ ~ByPointer(table[b].object) /\ Names = {}
    BY <2>1 DEF Sound, HandleInv, Sources
  <2>5. o = table[b].object /\ o \in Objects
    BY <2>3, Numbers DEF Sound
  <2> QED BY <1>3, <1>5, <1>6, <2>3, <2>4, <2>5
<1>12. ByName'
  <2>1. \A u \in Threads : at'[u] \notin {"lookup", "unretain", "retain"}
    OBVIOUS
  <2> QED BY <2>1 DEF ByName
<1>13. GuestHandlesStayOpen' /\ (Names' = {} => \A x \in Slots : owned'[x] <= 1)
  <2>1. ASSUME NEW x \in Slots, owned'[x] > 0
        PROVE  table'[x].object = owner'[x] /\ Open(x)'
    <3>1. x # s
      BY <2>1
    <3> QED BY <1>2, <2>1, <3>1 DEF Sound, HandleInv, GuestHandlesStayOpen
  <2> QED BY <1>6, <2>1 DEF Sound, HandleInv, GuestHandlesStayOpen
<1> QED BY <1>7, <1>8, <1>9, <1>10, <1>11, <1>12, <1>13 DEF HandleInv

\* RemoveHandle on a freed slot.
LEMMA SlotFreed ==
  ASSUME LifeInv, NEW s \in Slots, NEW p \in Objects, table[s].object = p,
         table' = [table EXCEPT ![s] = FreeSlot], NEW unpin, RemoveHandle(s, unpin)
  PROVE  /\ table'[s].object = NoObject /\ \A x \in Slots \ {s} : table'[x] = table[x]
         /\ \A o \in Objects \ {p} : handles_'[o] = handles_[o]
<1>1. p # NoObject
  BY Numbers
<1> QED BY <1>1 DEF RemoveHandle, FreeSlot, LifeInv, TableInv

\* Dropping a reference to a handle that has more of them.
LEMMA SlotReleased ==
  ASSUME LifeInv, NEW s \in Slots, NEW unpin, ReleaseHandle(s, unpin), table[s].refs # 1
  PROVE  /\ \A x \in Slots : table'[x].object = table[x].object
         /\ table'[s].refs = table[s].refs - 1
         /\ \A x \in Slots \ {s} : table'[x].refs = table[x].refs
         /\ UNCHANGED <<handles_, stale>>
BY DEF ReleaseHandle, LifeInv, TableInv

\* LookupNamedObject gives its reference back: not the last one.
LEMMA HandlesUnretain ==
  ASSUME Sound, LifeInv', MayRace = FALSE, NEW t \in Threads, Step(t), NameOf' = NameOf,
         Unretain(t)
  PROVE  HandleInv'
<1> PICK p, a : p = pin[t] /\ a = arg[t]
  OBVIOUS
<1>1. /\ at[t] = "unretain" /\ Goto(t, "retain", p, NoSlot) /\ ReleaseHandle(Handle0(p), <<>>)
      /\ UNCHANGED <<dispatch_handle, owned, owner, referenced, purged>>
  BY DEF Unretain, guest
<1>2. /\ Names # {} /\ table[a].refs >= 2 /\ table[a].object = p /\ Handle0(p) = a
  BY <1>1 DEF Sound, HandleInv, ByName
<1>3. p \in Objects /\ a \in Slots /\ Open(a)
  <2>1. p \in created /\ p \in Objects
    BY <1>1 DEF Sound, LifeInv, CallInv, TableInv
  <2> QED BY <1>2, <2>1, Numbers DEF Sound, LifeInv, TableInv, Open
<1>4. /\ \A x \in Slots : table'[x].object = table[x].object
      /\ table'[a].refs = table[a].refs - 1
      /\ \A x \in Slots \ {a} : table'[x].refs = table[x].refs
      /\ UNCHANGED <<handles_, stale>>
  BY <1>1, <1>2, <1>3, SlotReleased DEF Sound
<1>5. /\ at'[t] = "retain" /\ pin'[t] = p /\ arg'[t] = NoSlot
      /\ \A u \in Threads \ {t} : pin'[u] = pin[u] /\ at'[u] = at[u] /\ arg'[u] = arg[u]
      /\ \A u \in Threads \ {t} : Claim(u)' = Claim(u)
      /\ Claim(t) = a /\ Claim(t)' = NoSlot
  BY <1>1, OthersStay DEF Sound, Claim
<1>6. \A x \in Slots : Open(x) => table[x].refs >= 1
  BY DEF Sound, HandleInv, Counted
<1>7. Counted'
  <2>1. ASSUME NEW x \in Slots, NEW z \in Objects, Open(x), z = table[x].object
        PROVE  Accounted(x, z, a, NoSlot)
    <3>1. table[x].refs >= 1 /\ table[x].refs \in Int /\ owned[x] \in Nat
          /\ NoSlot # x /\ referenced[z] \in Nat
      BY <2>1, <1>1, <1>2, <1>3, <1>4, <1>6, Numbers DEF Sound
    <3> QED BY <2>1, <1>1, <1>2, <1>3, <1>4, <1>6, <3>1 DEF Accounted
  <2> QED BY <1>1, <1>4, <1>5, <2>1, CountedStep DEF Sound
<1>8. \A z \in Objects : ByPointer(z)' => ByPointer(z)
  BY <1>1, <1>5 DEF ByPointer
<1>9. GuestHandlesStayOpen' /\ (Names = {} => \A x \in Slots : owned'[x] <= 1)
  BY <1>1, <1>2, <1>4 DEF Sound, HandleInv, GuestHandlesStayOpen, Open
<1>10. \A u \in Threads \ {t} : at[u] = "idle"
  BY <1>2, Others
<1> QED BY <1>1, <1>2, <1>3, <1>4, <1>5, <1>7, <1>8, <1>9, <1>10, QuietKeeps DEF Sound

\* NtClose: the guest gives up one reference to a handle.
LEMMA HandlesClose ==
  ASSUME Sound, LifeInv', MayRace = FALSE, NEW t \in Threads, Step(t), NameOf' = NameOf,
         NEW s \in Slots, Close(t, s)
  PROVE  HandleInv'
<1> PICK p : p = table[s].object
  OBVIOUS
<1>1. /\ at[t] = "idle" /\ ReleaseHandle(s, <<>>)
      /\ owned[s] > Cardinality({u \in Threads : at[u] = "referencing" /\ arg[u] = s})
      /\ owned' = [owned EXCEPT ![s] = @ - 1]
      /\ UNCHANGED <<dispatch_handle, call, owner, referenced, purged>>
  BY DEF Close, MayBegin
<1>2. /\ owned[s] > 0
      /\ \A u \in Threads : at[u] = "referencing" /\ arg[u] = s => owned[s] > 1
  <2> DEFINE R == {u \in Threads : at[u] = "referencing" /\ arg[u] = s}
  <2>1. IsFiniteSet(R) /\ Cardinality(R) \in Nat /\ (R # {} => Cardinality(R) # 0)
    <3>1. IsFiniteSet(R)
      BY ObjectTableAssumption, FS_Subset
    <3> QED BY <3>1, FS_CardinalityType, FS_EmptySet
  <2>2. owned[s] \in Nat /\ owned[s] > Cardinality(R)
    BY <1>1, Numbers DEF Sound
  <2>3. ASSUME NEW u \in Threads, at[u] = "referencing", arg[u] = s PROVE owned[s] > 1
    <3>1. R # {}
      BY <2>3
    <3> HIDE DEF R
    <3> QED BY <2>1, <2>2, <3>1
  <2> HIDE DEF R
  <2> QED BY <2>1, <2>2, <2>3
<1>3. Open(s) /\ p \in Objects /\ owned[s] \in Nat
  <2>1. Open(s)
    BY <1>2 DEF Sound, HandleInv, GuestHandlesStayOpen
  <2> QED BY <2>1, Numbers DEF Sound
<1>4. /\ at'[t] = "idle" /\ pin'[t] = NoObject /\ pin[t] = NoObject
      /\ \A u \in Threads : pin'[u] = pin[u] /\ at'[u] = at[u] /\ arg'[u] = arg[u]
      /\ \A u \in Threads : Claim(u)' = Claim(u)
      /\ Claim(t) = NoSlot
  <2>1. /\ pin[t] = NoObject /\ Claim(t) = NoSlot
        /\ \A u \in Threads : pin'[u] = pin[u] /\ at'[u] = at[u] /\ arg'[u] = arg[u]
    BY <1>1 DEF call, Claim, Sound, LifeInv, CallInv
  <2>2. \A u \in Threads : Claim(u)' = Claim(u)
    BY <1>1, <2>1 DEF Claim
  <2> QED BY <1>1, <2>1, <2>2
<1>5. /\ owned'[s] = owned[s] - 1
      /\ \A x \in Slots \ {s} : owned'[x] = owned[x]
  BY <1>1 DEF Sound, LifeInv, GuestInv
<1>6. \A x \in Slots : Open(x) => table[x].refs >= 1
  BY DEF Sound, HandleInv, Counted
<1>7. \A u \in Threads : at[u] \notin {"lookup", "unretain", "retain"}
  BY <1>1, Others
<1>8. \A z \in Objects : ByPointer(z)' => ByPointer(z)
  BY <1>1, <1>4 DEF ByPointer
<1>9. CASE table[s].refs # 1
  <2>1. /\ \A x \in Slots : table'[x].object = table[x].object
        /\ table'[s].refs = table[s].refs - 1
        /\ \A x \in Slots \ {s} : table'[x].refs = table[x].refs
        /\ UNCHANGED <<handles_, stale>>
    BY <1>1, <1>9, SlotReleased DEF Sound
  <2>2. ASSUME NEW x \in Slots, NEW z \in Objects, Open(x), z = table[x].object
        PROVE  Accounted(x, z, NoSlot, NoSlot)
    <3>1. table[x].refs >= 1 /\ table[x].refs \in Int /\ owned[x] \in Nat
          /\ NoSlot # x /\ referenced[z] \in Nat
      BY <2>2, <1>6, Numbers DEF Sound
    <3> QED BY <2>2, <1>1, <1>5, <1>9, <2>1, <3>1 DEF Accounted
  <2>3. Counted'
    BY <1>1, <1>4, <2>1, <2>2, CountedStep DEF Sound
  <2>4. GuestHandlesStayOpen' /\ (Names = {} => \A x \in Slots : owned'[x] <= 1)
    <3>1. \A x \in Slots : /\ owned[x] \in Nat
                           /\ owned'[x] > 0 => owned[x] > 0
                           /\ owned[x] <= 1 => owned'[x] <= 1
      BY <1>5, Numbers DEF Sound
    <3> QED BY <1>1, <2>1, <3>1 DEF Sound, HandleInv, GuestHandlesStayOpen, Open
  <2>5. ASSUME NEW u \in Threads \ {t}
        PROVE  /\ at[u] = "referencing" => owned'[arg[u]] > 0
               /\ at[u] = "publish" => owned'[dispatch_handle[pin[u]]] = 0 /\ NoObject # pin[u]
               /\ at[u] \in {"add", "close_source"} /\ arg[u] # NoSlot =>
                     owned'[arg[u]] = 0 /\ NoSlot # arg[u]
    <3>1. /\ at[u] = "referencing" => owned[arg[u]] > 0
          /\ at[u] = "publish" => owned[dispatch_handle[pin[u]]] = 0
          /\ at[u] \in {"add", "close_source"} /\ arg[u] # NoSlot => owned[arg[u]] = 0
      BY Others
    <3>2. at[u] = "referencing" => arg[u] \in Slots
      <4>1. at[u] = "referencing" => /\ pin[u] \in Objects /\ ByPointer(pin[u])
                                     /\ arg[u] = dispatch_handle[pin[u]]
        BY DEF Sound, LifeInv, CallInv, HandleInv, Pointing, ByPointer
      <4> QED BY <4>1, Referred
    <3>3. at[u] = "referencing" => owned'[arg[u]] > 0
      <4>1. CASE arg[u] = s
        BY <1>2, <1>3, <1>5, <4>1
      <4>2. CASE arg[u] # s
        BY <1>5, <3>1, <3>2, <4>2
      <4> QED BY <4>1, <4>2
    <3>4. at[u] = "publish" => /\ dispatch_handle[pin[u]] \in Slots /\ pin[u] \in Objects
                               /\ dispatch_handle[pin[u]] # s
      <4>1. at[u] = "publish" => SoleHandle(pin[u]) /\ pin[u] \in Objects
        BY DEF Sound, HandleInv, Publishing, LifeInv, CallInv
      <4> QED BY <1>2, <3>1, <4>1, SoleSlot DEF Sound
    <3>5. at[u] \in {"add", "close_source"} /\ arg[u] # NoSlot => arg[u] \in Slots \ {s}
      BY <1>2, <3>1 DEF Sound, LifeInv, CallInv
    <3> QED BY <1>5, <3>1, <3>3, <3>4, <3>5, Numbers DEF Sound
  <2>6. PICK a : a = arg'[t]
    OBVIOUS
  <2> QED BY <1>1, <1>4, <1>7, <1>8, <2>1, <2>3, <2>4, <2>5, <2>6, QuietKeeps DEF Sound
<1>10. CASE table[s].refs = 1
  <2>1. table' = [table EXCEPT ![s] = FreeSlot] /\ RemoveHandle(s, <<>>)
    BY <1>1, <1>10 DEF ReleaseHandle
  <2>2. /\ table'[s].object = NoObject /\ \A x \in Slots \ {s} : table'[x] = table[x]
        /\ \A o \in Objects \ {p} : handles_'[o] = handles_[o]
    BY <1>3, <2>1, SlotFreed DEF Sound
  <2>3. /\ owned[s] = 1 /\ Cardinality(Claims(s)) = 0
        /\ dispatch_handle[p] = s => referenced[p] = 0
    <3>1. /\ 1 = owned[s] + Cardinality(Claims(s)) + (IF dispatch_handle[p] = s THEN referenced[p] ELSE 0)
          /\ Cardinality(Claims(s)) \in Nat /\ referenced[p] \in Nat
      BY <1>3, <1>10, ClaimsAreNumbers, Numbers DEF Sound, HandleInv, Counted
    <3> QED BY <1>2, <1>3, <3>1
  <2>4. \A u \in Threads : Claim(u) # s
    BY <2>3, ClaimCounts
  <2>5. ~ByPointer(p)
    <3> SUFFICES ASSUME ByPointer(p) PROVE FALSE
      OBVIOUS
    <3>1. dispatch_handle[p] = s
      BY <1>3, Referred
    <3>2. PICK u \in Threads : pin[u] = p /\ at[u] \in {"referencing", "dereferencing"}
      BY <1>3, <2>3, <3>1, Numbers DEF ByPointer, Sound
    <3>3. CASE at[u] = "referencing"
      BY <1>2, <2>3, <3>1, <3>2, <3>3 DEF Sound, HandleInv, Pointing
    <3>4. CASE at[u] = "dereferencing"
      BY <2>4, <3>1, <3>2, <3>4 DEF Claim
    <3> QED BY <3>2, <3>3, <3>4
  <2> QED BY <1>1, <1>3, <1>4, <1>5, <1>7, <1>8, <2>2, <2>3, <2>4, <2>5, FreeKeeps
<1> QED BY <1>9, <1>10

\* ObDereferenceObject gives the reference back to the slot that counted it.
LEMMA HandlesDereference ==
  ASSUME Sound, LifeInv', MayRace = FALSE, NEW t \in Threads, Step(t), NameOf' = NameOf,
         Dereference(t)
  PROVE  HandleInv'
<1> PICK p, d : p = pin[t] /\ d = dispatch_handle[p]
  OBVIOUS
<1>1. at[t] = "dereferencing" /\ p \in Objects /\ ByPointer(p)
  BY DEF Dereference, Sound, LifeInv, CallInv, ByPointer
<1>2. /\ d \in Slots /\ table[d].object = p /\ Handle0(p) = d /\ Open(d)
      /\ \A x \in Slots : table[x].object = p => x = d
  BY <1>1, Referred
<1>3. /\ Goto(t, "idle", NoObject, NoSlot) /\ ReleaseHandle(d, <<p>>)
      /\ UNCHANGED <<dispatch_handle, owned, owner, referenced, purged>>
  BY <1>2 DEF Dereference, Return, guest
<1>4. /\ at'[t] = "idle" /\ pin'[t] = NoObject /\ arg'[t] = NoSlot
      /\ \A u \in Threads \ {t} : pin'[u] = pin[u] /\ at'[u] = at[u] /\ arg'[u] = arg[u]
      /\ \A u \in Threads \ {t} : Claim(u)' = Claim(u)
      /\ Claim(t) = d /\ Claim(t)' = NoSlot
  BY <1>1, <1>3, OthersStay DEF Sound, Claim
<1>5. \A x \in Slots : Open(x) => table[x].refs >= 1
  BY DEF Sound, HandleInv, Counted
<1>6. \A z \in Objects : ByPointer(z)' => ByPointer(z)
  BY <1>3, <1>4 DEF ByPointer
<1>7. \A u \in Threads \ {t} : at[u] \notin {"lookup", "unretain", "retain"}
  BY Others
<1>8. CASE table[d].refs # 1
  <2>1. /\ \A x \in Slots : table'[x].object = table[x].object
        /\ table'[d].refs = table[d].refs - 1
        /\ \A x \in Slots \ {d} : table'[x].refs = table[x].refs
        /\ UNCHANGED <<handles_, stale>>
    BY <1>2, <1>3, <1>8, SlotReleased DEF Sound
  <2>2. Counted'
    <3>1. ASSUME NEW x \in Slots, NEW z \in Objects, Open(x), z = table[x].object
          PROVE  Accounted(x, z, d, NoSlot)
      <4>1. table[x].refs >= 1 /\ table[x].refs \in Int /\ owned[x] \in Nat
            /\ NoSlot # x /\ referenced[z] \in Nat
        BY <3>1, <1>2, <1>3, <1>5, <1>8, <2>1, Numbers DEF Sound
      <4> QED BY <3>1, <1>2, <1>3, <1>5, <1>8, <2>1, <4>1 DEF Accounted
    <3> QED BY <1>3, <1>4, <2>1, <3>1, CountedStep DEF Sound
  <2>3. GuestHandlesStayOpen' /\ (Names = {} => \A x \in Slots : owned'[x] <= 1)
    BY <1>3, <2>1 DEF Sound, HandleInv, GuestHandlesStayOpen, Open
  <2>4. ASSUME NEW u \in Threads \ {t}
        PROVE  /\ at[u] = "referencing" => owned'[arg[u]] > 0
               /\ at[u] = "publish" => owned'[dispatch_handle[pin[u]]] = 0 /\ NoObject # pin[u]
               /\ at[u] \in {"add", "close_source"} /\ arg[u] # NoSlot =>
                     owned'[arg[u]] = 0 /\ NoSlot # arg[u]
    BY <1>3, Others DEF Sound, LifeInv, CallInv
  <2> QED BY <1>3, <1>4, <1>6, <1>7, <2>1, <2>2, <2>3, <2>4, QuietKeeps DEF Sound
<1>9. CASE table[d].refs = 1
  <2>1. table' = [table EXCEPT ![d] = FreeSlot] /\ RemoveHandle(d, <<p>>)
    BY <1>3, <1>9 DEF ReleaseHandle
  <2>2. /\ table'[d].object = NoObject /\ \A x \in Slots \ {d} : table'[x] = table[x]
        /\ \A o \in Objects \ {p} : handles_'[o] = handles_[o]
    BY <1>1, <1>2, <2>1, SlotFreed DEF Sound
  <2>3. owned[d] = 0 /\ Cardinality(Claims(d)) = 1 /\ referenced[p] = 0
    <3>1. /\ 1 = owned[d] + Cardinality(Claims(d)) + referenced[p]
          /\ Cardinality(Claims(d)) \in Nat /\ referenced[p] \in Nat /\ owned[d] \in Nat
      BY <1>1, <1>2, <1>9, ClaimsAreNumbers, Numbers DEF Sound, HandleInv, Counted
    <3>2. Cardinality(Claims(d)) >= 1
      BY <1>4, ClaimCounts
    <3> QED BY <3>1, <3>2
  <2>4. \A u \in Threads \ {t} : Claim(u) # d
    <3>1. PICK q : Claims(d) = {q}
      BY <2>3, ClaimsAreNumbers, FS_Singleton
    <3> QED BY <1>4, <3>1 DEF Claims
  <2>5. ~ByPointer(p)'
    <3> SUFFICES ASSUME NEW u \in Threads \ {t}, pin[u] = p, at[u] \in {"referencing", "dereferencing"}
                 PROVE  FALSE
      BY <1>3, <1>4, <2>3 DEF ByPointer
    <3>1. CASE at[u] = "referencing"
      BY <2>3, <3>1 DEF Sound, HandleInv, Pointing
    <3>2. CASE at[u] = "dereferencing"
      BY <2>4, <3>2 DEF Claim
    <3> QED BY <3>1, <3>2
  <2> QED BY <1>1, <1>2, <1>3, <1>4, <1>7, <2>2, <2>3, <2>4, <2>5, FreeKeeps
<1> QED BY <1>8, <1>9

\* DUPLICATE_CLOSE_SOURCE removes a handle that is the caller's alone.
LEMMA HandlesCloseSource ==
  ASSUME Sound, LifeInv', MayRace = FALSE, NEW t \in Threads, Step(t), NameOf' = NameOf,
         CloseSource(t)
  PROVE  HandleInv'
<1> PICK a, p : a = arg[t] /\ p = table[a].object
  OBVIOUS
<1>1. /\ at[t] = "close_source" /\ table' = [table EXCEPT ![a] = FreeSlot]
      /\ RemoveHandle(a, <<>>) /\ Goto(t, "idle", NoObject, NoSlot)
      /\ UNCHANGED <<dispatch_handle, owned, owner, referenced, purged>>
  BY DEF CloseSource, Return, guest
<1>2. /\ at'[t] = "idle" /\ pin'[t] = NoObject /\ arg'[t] = NoSlot
      /\ \A u \in Threads \ {t} : pin'[u] = pin[u] /\ at'[u] = at[u] /\ arg'[u] = arg[u]
      /\ \A u \in Threads \ {t} : Claim(u)' = Claim(u)
      /\ Claim(t) = a
  BY <1>1, OthersStay DEF Sound, Claim
<1>3. a \in Slots /\ a # NoSlot
  BY <1>1, Numbers DEF Sound, LifeInv, CallInv
<1>4. Open(a) /\ p \in Objects
  <2>1. Open(a)
    BY <1>2, <1>3 DEF Sound, HandleInv, Claimed
  <2> QED BY <1>3, <2>1, Numbers DEF Sound
<1>5. owned[a] = 0 /\ Claims(a) = {t} /\ ~ByPointer(p)
  BY <1>1, <1>3 DEF Sound, HandleInv, Sources
<1>6. /\ table'[a].object = NoObject /\ \A x \in Slots \ {a} : table'[x] = table[x]
      /\ \A o \in Objects \ {p} : handles_'[o] = handles_[o]
  BY <1>1, <1>3, <1>4, SlotFreed DEF Sound
<1>7. \A u \in Threads \ {t} : Claim(u) # a /\ at[u] \notin {"lookup", "unretain", "retain"}
  BY <1>5, Others DEF Claims
<1>8. ~ByPointer(p)'
  BY <1>1, <1>2, <1>5 DEF ByPointer
<1> QED BY <1>1, <1>2, <1>3, <1>4, <1>5, <1>6, <1>7, <1>8, FreeKeeps

\* The title ends: nobody has a handle any more.
LEMMA HandlesPurge ==
  ASSUME Sound, LifeInv', NameOf' = NameOf, PurgeAllObjects
  PROVE  HandleInv'
<1>1. /\ Names = {} /\ \A t \in Threads : at[t] = "idle"
      /\ table' = [s \in Slots |-> IF table[s].object = NoObject THEN table[s]
                                   ELSE [object |-> NoObject, refs |-> -1]]
      /\ owned' = [s \in Slots |-> 0] /\ referenced' = [o \in Objects |-> 0]
      /\ UNCHANGED call
  BY DEF PurgeAllObjects, Kinds
<1>2. \A s \in Slots : ~Open(s)' /\ owned'[s] = 0
  BY <1>1 DEF Open
<1>3. \A t \in Threads : at'[t] = "idle" /\ Claim(t)' = NoSlot
  BY <1>1 DEF call, Claim
<1>4. \A o \in Objects : ~ByPointer(o)'
  BY <1>1, <1>3 DEF ByPointer
<1>5. Counted' /\ Claimed' /\ Pointing' /\ Publishing' /\ Sources' /\ ByName'
  BY <1>2, <1>3, <1>4 DEF Counted, Claimed, Pointing, Publishing, Sources, ByName
<1> QED BY <1>2, <1>5 DEF HandleInv, GuestHandlesStayOpen

LEMMA HandleInit == Init => HandleInv
<1> SUFFICES ASSUME Init PROVE HandleInv
  OBVIOUS
<1>1. \A s \in Slots : ~Open(s) /\ owned[s] = 0
  BY DEF Init, Open, FreeSlot
<1>2. \A t \in Threads : at[t] = "idle" /\ Claim(t) = NoSlot
  BY DEF Init, Claim
<1>3. \A o \in Objects : ~ByPointer(o)
  BY <1>2 DEF Init, ByPointer
<1>4. Counted /\ Claimed /\ Pointing /\ Publishing /\ Sources /\ ByName
  BY <1>1, <1>2, <1>3 DEF Counted, Claimed, Pointing, Publishing, Sources, ByName
<1> QED BY <1>1, <1>4 DEF HandleInv, GuestHandlesStayOpen

LEMMA HandleStep ==
  ASSUME MayRace = FALSE, MayMix = FALSE, Sound, LifeInv', [Next]_vars
  PROVE  HandleInv'
<1>1. ASSUME NEW t \in Threads, Step(t), NameOf' = NameOf PROVE HandleInv'
  <2>1. ASSUME NEW s \in Slots, NEW kind \in AllCalls, Lookup(t, s, kind) PROVE HandleInv'
    <3>1. kind \in {"use", "duplicate", "duplicate_close", "reference"}
      BY <2>1 DEF Lookup, NextStage
    <3> QED BY <1>1, <2>1, <3>1, HandlesMove, HandlesCloseLater, HandlesReferenceLater
  <2>2. CASE LookupNamed(t) \/ Used(t)
    BY <1>1, <2>2, HandlesMove
  <2>3. CASE Unretain(t) \/ ReturnExisting(t)
    BY <1>1, <2>3, HandlesUnretain, HandlesReturnExisting
  <2>4. CASE NewObject(t) \/ Publish(t)
    BY <1>1, <2>4, HandlesNewObject, HandlesPublish
  <2>5. CASE Duplicate(t) \/ CloseSource(t)
    BY <1>1, <2>5, HandlesDuplicate, HandlesCloseSource
  <2>6. CASE Reference(t) \/ Dereference(t)
    BY <1>1, <2>6, HandlesReference, HandlesDereference
  <2>7. ASSUME NEW o \in Objects, FindName(t, o) \/ NameNotFound(t, o) \/ BeginDereference(t, o)
        PROVE  HandleInv'
    BY <1>1, <2>7, HandlesFindName, HandlesMove, HandlesBeginDereference
  <2>8. ASSUME NEW s \in Slots, Close(t, s) PROVE HandleInv'
    BY <1>1, <2>8, HandlesClose
  <2> QED BY <1>1, <2>1, <2>2, <2>3, <2>4, <2>5, <2>6, <2>7, <2>8 DEF Step
<1>2. ASSUME UNCHANGED vars PROVE HandleInv'
  <2>1. /\ UNCHANGED <<table, handles_, stale, dispatch_handle, purged, NameOf,
                       at, pin, arg, owned, owner, referenced>>
    BY <1>2 DEF vars, tables, objects, call, guest
  <2>2. /\ \A t \in Threads : Claim(t)' = Claim(t)
        /\ \A s \in Slots : (Open(s)' <=> Open(s)) /\ Claims(s)' = Claims(s)
        /\ \A o \in Objects : (ByPointer(o)' <=> ByPointer(o))
        /\ \A o : (SoleHandle(o)' <=> SoleHandle(o)) /\ Handle0(o)' = Handle0(o)
        /\ Names' = Names
    BY <2>1 DEF Claim, Claims, Open, ByPointer, SoleHandle, Handle0, Names
  <2>3. Counted' /\ Claimed'
    BY <2>1, <2>2 DEF Sound, HandleInv, Counted, Claimed
  <2>4. Pointing' /\ Publishing' /\ Sources' /\ ByName'
    BY <2>1 DEF Sound, HandleInv, Pointing, Publishing, Sources, ByName, ByPointer,
                SoleHandle, Claims, Claim, Names, Handle0
  <2> QED BY <2>1, <2>2, <2>3, <2>4 DEF Sound, HandleInv, GuestHandlesStayOpen
<1> QED BY <1>1, <1>2, HandlesPurge DEF Next

\* While an object is referenced by pointer only through its one handle and calls
\* on named objects do not overlap, what the guest was given and has not closed
\* stays open and stands for the object it was given for, whatever the guest does
\* and however calls overlap otherwise.
THEOREM GuestKeepsItsHandles ==
  ASSUME MayRace = FALSE, MayMix = FALSE
  PROVE  Spec => []GuestHandlesStayOpen
<1>1. Init => HandleInv
  BY HandleInit
<1>2. LifeInv /\ LifeInv' /\ NamesInv /\ HandleInv /\ [Next]_vars => HandleInv'
  BY HandleStep DEF Sound
<1>3. HandleInv => GuestHandlesStayOpen
  BY DEF HandleInv
<1> QED BY <1>1, <1>2, <1>3, LifeAlways, NamesAlways, PTL DEF Spec
=============================================================================
