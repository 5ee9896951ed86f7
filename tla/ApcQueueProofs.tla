--------------------------- MODULE ApcQueueProofs ---------------------------
(***************************************************************************)
(* Proofs about the APC queues, while nobody queues to a thread that has   *)
(* begun to exit: the lists are sound, the heap is exact, and the user     *)
(* list keeps the safety part of ApcContract.                              *)
(*                                                                         *)
(* Lists live in links.  A list is the ring of a sequence: each node links *)
(* to the next and back, with the head at both ends.  What inserting and   *)
(* removing do to a ring is proved of the links alone; what Chain finds    *)
(* along a path is proved by looking at the first place it could differ.   *)
(* The invariant, IInv, says which sequences there are, who holds an APC   *)
(* outside of them, and what the rundown of a yanked list has left.        *)
(***************************************************************************)
EXTENDS ApcQueue, FiniteSetTheorems, NaturalsInduction, SequenceTheorems, TLAPS

-----------------------------------------------------------------------------
(* Walks along the links *)

\* The recursion of Chain: the nodes one comes to from n.
Follows(next, n, K, node) ==
    node = [i \in 0 .. K |-> IF i = 0 THEN n ELSE next[node[i - 1]]]

WalkOf(next, n, K) == CHOOSE node : Follows(next, n, K, node)

EndsAt(node, last, i) == node[i] = last /\ \A j \in 0 .. i - 1 : node[j] # last

Walk(next, n, last) ==
    LET K    == Cardinality(Nodes)
        node == WalkOf(next, n, K)
    IN  IF \E i \in DOMAIN node : EndsAt(node, last, i)
        THEN [i \in 1 .. CHOOSE k \in DOMAIN node : EndsAt(node, last, k) |-> node[i - 1]]
        ELSE [i \in 1 .. K + 1 |-> node[i - 1]]

\* Chain is a walk along flink, in this state and in the next.
LEMMA ChainIsWalk ==
  /\ \A n, last : Chain(n, last) = Walk(flink, n, last)
  /\ \A n, last : Chain(n, last)' = Walk(flink', n, last)
BY DEF Chain, Walk, WalkOf, Follows, EndsAt

\* A set of numbers that is not empty has a smallest one.
LEMMA Smallest ==
  ASSUME NEW B \in SUBSET Nat, B # {}
  PROVE  \E m \in B : \A k \in B : m <= k
<1>1. PICK m \in B : \A k \in B : <<k, m>> \notin OpToRel(<, Nat)
  BY NatLessThanWellFounded, WFMin
<1>2. \A k, n \in Nat : k < n => <<k, n>> \in OpToRel(<, Nat)
  BY DEF OpToRel
<1>3. \A k \in B : m <= k
  <2> SUFFICES ASSUME NEW k \in B, ~(m <= k)
               PROVE  FALSE
    OBVIOUS
  <2>1. k \in Nat /\ m \in Nat
    OBVIOUS
  <2>2. k < m
    BY <2>1
  <2> QED
    BY <1>1, <1>2, <2>1, <2>2
<1> QED
  BY <1>3

\* The recursion has a solution for every length.
LEMMA WalksExist ==
  ASSUME NEW next, NEW n, NEW K \in Nat
  PROVE  \E node : Follows(next, n, K, node)
<1> DEFINE B == {k \in Nat : ~ \E node : Follows(next, n, k, node)}
<1>1. CASE B = {}
  BY <1>1
<1>2. CASE B # {}
  <2>1. PICK m \in B : \A k \in B : m <= k
    BY <1>2, Smallest
  <2>2. CASE m = 0
    <3> DEFINE f == [i \in 0 .. 0 |-> n]
    <3>1. Follows(next, n, 0, f)
      BY DEF Follows
    <3> QED
      BY <2>1, <2>2, <3>1
  <2>3. CASE m # 0
    <3>1. m - 1 \in Nat /\ m - 1 \notin B
      BY <2>1, <2>3
    <3>2. PICK f : Follows(next, n, m - 1, f)
      BY <3>1
    <3> DEFINE g == [i \in 0 .. m |-> IF i = m THEN next[f[m - 1]] ELSE f[i]]
    <3>3. \A i \in 0 .. m - 1 : f[i] = IF i = 0 THEN n ELSE next[f[i - 1]]
      BY <3>2 DEF Follows
    <3>4. \A i \in 0 .. m : g[i] = IF i = 0 THEN n ELSE next[g[i - 1]]
      BY <2>1, <2>3, <3>3
    <3>5. Follows(next, n, m, g)
      BY <3>4 DEF Follows
    <3> QED
      BY <2>1, <3>5
  <2> QED
    BY <2>2, <2>3
<1> QED
  BY <1>1, <1>2

\* A path: the elements of s in their order, and then last.
Path(next, s, last) ==
    /\ last \notin ToSet(s)
    /\ \A i \in 1 .. Len(s) : next[s[i]] = IF i = Len(s) THEN last ELSE s[i + 1]

First(s, last) == IF s = <<>> THEN last ELSE s[1]

\* Whoever walks along a path sees it.
LEMMA WalkAlongPath ==
  ASSUME NEW next, NEW s \in Seq(Nodes), IsInjective(s), NEW last, Path(next, s, last)
  PROVE  Walk(next, First(s, last), last) = s
<1> DEFINE K == Cardinality(Nodes)
           n == First(s, last)
           node == WalkOf(next, n, K)
           To(i) == IF i = Len(s) THEN last ELSE s[i + 1]
<1>1. K \in Nat /\ Len(s) \in 0 .. K
  <2>1. IsFiniteSet(Nodes)
    <3>1. IsFiniteSet(Heads)
      <4>1. IsFiniteSet({} \union {"kernel_list"})
        BY FS_EmptySet, FS_AddElement
      <4>2. IsFiniteSet(({} \union {"kernel_list"}) \union {"user_list"})
        BY <4>1, FS_AddElement
      <4>3. Heads = ({} \union {"kernel_list"}) \union {"user_list"}
        BY DEF Heads
      <4> QED
        BY <4>2, <4>3
    <3> QED
      BY <3>1, ApcQueueAssumption, FS_Union DEF Nodes
  <2>2. s \in Injection(1 .. Len(s), Nodes)
    BY DEF Injection
  <2>3. Cardinality(1 .. Len(s)) = Len(s)
    <3>1. 1 \in Int /\ Len(s) \in Int /\ Len(s) >= 0
      OBVIOUS
    <3>2. Cardinality(1 .. Len(s)) = IF 1 > Len(s) THEN 0 ELSE Len(s) - 1 + 1
      BY <3>1, FS_Interval
    <3> QED
      BY <3>1, <3>2
  <2> QED
    BY <2>1, <2>2, <2>3, FS_Injection, FS_CardinalityType
<1>2. Follows(next, n, K, node)
  BY <1>1, WalksExist DEF WalkOf
<1> HIDE DEF K, node
<1>3. /\ DOMAIN node = 0 .. K
      /\ \A i \in 0 .. K : node[i] = IF i = 0 THEN n ELSE next[node[i - 1]]
  BY <1>2 DEF Follows
<1>4. \A i \in 0 .. Len(s) : node[i] = To(i)
  <2> DEFINE B == {i \in 0 .. Len(s) : node[i] # To(i)}
  <2>1. CASE B # {}
    <3>1. PICK m \in B : \A k \in B : m <= k
      <4>1. B \in SUBSET Nat
        OBVIOUS
      <4> HIDE DEF B
      <4> QED
        BY <2>1, <4>1, Smallest
    <3>2. CASE m = 0
      <4>1. node[0] = n
        BY <1>1, <1>3
      <4>2. n = To(0)
        BY DEF First
      <4> QED
        BY <3>1, <3>2, <4>1, <4>2
    <3>3. CASE m # 0
      <4>1. m - 1 \in 0 .. Len(s) /\ m - 1 \notin B /\ m - 1 # Len(s) /\ m \in 1 .. Len(s)
        BY <3>1, <3>3
      <4>2. node[m - 1] = s[m]
        BY <4>1
      <4>3. node[m] = next[s[m]]
        BY <1>1, <1>3, <4>1, <4>2
      <4>4. next[s[m]] = To(m)
        BY <4>1 DEF Path
      <4> QED
        BY <3>1, <4>3, <4>4
    <3> QED
      BY <3>2, <3>3
  <2> QED
    BY <2>1
<1>5. \A i \in 0 .. Len(s) - 1 : node[i] = s[i + 1] /\ node[i] # last
  <2> TAKE i \in 0 .. Len(s) - 1
  <2>1. i \in 0 .. Len(s) /\ i # Len(s) /\ i + 1 \in DOMAIN s
    OBVIOUS
  <2> QED
    BY <1>4, <2>1 DEF Path, ToSet
<1>6. node[Len(s)] = last
  BY <1>4
<1>7. \A k \in 0 .. K : EndsAt(node, last, k) <=> k = Len(s)
  <2> TAKE k \in 0 .. K
  <2>1. CASE k < Len(s)
    BY <1>5, <2>1 DEF EndsAt
  <2>2. CASE k = Len(s)
    BY <1>5, <1>6, <2>2 DEF EndsAt
  <2>3. CASE k > Len(s)
    <3>1. Len(s) \in 0 .. k - 1
      BY <2>3
    <3> QED
      BY <1>6, <2>3, <3>1 DEF EndsAt
  <2> QED
    BY <2>1, <2>2, <2>3
<1>8. Walk(next, n, last) = [i \in 1 .. Len(s) |-> node[i - 1]]
  <2>1. (CHOOSE k \in DOMAIN node : EndsAt(node, last, k)) = Len(s)
    BY <1>1, <1>3, <1>7
  <2>2. \E k \in DOMAIN node : EndsAt(node, last, k)
    BY <1>1, <1>3, <1>7
  <2> QED
    BY <2>1, <2>2 DEF Walk, node, K
<1>9. \A i \in 1 .. Len(s) : node[i - 1] = s[i]
  BY <1>5
<1>10. s = [i \in 1 .. Len(s) |-> s[i]]
  OBVIOUS
<1> QED
  BY <1>8, <1>9, <1>10

-----------------------------------------------------------------------------
(* Rings *)

\* The list as a ring: the head, the entries in their order, and the head again.
Node(list, s, i) == IF i \in 1 .. Len(s) THEN s[i] ELSE list

Ring(next, prev, list, s) ==
    \A i \in 0 .. Len(s) : /\ next[Node(list, s, i)] = Node(list, s, i + 1)
                           /\ prev[Node(list, s, i + 1)] = Node(list, s, i)

\* An APC behind the first p, and the one at p taken out.
With(s, p, a) ==
    [i \in 1 .. Len(s) + 1 |-> IF i <= p THEN s[i] ELSE IF i = p + 1 THEN a ELSE s[i - 1]]

LEMMA RingOfWalk ==
  ASSUME NEW next, NEW prev, NEW list \in Heads, NEW s \in Seq(Apcs), IsInjective(s),
         Ring(next, prev, list, s)
  PROVE  Walk(next, next[list], list) = s
<1>1. s \in Seq(Nodes)
  BY DEF Nodes
<1>2. list \notin ToSet(s)
  BY ApcQueueAssumption DEF ToSet
<1>3. \A i \in 1 .. Len(s) : next[s[i]] = IF i = Len(s) THEN list ELSE s[i + 1]
  <2> TAKE i \in 1 .. Len(s)
  <2> QED
    BY DEF Ring, Node
<1>4. next[list] = First(s, list)
  <2>1. next[list] = Node(list, s, 1)
    BY DEF Ring, Node
  <2> QED
    BY <2>1 DEF First, Node
<1> QED
  BY <1>1, <1>2, <1>3, <1>4, WalkAlongPath DEF Path

\* The nodes of a ring are different from each other.
LEMMA NodesDiffer ==
  ASSUME NEW list \in Heads, NEW s \in Seq(Apcs), IsInjective(s)
  PROVE  /\ \A i \in 0 .. Len(s) + 1 : Node(list, s, i) \in Nodes
         /\ \A i, j \in 0 .. Len(s) : Node(list, s, i) = Node(list, s, j) => i = j
         /\ \A i, j \in 1 .. Len(s) + 1 : Node(list, s, i) = Node(list, s, j) => i = j
         /\ \A i \in 0 .. Len(s) + 1 : Node(list, s, i) \in {list} \union ToSet(s)
         /\ \A n \in {list} \union ToSet(s) : \E i \in 0 .. Len(s) : n = Node(list, s, i)
<1>1. list \in Nodes /\ list \notin Apcs
  BY ApcQueueAssumption DEF Nodes
<1>2. \A i \in 1 .. Len(s) : s[i] \in Apcs /\ s[i] # list /\ s[i] \in Nodes /\ s[i] \in ToSet(s)
  BY <1>1 DEF Nodes, ToSet
<1>3. \A i, j \in 1 .. Len(s) : s[i] = s[j] => i = j
  BY DEF IsInjective
<1>4. \A i : Node(list, s, i) = IF i \in 1 .. Len(s) THEN s[i] ELSE list
  BY DEF Node
<1>5. \A i \in 0 .. Len(s) + 1 : Node(list, s, i) \in Nodes
  BY <1>1, <1>2, <1>4
<1>6. \A i, j \in 0 .. Len(s) : Node(list, s, i) = Node(list, s, j) => i = j
  BY <1>2, <1>3, <1>4
<1>7. \A i, j \in 1 .. Len(s) + 1 : Node(list, s, i) = Node(list, s, j) => i = j
  BY <1>2, <1>3, <1>4
<1>8. \A i \in 0 .. Len(s) + 1 : Node(list, s, i) \in {list} \union ToSet(s)
  BY <1>2, <1>4
<1>9. ASSUME NEW n \in {list} \union ToSet(s)
      PROVE  \E i \in 0 .. Len(s) : n = Node(list, s, i)
  <2>1. CASE n = list
    BY <1>4, <2>1
  <2>2. CASE n \in ToSet(s)
    <3>1. PICK i \in 1 .. Len(s) : n = s[i]
      BY <2>2 DEF ToSet
    <3> QED
      BY <1>4, <3>1
  <2> QED
    BY <2>1, <2>2
<1> QED
  BY <1>5, <1>6, <1>7, <1>8, <1>9

\* A ring whose links nobody touched stays one.
LEMMA RingElsewhere ==
  ASSUME NEW list \in Heads, NEW s \in Seq(Apcs), IsInjective(s),
         NEW next, NEW prev, NEW next2, NEW prev2, Ring(next, prev, list, s),
         \A n \in {list} \union ToSet(s) : next2[n] = next[n] /\ prev2[n] = prev[n]
  PROVE  Ring(next2, prev2, list, s)
<1>1. \A i \in 0 .. Len(s) + 1 : Node(list, s, i) \in {list} \union ToSet(s)
  BY NodesDiffer
<1>2. ASSUME NEW i \in 0 .. Len(s)
      PROVE  /\ next2[Node(list, s, i)] = Node(list, s, i + 1)
             /\ prev2[Node(list, s, i + 1)] = Node(list, s, i)
  <2>1. i \in 0 .. Len(s) + 1 /\ i + 1 \in 0 .. Len(s) + 1
    OBVIOUS
  <2> QED
    BY <1>1, <2>1 DEF Ring
<1> QED
  BY <1>2 DEF Ring

-----------------------------------------------------------------------------
(* Inserting *)

LEMMA WithProperties ==
  ASSUME NEW s \in Seq(Apcs), IsInjective(s), NEW p \in 0 .. Len(s), NEW a \in Apcs,
         a \notin ToSet(s)
  PROVE  /\ With(s, p, a) \in Seq(Apcs) /\ Len(With(s, p, a)) = Len(s) + 1
         /\ IsInjective(With(s, p, a))
         /\ ToSet(With(s, p, a)) = ToSet(s) \union {a}
<1> DEFINE r == With(s, p, a)
<1>1. \A i \in 1 .. Len(s) : s[i] \in Apcs /\ s[i] # a /\ s[i] \in ToSet(s)
  BY DEF ToSet
<1>2. \A i \in 1 .. Len(s) + 1 :
         r[i] = IF i <= p THEN s[i] ELSE IF i = p + 1 THEN a ELSE s[i - 1]
  BY DEF With
<1>3. r \in Seq(Apcs) /\ Len(r) = Len(s) + 1 /\ DOMAIN r = 1 .. Len(s) + 1
  <2>1. \A i \in 1 .. Len(s) + 1 :
           (IF i <= p THEN s[i] ELSE IF i = p + 1 THEN a ELSE s[i - 1]) \in Apcs
    BY <1>1
  <2> QED
    BY <2>1 DEF With
<1> HIDE DEF r
<1>4. IsInjective(r)
  <2>1. \A i, j \in 1 .. Len(s) : s[i] = s[j] => i = j
    BY DEF IsInjective
  <2>2. ASSUME NEW i \in 1 .. Len(s) + 1, NEW j \in 1 .. Len(s) + 1, r[i] = r[j]
        PROVE  i = j
    BY <1>1, <1>2, <2>1, <2>2
  <2> QED
    BY <1>3, <2>2 DEF IsInjective
<1>5. ToSet(r) = ToSet(s) \union {a}
  <2>1. ASSUME NEW i \in 1 .. Len(s) + 1
        PROVE  r[i] \in ToSet(s) \union {a}
    BY <1>1, <1>2
  <2>2. a = r[p + 1] /\ p + 1 \in 1 .. Len(s) + 1
    BY <1>2
  <2>3. ASSUME NEW i \in 1 .. Len(s)
        PROVE  \E j \in 1 .. Len(s) + 1 : r[j] = s[i]
    <3>1. CASE i <= p
      BY <1>2, <3>1
    <3>2. CASE i > p
      <4>1. i + 1 \in 1 .. Len(s) + 1 /\ r[i + 1] = s[i]
        BY <1>2, <3>2
      <4> QED
        BY <4>1
    <3> QED
      BY <3>1, <3>2
  <2> QED
    BY <1>3, <2>1, <2>2, <2>3 DEF ToSet
<1> QED
  BY <1>3, <1>4, <1>5 DEF r

\* The nodes of the longer ring.
LEMMA WithNodes ==
  ASSUME NEW list \in Heads, NEW s \in Seq(Apcs), IsInjective(s), NEW p \in 0 .. Len(s),
         NEW a \in Apcs, a \notin ToSet(s), NEW i \in 0 .. Len(s) + 2
  PROVE  Node(list, With(s, p, a), i) =
            IF i <= p THEN Node(list, s, i)
            ELSE IF i = p + 1 THEN a ELSE Node(list, s, i - 1)
BY WithProperties DEF Node, With

\* InsertBehind makes a ring of the longer sequence.
LEMMA RingInsert ==
  ASSUME NEW list \in Heads, NEW s \in Seq(Apcs), IsInjective(s), NEW p \in 0 .. Len(s),
         NEW a \in Apcs, a \notin ToSet(s),
         NEW next \in [Nodes -> Nodes], NEW prev \in [Nodes -> Nodes],
         Ring(next, prev, list, s), NEW x, x = Node(list, s, p)
  PROVE  Ring([next EXCEPT ![a] = next[x], ![x] = a], [prev EXCEPT ![a] = x, ![next[x]] = a],
              list, With(s, p, a))
<1> DEFINE N(i) == Node(list, s, i)
           R(i) == Node(list, With(s, p, a), i)
           y == next[x]
           next2 == [next EXCEPT ![a] = y, ![x] = a]
           prev2 == [prev EXCEPT ![a] = x, ![y] = a]
<1>1. /\ \A i \in 0 .. Len(s) + 1 : N(i) \in Nodes /\ N(i) # a
      /\ \A i, j \in 0 .. Len(s) : N(i) = N(j) => i = j
      /\ \A i, j \in 1 .. Len(s) + 1 : N(i) = N(j) => i = j
  <2>1. a # list /\ \A i \in 1 .. Len(s) : s[i] # a
    BY ApcQueueAssumption DEF ToSet
  <2>2. \A i : N(i) # a
    BY <2>1 DEF Node
  <2> QED
    BY <2>2, NodesDiffer
<1>2. \A i \in 0 .. Len(s) : next[N(i)] = N(i + 1) /\ prev[N(i + 1)] = N(i)
  BY DEF Ring
<1>3. \A i \in 0 .. Len(s) + 2 :
         R(i) = IF i <= p THEN N(i) ELSE IF i = p + 1 THEN a ELSE N(i - 1)
  BY WithNodes
<1>4. y = N(p + 1) /\ x = N(p) /\ a \in Nodes
  BY <1>2 DEF Nodes
<1>5. Len(With(s, p, a)) = Len(s) + 1
  BY WithProperties
<1> HIDE DEF N, R, y
<1>6. \A n \in Nodes : /\ next2[n] = IF n = x THEN a ELSE IF n = a THEN y ELSE next[n]
                       /\ prev2[n] = IF n = y THEN a ELSE IF n = a THEN x ELSE prev[n]
  OBVIOUS
<1>7. ASSUME NEW i \in 0 .. Len(s) + 1
      PROVE  next2[R(i)] = R(i + 1) /\ prev2[R(i + 1)] = R(i)
  <2> Len(s) \in Nat /\ p \in Nat /\ p <= Len(s) /\ i \in Nat /\ i <= Len(s) + 1
    OBVIOUS
  <2> HIDE DEF next2, prev2
  <2>1. CASE i < p
    <3>1. /\ R(i) = N(i) /\ R(i + 1) = N(i + 1) /\ N(i) # x /\ N(i + 1) # y
      BY <1>1, <1>3, <1>4, <2>1
    <3> QED
      BY <1>1, <1>2, <1>6, <2>1, <3>1
  <2>2. CASE i = p
    <3>1. R(i) = x /\ R(i + 1) = a /\ a # y
      BY <1>1, <1>3, <1>4, <2>2
    <3> QED
      BY <1>1, <1>4, <1>6, <3>1
  <2>3. CASE i = p + 1
    <3>1. R(i) = a /\ R(i + 1) = y /\ a # x
      BY <1>1, <1>3, <1>4, <2>3
    <3> QED
      BY <1>1, <1>4, <1>6, <3>1
  <2>4. CASE i > p + 1
    <3>1. R(i) = N(i - 1) /\ R(i + 1) = N(i) /\ N(i - 1) # x /\ N(i) # y
      <4>1. R(i) = N(i - 1)
        BY <1>3, <2>4
      <4>2. R(i + 1) = N(i)
        BY <1>3, <2>4
      <4>3. N(i - 1) # x
        BY <1>1, <1>4, <2>4
      <4>4. N(i) # y
        BY <1>1, <1>4, <2>4
      <4> QED
        BY <4>1, <4>2, <4>3, <4>4
    <3>2. next[N(i - 1)] = N(i) /\ prev[N(i)] = N(i - 1)
      <4>1. i - 1 \in 0 .. Len(s) /\ i - 1 + 1 = i
        BY <2>4
      <4> QED
        BY <1>2, <4>1
    <3> QED
      BY <1>1, <1>6, <2>4, <3>1, <3>2
  <2> QED
    BY <2>1, <2>2, <2>3, <2>4
<1> QED
  BY <1>5, <1>7 DEF Ring, R, y

-----------------------------------------------------------------------------
(* Taking out *)

LEMMA RemoveAtProperties ==
  ASSUME NEW s \in Seq(Apcs), IsInjective(s), NEW p \in 1 .. Len(s)
  PROVE  /\ RemoveAt(s, p) \in Seq(Apcs) /\ Len(RemoveAt(s, p)) = Len(s) - 1
         /\ \A i \in 1 .. Len(s) - 1 : RemoveAt(s, p)[i] = IF i < p THEN s[i] ELSE s[i + 1]
         /\ IsInjective(RemoveAt(s, p))
         /\ ToSet(RemoveAt(s, p)) = ToSet(s) \ {s[p]}
<1> DEFINE a == SubSeq(s, 1, p - 1)
           b == SubSeq(s, p + 1, Len(s))
           r == RemoveAt(s, p)
<1>1. /\ a \in Seq(Apcs) /\ Len(a) = p - 1 /\ \A i \in 1 .. p - 1 : a[i] = s[i]
      /\ b \in Seq(Apcs) /\ Len(b) = Len(s) - p /\ \A i \in 1 .. Len(s) - p : b[i] = s[p + i]
  OBVIOUS
<1>2. r = a \o b
  BY DEF RemoveAt
<1> HIDE DEF a, b, r
<1>3. r \in Seq(Apcs) /\ Len(r) = Len(s) - 1 /\ DOMAIN r = 1 .. Len(s) - 1
  BY <1>1, <1>2
<1>4. \A i \in 1 .. p - 1 : r[i] = s[i]
  BY <1>1, <1>2
<1>5. \A i \in p .. Len(s) - 1 : r[i] = s[i + 1]
  BY <1>1, <1>2
<1>6. \A i \in 1 .. Len(s) - 1 : r[i] = IF i < p THEN s[i] ELSE s[i + 1]
  BY <1>4, <1>5
<1>7. \A i, j \in 1 .. Len(s) : s[i] = s[j] => i = j
  BY DEF IsInjective
<1>8. IsInjective(r)
  <2>1. ASSUME NEW i \in 1 .. Len(s) - 1, NEW j \in 1 .. Len(s) - 1, r[i] = r[j]
        PROVE  i = j
    <3>1. /\ i \in 1 .. Len(s) /\ i + 1 \in 1 .. Len(s)
          /\ j \in 1 .. Len(s) /\ j + 1 \in 1 .. Len(s)
      OBVIOUS
    <3> QED
      BY <1>6, <1>7, <2>1, <3>1
  <2> QED
    BY <1>3, <2>1 DEF IsInjective
<1>9. ToSet(r) = ToSet(s) \ {s[p]}
  <2>1. ASSUME NEW i \in 1 .. Len(s) - 1
        PROVE  r[i] \in ToSet(s) \ {s[p]}
    <3>1. i \in 1 .. Len(s) /\ i + 1 \in 1 .. Len(s)
      OBVIOUS
    <3> QED
      BY <1>6, <1>7, <3>1 DEF ToSet
  <2>2. ASSUME NEW i \in 1 .. Len(s), i # p
        PROVE  \E j \in 1 .. Len(s) - 1 : r[j] = s[i]
    <3>1. CASE i < p
      <4>1. i \in 1 .. Len(s) - 1
        BY <3>1
      <4> QED
        BY <1>6, <3>1, <4>1
    <3>2. CASE i > p
      <4>1. i - 1 \in 1 .. Len(s) - 1 /\ ~(i - 1 < p) /\ i - 1 + 1 = i
        BY <3>2
      <4> QED
        BY <1>6, <4>1
    <3> QED
      BY <2>2, <3>1, <3>2
  <2>3. ToSet(s) \ {s[p]} \subseteq ToSet(r)
    <3>1. ASSUME NEW e \in ToSet(s) \ {s[p]}
          PROVE  e \in ToSet(r)
      <4>1. PICK i \in 1 .. Len(s) : s[i] = e
        BY DEF ToSet
      <4>2. PICK j \in 1 .. Len(s) - 1 : r[j] = e
        BY <2>2, <4>1
      <4> QED
        BY <1>3, <4>2 DEF ToSet
    <3> QED
      BY <3>1
  <2>4. ToSet(r) \subseteq ToSet(s) \ {s[p]}
    BY <1>3, <2>1 DEF ToSet
  <2> QED
    BY <2>3, <2>4
<1> QED
  BY <1>3, <1>6, <1>8, <1>9 DEF r

LEMMA RemoveAtNodes ==
  ASSUME NEW list \in Heads, NEW s \in Seq(Apcs), IsInjective(s), NEW p \in 1 .. Len(s),
         NEW i \in 0 .. Len(s)
  PROVE  Node(list, RemoveAt(s, p), i) = Node(list, s, IF i < p THEN i ELSE i + 1)
<1> DEFINE r == RemoveAt(s, p)
<1>1. /\ Len(r) = Len(s) - 1
      /\ \A j \in 1 .. Len(s) - 1 : r[j] = IF j < p THEN s[j] ELSE s[j + 1]
  BY RemoveAtProperties
<1> HIDE DEF r
<1>2. CASE i \in 1 .. Len(s) - 1
  BY <1>1, <1>2 DEF Node, r
<1>3. CASE i = 0
  BY <1>1, <1>3 DEF Node, r
<1>4. CASE i = Len(s)
  BY <1>1, <1>4 DEF Node, r
<1> QED
  BY <1>2, <1>3, <1>4

\* XeRemoveEntryList makes a ring of the shorter sequence.
LEMMA RingRemove ==
  ASSUME NEW list \in Heads, NEW s \in Seq(Apcs), IsInjective(s), NEW p \in 1 .. Len(s),
         NEW next \in [Nodes -> Nodes], NEW prev \in [Nodes -> Nodes],
         Ring(next, prev, list, s), NEW a, a = s[p]
  PROVE  Ring([next EXCEPT ![prev[a]] = next[a]], [prev EXCEPT ![next[a]] = prev[a]],
              list, RemoveAt(s, p))
<1> DEFINE N(i) == Node(list, s, i)
           R(i) == Node(list, RemoveAt(s, p), i)
           x == prev[a]
           y == next[a]
           next2 == [next EXCEPT ![x] = y]
           prev2 == [prev EXCEPT ![y] = x]
<1>1. /\ \A i \in 0 .. Len(s) + 1 : N(i) \in Nodes
      /\ \A i, j \in 0 .. Len(s) : N(i) = N(j) => i = j
      /\ \A i, j \in 1 .. Len(s) + 1 : N(i) = N(j) => i = j
  BY NodesDiffer
<1>2. \A i \in 0 .. Len(s) : next[N(i)] = N(i + 1) /\ prev[N(i + 1)] = N(i)
  BY DEF Ring
<1>3. \A i \in 0 .. Len(s) : R(i) = N(IF i < p THEN i ELSE i + 1)
  BY RemoveAtNodes
<1>4. x = N(p - 1) /\ y = N(p + 1)
  <2>1. a = N(p) /\ p \in 0 .. Len(s) /\ p - 1 \in 0 .. Len(s) /\ p - 1 + 1 = p
    BY DEF Node
  <2> QED
    BY <1>2, <2>1
<1>5. Len(RemoveAt(s, p)) = Len(s) - 1
  BY RemoveAtProperties
<1> HIDE DEF N, R, x, y
<1>6. \A n \in Nodes : /\ next2[n] = IF n = x THEN y ELSE next[n]
                       /\ prev2[n] = IF n = y THEN x ELSE prev[n]
  OBVIOUS
<1>7. ASSUME NEW i \in 0 .. Len(s) - 1
      PROVE  next2[R(i)] = R(i + 1) /\ prev2[R(i + 1)] = R(i)
  <2> Len(s) \in Nat /\ p \in Nat /\ 1 <= p /\ p <= Len(s) /\ i \in Nat /\ i <= Len(s) - 1
    OBVIOUS
  <2> HIDE DEF next2, prev2
  <2>1. CASE i < p - 1
    <3>1. R(i) = N(i) /\ R(i + 1) = N(i + 1)
      BY <1>3, <2>1
    <3>2. N(i) # x /\ N(i + 1) # y
      BY <1>1, <1>4, <2>1
    <3> QED
      BY <1>1, <1>2, <1>6, <2>1, <3>1, <3>2
  <2>2. CASE i = p - 1
    <3>1. R(i) = x /\ R(i + 1) = y
      BY <1>3, <1>4, <2>2
    <3>2. x \in Nodes /\ y \in Nodes
      BY <1>1, <1>4
    <3> QED
      BY <1>6, <3>1, <3>2
  <2>3. CASE i > p - 1
    <3>1. R(i) = N(i + 1) /\ R(i + 1) = N(i + 2)
      <4>1. i + 1 \in 0 .. Len(s) /\ ~(i + 1 < p) /\ ~(i < p) /\ i + 1 + 1 = i + 2
        BY <2>3
      <4> QED
        BY <1>3, <4>1
    <3>2. N(i + 1) # x /\ N(i + 2) # y
      BY <1>1, <1>4, <2>3
    <3>3. next[N(i + 1)] = N(i + 2) /\ prev[N(i + 2)] = N(i + 1)
      <4>1. i + 1 \in 0 .. Len(s) /\ i + 1 + 1 = i + 2
        OBVIOUS
      <4> QED
        BY <1>2, <4>1
    <3>4. N(i + 1) \in Nodes /\ N(i + 2) \in Nodes
      BY <1>1
    <3> QED
      BY <1>6, <3>1, <3>2, <3>3, <3>4
  <2> QED
    BY <2>1, <2>2, <2>3
<1> QED
  BY <1>5, <1>7 DEF Ring, R, x, y

-----------------------------------------------------------------------------
(* The inductive invariant *)

Queued(list) == {a \in Apcs : enqueued[a] /\ apc_mode[a] = list}

InOrder(s) ==
    \A i, j \in DOMAIN s : normal_routine[s[i]] /\ ~normal_routine[s[j]] => j < i

\* s is what is queued in the list, in order.
IsList(list, s) ==
    /\ s \in Seq(Apcs) /\ IsInjective(s)
    /\ Ring(flink, blink, list, s)
    /\ ToSet(s) = Queued(list)
    /\ ToSet(s) \subseteq allocated \union Own
    /\ InOrder(s)

\* The lists the thread still has are lists, and the user list was emptied by
\* the one that began the exit:
Lists ==
    /\ at # "gone" => \E s : IsList("kernel_list", s)
    /\ ~Exiting => \E s : IsList("user_list", s)
    /\ Exiting => Queued("user_list") = {}

\* the list of an APC goes by its routine:
Modes ==
    /\ \A a \in Apcs : ~normal_routine[a] => apc_mode[a] = "kernel_list"
    /\ \A a \in Heap : normal_routine[a] => apc_mode[a] = "user_list"

\* an APC that is in somebody's hands is nowhere else:
Hands ==
    /\ \A t \in Actors : in_hand[t] # None => in_hand[t] \in allocated /\ ~enqueued[in_hand[t]]
    /\ \A t, u \in Actors : in_hand[t] = in_hand[u] /\ in_hand[t] # None => t = u
    /\ Exiting => \A t \in Actors : in_hand[t] = None

\* what the rundown has still to visit, linked as the list was:
Remaining(q) ==
    /\ q \in Seq(Apcs) /\ q # <<>> /\ IsInjective(q)
    /\ q[1] = current_entry /\ result \in Apcs
    /\ \A i \in 2 .. Len(q) : q[i] # result
    /\ \A i \in 1 .. Len(q) : flink[q[i]] = IF i = Len(q) THEN result ELSE q[i + 1]
    /\ ToSet(q) \subseteq allocated \union Own
    /\ \A a \in ToSet(q) : apc_mode[a] = "user_list"

Current ==
    /\ at = "taken" =>
          /\ current_entry \in Apcs /\ normal_routine[current_entry]
          /\ current_entry \in Heap => current_entry \in allocated /\ ~enqueued[current_entry]
          /\ \A t \in Actors : in_hand[t] # current_entry
    /\ at \in {"scan", "taken"} => depth > 0
    /\ at \notin {"taken", "rundown"} => current_entry = None
    /\ at # "rundown" => result = None

\* and who has a routine and is allocated has not been forgotten:
Reachable ==
    \A a \in allocated : normal_routine[a] =>
       \/ \E t \in Actors : in_hand[t] = a
       \/ enqueued[a] \/ a = current_entry

Known ==
    /\ at # "rundown" => Reachable
    /\ at = "rundown" =>
          \E q : /\ Remaining(q)
                 /\ \A a \in allocated : normal_routine[a] => a \in ToSet(q)

IInv == ApcTypeOK /\ Lists /\ Modes /\ Hands /\ Current /\ Known

\* The user queue as the contract sees it.
UserQueue ==
    IF at = "rundown" THEN <<current_entry>> \o Chain(flink[current_entry], result)
    ELSE IF Exiting THEN <<>> ELSE Entries("user_list")

LEMMA ListEntries ==
  \A list \in Heads : \A s :
     /\ IsList(list, s) => Entries(list) = s
     /\ IsList(list, s)' => Entries(list)' = s
<1> TAKE list \in Heads
<1> TAKE s
<1>1. IsList(list, s) => Entries(list) = s
  BY ChainIsWalk, RingOfWalk DEF IsList, Entries
<1>2. IsList(list, s)' => Entries(list)' = s
  <2>1. Entries(list)' = Walk(flink', flink'[list], list)
    BY ChainIsWalk DEF Entries
  <2> QED
    BY <2>1, RingOfWalk DEF IsList
<1> QED
  BY <1>1, <1>2

\* What is still to be visited is what the contract and the heap are about.
LEMMA VisitRemaining ==
  ASSUME NEW next, NEW q \in Seq(Apcs), q # <<>>, IsInjective(q), NEW last \in Apcs,
         \A i \in 2 .. Len(q) : q[i] # last,
         \A i \in 1 .. Len(q) : next[q[i]] = IF i = Len(q) THEN last ELSE q[i + 1]
  PROVE  <<q[1]>> \o Walk(next, next[q[1]], last) = q
<1> DEFINE r == Tail(q)
<1>1. /\ r \in Seq(Apcs) /\ Len(r) = Len(q) - 1 /\ Len(q) \in Nat \ {0}
      /\ \A i \in 1 .. Len(q) - 1 : r[i] = q[i + 1]
  OBVIOUS
<1>2. <<q[1]>> \o r = q
  OBVIOUS
<1> HIDE DEF r
<1>3. \A i, j \in 1 .. Len(q) : q[i] = q[j] => i = j
  BY DEF IsInjective
<1>4. \A i \in 1 .. Len(r) : i + 1 \in 2 .. Len(q) /\ i + 1 \in 1 .. Len(q)
  BY <1>1
<1>5. IsInjective(r)
  <2>1. \A i, j \in 1 .. Len(r) : r[i] = r[j] => i = j
    BY <1>1, <1>3, <1>4
  <2> QED
    BY <1>1, <2>1 DEF IsInjective
<1>6. Path(next, r, last)
  <2>1. last \notin ToSet(r)
    BY <1>1, <1>4 DEF ToSet
  <2>2. ASSUME NEW i \in 1 .. Len(r)
        PROVE  next[r[i]] = IF i = Len(r) THEN last ELSE r[i + 1]
    <3>1. next[q[i + 1]] = IF i + 1 = Len(q) THEN last ELSE q[i + 1 + 1]
      BY <1>4
    <3>2. r[i] = q[i + 1] /\ (i # Len(r) => r[i + 1] = q[i + 1 + 1])
      BY <1>1
    <3> QED
      BY <1>1, <3>1, <3>2
  <2> QED
    BY <2>1, <2>2 DEF Path
<1>7. next[q[1]] = First(r, last)
  <2>1. CASE Len(q) = 1
    <3>1. r = <<>>
      BY <1>1, <2>1
    <3> QED
      BY <1>1, <2>1, <3>1 DEF First
  <2>2. CASE Len(q) # 1
    <3>1. r # <<>> /\ r[1] = q[2]
      BY <1>1, <2>2
    <3> QED
      BY <1>1, <2>2, <3>1 DEF First
  <2> QED
    BY <2>1, <2>2
<1>8. r \in Seq(Nodes)
  BY <1>1 DEF Nodes
<1> QED
  BY <1>2, <1>5, <1>6, <1>7, <1>8, WalkAlongPath

\* The user queue by the state of the thread.
LEMMA UserQueueIs ==
  /\ ~Exiting => \A s : IsList("user_list", s) => UserQueue = s
  /\ at = "rundown" => \A q : Remaining(q) => UserQueue = q
  /\ at \in {"kernel_rundown", "gone"} => UserQueue = <<>>
  /\ (~Exiting)' => \A s : IsList("user_list", s)' => UserQueue' = s
  /\ at' = "rundown" => \A q : Remaining(q)' => UserQueue' = q
  /\ at' \in {"kernel_rundown", "gone"} => UserQueue' = <<>>
<1>1. "user_list" \in Heads
  BY DEF Heads
<1>2. ASSUME ~Exiting, NEW s, IsList("user_list", s)
      PROVE  UserQueue = s
  BY <1>1, <1>2, ListEntries DEF UserQueue, Exiting
<1>3. ASSUME at = "rundown", NEW q, Remaining(q)
      PROVE  UserQueue = q
  <2>1. Chain(flink[current_entry], result) = Walk(flink, flink[current_entry], result)
    BY ChainIsWalk
  <2>2. q[1] = current_entry /\ <<q[1]>> \o Walk(flink, flink[q[1]], result) = q
    BY <1>3, VisitRemaining DEF Remaining
  <2> QED
    BY <1>3, <2>1, <2>2 DEF UserQueue
<1>4. ASSUME (~Exiting)', NEW s, IsList("user_list", s)'
      PROVE  UserQueue' = s
  BY <1>1, <1>4, ListEntries DEF UserQueue, Exiting
<1>5. ASSUME at' = "rundown", NEW q, Remaining(q)'
      PROVE  UserQueue' = q
  <2>1. Chain(flink[current_entry], result)' = Walk(flink', flink'[current_entry'], result')
    BY ChainIsWalk
  <2>2. q[1] = current_entry' /\ <<q[1]>> \o Walk(flink', flink'[q[1]], result') = q
    BY <1>5, VisitRemaining DEF Remaining
  <2> QED
    BY <1>5, <2>1, <2>2 DEF UserQueue
<1>6. at \in {"kernel_rundown", "gone"} => UserQueue = <<>>
  BY DEF UserQueue, Exiting
<1>7. at' \in {"kernel_rundown", "gone"} => UserQueue' = <<>>
  BY DEF UserQueue, Exiting
<1> QED
  BY <1>2, <1>3, <1>4, <1>5, <1>6, <1>7

-----------------------------------------------------------------------------
(* What steps do to the lists *)

LEMMA ListKept ==
  ASSUME NEW list \in Heads, NEW s, IsList(list, s),
         \A n \in {list} \union ToSet(s) : flink'[n] = flink[n] /\ blink'[n] = blink[n],
         Queued(list)' = Queued(list),
         \A a \in Queued(list) : normal_routine'[a] = normal_routine[a],
         Queued(list) \ Own \subseteq allocated'
  PROVE  IsList(list, s)'
<1>1. s \in Seq(Apcs) /\ IsInjective(s) /\ ToSet(s) = Queued(list)
  BY DEF IsList
<1>2. Ring(flink', blink', list, s)
  BY <1>1, RingElsewhere DEF IsList
<1>3. InOrder(s)'
  <2>1. \A i \in DOMAIN s : normal_routine'[s[i]] = normal_routine[s[i]]
    BY <1>1 DEF ToSet
  <2>2. InOrder(s)
    BY DEF IsList
  <2> QED
    BY <2>1, <2>2 DEF InOrder
<1>4. ToSet(s) \subseteq allocated' \union Own
  BY <1>1
<1> QED
  BY <1>1, <1>2, <1>3, <1>4 DEF IsList

\* Where an APC is inserted, as a place in the list.
Place(s, a, p) ==
    /\ p \in 0 .. Len(s)
    /\ \A j \in DOMAIN s : normal_routine[a] /\ ~normal_routine[s[j]] => j <= p
    /\ \A j \in DOMAIN s : ~normal_routine[a] /\ normal_routine[s[j]] => j > p

LEMMA PositionIsPlace ==
  ASSUME NEW list \in Heads, NEW s, IsList(list, s), NEW a \in Apcs, apc_mode[a] = list
  PROVE  \E p : /\ Place(s, a, p) /\ InsertionPosition(a) = Node(list, s, p)
                /\ normal_routine[a] => p = Len(s)
<1>1. Entries(list) = s /\ s \in Seq(Apcs) /\ DOMAIN s = 1 .. Len(s) /\ Len(s) \in Nat
  BY ListEntries DEF IsList
<1>2. \A i \in 1 .. Len(s) + 1 : blink[Node(list, s, i)] = Node(list, s, i - 1)
  <2> TAKE i \in 1 .. Len(s) + 1
  <2>1. i - 1 \in 0 .. Len(s) /\ i - 1 + 1 = i
    BY <1>1
  <2> QED
    BY <2>1 DEF IsList, Ring
<1>3. blink[list] = Node(list, s, Len(s))
  <2>1. Node(list, s, Len(s) + 1) = list /\ Len(s) + 1 \in 1 .. Len(s) + 1
    BY <1>1 DEF Node
  <2> QED
    BY <1>1, <1>2, <2>1
<1>4. \A i \in 1 .. Len(s) : blink[s[i]] = Node(list, s, i - 1)
  <2> TAKE i \in 1 .. Len(s)
  <2>1. Node(list, s, i) = s[i] /\ i \in 1 .. Len(s) + 1
    BY <1>1 DEF Node
  <2> QED
    BY <1>2, <2>1
<1> DEFINE normal == {i \in DOMAIN s : normal_routine[s[i]]}
<1>5. CASE s = <<>> \/ normal_routine[a]
  <2>1. InsertionPosition(a) = Node(list, s, Len(s))
    BY <1>1, <1>3, <1>5 DEF InsertionPosition
  <2>2. Place(s, a, Len(s))
    BY <1>1, <1>5 DEF Place
  <2> QED
    BY <2>1, <2>2
<1>6. CASE s # <<>> /\ ~normal_routine[a] /\ normal = {}
  <2>1. Len(s) - 1 \in 0 .. Len(s) /\ Len(s) \in 1 .. Len(s)
    BY <1>1, <1>6
  <2>2. InsertionPosition(a) = blink[s[Len(s)]]
    BY <1>1, <1>6 DEF InsertionPosition
  <2>3. Place(s, a, Len(s) - 1)
    BY <1>1, <1>6, <2>1 DEF Place
  <2> QED
    BY <1>4, <1>6, <2>1, <2>2, <2>3
<1>7. CASE s # <<>> /\ ~normal_routine[a] /\ normal # {}
  <2> DEFINE k == CHOOSE i \in normal : \A j \in normal : i <= j
  <2>1. k \in normal /\ \A j \in normal : k <= j
    <3>1. normal \in SUBSET Nat
      BY <1>1
    <3> HIDE DEF normal
    <3>2. \E i \in normal : \A j \in normal : i <= j
      BY <1>7, <3>1, Smallest
    <3> QED
      BY <3>2
  <2>2. InsertionPosition(a) = blink[s[k]]
    BY <1>1, <1>7 DEF InsertionPosition
  <2> HIDE DEF k
  <2>3. k \in 1 .. Len(s) /\ k - 1 \in 0 .. Len(s)
    BY <1>1, <2>1
  <2>4. Place(s, a, k - 1)
    <3>1. \A j \in DOMAIN s : normal_routine[s[j]] => j > k - 1
      BY <1>1, <2>1, <2>3
    <3> QED
      BY <1>7, <2>3, <3>1 DEF Place
  <2> QED
    BY <1>4, <1>7, <2>2, <2>3, <2>4
<1> QED
  BY <1>5, <1>6, <1>7

\* The order of special and normal APCs survives.
LEMMA OrderWith ==
  ASSUME NEW s \in Seq(Apcs), NEW a \in Apcs, NEW p, Place(s, a, p), InOrder(s),
         UNCHANGED normal_routine
  PROVE  InOrder(With(s, p, a))'
<1> DEFINE r == With(s, p, a)
<1>1. DOMAIN r = 1 .. Len(s) + 1 /\ Len(s) \in Nat /\ p \in 0 .. Len(s) /\ DOMAIN s = 1 .. Len(s)
  BY DEF With, Place
<1>2. \A i \in 1 .. Len(s) + 1 :
         r[i] = IF i <= p THEN s[i] ELSE IF i = p + 1 THEN a ELSE s[i - 1]
  BY DEF With
<1> HIDE DEF r
<1>3. /\ \A i, j \in 1 .. Len(s) : normal_routine[s[i]] /\ ~normal_routine[s[j]] => j < i
      /\ \A j \in 1 .. Len(s) : normal_routine[a] /\ ~normal_routine[s[j]] => j <= p
      /\ \A j \in 1 .. Len(s) : ~normal_routine[a] /\ normal_routine[s[j]] => j > p
  BY <1>1 DEF InOrder, Place
<1>4. ASSUME NEW i \in 1 .. Len(s) + 1, NEW j \in 1 .. Len(s) + 1,
             normal_routine[r[i]], ~normal_routine[r[j]]
      PROVE  j < i
  <2>1. CASE i = p + 1
    <3>1. r[i] = a
      BY <1>1, <1>2, <2>1
    <3>2. CASE j <= p
      BY <1>1, <2>1, <3>2
    <3>3. CASE j > p + 1
      <4>1. r[j] = s[j - 1] /\ j - 1 \in 1 .. Len(s)
        BY <1>1, <1>2, <3>3
      <4> QED
        BY <1>1, <1>3, <1>4, <3>1, <3>3, <4>1
    <3>4. CASE j = p + 1
      BY <1>4, <2>1, <3>4
    <3> QED
      BY <1>1, <3>2, <3>3, <3>4
  <2>2. CASE j = p + 1 /\ i # p + 1
    <3>1. r[j] = a
      BY <1>1, <1>2, <2>2
    <3>2. CASE i <= p
      <4>1. r[i] = s[i] /\ i \in 1 .. Len(s)
        BY <1>1, <1>2, <3>2
      <4> QED
        BY <1>1, <1>3, <1>4, <3>1, <3>2, <4>1
    <3>3. CASE i > p + 1
      BY <2>2, <3>3
    <3> QED
      BY <1>1, <2>2, <3>2, <3>3
  <2>3. CASE j # p + 1 /\ i # p + 1
    <3>1. PICK k \in 1 .. Len(s) : r[i] = s[k] /\ k = IF i <= p THEN i ELSE i - 1
      BY <1>1, <1>2, <2>3
    <3>2. PICK l \in 1 .. Len(s) : r[j] = s[l] /\ l = IF j <= p THEN j ELSE j - 1
      BY <1>1, <1>2, <2>3
    <3>3. l < k
      BY <1>3, <1>4, <3>1, <3>2
    <3> QED
      BY <1>1, <2>3, <3>1, <3>2, <3>3
  <2> QED
    BY <2>1, <2>2, <2>3
<1> QED
  BY <1>1, <1>4 DEF InOrder, r

\* Two lists have nothing in common.
LEMMA ListsApart ==
  ASSUME NEW list \in Heads, NEW other \in Heads, list # other, NEW s, IsList(list, s),
         NEW r, IsList(other, r)
  PROVE  ({list} \union ToSet(s)) \cap ({other} \union ToSet(r)) = {}
BY ApcQueueAssumption DEF IsList, Queued

\* xeKeInsertQueueApc: one list is longer by one, the other is as it was.
LEMMA InsertLists ==
  ASSUME ApcTypeOK, NEW list \in Heads, NEW s, IsList(list, s), NEW a \in Apcs, apc_mode[a] = list,
         ~enqueued[a], a \in allocated \union Own, Insert(a), UNCHANGED <<routine, allocated>>
  PROVE  /\ flink' \in [Nodes -> Nodes] /\ blink' \in [Nodes -> Nodes]
         /\ enqueued' = [enqueued EXCEPT ![a] = TRUE]
         /\ \E p \in 0 .. Len(s) : /\ IsList(list, With(s, p, a))'
                                   /\ normal_routine[a] => p = Len(s)
         /\ \A other \in Heads : \A r : other # list /\ IsList(other, r) => IsList(other, r)'
<1>1. PICK p : /\ Place(s, a, p) /\ InsertionPosition(a) = Node(list, s, p)
               /\ normal_routine[a] => p = Len(s)
  BY PositionIsPlace
<1> DEFINE x == Node(list, s, p)
           y == flink[x]
<1>2. /\ s \in Seq(Apcs) /\ IsInjective(s) /\ p \in 0 .. Len(s) /\ a \notin ToSet(s)
      /\ Ring(flink, blink, list, s) /\ ToSet(s) = Queued(list)
      /\ flink \in [Nodes -> Nodes] /\ blink \in [Nodes -> Nodes] /\ a \in Nodes
  BY <1>1 DEF IsList, Place, Queued, ApcTypeOK, Nodes
<1>3. /\ flink' = [flink EXCEPT ![a] = y, ![x] = a]
      /\ blink' = [blink EXCEPT ![a] = x, ![y] = a]
      /\ enqueued' = [enqueued EXCEPT ![a] = TRUE]
  BY <1>1 DEF Insert, Accepted, InsertBehind
<1>4. /\ x \in {list} \union ToSet(s) /\ y \in {list} \union ToSet(s)
      /\ x \in Nodes /\ y \in Nodes
  <2>1. p \in 0 .. Len(s) + 1 /\ p + 1 \in 0 .. Len(s) + 1 /\ y = Node(list, s, p + 1)
    BY <1>2 DEF Ring
  <2> QED
    BY <1>2, <2>1, NodesDiffer
<1> HIDE DEF x, y
<1>5. flink' \in [Nodes -> Nodes] /\ blink' \in [Nodes -> Nodes]
  BY <1>2, <1>3, <1>4
<1>6. Ring(flink', blink', list, With(s, p, a))
  BY <1>2, <1>3, RingInsert DEF x, y
<1>7. IsList(list, With(s, p, a))'
  <2>1. Queued(list)' = Queued(list) \union {a}
    BY <1>3 DEF Queued, ApcTypeOK, routine
  <2>2. /\ With(s, p, a) \in Seq(Apcs) /\ IsInjective(With(s, p, a))
        /\ ToSet(With(s, p, a)) = ToSet(s) \union {a}
    BY <1>2, WithProperties
  <2>3. InOrder(With(s, p, a))'
    BY <1>1, <1>2, OrderWith DEF IsList, routine
  <2>4. ToSet(s) \union {a} \subseteq allocated' \union Own
    BY DEF IsList
  <2> QED
    BY <1>2, <1>6, <2>1, <2>2, <2>3, <2>4 DEF IsList
<1>8. ASSUME NEW other \in Heads, NEW r, other # list, IsList(other, r)
      PROVE  IsList(other, r)'
  <2>1. a \notin {other} \union ToSet(r)
    BY <1>8, ApcQueueAssumption DEF IsList, Queued
  <2>2. x \notin {other} \union ToSet(r) /\ y \notin {other} \union ToSet(r)
    BY <1>4, <1>8, ListsApart
  <2>3. {other} \union ToSet(r) \subseteq Nodes
    BY <1>8 DEF IsList, Queued, Nodes
  <2>4. \A n \in {other} \union ToSet(r) : flink'[n] = flink[n] /\ blink'[n] = blink[n]
    BY <1>2, <1>3, <2>1, <2>2, <2>3
  <2>5. Queued(other)' = Queued(other)
    BY <1>3, <1>8 DEF Queued, ApcTypeOK, routine
  <2>6. \A b \in Queued(other) : normal_routine'[b] = normal_routine[b]
    BY DEF routine
  <2>7. Queued(other) \ Own \subseteq allocated'
    BY <1>8 DEF IsList
  <2> QED
    BY <1>8, <2>4, <2>5, <2>6, <2>7, ListKept
<1> QED
  BY <1>1, <1>2, <1>3, <1>5, <1>7, <1>8

LEMMA OrderRemoveAt ==
  ASSUME NEW s \in Seq(Apcs), IsInjective(s), NEW p \in 1 .. Len(s), InOrder(s),
         UNCHANGED normal_routine
  PROVE  InOrder(RemoveAt(s, p))'
<1> DEFINE r == RemoveAt(s, p)
<1>1. /\ r \in Seq(Apcs) /\ Len(r) = Len(s) - 1 /\ Len(s) \in Nat
      /\ \A i \in 1 .. Len(s) - 1 : r[i] = IF i < p THEN s[i] ELSE s[i + 1]
  BY RemoveAtProperties
<1> HIDE DEF r
<1>2. \A i, j \in 1 .. Len(s) : normal_routine[s[i]] /\ ~normal_routine[s[j]] => j < i
  BY DEF InOrder
<1>3. ASSUME NEW i \in 1 .. Len(s) - 1, NEW j \in 1 .. Len(s) - 1,
             normal_routine[r[i]], ~normal_routine[r[j]]
      PROVE  j < i
  <2>1. PICK k \in 1 .. Len(s) : r[i] = s[k] /\ k = IF i < p THEN i ELSE i + 1
    BY <1>1
  <2>2. PICK l \in 1 .. Len(s) : r[j] = s[l] /\ l = IF j < p THEN j ELSE j + 1
    BY <1>1
  <2>3. l < k
    BY <1>2, <1>3, <2>1, <2>2
  <2> QED
    BY <1>1, <2>1, <2>2, <2>3
<1>4. DOMAIN r = 1 .. Len(s) - 1
  BY <1>1
<1> QED
  BY <1>3, <1>4 DEF InOrder, r

\* XeRemoveEntryList: one list is shorter by one, the other is as it was.
LEMMA RemoveLists ==
  ASSUME ApcTypeOK, NEW list \in Heads, NEW s, IsList(list, s), NEW a \in Queued(list),
         Unlink(a), enqueued' = [enqueued EXCEPT ![a] = FALSE], UNCHANGED <<routine, allocated>>
  PROVE  /\ flink' \in [Nodes -> Nodes] /\ blink' \in [Nodes -> Nodes]
         /\ \E p \in 1 .. Len(s) : s[p] = a /\ IsList(list, RemoveAt(s, p))'
         /\ \A other \in Heads : \A r : other # list /\ IsList(other, r) => IsList(other, r)'
<1>1. /\ s \in Seq(Apcs) /\ IsInjective(s) /\ Ring(flink, blink, list, s)
      /\ ToSet(s) = Queued(list) /\ a \in Apcs
      /\ flink \in [Nodes -> Nodes] /\ blink \in [Nodes -> Nodes] /\ a \in Nodes
  BY DEF IsList, Queued, ApcTypeOK, Nodes
<1>2. PICK p \in 1 .. Len(s) : s[p] = a
  BY <1>1 DEF ToSet
<1> DEFINE x == blink[a]
           y == flink[a]
<1>3. flink' = [flink EXCEPT ![x] = y] /\ blink' = [blink EXCEPT ![y] = x]
  BY DEF Unlink
<1>4. /\ x \in {list} \union ToSet(s) /\ y \in {list} \union ToSet(s)
      /\ x \in Nodes /\ y \in Nodes
  <2>1. /\ p - 1 \in 0 .. Len(s) /\ p \in 0 .. Len(s) /\ p - 1 + 1 = p
        /\ p - 1 \in 0 .. Len(s) + 1 /\ p + 1 \in 0 .. Len(s) + 1 /\ a = Node(list, s, p)
    BY <1>1, <1>2 DEF Node
  <2>2. x = Node(list, s, p - 1) /\ y = Node(list, s, p + 1)
    BY <1>1, <2>1 DEF Ring
  <2> QED
    BY <1>1, <2>1, <2>2, NodesDiffer
<1>5. Ring(flink', blink', list, RemoveAt(s, p))
  BY <1>1, <1>2, <1>3, RingRemove
<1> HIDE DEF x, y
<1>6. flink' \in [Nodes -> Nodes] /\ blink' \in [Nodes -> Nodes]
  BY <1>1, <1>3, <1>4
<1>7. IsList(list, RemoveAt(s, p))'
  <2>1. Queued(list)' = Queued(list) \ {a}
    BY <1>1 DEF Queued, ApcTypeOK, routine
  <2>2. /\ RemoveAt(s, p) \in Seq(Apcs) /\ IsInjective(RemoveAt(s, p))
        /\ ToSet(RemoveAt(s, p)) = ToSet(s) \ {a}
    BY <1>1, <1>2, RemoveAtProperties
  <2>3. InOrder(RemoveAt(s, p))'
    BY <1>1, OrderRemoveAt DEF IsList, routine
  <2>4. ToSet(s) \subseteq allocated' \union Own
    BY DEF IsList
  <2> QED
    BY <1>1, <1>5, <2>1, <2>2, <2>3, <2>4 DEF IsList
<1>8. ASSUME NEW other \in Heads, NEW r, other # list, IsList(other, r)
      PROVE  IsList(other, r)'
  <2>1. x \notin {other} \union ToSet(r) /\ y \notin {other} \union ToSet(r)
    BY <1>4, <1>8, ListsApart
  <2>2. {other} \union ToSet(r) \subseteq Nodes
    BY <1>8 DEF IsList, Queued, Nodes
  <2>3. \A n \in {other} \union ToSet(r) : flink'[n] = flink[n] /\ blink'[n] = blink[n]
    BY <1>1, <1>3, <2>1, <2>2
  <2>4. Queued(other)' = Queued(other)
    BY <1>1, <1>8 DEF Queued, ApcTypeOK, routine
  <2>5. \A b \in Queued(other) : normal_routine'[b] = normal_routine[b]
    BY DEF routine
  <2>6. Queued(other) \ Own \subseteq allocated'
    BY <1>8 DEF IsList
  <2> QED
    BY <1>8, <2>3, <2>4, <2>5, <2>6, ListKept
<1> QED
  BY <1>2, <1>6, <1>7, <1>8

\* Steps that leave the links alone and what is queued.
LEMMA SameLists ==
  ASSUME UNCHANGED <<flink, blink>>,
         \A list \in Heads : Queued(list)' = Queued(list),
         \A list \in Heads : \A a \in Queued(list) :
            /\ normal_routine'[a] = normal_routine[a]
            /\ a \in allocated \union Own => a \in allocated' \union Own
  PROVE  \A list \in Heads : \A s : IsList(list, s) => IsList(list, s)'
<1> TAKE list \in Heads
<1> TAKE s
<1> HAVE IsList(list, s)
<1>1. Queued(list) \ Own \subseteq allocated'
  BY DEF IsList
<1> QED
  BY <1>1, ListKept

-----------------------------------------------------------------------------
(* The steps of the contract *)

Promised == [Contract!Next]_<<UserQueue, Exiting>>

LEMMA Promises ==
  /\ UserQueue' = UserQueue /\ Exiting' = Exiting => Promised
  /\ \A a \in Apcs : /\ ~Exiting /\ ~Exiting' /\ UserQueue' = Append(UserQueue, a)
                     /\ \A i \in DOMAIN UserQueue : UserQueue[i] # a
                     => Promised
  /\ \A i \in DOMAIN UserQueue : /\ ~Exiting /\ ~Exiting' /\ UserQueue' = RemoveAt(UserQueue, i)
                                 => Promised
  /\ UserQueue # <<>> /\ UserQueue' = Tail(UserQueue) /\ Exiting' = Exiting => Promised
  /\ ~Exiting /\ Exiting' /\ UserQueue' = UserQueue => Promised
<1>1. UserQueue' = UserQueue /\ Exiting' = Exiting => Promised
  BY DEF Promised
<1>2. ASSUME NEW a \in Apcs, ~Exiting, ~Exiting', UserQueue' = Append(UserQueue, a),
             \A i \in DOMAIN UserQueue : UserQueue[i] # a
      PROVE  Promised
  <2>1. Exiting' = Exiting
    BY <1>2 DEF Exiting
  <2>2. Contract!Insert(a)
    BY <1>2, <2>1, Zenon DEF UserQueue, Contract!Insert
  <2> QED
    BY <2>2 DEF Promised, Contract!Next
<1>3. ASSUME NEW i \in DOMAIN UserQueue, ~Exiting, ~Exiting', UserQueue' = RemoveAt(UserQueue, i)
      PROVE  Promised
  <2>1. Exiting' = Exiting
    BY <1>3 DEF Exiting
  <2>2. UserQueue' = Contract!RemoveAt(UserQueue, i)
    BY <1>3 DEF Contract!RemoveAt, RemoveAt
  <2>3. Contract!TakeBack(i)
    BY <1>3, <2>1, <2>2, Zenon DEF UserQueue, Contract!TakeBack
  <2> QED
    BY <2>3, Zenon DEF Promised, UserQueue, Contract!Next
<1>4. ASSUME UserQueue # <<>>, UserQueue' = Tail(UserQueue), Exiting' = Exiting
      PROVE  Promised
  BY <1>4, Zenon DEF Promised, UserQueue, Contract!Next, Contract!HandOut
<1>5. ASSUME ~Exiting, Exiting', UserQueue' = UserQueue
      PROVE  Promised
  BY <1>5, Zenon DEF Promised, UserQueue, Contract!Next, Contract!Exit, Exiting
<1> QED
  BY <1>1, <1>2, <1>3, <1>4, <1>5

-----------------------------------------------------------------------------
(* The steps *)

LEMMA InitIInv == Init => IInv /\ Contract!Init
<1> SUFFICES ASSUME Init
             PROVE  IInv /\ Contract!Init
  OBVIOUS
<1> USE DEF Init
<1>1. "kernel_list" \in Heads /\ "user_list" \in Heads /\ ~Exiting /\ Heads \subseteq Nodes
  BY DEF Heads, Exiting, Nodes
<1>2. ApcTypeOK
  BY ApcQueueAssumption DEF ApcTypeOK, Heads, At, Actors
<1>3. \A list \in Heads : IsList(list, <<>>)
  <2> TAKE list \in Heads
  <2>1. Ring(flink, blink, list, <<>>)
    BY <1>1 DEF Ring, Node
  <2>2. ToSet(<<>>) = {} /\ IsInjective(<<>>) /\ <<>> \in Seq(Apcs) /\ InOrder(<<>>)
    BY DEF ToSet, IsInjective, InOrder
  <2>3. Queued(list) = {}
    BY DEF Queued
  <2> QED
    BY <2>1, <2>2, <2>3 DEF IsList
<1>4. Lists
  BY <1>1, <1>3 DEF Lists
<1>5. Modes /\ Hands /\ Current /\ Known
  <2>1. Modes
    BY DEF Modes, Apcs
  <2>2. Hands
    BY <1>1 DEF Hands
  <2>3. Current
    BY DEF Current
  <2>4. Known
    BY DEF Known, Reachable
  <2> QED
    BY <2>1, <2>2, <2>3, <2>4
<1>6. Entries("user_list") = <<>>
  BY <1>1, <1>3, ListEntries
<1>7. Contract!Init
  BY <1>1, <1>6 DEF Contract!Init
<1> QED
  BY <1>2, <1>4, <1>5, <1>7 DEF IInv

\* When no list changes and the thread is where it was, or at least still runs.
LEMMA ListsStay ==
  ASSUME Lists, \A list \in Heads : \A s : IsList(list, s) => IsList(list, s)',
         ~Exiting, ~Exiting'
  PROVE  Lists' /\ UserQueue' = UserQueue
<1>1. "kernel_list" \in Heads /\ "user_list" \in Heads
  BY DEF Heads
<1>2. PICK u : IsList("user_list", u)
  BY DEF Lists
<1>3. PICK k : IsList("kernel_list", k)
  BY DEF Lists, Exiting
<1>4. Lists'
  BY <1>1, <1>2, <1>3 DEF Lists
<1>5. UserQueue' = UserQueue
  BY <1>1, <1>2, UserQueueIs
<1> QED
  BY <1>4, <1>5

\* ProcessUserApcs, ReturnFromRoutine, FinishProcessing.
LEMMA ThreadMoves ==
  ASSUME IInv, ProcessUserApcs \/ ReturnFromRoutine \/ FinishProcessing
  PROVE  IInv' /\ Promised
<1> USE DEF IInv
<1>1. /\ at \in {"created", "guest", "scan"} /\ at' \in {"guest", "scan"}
      /\ UNCHANGED <<links, routine, allocated, in_hand, current_entry, result>>
      /\ depth' \in 0 .. MaxDepth /\ (at' = "scan" => depth' > 0)
  BY ApcQueueAssumption DEF ProcessUserApcs, ReturnFromRoutine, FinishProcessing, ApcTypeOK, Current
<1> USE DEF links, routine
<1>2. ~Exiting /\ ~Exiting' /\ Exiting' = Exiting
  BY <1>1 DEF Exiting
<1>3. \A list \in Heads : \A s : IsList(list, s) => IsList(list, s)'
  BY <1>1 DEF IsList, InOrder, Queued
<1>4. Lists' /\ UserQueue' = UserQueue
  BY <1>2, <1>3, ListsStay
<1>5. ApcTypeOK' /\ Modes' /\ Hands'
  BY <1>1, <1>2 DEF ApcTypeOK, Modes, Hands, At
<1>6. Current' /\ Known'
  BY <1>1 DEF Current, Known, Reachable
<1> QED
  BY <1>2, <1>4, <1>5, <1>6, Promises

LEMMA InitializeKeeps ==
  ASSUME IInv, MayQueueLate = FALSE, NEW t \in Actors, NEW a \in Own, KeInitializeApc(t, a)
  PROVE  IInv' /\ Promised
<1> USE DEF IInv
<1>1. PICK has_normal \in BOOLEAN, mode \in Heads : Initialized(a, has_normal, mode)
  BY DEF KeInitializeApc
<1>2. /\ ~Exiting /\ ~enqueued[a] /\ at \notin {"taken", "rundown"} /\ a \in Apcs /\ a \notin Heap
      /\ UNCHANGED <<links, allocated, in_hand, thread>>
  BY ApcQueueAssumption DEF KeInitializeApc, Ready, MayQueue, Apcs
<1> USE DEF links, thread
<1>3. ~Exiting' /\ Exiting' = Exiting
  BY <1>2 DEF Exiting
<1>4. /\ normal_routine' = [normal_routine EXCEPT ![a] = has_normal]
      /\ apc_mode' = [apc_mode EXCEPT ![a] = IF has_normal THEN mode ELSE "kernel_list"]
      /\ \A b \in Apcs : b # a => /\ normal_routine'[b] = normal_routine[b]
                                  /\ apc_mode'[b] = apc_mode[b]
  BY <1>1 DEF Initialized, ApcTypeOK
<1>5. \A list \in Heads : \A s : IsList(list, s) => IsList(list, s)'
  <2>1. \A list \in Heads : Queued(list)' = Queued(list)
    BY <1>2, <1>4 DEF Queued
  <2>2. \A list \in Heads : \A b \in Queued(list) : normal_routine'[b] = normal_routine[b]
    BY <1>2, <1>4 DEF Queued
  <2> QED
    BY <1>2, <2>1, <2>2, SameLists
<1>6. Lists' /\ UserQueue' = UserQueue
  BY <1>2, <1>3, <1>5, ListsStay
<1>7. ApcTypeOK' /\ Hands'
  BY <1>2, <1>3, <1>4 DEF ApcTypeOK, Hands, Heads
<1>8. Modes'
  <2>1. /\ \A b \in Apcs : ~normal_routine[b] => apc_mode[b] = "kernel_list"
        /\ \A b \in Heap : b \in Apcs /\ b # a /\ (normal_routine[b] => apc_mode[b] = "user_list")
    BY <1>2 DEF Modes, Apcs
  <2>2. ~normal_routine'[a] => apc_mode'[a] = "kernel_list"
    BY <1>2, <1>4 DEF ApcTypeOK
  <2> QED
    BY <1>4, <2>1, <2>2 DEF Modes
<1>9. Current'
  BY <1>2 DEF Current
<1>10. Known'
  <2>1. \A b \in allocated : b # a /\ b \in Apcs
    BY <1>2 DEF ApcTypeOK, Apcs
  <2> QED
    BY <1>2, <1>4, <2>1 DEF Known, Reachable
<1> QED
  BY <1>3, <1>6, <1>7, <1>8, <1>9, <1>10, Promises

\* An APC that is not queued is inserted.
LEMMA InsertedKeeps ==
  ASSUME IInv, ~Exiting, NEW a \in Apcs, ~enqueued[a], a \in allocated \union Own,
         Insert(a), UNCHANGED <<routine, allocated, thread>>
  PROVE  /\ flink' \in [Nodes -> Nodes] /\ blink' \in [Nodes -> Nodes]
         /\ enqueued' = [enqueued EXCEPT ![a] = TRUE]
         /\ Lists' /\ Promised
<1> USE DEF IInv
<1>1. "kernel_list" \in Heads /\ "user_list" \in Heads /\ apc_mode[a] \in Heads
  BY DEF Heads, ApcTypeOK
<1>2. ~Exiting' /\ Exiting' = Exiting
  BY DEF Exiting, thread
<1>3. PICK u : IsList("user_list", u)
  BY DEF Lists
<1>4. PICK k : IsList("kernel_list", k)
  BY DEF Lists, Exiting
<1>5. CASE apc_mode[a] = "user_list"
  <2>1. /\ flink' \in [Nodes -> Nodes] /\ blink' \in [Nodes -> Nodes]
        /\ enqueued' = [enqueued EXCEPT ![a] = TRUE]
        /\ \E p \in 0 .. Len(u) : /\ IsList("user_list", With(u, p, a))'
                                  /\ normal_routine[a] => p = Len(u)
        /\ IsList("kernel_list", k)'
    BY <1>1, <1>3, <1>4, <1>5, InsertLists
  <2>2. IsList("user_list", With(u, Len(u), a))'
    BY <1>5, <2>1 DEF Modes
  <2>3. u \in Seq(Apcs) /\ a \notin ToSet(u)
    BY <1>3 DEF IsList, Queued
  <2>4. With(u, Len(u), a) = Append(u, a)
    <3>1. /\ Append(u, a) = [i \in 1 .. Len(u) + 1 |-> Append(u, a)[i]]
          /\ \A i \in 1 .. Len(u) + 1 : Append(u, a)[i] = IF i <= Len(u) THEN u[i] ELSE a
      <4>1. /\ Append(u, a) \in Seq(Apcs) /\ Len(Append(u, a)) = Len(u) + 1
            /\ \A i \in 1 .. Len(u) : Append(u, a)[i] = u[i]
            /\ Append(u, a)[Len(u) + 1] = a
        BY <2>3, AppendProperties
      <4>2. ASSUME NEW c, c \in Seq(Apcs), Len(c) = Len(u) + 1
            PROVE  c = [i \in 1 .. Len(u) + 1 |-> c[i]]
        BY <2>3, <4>2
      <4>3. \A i \in 1 .. Len(u) + 1 : i # Len(u) + 1 => i \in 1 .. Len(u)
        BY <2>3
      <4>4. \A i \in 1 .. Len(u) : i <= Len(u)
        OBVIOUS
      <4>5. ~(Len(u) + 1 <= Len(u))
        BY <2>3
      <4>6. Append(u, a) = [i \in 1 .. Len(u) + 1 |-> Append(u, a)[i]]
        BY <4>1, <4>2
      <4> QED
        BY <4>1, <4>3, <4>4, <4>5, <4>6
    <3>2. \A i \in 1 .. Len(u) + 1 : With(u, Len(u), a)[i] = IF i <= Len(u) THEN u[i] ELSE a
      BY <2>3 DEF With
    <3>3. With(u, Len(u), a) = [i \in 1 .. Len(u) + 1 |-> With(u, Len(u), a)[i]]
      BY DEF With
    <3> QED
      BY <3>1, <3>2, <3>3
  <2>5. UserQueue = u /\ UserQueue' = Append(u, a)
    BY <1>2, <1>3, <2>2, <2>4, UserQueueIs
  <2>6. Promised
    BY <1>2, <2>3, <2>5, Promises DEF ToSet
  <2> QED
    BY <1>2, <2>1, <2>2, <2>6 DEF Lists
<1>6. CASE apc_mode[a] = "kernel_list"
  <2>1. /\ flink' \in [Nodes -> Nodes] /\ blink' \in [Nodes -> Nodes]
        /\ enqueued' = [enqueued EXCEPT ![a] = TRUE]
        /\ \E p \in 0 .. Len(k) : IsList("kernel_list", With(k, p, a))'
        /\ IsList("user_list", u)'
    BY <1>1, <1>3, <1>4, <1>6, InsertLists
  <2>2. UserQueue = u /\ UserQueue' = u
    BY <1>2, <1>3, <2>1, UserQueueIs
  <2>3. Promised
    BY <1>2, <2>2, Promises
  <2>4. Lists'
    BY <1>2, <2>1 DEF Lists
  <2> QED
    BY <2>1, <2>3, <2>4
<1> QED
  BY <1>1, <1>5, <1>6 DEF Heads

LEMMA StutterKeeps ==
  ASSUME IInv, UNCHANGED vars
  PROVE  IInv' /\ Promised
<1> USE DEF vars, links, routine, thread
<1>1. IInv'
  <2>1. \A list, s : IsList(list, s) = IsList(list, s)'
    BY DEF IsList, InOrder, Queued
  <2>2. \A q : Remaining(q) = Remaining(q)'
    BY DEF Remaining
  <2>3. ApcTypeOK' /\ Modes' /\ Hands' /\ Current'
    BY DEF IInv, ApcTypeOK, Modes, Hands, Current, Exiting
  <2>4. Lists'
    BY <2>1 DEF IInv, Lists, Exiting, Queued
  <2>5. Known'
    BY <2>2 DEF IInv, Known, Reachable
  <2> QED
    BY <2>3, <2>4, <2>5 DEF IInv
<1>2. UserQueue' = UserQueue /\ Exiting' = Exiting
  <2>1. \A n, last : Chain(n, last)' = Chain(n, last)
    BY ChainIsWalk
  <2> QED
    BY <2>1 DEF UserQueue, Exiting, Entries
<1> QED
  BY <1>1, <1>2, Promises

\* The guest's own APCs, by whoever.
LEMMA InsertKeeps ==
  ASSUME IInv, MayQueueLate = FALSE, NEW t \in Actors, NEW a \in Own, KeInsertQueueApc(t, a)
  PROVE  IInv' /\ Promised
<1>1. /\ ~Exiting /\ Insert(a) /\ UNCHANGED <<routine, allocated, in_hand, thread>>
      /\ a \in Apcs /\ a \notin Heap
  BY ApcQueueAssumption DEF KeInsertQueueApc, Ready, MayQueue, Apcs
<1>2. CASE enqueued[a]
  <2>1. UNCHANGED vars
    BY <1>1, <1>2 DEF Insert, Accepted, vars
  <2> QED
    BY <2>1, StutterKeeps
<1>3. CASE ~enqueued[a]
  <2>1. /\ flink' \in [Nodes -> Nodes] /\ blink' \in [Nodes -> Nodes]
        /\ enqueued' = [enqueued EXCEPT ![a] = TRUE]
        /\ Lists' /\ Promised
    BY <1>1, <1>3, InsertedKeeps
  <2> USE DEF IInv, routine, thread
  <2>2. \A b \in Heap : enqueued'[b] = enqueued[b]
    BY <1>1, <2>1 DEF ApcTypeOK, Apcs
  <2>3. ~Exiting'
    BY <1>1 DEF Exiting
  <2>4. ApcTypeOK' /\ Modes'
    BY <1>1, <2>1 DEF ApcTypeOK, Modes
  <2>5. Hands'
    BY <1>1, <2>2, <2>3 DEF Hands, ApcTypeOK
  <2>6. Current'
    BY <1>1, <2>2 DEF Current
  <2>7. Known'
    BY <1>1, <2>2, <2>3 DEF Known, Reachable, ApcTypeOK, Exiting
  <2> QED
    BY <2>1, <2>4, <2>5, <2>6, <2>7
<1> QED
  BY <1>2, <1>3

\* NtQueueApcThread, the second half: what is in hand is never queued already.
LEMMA InsertAllocatedKeeps ==
  ASSUME IInv, NEW t \in Actors, InsertAllocated(t)
  PROVE  IInv' /\ Promised
<1> DEFINE a == in_hand[t]
<1> USE DEF IInv
<1>1. /\ a # None /\ a \in Heap /\ a \in Apcs /\ a \in allocated /\ ~enqueued[a] /\ ~Exiting
  BY DEF InsertAllocated, Hands, ApcTypeOK, Apcs
<1>2. /\ Insert(a) /\ UNCHANGED <<routine, allocated, thread>>
      /\ in_hand' = [in_hand EXCEPT ![t] = None]
  BY <1>1 DEF InsertAllocated, Accepted
<1> HIDE DEF a
<1>3. /\ flink' \in [Nodes -> Nodes] /\ blink' \in [Nodes -> Nodes]
      /\ enqueued' = [enqueued EXCEPT ![a] = TRUE]
      /\ Lists' /\ Promised
  BY <1>1, <1>2, InsertedKeeps
<1> USE DEF routine, thread
<1>4. ~Exiting'
  BY <1>1, <1>2 DEF Exiting
<1>5. /\ ApcTypeOK' /\ Modes'
  BY <1>2, <1>3 DEF ApcTypeOK, Modes
<1>6. /\ \A v \in Actors : in_hand'[v] = IF v = t THEN None ELSE in_hand[v]
      /\ \A b \in Apcs : enqueued'[b] = IF b = a THEN TRUE ELSE enqueued[b]
      /\ \A v \in Actors : v # t => in_hand[v] # a
  BY <1>1, <1>2, <1>3 DEF ApcTypeOK, Hands, a
<1>7. Hands'
  BY <1>1, <1>2, <1>4, <1>6 DEF Hands, ApcTypeOK, Apcs
<1>8. Current'
  <2>1. at = "taken" => current_entry # a
    BY DEF Current, a
  <2>2. at = "taken" /\ current_entry \in Heap => ~enqueued'[current_entry]
    BY <1>6, <2>1 DEF Current
  <2>3. at = "taken" => \A v \in Actors : in_hand'[v] # current_entry
    <3>1. at = "taken" => current_entry # None
      BY ApcQueueAssumption DEF Current, Nodes
    <3> QED
      BY <1>6, <3>1 DEF Current
  <2> QED
    BY <1>2, <2>2, <2>3 DEF Current
<1>9. Known'
  <2>1. at # "rundown" /\ at' # "rundown"
    BY <1>1, <1>2 DEF Exiting
  <2>2. ASSUME NEW b \in allocated, normal_routine[b]
        PROVE  (\E v \in Actors : in_hand'[v] = b) \/ enqueued'[b] \/ b = current_entry
    <3>1. b \in Apcs
      BY DEF ApcTypeOK, Apcs
    <3>2. CASE b = a
      BY <1>6, <3>1, <3>2
    <3>3. CASE b # a
      <4>1. (\E v \in Actors : in_hand[v] = b) \/ enqueued[b] \/ b = current_entry
        BY <2>1, <2>2 DEF Known, Reachable
      <4>2. \A v \in Actors : in_hand[v] = b => v # t
        BY <3>3 DEF a
      <4> QED
        BY <1>6, <3>1, <3>3, <4>1, <4>2
    <3> QED
      BY <3>2, <3>3
  <2> QED
    BY <1>2, <2>1, <2>2 DEF Known, Reachable
<1> QED
  BY <1>3, <1>5, <1>7, <1>8, <1>9

\* An APC is taken out of its list: taken back by KeRemoveQueueApc, or delivered.
LEMMA RemovedKeeps ==
  ASSUME IInv, ~Exiting, ~Exiting', NEW a \in Apcs, enqueued[a], Unlink(a),
         enqueued' = [enqueued EXCEPT ![a] = FALSE], UNCHANGED <<routine, allocated>>
  PROVE  /\ flink' \in [Nodes -> Nodes] /\ blink' \in [Nodes -> Nodes]
         /\ Lists'
         /\ apc_mode[a] = "user_list" =>
               /\ UserQueue \in Seq(Apcs) /\ IsInjective(UserQueue)
               /\ \E p \in 1 .. Len(UserQueue) : /\ UserQueue[p] = a
                                                 /\ UserQueue' = RemoveAt(UserQueue, p)
         /\ apc_mode[a] = "kernel_list" => UserQueue' = UserQueue
<1> USE DEF IInv
<1>1. "kernel_list" \in Heads /\ "user_list" \in Heads /\ apc_mode[a] \in Heads
  BY DEF Heads, ApcTypeOK
<1>2. PICK u : IsList("user_list", u)
  BY DEF Lists
<1>3. PICK k : IsList("kernel_list", k)
  BY DEF Lists, Exiting
<1>4. UserQueue = u
  BY <1>2, UserQueueIs
<1>5. CASE apc_mode[a] = "user_list"
  <2>1. a \in Queued("user_list")
    BY <1>5 DEF Queued
  <2>2. /\ flink' \in [Nodes -> Nodes] /\ blink' \in [Nodes -> Nodes]
        /\ \E p \in 1 .. Len(u) : u[p] = a /\ IsList("user_list", RemoveAt(u, p))'
        /\ IsList("kernel_list", k)'
    BY <1>1, <1>2, <1>3, <2>1, RemoveLists
  <2>3. PICK p \in 1 .. Len(u) : u[p] = a /\ IsList("user_list", RemoveAt(u, p))'
    BY <2>2
  <2>4. UserQueue' = RemoveAt(u, p)
    BY <2>3, UserQueueIs
  <2>5. Lists'
    BY <2>2, <2>3 DEF Lists
  <2> QED
    BY <1>2, <1>4, <1>5, <2>2, <2>3, <2>4, <2>5 DEF IsList
<1>6. CASE apc_mode[a] = "kernel_list"
  <2>1. a \in Queued("kernel_list")
    BY <1>6 DEF Queued
  <2>2. /\ flink' \in [Nodes -> Nodes] /\ blink' \in [Nodes -> Nodes]
        /\ \E p \in 1 .. Len(k) : k[p] = a /\ IsList("kernel_list", RemoveAt(k, p))'
        /\ IsList("user_list", u)'
    BY <1>1, <1>2, <1>3, <2>1, RemoveLists
  <2>3. UserQueue' = u
    BY <2>2, UserQueueIs
  <2>4. Lists'
    BY <2>2 DEF Lists
  <2> QED
    BY <1>4, <1>6, <2>2, <2>3, <2>4
<1> QED
  BY <1>1, <1>5, <1>6 DEF Heads

LEMMA RemoveKeeps ==
  ASSUME IInv, MayQueueLate = FALSE, NEW t \in Actors, NEW a \in Own, KeRemoveQueueApc(t, a)
  PROVE  IInv' /\ Promised
<1>1. /\ ~Exiting /\ enqueued[a] /\ Unlink(a) /\ enqueued' = [enqueued EXCEPT ![a] = FALSE]
      /\ UNCHANGED <<routine, allocated, in_hand, thread>> /\ a \in Apcs /\ a \notin Heap
  BY ApcQueueAssumption DEF KeRemoveQueueApc, Ready, MayQueue, Apcs
<1>2. ~Exiting' /\ Exiting' = Exiting
  BY <1>1 DEF Exiting, thread
<1>3. /\ flink' \in [Nodes -> Nodes] /\ blink' \in [Nodes -> Nodes] /\ Lists'
      /\ Promised
  <2>1. apc_mode[a] \in Heads
    BY <1>1 DEF IInv, ApcTypeOK
  <2>2. CASE apc_mode[a] = "user_list"
    <3>1. /\ UserQueue \in Seq(Apcs)
          /\ flink' \in [Nodes -> Nodes] /\ blink' \in [Nodes -> Nodes] /\ Lists'
      BY <1>1, <1>2, <2>2, RemovedKeeps
    <3>2. PICK p \in 1 .. Len(UserQueue) : UserQueue' = RemoveAt(UserQueue, p)
      BY <1>1, <1>2, <2>2, RemovedKeeps
    <3>3. p \in DOMAIN UserQueue
      BY <3>1
    <3> QED
      BY <1>1, <1>2, <3>1, <3>2, <3>3, Promises
  <2>3. CASE apc_mode[a] = "kernel_list"
    BY <1>1, <1>2, <2>3, RemovedKeeps, Promises
  <2> QED
    BY <2>1, <2>2, <2>3 DEF Heads
<1> USE DEF IInv, routine, thread
<1>4. /\ \A b \in Heap : enqueued'[b] = enqueued[b]
      /\ \A b \in Apcs : enqueued'[b] => enqueued[b]
  BY <1>1 DEF ApcTypeOK, Apcs
<1>5. ApcTypeOK' /\ Modes'
  BY <1>1, <1>3 DEF ApcTypeOK, Modes
<1>6. Hands'
  BY <1>1, <1>2, <1>4 DEF Hands, ApcTypeOK
<1>7. Current'
  BY <1>1, <1>4 DEF Current
<1>8. Known'
  BY <1>1, <1>2, <1>4 DEF Known, Reachable, ApcTypeOK, Exiting
<1> QED
  BY <1>3, <1>5, <1>6, <1>7, <1>8

\* NtQueueApcThread, the first half.
LEMMA AllocateKeeps ==
  ASSUME IInv, MayQueueLate = FALSE, NEW t \in Actors, NEW a \in Heap, Allocate(t, a)
  PROVE  IInv' /\ Promised
<1> USE DEF IInv
<1>1. PICK has_normal \in BOOLEAN : Initialized(a, has_normal, "user_list")
  BY DEF Allocate
<1>2. /\ ~Exiting /\ in_hand[t] = None /\ a \notin allocated /\ a \in Apcs /\ a \notin Own
      /\ allocated' = allocated \union {a} /\ in_hand' = [in_hand EXCEPT ![t] = a]
      /\ enqueued' = [enqueued EXCEPT ![a] = FALSE] /\ UNCHANGED <<flink, blink, thread>>
  BY ApcQueueAssumption DEF Allocate, Ready, MayQueue, Apcs
<1> USE DEF thread
<1>3. ~Exiting' /\ Exiting' = Exiting
  BY <1>2 DEF Exiting
<1>4. /\ normal_routine' = [normal_routine EXCEPT ![a] = has_normal]
      /\ apc_mode' = [apc_mode EXCEPT ![a] = IF has_normal THEN "user_list" ELSE "kernel_list"]
  BY <1>1 DEF Initialized
<1>5. \A b \in Apcs : b # a => /\ normal_routine'[b] = normal_routine[b]
                               /\ apc_mode'[b] = apc_mode[b] /\ enqueued'[b] = enqueued[b]
  BY <1>2, <1>4 DEF ApcTypeOK
<1>6. ~enqueued'[a]
  BY <1>2 DEF ApcTypeOK
<1>7. \A list \in Heads : \A s : IsList(list, s) => IsList(list, s)'
  <2> TAKE list \in Heads
  <2> TAKE s
  <2> HAVE IsList(list, s)
  <2>1. a \notin Queued(list)
    BY <1>2 DEF IsList
  <2>2. Queued(list)' = Queued(list)
    BY <1>5, <1>6, <2>1 DEF Queued
  <2>3. \A b \in Queued(list) : normal_routine'[b] = normal_routine[b]
    BY <1>5, <2>1 DEF Queued
  <2>4. Queued(list) \ Own \subseteq allocated'
    BY <1>2 DEF IsList
  <2> QED
    BY <1>2, <2>2, <2>3, <2>4, ListKept
<1>8. Lists' /\ UserQueue' = UserQueue
  BY <1>2, <1>3, <1>7, ListsStay
<1>9. ApcTypeOK'
  BY <1>2, <1>4 DEF ApcTypeOK, Heads
<1>10. Modes'
  <2>1. /\ ~normal_routine'[a] => apc_mode'[a] = "kernel_list"
        /\ normal_routine'[a] => apc_mode'[a] = "user_list"
    BY <1>2, <1>4 DEF ApcTypeOK
  <2>2. Heap \subseteq Apcs
    BY DEF Apcs
  <2> QED
    BY <1>5, <2>1, <2>2 DEF Modes
<1>11. \A v \in Actors : in_hand'[v] = IF v = t THEN a ELSE in_hand[v]
  BY <1>2 DEF ApcTypeOK
<1>12. Hands'
  <2>1. \A v \in Actors : in_hand[v] # None => in_hand[v] # a /\ in_hand[v] \in Apcs
    BY <1>2 DEF Hands, ApcTypeOK, Apcs
  <2>2. \A v \in Actors : in_hand'[v] # None =>
           in_hand'[v] \in allocated' /\ ~enqueued'[in_hand'[v]]
    BY <1>2, <1>5, <1>6, <1>11, <2>1 DEF Hands
  <2>3. \A v, w \in Actors : in_hand'[v] = in_hand'[w] /\ in_hand'[v] # None => v = w
    BY <1>11, <2>1 DEF Hands
  <2> QED
    BY <1>3, <2>2, <2>3 DEF Hands
<1>13. Current'
  <2>1. at = "taken" => current_entry # a /\ current_entry \in Apcs
    BY <1>2 DEF Current
  <2> QED
    BY <1>2, <1>5, <1>11, <2>1 DEF Current
<1>14. Known'
  <2>1. at' # "rundown" /\ at # "rundown"
    BY <1>2 DEF Exiting
  <2>2. ASSUME NEW b \in allocated', normal_routine'[b]
        PROVE  (\E v \in Actors : in_hand'[v] = b) \/ enqueued'[b] \/ b = current_entry
    <3>1. CASE b = a
      BY <1>11, <3>1
    <3>2. CASE b # a
      <4>1. b \in Apcs /\ b \in allocated /\ normal_routine[b] /\ b # None
        BY <1>2, <1>5, <2>2, <3>2, ApcQueueAssumption DEF ApcTypeOK, Apcs, Nodes
      <4>2. (\E v \in Actors : in_hand[v] = b) \/ enqueued[b] \/ b = current_entry
        BY <2>1, <4>1 DEF Known, Reachable
      <4> QED
        BY <1>2, <1>5, <1>11, <3>2, <4>1, <4>2
    <3> QED
      BY <3>1, <3>2
  <2> QED
    BY <1>2, <2>1, <2>2 DEF Known, Reachable
<1> QED
  BY <1>3, <1>8, <1>9, <1>10, <1>12, <1>13, <1>14, Promises

\* The first of the user list is delivered.
LEMMA TakeKeeps ==
  ASSUME IInv, TakeApc
  PROVE  IInv' /\ Promised
<1> DEFINE a == flink["user_list"]
<1>1. /\ at = "scan" /\ at' = "taken" /\ Entries("user_list") # <<>>
      /\ Unlink(a) /\ enqueued' = [enqueued EXCEPT ![a] = FALSE] /\ current_entry' = a
      /\ UNCHANGED <<routine, allocated, in_hand, depth, result>>
  BY DEF TakeApc
<1>2. ~Exiting /\ ~Exiting' /\ Exiting' = Exiting
  BY <1>1 DEF Exiting
<1>3. PICK u : IsList("user_list", u)
  BY <1>2 DEF IInv, Lists
<1>4. u \in Seq(Apcs) /\ u # <<>> /\ IsInjective(u) /\ ToSet(u) = Queued("user_list")
  BY <1>1, <1>3, ListEntries DEF IsList, Heads
<1>5. 1 \in 1 .. Len(u) /\ a = u[1]
  <2>1. 1 \in 1 .. Len(u)
    BY <1>4
  <2>2. flink[Node("user_list", u, 0)] = Node("user_list", u, 0 + 1)
    BY <1>3, <1>4 DEF IsList, Ring
  <2> QED
    BY <2>1, <2>2 DEF Node
<1>6. a \in Apcs /\ enqueued[a] /\ apc_mode[a] = "user_list"
  BY <1>4, <1>5 DEF ToSet, Queued
<1>7. /\ flink' \in [Nodes -> Nodes] /\ blink' \in [Nodes -> Nodes] /\ Lists'
      /\ \E p \in 1 .. Len(UserQueue) : UserQueue[p] = a /\ UserQueue' = RemoveAt(UserQueue, p)
  BY <1>1, <1>2, <1>6, RemovedKeeps
<1> HIDE DEF a
<1>8. Promised
  <2>1. UserQueue = u
    BY <1>2, <1>3, UserQueueIs
  <2>2. UserQueue' = RemoveAt(u, 1)
    BY <1>4, <1>5, <1>7, <2>1 DEF IsInjective
  <2>3. RemoveAt(u, 1) = Tail(u)
    <3>1. SubSeq(u, 1, 1 - 1) = <<>> /\ SubSeq(u, 1 + 1, Len(u)) = Tail(u)
      <4>1. SubSeq(u, 1, 1 - 1) = <<>>
        BY SubSeqEmpty
      <4>2. SubSeq(u, 1 + 1, Len(u)) = Tail(u)
        BY <1>4, TailIsSubSeq
      <4> QED
        BY <4>1, <4>2
    <3>2. Tail(u) \in Seq(Apcs)
      BY <1>4
    <3>3. <<>> \o Tail(u) = Tail(u)
      BY <3>2, ConcatEmptySeq
    <3> QED
      BY <3>1, <3>3 DEF RemoveAt
  <2> QED
    BY <1>2, <1>4, <2>1, <2>2, <2>3, Promises
<1> USE DEF IInv, routine
<1>9. /\ \A b \in Apcs : enqueued'[b] = (enqueued[b] /\ b # a)
      /\ normal_routine[a] /\ ~enqueued'[a]
  BY <1>1, <1>6 DEF ApcTypeOK, Modes
<1>10. ApcTypeOK' /\ Modes'
  BY <1>1, <1>6, <1>7 DEF ApcTypeOK, Modes, At
<1>11. Hands'
  BY <1>1, <1>2, <1>6, <1>9 DEF Hands, ApcTypeOK, Apcs
<1>12. Current'
  <2>1. a \in Heap => a \in allocated
    <3>1. a \in allocated \union Own
      BY <1>3, <1>4, <1>5 DEF IsList, ToSet
    <3> QED
      BY <3>1, ApcQueueAssumption
  <2>2. \A t \in Actors : in_hand[t] # a
    <3>1. a # None
      BY <1>6, ApcQueueAssumption DEF Nodes
    <3> QED
      BY <1>6, <3>1 DEF Hands
  <2> QED
    BY <1>1, <1>6, <1>9, <2>1, <2>2 DEF Current
<1>13. Known'
  <2>1. ASSUME NEW b \in allocated, normal_routine[b]
        PROVE  (\E t \in Actors : in_hand[t] = b) \/ enqueued'[b] \/ b = current_entry'
    <3>1. b \in Apcs /\ b # None
      BY ApcQueueAssumption DEF ApcTypeOK, Apcs, Nodes
    <3>2. (\E t \in Actors : in_hand[t] = b) \/ enqueued[b] \/ b = current_entry
      BY <1>1, <2>1 DEF Known, Reachable
    <3>3. current_entry = None
      BY <1>1 DEF Current
    <3> QED
      BY <1>1, <1>9, <3>1, <3>2, <3>3
  <2> QED
    BY <1>1, <2>1 DEF Known, Reachable
<1> QED
  BY <1>7, <1>8, <1>10, <1>11, <1>12, <1>13

\* It is freed, if it was allocated, and run.
LEMMA RunKeeps ==
  ASSUME IInv, RunApc
  PROVE  IInv' /\ Promised
<1> USE DEF IInv
<1>1. /\ at = "taken" /\ at' = "guest" /\ current_entry' = None
      /\ allocated' = allocated \ {current_entry}
      /\ UNCHANGED <<links, routine, in_hand, depth, result>>
  BY DEF RunApc
<1> USE DEF links, routine
<1>2. ~Exiting /\ ~Exiting' /\ Exiting' = Exiting
  BY <1>1 DEF Exiting
<1>3. /\ current_entry \in Heap => ~enqueued[current_entry]
      /\ \A t \in Actors : in_hand[t] # current_entry
      /\ \A b \in allocated : b \in Apcs
  BY <1>1 DEF Current, ApcTypeOK, Apcs
<1>4. \A list \in Heads : \A s : IsList(list, s) => IsList(list, s)'
  <2>1. \A list \in Heads : Queued(list)' = Queued(list)
    BY <1>1 DEF Queued
  <2>2. \A list \in Heads : \A a \in Queued(list) :
           /\ normal_routine'[a] = normal_routine[a]
           /\ a \in allocated \union Own => a \in allocated' \union Own
    BY <1>1, <1>3 DEF Queued, Apcs
  <2> QED
    BY <1>1, <2>1, <2>2, SameLists
<1>5. Lists' /\ UserQueue' = UserQueue
  BY <1>2, <1>4, ListsStay
<1>6. ApcTypeOK' /\ Modes'
  BY <1>1 DEF ApcTypeOK, Modes, At
<1>7. Hands'
  BY <1>1, <1>2, <1>3 DEF Hands
<1>8. Current'
  BY <1>1 DEF Current
<1>9. Known'
  BY <1>1 DEF Known, Reachable
<1> QED
  BY <1>2, <1>5, <1>6, <1>7, <1>8, <1>9, Promises

\* YankApcList of the user list.
LEMMA YankUserKeeps ==
  ASSUME IInv, MayQueueLate = FALSE, YankUserApcs
  PROVE  IInv' /\ Promised
<1>1. /\ at = "guest" /\ at' \in {"rundown", "kernel_rundown"}
      /\ \A t \in Actors : in_hand[t] = None
      /\ UNCHANGED <<routine, allocated, in_hand, depth>>
  BY DEF YankUserApcs
<1>2. ~Exiting /\ Exiting'
  BY <1>1 DEF Exiting
<1>3. PICK u : IsList("user_list", u)
  BY <1>2 DEF IInv, Lists
<1>4. PICK k : IsList("kernel_list", k)
  BY <1>1 DEF IInv, Lists
<1>5. /\ Entries("user_list") = u /\ UserQueue = u
      /\ "user_list" \in Heads /\ "kernel_list" \in Heads
  BY <1>2, <1>3, ListEntries, UserQueueIs DEF Heads
<1>6. /\ u \in Seq(Apcs) /\ IsInjective(u) /\ Ring(flink, blink, "user_list", u)
      /\ ToSet(u) = Queued("user_list") /\ Len(u) \in Nat /\ DOMAIN u = 1 .. Len(u)
      /\ flink \in [Nodes -> Nodes] /\ blink \in [Nodes -> Nodes]
  BY <1>3 DEF IsList, IInv, ApcTypeOK
<1>7. enqueued' = [a \in Apcs |-> enqueued[a] /\ a \notin ToSet(u)]
  BY <1>5 DEF YankUserApcs, Yank
<1>8. Queued("user_list")' = {} /\ Queued("kernel_list")' = Queued("kernel_list")
  BY <1>1, <1>6, <1>7 DEF Queued, routine
<1>9. /\ \A b \in allocated : normal_routine[b] => b \in ToSet(u)
      /\ \A b \in ToSet(u) : apc_mode[b] = "user_list" /\ b \in Apcs
  <2>1. ASSUME NEW b \in allocated, normal_routine[b]
        PROVE  b \in ToSet(u)
    <3>1. b \in Heap /\ b \in Apcs /\ b # None
      BY ApcQueueAssumption DEF IInv, ApcTypeOK, Apcs, Nodes
    <3>2. enqueued[b]
      BY <1>1, <2>1, <3>1 DEF IInv, Known, Reachable, Current
    <3> QED
      BY <1>6, <2>1, <3>1, <3>2 DEF IInv, Modes, Queued
  <2> QED
    BY <1>6, <2>1 DEF Queued
<1>10. ApcTypeOK' /\ Modes' /\ Hands' /\ Lists' /\ Current'
       /\ (u = <<>> => Known') /\ (u # <<>> => Known' /\ UserQueue' = u)
  <2>1. CASE u = <<>>
    <3>1. at' = "kernel_rundown" /\ UNCHANGED <<flink, blink, current_entry, result>>
      BY <1>5, <2>1 DEF YankUserApcs, Yank
    <3>2. IsList("kernel_list", k)'
      <4>1. Queued("kernel_list") \ Own \subseteq allocated'
        BY <1>1, <1>4 DEF IsList
      <4> QED
        BY <1>1, <1>4, <1>5, <1>8, <3>1, <4>1, ListKept DEF routine
    <3> USE DEF IInv, routine
    <3>3. Lists'
      BY <1>8, <3>1, <3>2 DEF Lists, Exiting
    <3>4. ApcTypeOK' /\ Modes'
      BY <1>1, <1>7, <3>1 DEF ApcTypeOK, Modes, At
    <3>5. Hands' /\ Current'
      BY <1>1, <3>1 DEF Hands, Current
    <3>6. Known'
      <4>1. \A b \in allocated : ~normal_routine[b]
        BY <1>9, <2>1 DEF ToSet
      <4> QED
        BY <1>1, <3>1, <4>1 DEF Known, Reachable
    <3> QED
      BY <2>1, <3>3, <3>4, <3>5, <3>6
  <2>2. CASE u # <<>>
    <3>1. /\ at' = "rundown" /\ Unlink("user_list")
          /\ result' = flink["user_list"] /\ current_entry' = flink["user_list"]
      BY <1>5, <2>2 DEF YankUserApcs, Yank
    <3>2. Len(u) >= 1 /\ flink["user_list"] = u[1] /\ blink["user_list"] = u[Len(u)]
      <4>1. Len(u) >= 1
        BY <1>6, <2>2
      <4>2. 0 \in 0 .. Len(u) /\ Len(u) \in 0 .. Len(u)
        BY <1>6
      <4>3. /\ flink[Node("user_list", u, 0)] = Node("user_list", u, 0 + 1)
            /\ blink[Node("user_list", u, Len(u) + 1)] = Node("user_list", u, Len(u))
        BY <1>6, <4>2 DEF Ring
      <4> QED
        BY <1>6, <4>1, <4>3 DEF Node
    <3>3. /\ u[1] \in ToSet(u) /\ u[Len(u)] \in ToSet(u) /\ ToSet(u) \subseteq Nodes
          /\ u[1] \in Apcs
      BY <1>6, <3>2 DEF ToSet, Queued, Nodes
    <3>4. /\ flink' = [flink EXCEPT ![u[Len(u)]] = u[1]]
          /\ blink' = [blink EXCEPT ![u[1]] = u[Len(u)]]
      BY <3>1, <3>2 DEF Unlink
    <3>5. IsList("kernel_list", k)'
      <4>1. ({"kernel_list"} \union ToSet(k)) \cap ToSet(u) = {}
        BY <1>3, <1>4, <1>5, ListsApart
      <4>2. {"kernel_list"} \union ToSet(k) \subseteq Nodes
        BY <1>4, <1>5 DEF IsList, Queued, Nodes
      <4>3. \A n \in {"kernel_list"} \union ToSet(k) : flink'[n] = flink[n] /\ blink'[n] = blink[n]
        BY <1>6, <3>3, <3>4, <4>1, <4>2
      <4>4. Queued("kernel_list") \ Own \subseteq allocated'
        BY <1>1, <1>4 DEF IsList
      <4> QED
        BY <1>1, <1>4, <1>5, <1>8, <4>3, <4>4, ListKept DEF routine
    <3>6. Remaining(u)'
      <4>1. \A i, j \in 1 .. Len(u) : u[i] = u[j] => i = j
        BY <1>6 DEF IsInjective
      <4>2. \A i \in 2 .. Len(u) : u[i] # u[1]
        <5> TAKE i \in 2 .. Len(u)
        <5>1. i \in 1 .. Len(u) /\ 1 \in 1 .. Len(u) /\ i # 1
          BY <1>6, <3>2
        <5> QED
          BY <4>1, <5>1
      <4>3. ASSUME NEW i \in 1 .. Len(u)
            PROVE  flink'[u[i]] = IF i = Len(u) THEN u[1] ELSE u[i + 1]
        <5>1. u[i] \in Nodes
          BY <1>6, <3>3 DEF ToSet
        <5>2. CASE i = Len(u)
          BY <1>6, <3>4, <5>1, <5>2
        <5>3. CASE i # Len(u)
          <6> Len(u) \in Nat /\ Len(u) \in 1 .. Len(u)
            BY <1>6, <3>2
          <6>1. u[i] # u[Len(u)]
            BY <4>1, <5>3
          <6>2. i \in 0 .. Len(u) /\ i + 1 \in 1 .. Len(u)
            BY <5>3
          <6>3. flink[u[i]] = u[i + 1]
            BY <1>6, <6>2 DEF Ring, Node
          <6> QED
            BY <1>6, <3>4, <5>1, <5>3, <6>1, <6>3
        <5> QED
          BY <5>2, <5>3
      <4>4. ToSet(u) \subseteq allocated' \union Own
        BY <1>1, <1>3 DEF IsList
      <4> QED
        BY <1>1, <1>6, <1>9, <2>2, <3>1, <3>2, <3>3, <4>2, <4>3, <4>4 DEF Remaining, routine
    <3>7. UserQueue' = u
      BY <3>1, <3>6, UserQueueIs
    <3> USE DEF IInv, routine
    <3>8. Lists'
      BY <1>8, <3>1, <3>5 DEF Lists, Exiting
    <3>9. ApcTypeOK' /\ Modes'
      <4>1. flink' \in [Nodes -> Nodes] /\ blink' \in [Nodes -> Nodes]
        BY <1>6, <3>3, <3>4
      <4> QED
        BY <1>1, <1>7, <3>1, <3>2, <3>3, <4>1 DEF ApcTypeOK, Modes, At
    <3>10. Hands' /\ Current'
      BY <1>1, <3>1 DEF Hands, Current
    <3>11. Known'
      BY <1>1, <1>9, <3>1, <3>6 DEF Known
    <3> QED
      BY <2>2, <3>7, <3>8, <3>9, <3>10, <3>11
  <2> QED
    BY <2>1, <2>2
<1>11. UserQueue' = UserQueue
  <2>1. CASE u = <<>>
    <3>1. at' = "kernel_rundown"
      BY <1>5, <2>1 DEF YankUserApcs
    <3> QED
      BY <1>5, <2>1, <3>1, UserQueueIs
  <2> QED
    BY <1>5, <1>10, <2>1
<1> QED
  BY <1>2, <1>10, <1>11, Promises DEF IInv

\* What a sequence is without its first element.
LEMMA TailProperties ==
  ASSUME NEW q \in Seq(Apcs), q # <<>>, IsInjective(q)
  PROVE  /\ Tail(q) \in Seq(Apcs) /\ Len(Tail(q)) = Len(q) - 1 /\ Len(q) \in Nat \ {0}
         /\ \A i \in 1 .. Len(q) - 1 : Tail(q)[i] = q[i + 1]
         /\ IsInjective(Tail(q))
         /\ ToSet(Tail(q)) = ToSet(q) \ {q[1]}
<1> DEFINE r == Tail(q)
<1>1. /\ r \in Seq(Apcs) /\ Len(r) = Len(q) - 1 /\ Len(q) \in Nat \ {0}
      /\ \A i \in 1 .. Len(q) - 1 : r[i] = q[i + 1]
  OBVIOUS
<1> HIDE DEF r
<1>2. \A i, j \in 1 .. Len(q) : q[i] = q[j] => i = j
  BY DEF IsInjective
<1>3. \A i \in 1 .. Len(r) : i + 1 \in 1 .. Len(q) /\ i \in 1 .. Len(q) - 1 /\ i + 1 # 1
  BY <1>1
<1>4. 1 \in 1 .. Len(q) /\ DOMAIN r = 1 .. Len(r) /\ DOMAIN q = 1 .. Len(q)
  BY <1>1
<1>5. IsInjective(r)
  <2>1. \A i, j \in 1 .. Len(r) : r[i] = r[j] => i = j
    BY <1>1, <1>2, <1>3
  <2> QED
    BY <1>4, <2>1 DEF IsInjective
<1>6. ToSet(r) \subseteq ToSet(q) \ {q[1]}
  <2>1. ASSUME NEW i \in 1 .. Len(r)
        PROVE  r[i] \in ToSet(q) \ {q[1]}
    BY <1>1, <1>2, <1>3, <1>4 DEF ToSet
  <2> QED
    BY <1>4, <2>1 DEF ToSet
<1>7. ToSet(q) \ {q[1]} \subseteq ToSet(r)
  <2>1. ASSUME NEW a \in ToSet(q) \ {q[1]}
        PROVE  a \in ToSet(r)
    <3>1. PICK j \in 1 .. Len(q) : q[j] = a
      BY <1>4 DEF ToSet
    <3>2. j - 1 \in 1 .. Len(r) /\ j - 1 + 1 = j
      BY <1>1, <3>1
    <3>3. r[j - 1] = q[j]
      BY <1>1, <1>3, <3>2
    <3> QED
      BY <1>4, <3>1, <3>2, <3>3 DEF ToSet
  <2> QED
    BY <2>1
<1> QED
  BY <1>1, <1>5, <1>6, <1>7 DEF r

\* The rundown visits the next entry.
LEMMA RundownKeeps ==
  ASSUME IInv, RundownApc
  PROVE  IInv' /\ Promised
<1> USE DEF IInv
<1>1. /\ at = "rundown" /\ allocated' = allocated \ {current_entry}
      /\ UNCHANGED <<links, routine, in_hand, depth>>
  BY DEF RundownApc
<1> USE DEF links, routine
<1>2. PICK q : Remaining(q) /\ \A a \in allocated : normal_routine[a] => a \in ToSet(q)
  BY <1>1 DEF Known
<1> DEFINE r == Tail(q)
<1>3. /\ q \in Seq(Apcs) /\ q # <<>> /\ q[1] = current_entry /\ result \in Apcs
      /\ ToSet(q) \subseteq allocated \union Own
      /\ \A a \in ToSet(q) : apc_mode[a] = "user_list"
  BY <1>2 DEF Remaining
<1>4. /\ r \in Seq(Apcs) /\ Len(r) = Len(q) - 1 /\ Len(q) \in Nat \ {0}
      /\ \A i \in 1 .. Len(q) - 1 : r[i] = q[i + 1]
      /\ IsInjective(r) /\ ToSet(r) = ToSet(q) \ {current_entry}
  BY <1>2, <1>3, TailProperties DEF Remaining
<1> HIDE DEF r
<1>5. /\ 1 \in 1 .. Len(q) /\ current_entry \in Apcs /\ current_entry \in ToSet(q)
      /\ DOMAIN q = 1 .. Len(q)
  <2>1. 1 \in 1 .. Len(q) /\ DOMAIN q = 1 .. Len(q)
    BY <1>3, <1>4
  <2> QED
    BY <1>3, <2>1 DEF ToSet
<1>6. \A i \in 1 .. Len(q) : flink[q[i]] = IF i = Len(q) THEN result ELSE q[i + 1]
  BY <1>2 DEF Remaining
<1> flink[current_entry] = IF Len(q) = 1 THEN result ELSE q[2]
  <2>1. flink[q[1]] = IF 1 = Len(q) THEN result ELSE q[1 + 1]
    BY <1>5, <1>6
  <2>2. 1 + 1 = 2
    OBVIOUS
  <2> QED
    BY <1>3, <2>1, <2>2
<1>7. \A i \in 1 .. Len(r) : r[i] = q[i + 1] /\ i + 1 \in 1 .. Len(q) /\ r[i] \in Apcs
  BY <1>4
<1>8. Exiting /\ Queued("user_list") = {}
  BY <1>1 DEF Exiting, Lists
<1>9. PICK k : IsList("kernel_list", k)
  BY <1>1 DEF Lists
<1>10. IsList("kernel_list", k)'
  <2>1. current_entry \notin Queued("kernel_list")
    BY <1>3, <1>5 DEF Queued
  <2>2. Queued("kernel_list")' = Queued("kernel_list") /\ "kernel_list" \in Heads
    BY <1>1 DEF Queued, Heads
  <2>3. Queued("kernel_list") \ Own \subseteq allocated'
    BY <1>1, <1>9, <2>1 DEF IsList
  <2> QED
    BY <1>1, <1>9, <2>2, <2>3, ListKept
<1>11. Queued("user_list")' = {}
  BY <1>1, <1>8 DEF Queued
<1>12. UserQueue = q
  BY <1>1, <1>2, UserQueueIs
<1>13. Hands'
  <2>1. \A t \in Actors : in_hand[t] = None
    BY <1>8 DEF Hands
  <2> QED
    BY <1>1, <2>1 DEF Hands
<1>14. CASE flink[current_entry] = result
  <2>1. at' = "kernel_rundown" /\ current_entry' = None /\ result' = None
    BY <1>14 DEF RundownApc
  <2>2. Len(q) = 1
    <3> SUFFICES ASSUME Len(q) # 1
                 PROVE  FALSE
      OBVIOUS
    <3>1. flink[current_entry] = q[2]
      OBVIOUS
    <3>2. 2 \in 2 .. Len(q)
      BY <1>4
    <3>3. q[2] # result
      BY <1>2, <3>2 DEF Remaining
    <3> QED
      BY <1>14, <3>1, <3>3
  <2>3. r = <<>>
    BY <1>4, <2>2
  <2>4. UserQueue' = r /\ Exiting' = Exiting
    BY <1>8, <2>1, <2>3, UserQueueIs DEF Exiting
  <2>5. Lists'
    BY <1>10, <1>11, <2>1 DEF Lists, Exiting
  <2>6. ApcTypeOK' /\ Modes'
    BY <1>1, <2>1 DEF ApcTypeOK, Modes, At
  <2>7. Current'
    BY <1>1, <2>1 DEF Current
  <2>8. Known'
    <3>1. ToSet(r) = {}
      BY <2>3 DEF ToSet
    <3> QED
      BY <1>1, <1>2, <1>4, <2>1, <3>1 DEF Known, Reachable
  <2> QED
    BY <1>3, <1>12, <1>13, <2>4, <2>5, <2>6, <2>7, <2>8, Promises DEF r
<1>15. CASE flink[current_entry] # result
  <2>1. at' = "rundown" /\ current_entry' = flink[current_entry] /\ result' = result
    BY <1>1, <1>15 DEF RundownApc
  <2>2. Len(q) # 1 /\ flink[current_entry] = q[2]
    BY <1>15
  <2>3. 1 \in 1 .. Len(r) /\ r # <<>> /\ r[1] = current_entry' /\ current_entry' \in Apcs
    <3>1. 1 \in 1 .. Len(r)
      BY <1>4, <2>2
    <3> QED
      BY <1>4, <1>7, <2>1, <2>2, <3>1
  <2>4. Remaining(r)'
    <3>1. \A i \in 2 .. Len(r) : r[i] # result
      <4> TAKE i \in 2 .. Len(r)
      <4>1. i \in 1 .. Len(r) /\ i + 1 \in 2 .. Len(q)
        BY <1>4
      <4> QED
        BY <1>2, <1>7, <4>1 DEF Remaining
    <3>2. ASSUME NEW i \in 1 .. Len(r)
          PROVE  flink[r[i]] = IF i = Len(r) THEN result ELSE r[i + 1]
      <4>1. flink[q[i + 1]] = IF i + 1 = Len(q) THEN result ELSE q[i + 1 + 1]
        BY <1>6, <1>7
      <4>2. i # Len(r) => i + 1 \in 1 .. Len(r)
        BY <1>4
      <4>3. i + 1 = Len(q) <=> i = Len(r)
        BY <1>4
      <4> QED
        BY <1>7, <4>1, <4>2, <4>3
    <3>3. ToSet(r) \subseteq allocated' \union Own /\ \A a \in ToSet(r) : apc_mode'[a] = "user_list"
      BY <1>1, <1>3, <1>4
    <3> QED
      BY <1>1, <1>3, <1>4, <2>1, <2>3, <3>1, <3>2, <3>3 DEF Remaining
  <2>5. UserQueue' = r /\ Exiting' = Exiting
    BY <1>8, <2>1, <2>4, UserQueueIs DEF Exiting
  <2>6. Lists'
    BY <1>10, <1>11, <2>1 DEF Lists, Exiting
  <2>7. ApcTypeOK' /\ Modes'
    BY <1>1, <2>1, <2>3 DEF ApcTypeOK, Modes
  <2>8. Current'
    BY <1>1, <2>1 DEF Current
  <2>9. Known'
    BY <1>1, <1>2, <1>4, <2>1, <2>4 DEF Known
  <2> QED
    BY <1>3, <1>12, <1>13, <2>5, <2>6, <2>7, <2>8, <2>9, Promises DEF r
<1> QED
  BY <1>14, <1>15

\* YankApcList of the kernel list: nothing with a routine is left anywhere.
LEMMA YankKernelKeeps ==
  ASSUME IInv, YankKernelApcs
  PROVE  IInv' /\ Promised
<1> USE DEF IInv
<1>1. /\ at = "kernel_rundown" /\ at' = "gone"
      /\ UNCHANGED <<routine, allocated, in_hand, depth, current_entry, result>>
      /\ enqueued' = [a \in Apcs |-> enqueued[a] /\ a \notin ToSet(Entries("kernel_list"))]
  BY DEF YankKernelApcs, Yank
<1> USE DEF routine
<1>2. Exiting /\ Exiting' /\ Exiting' = Exiting /\ UserQueue = <<>> /\ UserQueue' = <<>>
  BY <1>1, UserQueueIs DEF Exiting
<1>3. flink' \in [Nodes -> Nodes] /\ blink' \in [Nodes -> Nodes]
  <2>1. "kernel_list" \in Nodes
    BY DEF Nodes, Heads
  <2>2. UNCHANGED <<flink, blink>> \/ Unlink("kernel_list")
    BY DEF YankKernelApcs, Yank
  <2> QED
    BY <2>1, <2>2 DEF ApcTypeOK, Unlink
<1>4. Lists'
  BY <1>1, <1>2 DEF Lists, Queued
<1>5. ApcTypeOK' /\ Modes'
  BY <1>1, <1>3 DEF ApcTypeOK, Modes, At
<1>6. Hands'
  BY <1>1, <1>2 DEF Hands
<1>7. Current'
  BY <1>1 DEF Current
<1>8. Known'
  <2>1. \A a \in allocated : ~normal_routine[a]
    <3> SUFFICES ASSUME NEW a \in allocated, normal_routine[a]
                 PROVE  FALSE
      OBVIOUS
    <3>1. a \in Heap /\ a \in Apcs /\ a # None
      BY ApcQueueAssumption DEF ApcTypeOK, Apcs, Nodes
    <3>2. enqueued[a]
      BY <1>1, <1>2, <3>1 DEF Known, Reachable, Hands, Current
    <3> QED
      BY <1>2, <3>1, <3>2 DEF Modes, Lists, Queued
  <2> QED
    BY <1>1, <2>1 DEF Known, Reachable
<1> QED
  BY <1>2, <1>4, <1>5, <1>6, <1>7, <1>8, Promises

LEMMA NextIInv ==
  ASSUME IInv, MayQueueLate = FALSE, [Next]_vars
  PROVE  IInv' /\ Promised
<1>1. CASE ProcessUserApcs \/ ReturnFromRoutine \/ FinishProcessing
  BY <1>1, ThreadMoves
<1>2. CASE TakeApc
  BY <1>2, TakeKeeps
<1>3. CASE RunApc
  BY <1>3, RunKeeps
<1>4. CASE YankUserApcs
  BY <1>4, YankUserKeeps
<1>5. CASE Rundown
  BY <1>5, RundownKeeps, YankKernelKeeps DEF Rundown
<1>6. ASSUME NEW t \in Actors, NEW a \in Own, KeInitializeApc(t, a)
      PROVE  IInv' /\ Promised
  BY <1>6, InitializeKeeps
<1>7. ASSUME NEW t \in Actors, NEW a \in Own, KeInsertQueueApc(t, a)
      PROVE  IInv' /\ Promised
  BY <1>7, InsertKeeps
<1>8. ASSUME NEW t \in Actors, NEW a \in Own, KeRemoveQueueApc(t, a)
      PROVE  IInv' /\ Promised
  BY <1>8, RemoveKeeps
<1>9. ASSUME NEW t \in Actors, NEW a \in Heap, Allocate(t, a)
      PROVE  IInv' /\ Promised
  BY <1>9, AllocateKeeps
<1>10. ASSUME NEW t \in Actors, InsertAllocated(t)
       PROVE  IInv' /\ Promised
  BY <1>10, InsertAllocatedKeeps
<1>11. CASE UNCHANGED vars
  BY <1>11, StutterKeeps
<1> QED
  BY <1>1, <1>2, <1>3, <1>4, <1>5, <1>6, <1>7, <1>8, <1>9, <1>10, <1>11 DEF Next

-----------------------------------------------------------------------------
(* The properties *)

\* A ring is linked the same way in both directions.
LEMMA RingIsLinked ==
  ASSUME NEW list \in Heads, NEW s, IsList(list, s)
  PROVE  LinkedBothWays(list)
<1>1. s \in Seq(Apcs) /\ IsInjective(s) /\ Ring(flink, blink, list, s) /\ Entries(list) = s
  BY ListEntries DEF IsList
<1>a. \A m \in {list} \union ToSet(s) : \E i \in 0 .. Len(s) : m = Node(list, s, i)
  BY <1>1, NodesDiffer
<1>2. ASSUME NEW n \in {list} \union ToSet(s)
      PROVE  blink[flink[n]] = n /\ flink[blink[n]] = n
  <2>1. PICK i \in 0 .. Len(s) : n = Node(list, s, i)
    BY <1>a
  <2>2. blink[flink[n]] = n
    BY <1>1, <2>1 DEF Ring
  <2>3. PICK j \in 0 .. Len(s) : n = Node(list, s, j + 1)
    <3>1. CASE i = 0
      <4>1. Len(s) \in 0 .. Len(s) /\ Node(list, s, Len(s) + 1) = list /\ Node(list, s, 0) = list
        BY <1>1 DEF Node
      <4> QED
        BY <2>1, <3>1, <4>1
    <3>2. CASE i # 0
      <4>1. i - 1 \in 0 .. Len(s) /\ i - 1 + 1 = i
        BY <1>1, <3>2
      <4> QED
        BY <2>1, <4>1
    <3> QED
      BY <3>1, <3>2
  <2>4. flink[blink[n]] = n
    BY <1>1, <2>3 DEF Ring
  <2> QED
    BY <2>2, <2>4
<1> QED
  BY <1>1, <1>2 DEF LinkedBothWays

LEMMA ImpliesApcInv == IInv => ApcInv
<1> SUFFICES ASSUME IInv
             PROVE  ApcInv
  OBVIOUS
<1> USE DEF IInv
<1>1. "kernel_list" \in Heads /\ "user_list" \in Heads
  BY DEF Heads
<1>2. ASSUME NEW list \in Heads, NEW s, IsList(list, s)
      PROVE  ListIsSound(list)
  <2>1. Entries(list) = s
    BY <1>2, ListEntries
  <2>2. LinkedBothWays(list)
    BY <1>2, RingIsLinked
  <2> QED
    BY <1>2, <2>1, <2>2 DEF ListIsSound, IsList, Queued, InOrder
<1>3. ListsAreSound
  <2>1. at # "gone" => ListIsSound("kernel_list")
    BY <1>1, <1>2 DEF Lists
  <2>2. ~Exiting => ListIsSound("user_list")
    BY <1>1, <1>2 DEF Lists
  <2>3. Exiting => \A a \in Apcs : enqueued[a] => apc_mode[a] = "kernel_list"
    BY DEF Lists, Queued, ApcTypeOK, Heads
  <2> QED
    BY <2>1, <2>2, <2>3 DEF ListsAreSound
<1> DEFINE user == {a \in Heap : normal_routine[a]}
           held == {in_hand[t] : t \in Actors} \union {a \in Heap : enqueued[a]}
                     \union {current_entry} \union ToRunDown
<1>4. \A a \in user : a \in Apcs /\ a # None /\ a \notin Own /\ apc_mode[a] = "user_list"
  BY ApcQueueAssumption DEF Apcs, Nodes, Modes
<1>5. allocated \subseteq Heap
  BY DEF ApcTypeOK
<1>6. ASSUME NEW a \in user, (\E t \in Actors : in_hand[t] = a) \/ enqueued[a]
      PROVE  a \in allocated
  <2>1. CASE enqueued[a]
    <3>1. a \in Queued("user_list")
      BY <1>4, <2>1 DEF Queued
    <3>2. PICK s : IsList("user_list", s)
      BY <3>1 DEF Lists
    <3> QED
      BY <1>4, <3>1, <3>2 DEF IsList
  <2>2. CASE ~enqueued[a]
    BY <1>4, <1>6, <2>2 DEF Hands
  <2> QED
    BY <2>1, <2>2
<1>7. CASE at = "rundown"
  <2>1. PICK q : Remaining(q) /\ \A a \in allocated : normal_routine[a] => a \in ToSet(q)
    BY <1>7 DEF Known
  <2>2. ToRunDown = ToSet(q)
    <3>1. UserQueue = q
      BY <1>7, <2>1, UserQueueIs
    <3> QED
      BY <1>7, <3>1 DEF ToRunDown, UserQueue
  <2>3. current_entry \in ToSet(q) /\ ToSet(q) \subseteq allocated \union Own
    <3>1. q \in Seq(Apcs) /\ q # <<>> /\ q[1] = current_entry
      BY <2>1 DEF Remaining
    <3>2. 1 \in DOMAIN q
      BY <3>1
    <3> QED
      BY <2>1, <3>1, <3>2 DEF Remaining, ToSet
  <2>4. \A a \in user : a \in held => a \in allocated
    BY <1>4, <1>6, <2>2, <2>3
  <2>5. \A a \in user : a \in allocated => a \in held
    BY <2>1, <2>2
  <2> HIDE DEF user, held
  <2>6. allocated \cap user = held \cap user
    BY <2>4, <2>5
  <2> QED
    BY <1>3, <2>2, <2>3, <2>6 DEF ApcInv, HeapIsExact, user, held
<1>8. CASE at # "rundown"
  <2>1. ToRunDown = {}
    BY <1>8 DEF ToRunDown
  <2>2. \A a \in user : a \in held => a \in allocated
    <3>1. \A a \in user : a = current_entry => a \in allocated
      BY <1>4, <1>8 DEF Current
    <3> QED
      BY <1>6, <2>1, <3>1
  <2>3. \A a \in user : a \in allocated => a \in held
    BY <1>8 DEF Known, Reachable
  <2> HIDE DEF user, held
  <2>4. allocated \cap user = held \cap user
    BY <2>2, <2>3
  <2> QED
    BY <1>3, <2>1, <2>4 DEF ApcInv, HeapIsExact, user, held
<1> QED
  BY <1>7, <1>8

\* While nobody queues to a thread that has begun to exit, its lists are rings
\* of exactly what is marked as queued there, special APCs first; no APC is
\* freed early, none with a routine leaks (xboxkrnl_threading.cc, native_list.h).
THEOREM ApcInvariance ==
  ASSUME MayQueueLate = FALSE
  PROVE  Spec => []ApcInv
<1>1. Init => IInv
  BY InitIInv
<1>2. IInv /\ [Next]_vars => IInv'
  BY NextIInv
<1> QED
  BY <1>1, <1>2, ImpliesApcInv, PTL DEF Spec

\* The safety part of the promise: every step of the code is a step of
\* ApcContract or changes nothing there, so that each user APC is handed out
\* once and in order, to the thread or for rundown.
THEOREM ApcsAreHandedOutInOrder ==
  ASSUME MayQueueLate = FALSE
  PROVE  Spec => Contract!Init /\ [][Contract!Next]_<<UserQueue, Exiting>>
<1>1. Init => IInv /\ Contract!Init
  BY InitIInv
<1>2. IInv /\ [Next]_vars => IInv' /\ [Contract!Next]_<<UserQueue, Exiting>>
  BY NextIInv DEF Promised
<1> QED
  BY <1>1, <1>2, PTL DEF Spec
=============================================================================
