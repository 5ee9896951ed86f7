-------------------------- MODULE TimerQueueProofs --------------------------
(***************************************************************************)
(* Proofs about TimerQueue for any number of timers, threads and ring      *)
(* slots.  TimerInv is inductive: one lemma per conjunct, each with one    *)
(* step per action.  The theorems follow from it.                          *)
(***************************************************************************)
EXTENDS TimerQueue, TLAPS

\* Two sequences in one window of W consecutive numbers that use the same slot
\* are the same: what keeps producers from overwriting an item (ring index
\* arithmetic of buffer_[sequence]).
LEMMA ModInjective ==
  ASSUME NEW W \in Nat \ {0}, NEW n \in Nat,
         NEW a \in Nat, NEW b \in Nat,
         n <= a, a < n + W, n <= b, b < n + W,
         a % W = b % W
  PROVE  a = b
<1> DEFINE q == (a \div W) - (b \div W)
<1>1. a = W * (a \div W) + (a % W) /\ a \div W \in Int
  BY Z3
<1>2. b = W * (b \div W) + (b % W) /\ b \div W \in Int
  BY Z3
<1>3. a - b = W * q /\ q \in Int
  BY <1>1, <1>2
<1>4. CASE q >= 1
  <2>1. W * q >= W
    BY <1>3, <1>4
  <2> QED BY <2>1, <1>3
<1>5. CASE q <= -1
  <2>1. W * q <= -W
    BY <1>3, <1>5
  <2> QED BY <2>1, <1>3
<1>6. CASE q = 0
  BY <1>3, <1>6
<1> QED BY <1>3, <1>4, <1>5, <1>6

\* A slot is an index of the ring.
LEMMA SlotType == \A s \in Nat : Slot(s) \in 0 .. WaitCount - 1
<1> SUFFICES ASSUME NEW s \in Nat PROVE Slot(s) \in 0 .. WaitCount - 1
  OBVIOUS
<1>1. s % WaitCount \in 0 .. WaitCount - 1
  BY BoundsAssumption, Z3
<1> QED BY <1>1 DEF Slot

\* Every step keeps the variables in their types (all of TimerQueue).
LEMMA TypeStep == TimerInv /\ [Next]_vars => TypeOK'
<1> SUFFICES ASSUME TimerInv, [Next]_vars PROVE TypeOK'
  OBVIOUS
<1> USE ItemsAssumption, ActorsAssumption, IntervalAssumption,
        BoundsAssumption
    DEF TimerInv, TypeOK, ControlInv, AllItems, Actors, Time, States, Running,
          DispatchPC, ThreadPC
<1>1. CASE Tick
  BY <1>1 DEF Tick, Goto, ring, lists, calls
<1>2. CASE CheckShutdown
  BY <1>2 DEF CheckShutdown, Goto, ring, lists, calls
<1>3. CASE Consume
  <2>1. PICK available \in published : ConsumeUpTo(available)
    BY <1>3 DEF Consume
  <2>2. available \in Nat /\ available >= next_sequence
    BY <2>1 DEF ConsumeUpTo
  <2>3. \A s \in published : buffer[Slot(s)] \in AllItems
    BY DEF RingInv
  <2>4. wait_queue' \subseteq AllItems
    BY <2>1, <2>3 DEF ConsumeUpTo
  <2>5. buffer' \in [0 .. WaitCount - 1 -> AllItems \cup {NoItem}]
    BY <2>1 DEF ConsumeUpTo
  <2> QED BY <1>3, <2>1, <2>2, <2>4, <2>5 DEF Consume, ConsumeUpTo, Goto
<1>4. CASE WaitTimeout
  BY <1>4 DEF WaitTimeout, Goto, ring, lists, calls
<1>5. ASSUME NEW i \in AllItems, Invoke(i) PROVE TypeOK'
  BY <1>5 DEF Invoke, Goto, ring, lists, calls, Front, Expired
<1>6. CASE AfterCallback
  BY <1>6 DEF AfterCallback, Goto, ring, lists, calls
<1>7. CASE Rearm
  BY <1>7 DEF Rearm, Goto, ring, lists, calls
<1>8. CASE Retire
  BY <1>8 DEF Retire, Goto, ring, lists, calls
<1>9. CASE EndScan
  BY <1>9 DEF EndScan, Goto, ring, lists, calls
<1>10. CASE CallbackReturn
  BY <1>10 DEF CallbackReturn, Goto, ring, lists, calls
<1>11. ASSUME NEW a \in Actors, NEW i \in Items, NEW d \in Time, QueueTimer(a, i, d)
       PROVE  TypeOK'
  BY <1>11 DEF QueueTimer, Goto, ring, lists, calls, Ready, Home, Enqueue, Later
<1>12. ASSUME NEW a \in Actors, NEW i \in Items, BeginDisarm(a, i) PROVE TypeOK'
  BY <1>12 DEF BeginDisarm, Goto, ring, lists, calls, Ready, Home, Known
<1>13. ASSUME NEW a \in Actors, Publish(a) PROVE TypeOK'
  <2>1. Slot(seq[a]) \in 0 .. WaitCount - 1 /\ target[a] \in AllItems
    BY <1>13, SlotType DEF Publish
  <2>2. buffer' \in [0 .. WaitCount - 1 -> AllItems \cup {NoItem}]
    BY <1>13, <2>1 DEF Publish
  <2>3. pc' \in [Actors -> DispatchPC \cup ThreadPC]
    BY <1>13 DEF Publish, Leave, Home, Goto
  <2>4. /\ target' \in [Actors -> AllItems \cup {NoItem}]
        /\ seq' \in [Actors -> Nat]
    BY <1>13 DEF Publish, Leave
  <2>5. published' \subseteq Nat
    <3>1. seq[a] \in Nat /\ published' = published \cup {seq[a]}
      BY <1>13 DEF Publish
    <3> QED BY <3>1
  <2> QED BY <1>13, <2>2, <2>3, <2>4, <2>5 DEF Publish, lists
<1>14. ASSUME NEW a \in Actors, SelfDisarm(a) PROVE TypeOK'
  BY <1>14 DEF SelfDisarm, Goto, ring, lists, calls, Leave, Home
<1>15. ASSUME NEW a \in Actors, Disarm(a) PROVE TypeOK'
  BY <1>15 DEF Disarm, Goto, ring, lists, calls, Leave, Home
<1>16. ASSUME NEW t \in Threads, Shutdown(t) PROVE TypeOK'
  BY <1>16 DEF Shutdown, Goto, ring, lists, calls
<1>17. ASSUME NEW t \in Threads, QueueKick(t) PROVE TypeOK'
  BY <1>17 DEF QueueKick, Goto, ring, lists, calls, Enqueue, Later
<1>18. ASSUME NEW t \in Threads, Join(t) PROVE TypeOK'
  BY <1>18 DEF Join, Goto, ring, lists, calls
<1>19. CASE UNCHANGED vars
  BY <1>19 DEF vars, ring, lists, calls
<1> QED BY <1>1, <1>2, <1>3, <1>4, <1>5, <1>6, <1>7, <1>8, <1>9, <1>10,
         <1>11, <1>12, <1>13, <1>14, <1>15, <1>16, <1>17, <1>18, <1>19
    DEF Next, DispatchLoop, CallStep, ThreadStep

\* Every step keeps control points and live locals consistent.
LEMMA ControlStep == TimerInv /\ [Next]_vars => ControlInv'
<1> SUFFICES ASSUME TimerInv, [Next]_vars PROVE ControlInv'
  OBVIOUS
<1> USE ItemsAssumption, ActorsAssumption, IntervalAssumption,
        BoundsAssumption
    DEF TimerInv, TypeOK, ControlInv, StateTellsCallback, KickIsInert,
          AllItems, Actors, States, Running,
          DispatchPC, ThreadPC
<1>1. CASE Tick
  BY <1>1 DEF Tick, Goto, ring, lists, calls
<1>2. CASE CheckShutdown
  BY <1>2 DEF CheckShutdown, Goto, ring, lists, calls
<1>3. CASE Consume
  BY <1>3 DEF Consume, Goto, ring, lists, calls, Expired
<1>4. CASE WaitTimeout
  BY <1>4 DEF WaitTimeout, Goto, ring, lists, calls
<1>5. ASSUME NEW i \in AllItems, Invoke(i) PROVE ControlInv'
  BY <1>5 DEF Invoke, Goto, ring, lists, calls, Front, Expired
<1>6. CASE AfterCallback
  BY <1>6 DEF AfterCallback, Goto, ring, lists, calls
<1>7. CASE Rearm
  BY <1>7 DEF Rearm, Goto, ring, lists, calls
<1>8. CASE Retire
  BY <1>8 DEF Retire, Goto, ring, lists, calls
<1>9. CASE EndScan
  BY <1>9 DEF EndScan, Goto, ring, lists, calls
<1>10. CASE CallbackReturn
  BY <1>10 DEF CallbackReturn, Goto, ring, lists, calls
<1>11. ASSUME NEW a \in Actors, NEW i \in Items, NEW d \in Time, QueueTimer(a, i, d)
       PROVE  ControlInv'
  BY <1>11 DEF QueueTimer, Goto, ring, lists, calls, Ready, Home, Enqueue, Later
<1>12. ASSUME NEW a \in Actors, NEW i \in Items, BeginDisarm(a, i)
       PROVE  ControlInv'
  BY <1>12 DEF BeginDisarm, Goto, ring, lists, calls, Ready, Home, Known
<1>13. ASSUME NEW a \in Actors, Publish(a) PROVE ControlInv'
  <2>1. CASE a = Dispatcher
    <3>1. target[a] # Kick
      BY <1>13, <2>1 DEF Publish
    <3>2. pc' = [pc EXCEPT ![a] = "callback"]
      BY <1>13, <2>1, <3>1 DEF Publish, Leave, Home, Goto
    <3> QED BY <1>13, <2>1, <3>2 DEF Publish, Leave, lists
  <2>2. CASE a # Dispatcher
    <3>1. \E w \in {"join", "idle"} : pc' = [pc EXCEPT ![a] = w]
      BY <1>13, <2>2 DEF Publish, Leave, Home, Goto
    <3> QED BY <1>13, <2>2, <3>1 DEF Publish, Leave, lists
  <2> QED BY <2>1, <2>2
<1>14. ASSUME NEW a \in Actors, SelfDisarm(a) PROVE ControlInv'
  BY <1>14 DEF SelfDisarm, Goto, ring, lists, calls, Leave, Home
<1>15. ASSUME NEW a \in Actors, Disarm(a) PROVE ControlInv'
  <2>1. \E w \in {"callback", "idle"} :
           /\ pc' = [pc EXCEPT ![a] = w]
           /\ w = "callback" <=> a = Dispatcher
    BY <1>15 DEF Disarm, Leave, Home, Goto
  <2>2. pc'[Dispatcher] = "rearm" =>
          pc[Dispatcher] = "rearm" /\ state'[current] = state[current]
    BY <1>15, <2>1 DEF Disarm
  <2>3. pc'[Dispatcher] = "retire" =>
          pc[Dispatcher] = "retire" /\ state'[current] = state[current]
    BY <1>15, <2>1 DEF Disarm
  <2> QED BY <1>15, <2>1, <2>2, <2>3 DEF Disarm, Leave, ring, lists
<1>16. ASSUME NEW t \in Threads, Shutdown(t) PROVE ControlInv'
  BY <1>16 DEF Shutdown, Goto, ring, lists, calls
<1>17. ASSUME NEW t \in Threads, QueueKick(t) PROVE ControlInv'
  BY <1>17 DEF QueueKick, Goto, ring, lists, calls, Enqueue, Later
<1>18. ASSUME NEW t \in Threads, Join(t) PROVE ControlInv'
  BY <1>18 DEF Join, Goto, ring, lists, calls
<1>19. CASE UNCHANGED vars
  BY <1>19 DEF vars, ring, lists, calls
<1> QED BY <1>1, <1>2, <1>3, <1>4, <1>5, <1>6, <1>7, <1>8, <1>9, <1>10,
         <1>11, <1>12, <1>13, <1>14, <1>15, <1>16, <1>17, <1>18, <1>19
    DEF Next, DispatchLoop, CallStep, ThreadStep

\* Every step keeps state_ in agreement with what the dispatch thread does.
LEMMA StateStep == TimerInv /\ [Next]_vars => StateTellsCallback'
<1> SUFFICES ASSUME TimerInv, [Next]_vars PROVE StateTellsCallback'
  OBVIOUS
<1> USE ItemsAssumption, ActorsAssumption, IntervalAssumption,
        BoundsAssumption
    DEF TimerInv, TypeOK, ControlInv, StateTellsCallback, AllItems, Actors,
          States, Running, KickIsInert
<1>1. CASE Tick
  BY <1>1 DEF Tick, Goto, ring, lists, calls
<1>2. CASE CheckShutdown
  BY <1>2 DEF CheckShutdown, Goto, ring, lists, calls
<1>3. CASE Consume
  BY <1>3 DEF Consume, Goto, ring, lists, calls, Expired
<1>4. CASE WaitTimeout
  BY <1>4 DEF WaitTimeout, Goto, ring, lists, calls
<1>5. ASSUME NEW i \in AllItems, Invoke(i) PROVE StateTellsCallback'
  BY <1>5 DEF Invoke, Goto, ring, lists, calls, Front, Expired
<1>6. CASE AfterCallback
  BY <1>6 DEF AfterCallback, Goto, ring, lists, calls
<1>7. CASE Rearm
  BY <1>7 DEF Rearm, Goto, ring, lists, calls
<1>8. CASE Retire
  BY <1>8 DEF Retire, Goto, ring, lists, calls
<1>9. CASE EndScan
  BY <1>9 DEF EndScan, Goto, ring, lists, calls
<1>10. CASE CallbackReturn
  BY <1>10 DEF CallbackReturn, Goto, ring, lists, calls
<1>11. ASSUME NEW a \in Actors, NEW i \in Items, NEW d \in Time, QueueTimer(a, i, d)
       PROVE  StateTellsCallback'
  BY <1>11 DEF QueueTimer, Goto, ring, lists, calls, Ready, Home, Enqueue, Later
<1>12. ASSUME NEW a \in Actors, NEW i \in Items, BeginDisarm(a, i)
       PROVE  StateTellsCallback'
  BY <1>12 DEF BeginDisarm, Goto, ring, lists, calls, Ready, Home, Known
<1>13. ASSUME NEW a \in Actors, Publish(a) PROVE StateTellsCallback'
  BY <1>13 DEF Publish, Goto, ring, lists, calls, Leave, Home
<1>14. ASSUME NEW a \in Actors, SelfDisarm(a) PROVE StateTellsCallback'
  BY <1>14 DEF SelfDisarm, Goto, ring, lists, calls, Leave, Home
<1>15. ASSUME NEW a \in Actors, Disarm(a) PROVE StateTellsCallback'
  BY <1>15 DEF Disarm, Goto, ring, lists, calls, Leave, Home
<1>16. ASSUME NEW t \in Threads, Shutdown(t) PROVE StateTellsCallback'
  BY <1>16 DEF Shutdown, Goto, ring, lists, calls
<1>17. ASSUME NEW t \in Threads, QueueKick(t) PROVE StateTellsCallback'
  BY <1>17 DEF QueueKick, Goto, ring, lists, calls, Enqueue, Later
<1>18. ASSUME NEW t \in Threads, Join(t) PROVE StateTellsCallback'
  BY <1>18 DEF Join, Goto, ring, lists, calls
<1>19. CASE UNCHANGED vars
  BY <1>19 DEF vars, ring, lists, calls
<1> QED BY <1>1, <1>2, <1>3, <1>4, <1>5, <1>6, <1>7, <1>8, <1>9, <1>10,
         <1>11, <1>12, <1>13, <1>14, <1>15, <1>16, <1>17, <1>18, <1>19
    DEF Next, DispatchLoop, CallStep, ThreadStep

\* The destructor's kick never becomes the current item.
LEMMA KickStep == TimerInv /\ [Next]_vars => KickIsInert'
<1> SUFFICES ASSUME TimerInv, [Next]_vars PROVE KickIsInert'
  OBVIOUS
<1> USE ItemsAssumption, ActorsAssumption, IntervalAssumption,
        BoundsAssumption
    DEF TimerInv, TypeOK, ControlInv, StateTellsCallback, AllItems, Actors,
          States, Running, KickIsInert, DisarmedInv, RingInv
<1>1. CASE Tick
  BY <1>1 DEF Tick, Goto, ring, lists, calls
<1>2. CASE CheckShutdown
  BY <1>2 DEF CheckShutdown, Goto, ring, lists, calls
<1>3. CASE Consume
  BY <1>3 DEF Consume, Goto, ring, lists, calls, Expired
<1>4. CASE WaitTimeout
  BY <1>4 DEF WaitTimeout, Goto, ring, lists, calls
<1>5. ASSUME NEW i \in AllItems, Invoke(i) PROVE KickIsInert'
  BY <1>5 DEF Invoke, Goto, ring, lists, calls, Front, Expired
<1>6. CASE AfterCallback
  BY <1>6 DEF AfterCallback, Goto, ring, lists, calls
<1>7. CASE Rearm
  BY <1>7 DEF Rearm, Goto, ring, lists, calls
<1>8. CASE Retire
  BY <1>8 DEF Retire, Goto, ring, lists, calls
<1>9. CASE EndScan
  BY <1>9 DEF EndScan, Goto, ring, lists, calls
<1>10. CASE CallbackReturn
  BY <1>10 DEF CallbackReturn, Goto, ring, lists, calls
<1>11. ASSUME NEW a \in Actors, NEW i \in Items, NEW d \in Time, QueueTimer(a, i, d)
       PROVE  KickIsInert'
  BY <1>11 DEF QueueTimer, Goto, ring, lists, calls, Ready, Home, Enqueue, Later
<1>12. ASSUME NEW a \in Actors, NEW i \in Items, BeginDisarm(a, i)
       PROVE  KickIsInert'
  BY <1>12 DEF BeginDisarm, Goto, ring, lists, calls, Ready, Home, Known
<1>13. ASSUME NEW a \in Actors, Publish(a) PROVE KickIsInert'
  BY <1>13 DEF Publish, Goto, ring, lists, calls, Leave, Home
<1>14. ASSUME NEW a \in Actors, SelfDisarm(a) PROVE KickIsInert'
  BY <1>14 DEF SelfDisarm, Goto, ring, lists, calls, Leave, Home
<1>15. ASSUME NEW a \in Actors, Disarm(a) PROVE KickIsInert'
  BY <1>15 DEF Disarm, Goto, ring, lists, calls, Leave, Home
<1>16. ASSUME NEW t \in Threads, Shutdown(t) PROVE KickIsInert'
  BY <1>16 DEF Shutdown, Goto, ring, lists, calls
<1>17. ASSUME NEW t \in Threads, QueueKick(t) PROVE KickIsInert'
  BY <1>17 DEF QueueKick, Goto, ring, lists, calls, Enqueue, Later
<1>18. ASSUME NEW t \in Threads, Join(t) PROVE KickIsInert'
  BY <1>18 DEF Join, Goto, ring, lists, calls
<1>19. CASE UNCHANGED vars
  BY <1>19 DEF vars, ring, lists, calls
<1> QED BY <1>1, <1>2, <1>3, <1>4, <1>5, <1>6, <1>7, <1>8, <1>9, <1>10,
         <1>11, <1>12, <1>13, <1>14, <1>15, <1>16, <1>17, <1>18, <1>19
    DEF Next, DispatchLoop, CallStep, ThreadStep

\* Released items and the queued kick stay disarmed.
LEMMA DisarmedStep == TimerInv /\ [Next]_vars => DisarmedInv'
<1> SUFFICES ASSUME TimerInv, [Next]_vars PROVE DisarmedInv'
  OBVIOUS
<1> USE ItemsAssumption, ActorsAssumption, IntervalAssumption,
        BoundsAssumption
    DEF TimerInv, TypeOK, ControlInv, StateTellsCallback, AllItems, Actors,
          States, Running, KickIsInert, DisarmedInv, RingInv
<1>1. CASE Tick
  BY <1>1 DEF Tick, Goto, ring, lists, calls
<1>2. CASE CheckShutdown
  BY <1>2 DEF CheckShutdown, Goto, ring, lists, calls
<1>3. CASE Consume
  BY <1>3 DEF Consume, Goto, ring, lists, calls, Expired
<1>4. CASE WaitTimeout
  BY <1>4 DEF WaitTimeout, Goto, ring, lists, calls
<1>5. ASSUME NEW i \in AllItems, Invoke(i) PROVE DisarmedInv'
  BY <1>5 DEF Invoke, Goto, ring, lists, calls, Front, Expired
<1>6. CASE AfterCallback
  BY <1>6 DEF AfterCallback, Goto, ring, lists, calls
<1>7. CASE Rearm
  BY <1>7 DEF Rearm, Goto, ring, lists, calls
<1>8. CASE Retire
  BY <1>8 DEF Retire, Goto, ring, lists, calls
<1>9. CASE EndScan
  BY <1>9 DEF EndScan, Goto, ring, lists, calls
<1>10. CASE CallbackReturn
  BY <1>10 DEF CallbackReturn, Goto, ring, lists, calls
<1>11. ASSUME NEW a \in Actors, NEW i \in Items, NEW d \in Time, QueueTimer(a, i, d)
       PROVE  DisarmedInv'
  BY <1>11 DEF QueueTimer, Goto, ring, lists, calls, Ready, Home, Enqueue, Later
<1>12. ASSUME NEW a \in Actors, NEW i \in Items, BeginDisarm(a, i)
       PROVE  DisarmedInv'
  BY <1>12 DEF BeginDisarm, Goto, ring, lists, calls, Ready, Home, Known
<1>13. ASSUME NEW a \in Actors, Publish(a) PROVE DisarmedInv'
  BY <1>13 DEF Publish, Goto, ring, lists, calls, Leave, Home
<1>14. ASSUME NEW a \in Actors, SelfDisarm(a) PROVE DisarmedInv'
  BY <1>14 DEF SelfDisarm, Goto, ring, lists, calls, Leave, Home
<1>15. ASSUME NEW a \in Actors, Disarm(a) PROVE DisarmedInv'
  BY <1>15 DEF Disarm, Goto, ring, lists, calls, Leave, Home
<1>16. ASSUME NEW t \in Threads, Shutdown(t) PROVE DisarmedInv'
  BY <1>16 DEF Shutdown, Goto, ring, lists, calls
<1>17. ASSUME NEW t \in Threads, QueueKick(t) PROVE DisarmedInv'
  BY <1>17 DEF QueueKick, Goto, ring, lists, calls, Enqueue, Later
<1>18. ASSUME NEW t \in Threads, Join(t) PROVE DisarmedInv'
  BY <1>18 DEF Join, Goto, ring, lists, calls
<1>19. CASE UNCHANGED vars
  BY <1>19 DEF vars, ring, lists, calls
<1> QED BY <1>1, <1>2, <1>3, <1>4, <1>5, <1>6, <1>7, <1>8, <1>9, <1>10,
         <1>11, <1>12, <1>13, <1>14, <1>15, <1>16, <1>17, <1>18, <1>19
    DEF Next, DispatchLoop, CallStep, ThreadStep

\* Claims, publications and consumption keep the ring consistent.
LEMMA RingStep == TimerInv /\ [Next]_vars => RingInv'
<1> SUFFICES ASSUME TimerInv, [Next]_vars PROVE RingInv'
  OBVIOUS
<1> USE ItemsAssumption, ActorsAssumption, IntervalAssumption,
        BoundsAssumption
    DEF TimerInv, TypeOK, ControlInv, RingInv, AllItems, Actors
<1>1. CASE Tick
  BY <1>1 DEF Tick, Goto, ring, lists, calls
<1>2. CASE CheckShutdown
  BY <1>2 DEF CheckShutdown, Goto, ring, lists, calls
<1>3. CASE Consume
  <2>1. PICK available \in published : ConsumeUpTo(available)
    BY <1>3 DEF Consume
  <2>2. /\ next_sequence' = available + 1
        /\ published' = published \ (next_sequence .. available)
        /\ available \in Nat /\ available >= next_sequence
        /\ next_sequence .. available \subseteq published
        /\ available + 1 \notin published
    BY <2>1 DEF ConsumeUpTo
  <2>3. UNCHANGED <<claimed, created, seq, rearmed, current>>
    BY <1>3 DEF Consume
  <2>4. \A x \in Actors : pc'[x] = "publish" => pc[x] = "publish"
    BY <1>3 DEF Consume, Goto
  <2>5. \A x \in Actors : pc[x] = "publish" => seq[x] > available
    BY <2>2
  <2>6. \A s \in published' : Slot(s) \in 0 .. WaitCount - 1
    BY <2>2, SlotType
  <2>7. ASSUME NEW s \in published' PROVE buffer'[Slot(s)] = buffer[Slot(s)]
    <3>1. s \in published /\ s \notin next_sequence .. available
      BY <2>2
    <3>2. ASSUME NEW b \in next_sequence .. available PROVE Slot(b) # Slot(s)
      BY <2>2, <3>1, ModInjective DEF Slot
    <3> QED BY <2>1, <2>6, <3>2 DEF ConsumeUpTo
  <2>8. wait_queue' \subseteq created
    BY <2>1, <2>2 DEF ConsumeUpTo
  <2>9. ASSUME NEW s \in published'
        PROVE  /\ next_sequence' <= s /\ s < next_sequence' + WaitCount
               /\ s < claimed' /\ buffer'[Slot(s)] \in created'
    <3>1. s \in published /\ s > available
      BY <2>2
    <3>2. buffer[Slot(s)] \in created
      BY <3>1
    <3>3. buffer'[Slot(s)] \in created'
      BY <3>2, <2>3, <2>7
    <3> QED BY <2>2, <2>3, <3>1, <3>3
  <2>10. next_sequence' <= claimed'
    BY <2>2, <2>3
  <2>11. ASSUME NEW x \in Actors, pc'[x] = "publish"
         PROVE  /\ next_sequence' <= seq'[x] /\ seq'[x] < claimed'
                /\ seq'[x] \notin published'
                /\ \A b \in Actors :
                      pc'[b] = "publish" /\ seq'[b] = seq'[x] => x = b
    BY <2>2, <2>3, <2>4, <2>5, <2>11
  <2> QED BY <2>3, <2>8, <2>9, <2>10, <2>11
<1>4. CASE WaitTimeout
  BY <1>4 DEF WaitTimeout, Goto, ring, lists, calls
<1>5. ASSUME NEW i \in AllItems, Invoke(i) PROVE RingInv'
  BY <1>5 DEF Invoke, Goto, ring, lists, calls, Front, Expired
<1>6. CASE AfterCallback
  BY <1>6 DEF AfterCallback, Goto, ring, lists, calls
<1>7. CASE Rearm
  BY <1>7 DEF Rearm, Goto, ring, lists, calls
<1>8. CASE Retire
  BY <1>8 DEF Retire, Goto, ring, lists, calls
<1>9. CASE EndScan
  BY <1>9 DEF EndScan, Goto, ring, lists, calls
<1>10. CASE CallbackReturn
  BY <1>10 DEF CallbackReturn, Goto, ring, lists, calls
<1>11. ASSUME NEW a \in Actors, NEW i \in Items, NEW d \in Time, QueueTimer(a, i, d)
       PROVE  RingInv'
  BY <1>11 DEF QueueTimer, Goto, ring, lists, calls, Ready, Home, Enqueue, Later
<1>12. ASSUME NEW a \in Actors, NEW i \in Items, BeginDisarm(a, i)
       PROVE  RingInv'
  BY <1>12 DEF BeginDisarm, Goto, ring, lists, calls, Ready, Home, Known
<1>13. ASSUME NEW a \in Actors, Publish(a) PROVE RingInv'
  <2>1. Slot(seq[a]) \in 0 .. WaitCount - 1 /\ target[a] \in created
    BY <1>13, SlotType DEF Publish
  <2>2. \A s \in published' : Slot(s) \in 0 .. WaitCount - 1
    BY <1>13, SlotType DEF Publish
  <2>3. \A s \in published' : buffer'[Slot(s)] \in created
    BY <1>13, <2>1, <2>2 DEF Publish
  <2>4. \A x \in Actors : pc'[x] = "publish" =>
           x # a /\ pc[x] = "publish" /\ seq'[x] = seq[x]
    BY <1>13 DEF Publish, Leave, Home, Goto
  <2>5. ASSUME NEW s \in published'
        PROVE  next_sequence <= s /\ s < next_sequence + WaitCount
               /\ s < claimed
    BY <1>13 DEF Publish
  <2>6. ASSUME NEW x \in Actors, pc'[x] = "publish"
        PROVE  /\ next_sequence <= seq'[x] /\ seq'[x] < claimed
               /\ seq'[x] \notin published'
               /\ \A b \in Actors :
                     pc'[b] = "publish" /\ seq'[b] = seq'[x] => x = b
    BY <1>13, <2>4, <2>6 DEF Publish
  <2> QED BY <1>13, <2>3, <2>5, <2>6 DEF Publish, lists
<1>14. ASSUME NEW a \in Actors, SelfDisarm(a) PROVE RingInv'
  BY <1>14 DEF SelfDisarm, Goto, ring, lists, calls, Leave, Home
<1>15. ASSUME NEW a \in Actors, Disarm(a) PROVE RingInv'
  BY <1>15 DEF Disarm, Goto, ring, lists, calls, Leave, Home
<1>16. ASSUME NEW t \in Threads, Shutdown(t) PROVE RingInv'
  BY <1>16 DEF Shutdown, Goto, ring, lists, calls
<1>17. ASSUME NEW t \in Threads, QueueKick(t) PROVE RingInv'
  BY <1>17 DEF QueueKick, Goto, ring, lists, calls, Enqueue, Later
<1>18. ASSUME NEW t \in Threads, Join(t) PROVE RingInv'
  BY <1>18 DEF Join, Goto, ring, lists, calls
<1>19. CASE UNCHANGED vars
  BY <1>19 DEF vars, ring, lists, calls
<1> QED BY <1>1, <1>2, <1>3, <1>4, <1>5, <1>6, <1>7, <1>8, <1>9, <1>10,
         <1>11, <1>12, <1>13, <1>14, <1>15, <1>16, <1>17, <1>18, <1>19
    DEF Next, DispatchLoop, CallStep, ThreadStep

-----------------------------------------------------------------------------

\* The initial state satisfies the inductive invariant.
LEMMA InitInv == Init => TimerInv
<1> SUFFICES ASSUME Init PROVE TimerInv
  OBVIOUS
<1> USE ItemsAssumption, ActorsAssumption, IntervalAssumption,
        BoundsAssumption DEF Init
<1>1. TypeOK
  <2>1. pc \in [Actors -> DispatchPC \cup ThreadPC]
    BY DEF DispatchPC, ThreadPC
  <2>2. /\ state \in [AllItems -> States]
        /\ due \in [AllItems -> Int]
        /\ seq \in [Actors -> Nat]
    BY DEF States
  <2>3. buffer \in [0 .. WaitCount - 1 -> AllItems \cup {NoItem}]
    OBVIOUS
  <2>4. target \in [Actors -> AllItems \cup {NoItem}] /\ now \in Time
    BY DEF Time
  <2>5. /\ created = {} /\ published = {} /\ wait_queue = {}
        /\ rearmed = {} /\ released = {} /\ current = NoItem
        /\ shutdown = FALSE /\ claimed = 0 /\ next_sequence = 0
    OBVIOUS
  <2> HIDE DEF Init
  <2> QED BY <2>1, <2>2, <2>3, <2>4, <2>5 DEF TypeOK
<1>2. ControlInv
  BY DEF ControlInv, DispatchPC, ThreadPC, Actors
<1>3. RingInv
  BY DEF RingInv
<1>4. DisarmedInv
  BY DEF DisarmedInv
<1>5. StateTellsCallback /\ KickIsInert
  BY DEF StateTellsCallback, KickIsInert, Running, AllItems
<1> QED BY <1>1, <1>2, <1>3, <1>4, <1>5 DEF TimerInv

\* TimerInv holds throughout: in particular state_ always tells which callback
\* is running (StateTellsCallback) and the kick is never invoked (KickIsInert).
THEOREM Invariance == Spec => []TimerInv
<1>1. TimerInv /\ [Next]_vars => TimerInv'
  BY TypeStep, ControlStep, StateStep, KickStep, DisarmedStep, RingStep
     DEF TimerInv
<1> QED BY InitInv, <1>1, PTL DEF Spec

\* After Disarm has returned to anyone but the callback itself, the callback is
\* not running (threading_timer_queue.h:38).
THEOREM DisarmQuiesces == Spec => []NoCallbackAfterDisarm
<1>1. TimerInv => NoCallbackAfterDisarm
  BY DEF TimerInv, TypeOK, DisarmedInv, StateTellsCallback,
         NoCallbackAfterDisarm, InCallback, Running
<1> QED BY <1>1, Invariance, PTL

\* kDisarmed is final: no rearm in flight and no second Disarm revives an item.
THEOREM DisarmedForever == Spec => DisarmIsFinal
<1> DEFINE Final == \A i \in AllItems :
                      state[i] = "kDisarmed" => state'[i] = "kDisarmed"
<1>1. ASSUME TimerInv, [Next]_vars PROVE [Final]_vars
  <2> SUFFICES Final
    OBVIOUS
  <2> USE <1>1 DEF TimerInv, TypeOK, ControlInv, StateTellsCallback,
        KickIsInert, AllItems, Actors, Running, ring, lists, calls
  <2>1. CASE Tick
    BY <2>1 DEF Tick, Goto
  <2>2. CASE CheckShutdown
    BY <2>2 DEF CheckShutdown, Goto
  <2>3. CASE Consume
    BY <2>3 DEF Consume, Goto, Expired
  <2>4. CASE WaitTimeout
    BY <2>4 DEF WaitTimeout, Goto
  <2>5. ASSUME NEW i \in AllItems, Invoke(i) PROVE Final
    BY <2>5 DEF Invoke, Goto, Front, Expired
  <2>6. CASE AfterCallback
    BY <2>6 DEF AfterCallback, Goto
  <2>7. CASE Rearm
    BY <2>7 DEF Rearm, Goto
  <2>8. CASE Retire
    BY <2>8 DEF Retire, Goto
  <2>9. CASE EndScan
    BY <2>9 DEF EndScan, Goto
  <2>10. CASE CallbackReturn
    BY <2>10 DEF CallbackReturn, Goto
  <2>11. ASSUME NEW a \in Actors, NEW i \in Items, NEW d \in Time, QueueTimer(a, i, d)
         PROVE  Final
    BY <2>11 DEF QueueTimer, Goto, Ready, Home, Enqueue, Later
  <2>12. ASSUME NEW a \in Actors, NEW i \in Items, BeginDisarm(a, i) PROVE Final
    BY <2>12 DEF BeginDisarm, Goto, Ready, Home, Known
  <2>13. ASSUME NEW a \in Actors, Publish(a) PROVE Final
    BY <2>13 DEF Publish, Goto, Leave, Home
  <2>14. ASSUME NEW a \in Actors, SelfDisarm(a) PROVE Final
    BY <2>14 DEF SelfDisarm, Goto, Leave, Home
  <2>15. ASSUME NEW a \in Actors, Disarm(a) PROVE Final
    BY <2>15 DEF Disarm, Goto, Leave, Home
  <2>16. ASSUME NEW t \in Threads, Shutdown(t) PROVE Final
    BY <2>16 DEF Shutdown, Goto
  <2>17. ASSUME NEW t \in Threads, QueueKick(t) PROVE Final
    BY <2>17 DEF QueueKick, Goto, Enqueue, Later
  <2>18. ASSUME NEW t \in Threads, Join(t) PROVE Final
    BY <2>18 DEF Join, Goto
  <2>19. CASE UNCHANGED vars
    BY <2>19 DEF vars
  <2> QED BY <2>1, <2>2, <2>3, <2>4, <2>5, <2>6, <2>7, <2>8, <2>9, <2>10,
           <2>11, <2>12, <2>13, <2>14, <2>15, <2>16, <2>17, <2>18, <2>19
      DEF Next, DispatchLoop, CallStep, ThreadStep
<1> QED BY <1>1, Invariance, PTL DEF Spec, DisarmIsFinal

\* A one-shot timer, and one that disarmed itself, ends with its callback.
THEOREM CallbackIsLast == Spec => LastCallback
<1> DEFINE Last == \A i \in AllItems :
         /\ state[i] \in Running /\ state'[i] \notin Running
         /\ Interval[i] = 0 \/ state[i] = "kInCallbackSelfDisarmed"
         => state'[i] = "kDisarmed"
<1>1. ASSUME TimerInv, [Next]_vars PROVE [Last]_vars
  <2> SUFFICES Last
    OBVIOUS
  <2> USE <1>1 DEF TimerInv, TypeOK, ControlInv, StateTellsCallback,
        KickIsInert, AllItems, Actors, Running, ring, lists, calls
  <2>1. CASE Tick
    BY <2>1 DEF Tick, Goto
  <2>2. CASE CheckShutdown
    BY <2>2 DEF CheckShutdown, Goto
  <2>3. CASE Consume
    BY <2>3 DEF Consume, Goto, Expired
  <2>4. CASE WaitTimeout
    BY <2>4 DEF WaitTimeout, Goto
  <2>5. ASSUME NEW i \in AllItems, Invoke(i) PROVE Last
    BY <2>5 DEF Invoke, Goto, Front, Expired
  <2>6. CASE AfterCallback
    BY <2>6 DEF AfterCallback, Goto
  <2>7. CASE Rearm
    BY <2>7 DEF Rearm, Goto
  <2>8. CASE Retire
    BY <2>8 DEF Retire, Goto
  <2>9. CASE EndScan
    BY <2>9 DEF EndScan, Goto
  <2>10. CASE CallbackReturn
    BY <2>10 DEF CallbackReturn, Goto
  <2>11. ASSUME NEW a \in Actors, NEW i \in Items, NEW d \in Time, QueueTimer(a, i, d)
         PROVE  Last
    BY <2>11 DEF QueueTimer, Goto, Ready, Home, Enqueue, Later
  <2>12. ASSUME NEW a \in Actors, NEW i \in Items, BeginDisarm(a, i) PROVE Last
    BY <2>12 DEF BeginDisarm, Goto, Ready, Home, Known
  <2>13. ASSUME NEW a \in Actors, Publish(a) PROVE Last
    BY <2>13 DEF Publish, Goto, Leave, Home
  <2>14. ASSUME NEW a \in Actors, SelfDisarm(a) PROVE Last
    BY <2>14 DEF SelfDisarm, Goto, Leave, Home
  <2>15. ASSUME NEW a \in Actors, Disarm(a) PROVE Last
    BY <2>15 DEF Disarm, Goto, Leave, Home
  <2>16. ASSUME NEW t \in Threads, Shutdown(t) PROVE Last
    BY <2>16 DEF Shutdown, Goto
  <2>17. ASSUME NEW t \in Threads, QueueKick(t) PROVE Last
    BY <2>17 DEF QueueKick, Goto, Enqueue, Later
  <2>18. ASSUME NEW t \in Threads, Join(t) PROVE Last
    BY <2>18 DEF Join, Goto
  <2>19. CASE UNCHANGED vars
    BY <2>19 DEF vars
  <2> QED BY <2>1, <2>2, <2>3, <2>4, <2>5, <2>6, <2>7, <2>8, <2>9, <2>10,
           <2>11, <2>12, <2>13, <2>14, <2>15, <2>16, <2>17, <2>18, <2>19
      DEF Next, DispatchLoop, CallStep, ThreadStep
<1> QED BY <1>1, Invariance, PTL DEF Spec, LastCallback

\* What a client sees when one item's state_ changes.
LEMMA PhaseMoves ==
  ASSUME state \in [AllItems -> States], NEW i \in Items, NEW s \in States,
         created' = created \cup {i}, state' = [state EXCEPT ![i] = s]
  PROVE  phaseBar' = [phaseBar EXCEPT ![i] = PhaseOf[s]]
<1>1. i \in AllItems /\ i \in created' /\ state'[i] = s
  BY DEF AllItems
<1>2. \A j \in Items \ {i} : state'[j] = state[j]
                             /\ (j \in created' <=> j \in created)
  BY DEF AllItems
<1>3. phaseBar' = [j \in Items |-> IF j \in created'
                                  THEN PhaseOf[state'[j]] ELSE "unborn"]
  BY DEF phaseBar, PhaseOf
<1>4. \A j \in Items : phaseBar'[j] = [phaseBar EXCEPT ![i] = PhaseOf[s]][j]
  BY <1>1, <1>2, <1>3 DEF phaseBar
<1> QED BY <1>3, <1>4 DEF phaseBar

\* PhaseOf, applied.
LEMMA PhaseValues ==
  /\ PhaseOf["kIdle"] = "armed" /\ PhaseOf["kInCallback"] = "firing"
  /\ PhaseOf["kInCallbackSelfDisarmed"] = "last"
  /\ PhaseOf["kDisarmed"] = "dead"
BY DEF PhaseOf

\* What a client sees of an item.
LEMMA PhaseIs ==
  \A i \in Items : phaseBar[i] = IF i \in created THEN PhaseOf[state[i]]
                                 ELSE "unborn"
BY DEF phaseBar

\* The queue implements the contract its header states: every step is a step of
\* TimerContract or changes nothing a client can see.
THEOREM Refinement == Spec => ImplementsContract
<1>1. Init => Contract!Init
  BY DEF Init, Contract!Init, phaseBar
<1>2. ASSUME TimerInv, [Next]_vars
      PROVE  [Contract!Next]_(Contract!tvars)
  <2> USE <1>2, ItemsAssumption, IntervalAssumption
      DEF TimerInv, TypeOK, ControlInv, StateTellsCallback, KickIsInert,
          AllItems, Actors, Running, States, ring, lists, calls,
          Contract!tvars
  <2>1. CASE Tick
    BY <2>1 DEF Tick, Goto, phaseBar
  <2>2. CASE CheckShutdown
    BY <2>2 DEF CheckShutdown, Goto, phaseBar
  <2>3. CASE Consume
    BY <2>3 DEF Consume, Goto, Expired, phaseBar
  <2>4. CASE WaitTimeout
    BY <2>4 DEF WaitTimeout, Goto, phaseBar
  <2>5. ASSUME NEW i \in AllItems, Invoke(i)
        PROVE  [Contract!Next]_(Contract!tvars)
    <3>1. CASE state[i] = "kIdle"
      <4>1. i \in Items /\ i \in created /\ current = NoItem
        BY <2>5, <3>1 DEF Invoke, Front, Expired, RingInv, DisarmedInv
      <4>2. \A j \in Items : ~Contract!Firing(j)
        BY <4>1, ItemsAssumption, PhaseIs, PhaseValues DEF Contract!Firing
      <4>3. /\ created' = created \cup {i}
            /\ state' = [state EXCEPT ![i] = "kInCallback"]
            /\ "kInCallback" \in States
        BY <2>5, <3>1, <4>1 DEF Invoke
      <4>4. phaseBar' = [phaseBar EXCEPT ![i] = PhaseOf["kInCallback"]]
        BY <4>1, <4>3, PhaseMoves
      <4>5. /\ phaseBar' = [phaseBar EXCEPT ![i] = "firing"]
            /\ phaseBar[i] = "armed"
        BY <3>1, <4>1, <4>4, PhaseValues, PhaseIs
      <4>6. Contract!Fire(i)
        BY <2>5, <4>2, <4>5 DEF Invoke, Contract!Fire, Contract!Become
      <4> QED BY <4>1, <4>6 DEF Contract!Next
    <3>2. CASE state[i] # "kIdle"
      BY <2>5, <3>2 DEF Invoke, phaseBar
    <3> QED BY <3>1, <3>2
  <2>6. CASE AfterCallback
    BY <2>6 DEF AfterCallback, Goto, phaseBar
  <2>7. CASE Rearm
    <3>1. /\ current \in Items /\ current \in created
          /\ state[current] = "kInCallback" /\ Interval[current] # 0
      BY <2>7 DEF Rearm, RingInv
    <3>2. /\ created' = created \cup {current}
          /\ state' = [state EXCEPT ![current] = "kIdle"]
          /\ "kIdle" \in States
      BY <2>7, <3>1 DEF Rearm
    <3>3. phaseBar' = [phaseBar EXCEPT ![current] = PhaseOf["kIdle"]]
      BY <3>1, <3>2, PhaseMoves
    <3>4. /\ phaseBar' = [phaseBar EXCEPT ![current] = "armed"]
          /\ phaseBar[current] = "firing"
      BY <2>7, <3>1, <3>3, PhaseValues, PhaseIs DEF Rearm
    <3>5. Contract!Rearm(current)
      BY <2>7, <3>1, <3>4 DEF Rearm, Contract!Rearm, Contract!Become
    <3> QED BY <3>1, <3>5 DEF Contract!Next
  <2>8. CASE Retire
    <3>1. /\ current \in Items /\ current \in created
          /\ state[current] \in Running
          /\ state[current] = "kInCallback" => Interval[current] = 0
      BY <2>8 DEF Retire, RingInv
    <3>2. /\ created' = created \cup {current}
          /\ state' = [state EXCEPT ![current] = "kDisarmed"]
          /\ "kDisarmed" \in States
      BY <2>8, <3>1 DEF Retire
    <3>3. phaseBar' = [phaseBar EXCEPT ![current] = PhaseOf["kDisarmed"]]
      BY <3>1, <3>2, PhaseMoves
    <3>4. /\ phaseBar' = [phaseBar EXCEPT ![current] = "dead"]
          /\ phaseBar[current] = PhaseOf[state[current]]
      BY <2>8, <3>1, <3>3, PhaseValues, PhaseIs DEF Retire
    <3>5. Contract!Finish(current)
      BY <2>8, <3>1, <3>4, PhaseValues
         DEF Retire, Contract!Finish, Contract!Become, Contract!Firing
    <3> QED BY <3>1, <3>5 DEF Contract!Next
  <2>9. CASE EndScan
    BY <2>9 DEF EndScan, Goto, phaseBar
  <2>10. CASE CallbackReturn
    BY <2>10 DEF CallbackReturn, Goto, phaseBar
  <2>11. ASSUME NEW a \in Actors, NEW i \in Items, NEW d \in Time, QueueTimer(a, i, d)
         PROVE  [Contract!Next]_(Contract!tvars)
    <3>1. /\ i \notin created /\ state[i] \in States
          /\ created' = created \cup {i} /\ state' = state
      BY <2>11 DEF QueueTimer, Enqueue
    <3>2. state[i] = "kIdle"
      BY <3>1 DEF DisarmedInv
    <3>3. phaseBar' = [phaseBar EXCEPT ![i] = "armed"] /\ phaseBar[i] = "unborn"
      BY <3>1, <3>2, PhaseMoves, PhaseValues, PhaseIs
    <3>4. Contract!Queue(i)
      BY <2>11, <3>3 DEF QueueTimer, Contract!Queue, Contract!Become
    <3> QED BY <3>4 DEF Contract!Next
  <2>12. ASSUME NEW a \in Actors, NEW i \in Items, BeginDisarm(a, i)
         PROVE  [Contract!Next]_(Contract!tvars)
    BY <2>12 DEF BeginDisarm, Goto, Ready, Home, Known, phaseBar
  <2>13. ASSUME NEW a \in Actors, Publish(a)
         PROVE  [Contract!Next]_(Contract!tvars)
    BY <2>13 DEF Publish, Goto, Leave, Home, phaseBar
  <2>14. ASSUME NEW a \in Actors, SelfDisarm(a)
         PROVE  [Contract!Next]_(Contract!tvars)
    <3>1. target[a] \in Items /\ target[a] \in created
      BY <2>14 DEF SelfDisarm, RingInv
    <3>2. /\ created' = created \cup {target[a]}
          /\ state' = [state EXCEPT ![target[a]] = "kInCallbackSelfDisarmed"]
          /\ "kInCallbackSelfDisarmed" \in States
      BY <2>14, <3>1 DEF SelfDisarm
    <3>3. phaseBar' =
            [phaseBar EXCEPT ![target[a]] = PhaseOf["kInCallbackSelfDisarmed"]]
      BY <3>1, <3>2, PhaseMoves
    <3>4. /\ phaseBar' = [phaseBar EXCEPT ![target[a]] = "last"]
          /\ phaseBar[target[a]] = "firing"
      BY <2>14, <3>1, <3>3, PhaseValues, PhaseIs DEF SelfDisarm
    <3>5. Contract!DisarmSelf(target[a])
      BY <2>14, <3>1, <3>4 DEF SelfDisarm, Contract!DisarmSelf, Contract!Become
    <3> QED BY <3>1, <3>5 DEF Contract!Next
  <2>15. ASSUME NEW a \in Actors, Disarm(a)
         PROVE  [Contract!Next]_(Contract!tvars)
    <3>1. target[a] \in Items /\ target[a] \in created
      BY <2>15 DEF Disarm, RingInv
    <3>2. /\ created' = created \cup {target[a]}
          /\ state' = [state EXCEPT ![target[a]] = "kDisarmed"]
          /\ "kDisarmed" \in States
      BY <2>15, <3>1 DEF Disarm
    <3>3. phaseBar' = [phaseBar EXCEPT ![target[a]] = PhaseOf["kDisarmed"]]
      BY <3>1, <3>2, PhaseMoves
    <3>4. /\ phaseBar' = [phaseBar EXCEPT ![target[a]] = "dead"]
          /\ phaseBar[target[a]] \in {"armed", "dead"}
      BY <2>15, <3>1, <3>3, PhaseValues, PhaseIs DEF Disarm
    <3>5. Contract!Disarm(target[a])
      BY <2>15, <3>1, <3>4 DEF Disarm, Contract!Disarm, Contract!Become
    <3> QED BY <3>1, <3>5 DEF Contract!Next
  <2>16. ASSUME NEW t \in Threads, Shutdown(t)
         PROVE  [Contract!Next]_(Contract!tvars)
    BY <2>16 DEF Shutdown, Goto, phaseBar
  <2>17. ASSUME NEW t \in Threads, QueueKick(t)
         PROVE  [Contract!Next]_(Contract!tvars)
    BY <2>17 DEF QueueKick, Goto, Enqueue, Later, phaseBar
  <2>18. ASSUME NEW t \in Threads, Join(t)
         PROVE  [Contract!Next]_(Contract!tvars)
    BY <2>18 DEF Join, Goto, phaseBar
  <2>19. CASE UNCHANGED vars
    BY <2>19 DEF vars, phaseBar
  <2> QED BY <2>1, <2>2, <2>3, <2>4, <2>5, <2>6, <2>7, <2>8, <2>9, <2>10,
           <2>11, <2>12, <2>13, <2>14, <2>15, <2>16, <2>17, <2>18, <2>19
      DEF Next, DispatchLoop, CallStep, ThreadStep
<1> QED BY <1>1, <1>2, Invariance, PTL
    DEF Spec, ImplementsContract, Contract!Spec
-----------------------------------------------------------------------------
(* One place per item *)

\* A slot of the ring holds i; a producer is about to put i into one.
Holds(s, i)   == s \in published /\ buffer[Slot(s)] = i
Carries(a, i) == pc[a] = "publish" /\ target[a] = i

\* The places i may be in exclude each other, and an armed item is in one.
Spot(i) ==
    /\ \A s, u \in published : Holds(s, i) /\ Holds(u, i) => s = u
    /\ \A a, b \in Actors : Carries(a, i) /\ Carries(b, i) => a = b
    /\ \A s \in published, a \in Actors : ~(Holds(s, i) /\ Carries(a, i))
    /\ \A s \in published :
          Holds(s, i) => i \notin wait_queue \cup rearmed \cup {current}
    /\ \A a \in Actors :
          Carries(a, i) => i \notin wait_queue \cup rearmed \cup {current}
    /\ i \in wait_queue => i \notin rearmed /\ i # current
    /\ i \in rearmed => i # current
    /\ state[i] = "kIdle" /\ i \in created =>
          \/ i \in wait_queue \cup rearmed
          \/ \E s \in published : Holds(s, i)
          \/ \E a \in Actors : Carries(a, i)

Spots == \A i \in AllItems : Spot(i)

\* One thread runs the destructor, and the kick is queued once.
KickOnce ==
    /\ ~shutdown => Kick \notin created /\ \A t \in Threads : pc[t] # "kick"
    /\ \A t \in Threads : pc[t] = "kick" =>
          /\ Kick \notin created
          /\ \A u \in Threads : pc[u] = "kick" => u = t

\* An item that was never queued is nowhere.
LEMMA Unborn ==
  ASSUME TimerInv, NEW i \in AllItems, i \notin created
  PROVE  /\ \A s \in published : ~Holds(s, i)
         /\ \A a \in Actors : ~Carries(a, i)
         /\ i \notin wait_queue \cup rearmed \cup {current}
<1> USE ItemsAssumption DEF TimerInv, RingInv, ControlInv, Holds, Carries
<1> QED OBVIOUS

\* A step that moves nothing and makes no item idle keeps every item's place.
LEMMA Still ==
  ASSUME TimerInv, Spots,
         UNCHANGED <<published, buffer, wait_queue, rearmed, current, created>>,
         \A a \in Actors :
            /\ pc'[a] = "publish" <=> pc[a] = "publish"
            /\ pc[a] = "publish" => target'[a] = target[a],
         \A i \in AllItems : state'[i] = "kIdle" => state[i] = "kIdle"
  PROVE  Spots'
<1> SUFFICES ASSUME NEW i \in AllItems PROVE Spot(i)'
  BY DEF Spots
<1>1. Spot(i)
  BY DEF Spots
<1>2. \A s : Holds(s, i)' <=> Holds(s, i)
  BY DEF Holds
<1>3. \A a \in Actors : Carries(a, i)' <=> Carries(a, i)
  BY DEF Carries
<1> QED BY <1>1, <1>2, <1>3 DEF Spot

\* Every step keeps the destructor to one kick.
LEMMA KickOnceStep == TimerInv /\ KickOnce /\ [Next]_vars => KickOnce'
<1> SUFFICES ASSUME TimerInv, KickOnce, [Next]_vars PROVE KickOnce'
  OBVIOUS
<1> USE ItemsAssumption, ActorsAssumption
    DEF TimerInv, TypeOK, KickOnce, AllItems, Actors
<1>1. CASE Tick
  BY <1>1 DEF Tick, calls
<1>2. CASE DispatchLoop
  BY <1>2 DEF DispatchLoop, CheckShutdown, Consume, ConsumeUpTo, WaitTimeout,
              Invoke, AfterCallback, Rearm, Retire, EndScan, Goto, ring, lists
<1>3. CASE CallbackReturn
  BY <1>3 DEF CallbackReturn, Goto, ring, lists
<1>4. ASSUME NEW a \in Actors, NEW i \in Items, NEW d \in Time, QueueTimer(a, i, d)
      PROVE  KickOnce'
  BY <1>4 DEF QueueTimer, Enqueue, Goto, lists
<1>5. ASSUME NEW a \in Actors, NEW i \in Items, BeginDisarm(a, i)
      PROVE  KickOnce'
  BY <1>5 DEF BeginDisarm, Goto, ring, lists
<1>6. ASSUME NEW a \in Actors, CallStep(a) PROVE KickOnce'
  BY <1>6 DEF CallStep, Publish, SelfDisarm, Disarm, Leave, Goto, Home, ring,
              lists
<1>7. ASSUME NEW t \in Threads, Shutdown(t) PROVE KickOnce'
  BY <1>7 DEF Shutdown, Goto, ring, lists
<1>8. ASSUME NEW t \in Threads, QueueKick(t) PROVE KickOnce'
  BY <1>8 DEF QueueKick, Enqueue, Goto, lists
<1>9. ASSUME NEW t \in Threads, Join(t) PROVE KickOnce'
  BY <1>9 DEF Join, Goto, ring, lists
<1>10. CASE UNCHANGED vars
  BY <1>10 DEF vars, ring, lists, calls
<1> QED BY <1>1, <1>2, <1>3, <1>4, <1>5, <1>6, <1>7, <1>8, <1>9, <1>10
    DEF Next, ThreadStep

\* Queueing a timer, or the kick, gives the new item its first place: the
\* hands of the producer.
LEMMA EnqueuePlaces ==
  ASSUME TimerInv, Spots, NEW x \in Actors, NEW i \in AllItems, NEW d \in Nat,
         i \notin created, pc[x] # "publish", Enqueue(x, i, d), UNCHANGED lists,
         \A j \in AllItems : state'[j] = "kIdle" => state[j] = "kIdle"
  PROVE  Spots'
<1> USE ItemsAssumption, ActorsAssumption
<1>1. /\ UNCHANGED <<published, buffer, wait_queue, rearmed, current>>
      /\ created' = created \cup {i}
      /\ pc'[x] = "publish" /\ target'[x] = i
      /\ \A a \in Actors \ {x} : pc'[a] = pc[a] /\ target'[a] = target[a]
  BY DEF Enqueue, lists, Goto, TimerInv, TypeOK
<1> SUFFICES ASSUME NEW j \in AllItems PROVE Spot(j)'
  BY DEF Spots
<1>2. Spot(j)
  BY DEF Spots
<1>3. \A s : Holds(s, j)' <=> Holds(s, j)
  BY <1>1 DEF Holds
<1>4. \A a \in Actors \ {x} : Carries(a, j)' <=> Carries(a, j)
  BY <1>1 DEF Carries
<1>5. Carries(x, j)' <=> j = i
  BY <1>1 DEF Carries
<1>6. ~Carries(x, j)
  BY DEF Carries
<1>7. CASE j = i
  BY <1>1, <1>3, <1>4, <1>5, <1>7, Unborn DEF Spot
<1>8. CASE j # i
  BY <1>1, <1>2, <1>3, <1>4, <1>5, <1>6, <1>8 DEF Spot
<1> QED BY <1>7, <1>8

\* Publication moves an item from the producer into an empty slot: nobody
\* else's sequence in the window has that slot.
LEMMA PublishPlaces ==
  ASSUME TimerInv, Spots, NEW x \in Actors, Publish(x)
  PROVE  Spots'
<1> USE BoundsAssumption
<1>0. PICK q \in Nat, it \in AllItems : q = seq[x] /\ it = target[x]
  BY DEF Publish, TimerInv, TypeOK, ControlInv
<1>1. /\ pc[x] = "publish" /\ q \in Nat /\ q \notin published
      /\ next_sequence \in Nat /\ next_sequence <= q
      /\ q < next_sequence + WaitCount
  BY <1>0 DEF Publish, TimerInv, TypeOK, RingInv
<1>2. /\ published' = published \cup {q}
      /\ buffer' = [buffer EXCEPT ![Slot(q)] = it]
      /\ UNCHANGED <<wait_queue, rearmed, current, created, state>>
  BY <1>0 DEF Publish, lists
<1>3. /\ pc'[x] # "publish"
      /\ \A a \in Actors \ {x} : pc'[a] = pc[a] /\ target'[a] = target[a]
  BY DEF Publish, Leave, Goto, Home, TimerInv, TypeOK
<1>4. buffer'[Slot(q)] = it
  BY <1>1, <1>2, SlotType DEF TimerInv, TypeOK
<1>5. ASSUME NEW s \in published PROVE buffer'[Slot(s)] = buffer[Slot(s)]
  <2>1. s \in Nat /\ next_sequence <= s /\ s < next_sequence + WaitCount
    BY DEF TimerInv, TypeOK, RingInv
  <2>2. Slot(s) # Slot(q)
    BY <1>1, <2>1, ModInjective DEF Slot
  <2> QED BY <1>2, <2>1, <2>2, SlotType DEF TimerInv, TypeOK
<1> SUFFICES ASSUME NEW j \in AllItems PROVE Spot(j)'
  BY DEF Spots
<1>6. Spot(j)
  BY DEF Spots
<1>7. \A s \in published : Holds(s, j)' <=> Holds(s, j)
  BY <1>2, <1>5 DEF Holds
<1>8. Holds(q, j)' <=> j = it
  BY <1>2, <1>4 DEF Holds
<1>9. \A a \in Actors \ {x} : Carries(a, j)' <=> Carries(a, j)
  BY <1>3 DEF Carries
<1>10. ~Carries(x, j)' /\ (Carries(x, j) <=> j = it)
  BY <1>0, <1>1, <1>3 DEF Carries
<1>11. CASE j = it
  BY <1>2, <1>6, <1>7, <1>8, <1>9, <1>10, <1>11 DEF Spot
<1>12. CASE j # it
  BY <1>2, <1>6, <1>7, <1>8, <1>9, <1>10, <1>12 DEF Spot
<1> QED BY <1>11, <1>12

\* Consumption moves the items of the batch to the wait queue and leaves the
\* others in their slots.
LEMMA ConsumePlaces ==
  ASSUME TimerInv, Spots, Consume
  PROVE  Spots'
<1> USE BoundsAssumption
<1>1. PICK available \in published : ConsumeUpTo(available)
  BY DEF Consume
<1> DEFINE batch == next_sequence .. available
<1>2. /\ published' = published \ batch /\ batch \subseteq published
      /\ wait_queue' = wait_queue \cup {buffer[Slot(s)] : s \in batch}
      /\ UNCHANGED <<rearmed, current, created, state, target>>
      /\ \A a \in Actors : pc'[a] = "publish" <=> pc[a] = "publish"
  BY <1>1 DEF Consume, ConsumeUpTo, Goto, TimerInv, TypeOK, Actors
<1>3. ASSUME NEW s \in published' PROVE buffer'[Slot(s)] = buffer[Slot(s)]
  <2>1. /\ s \in published /\ s \in Nat /\ s \notin batch
        /\ next_sequence \in Nat
        /\ next_sequence <= s /\ s < next_sequence + WaitCount
    BY <1>2 DEF TimerInv, TypeOK, RingInv
  <2>2. ASSUME NEW b \in batch PROVE Slot(b) # Slot(s)
    <3>1. /\ b \in Nat /\ b # s
          /\ next_sequence <= b /\ b < next_sequence + WaitCount
      BY <1>2, <2>1 DEF TimerInv, TypeOK, RingInv
    <3> QED BY <2>1, <3>1, ModInjective DEF Slot
  <2>3. Slot(s) \in 0 .. WaitCount - 1
    BY <2>1, SlotType
  <2> QED BY <1>1, <2>2, <2>3 DEF ConsumeUpTo
<1> SUFFICES ASSUME NEW j \in AllItems PROVE Spot(j)'
  BY DEF Spots
<1>4. Spot(j)
  BY DEF Spots
<1>5. \A s \in published' : Holds(s, j)' <=> Holds(s, j)
  BY <1>2, <1>3 DEF Holds
<1>6. \A a \in Actors : Carries(a, j)' <=> Carries(a, j)
  BY <1>2 DEF Carries
<1>7. j \in wait_queue' <=> j \in wait_queue \/ \E s \in batch : Holds(s, j)
  BY <1>2 DEF Holds
<1>8. CASE \E s \in batch : Holds(s, j)
  <2>1. \A s \in published' : ~Holds(s, j)'
    BY <1>2, <1>4, <1>5, <1>8 DEF Spot
  <2> QED BY <1>2, <1>4, <1>6, <1>7, <1>8, <2>1 DEF Spot
<1>9. CASE ~\E s \in batch : Holds(s, j)
  <2>1. \A s \in published : Holds(s, j) => s \in published'
    BY <1>2, <1>9
  <2> QED BY <1>2, <1>4, <1>5, <1>6, <1>7, <1>9, <2>1 DEF Spot
<1> QED BY <1>8, <1>9

\* The dispatch thread moves an item between its lists and its hand.
LEMMA DispatchPlaces ==
  ASSUME TimerInv, Spots,
         Rearm \/ EndScan \/ Retire \/ \E i \in AllItems : Invoke(i)
  PROVE  Spots'
<1> USE ItemsAssumption, ActorsAssumption
<1>1. /\ UNCHANGED <<published, buffer, created, target>>
      /\ \A a \in Actors : pc'[a] = "publish" <=> pc[a] = "publish"
  BY DEF Rearm, EndScan, Retire, Invoke, Goto, ring, TimerInv, TypeOK, Actors
<1> SUFFICES ASSUME NEW j \in AllItems PROVE Spot(j)'
  BY DEF Spots
<1>2. Spot(j) /\ j # NoItem
  BY DEF Spots, AllItems
<1>3. \A s : Holds(s, j)' <=> Holds(s, j)
  BY <1>1 DEF Holds
<1>4. \A a \in Actors : Carries(a, j)' <=> Carries(a, j)
  BY <1>1 DEF Carries
<1>5. CASE Rearm
  <2>1. /\ wait_queue' = wait_queue /\ rearmed' = rearmed \cup {current}
        /\ current' = NoItem
        /\ j # current => state'[j] = state[j]
    BY <1>5 DEF Rearm, TimerInv, TypeOK
  <2> QED BY <1>1, <1>2, <1>3, <1>4, <2>1 DEF Spot
<1>6. CASE EndScan
  <2>1. /\ wait_queue' = wait_queue \cup rearmed /\ rearmed' = {}
        /\ UNCHANGED <<current, state>>
    BY <1>6 DEF EndScan
  <2> QED BY <1>1, <1>2, <1>3, <1>4, <2>1 DEF Spot
<1>7. CASE Retire
  <2>1. /\ UNCHANGED <<wait_queue, rearmed>> /\ current' = NoItem
        /\ state'[j] = "kIdle" => state[j] = "kIdle"
    BY <1>7 DEF Retire, TimerInv, TypeOK
  <2> QED BY <1>1, <1>2, <1>3, <1>4, <2>1 DEF Spot
<1>8. ASSUME NEW i \in AllItems, Invoke(i) PROVE Spot(j)'
  <2>1. /\ wait_queue' = wait_queue \ {i} /\ i \in wait_queue
        /\ rearmed' = rearmed
        /\ current' = IF state[i] = "kIdle" THEN i ELSE current
        /\ state'[j] = "kIdle" => state[j] = "kIdle" /\ j # i
    BY <1>8 DEF Invoke, Front, Expired, TimerInv, TypeOK
  <2>2. pc[Dispatcher] = "scan" /\ current = NoItem
    BY <1>8 DEF Invoke, TimerInv, ControlInv
  <2>3. CASE j = i
    BY <1>1, <1>2, <1>3, <1>4, <2>1, <2>2, <2>3 DEF Spot
  <2>4. CASE j # i
    <3>1. /\ j \in wait_queue' <=> j \in wait_queue
          /\ j # current'
      BY <1>2, <2>1, <2>2, <2>4
    <3> QED BY <1>1, <1>2, <1>3, <1>4, <2>1, <2>2, <3>1 DEF Spot
  <2> QED BY <2>3, <2>4
<1> QED BY <1>5, <1>6, <1>7, <1>8

\* Every step keeps every item in at most one place.
LEMMA SpotsStep == TimerInv /\ KickOnce /\ Spots /\ [Next]_vars => Spots'
<1> SUFFICES ASSUME TimerInv, KickOnce, Spots, [Next]_vars PROVE Spots'
  OBVIOUS
<1> USE ItemsAssumption, ActorsAssumption
<1>1. CASE Tick \/ UNCHANGED vars
  BY <1>1, Still DEF Tick, vars, ring, lists, calls
<1>2. CASE CheckShutdown \/ WaitTimeout \/ AfterCallback \/ CallbackReturn
  <2>1. UNCHANGED <<published, buffer, wait_queue, rearmed, current, created,
                    target, state>>
    BY <1>2 DEF CheckShutdown, WaitTimeout, AfterCallback, CallbackReturn,
                ring, lists
  <2>2. \A a \in Actors : pc'[a] = "publish" <=> pc[a] = "publish"
    BY <1>2 DEF CheckShutdown, WaitTimeout, AfterCallback, CallbackReturn,
                Goto, TimerInv, TypeOK, Actors
  <2> QED BY <2>1, <2>2, Still
<1>3. CASE Consume
  BY <1>3, ConsumePlaces
<1>4. CASE Rearm \/ EndScan \/ Retire \/ \E i \in AllItems : Invoke(i)
  BY <1>4, DispatchPlaces
<1>5. ASSUME NEW a \in Actors, NEW i \in Items, NEW d \in Time, QueueTimer(a, i, d)
      PROVE  Spots'
  <2>1. /\ i \in AllItems /\ i \notin created /\ pc[a] # "publish"
        /\ Enqueue(a, i, d) /\ UNCHANGED <<lists, state>> /\ d \in Nat
    BY <1>5 DEF QueueTimer, AllItems, Ready, Home, Time
  <2> QED BY <2>1, EnqueuePlaces
<1>6. ASSUME NEW a \in Actors, NEW i \in Items, BeginDisarm(a, i)
      PROVE  Spots'
  <2>1. UNCHANGED <<published, buffer, wait_queue, rearmed, current, created,
                    state>>
    BY <1>6 DEF BeginDisarm, ring, lists
  <2>2. \A b \in Actors :
           /\ pc'[b] = "publish" <=> pc[b] = "publish"
           /\ pc[b] = "publish" => target'[b] = target[b]
    BY <1>6 DEF BeginDisarm, Ready, Home, Goto, TimerInv, TypeOK
  <2> QED BY <2>1, <2>2, Still
<1>7. ASSUME NEW a \in Actors, Publish(a) PROVE Spots'
  BY <1>7, PublishPlaces
<1>8. ASSUME NEW a \in Actors, SelfDisarm(a) \/ Disarm(a) PROVE Spots'
  <2>1. UNCHANGED <<published, buffer, wait_queue, rearmed, current, created>>
    BY <1>8 DEF SelfDisarm, Disarm, ring, lists
  <2>2. \A b \in Actors :
           /\ pc'[b] = "publish" <=> pc[b] = "publish"
           /\ pc[b] = "publish" => target'[b] = target[b]
    BY <1>8 DEF SelfDisarm, Disarm, Leave, Home, Goto, TimerInv, TypeOK
  <2>3. \A i \in AllItems : state'[i] = "kIdle" => state[i] = "kIdle"
    BY <1>8 DEF SelfDisarm, Disarm, TimerInv, TypeOK
  <2> QED BY <2>1, <2>2, <2>3, Still
<1>9. ASSUME NEW t \in Threads, Shutdown(t) \/ Join(t) PROVE Spots'
  <2>1. UNCHANGED <<published, buffer, wait_queue, rearmed, current, created,
                    target, state>>
    BY <1>9 DEF Shutdown, Join, ring, lists
  <2>2. \A a \in Actors : pc'[a] = "publish" <=> pc[a] = "publish"
    BY <1>9 DEF Shutdown, Join, Goto, TimerInv, TypeOK, Actors
  <2> QED BY <2>1, <2>2, Still
<1>10. ASSUME NEW t \in Threads, QueueKick(t) PROVE Spots'
  <2>1. /\ Kick \in AllItems /\ Kick \notin created /\ t \in Actors
        /\ pc[t] # "publish" /\ Enqueue(t, Kick, 0) /\ UNCHANGED lists
    BY <1>10 DEF QueueKick, AllItems, Actors, KickOnce
  <2>2. \A j \in AllItems : state'[j] = "kIdle" => state[j] = "kIdle"
    BY <1>10 DEF QueueKick, TimerInv, TypeOK
  <2> QED BY <2>1, <2>2, EnqueuePlaces
<1> QED BY <1>1, <1>2, <1>3, <1>4, <1>5, <1>6, <1>7, <1>8, <1>9, <1>10
    DEF Next, DispatchLoop, CallStep, ThreadStep

\* Nothing is lost or duplicated between QueueTimer and the callback, for any
\* size of the ring and any number of producers (threading_timer_queue.cc:
\* QueueTimer, TimerThreadMain).
THEOREM ItemsHaveOnePlace == Spec => []OnePlace
<1>1. Init => Spots /\ KickOnce
  <2> SUFFICES ASSUME Init PROVE Spots /\ KickOnce
    OBVIOUS
  <2> USE ItemsAssumption, ActorsAssumption DEF Init
  <2>1. KickOnce
    BY DEF KickOnce, Actors
  <2>2. \A i \in AllItems : Spot(i)
    BY DEF Spot, Holds, Carries, Actors, AllItems
  <2> QED BY <2>1, <2>2 DEF Spots
<1>2. TimerInv /\ KickOnce /\ Spots /\ [Next]_vars => (KickOnce /\ Spots)'
  BY KickOnceStep, SpotsStep
<1>3. TimerInv /\ Spots => OnePlace
  <2> SUFFICES ASSUME TimerInv, Spots, NEW i \in created
               PROVE  LET places ==
                            InRing(i)
                            \cup {<<"wait_queue">> : x \in {i} \cap wait_queue}
                            \cup {<<"rearmed">> : x \in {i} \cap rearmed}
                            \cup {<<"current">> : x \in {i} \cap {current}}
                            \cup {<<"call", a>> : a \in {b \in Actors :
                                     pc[b] = "publish" /\ target[b] = i}}
                      IN /\ \A p, q \in places : p = q
                         /\ state[i] = "kIdle" => places # {}
    BY DEF OnePlace
  <2> DEFINE places ==
        InRing(i)
        \cup {<<"wait_queue">> : x \in {i} \cap wait_queue}
        \cup {<<"rearmed">> : x \in {i} \cap rearmed}
        \cup {<<"current">> : x \in {i} \cap {current}}
        \cup {<<"call", a>> : a \in {b \in Actors :
                 pc[b] = "publish" /\ target[b] = i}}
  <2>1. Spot(i)
    BY DEF Spots, TimerInv, TypeOK
  <2>2. ASSUME NEW p \in places
        PROVE  \/ \E s \in published : Holds(s, i) /\ p = <<"ring", s>>
               \/ i \in wait_queue /\ p = <<"wait_queue">>
               \/ i \in rearmed /\ p = <<"rearmed">>
               \/ i = current /\ p = <<"current">>
               \/ \E a \in Actors : Carries(a, i) /\ p = <<"call", a>>
    BY DEF InRing, Holds, Carries
  <2>3. \A p, q \in places : p = q
    <3> SUFFICES ASSUME NEW p \in places, NEW q \in places PROVE p = q
      OBVIOUS
    <3> HIDE DEF places
    <3>1. CASE \E s \in published : Holds(s, i) /\ p = <<"ring", s>>
      BY <2>1, <2>2, <3>1 DEF Spot
    <3>2. CASE \E a \in Actors : Carries(a, i) /\ p = <<"call", a>>
      BY <2>1, <2>2, <3>2 DEF Spot
    <3>3. CASE i \in wait_queue /\ p = <<"wait_queue">>
      BY <2>1, <2>2, <3>3 DEF Spot
    <3>4. CASE i \in rearmed /\ p = <<"rearmed">>
      BY <2>1, <2>2, <3>4 DEF Spot
    <3>5. CASE i = current /\ p = <<"current">>
      BY <2>1, <2>2, <3>5 DEF Spot
    <3> QED BY <2>2, <3>1, <3>2, <3>3, <3>4, <3>5
  <2>4. ASSUME state[i] = "kIdle" PROVE places # {}
    <3>1. CASE i \in wait_queue
      <4>1. <<"wait_queue">> \in places
        BY <3>1
      <4> QED BY <4>1
    <3>2. CASE i \in rearmed
      <4>1. <<"rearmed">> \in places
        BY <3>2
      <4> QED BY <4>1
    <3>3. ASSUME NEW s \in published, Holds(s, i) PROVE places # {}
      <4>1. <<"ring", s>> \in places
        BY <3>3 DEF InRing, Holds
      <4> QED BY <4>1
    <3>4. ASSUME NEW a \in Actors, Carries(a, i) PROVE places # {}
      <4>1. <<"call", a>> \in places
        BY <3>4 DEF Carries
      <4> QED BY <4>1
    <3> QED BY <2>1, <2>4, <3>1, <3>2, <3>3, <3>4 DEF Spot
  <2> QED BY <2>3, <2>4
<1> QED BY <1>1, <1>2, <1>3, Invariance, PTL DEF Spec
=============================================================================
