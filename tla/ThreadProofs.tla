---------------------------- MODULE ThreadProofs ----------------------------
(***************************************************************************)
(* Proofs about threads, for any number of callers and of calls.           *)
(*                                                                         *)
(* HostThread: the semaphore tokens balance, Suspend stops a thread that   *)
(* was created running, and a thread that is held has a reason.            *)
(* GuestThread: a guest thread's suspension uses its host thread only as   *)
(* HostThread allows, so that all that is proved of host threads holds of  *)
(* it too; and a thread that suspends itself misses no wake-up.            *)
(***************************************************************************)
EXTENDS GuestThread, FiniteSetTheorems, TLAPS

-----------------------------------------------------------------------------
(* Callers and tokens of a host thread *)

\* The number of callers about to send a signal is a number.
LEMMA KillersFinite == IsFiniteSet(Killers) /\ Cardinality(Killers) \in Nat
<1>1. Killers \subseteq Callers
  BY DEF Killers
<1> QED BY <1>1, HostThreadAssumption, FS_Subset, FS_CardinalityType

\* A caller that has marked the object joins them (Suspend).
LEMMA KillersJoin ==
  ASSUME caller_at \in [Callers -> CallerAt], NEW c \in Callers,
         caller_at[c] # "kill", caller_at' = [caller_at EXCEPT ![c] = "kill"]
  PROVE  Cardinality(Killers') = Cardinality(Killers) + 1
<1>1. Killers' = Killers \cup {c} /\ c \notin Killers
  BY DEF Killers
<1> QED BY <1>1, KillersFinite, FS_AddElement

\* A caller that has sent its signal leaves them (Kill).
LEMMA KillersLeave ==
  ASSUME caller_at \in [Callers -> CallerAt], NEW c \in Callers,
         caller_at[c] = "kill", caller_at' = [caller_at EXCEPT ![c] = "idle"]
  PROVE  /\ Cardinality(Killers') = Cardinality(Killers) - 1
         /\ Cardinality(Killers) > 0
<1>1. Killers' = Killers \ {c} /\ c \in Killers
  BY DEF Killers
<1> QED BY <1>1, KillersFinite, FS_RemoveElement, FS_EmptySet

\* Every other move of a caller leaves them alone.
LEMMA KillersStay ==
  ASSUME caller_at \in [Callers -> CallerAt], NEW c \in Callers,
         NEW w \in CallerAt, caller_at[c] # "kill", w # "kill",
         caller_at' = [caller_at EXCEPT ![c] = w]
  PROVE  Killers' = Killers
BY DEF Killers

\* Types are kept.
LEMMA HostTypeStep ==
  ASSUME HostInv, [HostNext]_hostvars
  PROVE  HostTypeOK'
<1> USE HostThreadAssumption
    DEF HostInv, HostTypeOK, MarkedInv, States, ThreadAt, CallerAt, object,
        thread, life, history
<1>1. CASE Start
  BY <1>1 DEF Start, Executing
<1>2. CASE Park
  BY <1>2 DEF Park, Executing, Proceed
<1>3. CASE ParkWait
  BY <1>3 DEF ParkWait, Executing
<1>4. CASE Unpark
  BY <1>4 DEF Unpark, Executing, Proceed
<1>5. CASE BeginRoutine
  BY <1>5 DEF BeginRoutine, Executing, Proceed
<1>6. CASE SuspendSelfMark
  BY <1>6 DEF SuspendSelfMark, Executing, SuspendSection
<1>7. CASE LeaveSelfWait
  BY <1>7 DEF LeaveSelfWait, Executing
<1>8. CASE FinishMark
  BY <1>8 DEF FinishMark, Executing
<1>9. CASE ExitMark
  BY <1>9 DEF ExitMark, Executing
<1>10. CASE SignalExit
  BY <1>10 DEF SignalExit, Executing, Proceed
<1>11. CASE SignalExitDone
  BY <1>11 DEF SignalExitDone, Executing
<1>12. CASE TakeSignal
  BY <1>12 DEF TakeSignal, Executing
<1>13. CASE LeaveHandler
  <2>1. suspend_sem_' \in Nat
    BY <1>13 DEF LeaveHandler
  <2> QED BY <1>13, <2>1 DEF LeaveHandler
<1>14. CASE Cancelled
  BY <1>14 DEF Cancelled, Executing
<1>15. CASE Finish
  BY <1>15 DEF Finish, Executing, Proceed
<1>16. CASE Exit
  BY <1>16 DEF Exit, Executing, Proceed
<1>17. CASE SuspendSelf
  BY <1>17 DEF SuspendSelf, Executing
<1>18. ASSUME NEW c \in Callers, Resume(c) PROVE HostTypeOK'
  BY <1>18 DEF Resume, ResumeSection, Started
<1>19. ASSUME NEW c \in Callers, Suspend(c) PROVE HostTypeOK'
  BY <1>19 DEF Suspend, SuspendSection, Started, CallerGoto
<1>20. ASSUME NEW c \in Callers, Terminate(c) PROVE HostTypeOK'
  BY <1>20 DEF Terminate, CallerGoto
<1>21. ASSUME NEW c \in Callers, Kill(c) PROVE HostTypeOK'
  BY <1>21 DEF Kill, CallerGoto
<1>22. ASSUME NEW c \in Callers, TerminateSignal(c) PROVE HostTypeOK'
  BY <1>22 DEF TerminateSignal, CallerGoto
<1>23. ASSUME NEW c \in Callers, TerminateCancel(c) PROVE HostTypeOK'
  BY <1>23 DEF TerminateCancel, CallerGoto
<1>24. CASE UNCHANGED hostvars
  BY <1>24 DEF hostvars
<1> QED BY <1>1, <1>2, <1>3, <1>4, <1>5, <1>6, <1>7, <1>8, <1>9, <1>10,
         <1>11, <1>12, <1>13, <1>14, <1>15, <1>16, <1>17, <1>18, <1>19,
         <1>20, <1>21, <1>22, <1>23, <1>24
    DEF HostNext, ThreadStep, CallerStep

\* The mark and the count stay together.
LEMMA MarkedStep ==
  ASSUME HostInv, [HostNext]_hostvars
  PROVE  MarkedInv'
<1> USE HostThreadAssumption
    DEF HostInv, HostTypeOK, MarkedInv, Alive, States, ThreadAt, CallerAt,
        object, thread, life, history, StateMutexHeld
<1>1. CASE Start
  BY <1>1 DEF Start, Executing
<1>2. CASE Park
  BY <1>2 DEF Park, Executing, Proceed
<1>3. CASE ParkWait
  BY <1>3 DEF ParkWait, Executing
<1>4. CASE Unpark
  BY <1>4 DEF Unpark, Executing, Proceed
<1>5. CASE BeginRoutine
  BY <1>5 DEF BeginRoutine, Executing, Proceed
<1>6. CASE SuspendSelfMark
  BY <1>6 DEF SuspendSelfMark, Executing, SuspendSection
<1>7. CASE LeaveSelfWait
  BY <1>7 DEF LeaveSelfWait, Executing
<1>8. CASE FinishMark
  BY <1>8 DEF FinishMark, Executing
<1>9. CASE ExitMark
  BY <1>9 DEF ExitMark, Executing
<1>10. CASE SignalExit
  BY <1>10 DEF SignalExit, Executing, Proceed
<1>11. CASE SignalExitDone
  BY <1>11 DEF SignalExitDone, Executing
<1>12. CASE TakeSignal
  BY <1>12 DEF TakeSignal, Executing
<1>13. CASE LeaveHandler
  BY <1>13 DEF LeaveHandler, Executing
<1>14. CASE Cancelled
  BY <1>14 DEF Cancelled, Executing
<1>15. CASE Finish
  BY <1>15 DEF Finish, Executing, Proceed
<1>16. CASE Exit
  BY <1>16 DEF Exit, Executing, Proceed
<1>17. CASE SuspendSelf
  BY <1>17 DEF SuspendSelf, Executing
<1>18. ASSUME NEW c \in Callers, Resume(c) PROVE MarkedInv'
  BY <1>18 DEF Resume, ResumeSection, Started
<1>19. ASSUME NEW c \in Callers, Suspend(c) PROVE MarkedInv'
  BY <1>19 DEF Suspend, SuspendSection, Started, CallerGoto
<1>20. ASSUME NEW c \in Callers, Terminate(c) PROVE MarkedInv'
  BY <1>20 DEF Terminate, CallerGoto
<1>21. ASSUME NEW c \in Callers, Kill(c) PROVE MarkedInv'
  BY <1>21 DEF Kill, CallerGoto
<1>22. ASSUME NEW c \in Callers, TerminateSignal(c) PROVE MarkedInv'
  BY <1>22 DEF TerminateSignal, CallerGoto
<1>23. ASSUME NEW c \in Callers, TerminateCancel(c) PROVE MarkedInv'
  BY <1>23 DEF TerminateCancel, CallerGoto
<1>24. CASE UNCHANGED hostvars
  BY <1>24 DEF hostvars
<1> QED BY <1>1, <1>2, <1>3, <1>4, <1>5, <1>6, <1>7, <1>8, <1>9, <1>10,
         <1>11, <1>12, <1>13, <1>14, <1>15, <1>16, <1>17, <1>18, <1>19,
         <1>20, <1>21, <1>22, <1>23, <1>24
    DEF HostNext, ThreadStep, CallerStep

\* Nobody brings an ended thread back.
LEMMA AliveBefore ==
  ASSUME HostInv, [HostNext]_hostvars, Alive'
  PROVE  Alive
<1> USE DEF Alive, object, thread, life, history
<1>1. CASE ThreadStep
  BY <1>1 DEF ThreadStep, Start, Park, ParkWait, Unpark, BeginRoutine, Proceed,
       SuspendSelfMark, LeaveSelfWait, FinishMark, ExitMark, SignalExit,
       SignalExitDone, TakeSignal, LeaveHandler, Cancelled
<1>2. CASE Finish \/ Exit \/ SuspendSelf
  BY <1>2 DEF Finish, Exit, SuspendSelf, Proceed
<1>3. ASSUME NEW c \in Callers,
             Resume(c) \/ Suspend(c) \/ Terminate(c) \/ CallerStep(c)
      PROVE  Alive
  BY <1>3 DEF Resume, Suspend, Terminate, CallerStep, Kill, TerminateSignal,
       TerminateCancel
<1>4. CASE UNCHANGED hostvars
  BY <1>4 DEF hostvars
<1> QED BY <1>1, <1>2, <1>3, <1>4 DEF HostNext

\* Tokens and requests stay in balance.
LEMMA TokensStep ==
  ASSUME HostInv, [HostNext]_hostvars
  PROVE  TokensBalance'
<1> SUFFICES ASSUME Alive' PROVE TokensBalance'
  BY DEF TokensBalance
<1>0. Alive /\ TokensBalance /\ HostTypeOK /\ MarkedInv
  BY AliveBefore DEF HostInv
<1>K. Cardinality(Killers) \in Nat
  BY KillersFinite
<1> USE <1>0, <1>K
    DEF TokensBalance, Requests, Excess, HostTypeOK, MarkedInv, Alive, States,
        ThreadAt, CallerAt, object, thread, life, history
<1>1. CASE Start
  <2>1. Killers' = Killers
    BY <1>1 DEF Start, Killers
  <2> QED BY <1>1, <2>1 DEF Start, Executing
<1>2. CASE Park
  <2>1. Killers' = Killers
    BY <1>2 DEF Park, Killers, Proceed
  <2> QED BY <1>2, <2>1 DEF Park, Proceed, Executing
<1>3. CASE ParkWait
  <2>1. Killers' = Killers
    BY <1>3 DEF ParkWait, Killers
  <2> QED BY <1>3, <2>1 DEF ParkWait, Executing
<1>4. CASE Unpark
  <2>1. Killers' = Killers
    BY <1>4 DEF Unpark, Killers, Proceed
  <2> QED BY <1>4, <2>1 DEF Unpark, Proceed, Executing
<1>5. CASE BeginRoutine
  <2>1. Killers' = Killers
    BY <1>5 DEF BeginRoutine, Killers, Proceed
  <2> QED BY <1>5, <2>1 DEF BeginRoutine, Proceed, Executing
<1>6. CASE SuspendSelfMark
  <2>1. Killers' = Killers
    BY <1>6 DEF SuspendSelfMark, Killers
  <2> QED BY <1>6, <2>1 DEF SuspendSelfMark, SuspendSection, Executing
<1>7. CASE LeaveSelfWait
  <2>1. Killers' = Killers
    BY <1>7 DEF LeaveSelfWait, Killers
  <2> QED BY <1>7, <2>1 DEF LeaveSelfWait, Executing
<1>8. CASE FinishMark
  <2>1. Killers' = Killers
    BY <1>8 DEF FinishMark, Killers
  <2> QED BY <1>8, <2>1 DEF FinishMark, Executing
<1>9. CASE ExitMark
  <2>1. Killers' = Killers
    BY <1>9 DEF ExitMark, Killers
  <2> QED BY <1>9, <2>1 DEF ExitMark, Executing
<1>10. CASE SignalExit
  <2>1. Killers' = Killers
    BY <1>10 DEF SignalExit, Killers, Proceed
  <2> QED BY <1>10, <2>1 DEF SignalExit, Proceed, Executing
<1>11. CASE SignalExitDone
  <2>1. Killers' = Killers
    BY <1>11 DEF SignalExitDone, Killers
  <2> QED BY <1>11, <2>1 DEF SignalExitDone, Executing
<1>12. CASE TakeSignal
  <2>1. Killers' = Killers
    BY <1>12 DEF TakeSignal, Killers
  <2> QED BY <1>12, <2>1 DEF TakeSignal, Executing
<1>13. CASE LeaveHandler
  <2>1. Killers' = Killers
    BY <1>13 DEF LeaveHandler, Killers
  <2>2. /\ in_handler /\ ~in_handler'
        /\ suspend_sem_ \in Nat /\ suspend_sem_' = suspend_sem_ - 1
        /\ UNCHANGED <<state_, pending, thread_at, create_suspended>>
    BY <1>13 DEF LeaveHandler
  <2>3. Excess' = Excess /\ Excess \in {0, 1}
    BY <2>2
  <2>4. Requests' = Requests - 1 /\ Requests \in Nat
    BY <2>1, <2>2
  <2> HIDE DEF Requests, Excess
  <2> QED BY <2>2, <2>3, <2>4
<1>14. CASE Cancelled
  <2>1. Killers' = Killers
    BY <1>14 DEF Cancelled, Killers
  <2> QED BY <1>14, <2>1 DEF Cancelled, Executing
<1>15. CASE Finish
  <2>1. Killers' = Killers
    BY <1>15 DEF Finish, Killers, Proceed
  <2> QED BY <1>15, <2>1 DEF Finish, Proceed, Executing
<1>16. CASE Exit
  <2>1. Killers' = Killers
    BY <1>16 DEF Exit, Killers, Proceed
  <2> QED BY <1>16, <2>1 DEF Exit, Proceed, Executing
<1>17. CASE SuspendSelf
  <2>1. Killers' = Killers
    BY <1>17 DEF SuspendSelf, Killers
  <2> QED BY <1>17, <2>1 DEF SuspendSelf, Executing
<1>18. ASSUME NEW c \in Callers, Resume(c) PROVE TokensBalance'
  <2>1. Killers' = Killers
    BY <1>18 DEF Resume, Killers
  <2> QED BY <1>18, <2>1 DEF Resume, ResumeSection, Started
<1>19. ASSUME NEW c \in Callers, Suspend(c) PROVE TokensBalance'
  <2>1. CASE state_ = "kSuspended"
    <3>1. Killers' = Killers
      BY <1>19, <2>1, KillersStay DEF Suspend, CallerGoto
    <3> QED BY <1>19, <2>1, <3>1 DEF Suspend, SuspendSection
  <2>2. CASE state_ # "kSuspended"
    <3>1. Cardinality(Killers') = Cardinality(Killers) + 1
      BY <1>19, <2>2, KillersJoin DEF Suspend, CallerGoto
    <3>2. /\ UNCHANGED <<pending, in_handler, thread_at, create_suspended,
                        suspend_sem_>>
          /\ state_' = "kSuspended"
      BY <1>19 DEF Suspend, SuspendSection
    <3>3. Excess' = Excess /\ Excess \in {0, 1}
      BY <3>2
    <3>4. Requests' = Requests + 1 /\ Requests \in Nat
      BY <3>1, <3>2
    <3>5. Requests + Excess = suspend_sem_
      BY <2>2
    <3> HIDE DEF Requests, Excess
    <3> QED BY <3>2, <3>3, <3>4, <3>5
  <2> QED BY <2>1, <2>2
<1>20. ASSUME NEW c \in Callers, Terminate(c) PROVE TokensBalance'
  BY <1>20 DEF Terminate
<1>21. ASSUME NEW c \in Callers, Kill(c) PROVE TokensBalance'
  <2>1. /\ Cardinality(Killers') = Cardinality(Killers) - 1
        /\ Cardinality(Killers) > 0
    BY <1>21, KillersLeave DEF Kill, CallerGoto
  <2> QED BY <1>21, <2>1 DEF Kill
<1>22. ASSUME NEW c \in Callers, TerminateSignal(c) PROVE TokensBalance'
  BY <1>22 DEF TerminateSignal
<1>23. ASSUME NEW c \in Callers, TerminateCancel(c) PROVE TokensBalance'
  BY <1>23 DEF TerminateCancel
<1>24. CASE UNCHANGED hostvars
  <2>1. Killers' = Killers
    BY <1>24 DEF hostvars, Killers
  <2> QED BY <1>24, <2>1 DEF hostvars
<1> QED BY <1>1, <1>2, <1>3, <1>4, <1>5, <1>6, <1>7, <1>8, <1>9, <1>10,
         <1>11, <1>12, <1>13, <1>14, <1>15, <1>16, <1>17, <1>18, <1>19,
         <1>20, <1>21, <1>22, <1>23, <1>24
    DEF HostNext, ThreadStep, CallerStep

\* The initial state satisfies the invariant.
LEMMA HostInitInv == HostInit => HostInv
<1> SUFFICES ASSUME HostInit PROVE HostInv
  OBVIOUS
<1> USE HostThreadAssumption DEF HostInit
<1>1. Killers = {}
  BY DEF Killers
<1>2. Cardinality(Killers) = 0
  BY <1>1, FS_EmptySet
<1>3. HostTypeOK
  <2>1. caller_at \in [Callers -> CallerAt]
    BY DEF CallerAt
  <2>2. state_ \in States /\ thread_at \in ThreadAt
    BY DEF States, ThreadAt
  <2>3. /\ in_handler \in BOOLEAN /\ signaled_ \in BOOLEAN
        /\ cancelled \in BOOLEAN /\ terminating \in BOOLEAN
        /\ create_suspended \in BOOLEAN
    BY Zenon
  <2>4. /\ suspend_count_ \in Nat /\ suspend_sem_ \in Nat /\ pending \in Nat
        /\ suspends \in 0 .. MaxSuspends /\ resumes \in 0 .. MaxResumes
    BY SMT
  <2> HIDE DEF HostInit
  <2> QED BY <2>1, <2>2, <2>3, <2>4 DEF HostTypeOK
<1>4. TokensBalance
  BY <1>2 DEF TokensBalance, Requests, Excess
<1>5. MarkedInv
  BY DEF MarkedInv, Alive
<1> QED BY <1>3, <1>4, <1>5 DEF HostInv

\* Types, marks and tokens are consistent in every reachable state of a host
\* thread (Suspend, Resume, Terminate, signal_handler and the start routine,
\* however many callers and calls there are), created suspended or not.
THEOREM HostInvariance ==
  HostSpec => []HostInv
<1>1. HostInv /\ [HostNext]_hostvars => HostInv'
  BY HostTypeStep, MarkedStep, TokensStep DEF HostInv
<1> QED BY HostInitInv, <1>1, PTL DEF HostSpec

\* The tokens in suspend_sem_ balance the requests to wait.
THEOREM TokensAlwaysBalance ==
  HostSpec => []TokensBalance
<1>1. HostInv => TokensBalance
  BY DEF HostInv
<1> QED BY <1>1, HostInvariance, PTL

\* Suspend stops a thread that was created running: no delivered suspension is
\* ever without effect.
THEOREM SuspendAlwaysStops ==
  HostSpec => []RunningThreadStops
<1>1. HostInv => RunningThreadStops
  <2> SUFFICES ASSUME HostInv, ~create_suspended, Delivered, Alive,
                      InOwnCode, ~in_handler
               PROVE  suspend_count_ = 0
    BY DEF RunningThreadStops, SuspendStops
  <2>1. Cardinality(Killers) = 0
    BY FS_EmptySet DEF Delivered
  <2>2. Requests = 0
    BY <2>1 DEF Requests, Delivered, InOwnCode
  <2>3. state_ # "kSuspended"
    BY <2>2 DEF HostInv, HostTypeOK, TokensBalance, Excess
  <2> QED BY <2>3 DEF HostInv, HostTypeOK, MarkedInv, InOwnCode
<1> QED BY <1>1, HostInvariance, PTL

\* A thread that is held has a suspend count or a token to leave with: it
\* never waits for a Resume that already happened.
THEOREM HeldAlwaysHasReason ==
  HostSpec => []HeldHasReason
<1>1. HostInv => HeldHasReason
  <2> SUFFICES ASSUME HostInv, Delivered, Alive,
                      in_handler \/ thread_at = "self_wait"
               PROVE  suspend_count_ > 0 \/ suspend_sem_ > 0
    BY DEF HeldHasReason
  <2>1. Cardinality(Killers) = 0
    BY FS_EmptySet DEF Delivered
  <2>2. Requests \in {1, 2}
    BY <2>1 DEF Requests, Delivered
  <2>3. \/ suspend_sem_ > 0
        \/ state_ = "kSuspended" /\ Excess = 0
    BY <2>2 DEF HostInv, HostTypeOK, TokensBalance, Excess
  <2>4. thread_at \notin {"gap", "parking"} \/ Excess = 1
    BY DEF HostInv, MarkedInv, Excess
  <2> QED BY <2>3, <2>4 DEF HostInv, HostTypeOK, MarkedInv
<1> QED BY <1>1, HostInvariance, PTL

\* How a thread was created never changes.
LEMMA CreationIsKept ==
  ASSUME [HostNext]_hostvars
  PROVE  UNCHANGED create_suspended
<1> USE DEF object, thread, life, history
<1>1. CASE ThreadStep
  BY <1>1 DEF ThreadStep, Start, Park, ParkWait, Unpark, BeginRoutine, Proceed,
       SuspendSelfMark, LeaveSelfWait, FinishMark, ExitMark, SignalExit,
       SignalExitDone, TakeSignal, LeaveHandler, Cancelled
<1>2. CASE Finish \/ Exit \/ SuspendSelf
  BY <1>2 DEF Finish, Exit, SuspendSelf, Proceed
<1>3. ASSUME NEW c \in Callers,
             Resume(c) \/ Suspend(c) \/ Terminate(c) \/ CallerStep(c)
      PROVE  UNCHANGED create_suspended
  BY <1>3 DEF Resume, Suspend, Terminate, CallerStep, Kill, TerminateSignal,
       TerminateCancel
<1>4. CASE UNCHANGED hostvars
  BY <1>4 DEF hostvars
<1> QED BY <1>1, <1>2, <1>3, <1>4 DEF HostNext

-----------------------------------------------------------------------------
(* The host thread *)

LEMMA GuestInitsHost == GuestInit => HostInit
BY DEF GuestInit

\* What XThread does to its host thread is what any holder of its handle may do.
LEMMA GuestStepsHost == [GuestNext]_guestvars => [HostNext]_hostvars
<1> SUFFICES ASSUME [GuestNext]_guestvars
             PROVE  [HostNext]_hostvars
  OBVIOUS
<1>1. CASE HostSteps
  BY <1>1 DEF HostSteps, HostNext
<1>2. CASE GuestFinish
  BY <1>2 DEF GuestFinish, HostNext
<1>3. CASE SelfRead
  BY <1>3 DEF SelfRead
<1>4. ASSUME NEW a \in Actors, SuspendAdd(a)
      PROVE  UNCHANGED hostvars
  BY <1>4 DEF SuspendAdd
<1>5. ASSUME NEW c \in Callers, ResumeBegin(c)
      PROVE  UNCHANGED hostvars
  BY <1>5 DEF ResumeBegin
<1>6. ASSUME NEW a \in Actors, CallSteps(a)
      PROVE  [HostNext]_hostvars
  <2>1. ASSUME a # "self", ResumeRead(a) \/ ResumeStore(a) \/ ResumeCheck(a)
        PROVE  UNCHANGED hostvars
    BY <2>1 DEF ResumeRead, ResumeStore, ResumeCheck
  <2>2. ASSUME a # "self", ResumeHost(a)
        PROVE  HostNext
    BY <2>2 DEF ResumeHost, HostNext, Actors
  <2>3. ASSUME SuspendReread(a)
        PROVE  UNCHANGED hostvars
    BY <2>3 DEF SuspendReread
  <2>4. ASSUME SuspendHost(a)
        PROVE  HostNext
    BY <2>4 DEF SuspendHost, HostNext, Actors
  <2>5. ASSUME SelfStore \/ SelfWake \/ SelfReturn
        PROVE  UNCHANGED hostvars
    BY <2>5 DEF SelfStore, SelfWake, SelfReturn
  <2> QED
    BY <1>6, <2>1, <2>2, <2>3, <2>4, <2>5 DEF CallSteps
<1>7. CASE PlainNext
  BY <1>7 DEF PlainNext
<1>8. CASE UNCHANGED guestvars
  BY <1>8 DEF guestvars
<1> QED
  BY <1>1, <1>2, <1>3, <1>4, <1>5, <1>6, <1>7, <1>8
     DEF GuestNext, XThreadNext, Actors

\* Suspending and resuming through XThread implements HostThread.
THEOREM GuestImplementsHost == GuestSpec => HostSpec
BY GuestInitsHost, GuestStepsHost, PTL DEF GuestSpec, HostSpec

\* The tokens and counts of the host thread agree, whether a guest thread runs
\* on it or not.
THEOREM GuestHostInvariance == GuestSpec => []HostInv
BY GuestImplementsHost, HostInvariance, PTL

\* A guest thread's host thread was created suspended, and stays so marked.
LEMMA GuestCreatedSuspended ==
  GuestSpec => [](is_guest => create_suspended)
<1>1. GuestInit => (is_guest => create_suspended)
  BY DEF GuestInit
<1>2. (is_guest => create_suspended) /\ [GuestNext]_guestvars
        => (is_guest => create_suspended)'
  <2> SUFFICES ASSUME [GuestNext]_guestvars
               PROVE  UNCHANGED <<is_guest, create_suspended>>
    OBVIOUS
  <2>1. UNCHANGED is_guest
    BY DEF GuestNext, guestvars
  <2>2. UNCHANGED create_suspended
    <3>1. [HostNext]_hostvars
      BY GuestStepsHost
    <3> QED BY <3>1, CreationIsKept
  <2> QED BY <2>1, <2>2
<1> QED BY <1>1, <1>2, PTL DEF GuestSpec

\* The suspend signal never holds a guest thread: its handler always finds the
\* token in excess.  What holds a guest thread is its own wait, SelfSuspend or
\* Thread::Suspend; so no signal stops it for long inside a critical section.
THEOREM GuestHandlerReturns == GuestSpec => []HandlerReturns
<1>1. HostInv /\ (is_guest => create_suspended) => HandlerReturns
  <2> SUFFICES ASSUME HostInv, create_suspended, Alive, in_handler
               PROVE  suspend_sem_ > 0
    BY DEF HandlerReturns
  <2>1. Cardinality(Killers) \in Nat
    BY KillersFinite
  <2>2. Requests \in Nat /\ Requests > 0
    BY <2>1 DEF Requests, HostInv, HostTypeOK
  <2>3. thread_at = "new" => state_ # "kSuspended"
    BY DEF HostInv, MarkedInv
  <2> QED BY <2>2, <2>3 DEF HostInv, HostTypeOK, TokensBalance, Excess
<1> QED BY <1>1, GuestHostInvariance, GuestCreatedSuspended, PTL

\* A thread that is held has a reason.
THEOREM GuestHeldHasReason == GuestSpec => []HeldHasReason
BY GuestImplementsHost, HeldAlwaysHasReason, PTL

-----------------------------------------------------------------------------
(* SelfSuspend misses no wake-up *)

CallerStages == {"idle", "lock", "store", "check", "host_resume", "reread", "host_suspend"}
SelfStages   == {"idle", "store", "waiting", "leaving", "reread", "host_suspend"}

\* Who is in a section of suspend_mutex_ holds it.
Holders ==
    /\ \A c \in Callers :
          /\ guest_at[c] \in CallerStages
          /\ guest_at[c] \in {"store", "check"} => suspend_mutex_ = c
    /\ guest_at["self"] \in SelfStages
    /\ guest_at["self"] \in {"store", "leaving"} => suspend_mutex_ = "self"

\* When the count is zero under a waiting thread, somebody who holds the mutex
\* is about to notify it, if it has not been.
Wakes ==
    guest_at["self"] = "waiting" /\ guest_count = 0
      => woken \/ \E c \in Callers : guest_at[c] = "check"

IInv == GuestTypeOK /\ Holders /\ Wakes

LEMMA InitIInv == GuestInit => IInv
<1> SUFFICES ASSUME GuestInit
             PROVE  IInv
  OBVIOUS
<1> USE GuestThreadAssumption, HostThreadAssumption
    DEF GuestInit, Actors, GuestAt, CallerStages, SelfStages, InitialCount
<1>1. GuestTypeOK
  <2>1. guest_at \in [Actors -> GuestAt] /\ suspend_mutex_ = Nobody /\ woken = FALSE
    OBVIOUS
  <2>2. guest_count \in Nat /\ read \in [Actors -> Nat]
    OBVIOUS
  <2>3. added \in 0 .. MaxGuestSuspends /\ resume_calls \in 0 .. MaxGuestResumes
    OBVIOUS
  <2> QED
    BY <2>1, <2>2, <2>3 DEF GuestTypeOK
<1>2. Holders
  BY DEF Holders
<1>3. Wakes
  BY DEF Wakes
<1> QED
  BY <1>1, <1>2, <1>3 DEF IInv

LEMMA NextIInv == IInv /\ [GuestNext]_guestvars => IInv'
<1> SUFFICES ASSUME IInv, [GuestNext]_guestvars
             PROVE  IInv'
  OBVIOUS
<1> USE GuestThreadAssumption, HostThreadAssumption
    DEF IInv, GuestTypeOK, Holders, Wakes, Actors, GuestAt, CallerStages, SelfStages,
        tally, guest, Goto, ReadCount
<1>0. UNCHANGED is_guest
  BY DEF GuestNext, guestvars
<1>1. CASE UNCHANGED guest
  BY <1>0, <1>1
<1>2. CASE SelfRead
  BY <1>0, <1>2 DEF SelfRead
<1>3. ASSUME NEW a \in Actors, SuspendAdd(a)
      PROVE  IInv'
  BY <1>0, <1>3 DEF SuspendAdd, Free
<1>4. ASSUME NEW c \in Callers, ResumeBegin(c)
      PROVE  IInv'
  BY <1>0, <1>4 DEF ResumeBegin, Free
<1>5. ASSUME NEW c \in Callers, ResumeRead(c)
      PROVE  IInv'
  <2>1. GuestTypeOK'
    <3>1. guest_count' \in Nat
      BY <1>5 DEF ResumeRead
    <3> QED
      BY <1>0, <3>1, <1>5 DEF ResumeRead
  <2>2. Holders'
    BY <1>5 DEF ResumeRead
  <2>3. Wakes'
    BY <1>5 DEF ResumeRead
  <2> QED
    BY <2>1, <2>2, <2>3
<1>6. ASSUME NEW c \in Callers, ResumeStore(c)
      PROVE  IInv'
  BY <1>0, <1>6 DEF ResumeStore
<1>7. ASSUME NEW c \in Callers, ResumeCheck(c)
      PROVE  IInv'
  BY <1>0, <1>7 DEF ResumeCheck
<1>8. ASSUME NEW c \in Callers, ResumeHost(c)
      PROVE  IInv'
  BY <1>0, <1>8 DEF ResumeHost
<1>9. ASSUME NEW a \in Actors, SuspendReread(a)
      PROVE  IInv'
  BY <1>0, <1>9 DEF SuspendReread
<1>10. ASSUME NEW a \in Actors, SuspendHost(a)
       PROVE  IInv'
  BY <1>0, <1>10 DEF SuspendHost
<1>11. CASE SelfStore
  <2>1. GuestTypeOK'
    <3>1. guest_count' \in Nat
      BY <1>11 DEF SelfStore
    <3> QED
      BY <1>0, <3>1, <1>11 DEF SelfStore
  <2>2. Holders'
    BY <1>11 DEF SelfStore
  <2>3. Wakes'
    BY <1>11 DEF SelfStore
  <2> QED
    BY <2>1, <2>2, <2>3
<1>12. CASE SelfWake
  BY <1>0, <1>12 DEF SelfWake
<1>13. CASE SelfReturn
  BY <1>0, <1>13 DEF SelfReturn
<1> QED
  BY <1>1, <1>2, <1>3, <1>4, <1>5, <1>6, <1>7, <1>8, <1>9, <1>10, <1>11, <1>12, <1>13
     DEF GuestNext, XThreadNext, PlainNext, HostSteps, GuestFinish, CallSteps, guestvars

\* A self-suspended thread whose count has gone to zero was notified, although
\* Suspend adds to the count without the mutex (SelfSuspend, Resume), and the
\* handler of the suspend signal never holds a guest thread.
THEOREM GuestInvariance == GuestSpec => []GuestInv
<1>1. IInv /\ HandlerReturns => GuestInv
  <2> SUFFICES ASSUME IInv, guest_at["self"] = "waiting", guest_count = 0,
                      suspend_mutex_ = Nobody
               PROVE  woken
    BY DEF IInv, GuestInv, NoLostWakeup
  <2> QED
    BY GuestThreadAssumption DEF IInv, Holders, Wakes
<1>2. GuestSpec => []IInv
  BY InitIInv, NextIInv, PTL DEF GuestSpec
<1> QED
  BY <1>1, <1>2, GuestHandlerReturns, PTL
=============================================================================
