----------------------------- MODULE HostThread -----------------------------
(***************************************************************************)
(* A host thread on POSIX (PosixCondition<Thread> and its start routine,   *)
(* base/threading_posix.cc): how it starts, and how other threads and the  *)
(* thread itself suspend, resume and terminate it.                         *)
(*                                                                         *)
(* Suspending another thread takes three parties: the caller marks the     *)
(* object under state_mutex_ and sends a real-time signal; the kernel      *)
(* queues it; the handler, in the target, waits on suspend_sem_.  Resume   *)
(* posts the semaphore.  A thread created suspended waits elsewhere, on    *)
(* the condition variable state_signal_.                                   *)
(*                                                                         *)
(* The signal stops the thread wherever it is, also while it holds its own *)
(* state_mutex_ or mutex_: its own sections are two steps, one that locks  *)
(* and one that does the work and unlocks.  Those of its callers, who are  *)
(* not suspended themselves, are one step under the free mutex.            *)
(***************************************************************************)
EXTENDS Integers, FiniteSets

CONSTANTS
    Callers,          \* threads that hold a handle to this one
    MaxSuspends,      \* BOUND on calls of Suspend
    MaxResumes,       \* BOUND on calls of Resume
    MayTerminate      \* TRUE: callers may call Terminate

ASSUME HostThreadAssumption ==
    /\ IsFiniteSet(Callers)
    /\ MayTerminate \in BOOLEAN
    /\ MaxSuspends \in Nat /\ MaxResumes \in Nat

VARIABLES
    create_suspended,  \* CreationParameters::create_suspended, never changed
    state_,          \* PosixCondition<Thread>::state_
    suspend_count_,
    suspend_sem_,    \* value of the semaphore
    pending,         \* suspend signals queued for the thread
    in_handler,      \* the thread is in signal_handler (the signal is masked)
    thread_at,       \* where the thread's own code is
    signaled_,       \* the thread object is signaled to its waiters
    cancelled,       \* pthread_cancel was called on it
    caller_at,       \* what each caller has left to do in its current call
    suspends, resumes,
    terminating      \* history: somebody has begun to terminate the thread

thread  == <<pending, in_handler, thread_at>>
object  == <<state_, suspend_count_, suspend_sem_>>
life    == <<create_suspended, signaled_, cancelled>>
history == <<suspends, resumes, terminating>>
hostvars == <<object, thread, life, caller_at, history>>

States    == {"kUninitialized", "kRunning", "kSuspended", "kFinished"}
\* "parking", "unparking", "suspending", "finishing" and "exiting" are sections
\* of state_mutex_, "signaling" is the section of mutex_.
ThreadAt  == {"new", "gap", "parking", "parked", "unparking", "running",
              "suspending", "self_wait", "finishing", "exiting", "spinning",
              "finished", "signaling", "exited"}
CallerAt  == {"idle", "kill", "signal", "cancel"}

HostTypeOK ==
    /\ state_ \in States
    /\ suspend_count_ \in Nat
    /\ suspend_sem_ \in Nat
    /\ pending \in Nat
    /\ in_handler \in BOOLEAN
    /\ thread_at \in ThreadAt
    /\ create_suspended \in BOOLEAN
    /\ signaled_ \in BOOLEAN /\ cancelled \in BOOLEAN
    /\ caller_at \in [Callers -> CallerAt]
    /\ suspends \in 0 .. MaxSuspends
    /\ resumes \in 0 .. MaxResumes
    /\ terminating \in BOOLEAN

HostInit ==
    /\ create_suspended \in BOOLEAN
    /\ state_ = "kUninitialized"
    /\ suspend_count_ = 0
    /\ suspend_sem_ = 0
    /\ pending = 0
    /\ in_handler = FALSE
    /\ thread_at = "new"
    /\ signaled_ = FALSE /\ cancelled = FALSE
    /\ caller_at = [c \in Callers |-> "idle"]
    /\ suspends = 0 /\ resumes = 0 /\ terminating = FALSE

\* WaitStarted: every operation waits for the start routine's first section.
Started == state_ # "kUninitialized"

\* The thread's own code makes progress.
Executing == ~in_handler /\ ~cancelled

\* The thread itself holds a mutex of its object, perhaps stopped in it.
StateMutexHeld ==
    thread_at \in {"parking", "unparking", "suspending", "finishing", "exiting"}
MutexHeld == thread_at = "signaling"

\* The thread's code moves on; nothing else changes.
Proceed(from, to) ==
    /\ thread_at = from /\ Executing
    /\ thread_at' = to
    /\ UNCHANGED <<object, pending, in_handler, life, caller_at, history>>

CallerGoto(c, where) == caller_at' = [caller_at EXCEPT ![c] = where]

-----------------------------------------------------------------------------
(* ThreadStartRoutine *)

\* First section: publish the initial state.
Start ==
    /\ thread_at = "new"
    /\ state_' = IF create_suspended THEN "kSuspended" ELSE "kRunning"
    /\ thread_at' = IF create_suspended THEN "gap" ELSE "running"
    /\ UNCHANGED <<suspend_count_, suspend_sem_, pending, in_handler, life,
                   caller_at, history>>

\* Second section: only here does the count become 1; the wait unlocks.
Park == Proceed("gap", "parking")

ParkWait ==
    /\ thread_at = "parking" /\ Executing
    /\ suspend_count_' = 1
    /\ thread_at' = "parked"
    /\ UNCHANGED <<state_, suspend_sem_, pending, in_handler, life, caller_at,
                   history>>

Unpark == suspend_count_ = 0 /\ Proceed("parked", "unparking")

BeginRoutine == Proceed("unparking", "running")

\* start_routine returns.
Finish == Proceed("running", "finishing")

FinishMark ==
    /\ thread_at = "finishing" /\ Executing
    /\ state_' = "kFinished"
    /\ thread_at' = "finished"
    /\ UNCHANGED <<suspend_count_, suspend_sem_, pending, in_handler, life,
                   caller_at, history>>

\* The thread calls Thread::Exit: Terminate on itself.  If somebody else is
\* terminating it, it spins until it is cancelled.
Exit == Proceed("running", "exiting")

ExitMark ==
    /\ thread_at = "exiting" /\ Executing
    /\ state_' = "kFinished"
    /\ thread_at' = IF state_ = "kFinished" THEN "spinning" ELSE "finished"
    /\ UNCHANGED <<suspend_count_, suspend_sem_, pending, in_handler, life,
                   caller_at, history>>

\* The last section, of mutex_.
SignalExit == Proceed("finished", "signaling")

SignalExitDone ==
    /\ thread_at = "signaling" /\ Executing
    /\ signaled_' = TRUE
    /\ thread_at' = "exited"
    /\ UNCHANGED <<object, pending, in_handler, create_suspended, cancelled,
                   caller_at, history>>

\* Asynchronous cancellation takes effect, wherever the thread is; unwinding
\* gives back the mutex it held.
Cancelled ==
    /\ cancelled
    /\ thread_at # "exited"
    /\ thread_at' = "exited"
    /\ in_handler' = FALSE
    /\ UNCHANGED <<object, pending, life, caller_at, history>>

-----------------------------------------------------------------------------
(* signal_handler and WaitSuspended *)

\* The kernel delivers the signal between any two steps of the thread's code.
TakeSignal ==
    /\ pending > 0
    /\ thread_at \notin {"new", "exited"} /\ Executing
    /\ pending' = pending - 1
    /\ in_handler' = TRUE
    /\ UNCHANGED <<object, thread_at, life, caller_at, history>>

LeaveHandler ==
    /\ in_handler
    /\ suspend_sem_ > 0
    /\ suspend_sem_' = suspend_sem_ - 1
    /\ in_handler' = FALSE
    /\ UNCHANGED <<state_, suspend_count_, pending, thread_at, life, caller_at,
                   history>>

LeaveSelfWait ==
    /\ thread_at = "self_wait" /\ Executing
    /\ suspend_sem_ > 0
    /\ suspend_sem_' = suspend_sem_ - 1
    /\ thread_at' = "running"
    /\ UNCHANGED <<state_, suspend_count_, pending, in_handler, life,
                   caller_at, history>>

-----------------------------------------------------------------------------
(* Resume, Suspend *)

\* Fault: every Resume posts, not only the last one.
ResumePostsEach ==
    IF suspend_count_ = 0 THEN UNCHANGED object
    ELSE /\ suspend_count_' = suspend_count_ - 1
         /\ state_' = IF suspend_count_ = 1 THEN "kRunning" ELSE state_
         /\ suspend_sem_' = suspend_sem_ + 1

\* Fault: the semaphore is not posted.
ResumeForgetsPost ==
    IF suspend_count_ = 0 THEN UNCHANGED object
    ELSE /\ suspend_count_' = suspend_count_ - 1
         /\ state_' = IF suspend_count_ = 1 /\ state_ = "kSuspended"
                      THEN "kRunning" ELSE state_
         /\ UNCHANGED suspend_sem_

\* The section of Resume; TRUE as a whole when the count is already 0.
ResumeSection ==
    IF suspend_count_ = 0 THEN UNCHANGED object
    ELSE /\ suspend_count_' = suspend_count_ - 1
         /\ IF suspend_count_ = 1 /\ state_ = "kSuspended"
            THEN /\ state_' = "kRunning"
                 /\ suspend_sem_' = suspend_sem_ + 1
            ELSE UNCHANGED <<state_, suspend_sem_>>

\* The section of Suspend.
SuspendSection ==
    /\ state_' = "kSuspended"
    /\ suspend_count_' = suspend_count_ + 1
    /\ UNCHANGED suspend_sem_

Resume(c) ==
    /\ caller_at[c] = "idle"
    /\ Started /\ ~StateMutexHeld
    /\ resumes < MaxResumes
    /\ resumes' = resumes + 1
    /\ ResumeSection
    /\ UNCHANGED <<thread, life, caller_at, suspends, terminating>>

\* Fault: a suspended thread is sent another signal.
SuspendSignalsAgain(c) ==
    /\ caller_at[c] = "idle"
    /\ Started /\ ~StateMutexHeld
    /\ suspends < MaxSuspends
    /\ suspends' = suspends + 1
    /\ SuspendSection
    /\ CallerGoto(c, "kill")
    /\ UNCHANGED <<thread, life, resumes, terminating>>

\* Already suspended: only the count changes.  Otherwise the signal follows,
\* after state_mutex_ was released.
Suspend(c) ==
    /\ caller_at[c] = "idle"
    /\ Started /\ ~StateMutexHeld
    /\ suspends < MaxSuspends
    /\ suspends' = suspends + 1
    /\ SuspendSection
    /\ CallerGoto(c, IF state_ = "kSuspended" THEN "idle" ELSE "kill")
    /\ UNCHANGED <<thread, life, resumes, terminating>>

\* pthread_kill; a thread that has exited receives nothing.
Kill(c) ==
    /\ caller_at[c] = "kill"
    /\ pending' = IF thread_at = "exited" THEN pending ELSE pending + 1
    /\ CallerGoto(c, "idle")
    /\ UNCHANGED <<object, in_handler, thread_at, life, history>>

\* The thread suspends itself: it waits without a signal.
SuspendSelf ==
    /\ suspends < MaxSuspends
    /\ suspends' = suspends + 1
    /\ thread_at = "running" /\ Executing
    /\ thread_at' = "suspending"
    /\ UNCHANGED <<object, pending, in_handler, life, caller_at, resumes,
                   terminating>>

\* Fault: the thread waits even when it is already marked suspended.
SuspendSelfWaits ==
    /\ thread_at = "suspending" /\ Executing
    /\ SuspendSection
    /\ thread_at' = "self_wait"
    /\ UNCHANGED <<pending, in_handler, life, caller_at, history>>

SuspendSelfMark ==
    /\ thread_at = "suspending" /\ Executing
    /\ SuspendSection
    /\ thread_at' = IF state_ = "kSuspended" THEN "running" ELSE "self_wait"
    /\ UNCHANGED <<pending, in_handler, life, caller_at, history>>

-----------------------------------------------------------------------------
(* Terminate, called by another thread; it does not wait for the start *)

Terminate(c) ==
    /\ MayTerminate
    /\ caller_at[c] = "idle" /\ ~StateMutexHeld
    /\ state_ # "kFinished"
    /\ state_' = "kFinished"
    /\ terminating' = TRUE
    /\ CallerGoto(c, "signal")
    /\ UNCHANGED <<suspend_count_, suspend_sem_, thread, life, suspends,
                   resumes>>

TerminateSignal(c) ==
    /\ caller_at[c] = "signal" /\ ~MutexHeld
    /\ signaled_' = TRUE
    /\ CallerGoto(c, "cancel")
    /\ UNCHANGED <<object, thread, create_suspended, cancelled, history>>

\* Fault: the thread is not cancelled.
TerminateWithoutCancel(c) ==
    /\ caller_at[c] = "cancel"
    /\ CallerGoto(c, "idle")
    /\ UNCHANGED <<object, thread, life, history>>

TerminateCancel(c) ==
    /\ caller_at[c] = "cancel"
    /\ cancelled' = TRUE
    /\ CallerGoto(c, "idle")
    /\ UNCHANGED <<object, thread, create_suspended, signaled_, history>>

-----------------------------------------------------------------------------

ThreadStep ==
    \/ Start \/ Park \/ ParkWait \/ Unpark \/ BeginRoutine
    \/ SuspendSelfMark \/ LeaveSelfWait
    \/ FinishMark \/ ExitMark \/ SignalExit \/ SignalExitDone
    \/ TakeSignal \/ LeaveHandler \/ Cancelled

CallerStep(c) == Kill(c) \/ TerminateSignal(c) \/ TerminateCancel(c)

HostNext ==
    \/ ThreadStep \/ Finish \/ Exit \/ SuspendSelf
    \/ \E c \in Callers :
          Resume(c) \/ Suspend(c) \/ Terminate(c) \/ CallerStep(c)

HostSpec == HostInit /\ [][HostNext]_hostvars

\* The thread and its callers are scheduled; nobody has to make a call and
\* the thread's routine need not return.
HostFairness ==
    /\ WF_hostvars(ThreadStep)
    /\ \A c \in Callers : WF_hostvars(CallerStep(c))

HostFairSpec == HostSpec /\ HostFairness

-----------------------------------------------------------------------------
(* Properties *)

\* Callers that have marked the object and not yet sent the signal.
Killers == {c \in Callers : caller_at[c] = "kill"}

\* No suspend request is between the caller and the handler.
Delivered == pending = 0 /\ Killers = {}

Alive == ~terminating /\ thread_at \notin {"finished", "signaling", "exited"}

\* The thread is in its own code, past its start.
InOwnCode == thread_at \in {"running", "suspending", "finishing", "exiting"}

\* Suspend stops the thread ("Suspends the specified thread.",
\* threading.h:487): once its signal has been delivered, the thread executes
\* its own code only with a count of zero.
SuspendStops ==
    Delivered /\ Alive /\ InOwnCode /\ ~in_handler
      => suspend_count_ = 0

\* A thread that was created running is stopped by every Suspend.
RunningThreadStops == ~create_suspended => SuspendStops

\* A thread held in a handler or in its own WaitSuspended has a suspend
\* count, or the token that lets it go: it never waits for a Resume that
\* already happened.
HeldHasReason ==
    Delivered /\ Alive /\ (in_handler \/ thread_at = "self_wait")
      => suspend_count_ > 0 \/ suspend_sem_ > 0

\* Every token in the semaphore is owed to one request to wait: what Suspend
\* and Resume exchange balances in every interleaving of callers, signal
\* delivery and handler ("Resume only posts once when count reaches 0",
\* threading_posix.cc:900).  A thread created suspended waits for its first
\* Resume elsewhere, and the token posted then is in excess ever after.
Requests ==
    pending + Cardinality(Killers)
            + (IF in_handler THEN 1 ELSE 0)
            + (IF thread_at = "self_wait" THEN 1 ELSE 0)

Excess == IF create_suspended /\ thread_at # "new" THEN 1 ELSE 0

TokensBalance ==
    Alive => Requests + Excess
               = suspend_sem_ + (IF state_ = "kSuspended" THEN 1 ELSE 0)

\* Resume's promise: "When the suspend count is decremented to zero, the
\* execution of the thread is resumed" (threading.h:483).
ResumedRuns ==
    suspend_count_ = 0 /\ Started
      ~> \/ thread_at = "running" /\ ~in_handler
         \/ suspend_count_ > 0 \/ ~Alive

\* A signal stopped the thread inside its section of mutex_, and no token lets
\* it go on.
StoppedHolding == in_handler /\ suspend_sem_ = 0 /\ MutexHeld

\* Terminate wins over suspension: the thread object becomes signaled and the
\* thread goes away even if it was held (threading.h:490-493), unless it was
\* held inside the section of mutex_ for which Terminate waits: then it stays
\* there for ever.
TerminateEnds ==
    (\E c \in Callers : caller_at[c] = "signal")
      ~> \/ signaled_ /\ thread_at = "exited"
         \/ []StoppedHolding

\* With TokensBalance, the inductive invariant: while nobody ends the thread,
\* it is marked suspended only with a suspend count (one created suspended gets
\* it a step later), a thread created running exactly then, and before its
\* start routine has run nothing has happened to it.
MarkedInv ==
    /\ thread_at \in {"gap", "parking", "parked", "unparking"} => create_suspended
    /\ cancelled => terminating
    /\ \A c \in Callers :
          caller_at[c] \in {"signal", "cancel"} => terminating
    /\ Alive =>
         /\ state_ # "kFinished"
         /\ state_ = "kSuspended" => suspend_count_ > 0 \/ thread_at \in {"gap", "parking"}
         /\ suspend_count_ > 0 => state_ = "kSuspended" \/ create_suspended
         /\ thread_at = "new" <=> state_ = "kUninitialized"

HostInv == HostTypeOK /\ TokensBalance /\ MarkedInv
=============================================================================
