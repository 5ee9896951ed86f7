---------------------------- MODULE GuestThread ----------------------------
(***************************************************************************)
(* A guest thread's suspension (XThread, kernel/xthread.cc, POSIX build)   *)
(* on top of its host thread (HostThread).                                 *)
(*                                                                         *)
(* Two counts are kept: the guest's, one byte in guest memory, and the     *)
(* host thread's.  Resume changes the guest count under suspend_mutex_     *)
(* with a plain read and write; Suspend adds to it atomically but without  *)
(* the mutex; SelfSuspend does not suspend the host thread at all, it      *)
(* waits on suspend_cv_ for the guest count to be zero.  The suspend       *)
(* signal of another thread can catch a self-suspending thread anywhere,   *)
(* also while it holds suspend_mutex_.                                     *)
(***************************************************************************)
EXTENDS HostThread

CONSTANTS
    GuestSuspended,     \* creation_flags has X_CREATE_SUSPENDED
    Creator,            \* the caller that runs XThread::Create
    MaxGuestSuspends,   \* BOUND on the guest's calls of Suspend
    MaxGuestResumes,    \* BOUND on the guest's calls of Resume
    Nobody              \* the holder of a free mutex

\* The bounds of the host thread leave room for every call of the guest.
ASSUME GuestThreadAssumption ==
    /\ GuestSuspended \in BOOLEAN
    /\ Creator \in Callers /\ "self" \notin Callers
    /\ Nobody \notin Callers \union {"self"}
    /\ MaxGuestSuspends \in 0 .. MaxSuspends
    /\ MaxGuestResumes \in Nat /\ MaxGuestResumes < MaxResumes

VARIABLES
    is_guest,        \* the thread belongs to an XThread, chosen once
    guest_count,     \* X_KTHREAD::suspend_count
    suspend_mutex_,  \* its holder
    woken,           \* suspend_cv_ was notified while the thread waits
    guest_at,        \* stage of each caller, and of the thread ("self")
    read,            \* the count each of them last read
    added,           \* history: additions to the count
    resume_calls     \* history: calls of Resume

tally == <<added, resume_calls>>
guest == <<guest_count, suspend_mutex_, woken, guest_at, read, tally>>
guestvars == <<is_guest, hostvars, guest>>

Actors  == Callers \union {"self"}
GuestAt == {"idle", "lock", "store", "check", "host_resume", "reread", "host_suspend",
            "waiting", "leaving"}

GuestTypeOK ==
    /\ is_guest \in BOOLEAN
    /\ guest_count \in Nat
    /\ suspend_mutex_ \in Actors \union {Nobody}
    /\ woken \in BOOLEAN
    /\ guest_at \in [Actors -> GuestAt]
    /\ read \in [Actors -> Nat]
    /\ added \in 0 .. MaxGuestSuspends
    /\ resume_calls \in 0 .. MaxGuestResumes

InitialCount == IF GuestSuspended THEN 1 ELSE 0

\* XThread::Create has made the host thread, always suspended (xthread.cc:416),
\* and, unless the guest asked for a suspended thread, goes on to resume it.
\* The emulator's other threads are host threads alone, created either way.
GuestInit ==
    /\ HostInit
    /\ is_guest \in BOOLEAN /\ (is_guest => create_suspended)
    /\ guest_count = InitialCount
    /\ suspend_mutex_ = Nobody
    /\ woken = FALSE
    /\ guest_at = [a \in Actors |->
          IF a = Creator /\ is_guest /\ ~GuestSuspended THEN "host_resume" ELSE "idle"]
    /\ read = [a \in Actors |-> 0]
    /\ added = 0 /\ resume_calls = 0

Goto(a, where) == guest_at' = [guest_at EXCEPT ![a] = where]
ReadCount(a) == read' = [read EXCEPT ![a] = guest_count]

\* A caller that can start a call, and the thread in its own code.
Free(c)     == guest_at[c] = "idle" /\ caller_at[c] = "idle"
SelfRuns    == thread_at = "running" /\ Executing

-----------------------------------------------------------------------------
(* XThread::Resume *)

ResumeBegin(c) ==
    /\ Free(c)
    /\ resume_calls < MaxGuestResumes
    /\ resume_calls' = resume_calls + 1
    /\ Goto(c, "lock")
    /\ UNCHANGED <<guest_count, suspend_mutex_, woken, read, added, hostvars>>

ResumeRead(c) ==
    /\ guest_at[c] = "lock"
    /\ suspend_mutex_ = Nobody
    /\ suspend_mutex_' = c
    /\ ReadCount(c)
    /\ Goto(c, "store")
    /\ UNCHANGED <<guest_count, woken, tally, hostvars>>

ResumeStore(c) ==
    /\ guest_at[c] = "store" /\ c # "self"
    /\ guest_count' = IF read[c] > 0 THEN read[c] - 1 ELSE guest_count
    /\ Goto(c, "check")
    /\ UNCHANGED <<suspend_mutex_, woken, read, tally, hostvars>>

\* Fault: nobody is notified.
ResumeCheckSilent(c) ==
    /\ guest_at[c] = "check"
    /\ suspend_mutex_' = Nobody
    /\ Goto(c, IF guest_count = 0 THEN "host_resume" ELSE "idle")
    /\ UNCHANGED <<guest_count, woken, read, tally, hostvars>>

\* Fault: the early return keeps the mutex.
ResumeCheckKeepsMutex(c) ==
    /\ guest_at[c] = "check"
    /\ woken' = (guest_at["self"] = "waiting")
    /\ suspend_mutex_' = IF guest_count = 0 THEN Nobody ELSE c
    /\ Goto(c, IF guest_count = 0 THEN "host_resume" ELSE "idle")
    /\ UNCHANGED <<guest_count, read, tally, hostvars>>

ResumeCheck(c) ==
    /\ guest_at[c] = "check"
    /\ woken' = (guest_at["self"] = "waiting")
    /\ suspend_mutex_' = Nobody
    /\ Goto(c, IF guest_count = 0 THEN "host_resume" ELSE "idle")
    /\ UNCHANGED <<guest_count, read, tally, hostvars>>

ResumeHost(c) ==
    /\ guest_at[c] = "host_resume"
    /\ Resume(c)
    /\ Goto(c, "idle")
    /\ UNCHANGED <<guest_count, suspend_mutex_, woken, read, tally>>

-----------------------------------------------------------------------------
(* XThread::Suspend, by another thread and (KeSuspendThread) by itself *)

SuspendAdd(a) ==
    /\ IF a = "self" THEN SelfRuns /\ guest_at[a] = "idle" ELSE Free(a)
    /\ added < MaxGuestSuspends
    /\ guest_count' = guest_count + 1
    /\ added' = added + 1
    /\ Goto(a, "reread")
    /\ UNCHANGED <<suspend_mutex_, woken, read, resume_calls, hostvars>>

SuspendReread(a) ==
    /\ guest_at[a] = "reread"
    /\ a = "self" => SelfRuns
    /\ Goto(a, IF guest_count = 0 THEN "idle" ELSE "host_suspend")
    /\ UNCHANGED <<guest_count, suspend_mutex_, woken, read, tally, hostvars>>

\* The thread itself has begun Thread::Suspend; the section is a step of
\* HostThread.
SuspendHost(a) ==
    /\ guest_at[a] = "host_suspend"
    /\ IF a = "self" THEN SuspendSelf ELSE Suspend(a)
    /\ Goto(a, "idle")
    /\ UNCHANGED <<guest_count, suspend_mutex_, woken, read, tally>>

-----------------------------------------------------------------------------
(* XThread::SelfSuspend (NtSuspendThread on the calling thread) *)

SelfRead ==
    /\ SelfRuns
    /\ guest_at["self"] = "idle"
    /\ added < MaxGuestSuspends
    /\ added' = added + 1
    /\ suspend_mutex_ = Nobody
    /\ suspend_mutex_' = "self"
    /\ ReadCount("self")
    /\ Goto("self", "store")
    /\ UNCHANGED <<guest_count, woken, resume_calls, hostvars>>

\* Add one and wait, releasing the mutex.
SelfStore ==
    /\ SelfRuns
    /\ guest_at["self"] = "store"
    /\ guest_count' = read["self"] + 1
    /\ suspend_mutex_' = Nobody
    /\ woken' = FALSE
    /\ Goto("self", "waiting")
    /\ UNCHANGED <<read, tally, hostvars>>

\* The wait returns with the mutex, and tests the predicate.
SelfWake ==
    /\ SelfRuns
    /\ guest_at["self"] = "waiting" /\ woken
    /\ suspend_mutex_ = Nobody
    /\ woken' = FALSE
    /\ IF guest_count = 0
       THEN suspend_mutex_' = "self" /\ Goto("self", "leaving")
       ELSE UNCHANGED <<suspend_mutex_, guest_at>>
    /\ UNCHANGED <<guest_count, read, tally, hostvars>>

SelfReturn ==
    /\ SelfRuns
    /\ guest_at["self"] = "leaving"
    /\ suspend_mutex_' = Nobody
    /\ Goto("self", "idle")
    /\ UNCHANGED <<guest_count, woken, read, tally, hostvars>>

\* The guest's code returns, and the start routine goes on; Terminate is left to HostThread.
GuestFinish ==
    /\ guest_at["self"] = "idle"
    /\ Finish
    /\ UNCHANGED guest

-----------------------------------------------------------------------------

HostSteps ==
    /\ ThreadStep \/ \E c \in Callers : CallerStep(c)
    /\ UNCHANGED guest

\* Suspended, resumed and terminated without an XThread.
PlainNext == HostNext /\ UNCHANGED guest

CallSteps(a) ==
    \/ a # "self" /\ (ResumeRead(a) \/ ResumeStore(a) \/ ResumeCheck(a) \/ ResumeHost(a))
    \/ SuspendReread(a) \/ SuspendHost(a)
    \/ a = "self" /\ (SelfStore \/ SelfWake \/ SelfReturn)

XThreadNext ==
    \/ HostSteps \/ GuestFinish \/ SelfRead \/ SuspendAdd("self")
    \/ \E c \in Callers : ResumeBegin(c) \/ SuspendAdd(c)
    \/ \E a \in Actors : CallSteps(a)

GuestNext ==
    /\ UNCHANGED is_guest
    /\ IF is_guest THEN XThreadNext ELSE PlainNext

\* Every thread that can take its next step takes it; nobody has to make a
\* call, and the guest's code need not return.
GuestSpec ==
    /\ GuestInit /\ [][GuestNext]_guestvars
    /\ WF_guestvars(ThreadStep /\ UNCHANGED <<is_guest, guest>>)
    /\ \A c \in Callers : WF_guestvars(CallerStep(c) /\ UNCHANGED <<is_guest, guest>>)
    /\ \A a \in Actors : WF_guestvars(is_guest /\ CallSteps(a) /\ UNCHANGED is_guest)

-----------------------------------------------------------------------------
(* Properties *)

\* No wake-up is lost: a self-suspended thread whose count has gone to zero
\* was notified, although Suspend changes the count without the mutex.
NoLostWakeup ==
    guest_at["self"] = "waiting" /\ guest_count = 0 /\ suspend_mutex_ = Nobody
      => woken

\* The suspend signal finds in a guest thread, always created suspended, the
\* token of the Resume that started it: the handler returns at once.
HandlerReturns == is_guest /\ Alive /\ in_handler => suspend_sem_ > 0

\* All variables have their types, no wake-up is lost, and a signal stops no
\* guest thread for long, also not where it holds suspend_mutex_.
GuestInv == GuestTypeOK /\ NoLostWakeup /\ HandlerReturns

\* SelfSuspend returns when the count reaches zero (xthread.h:490), even if
\* others suspended the thread meanwhile; and the calls of Resume and Suspend
\* by other threads return: nobody waits for ever for suspend_mutex_, although
\* the signal may stop its holder.
CallsReturn ==
    /\ guest_at["self"] = "waiting" /\ guest_count = 0
         ~> guest_at["self"] # "waiting" \/ guest_count > 0
    /\ \A c \in Callers : guest_at[c] # "idle" ~> guest_at[c] = "idle"
=============================================================================
