# A verification project for Shad360's emulator core

Shad360 is a fork of the Xenia Canary emulator (C++, `src/src/backend`) with a C#
front end (`src/src/frontend`). The modules in this directory model the parts of
its core whose correctness depends on the order in which threads act: the host
synchronisation layer, the guest kernel's threads and locks, the kernel's
handles and object lifetimes, the resolution of guest functions and the presenter. TLC checks each module on small instances, and
TLAPS proves the most important results for every value of the constants.

Paths below are relative to `src/src/backend/src/xenia` unless they start with `src/`.

- [Inventory](#inventory)
- [Modules and how they correspond to the code](#modules)
- [Runs](#runs)
- [What the violated runs show](#disagreements)
- [Proofs](#proofs)
- [What is only model-checked, and what is not modelled](#limits)
- [Plan](#plan)

To repeat a run: `tlc -config TimerQueueMC.cfg TimerQueueMC`. To check the proofs of a
component: `tlapm TimerQueueProofs.tla`, and likewise for the seven other modules whose names end in `Proofs`.
`PROJECT.json` lists all runs with their properties, the source lines of each
definition, and the theorems.

## Inventory

### The layers

1. **Host layer** (`base/`). Threads, waitable objects (events, semaphores,
   mutants, timers) and one timer queue, each written per platform; this project
   follows the POSIX build. `base/mutex.*` has the mutex of the *global critical
   region* every kernel table is locked with.
2. **Guest kernel** (`kernel/`). `XObject` wraps a host object or a file, module,
   enumerator...; the object table maps handles to objects; `xboxkrnl/` and `xam/`
   are the exports guest code calls. Guest threads run on host threads and call
   down through the exports concurrently.
3. **CPU** (`cpu/`). Translates PowerPC functions on first call; several threads
   may ask for one function at once.
4. **Devices** (`gpu/`, `apu/`, `hid/`, `vfs/`). Worker threads that consume rings
   and registers guest threads write.
5. **Application** (`ui/`, `app/`, `emulator.cc`, `patcher/`, `debug/`, front end).

### Components, state, operations, hard parts

| Component | State | Operations | What is hard | What makes it correct |
|---|---|---|---|---|
| Timer queue (`base/threading_timer_queue.*`) | ring of 512 slots, sorted wait list, one atomic state per item, shutdown flag | queue, disarm, dispatch loop, destructor | Disarm against a callback that is about to start, running or rearming; disarm from inside the callback; slot reuse; shutting down a sleeping dispatcher | no callback after Disarm returned, dead timers stay dead, nothing lost or fired twice, timers fire, Disarm and the destructor return |
| Global mutex (`base/mutex.*`) | futex word, owner, recursion count | lock, try_lock, unlock | wake-ups, reading the owner without the lock | exclusion, recursion only by the owner, no lost wake-up |
| Host wait objects (`base/threading_posix.cc`, `kernel/xtimer.*`) | signal/count/owner, mutex and condition variable per object, wait item of a timer | set, reset, pulse, release, set and cancel a timer, wait, wait on several, signal and wait | wait-all by try-lock and back-off, notification against time-out, a timer set anew while it expires, abandonment | units conserved, mutants exclusive, no missed signal, no stale expiration, waits end |
| APC queues (`xboxkrnl_threading.cc`, `kernel/util/native_list.h`) | two lists per thread, linked in guest memory; a flag per APC | initialise, queue, remove, deliver, run down | delivery releases the lock for each APC; an APC queues, waits or exits; rundown without the lock | lists stay linked, each APC once and in order, freed exactly once |
| Host threads (same file) | state, suspend count, semaphore, pending signal | start, suspend, resume, terminate | the signal is sent after the state changed; two different places to wait | a suspended thread stands still, a resumed one runs, tokens balance |
| Guest threads (`kernel/xthread.*`) | guest suspend count, mutex, condition variable over the host thread | Suspend, Resume, SelfSuspend, Create, Exit | two counts changed at different rates, one of them without the mutex | counts exact, no lost wake-up, calls return |
| Reader-writer lock (`xboxkrnl_threading.cc`) | four counters, event, semaphore | acquire, try, release | hand-over in flight after the spin lock is left | exclusion, exact counts, everybody enters |
| Object table and lifetime (`kernel/util/object_table.*`, `kernel/xobject.*`, `xboxkrnl_ob.cc`) | slots with counts, names, per-object handle list and pointer count | create, open by name, duplicate, reference, close, purge | two counts per object, look-ups used after the lock is left, slot reuse | counts exact, no use after free, owned handles stay open |
| Kernel state (`kernel/kernel_state.*`) | modules, threads by id, listeners, deferred work | launch, terminate title, notify, dispatch | iterating while the lock is dropped, work deferred to a thread that stops | every deferred call runs once, termination leaves nothing |
| Kernel events, semaphores, mutants | host object, guest dispatch header | set, release, wait callback, save, restore | header and host object must agree, restore order | same promises as the host objects |
| Notify listeners | list of notifications, event | enqueue, dequeue, save, restore | event against list, replayed start-up notifications | event set exactly when the list is not empty |
| RTL critical sections, spin locks, SLists, DPCs (`xboxkrnl_rtl.cc`, `xboxkrnl_threading.cc`) | guest words and lists | enter, leave, push, pop, queue | compare-and-swap on guest memory, ABA | exclusion, nothing lost or delivered twice |
| Guest memory (`memory.*`) | page tables of the heaps | alloc, protect, release, restore | ranges, alignment, physical mirrors | pages belong to one region |
| Processor and code cache (`cpu/processor.*`, `cpu/entry_table.*`, `cpu/module.*`, `cpu/backend/code_cache_base.h`) | entry, symbol, code and indirection per function, breakpoints, execution state | resolve, compile, place, patch, load, unload, pause, step | one compiles and others poll in two places; failed compiles; threads that die while compiling; code that outlives its module | every function compiled once, one answer for all, code complete and current, waiters return |
| GPU command processor (`gpu/command_processor.*`) | ring pointers, worker, pending functions | initialise, write pointer, call in thread, pause, restore | pointer writes race the worker, shutdown | all commands executed in order, calls return |
| Shared memory (`gpu/shared_memory.*`) | valid bit per page, watches | request range, invalidate | CPU writes while uploading | a valid page is current |
| Audio and XMA (`apu/`) | clients, semaphores, contexts, worker | register, submit, pause, shut down | client removed while its callback runs | no callback for a removed client |
| Presenter (`ui/presenter.*`) | mailbox of three images, paint mode, connection to the surface, request flag | refresh, capture, paint from two threads, connect, request | producer and consumers swap images without a lock; painting passes between threads; requests while painting | images complete and newest, one painter, the screen never goes back and catches up |
| Windowed application context (`ui/windowed_app_context.*`) | pending functions | call in UI thread, quit | synchronous calls during shutdown | every synchronous call returns |
| XAM, loaders, VFS, HID, patcher, tools, front end | files, registries, dialogs | parse, read, draw | I/O and formats | outside this project |

How they interact: guest threads call exports, which look an object up in the
object table under the global critical region, keep a pointer and work on it
outside the lock; waits go down to the host wait objects; `PosixCondition<Timer>`
registers a callback with the timer queue, which signals the timer's condition from
the dispatch thread; suspension goes from an export through `XThread` to the host
thread and, by a signal, into the target's handler. Guest code that reaches an address
without code resolves it, under the global critical region at some points and without at others;
the debugger patches what comes out. The GPU's thread refreshes the presenter's images, which it or the UI
thread paints. `hazards` in `PROJECT.json`
lists where these interactions can go wrong, by line, with the property that would
catch it or the reason none does yet.

## Modules

Ten specification modules (`TimerQueue`, `HostThread`, `GuestThread`, `ReadWriteLock`,
`ObjectTable`, `GlobalMutex`, `WaitObjects`, `ApcQueue`, `FunctionResolution`, `Presenter`), five
abstract specifications (`TimerContract`, `RecursiveLock`, `ApcContract`, `ResolutionContract`,
`LatestFrame`), four modules of instances (`...MC`) and eight of proofs (`...Proofs`). All are written
the same way: state as in the code (names kept, with the trailing underscore of members), one action per step
that other threads can observe, a stage per thread for the code between two such
steps. A section under a mutex is one action; reads, stores and calls outside one
are actions of their own. Definitions that begin with `\* Fault:` are
*not* part of any specification: they are plausible bugs, used to confirm that each
property would notice one.

### TimerContract, TimerQueue, TimerQueueMC, TimerQueueProofs

`TimerContract` is what the header promises (`threading_timer_queue.h:38-45`): a
timer is armed, fires, may be rearmed or disarm itself, and once `Disarm` returned to
another caller it is dead and its callback's memory may be freed (`freed`).
`TimerQueue` is the code. `state`, `due`, `wait_queue`, `shutdown` and the ring
(`claimed`, `published`, `buffer`, `next_sequence`) are the members; `rearmed` is the
local `wait_items` list of the second block, `current` the local `wait_item`.

| Code | Actions |
|---|---|
| `QueueTimer` | `QueueTimer` (due time, claim) and `Publish` (room, store, publish) |
| `Disarm` | `BeginDisarm`, then `SelfDisarm` (first compare-exchange) or `Disarm` (the one the loop ends with; spinning is not a step) |
| `TimerThreadMain` | `CheckShutdown`, `Consume`/`WaitTimeout`, `Invoke`, `CallbackReturn`, `AfterCallback` (the load), `Rearm`/`Retire` (the stores), `EndScan` |
| `~TimerQueue` | `Shutdown`, `QueueKick`, `Publish`, `Join` |

A callback is the dispatch thread in stage `callback`: there it may queue and
disarm like any client. The ring is the disruptorplus submodule, whose sources are
not in the repository; claiming, publishing and waiting for a contiguous prefix are
modelled from how this file uses them. The sorted list is a set from which any item
of least due time is taken, which covers all orders of ties. The weak
compare-exchange may fail without reason, which only repeats the loop.

### HostThread, GuestThread, ThreadProofs

`HostThread` is `PosixCondition<Thread>`. The suspend signal is sent after `state_mutex_` was
released and stops its target anywhere (`TakeSignal`), also while the target holds its own
`state_mutex_` or `mutex_`. Each section of the thread's own code is therefore two actions, one that locks and
one that does the work and unlocks: `Park`/`ParkWait`, `Unpark`/`BeginRoutine`, `SuspendSelf`/`SuspendSelfMark`,
`Finish`/`FinishMark`, `Exit`/`ExitMark` under `state_mutex_` (`StateMutexHeld`), `SignalExit`/`SignalExitDone` under `mutex_`
(`MutexHeld`). `Start` is one step, since no signal can be sent before it (`WaitStarted`). The sections of callers (`Resume`,
`Suspend`, `Terminate`, `TerminateSignal`) are one action that needs the mutex free: callers are not suspended in this
model. `pthread_kill` (`Kill`), both returns from `sem_wait` (`LeaveHandler`, `LeaveSelfWait`) and `pthread_cancel`
(`TerminateCancel`, with `Cancelled` for its effect: the thread sets asynchronous cancellation, so it goes from anywhere)
are actions of their own. `pending` counts queued real-time signals. `create_suspended` is the creation parameter, chosen
once. `suspends`, `resumes`, `terminating` are history.

`GuestThread` extends it with `XThread::Suspend`, `Resume` and `SelfSuspend`. The
guest count is a byte in guest memory; `ResumeBegin`..`ResumeHost` are the steps of
`Resume` (lock, read, store, test and notify, host call), `SuspendAdd`..`SuspendHost` those
of `Suspend` (atomic add, second read, host call), `SelfRead`..`SelfReturn` those of
`SelfSuspend`. A thread that is in the signal handler takes none of its own steps,
also while it holds `suspend_mutex_`: `SelfRuns` is in the guard of each. The decrement
and increment of the count by `Resume` and `SelfSuspend` are plain, so they are a
read and a store. `is_guest`, chosen once, says whether the thread belongs to an `XThread`; if not, others
call the host thread directly. One run therefore covers both.

Guest threads are always created suspended (`xthread.cc:416`), so the token that `host_thread_suspend_fails` is about is in
their semaphore for good, and the signal's handler returns at once: `HandlerReturns`, a part of `GuestInv`, says so. That is why a guest
thread is never stopped for long inside a critical section, and why `ResumedRuns` and `CallsReturn` exercise the
hand-over of tokens on host threads and, for guest threads, the counts, the mutex and the condition variable only.

### ReadWriteLock, LockProofs

The seven `Ex...ReadWriteLock...` exports. Every section under the guest spin lock is one
action; `SetEvent` and `ReleaseSemaphore` are the calls made after it, `EnterExclusive` and
`EnterShared` the ends of the waits. Counters are unsigned and wrap (`Wrap`);
`Modulus` stands for 2^32.

### ObjectTable, ObjectTableMC, ObjectTableProofs

`table` has an object and a reference count per slot; `handles_` and
`pointer_ref_count_` are the members of `XObject`. Each `ObjectTable` operation is
atomic under the global critical region; an export is a sequence of them, with the
`object_ref` it holds in `pin` and the handle in `arg`. `Handle0` is `handles_[0]`,
and `stale` what that word still holds after the vector was emptied, since the code
reads it without a check. `owned`, `owner` and `referenced` are what the guest was
given and has not given back: a guest closes what it owns and nothing else. Of the
table's two halves the guest half is modelled; handles are slot numbers, because
`slot << 2` plus a base is undone by every user. `purged` is history too: what was in the
table when a title ended. `ObReferenceObjectByHandle` counts in the slot of the object's first
handle, `ObDereferenceObject` in the slot stashed in the dispatch header; when these are
different slots the counts part. `Unmixed` is the bound that keeps them the same in the runs
(`MayMix = FALSE`), see [Disagreements](#disagreements). `NameOf` gives each object its name, or none, and is
chosen once from `Namings`. `MayRace = FALSE` lets a call begin only while no other is under way
if there are names, which keeps the finding of `object_table_race` out of the other run.
`LifetimesAreExact` is `PointersAreExact` (the pointer count of an object is the number of its slots, pins and guest
pointers) and `NoUseAfterFree`; `OTInv` is the types and `HandlesAgree`.

### RecursiveLock, GlobalMutex, LockProofs

`GlobalMutex` is `xe_global_mutex`, with one action per atomic operation, store and
system call; `Spin` stands for the 128 tries. `futex_wait` compares and sleeps in one
step, as the system call does, and may return without reason (`SpuriousWakeup`).
`RecursiveLock` is the abstract lock it implements. `xe_fast_mutex` (`mutex.cc:191-248`)
is the same algorithm on the word, without `owner_` and `recursion_count_`. `Callers` are the threads and `point` is where
each is; these and other names differ from those of `ReadWriteLock` because `LockProofs` extends both.

### WaitObjects, WaitObjectsMC, WaitObjectsProofs

Events, semaphores, mutants and timers with `Wait`, `WaitMultiple` and `SignalAndWait`. The
`kind` of each object is chosen when it is created, from `Creations`. `count_` is `signal_`
(0 or 1) or `count_`. A section that locks one object and unlocks it again is one action. The release of a mutant is
three: it reads `owner_` (`BeginRelease`, `ReleaseMutant`) and `count_` (`TestCount`) without the mutex, and then locks and decrements, whoever
holds the mutant by then (`SignalMutant`). `owner_` outlives the last release, so a former owner gets past the first
test; `surplus` is the mutants somebody went to release without holding them, and a count that is decremented at zero stands below zero
for the number below 2^32 it wraps to.
`WaitMultiple` takes its locks one at a time (`Lock`), gives them back when one is busy
(`BackOff`), decides with all held (`Poll`) and sleeps (`PollAgain`); `mutex_` has who holds what
meanwhile. `SignalAndWait` is the signal (for a mutant, the steps of its release) and the wait; when the signal fails, nothing
happens. `Die` ends a thread, whatever it owns.

A timer is `PosixCondition<Timer>` as `XTimer` uses it. `SetTimer` cancels the old wait item, which
waits for a completion under way (`Disarmed`: what `TimerContract` promises), and `Arm` resets the
signal and queues anew under the mutex; `XTimer` holds `timer_lock_` over both (`TimerUnlocked`).
The one dispatch thread takes a due timer (`Expire`; due times are abstracted, any set timer may
be due), signals it (`Complete`) and runs the callback (`RunCallback`).

### ApcContract, ApcQueue, ApcQueueProofs

`ApcContract` is what a queue of APCs promises: first in, first out, each handed out once, to
the running thread or, when it exits, for rundown. `ApcQueue` has the two lists of a thread as
they are in guest memory, `flink` and `blink` of heads and entries, and the flag of each APC.
Sections under `apc_lock` are one action. `at` is where the thread is: `created`, `guest` (guest
code, also inside an APC routine), `scan` (in `xeProcessUserApcs`, about to look at the list under the lock), `taken` (an APC
removed, the lock released, its routine not yet run), `rundown` (walking the yanked list without
the lock), `kernel_rundown`, `gone`. `in_hand` is the APC an actor has allocated in
`NtQueueApcThread` and not yet inserted. The refinement mapping makes one queue of the user list
while it is linked and of the rest of the chain while it is run down.

### ResolutionContract, FunctionResolution, FunctionResolutionMC, FunctionResolutionProofs

`ResolutionContract` is what `Processor::ResolveFunction` promises: while a module is loaded an address has
one outcome, everybody who asks gets it, and it is worked out only when somebody asks.
`FunctionResolution` is the code between the call and the jump, per thread:

| Code | Actions |
|---|---|
| `EntryTable::GetOrCreate` | `GetOrCreate` (a new entry is the caller's to work on, one being compiled is waited for) |
| `LookupFunction`, `Module::DeclareSymbol` | `LookupFunction` and `Declare`: the symbol is created under the lock and declared outside it |
| `DemandFunction`, `Module::DefineSymbol` | `DefineSymbol`, `AwaitDefinition`, and at the end `OnFunctionDefined`, `Define` |
| translation, `PlaceGuestCode`, `Setup` | `LookupCallee`/`DeclareCallee` for each function called, `PlaceGuestCode`, `Setup`, or `TranslationFails` |
| end of `ResolveFunction` | `Finish` or `Fail`, then `Return` |
| `PrecompileKnownFunctions` | `Precompile`, `Probe`, `DeclareProbe` |
| breakpoints | `AddBreakpoint` (holds the global lock while it resolves: `holder`), `RemoveBreakpoint` |
| modules, threads | `Load` (resets the indirection table), `Unload`, `Die` |

`code`, `indirection` and `patched` have the number of the load they belong to, so that code of an earlier load is
told from the present one's. `mistaken` is history: the addresses a waiter took for defined when they had only been
declared. The translation itself is one step per callee and one for the code.

### LatestFrame, Presenter, PresenterProofs

`LatestFrame` is what the mailbox promises: consumers take the newest frame published, and the screen
never goes back. `Presenter` has the guest output thread (`Refresh`, `Refreshed` or `RefreshFails`, `Publish`,
`NextWritable`, `Trigger`), any consumer (`Consume`, `EndRead`; capturers begin with `Capture` and end with `EndCapture`), painting by either thread
(`Present`), the request of a paint (`Exchange` of the flag, then `Invalidate`), and the UI thread's part: the surface
(`LoseSurface`, `GetSurface`, `Resize`, `Reconnect`), configuration and drawers (`Configure`, `ChangeDrawers`, `RunDrawers`), and
`PaintFromUIThread` in five steps (`OnPaint`, `TakePainting`, `Connect`, `Settle`, `Finish`, around `Consume` and `Present`). The acquired and
ready indices are one atomic word, exchanged in one action; `writable_` and the image being refreshed are the
producer's own. Between two writes of `paint_mode_` by the UI thread the guest thread holds
`paint_mode_mutex_` while it paints or asks for a paint (`GuestHoldsPaintMode`). An image has the number of
its frame, or `Torn` from the beginning of a refresh to its end; `active` is `IsActive()` of its properties; `shown` and `shown_ui` are what
is on the screen.

A consumer holds the consumer mutex only to acquire an image and copy a reference to it (`vulkan_presenter.cc:232-246`,
`1512-1530`): `EndRead` releases the mutex, `held` is the reference, and the copying or drawing happens later (`EndCapture`,
`Present`), with whatever is in the image then (`Found`). If another consumer has acquired a newer image in between, the
old one may become the writable one and be refreshed under the reader. `overtaken` is the consumers to whom that can
happen, and `painted` the last frame that was painted by somebody who was not overtaken. `Refresh` may begin also when
`MaxFrames` frames are complete, so the last frame, too, is drawn while another is being written.

## Runs

All runs finish within three minutes on two workers; state counts are of distinct states.

| Run | Instance and bounds | States | Shows |
|---|---|---|---|
| timer_queue | one-shot and recurring item, 2 clients + dispatcher, ring of **one** slot, clock to 2, callbacks that disarm twice | 197,280 | no callback after `Disarm`, nothing lost, the contract is implemented; timers fire, `Disarm` and the destructor return |
| threads | a host thread created running or suspended with 2 callers, 3 suspensions, 3 resumptions, termination; or a guest thread with 2 callers and itself, 2 suspensions, 2 resumptions | 210,128 | counts, signals and tokens balance; a suspended thread stands still, a resumed one runs, a terminated one ends; no lost wake-up, no guest thread held by the signal; all guest calls return |
| host_thread_suspend_fails | 1 caller, 1 suspension, 1 resumption | violated | the first suspension of a thread created suspended |
| read_write_lock | 3 writers, 4 readers, two threads are both | 985 | exclusion, counts, hand-over, order, everybody enters |
| object_table | 2 threads, 2 objects with no name or one name, 4 slots (two growths), all calls on handles, titles end | 2,550,960 | counts, lifetimes, slots; names lead to open handles |
| object_table_race | 2 threads create by the same name | violated | the handle that is gone |
| global_mutex | 4 threads, 6 calls, nesting of 2 | 69,029 | exclusion, no lost wake-up, refinement, every call returns |
| wait_objects | 2 threads; two events, semaphores or mutants of every pair of kinds, or two timers; waits on one and, in both orders, on both; 2 signals | 721,466 | conservation, exclusion, no stale expiration, no missed signal; waits end |
| apc_queue | 2 other threads that queue, 2 allocated APCs and one of the guest, processing nested to 2 | 56,477 | lists, order, one delivery and one free per APC |
| function_resolution | 2 threads and the debugger, two functions that call each other, 2 loads, 1 breakpoint at a time, 1 terminated thread | 271,574 | one worker per function, what is ready can be called, code is stable, one answer for all, calls return |
| function_resolution_race | 2 threads, one load | violated | a function that has no code is handed out |
| presenter | 3 frames and attempts at a fourth, guest, UI and one capturing thread, 2 changes of surface, drawers or failed paints | 2,090,957 | complete, newest frames; one painter; the screen never goes back and catches up |

**Why the bounds are enough.** A ring of one slot makes every second publication wait
and every sequence wrap; two items show ties, rearming and both kinds of ends. Three
calls of Suspend reach nested suspension, a second suspension after a resumption
with the old signal still pending, and self-suspension against another's. Three
threads are needed for a futex hand-over with a third party taking the word; four are
used. Two growths of the table wrap the search from `last_free_entry_`. Two
signals fill a semaphore of two, let two waiters race for one unit, or let a repeating timer expire
again. Two allocated APCs and one of the guest give lists of three entries, a special one among them,
so that insertion before the head, in the middle and at the tail all occur. Three frames use each of the three
images, and the refresh of a fourth writes the first again; two events are a loss of the surface and its return while a paint is under way, or a drawer added while
the connection is outdated. Two functions that call each other are the smallest circle of waits, two
loads let code outlive its module, and with a debugger two threads make three that resolve the same
address: one compiles, one waits for the entry and one for the symbol. A writer hand-over
needs a holder, a waiting writer and a late reader; `Modulus` is larger than any honest
count can get, so that a wrap is visible as such. Bounds are constants marked
`BOUND` or guards with that comment; they limit how often clients call, never what a
call in progress may do. Symmetry (threads, objects) is used only in the large
object-table run, which checks no liveness property. `MayQueueLate = FALSE` says that nobody queues to a
thread that has begun to exit (see the observations). Timers are not signaled by hand.

**What the properties set aside**, by name. `Stuck` in `TimerQueue` is one of two states. `StuckForRoom`: the dispatch
thread queues from a callback into a full ring, or somebody queues after it has left; nobody else can make
room. `SpinsOnItself`: a callback disarms its own timer a second time. `CountWrapped`: a release has decremented
a reader count of zero. `RunningThreadStops` is about threads created running. `LockedOut`: the debugger
waits for a function with the global lock held. `Abandoned`: a terminated thread was working on a function.
`mistaken`: see above. `StoppedHolding`: the signal stopped a thread inside its section of `mutex_`, for which `Terminate`
waits. `surplus`: a former owner went to release a mutant it did not hold. `overtaken`: a consumer works on an image while
another has acquired a newer one (`ScreenCatchesUp` has no such exemption: what an overtaken painter draws does not stay). `refused`: the frame the system declined to present although the connection is fine; the code
waits for the next one. In each of these the same property without the exemption fails. Bounds that keep
behaviours out altogether are `Unmixed` (`MayMix`), `MayRace` and `MayQueueLate`.

**Deadlock.** Runs say `CHECK_DEADLOCK FALSE` where clients run out of calls or the clock
stops, which is a legal end. Waiting that should not last is a liveness property instead
(`DisarmReturns`, `CallsReturn`, `EveryCallReturns`, `WaitsEnd`...).

**Fairness.** Threads of the host are preemptively scheduled, so a step that stays possible is
taken: weak fairness for the dispatch loop, callers inside a call, signal delivery,
and the clock. Nobody is obliged to make a call, to queue, to disarm or to
suspend. Strong fairness appears where a resource is free again and again and the
code relies on the operating system to hand it out: the mutexes of wait objects and
the single permits of the reader-writer lock; and for a callback, which returns after
finitely many calls, each of which interrupts it. In `GlobalMutex` whoever nests also
unwinds. In `ApcQueue`
only the rundown of an exiting thread is obliged to go on. In `WaitObjects` a thread that backs off yields first
(`std::this_thread::yield`) and a mutex that is free again and again is obtained (`Contended`).
In `FunctionResolution` a thread that lives goes on and obtains the
lock if it is free again and again (strong fairness); nobody has to call, load or set a breakpoint. In `Presenter` calls that
have begun go on, the window system calls `OnPaint` of a window that is invalid, and painters obtain the consumer
mutex; nobody has to refresh a frame.
Even so a poller of `WaitObjects` may be obstructed for ever by another that polls in vain, or by an endless series of other
calls under unlucky scheduling: `std::mutex` and `try_lock` are not fair. `WaitsEnd` therefore speaks of
groups: of the threads that poll while all their conditions are met, somebody returns, and a wait
on a single object that stays signaled ends.

## Disagreements

Three runs are violated, each against a sentence of the repository quoted in `findings`:

- **host_thread_suspend_fails**: starting a thread created suspended leaves one token in
  `suspend_sem_`, so the next `Suspend` does not stop it (`base/threading_posix.cc:871`).
- **object_table_race**: opening by name gives the reference up before it takes its own, and the
  creator may close the handle in between (`kernel/xboxkrnl/xboxkrnl_threading.cc:83`).
- **function_resolution_race**: a new symbol looks as if it were being defined until its creator has declared
  it, so a thread that finds it meanwhile waits, is let go by the declaration, and hands out a function nobody has
  compiled (`cpu/symbol.h:53`, against the comment at `cpu/processor.cc:340`).

Further observations, made while modelling. The modules have these behaviours, or a named bound
excludes them; no run is about them:

- A second `Disarm` of the own item in one callback spins for ever (`SpinsOnItself`); no
  callback in the repository does that. The safety theorems hold with it.
- The suspend signal may stop a thread inside its own section of `state_mutex_` or `mutex_`, for instance when it is
  ending (`threading_posix.cc:1335`, `1340`): then `Resume` and `Suspend` wait for the mutex of a thread that only
  `Resume` lets go, and `Terminate` waits at line 937 and never cancels it (`StoppedHolding`). The comment of
  `WaitSuspended` (`965-968`) claims that it can be called from the handler "without risking deadlock", which is true of the handler's own
  calls only. Guest threads are safe from it, by their spare token.
- `Mutant::Release` tests `owner_` and `count_` before it locks (`threading_posix.cc:481`), and `owner_` stays after the last
  release. A thread that releases once more than it acquired can pass both tests while another acquires the mutant, and
  takes it away from the new holder; if that one releases first, `count_` wraps around and the mutant is
  lost. `base/threading.h:350-351` says: "Returns false if the calling thread does not own the mutant object."
- Consumers use an image after they have left the consumer mutex, which `vulkan_presenter.cc:244-245` and `1526-1529` call safe because
  a reference was counted; `presenter.cc:609-610` says that the mutex "needs to be held by the consumer while working with
  anything that depends on the image". The reference keeps the image alive but not unchanged: once another consumer has acquired a
  newer one, the guest may write it while it is captured or drawn. It takes two consumers, so it can happen only with a
  capture (`PaintersAlone`). The model takes an image as torn for the whole of a refresh; where drawing and refreshing are
  submitted to one GPU queue, its order narrows or hides this.
- A hand-over between writers with no reader decrements a reader count of zero and wakes nobody
  (`xboxkrnl_threading.cc:1815`, `CountWrapped`).
- A `Resume` between the two sections of the start routine of a thread created suspended is lost
  (`Start`, `Park`).
- Guest and host suspend counts drift apart when suspensions nest, as `XThread::Resume` calls the
  host only for the last one while `Suspend` calls it each time it finds the count non-zero: the
  host thread may stay parked. `XThread::Suspend` adds to the guest count outside the mutex, so
  the addition can be overwritten (`SuspendAdd` between `ResumeRead` and `ResumeStore`).
- `DUPLICATE_CLOSE_SOURCE` removes a handle whatever its count, which `RemoveHandle` asserts
  to be zero (`CloseSource`).
- `PurgeAllObjects` zeroes a count and then decrements it, so no handle is removed: what was in
  the table keeps one pointer (the `purged` term of `PointersAreExact`).
- A reference by pointer is taken in the slot of one handle and given back in another's when the
  object has several, or after its first was closed (`Unmixed`).
- `may_queue_apcs` is set when a thread is created and never cleared, and a yanked list's head keeps its
  links: queueing to a thread that has exited writes to entries that were freed. With `MayQueueLate = TRUE` TLC
  finds the list broken.
- An APC without a routine queued by `NtQueueApcThread` goes to the kernel list, which is never delivered; at exit it
  is unlinked but not freed. `HeapIsExact` is about the others.
- Special APCs are not first in, first out among themselves: each goes before the last one.
- On POSIX nothing wakes an alertable wait when an APC is queued, and `XThread::Terminate` by another thread runs
  no APCs down. Cancelling a timer does not take back the APC its callback has queued.
- `Pulse` may release nobody: 10 microseconds are not a promise that waiters were scheduled.
  An abandoned mutant stays owned by a thread that is gone.
- `AddBreakpoint` resolves with the recursive global lock held, of which the entry table gives up one level only: if
  another thread is compiling the function, neither can go on (`processor.cc:550`, `LockedOut`). The comment at
  `entry_table.cc:59` calls the wait "dead code"; it is not, as compiling does not hold the lock.
- A thread terminated while it compiles leaves its entry `COMPILING` for ever (`Abandoned`).
- Code can be reached through the indirection table before `OnFunctionDefined` has patched it.
- `kDeclaring` is never set by any code; that is the root of `function_resolution_race`.
- The paint that removes the last user interface may be skipped: it is asked for by invalidating the window without
  a request, and `OnPaint` without drawers and without a request does nothing (`presenter.cc:1338`). `ScreenCatchesUp`
  is about interfaces that were added.
- A request that is pending when the surface goes stays set (`presenter.h:917`), so later ones are not made; that
  is harmless only because a window system draws every window that is opened (`GetSurface`).

## Proofs

Eight proof modules, each extending the module or the two modules it is about. All proofs rest only
on the named assumptions of the constants, which the runs evaluate, and where a theorem states it on one of the
named bounds `MayRace`, `MayMix` and `MayQueueLate`. Where a theorem states a property
of a run, TLC has checked it there on a small instance; the proof says that the instance was not too small.

**TimerQueueProofs** (any set of items and threads, ring of any size, any intervals, any
number of calls, also repeated self-disarming). The inductive invariant `TimerInv` consists of

- `ControlInv`: which stages the dispatcher and clients have, `current` is set exactly
  between taking an item and retiring it, and what was loaded at `AfterCallback` is still
  true at the store. The last is the heart of the matter: between the load and the store
  nobody else may change the state of a running item;
- `RingInv`: published sequences lie in one window, claimed ones belong to one actor each,
  a published slot holds an item;
- `DisarmedInv`: released items and the kick are disarmed, uncreated items idle;
- `StateTellsCallback`: a state says "in callback" for the current item and no other;
- `KickIsInert`.

For `OnePlace` two more parts are needed: `Spots`, which says pair by pair that the places an item may be in
exclude each other, and `KickOnce`, that one thread runs the destructor. A step either moves nothing (`Still`) or
moves one item, or one batch of items, from a place to the next; that the others stay in their slots is
`ModInjective`, the arithmetic of the ring.

`Invariance` proves it action by action. `DisarmQuiesces` follows from `StateTellsCallback` and
`DisarmedInv`; `DisarmedForever` and `CallbackIsLast` are action properties under the
invariant; `Refinement` maps every action to one of `TimerContract` or a stutter.

**ThreadProofs** (any number of callers and calls). `HostInv` is the type invariant,
`TokensBalance` and `MarkedInv`. `TokensBalance` says that requests to wait, counted over
callers about to signal, pending signals, the handler and the self-wait, equal the tokens plus
one if marked suspended; a thread created suspended has one token in excess (`Excess`).
`MarkedInv` says that, while nobody ends the thread, it is marked suspended only with a
positive count (or one step before it gets one), and a thread created running exactly then.
Without `TokensBalance` nothing relates the semaphore to the count. Lemmas about the
cardinality of the set of callers about to signal carry the arithmetic. The invariant yields
`RunningThreadStops`, where the excess is zero, and `HeldHasReason` for every thread;
`host_thread_suspend_fails` shows that the first is false of threads created suspended.

The second half of the module is about guest threads. `GuestImplementsHost` shows that every step of a guest thread is a step of the host thread or
leaves it alone, so all theorems about the host thread hold of guest threads (`GuestHostInvariance`,
`GuestHeldHasReason`). `GuestHandlerReturns` draws from `TokensBalance`, with the token
in excess that every guest thread has, that its handler always finds a token. `GuestInvariance` is about the guest's own count and mutex: its invariant says who holds
`suspend_mutex_` in which stage (`Holders`) and that, when the count is zero under a waiting thread, it was notified or the holder of the
mutex is about to (`Wakes`).

**LockProofs**. *The reader-writer lock* (any finite sets of readers and writers; counters of any width that can count them). The invariant has two
halves. `Balance` is about numbers only: each counter of the lock equals a number of threads in some stages
(`Counts`), the permits granted are in the semaphore or with the one thread about to post them (`Posts`), and a writer inside, a
hand-over to a writer and readers exclude each other (`Exclusion`). `Places` ties the threads' own stages and grants to these numbers. A
step moves one thread between two stages, which lemmas turn into plus and minus one; the rest is arithmetic. States in which
`readers_entry_count` has wrapped are covered: exclusion survives the wrap, and what is lost is only the wake-up.

*The global mutex* (any set of threads). `MutexInv` joins exclusion with the word,
the owner with the stages, and `NoLostWakeup`; the last needs the exclusion part, since
the thread that frees the word is the one that sees the mark. `MutexRefinement` maps the
mutex to `RecursiveLock`.

**WaitObjectsProofs** (any threads, objects, kinds and waits). Five parts: `Holdings` (counts and owners in their ranges, a
mutant has one owner), `Rightful` (who has read that it owns a mutant still holds it when it locks, unless the release was one too many from the
beginning: the heart of why the unlocked test is harmless otherwise), `Places` (locks are held by waits that decide), `Clockwork` (while a thread sets a timer the timer is not queued
and nobody else sets it, and an expiration under way is of the present setting) and `Notices` (a thread blocked on a signaled object was
notified). The lemmas go by what a step does to objects: signals them, takes units from some, moves locks, or neither.
`UnitsConserved` needs no more than the types: a step that signals adds to one object's count, a step that takes subtracts what it
grants. The work is in the grants, which are summed over all threads by a fold. That a sum changes by the difference
when one summand does is proved of the fold's recursion over the number of threads still to add, by looking at the smallest number where it fails.

**FunctionResolutionProofs** (any threads, functions and calls between them; any number of loads, breakpoints and deaths).
`OneWorker` alone is not inductive. `Stage` says what a caller knows of its own call, `Symbols` and `Code` relate symbol, code and
indirection to the stage of the one that works on them, also when it is dead, and `Patched` says that breakpoints are in before a function
is handed out. `ContractRefinement` maps entry and stage to the contract; `Unload` maps to `Forget`, which is why that speaks of
callers that are gone.

**PresenterProofs** (any number of capturing threads, frames and events). To `MailboxInv` and `PaintingInv` the invariant adds
`Reading` (the consumer mutex excludes, and who is not overtaken refers to the acquired image, as it was), `Frames` (published images are
complete and in order), `Screen` (a painter's frame is not older than the last one painted by the rules) and `UIHasSurface`. `NoTearing` is
`Reading` with `Frames`: the acquired image is not the writable one, so it changes for those only who refer to an image acquired earlier. The
refinement to `LatestFrame` needs `Screen` for the guarantee that the screen never goes back when painting changes hands. `PaintersAlone` shows
that without captures nobody is overtaken, because only one thread paints at a time: `painted` is then what is on the screen.

**ObjectTableProofs** (any objects, slots, threads and names; for the first two theorems also with races and references by pointer through
any handle). `LifeInv` is inductive by itself: the table and `handles_` name each other (`TableInv`), a thread has a
pointer exactly where its stage says so (`CallInv`), the pointer count of an object is the number of its slots, of the calls that hold it and
one if it was purged (`CountInv`), the guest holds only what is in the table (`GuestInv`), and what was closed or purged cannot be reached again
(`OutOfReach`). Counting is by cardinalities of the sets of slots and holders, of which a step changes one by one element. `NamesInv` adds
that calls on named objects do not overlap (`Alone`), so that between two steps of one call nobody moves what it looked up. `HandleInv` adds where
each reference to a slot comes from: the guest owes it (`owned`), a call claims it (`Claims`), or it was made by
pointer (`Pointing`). That a slot the guest owns stays open follows from the sum (`Counted`), together with what the stages say (`Publishing`, `Sources`, `ByName`).
The hypotheses are needed, and are nothing but the bounds of the run: `MayRace = FALSE` for names, as `object_table_race` shows, and
`MayMix = FALSE` for the counts of slots (see [Disagreements](#disagreements)).

**ApcQueueProofs** (any threads, APCs and nesting). Lists live in links, so the first part of the module is about links alone: a list is the *ring* of a
sequence, each node linked to the next and back with the head at both ends (`Ring`), and inserting at a place or unlinking gives the ring of the
sequence with an element more or less, and leaves other rings as they are. What `Chain` finds by
following links is the sequence; that is shown at the first place where the two could differ. `IInv` then says which sequences there are (`Lists`: injective, special
APCs first, exactly what is marked as queued in that list), that the list of an APC goes by its routine (`Modes`), that an APC in somebody's hands
is allocated, in no list and in nobody else's hands (`Hands`, `Current`), what is left of the yanked list while it is run down (`Remaining`), and that whatever has a routine and is allocated is in one
of these places (`Known`). `ListsAreSound` and `HeapIsExact` follow; neither is inductive: the first says nothing of the
chain that the rundown walks, the second nothing of where an APC can go next. `ApcsAreHandedOutInOrder` is the safety part of
`ImplementsApcContract`: insertion behind the tail is `Append`, taking the head is `Tail`, `KeRemoveQueueApc` removes one place, and the yank
changes nothing in the queue. All of it assumes `MayQueueLate = FALSE`, as the code is wrong otherwise (see the observations).

## Limits

*Only model-checked*: all liveness (`Fires`, `CallsReturn`, `TerminateEnds`, `ResumedRuns`, `EveryoneEnters`, `EveryCallReturns`, `WaitsEnd`, `ResolvesReturn`,
`ScreenCatchesUp`, and the fairness in `ImplementsApcContract`), as fairness and `ENABLED` are beyond the prover. Every
invariant and action property that a run checks, and the steps of every refinement, are also proved. The proofs about `ObjectTable` and `ApcQueue` assume the bounds
`MayRace`, `MayMix` and `MayQueueLate` where it is said above.

*Memory order*: all modules are sequentially consistent. The relaxed load of `owner_` is safe
whatever it returns for another thread's stores, as it is only compared with the reader's own id;
the other atomics are acquire/release on a single word. The plain stores by which a function is published (machine code, symbol
status, entry status) are taken to become visible in program order, which x86 guarantees and the language does not.

*Undefined behaviour*: reading `handles_[0]` of an emptied vector is the old word; joining a
thread twice and a concurrent erase of the handle vector are left out. A thread cancelled inside its own section is taken to
unlock as it unwinds.

*Left out of modelled components*: user callbacks and alertable waits, priorities and
affinity, host objects of the table, save and restore, callers of a host thread that are themselves suspended inside a call, guest-side `WaitCallback` after a wait, setters of a timer that do not go through `XTimer`,
Terminate by another thread while APCs are queued; a thread cancelled while it holds a lock of the
processor; the UI tick limiter, loss of the GPU, the Z order of drawers and guest output that changes its size; stepping and pausing for the debugger.
`PurgeAllObjects` is restricted to objects with one handle each and to threads that are gone; a module is
unloaded only when no living thread resolves a function, and loading is one step.

*Not modelled at all*: code generation (compiler passes, emitters, shader translators), drivers,
parsers, disk images, dialogs and the front end, because their correctness is a matter of
data and formats, not of control; and the components the plan has left.

## Plan

Done: `TimerContract`, `TimerQueue`; `HostThread`, `GuestThread`; `WaitObjects` with timers;
`RecursiveLock`, `GlobalMutex`; `ReadWriteLock`; `ObjectTable`; `ApcContract`, `ApcQueue`; `ResolutionContract`,
`FunctionResolution`; `LatestFrame`, `Presenter`.

The runs are kept to a dozen, so that all of them can be repeated at every change of the code: a new component
takes the place of the least informative run or is composed into an existing one. Next, most important first:

1. `KernelState`: the deferred-work thread and `TerminateTitle` (which drops the global lock while it holds an iterator,
   `kernel_state.cc:892`), composed with `GuestThread` and `ObjectTable`; property: every deferred function runs once,
   termination leaves nobody behind.
2. `CriticalSection` (RTL) and the guest spin lock, refining `RecursiveLock`; `SList`
   with its sequence number.
3. `XmaContexts` and `AudioClients`: workers that are paused and resumed while a client goes away (`XmaDecoder::Pause`
   does not set the event its worker may be waiting for).
4. `CommandRing` with pause and restore, `SharedMemory`, `PendingFunctions` (windowed application context).
5. The host half of `ObjectTable`, save and restore as a round trip; `NotifyListener`.
6. `PageHeap`: allocation as an algorithm on a small page table, against a reference definition.
7. Within components: the 10 microseconds of `Pulse`, the `Resume` that is lost while the start routine parks
   (`threading_posix.cc:1327`), waits that name an object twice.

Proofs planned: what holds in the table when references by pointer are mixed (`MayMix = TRUE`), where only `LifeInv` is proved so far: how far the
counts of the slots of one object can part while their sum stays exact; and that a list of `ApcQueue` stays sound with `MayQueueLate = TRUE` until the first late insertion.
