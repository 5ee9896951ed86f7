----------------------------- MODULE Presenter -----------------------------
(***************************************************************************)
(* The presenter (ui/presenter.cc): how the guest's frames and the user    *)
(* interface get on the screen.                                            *)
(*                                                                         *)
(* The guest output thread refreshes one of three images and publishes it  *)
(* in a lock-free mailbox; consumers (painting, capturing) take a          *)
(* reference to the newest under a mutex and work on it afterwards without *)
(* it.  Who paints is decided by paint_mode_, which only the UI thread     *)
(* changes and the guest thread holds still, by paint_mode_mutex_, while   *)
(* it paints or asks the window to be painted.  The connection to the      *)
(* surface belongs to whoever may paint.                                   *)
(***************************************************************************)
EXTENDS Integers, FiniteSets

CONSTANTS
    Capturers,    \* threads that call CaptureGuestOutput
    MaxFrames,    \* BOUND on the frames refreshed
    MaxEvents     \* BOUND on changes of the surface and the UI, and on
                  \* paints that do not succeed

ASSUME PresenterAssumption ==
    /\ Capturers \cap {"guest", "ui"} = {}
    /\ MaxFrames \in Nat /\ MaxEvents \in Nat

VARIABLES
    acquired_, ready_,   \* guest_output_mailbox_acquired_and_ready_
    writable_,           \* guest_output_mailbox_writable_
    image,               \* what each image holds: a frame, or Torn
    active,              \* guest_output_properties_, of each image: IsActive()
    active_last,         \* guest_output_active_last_refresh_
    last_acquired,       \* a local of RefreshGuestOutput
    frames,              \* history: frames completed
    paint_mode_,
    connection,          \* surface_paint_connection_state_
    optimal,             \* ..._was_optimal_at_successful_paint_
    vsync,               \* ..._has_implicit_vsync_
    surface,             \* there is one
    drawers,             \* ui_drawers_ is not empty
    requested,           \* ui_thread_paint_requested_
    invalid,             \* the window system is to call OnPaint
    draw_ui, again,      \* locals of PaintFromUIThread
    after,               \* requests deferred to the end of the current paint
    at, seen,            \* stage of each thread, history: frame it took
    held,                \* local guest_output_image: the image it refers to
    overtaken,           \* history: who holds an image while another consumer
                         \* has acquired a newer one
    shown, shown_ui,     \* history: what is on the screen
    painted,             \* history: the last frame that was painted by a
                         \* thread that was not overtaken
    refused,             \* history: the system refused to present the newest frame
    events               \* see MaxEvents

mailbox  == <<acquired_, ready_, writable_, last_acquired>>
images   == <<image, active, active_last, frames>>
hold     == <<seen, held, overtaken>>
conn     == <<connection, optimal, vsync, surface>>
window   == <<requested, invalid>>
paint    == <<draw_ui, again, after>>
screen   == <<shown, shown_ui, painted, refused>>
vars     == <<mailbox, images, paint_mode_, conn, drawers, window, paint, at,
              hold, screen, events>>

Indices  == 0 .. 2
NoImage  == 3
Torn     == -1
Painters == {"guest", "ui"}
Threads  == Painters \cup Capturers

Modes == {"kNone", "kUIThreadOnRequest", "kGuestOutputThreadImmediately"}
ConnectionStates == {"kUnconnectedRetryAtStateChange",
    "kUnconnectedSurfaceReportedUnusable", "kConnectedPaintable", "kConnectedOutdated"}
Connected == connection \in {"kConnectedPaintable", "kConnectedOutdated"}

At == {"idle", "refreshing", "publish", "next", "trigger", "consume", "reading",
       "copying", "present", "exchange", "invalidate", "take", "connect",
       "resized", "settle", "finish"}

PresenterTypeOK ==
    /\ {acquired_, ready_, writable_, last_acquired} \subseteq Indices
    /\ image \in [Indices -> 0 .. MaxFrames \cup {Torn}]
    /\ active \in [Indices -> BOOLEAN]
    /\ active_last \in BOOLEAN /\ frames \in 0 .. MaxFrames
    /\ paint_mode_ \in Modes /\ connection \in ConnectionStates
    /\ {optimal, vsync, surface, drawers, requested, invalid} \subseteq BOOLEAN
    /\ {draw_ui, again, shown_ui} \subseteq BOOLEAN
    /\ after \subseteq {"guest", "ui"}
    /\ at \in [Threads -> At]
    /\ seen \in [Threads -> 0 .. MaxFrames]
    /\ held \in [Threads -> Indices \cup {NoImage}] /\ overtaken \subseteq Threads
    /\ shown \in 0 .. MaxFrames \cup {Torn} /\ painted \in 0 .. MaxFrames
    /\ refused \in BOOLEAN
    /\ events \in 0 .. MaxEvents

Init ==
    /\ acquired_ = 0 /\ ready_ = 0 /\ writable_ = 1 /\ last_acquired = 0
    /\ image = [i \in Indices |-> 0] /\ active = [i \in Indices |-> FALSE]
    /\ active_last = FALSE /\ frames = 0
    /\ paint_mode_ = "kNone"
    /\ connection = "kUnconnectedRetryAtStateChange"
    /\ optimal = FALSE /\ vsync = FALSE /\ surface = FALSE /\ drawers = FALSE
    /\ requested = FALSE /\ invalid = FALSE
    /\ draw_ui = FALSE /\ again = FALSE /\ after = {}
    /\ at = [t \in Threads |-> "idle"]
    /\ seen = [t \in Threads |-> 0]
    /\ held = [t \in Threads |-> NoImage] /\ overtaken = {}
    /\ shown = 0 /\ shown_ui = FALSE /\ painted = 0 /\ refused = FALSE
    /\ events = 0

Goto(t, where) == at' = [at EXCEPT ![t] = where]

Event == events < MaxEvents /\ events' = events + 1

-----------------------------------------------------------------------------
(* RefreshGuestOutput *)

\* The refresher starts to write the writable image.  Without output a blank
\* frame, which properties that are not active tell consumers to show, is
\* published, once.  The properties of an image are set here when it is
\* complete; nobody looks at those of the writable one.  BOUND: frames keep
\* their size; for another one the refresher creates a new image and leaves the
\* old to whoever refers to it.
Refresh ==
    /\ at["guest"] = "idle"
    /\ \/ /\ image' = [image EXCEPT ![writable_] = Torn]
          /\ Goto("guest", "refreshing")
          /\ UNCHANGED <<active, active_last, frames>>
       \/ /\ active_last /\ frames < MaxFrames
          /\ image' = [image EXCEPT ![writable_] = frames + 1]
          /\ active' = [active EXCEPT ![writable_] = FALSE]
          /\ active_last' = FALSE
          /\ frames' = frames + 1
          /\ Goto("guest", "publish")
    /\ UNCHANGED <<mailbox, paint_mode_, conn, drawers, window, paint, hold, screen, events>>

Refreshed ==
    /\ at["guest"] = "refreshing" /\ frames < MaxFrames
    /\ image' = [image EXCEPT ![writable_] = frames + 1]
    /\ active' = [active EXCEPT ![writable_] = TRUE]
    /\ active_last' = TRUE
    /\ frames' = frames + 1
    /\ Goto("guest", "publish")
    /\ UNCHANGED <<mailbox, paint_mode_, conn, drawers, window, paint, hold,
                   screen, events>>

\* Fault: the image is published all the same.
RefreshFailsSilently ==
    /\ at["guest"] = "refreshing"
    /\ Goto("guest", "publish")
    /\ UNCHANGED <<mailbox, images, paint_mode_, conn, drawers, window, paint, hold,
                   screen, events>>

\* The image stays writable, in an undefined state.
RefreshFails ==
    /\ at["guest"] = "refreshing"
    /\ Goto("guest", "idle")
    /\ UNCHANGED <<mailbox, images, paint_mode_, conn, drawers, window, paint, hold,
                   screen, events>>

\* The compare-exchange that makes the new image the ready one.
Publish ==
    /\ at["guest"] = "publish"
    /\ ready_' = writable_
    /\ last_acquired' = acquired_
    /\ refused' = FALSE
    /\ Goto("guest", "next")
    /\ UNCHANGED <<acquired_, writable_, images, paint_mode_, conn, drawers, window,
                   paint, hold, shown, shown_ui, painted, events>>

\* Fault: the images are taken in turn.
NextInTurn == (writable_ + 1) % 3

\* The image that is neither the last acquired nor the new one.
NextWritable ==
    IF last_acquired = writable_ THEN (writable_ + 1) % 3
                                 ELSE (3 - last_acquired - writable_) % 3

TakeWritable ==
    /\ at["guest"] = "next"
    /\ writable_' = NextWritable
    /\ last_acquired' = 0
    /\ Goto("guest", "trigger")
    /\ UNCHANGED <<acquired_, ready_, images, paint_mode_, conn, drawers,
                   window, paint, hold, screen, events>>

\* Under paint_mode_mutex_, which is kept until the painting or the request
\* that follows is done.
Trigger ==
    /\ at["guest"] = "trigger"
    /\ Goto("guest",
            CASE paint_mode_ = "kNone" -> "idle"
              [] paint_mode_ = "kUIThreadOnRequest" -> "exchange"
              [] OTHER -> IF connection = "kConnectedPaintable" THEN "consume" ELSE "idle")
    /\ UNCHANGED <<mailbox, images, paint_mode_, conn, drawers, window, paint, hold,
                   screen, events>>

GuestHoldsPaintMode ==
    at["guest"] \in {"consume", "reading", "present", "exchange", "invalidate"}

-----------------------------------------------------------------------------
(* ConsumeGuestOutput and PaintAndPresent *)

\* The newest image becomes the acquired one, and t refers to it, if it is
\* active.  The one acquired before is given up, whoever still refers to it.
Acquire(t) ==
    /\ acquired_' = ready_
    /\ held' = [held EXCEPT ![t] = IF active[ready_] THEN ready_ ELSE NoImage]
    /\ seen' = [seen EXCEPT ![t] = image[ready_]]
    /\ overtaken' = IF acquired_ = ready_ THEN overtaken
                    ELSE {u \in Threads : held[u] # NoImage}
    /\ Goto(t, "reading")
    /\ UNCHANGED <<ready_, writable_, last_acquired, images, paint_mode_, conn, drawers,
                   window, paint, screen, events>>

\* Fault: consumers do not lock each other out.
ConsumeUnlocked(t) == at[t] = "consume" /\ Acquire(t)

\* The compare-exchange under guest_output_mailbox_consumer_mutex_.
Consume(t) ==
    /\ at[t] = "consume"
    /\ \A u \in Threads : at[u] # "reading"
    /\ Acquire(t)

LetGo(t) ==
    /\ held' = [held EXCEPT ![t] = NoImage]
    /\ seen' = [seen EXCEPT ![t] = 0]
    /\ overtaken' = overtaken \ {t}

\* The reference is copied and the consumer mutex released: what is done with
\* the image is done afterwards.  Without an image there is nothing to capture.
EndRead(t) ==
    /\ at[t] = "reading"
    /\ IF t \in Capturers /\ held[t] = NoImage
       THEN Goto(t, "idle") /\ LetGo(t)
       ELSE /\ Goto(t, IF t \in Painters THEN "present" ELSE "copying")
            /\ UNCHANGED hold
    /\ UNCHANGED <<mailbox, images, paint_mode_, conn, drawers, window, paint, screen,
                   events>>

\* A capture; to wait for the mutex changes nothing.
Capture(c) ==
    /\ at[c] = "idle"
    /\ \A u \in Threads : at[u] # "reading"
    /\ Acquire(c)

\* The copy is made.
EndCapture(t) ==
    /\ at[t] = "copying"
    /\ Goto(t, "idle") /\ LetGo(t)
    /\ UNCHANGED <<mailbox, images, paint_mode_, conn, drawers, window, paint, screen,
                   events>>

\* What a thread finds when it comes to copy or draw.  A blank frame leaves an
\* old picture in its image.
Found(t) ==
    IF held[t] = NoImage THEN seen[t]
    ELSE IF active[held[t]] THEN image[held[t]]
    ELSE Torn

\* PaintAndPresentImpl has presented, optimally or not ...
Presented(t) ==
    /\ shown' = Found(t)
    /\ painted' = IF t \in overtaken THEN painted ELSE Found(t)
    /\ shown_ui' = (t = "ui" /\ draw_ui) /\ refused' = FALSE
    /\ \/ optimal' = TRUE /\ UNCHANGED <<connection, events>>
       \/ /\ Event
          /\ connection' = IF optimal THEN "kConnectedOutdated" ELSE connection
          /\ UNCHANGED optimal

\* ... or not presented, because of the connection or for another reason.
NotPresented(t) ==
    /\ Event
    /\ \/ connection' = "kConnectedOutdated" /\ UNCHANGED refused
       \/ refused' = (seen[t] = image[ready_]) /\ UNCHANGED connection
    /\ UNCHANGED <<shown, shown_ui, painted, optimal>>

Present(t) ==
    /\ at[t] = "present"
    /\ Presented(t) \/ NotPresented(t)
    /\ LET outdated == connection' = "kConnectedOutdated" IN
         IF t = "guest"
         THEN Goto(t, IF outdated THEN "exchange" ELSE "idle") /\ UNCHANGED again
         ELSE Goto(t, "settle") /\ again' = outdated
    /\ LetGo(t)
    /\ UNCHANGED <<mailbox, images, paint_mode_, vsync, surface, drawers, window, draw_ui,
                   after>>

-----------------------------------------------------------------------------
(* RequestPaintOrConnectionRecoveryViaWindow *)

\* A request that is pending already is not made twice.
Exchange(t) ==
    /\ at[t] = "exchange"
    /\ requested' = TRUE
    /\ Goto(t, IF requested THEN "idle" ELSE "invalidate")
    /\ UNCHANGED <<mailbox, images, paint_mode_, conn, drawers, invalid, paint, hold,
                   screen, events>>

\* Window::RequestPaint.
Invalidate(t) ==
    /\ at[t] = "invalidate"
    /\ invalid' = TRUE
    /\ Goto(t, "idle")
    /\ UNCHANGED <<mailbox, images, paint_mode_, conn, drawers, requested, paint, hold,
                   screen, events>>

-----------------------------------------------------------------------------
(* The UI thread: paint mode and connection *)

UIIs(where) == at["ui"] = where

\* SetPaintModeFromUIThread locks only if the mode changes.
SetPaintMode(mode) ==
    /\ mode # paint_mode_ => ~GuestHoldsPaintMode
    /\ paint_mode_' = mode

\* The mode in which the UI thread paints and no request gets lost.
UIMode == IF paint_mode_ = "kNone" THEN "kNone" ELSE "kUIThreadOnRequest"

\* GetDesiredPaintModeFromUIThread, with the variables it is to go by.
DesiredPaintMode(is_paintable, implicit_vsync, ui) ==
    IF ~is_paintable THEN "kNone"
    ELSE IF implicit_vsync \/ ui THEN "kUIThreadOnRequest"
    ELSE "kGuestOutputThreadImmediately"

\* UpdateSurfacePaintConnectionFromUIThread; a surface reported unusable is
\* not tried again, and "unchanged" is no answer for a new connection.
UpdateConnection(repaint) ==
    /\ UNCHANGED surface
    /\ \/ /\ connection = "kUnconnectedSurfaceReportedUnusable"
          /\ ~repaint /\ UNCHANGED <<connection, optimal, vsync>>
       \/ /\ connection # "kUnconnectedSurfaceReportedUnusable"
          /\ \/ /\ repaint \/ Connected
                /\ connection' = "kConnectedPaintable"
                /\ optimal' = FALSE /\ vsync' \in BOOLEAN
             \/ /\ ~repaint /\ UNCHANGED optimal
                /\ \/ /\ connection' = "kUnconnectedRetryAtStateChange"
                      /\ vsync' \in {vsync, FALSE}
                   \/ /\ connection' = "kUnconnectedSurfaceReportedUnusable"
                      /\ UNCHANGED vsync

\* SetWindowSurfaceFromUIThread without a surface.  A request that is pending
\* stays set; the window's invalidation is lost with the window.
LoseSurface ==
    /\ UIIs("idle") /\ surface /\ Event
    /\ SetPaintMode("kNone")
    /\ connection' = "kUnconnectedRetryAtStateChange" /\ vsync' = FALSE
    /\ surface' = FALSE
    /\ invalid' = FALSE
    /\ shown' = 0 /\ shown_ui' = FALSE /\ painted' = 0 /\ refused' = FALSE
    /\ UNCHANGED <<mailbox, images, optimal, drawers, requested, paint, at, hold>>

\* ... and with one.  The window system draws every window that is opened.
GetSurface ==
    /\ UIIs("idle") /\ ~surface
    /\ surface' = TRUE
    /\ invalid' = TRUE
    /\ Goto("ui", "resized")
    /\ UNCHANGED <<mailbox, images, paint_mode_, connection, optimal, vsync, drawers,
                   requested, paint, hold, screen, events>>

\* OnSurfaceResizeFromUIThread: the UI thread takes painting over first.
Resize ==
    /\ UIIs("idle") /\ surface /\ Event
    /\ SetPaintMode(UIMode)
    /\ Goto("ui", "resized")
    /\ UNCHANGED <<mailbox, images, conn, drawers, window, paint, hold, screen>>

\* Both update the connection and set the mode it allows.
Reconnect ==
    /\ UIIs("resized")
    /\ \E repaint \in BOOLEAN :
          /\ UpdateConnection(repaint)
          /\ Goto("ui", IF repaint THEN "exchange" ELSE "idle")
    /\ SetPaintMode(DesiredPaintMode(connection' = "kConnectedPaintable", vsync', drawers))
    /\ UNCHANGED <<mailbox, images, drawers, window, paint, hold, screen, events>>

\* SetGuestOutputPaintConfigFromUIThread with a change that is visible.
Configure ==
    /\ UIIs("idle") /\ paint_mode_ # "kNone" /\ Event
    /\ Goto("ui", "exchange")
    /\ UNCHANGED <<mailbox, images, paint_mode_, conn, drawers, window, paint, hold, screen>>

\* Add- and RemoveUIDrawerFromUIThread, outside a paint: the mode follows, and
\* the window is asked to paint.
ChangeDrawers ==
    /\ UIIs("idle") /\ Event
    /\ drawers' = ~drawers
    /\ IF paint_mode_ = "kNone"
       THEN UNCHANGED <<paint_mode_, invalid>>
       ELSE /\ SetPaintMode(DesiredPaintMode(TRUE, vsync, drawers'))
            /\ invalid' = TRUE
    /\ UNCHANGED <<mailbox, images, conn, requested, paint, at, hold, screen>>

-----------------------------------------------------------------------------
(* PaintFromUIThread *)

\* Called because of a request or because the window system exposes the
\* window; neither forces the paint.
OnPaint ==
    /\ UIIs("idle") /\ surface
    /\ invalid' = FALSE
    /\ requested' = FALSE
    /\ draw_ui' = drawers
    /\ Goto("ui", IF drawers \/ requested THEN "take" ELSE "finish")
    /\ UNCHANGED <<mailbox, images, paint_mode_, conn, drawers, again, after, hold, screen,
                   events>>

\* The UI thread takes painting over from the guest output thread.
TakePainting ==
    /\ UIIs("take")
    /\ SetPaintMode(UIMode)
    /\ Goto("ui", "connect")
    /\ UNCHANGED <<mailbox, images, conn, drawers, window, paint, hold, screen, events>>

\* Try to recover from an outdated connection, and paint if that is possible.
Connect ==
    /\ UIIs("connect")
    /\ IF connection = "kConnectedOutdated"
       THEN \E repaint \in BOOLEAN : UpdateConnection(repaint)
       ELSE UNCHANGED conn
    /\ IF connection' = "kConnectedPaintable"
       THEN SetPaintMode("kUIThreadOnRequest") /\ Goto("ui", "consume")
       ELSE Goto("ui", "settle") /\ UNCHANGED paint_mode_
    /\ UNCHANGED <<mailbox, images, drawers, window, paint, hold, screen, events>>

\* UI drawers that run may add and remove drawers, ask for another paint, or
\* change the configuration: all of it is deferred.
RunDrawers ==
    /\ UIIs("present") /\ draw_ui /\ Event
    /\ \/ drawers' = ~drawers /\ after' = after \cup (IF drawers' THEN {"ui"} ELSE {})
       \/ \E r \in {"ui", "guest"} : after' = after \cup {r} /\ UNCHANGED drawers
    /\ UNCHANGED <<mailbox, images, paint_mode_, conn, window, draw_ui, again, at, hold,
                   screen>>

\* Fault: the request is reset when the paint is done.
SettleResets ==
    /\ UIIs("settle")
    /\ SetPaintMode(IF connection = "kConnectedPaintable" THEN paint_mode_ ELSE "kNone")
    /\ requested' = FALSE
    /\ Goto("ui", "finish")
    /\ UNCHANGED <<mailbox, images, conn, drawers, invalid, paint, hold, screen, events>>

\* If painting is not possible any more the mode says so.
Settle ==
    /\ UIIs("settle")
    /\ SetPaintMode(IF connection = "kConnectedPaintable" THEN paint_mode_ ELSE "kNone")
    /\ Goto("ui", "finish")
    /\ UNCHANGED <<mailbox, images, conn, drawers, window, paint, hold, screen, events>>

\* Painting goes back to whom it belongs, and what was deferred is requested.
Finish ==
    /\ UIIs("finish")
    /\ SetPaintMode(IF paint_mode_ = "kNone" THEN "kNone"
                    ELSE DesiredPaintMode(TRUE, vsync, drawers))
    /\ LET paintable   == paint_mode_' # "kNone"
           immediately == \/ again
                          \/ paintable /\ "guest" \in after
                          \/ paintable /\ draw_ui /\ ~drawers
           at_tick     == paintable /\ "ui" \in after /\ drawers
       IN  Goto("ui", IF immediately \/ at_tick THEN "exchange" ELSE "idle")
    /\ draw_ui' = FALSE /\ again' = FALSE /\ after' = {}
    /\ UNCHANGED <<mailbox, images, conn, drawers, window, hold, screen, events>>

-----------------------------------------------------------------------------

PaintStep(t) == Present(t) \/ Exchange(t) \/ Invalidate(t) \/ EndRead(t)

CaptureStep(c) == EndRead(c) \/ EndCapture(c)

GuestStep ==
    \/ Refreshed \/ RefreshFails \/ Publish \/ TakeWritable \/ Trigger
    \/ PaintStep("guest")

UIStep ==
    Reconnect \/ TakePainting \/ Connect \/ Settle \/ Finish \/ PaintStep("ui")

Environment ==
    \/ LoseSurface \/ GetSurface \/ Resize \/ Configure \/ ChangeDrawers \/ RunDrawers

Next ==
    \/ Refresh \/ GuestStep
    \/ OnPaint \/ UIStep
    \/ \E c \in Capturers : Capture(c) \/ CaptureStep(c)
    \/ \E t \in Painters : Consume(t)
    \/ Environment

Spec == Init /\ [][Next]_vars

\* A call that has begun goes on, the window system calls OnPaint for a window
\* that is invalid, and the consumer mutex, free again and again, is obtained.
Fairness ==
    /\ WF_vars(GuestStep) /\ WF_vars(UIStep \/ (invalid /\ OnPaint))
    /\ \A c \in Capturers : WF_vars(CaptureStep(c))
    /\ \A t \in Painters : SF_vars(Consume(t))

FairSpec == Spec /\ Fairness

-----------------------------------------------------------------------------
(* Properties *)

\* The writable image is neither the acquired nor the ready one; between the
\* publication and the choice of the next it is the ready one, and the image
\* acquired before is still all a consumer can have acquired besides.
MailboxInv ==
    IF at["guest"] = "next"
    THEN /\ ready_ = writable_ /\ last_acquired # writable_
         /\ acquired_ \in {last_acquired, ready_}
    ELSE writable_ \notin {acquired_, ready_}

GuestPaints == at["guest"] \in {"consume", "reading", "present"}
UIPaints    == at["ui"] \in {"consume", "reading", "present"}

\* Only one thread paints; who paints has a surface that is connected; the
\* connection is changed by the UI thread only while the guest thread may not
\* paint; and the window is there when the guest thread asks it to paint.
PaintingInv ==
    /\ GuestPaints => paint_mode_ = "kGuestOutputThreadImmediately"
    /\ GuestPaints \/ UIPaints => connection = "kConnectedPaintable"
    /\ at["ui"] \in {"consume", "reading", "present", "connect", "resized", "settle"}
          => paint_mode_ # "kGuestOutputThreadImmediately"
    /\ Connected \/ paint_mode_ # "kNone" \/ invalid => surface
    /\ GuestHoldsPaintMode => paint_mode_ # "kNone"
    /\ paint_mode_ # "kNone" => Connected \/ at["ui"] \in {"resized", "settle"}

\* All variables have their types, and the two protocols keep their rules.
PresenterInv == PresenterTypeOK /\ MailboxInv /\ PaintingInv

\* The image a consumer works on is complete and stays as it was when it was
\* acquired while the guest goes on refreshing: until another consumer acquires
\* a newer one, and in any case while the consumer mutex is held.
NoTornFrame ==
    \A t \in Threads : held[t] # NoImage /\ (t \in overtaken => at[t] = "reading") =>
        Found(t) # Torn /\ Found(t) = seen[t]

Newest == INSTANCE LatestFrame
    WITH latest <- image[ready_], taken <- image[acquired_], shown <- painted

\* Consumers are handed the newest frame that was published, and the screen
\* never goes back, however painting passes between the two threads; except for
\* what is painted by a thread that another consumer has overtaken.
ImplementsLatestFrame == Newest!Spec

\* A frame or a user interface that should be on the screen is not.
Behind ==
    /\ Connected /\ ~refused
    /\ shown # image[ready_] \/ (drawers /\ ~shown_ui)

\* The screen catches up with the newest frame, and with a user interface that
\* was added, without waiting for another frame: no request to paint is lost,
\* whoever owns painting when it is made, and no paint that was overtaken stays.
ScreenCatchesUp == []<>~Behind
=============================================================================
