-------------------------- MODULE PresenterProofs --------------------------
(***************************************************************************)
(* Proofs about the presenter, for any number of capturing threads, frames *)
(* and events: the mailbox and the painting protocol keep their rules, no  *)
(* consumer sees a torn frame unless another one overtakes it, Presenter   *)
(* implements LatestFrame, and nobody is overtaken if nobody captures.     *)
(***************************************************************************)
EXTENDS Presenter, TLAPS

Paints(t) == at[t] \in {"reading", "present"}

\* The consumer mutex excludes, a thread refers to an image only while it works
\* on it, and who is not overtaken refers to the acquired image, as it was.
Reading ==
    /\ \A t, u \in Threads : at[t] = "reading" /\ at[u] = "reading" => t = u
    /\ \A t \in Threads :
          /\ at[t] = "copying" => t \in Capturers
          /\ held[t] # NoImage => at[t] \in {"reading", "copying", "present"}
          /\ t \in overtaken => held[t] # NoImage /\ at[t] # "reading"
          /\ held[t] # NoImage /\ t \notin overtaken =>
                held[t] = acquired_ /\ active[acquired_] /\ seen[t] = image[acquired_]

\* Images that were published are complete and in order, the newest is the
\* last frame the guest completed.
Frames ==
    /\ image[ready_] # Torn /\ image[acquired_] # Torn
    /\ image[acquired_] <= image[ready_]
    /\ IF at["guest"] = "publish"
       THEN image[writable_] = frames /\ frames = image[ready_] + 1
       ELSE frames = image[ready_]

\* The frame of a painter that is not overtaken is not older than the last one
\* painted like that.
Screen ==
    /\ painted <= image[acquired_]
    /\ \A t \in Painters : Paints(t) /\ t \notin overtaken =>
          painted <= seen[t] /\ seen[t] <= image[acquired_]

\* The UI thread is active only while there is a surface.
UIHasSurface == at["ui"] # "idle" => surface

IInv == PresenterInv /\ Reading /\ Frames /\ Screen /\ UIHasSurface

\* PresenterTypeOK in three parts.
MailboxTypes ==
    /\ {acquired_, ready_, writable_, last_acquired} \subseteq Indices
    /\ image \in [Indices -> 0 .. MaxFrames \cup {Torn}]
    /\ active \in [Indices -> BOOLEAN]
    /\ active_last \in BOOLEAN /\ frames \in 0 .. MaxFrames

PaintTypes ==
    /\ paint_mode_ \in Modes /\ connection \in ConnectionStates
    /\ {optimal, vsync, surface, drawers, requested, invalid} \subseteq BOOLEAN
    /\ {draw_ui, again, shown_ui} \subseteq BOOLEAN
    /\ after \subseteq {"guest", "ui"}

ThreadTypes ==
    /\ at \in [Threads -> At]
    /\ seen \in [Threads -> 0 .. MaxFrames]
    /\ held \in [Threads -> Indices \cup {NoImage}] /\ overtaken \subseteq Threads
    /\ shown \in 0 .. MaxFrames \cup {Torn} /\ painted \in 0 .. MaxFrames
    /\ refused \in BOOLEAN
    /\ events \in 0 .. MaxEvents

LEMMA Parts == PresenterTypeOK <=> MailboxTypes /\ PaintTypes /\ ThreadTypes
BY Zenon DEF PresenterTypeOK, MailboxTypes, PaintTypes, ThreadTypes

LEMMA ThreadNames ==
    /\ "guest" \in Threads /\ "ui" \in Threads
    /\ Capturers \subseteq Threads /\ Painters \subseteq Threads
    /\ "guest" \in Painters /\ "ui" \in Painters
    /\ \A c \in Capturers : c \notin Painters
BY PresenterAssumption DEF Threads, Painters

LEMMA InitIInv == Init => IInv
<1> SUFFICES ASSUME Init PROVE IInv
  OBVIOUS
<1> USE PresenterAssumption DEF Init
<1>1. MailboxTypes
  <2>1. image \in [Indices -> 0 .. MaxFrames \cup {Torn}]
    BY DEF Indices
  <2>2. {acquired_, ready_, writable_, last_acquired} \subseteq Indices
    BY DEF Indices
  <2>3. active \in [Indices -> BOOLEAN] /\ active_last \in BOOLEAN
    OBVIOUS
  <2>4. frames \in 0 .. MaxFrames
    OBVIOUS
  <2> QED  BY <2>1, <2>2, <2>3, <2>4 DEF MailboxTypes
<1>2. PaintTypes
  BY DEF PaintTypes, Modes, ConnectionStates
<1>3. ThreadTypes
  <2>1. refused \in BOOLEAN
    BY Zenon
  <2>2. at \in [Threads -> At] /\ seen \in [Threads -> 0 .. MaxFrames]
    BY DEF At
  <2>3. held \in [Threads -> Indices \cup {NoImage}] /\ overtaken \subseteq Threads
    BY DEF NoImage
  <2> QED
    BY <2>1, <2>2, <2>3 DEF ThreadTypes
<1>4. MailboxInv /\ PaintingInv
  BY ThreadNames DEF MailboxInv, PaintingInv, GuestPaints, UIPaints, Connected,
                     GuestHoldsPaintMode
<1>5. Reading /\ Frames /\ Screen /\ UIHasSurface
  BY ThreadNames DEF Reading, Frames, Screen, UIHasSurface, Paints, Indices, Torn
<1> QED
  BY <1>1, <1>2, <1>3, <1>4, <1>5, Parts DEF IInv, PresenterInv

-----------------------------------------------------------------------------
\* The steps of the threads, by the state they share.

\* Acquire(t) as painters and capturers use it.
Acquires(t) ==
    /\ Acquire(t)
    /\ at[t] = "consume" \/ (at[t] = "idle" /\ t \in Capturers)
    /\ \A u \in Threads : at[u] # "reading"

Consumes == \E t \in Threads : Acquires(t)
Presents == \E t \in Painters : Present(t)
Requests == \E t \in Painters : Exchange(t) \/ Invalidate(t)
Reads    == (\E t \in Threads : EndRead(t)) \/ (\E c \in Capturers : EndCapture(c))

Refreshes == Refresh \/ Refreshed \/ RefreshFails
Publishes == Publish \/ TakeWritable

Connects  == Reconnect \/ Connect
UIPaint   == OnPaint \/ TakePainting \/ Settle \/ Finish
Surfaces  == LoseSurface \/ GetSurface \/ Resize
Changes   == Configure \/ ChangeDrawers \/ RunDrawers

LEMMA Steps ==
    [Next]_vars =>
        \/ Consumes \/ Presents \/ Requests \/ Reads \/ Refreshes \/ Publishes \/ Trigger
        \/ Connects \/ UIPaint \/ Surfaces \/ Changes \/ UNCHANGED vars
BY ThreadNames
   DEF Next, GuestStep, UIStep, PaintStep, CaptureStep, Environment, Consumes, Acquires,
       Consume, Capture, Presents, Requests, Reads,
       Refreshes, Publishes, Connects, UIPaint, Surfaces, Changes

LEMMA MailboxTypesKept == ASSUME IInv, [Next]_vars PROVE MailboxTypes'
<1> USE PresenterAssumption DEF MailboxTypes, Indices, images, mailbox
<1>0. MailboxTypes /\ ThreadTypes
  BY Parts DEF IInv, PresenterInv
<1>1. CASE Consumes
  BY <1>0, <1>1 DEF Consumes, Acquires, Acquire
<1>2. CASE Refreshes
  <2>1. CASE Refresh
    <3>1. writable_ \in Indices
      BY <1>0
    <3>2. image' \in [Indices -> 0 .. MaxFrames \cup {Torn}] /\ frames' \in 0 .. MaxFrames
      BY <1>0, <2>1, <3>1 DEF Refresh, Torn
    <3>3. active_last' \in BOOLEAN
      BY <1>0, <2>1, <3>1 DEF Refresh
    <3> QED
      BY <1>0, <2>1, <3>2, <3>3 DEF Refresh
  <2>2. CASE Refreshed
    BY <1>0, <2>2 DEF Refreshed, IInv, Frames
  <2>3. CASE RefreshFails
    BY <1>0, <2>3 DEF RefreshFails
  <2> QED  BY <1>2, <2>1, <2>2, <2>3 DEF Refreshes
<1>3. CASE Publishes
  BY <1>0, <1>3 DEF Publishes, Publish, TakeWritable, NextWritable
<1>4. CASE Presents \/ Requests \/ Reads \/ Trigger
  BY <1>0, <1>4 DEF Presents, Requests, Reads, Present, Exchange, Invalidate, EndRead, EndCapture, LetGo,
                   Trigger
<1>5. CASE Connects \/ UIPaint
  BY <1>0, <1>5 DEF Connects, UIPaint, Reconnect, Connect, OnPaint, TakePainting, Settle, Finish
<1>6. CASE Surfaces \/ Changes \/ UNCHANGED vars
  BY <1>0, <1>6 DEF Surfaces, Changes, LoseSurface, GetSurface, Resize, Configure,
                   ChangeDrawers, RunDrawers, vars
<1> QED
  BY <1>1, <1>2, <1>3, <1>4, <1>5, <1>6, Steps

LEMMA PaintTypesKept == ASSUME IInv, [Next]_vars PROVE PaintTypes'
<1> USE DEF PaintTypes, Modes, ConnectionStates, conn, window, paint, screen
<1>0. PaintTypes
  BY Parts DEF IInv, PresenterInv
<1>1. CASE Consumes \/ Requests \/ Reads
  BY <1>0, <1>1 DEF Consumes, Acquires, Acquire, Requests, Reads, Exchange, Invalidate, EndRead, EndCapture, LetGo
<1>2. CASE Presents
  <2>1. PICK t \in Painters : Present(t)
    BY <1>2 DEF Presents
  <2>2. /\ connection' \in ConnectionStates /\ optimal' \in BOOLEAN
        /\ UNCHANGED <<paint_mode_, vsync, surface, drawers, requested, invalid, draw_ui, after>>
    BY <1>0, <2>1 DEF Present, Presented, NotPresented
  <2>3. shown_ui' \in BOOLEAN /\ again' \in BOOLEAN
    BY <1>0, <2>1, Zenon DEF Present, Presented, NotPresented, PaintTypes
  <2> QED
    BY <1>0, <2>2, <2>3
<1>3. CASE Refreshes \/ Publishes \/ Trigger
  BY <1>0, <1>3 DEF Refreshes, Refresh, Refreshed, RefreshFails, Publishes, Publish,
                   TakeWritable, Trigger
<1>4. CASE Connects
  BY <1>0, <1>4 DEF Connects, Reconnect, Connect, UpdateConnection, SetPaintMode,
                   DesiredPaintMode
<1>5. CASE UIPaint
  BY <1>0, <1>5 DEF UIPaint, OnPaint, TakePainting, Settle, Finish, SetPaintMode, UIMode,
                   DesiredPaintMode
<1>6. CASE Surfaces
  BY <1>0, <1>6 DEF Surfaces, LoseSurface, GetSurface, Resize, SetPaintMode, UIMode
<1>7. CASE Changes
  BY <1>0, <1>7 DEF Changes, Configure, ChangeDrawers, RunDrawers, SetPaintMode,
                   DesiredPaintMode
<1>8. CASE UNCHANGED vars
  BY <1>0, <1>8 DEF vars
<1> QED
  BY <1>1, <1>2, <1>3, <1>4, <1>5, <1>6, <1>7, <1>8, Steps

LEMMA ThreadTypesKept == ASSUME IInv, [Next]_vars PROVE ThreadTypes'
<1> USE PresenterAssumption, ThreadNames DEF ThreadTypes, At, Goto, screen, hold, Event
<1>0. ThreadTypes /\ MailboxTypes
  BY Parts DEF IInv, PresenterInv
<1>1. CASE Consumes
  <2>1. PICK t \in Threads : Acquires(t)
    BY <1>1 DEF Consumes
  <2>2. image[ready_] \in 0 .. MaxFrames
    BY <1>0 DEF MailboxTypes, IInv, Frames
  <2> QED
    BY <1>0, <2>1, <2>2 DEF Acquires, Acquire, MailboxTypes
<1>2. CASE Presents
  <2>1. PICK t \in Painters : Present(t)
    BY <1>2 DEF Presents
  <2>2. Found(t) \in 0 .. MaxFrames \cup {Torn} /\ (t \notin overtaken => Found(t) = seen[t])
    BY <1>0, <2>1 DEF Found, MailboxTypes, Torn, IInv, Reading, Present
  <2>3. /\ shown' \in 0 .. MaxFrames \cup {Torn} /\ painted' \in 0 .. MaxFrames
        /\ events' \in 0 .. MaxEvents
    BY <1>0, <2>1, <2>2 DEF Present, Presented, NotPresented
  <2>6. refused' \in BOOLEAN
    BY <1>0, <2>1, Zenon DEF Present, Presented, NotPresented, ThreadTypes
  <2>4. at' \in [Threads -> At]
    BY <1>0, <2>1 DEF Present
  <2>5. /\ seen' \in [Threads -> 0 .. MaxFrames] /\ overtaken' \subseteq Threads
        /\ held' \in [Threads -> Indices \cup {NoImage}]
    BY <1>0, <2>1 DEF Present, LetGo
  <2> QED
    BY <2>3, <2>4, <2>5, <2>6
<1>3. CASE Requests \/ Reads
  BY <1>0, <1>3 DEF Requests, Reads, Exchange, Invalidate, EndRead, EndCapture, LetGo
<1>4. CASE Refreshes \/ Publishes
  BY <1>0, <1>4 DEF Refreshes, Refresh, Refreshed, RefreshFails, Publishes, Publish, TakeWritable
<1>5. CASE Trigger
  BY <1>0, <1>5 DEF Trigger
<1>6. CASE Connects \/ UIPaint
  BY <1>0, <1>6 DEF Connects, Reconnect, Connect, UIPaint, OnPaint, TakePainting, Settle, Finish
<1>7. CASE Surfaces \/ UNCHANGED vars
  <2>1. refused' \in BOOLEAN
    BY <1>0, <1>7, Zenon DEF Surfaces, LoseSurface, GetSurface, Resize, vars, screen, ThreadTypes
  <2> QED
    BY <1>0, <1>7, <2>1 DEF Surfaces, LoseSurface, GetSurface, Resize, vars
<1>8. CASE Changes
  <2>1. CASE Configure
    BY <1>0, <2>1 DEF Configure
  <2>2. CASE ChangeDrawers
    BY <1>0, <2>2 DEF ChangeDrawers
  <2>3. CASE RunDrawers
    BY <1>0, <2>3 DEF RunDrawers
  <2> QED  BY <1>8, <2>1, <2>2, <2>3 DEF Changes
<1> QED
  BY <1>1, <1>2, <1>3, <1>4, <1>5, <1>6, <1>7, <1>8, Steps

-----------------------------------------------------------------------------
\* The mailbox: what consumers read is not written.

LEMMA MailboxKept ==
    ASSUME IInv, [Next]_vars PROVE MailboxInv' /\ Reading' /\ Frames'
<1> USE ThreadNames DEF MailboxInv, Reading, Frames, Indices, Torn, NoImage, images, mailbox,
        hold, Goto
<1>0. MailboxInv /\ Reading /\ Frames /\ ThreadTypes /\ MailboxTypes
  BY Parts DEF IInv, PresenterInv
<1>1. CASE Consumes
  BY <1>0, <1>1 DEF Consumes, Acquires, Acquire, MailboxTypes, ThreadTypes
<1>2. CASE Refreshes
  <2>1. /\ UNCHANGED <<acquired_, ready_, writable_, last_acquired, seen, held, overtaken>>
        /\ at["guest"] \in {"idle", "refreshing"} /\ at'["guest"] \in {"idle", "refreshing", "publish"}
        /\ \A t \in Threads \ {"guest"} : at'[t] = at[t]
    BY <1>0, <1>2 DEF Refreshes, Refresh, Refreshed, RefreshFails, ThreadTypes
  <2>2. \A i \in Indices \ {writable_} : image'[i] = image[i] /\ active'[i] = active[i]
    BY <1>0, <1>2 DEF Refreshes, Refresh, Refreshed, RefreshFails, MailboxTypes
  <2>3. acquired_ \in Indices \ {writable_} /\ ready_ \in Indices \ {writable_}
    BY <1>0, <2>1 DEF MailboxTypes
  <2>4. MailboxInv' /\ Reading'
    BY <1>0, <2>1, <2>2, <2>3
  <2>5. Frames'
    BY <1>0, <1>2, <2>1, <2>2, <2>3
       DEF Refreshes, Refresh, Refreshed, RefreshFails, MailboxTypes, ThreadTypes
  <2> QED
    BY <2>4, <2>5
<1>3. CASE Publish
  BY <1>0, <1>3 DEF Publish, MailboxTypes, ThreadTypes
<1>4. CASE TakeWritable
  BY <1>0, <1>4 DEF TakeWritable, NextWritable, MailboxTypes, ThreadTypes
<1>5. CASE Presents \/ Requests \/ Reads
  <2>1. ASSUME NEW t \in Threads, EndRead(t)
        PROVE  MailboxInv' /\ Reading' /\ Frames'
    <3>1. t \notin Painters => t \in Capturers
      BY DEF Threads
    <3> QED
      BY <1>0, <2>1, <3>1 DEF EndRead, LetGo, ThreadTypes
  <2>2. ASSUME NEW t \in Capturers, EndCapture(t)
        PROVE  MailboxInv' /\ Reading' /\ Frames'
    BY <1>0, <2>2 DEF EndCapture, LetGo, ThreadTypes
  <2>3. CASE Presents \/ Requests
    BY <1>0, <2>3 DEF Presents, Present, Requests, Exchange, Invalidate, LetGo, ThreadTypes
  <2> QED
    BY <1>5, <2>1, <2>2, <2>3 DEF Reads
<1>6. CASE Trigger
  BY <1>0, <1>6 DEF Trigger, ThreadTypes
\* Steps of the UI thread away from the images.
<1>7. ASSUME UNCHANGED <<mailbox, images, hold>>, \A t \in Threads \ {"ui"} : at'[t] = at[t],
             \/ at'["ui"] = at["ui"]
             \/ /\ at["ui"] \notin {"reading", "copying", "present"}
                /\ at'["ui"] \notin {"reading", "copying", "present"}
      PROVE  MailboxInv' /\ Reading' /\ Frames'
  <2>1. at'["guest"] = at["guest"]
    BY <1>7
  <2>2. MailboxInv' /\ Frames'
    BY <1>0, <1>7, <2>1
  <2>3. /\ \A t \in Threads : at'[t] = "reading" => at[t] = "reading"
        /\ \A t \in Threads : held[t] # NoImage => at'[t] = at[t]
    BY <1>0, <1>7
  <2>4. Reading'
    BY <1>0, <1>7, <2>3
  <2> QED
    BY <2>2, <2>4
<1>8. CASE Connects \/ UIPaint
  BY <1>0, <1>7, <1>8 DEF Connects, Reconnect, Connect, UIPaint, OnPaint, TakePainting, Settle,
                   Finish, UIIs, ThreadTypes
<1>9. CASE Surfaces \/ Changes \/ UNCHANGED vars
  BY <1>0, <1>7, <1>9 DEF Surfaces, Changes, LoseSurface, GetSurface, Resize, Configure,
                   ChangeDrawers, RunDrawers, UIIs, vars, ThreadTypes
<1> QED
  BY <1>1, <1>2, <1>3, <1>4, <1>5, <1>6, <1>8, <1>9, Steps DEF Publishes

-----------------------------------------------------------------------------
\* Painting: one thread at a time, on a surface that is connected.

LEMMA PaintingKept ==
    ASSUME IInv, [Next]_vars PROVE PaintingInv' /\ UIHasSurface'
<1> USE ThreadNames DEF PaintingInv, UIHasSurface, GuestPaints, UIPaints, Connected,
        GuestHoldsPaintMode, conn, window, Goto
<1>0. PaintingInv /\ UIHasSurface /\ ThreadTypes /\ PaintTypes
  BY Parts DEF IInv, PresenterInv
<1>1. CASE Consumes
  BY <1>0, <1>1 DEF Consumes, Acquires, Acquire, ThreadTypes
<1>10. CASE Requests
  BY <1>0, <1>10 DEF Requests, Exchange, Invalidate, ThreadTypes, Painters
<1>11. CASE Reads
  BY <1>0, <1>11 DEF Reads, EndRead, EndCapture, LetGo, ThreadTypes, Painters
<1>2. CASE Presents
  BY <1>0, <1>2 DEF Presents, Present, Presented, NotPresented, ThreadTypes, Painters
<1>3. CASE Refreshes \/ Publishes
  BY <1>0, <1>3 DEF Refreshes, Refresh, Refreshed, RefreshFails, Publishes, Publish,
                   TakeWritable, ThreadTypes
<1>4. CASE Trigger
  BY <1>0, <1>4 DEF Trigger, ThreadTypes, PaintTypes, Modes
<1>5. CASE Connects
  BY <1>0, <1>5 DEF Connects, Reconnect, Connect, UpdateConnection, SetPaintMode,
                   DesiredPaintMode, ThreadTypes, UIIs
<1>6. CASE UIPaint
  BY <1>0, <1>6 DEF UIPaint, OnPaint, TakePainting, Settle, Finish, SetPaintMode, UIMode,
                   DesiredPaintMode, ThreadTypes, UIIs
<1>7. CASE Surfaces
  BY <1>0, <1>7 DEF Surfaces, LoseSurface, GetSurface, Resize, SetPaintMode, UIMode, ThreadTypes,
                   UIIs
<1>8. CASE Changes
  BY <1>0, <1>8 DEF Changes, Configure, ChangeDrawers, RunDrawers, SetPaintMode,
                   DesiredPaintMode, ThreadTypes, UIIs
<1>9. CASE UNCHANGED vars
  BY <1>0, <1>9 DEF vars
<1> QED
  BY <1>1, <1>2, <1>3, <1>4, <1>5, <1>6, <1>7, <1>8, <1>9, <1>10, <1>11, Steps

\* The screen does not go back.
LEMMA ScreenKept == ASSUME IInv, [Next]_vars PROVE Screen'
<1> USE ThreadNames DEF Screen, Paints, screen, hold, Goto, images, mailbox
<1>0. /\ Screen /\ ThreadTypes /\ MailboxTypes
      /\ MailboxInv /\ PaintingInv /\ Frames /\ Reading
  BY Parts DEF IInv, PresenterInv
<1>1. CASE Consumes
  <2>1. PICK t \in Threads : Acquires(t)
    BY <1>1 DEF Consumes
  <2>2. /\ image[acquired_] <= image[ready_] /\ image[acquired_] \in Nat /\ image[ready_] \in Nat
        /\ acquired_' = ready_ /\ UNCHANGED <<image, painted>> /\ painted \in Nat
    BY <1>0, <2>1 DEF Acquires, Acquire, MailboxTypes, ThreadTypes, Frames, Indices, Torn
  <2>3. \A u \in Painters \ {t} : at'[u] = at[u] /\ seen'[u] = seen[u] /\ seen[u] \in Nat
    BY <1>0, <2>1 DEF Acquires, Acquire, ThreadTypes
  <2>4. seen'[t] = image[ready_]
    BY <1>0, <2>1 DEF Acquires, Acquire, ThreadTypes
  <2>5. \A u \in Threads : u \in overtaken => u \in overtaken'
    BY <1>0, <2>1 DEF Acquires, Acquire, Reading
  <2> QED
    BY <1>0, <2>2, <2>3, <2>4, <2>5
<1>2. CASE Presents
  <2>1. PICK t \in Painters : Present(t)
    BY <1>2 DEF Presents
  <2>2. \A u \in Painters : Paints(u) => u = t
    BY <1>0, <2>1 DEF Present, PaintingInv, GuestPaints, UIPaints, Painters
  <2>3. \A u \in Painters : ~Paints(u)'
    BY <1>0, <2>1, <2>2 DEF Present, ThreadTypes
  <2>4. t \notin overtaken => Found(t) = seen[t]
    BY <1>0, <2>1 DEF Present, Found, Reading
  <2>5. painted' = painted \/ (painted' = Found(t) /\ t \notin overtaken)
    BY <2>1 DEF Present, Presented, NotPresented
  <2>6. UNCHANGED <<image, acquired_>>
    BY <2>1 DEF Present
  <2> QED
    BY <1>0, <2>1, <2>3, <2>4, <2>5, <2>6 DEF Present
<1>3. CASE Requests \/ Reads
  BY <1>0, <1>3 DEF Requests, Reads, Exchange, Invalidate, EndRead, EndCapture, LetGo, ThreadTypes
<1>4. CASE Refreshes \/ Publishes
  BY <1>0, <1>4 DEF Refreshes, Refresh, Refreshed, RefreshFails, Publishes, Publish,
                   TakeWritable, ThreadTypes, MailboxTypes, MailboxInv, Indices
<1>5. CASE Trigger
  BY <1>0, <1>5 DEF Trigger, ThreadTypes
<1>6. CASE Connects \/ UIPaint
  BY <1>0, <1>6 DEF Connects, Reconnect, Connect, UIPaint, OnPaint, TakePainting, Settle, Finish,
                   ThreadTypes, UIIs
<1>7. CASE Surfaces
  BY <1>0, <1>7 DEF Surfaces, LoseSurface, GetSurface, Resize, ThreadTypes, MailboxTypes, Frames,
                   Indices, Torn, UIIs
<1>8. CASE Changes \/ UNCHANGED vars
  BY <1>0, <1>8 DEF Changes, Configure, ChangeDrawers, RunDrawers, vars, ThreadTypes
<1> QED
  BY <1>1, <1>2, <1>3, <1>4, <1>5, <1>6, <1>7, <1>8, Steps

-----------------------------------------------------------------------------
LEMMA NextIInv == IInv /\ [Next]_vars => IInv'
BY MailboxTypesKept, PaintTypesKept, ThreadTypesKept, MailboxKept, PaintingKept, ScreenKept,
   Parts DEF IInv, PresenterInv, MailboxTypes, PaintTypes, ThreadTypes, PresenterTypeOK

\* The mailbox and the painting protocol keep their rules in every behaviour:
\* the image that is written is neither the acquired nor the ready one, one
\* thread paints at a time, and only on a surface that is connected.
THEOREM PresenterInvariance == Spec => []PresenterInv
<1>1. Init => IInv
  BY InitIInv
<1>2. IInv /\ [Next]_vars => IInv'
  BY NextIInv
<1>3. IInv => PresenterInv
  BY DEF IInv
<1> QED
  BY <1>1, <1>2, <1>3, PTL DEF Spec

\* No consumer, however many capture, finds its image incomplete or changed as
\* long as no other acquires a newer one, nor while it holds the mutex.
THEOREM NoTearing == Spec => []NoTornFrame
<1>1. Init => IInv
  BY InitIInv
<1>2. IInv /\ [Next]_vars => IInv'
  BY NextIInv
<1>3. IInv => NoTornFrame
  BY DEF IInv, Reading, Frames, NoTornFrame, Found
<1> QED
  BY <1>1, <1>2, <1>3, PTL DEF Spec

-----------------------------------------------------------------------------
(* Painting without capturing *)

NobodyIsOvertaken == overtaken = {} /\ shown = painted

LEMMA AloneKept ==
    ASSUME Capturers = {}, IInv, NobodyIsOvertaken, [Next]_vars
    PROVE  NobodyIsOvertaken'
<1> USE DEF NobodyIsOvertaken, screen, hold
<1>0. PaintingInv /\ Reading /\ ThreadTypes
  BY Parts DEF IInv, PresenterInv
<1>1. CASE Consumes
  <2>1. PICK t \in Threads : Acquires(t)
    BY <1>1 DEF Consumes
  <2>2. t \in Painters /\ at[t] = "consume"
    BY <2>1 DEF Acquires, Threads
  <2>3. ASSUME NEW u \in Threads, held[u] # NoImage
        PROVE  FALSE
    <3>1. u \in Painters /\ at[u] \in {"reading", "present"}
      BY <1>0, <2>3 DEF Reading, Threads
    <3>2. u # t
      BY <2>2, <3>1
    <3> QED
      BY <1>0, <2>2, <3>1, <3>2 DEF PaintingInv, GuestPaints, UIPaints, Painters
  <2> QED
    BY <2>1, <2>3 DEF Acquires, Acquire
<1>2. CASE Presents
  BY <1>2 DEF Presents, Present, Presented, NotPresented, LetGo
<1>3. CASE Requests \/ Reads \/ Trigger
  BY <1>3 DEF Requests, Reads, Exchange, Invalidate, EndRead, EndCapture, LetGo, Trigger
<1>4. CASE Refreshes \/ Publishes
  BY <1>4 DEF Refreshes, Refresh, Refreshed, RefreshFails, Publishes, Publish, TakeWritable
<1>5. CASE Connects \/ UIPaint
  BY <1>5 DEF Connects, Reconnect, Connect, UIPaint, OnPaint, TakePainting, Settle, Finish
<1>6. CASE Surfaces \/ Changes \/ UNCHANGED vars
  BY <1>6 DEF Surfaces, LoseSurface, GetSurface, Resize, Changes, Configure, ChangeDrawers,
             RunDrawers, vars
<1> QED
  BY <1>1, <1>2, <1>3, <1>4, <1>5, <1>6, Steps

\* While nobody captures, no consumer is ever overtaken: what is on the screen
\* is what was painted by the rules, without exception.
THEOREM PaintersAlone ==
    ASSUME Capturers = {}
    PROVE  Spec => []NobodyIsOvertaken
<1>1. Init => IInv /\ NobodyIsOvertaken
  BY InitIInv DEF Init, NobodyIsOvertaken
<1>2. IInv /\ NobodyIsOvertaken /\ [Next]_vars => IInv' /\ NobodyIsOvertaken'
  BY NextIInv, AloneKept
<1> QED
  BY <1>1, <1>2, PTL DEF Spec

-----------------------------------------------------------------------------
LEMMA InitLatest == Init => Newest!Init
BY DEF Init, Newest!Init, Indices

LEMMA StepLatest ==
    ASSUME IInv, [Next]_vars
    PROVE  [Newest!Next]_<<image[ready_], image[acquired_], painted>>
<1> USE ThreadNames DEF Newest!Next, images, mailbox, screen
<1>0. /\ Screen /\ ThreadTypes /\ MailboxTypes /\ MailboxInv /\ Frames /\ Reading
  BY Parts DEF IInv, PresenterInv
<1>1. CASE Consumes
  BY <1>0, <1>1 DEF Consumes, Acquires, Acquire, Newest!Take
<1>2. CASE Presents
  <2>1. PICK t \in Painters : Present(t)
    BY <1>2 DEF Presents
  <2>2. t \notin overtaken => Found(t) = seen[t] /\ seen[t] \in painted .. image[acquired_]
    BY <1>0, <2>1 DEF Present, Found, Reading, Screen, Paints, ThreadTypes, MailboxTypes, Frames,
                     Indices, Torn
  <2>3. /\ painted' = painted \/ (painted' = Found(t) /\ t \notin overtaken)
        /\ UNCHANGED <<image, ready_, acquired_>>
    BY <2>1 DEF Present, Presented, NotPresented
  <2> QED
    BY <2>2, <2>3 DEF Newest!Show
<1>3. CASE Requests \/ Reads \/ Trigger
  BY <1>3 DEF Requests, Reads, Exchange, Invalidate, EndRead, EndCapture, LetGo, Trigger
<1>4. CASE Refreshes
  BY <1>0, <1>4 DEF Refreshes, Refresh, Refreshed, RefreshFails, MailboxInv, MailboxTypes, Indices
<1>5. CASE Publish
  BY <1>0, <1>5 DEF Publish, Newest!Publish, Frames
<1>6. CASE TakeWritable
  BY <1>6 DEF TakeWritable
<1>7. CASE Connects \/ UIPaint
  BY <1>7 DEF Connects, Reconnect, Connect, UIPaint, OnPaint, TakePainting, Settle, Finish
<1>8. CASE Surfaces
  BY <1>8 DEF Surfaces, LoseSurface, GetSurface, Resize, Newest!Blank
<1>9. CASE Changes \/ UNCHANGED vars
  BY <1>9 DEF Changes, Configure, ChangeDrawers, RunDrawers, vars
<1> QED
  BY <1>1, <1>2, <1>3, <1>4, <1>5, <1>6, <1>7, <1>8, <1>9, Steps DEF Publishes

\* Presenter implements LatestFrame: consumers take the newest frame that was
\* published, and the screen never goes back to an older one, apart from what is
\* painted by a thread that was overtaken.
THEOREM LatestFrameRefinement == Spec => ImplementsLatestFrame
<1>1. Init => IInv /\ Newest!Init
  BY InitIInv, InitLatest
<1>2. IInv /\ [Next]_vars => IInv' /\ [Newest!Next]_<<image[ready_], image[acquired_], painted>>
  BY NextIInv, StepLatest
<1> QED
  BY <1>1, <1>2, PTL DEF Spec, ImplementsLatestFrame, Newest!Spec
=============================================================================
