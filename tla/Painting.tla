------------------------------ MODULE Painting ------------------------------
(***************************************************************************)
(* How the window of buffr-app gets its pixels: paint_chrome_with and the  *)
(* timers of about_to_wait (main.rs, event_loop.rs, paint_policy.rs), the  *)
(* Renderer and its worker thread (render.rs), and as much of the engine's *)
(* off-screen rendering as they see (buffr-cef host.rs, osr.rs).           *)
(*                                                                         *)
(* Three parties run on their own: the event loop, the render worker that  *)
(* holds the one surface texture until the compositor takes it, and the    *)
(* engine.  The window sleeps when the compositor says that it is hidden,  *)
(* or when presents take so long that it must be; in the second case a     *)
(* probe paints one frame from time to time to find out.                   *)
(*                                                                         *)
(* A deadline is a flag: armed, and due whenever the loop finds it so.  A  *)
(* duration is one of four levels.  The page's rectangle is the window's   *)
(* size, chrome is one flag (chrome_generation # last_painted_chrome_gen). *)
(* A generation is known by whether it was consumed.                       *)
(*                                                                         *)
(* A definition named X_mistake is X as a plausible bug would have it.     *)
(***************************************************************************)
EXTENDS Naturals, Sequences, FiniteSets

CONSTANTS
  Sizes,          \* sizes the compositor gives the window
  None,           \* no size, no frame, no sample
  HistorySize,    \* PRESENT_HISTORY_SIZE
  SlowToOcclude,  \* SLOW_FRAMES_TO_OCCLUDE
  MaxRetries,     \* ResizePaintWatchdog::MAX_RETRIES
  MaxEvents       \* bound: happenings from outside in a behaviour

\* Durations as the code tells them apart: below FAST_PRESENT_THRESHOLD_US,
\* above SLOW_, above IMMEDIATE_OCCLUDE_THRESHOLD_US.  One between the first
\* two is as good as fast to an active window and as slow to a sleeping one.
Levels == {"fast", "slow", "stuck"}

VARIABLES
  \* The compositor and the user.
  shown,      \* can the surface be seen?
  says,       \* does this compositor send Occluded events?
  told,       \* what the last Occluded event said (TRUE: shown)
  size,       \* physical_size of the window
  resized,    \* a Resized event is on its way
  events,     \* happenings so far
  \* The application.
  win,        \* occluded, policy, history, probeAt; and redraw: a
              \* RedrawRequested event is on its way; of the active tab in the
              \* engine, hidden (was_hidden) and owed (it is to paint again)
  sleepAt,    \* sleep_deadline is set
  probing,    \* probe_pending
  dirty,      \* the chrome on the GPU is not the chrome of now
  retry,      \* repaint_retry_at is set
  drifted,    \* surface_drifted
  anim,       \* loading_anim_active, and loading_anim_next_wake is set
  middle,     \* chrome_middle_on_gpu, of the animation only
  debounce,   \* pending_cef_resize is armed
  watchdog,   \* resize_paint_watchdog: size it waits for, nudges so far
  page,       \* dims: last_osr_dims, len: of osr_scratch, stale:
              \* osr_gpu_stale; onGpu: history, the texture holds osr_scratch
  \* The engine.
  view,       \* osr_view: the size it was last asked for
  rendering,  \* size of a frame between the engine and on_paint
  frame,      \* SharedOsrFrame: dims, len of its buffer, unseen, needsFresh
  newest,     \* history: which buffer holds the younger pixels
  \* The renderer.
  rend,       \* size, pending (resize), inFlight, last (submit_done_us)
  worker,     \* the frame last handed to the worker, until the loop learns
              \* that it is presented: was the window ever hidden meanwhile?
  screen,     \* size of that frame
  clash       \* history: the surface was touched under the worker's texture

outside == <<shown, says, told, size, resized, events>>
appVars == <<win, sleepAt, probing, dirty, retry, drifted, anim, middle, debounce,
             watchdog, page>>
engineVars == <<view, rendering, frame, newest>>
rendVars == <<rend, worker, screen, clash>>
vars == <<outside, appVars, engineVars, rendVars>>

Init ==
  /\ shown = TRUE /\ says \in BOOLEAN /\ told = TRUE
  /\ size = (CHOOSE s \in Sizes : TRUE) /\ resized = FALSE /\ events = 0
  /\ win = [occluded |-> FALSE, policy |-> "active", history |-> <<>>,
            probeAt |-> FALSE, hidden |-> FALSE, owed |-> TRUE, redraw |-> TRUE]
  /\ sleepAt = FALSE /\ probing = FALSE /\ dirty = TRUE /\ retry = FALSE
  /\ drifted = FALSE /\ anim = FALSE /\ middle = FALSE /\ debounce = FALSE
  /\ watchdog = [for |-> None, nudges |-> 0]
  /\ page = [dims |-> None, len |-> None, stale |-> FALSE, onGpu |-> FALSE]
  /\ view = size /\ rendering = None /\ newest = "scratch"
  /\ frame = [dims |-> size, len |-> None, unseen |-> FALSE, needsFresh |-> FALSE]
  /\ rend = [size |-> size, pending |-> FALSE, inFlight |-> FALSE, last |-> "fast"]
  /\ worker = None /\ screen = None
  /\ clash = FALSE

(***************************************************************************)
(* The sleep policy.  w is the record win under way.                       *)
(***************************************************************************)
\* recompute_paint_policy with decide_paint_policy
Recomputed(w) ==
  LET policy == IF w.occluded THEN "sleeping" ELSE "active" IN
  IF policy = w.policy THEN w
  ELSE [w EXCEPT !.policy = policy,
                 !.hidden = w.occluded,
                 !.owed = @ \/ ~w.occluded,
                 !.redraw = @ \/ ~w.occluded]

\* record_present_us
Recorded(history, us) ==
  LET all == Append(history, us \in {"slow", "stuck"}) IN
  IF Len(all) > HistorySize THEN Tail(all) ELSE all

\* detect_occluded_from_history
SlowOnTheWhole(history) ==
  Cardinality({i \in DOMAIN history : history[i]}) >= SlowToOcclude

Revealed(w) == [w EXCEPT !.occluded = FALSE, !.history = <<>>, !.probeAt = FALSE]

\* observe_present_us
Observed(w, us) ==
  LET history == Recorded(w.history, us) IN
  IF w.policy = "sleeping"
  THEN IF us = "fast"
       THEN Recomputed(Revealed(w))
       ELSE [w EXCEPT !.history = history, !.probeAt = TRUE, !.hidden = TRUE]
  ELSE IF ~w.occluded /\ (us = "stuck" \/ SlowOnTheWhole(history))
  THEN Recomputed([w EXCEPT !.history = history, !.occluded = TRUE, !.probeAt = TRUE])
  ELSE [w EXCEPT !.history = history]

(***************************************************************************)
(* The renderer, on the event loop's side.                                 *)
(***************************************************************************)
\* What the worker can have reported by now: nothing, or the times of its
\* frame.  A surface in view takes its buffers at once.  (The thread shows
\* itself nowhere else, so its steps are chosen where the loop looks.)
Reports(job) ==
  {None} \cup
  (CASE job = None -> {}
     [] job = "seen" -> {[present |-> "fast", submit |-> "fast"]}
     [] job = "hid" -> {[present |-> p, submit |-> "fast"] : p \in Levels}
                         \cup {[present |-> "fast", submit |-> "stuck"]})

\* poll_present_stats
Drained(r, report) ==
  IF report = None THEN r
  ELSE [r EXCEPT !.inFlight = FALSE, !.last = report.submit]

\* Renderer::resize: with a texture out, the configure waits.
Sized(r, to) ==
  IF to = r.size THEN r
  ELSE [r EXCEPT !.size = to, !.pending = @ \/ r.inFlight]

Configures(r, to) == to # r.size /\ ~r.inFlight

\* is_osr_frame_fresh
Fresh_of_any_generation ==
  /\ ~frame.needsFresh
  /\ frame.dims = view
  /\ frame.len = frame.dims

Fresh ==
  /\ ~frame.needsFresh
  /\ frame.dims = view
  /\ frame.len = frame.dims
  /\ frame.unseen

(***************************************************************************)
(* One paint: paint_chrome_with and paint_chrome_inner.  before is win as  *)
(* the handler left it, isDirty and drift the flags, to the size painted,  *)
(* more whether another Resized event waits.                               *)
(***************************************************************************)
\* paint_chrome_with: a probe that reached no GPU is made again.
Spent_lost(w, submitted) == w

Spent(w, submitted) ==
  [w EXCEPT !.probeAt =
     @ \/ (probing /\ ~submitted /\ w.policy = "sleeping")]

\* mem::swap of osr_scratch and the shared pixels, if these are fresh.
Swap(fresh) ==
  frame' = IF fresh THEN [frame EXCEPT !.len = page.len, !.unseen = FALSE] ELSE frame

\* should_show_loading_anim and the drift; the tolerance is left out.
WantsAnim(fresh, drift, to) ==
  (IF fresh THEN frame.dims ELSE page.dims) # to \/ drift

\* ResizePaintWatchdog::observe_paint
Watched(fresh) ==
  IF fresh /\ frame.dims = watchdog.for THEN [for |-> None, nudges |-> 0] ELSE watchdog

\* The sleep guard: nothing is painted.
PaintNothing(w, r, job, isDirty, drift) ==
  /\ w.policy = "sleeping" /\ ~drift /\ ~probing
  /\ win' = w /\ rend' = r /\ worker' = job
  /\ dirty' = isDirty /\ drifted' = drift
  /\ UNCHANGED <<size, resized, events, retry, anim, middle, watchdog, page, frame, newest,
                 screen, clash>>

\* Nothing has changed: the idle short-circuit.
PaintIdle(w, r, job, isDirty, drift, to) ==
  /\ ~isDirty /\ ~Fresh /\ ~WantsAnim(FALSE, drift, to) /\ ~anim
  /\ win' = Spent(w, FALSE)
  /\ rend' = Sized(r, to) /\ worker' = job
  /\ clash' = (clash \/ (job # None /\ Configures(r, to)))
  /\ dirty' = isDirty /\ drifted' = drift
  /\ UNCHANGED <<size, resized, events, retry, anim, middle, watchdog, page, frame, newest, screen>>

\* should_force_chrome_repaint: also to clear the animation away.
ForcesChrome(isDirty, wants) == isDirty \/ wants \/ anim

\* decide_paint_path says FreshOsr or SyntheticScratch.
ShowsPage(wants, dims) == ~wants /\ dims # None

\* Renderer::frame first applies a configure that had to wait.
Readied(r) == [r EXCEPT !.pending = @ /\ r.inFlight]

\* It reaches the worker if that is idle and a texture of the right size comes.
Submits(r, got) == ~r.inFlight /\ got

\* The page travels with the frame unless the texture has that generation.
PageAfter(fresh, shows, dims, submitted) ==
  [dims  |-> dims,
   len   |-> IF fresh THEN frame.len ELSE page.len,
   stale |-> IF shows THEN ~submitted ELSE page.stale,
   onGpu |-> \/ submitted /\ shows /\ (fresh \/ page.stale)
             \/ page.onGpu /\ ~fresh]

\* The render worker after the command.
JobAfter(job, holding, submitted) ==
  IF submitted THEN IF shown THEN "seen" ELSE "hid"
  ELSE IF holding THEN job ELSE None

\* decide_frame_commit: only a submitted frame retires the chrome, and any
\* other is retried.
Committed(submitted, forced, isDirty, wants) ==
  /\ dirty' = (isDirty /\ ~(submitted /\ forced))
  /\ middle' = IF submitted /\ forced THEN wants ELSE middle
  /\ retry' = ~submitted

\* The window has another size by now: paint again.
Drifts(to, live, more) ==
  /\ size' = live
  /\ resized' = (more \/ live # size)
  /\ drifted' = (live # to)

\* A frame is built and offered to the worker.  late is what the worker
\* reports while it is built, got whether a texture of the right size is
\* acquired, live the window's size at the end.
PaintFrame(w, r, job, isDirty, drift, to, more, late, got, live) ==
  LET wants == WantsAnim(Fresh, drift, to)
      dims == IF Fresh THEN frame.dims ELSE page.dims
      holding == job # None /\ late = None
      drained == Drained(Sized(r, to), late)
      ready == Readied(drained)
      submitted == Submits(ready, got)
      forced == ForcesChrome(isDirty, wants)
      seen == IF submitted THEN Observed(w, ready.last) ELSE w
  IN
  /\ events' = events + (IF got THEN 0 ELSE 1) + (IF live # size THEN 1 ELSE 0)
  /\ events' <= MaxEvents
  /\ Fresh \/ forced
  /\ got \/ ~ready.inFlight
  /\ Swap(Fresh)
  /\ newest' = IF Fresh THEN (IF newest = "frame" THEN "scratch" ELSE "frame") ELSE newest
  /\ watchdog' = Watched(Fresh)
  /\ page' = PageAfter(Fresh, ShowsPage(wants, dims), dims, submitted)
  /\ anim' = wants
  /\ Committed(submitted, forced, isDirty, wants)
  /\ rend' = [ready EXCEPT !.inFlight = @ \/ submitted]
  /\ worker' = JobAfter(job, holding, submitted)
  /\ screen' = IF submitted THEN to ELSE screen
  /\ clash' = (\/ clash
               \/ job # None /\ Configures(r, to)
               \/ holding /\ (drained.pending # ready.pending \/ submitted))
  /\ Drifts(to, live, more)
  /\ win' = Spent([seen EXCEPT !.redraw = @ \/ live # to], submitted)

Paint(before, isDirty, drift, to, more) ==
  /\ probing' = FALSE
  /\ \E early \in Reports(worker) :
       LET w == IF early = None THEN before ELSE Observed(before, early.present)
           r == Drained(rend, early)
           job == IF early = None THEN worker ELSE None
           asleep == w.policy = "sleeping" /\ ~drift /\ ~probing
       IN
       \/ PaintNothing(w, r, job, isDirty, drift)
       \/ ~asleep /\ PaintIdle(w, r, job, isDirty, drift, to)
       \/ /\ ~asleep
          /\ \E late \in Reports(job), got \in BOOLEAN, live \in Sizes :
               PaintFrame(w, r, job, isDirty, drift, to, more, late, got, live)
  /\ UNCHANGED <<shown, says, told, sleepAt, view, rendering>>

(***************************************************************************)
(* Window events.                                                          *)
(***************************************************************************)
\* WindowEvent::RedrawRequested
Redraw ==
  /\ win.redraw
  /\ Paint([win EXCEPT !.redraw = FALSE], dirty, drifted, size, resized)
  /\ UNCHANGED debounce

\* WindowEvent::Resized: paints in the handler.
Resized ==
  /\ resized
  /\ debounce' = TRUE
  /\ Paint(win, TRUE, TRUE, size, FALSE)

\* WindowEvent::Focused
Focused ==
  /\ events < MaxEvents /\ events' = events + 1
  /\ win' = [IF win.occluded THEN Recomputed(Revealed(win)) ELSE win
             EXCEPT !.redraw = TRUE]
  /\ UNCHANGED <<shown, says, told, size, resized, sleepAt, probing, dirty, retry,
                 drifted, anim, middle, debounce, watchdog, page, engineVars, rendVars>>

\* WindowEvent::Occluded
Occluded ==
  /\ says /\ told # shown
  /\ told' = shown
  /\ IF shown
     THEN /\ sleepAt' = FALSE
          /\ win' = [Recomputed(Revealed(win)) EXCEPT !.redraw = TRUE]
     ELSE /\ sleepAt' = TRUE
          /\ win' = Recomputed(win)
  /\ UNCHANGED <<shown, says, size, resized, events, probing, dirty, retry, drifted,
                 anim, middle, debounce, watchdog, page, engineVars, rendVars>>

\* record_force_repaint
Nudged ==
  IF watchdog.nudges + 1 >= MaxRetries
  THEN [for |-> None, nudges |-> 0]
  ELSE [watchdog EXCEPT !.nudges = @ + 1]

(***************************************************************************)
(* about_to_wait when deadline t is due.  Two that are due together act    *)
(* one after the other.                                                    *)
(***************************************************************************)
Deadlines == {"sleep", "probe", "anim", "resize", "watchdog", "retry"}

AboutToWait(t) ==
  /\ UNCHANGED <<outside, dirty, drifted, anim, middle, page, rendering, newest, rendVars>>
  /\ \/ /\ t = "sleep" /\ sleepAt
        /\ sleepAt' = FALSE
        /\ win' = Recomputed([win EXCEPT !.occluded = TRUE])
        /\ UNCHANGED <<probing, retry, debounce, watchdog, view, frame>>
     \/ /\ t = "probe" /\ win.probeAt /\ win.policy = "sleeping"
        /\ probing' = TRUE
        /\ win' = [win EXCEPT !.probeAt = FALSE, !.hidden = FALSE, !.owed = TRUE,
                              !.redraw = TRUE]
        /\ UNCHANGED <<sleepAt, retry, debounce, watchdog, view, frame>>
     \/ /\ t = "anim" /\ anim
        /\ win' = [win EXCEPT !.redraw = TRUE]
        /\ UNCHANGED <<sleepAt, probing, retry, debounce, watchdog, view, frame>>
     \/ /\ t = "resize" /\ debounce
        /\ debounce' = FALSE
        /\ view' = size
        /\ frame' = [frame EXCEPT !.needsFresh = TRUE]
        /\ watchdog' = [for |-> size, nudges |-> 0]
        /\ win' = [win EXCEPT !.owed = TRUE, !.redraw = TRUE]
        /\ UNCHANGED <<sleepAt, probing, retry>>
     \/ /\ t = "watchdog" /\ watchdog.for # None /\ win.policy = "active"
        /\ watchdog' = Nudged
        /\ win' = [win EXCEPT !.hidden = FALSE, !.owed = TRUE, !.redraw = TRUE]
        /\ UNCHANGED <<sleepAt, probing, retry, debounce, view, frame>>
     \/ /\ t = "retry" /\ retry
        /\ retry' = FALSE
        /\ win' = [win EXCEPT !.redraw = TRUE]
        /\ UNCHANGED <<sleepAt, probing, debounce, watchdog, view, frame>>

(***************************************************************************)
(* What the application does for other reasons.                            *)
(***************************************************************************)
\* mark_chrome_dirty and request_redraw
ChromeChanges ==
  /\ events < MaxEvents /\ events' = events + 1
  /\ dirty' = TRUE
  /\ win' = [win EXCEPT !.redraw = TRUE]
  /\ UNCHANGED <<shown, says, told, size, resized, sleepAt, probing, retry, drifted,
                 anim, middle, debounce, watchdog, page, engineVars, rendVars>>

\* The engine's set_active_index, then on_tab_switch.
SwitchTab ==
  /\ events < MaxEvents /\ events' = events + 1
  /\ page' = [page EXCEPT !.dims = None]
  /\ frame' = [frame EXCEPT !.unseen = FALSE]
  /\ dirty' = TRUE
  /\ win' = [win EXCEPT !.redraw = TRUE, !.hidden = FALSE, !.owed = TRUE]
  /\ UNCHANGED <<shown, says, told, size, resized, sleepAt, probing, retry, drifted,
                 anim, middle, debounce, watchdog, view, rendering, newest, rendVars>>

(***************************************************************************)
(* The engine and the compositor.                                          *)
(***************************************************************************)
\* The engine draws the page for the view it was given.
Render ==
  /\ win.owed /\ ~win.hidden /\ rendering = None
  /\ win' = [win EXCEPT !.owed = FALSE]
  /\ rendering' = view
  /\ UNCHANGED <<outside, sleepAt, probing, dirty, retry, drifted, anim, middle, debounce,
                 watchdog, page, view, frame, newest, rendVars>>

\* on_paint, and the wake that follows it.
OnPaint ==
  /\ rendering # None
  /\ rendering' = None
  /\ frame' = [dims |-> rendering, len |-> rendering, unseen |-> TRUE, needsFresh |-> FALSE]
  /\ newest' = "frame"
  /\ win' = [win EXCEPT !.redraw = TRUE]
  /\ UNCHANGED <<outside, sleepAt, probing, dirty, retry, drifted, anim, middle, debounce,
                 watchdog, page, view, rendVars>>

\* The page changes by itself.
PageChanges ==
  /\ events < MaxEvents /\ events' = events + 1
  /\ win' = [win EXCEPT !.owed = TRUE]
  /\ UNCHANGED <<shown, says, told, size, resized, sleepAt, probing, dirty, retry,
                 drifted, anim, middle, debounce, watchdog, page, engineVars, rendVars>>

\* The engine takes a resize for a repetition and paints nothing.
Swallow ==
  /\ events < MaxEvents /\ events' = events + 1
  /\ win.owed /\ watchdog.for # None
  /\ win' = [win EXCEPT !.owed = FALSE]
  /\ UNCHANGED <<shown, says, told, size, resized, sleepAt, probing, dirty, retry,
                 drifted, anim, middle, debounce, watchdog, page, engineVars, rendVars>>

ShowOrHide ==
  /\ events < MaxEvents /\ events' = events + 1
  /\ shown' = ~shown
  /\ worker' = IF worker = "seen" THEN "hid" ELSE worker
  /\ UNCHANGED <<says, told, size, resized, appVars, engineVars, rend, screen, clash>>

Resize ==
  /\ events < MaxEvents /\ events' = events + 1
  /\ size' \in Sizes \ {size}
  /\ resized' = TRUE
  /\ UNCHANGED <<shown, says, told, appVars, engineVars, rendVars>>

Next ==
  \/ Redraw \/ Resized \/ Occluded \/ Focused
  \/ \E t \in Deadlines : AboutToWait(t)
  \/ ChromeChanges \/ SwitchTab
  \/ Render \/ OnPaint \/ PageChanges \/ Swallow
  \/ ShowOrHide \/ Resize

Spec == Init /\ [][Next]_vars

(***************************************************************************)
(* Properties.                                                             *)
(***************************************************************************)
\* The surface is configured and asked for a texture only while the worker
\* holds none (wgpu panics otherwise): frames_in_flight and the deferred
\* resize see to it.
SurfaceIsFree == ~clash

\* The buffer osr_scratch has the length last_osr_dims says (else the upload overruns),
\* and pixels once consumed are not swapped back for older ones.
PixelsFit == /\ page.dims # None => page.len = page.dims
             /\ newest = "frame" => frame.unseen \/ frame.needsFresh \/ page.dims = None

\* The surface is free when it is touched, and what is shown fits.
FramesFit == SurfaceIsFree /\ PixelsFit

\* Nothing is under way: no event, no deadline but the animation's next
\* frame, no frame with the worker or the engine.
AtRest ==
  /\ ~win.redraw /\ ~resized /\ (says => told = shown)
  /\ ~sleepAt /\ ~win.probeAt /\ ~debounce /\ ~retry
  /\ watchdog.for = None \/ win.policy = "sleeping"
  /\ rendering = None /\ ~(win.owed /\ ~win.hidden)

\* A window in view never comes to rest asleep, with chrome, a size or the
\* page's first frame still to paint.
NothingIsForgotten ==
  AtRest /\ shown =>
    /\ win.policy = "active" /\ ~win.hidden
    /\ ~dirty /\ ~anim /\ screen = size

\* decide_frame_commit's comment: a skip still owes the user pixels, so it
\* schedules a retry.  What a skipped frame carried, the page's pixels or a
\* chrome without the animation, has arrived when the window is at rest.
SkippedFrameIsRetried ==
  AtRest /\ shown => page.onGpu /\ ~middle
=============================================================================
