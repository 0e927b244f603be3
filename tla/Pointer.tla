------------------------------ MODULE Pointer ------------------------------
(***************************************************************************)
(* The pointer of buffr-app: what the handlers of the main window          *)
(* (event_loop.rs) and of popup windows (main.rs) do with moves, buttons   *)
(* and scrolling, the swipe detector they share, and the momentum that     *)
(* follows a scroll.                                                       *)
(*                                                                         *)
(* The compositor grabs the pointer while a button is held, so a release   *)
(* goes to the surface of its press.  What a click on the tab strip does   *)
(* to tabs is in Tabs.                                                     *)
(*                                                                         *)
(* A definition named X_mistake is X as a plausible bug would have it.     *)
(***************************************************************************)
EXTENDS Integers

CONSTANTS
  PopupWindows,  \* popup windows
  None,          \* no button, no position
  Scale,         \* current_scale()
  Columns,       \* bound: the columns of the page, in pixels
  DragThreshold, \* DRAG_THRESHOLD_PX
  Threshold,     \* HORIZ_THRESHOLD, in scroll events
  MaxSpeed,      \* bound: velocity of a scroll, in steps of its decay
  MaxActs        \* bound: presses and scroll events in a behaviour

Main == "main"
Surfaces == {Main} \cup PopupWindows
Buttons == {"left", "middle", "right"}

VARIABLES
  over,      \* the surface the pointer is over, and where: "strip" (main
             \* only) or "page"; x: its column
  held,      \* the surface and the button the user holds; None
  bits,      \* per surface: osr_mouse_buttons
  click,     \* of Main: count, button (osr_last_click_button), recent: is it
             \* less than DOUBLE_CLICK_WINDOW ago?  Popups have the same.
  dragStart, \* osr_drag_start, in pixels
  dragSrc,   \* tab_drag_src is set
  visual,    \* is the mode Visual?
  modal,     \* "none", "confirm" or "menu": confirm_close_pinned, context_menu
  swipe,     \* swipe and swipe_surface: surface, x, y, committed
  travel,    \* history: how far the gesture on its surface came, how often
             \* it navigated, and how far it had come then
  speed,     \* osr_wheel_velocity; 0 also when osr_wheel_last_at is None
  acts       \* presses and scroll events so far

vars == <<over, held, bits, click, dragStart, dragSrc, visual, modal,
          swipe, travel, speed, acts>>

NoSwipe == [surface |-> None, x |-> 0, y |-> 0, committed |-> FALSE]
NoTravel == [x |-> 0, navigated |-> 0, paid |-> 0]

Init ==
  /\ over = [surface |-> Main, place |-> "page", x |-> CHOOSE x \in Columns : TRUE]
  /\ held = [surface |-> None, button |-> None]
  /\ bits = [s \in Surfaces |-> {}]
  /\ click = [count |-> 1, button |-> None, recent |-> FALSE]
  /\ dragStart = None /\ dragSrc = FALSE /\ visual = FALSE
  /\ modal = "none"
  /\ swipe = NoSwipe /\ travel = NoTravel
  /\ speed = 0 /\ acts = 0

scrollVars == <<swipe, travel, speed>>

Acts == acts < MaxActs /\ acts' = acts + 1

Distance(a, b) == IF a > b THEN a - b ELSE b - a

\* physical_cursor_to_dip
Dip(x) == x \div Scale

(***************************************************************************)
(* Moves.                                                                  *)
(***************************************************************************)
\* WindowEvent::PointerMoved: over an open menu the page does not hear of it;
\* a held left button that goes far enough selects.
Moved ==
  \E s \in Surfaces, place \in {"strip", "page"}, x \in Columns, inMenu \in BOOLEAN :
    LET to == Dip(x)
        drags == /\ s = Main /\ ~inMenu
                 /\ "left" \in bits[Main] /\ dragStart # None
                 /\ Distance(to, dragStart) > DragThreshold
    IN
    /\ held.surface \in {None, s}
    /\ place = "strip" => s = Main
    /\ inMenu => s = Main /\ modal = "menu"
    /\ over' = [surface |-> s, place |-> place, x |-> x]
    /\ visual' = (visual \/ drags)
    /\ dragStart' = IF drags THEN None ELSE dragStart
    /\ UNCHANGED <<held, bits, click, dragSrc, modal, scrollVars, acts>>

(***************************************************************************)
(* Buttons.                                                                *)
(***************************************************************************)
\* A press counts on from the last one of its button, up to 3.
Clicked(c, b) ==
  [count  |-> IF c.button = b /\ c.recent THEN (IF c.count < 3 THEN c.count + 1 ELSE 3) ELSE 1,
   button |-> b, recent |-> TRUE]

\* The user presses b.
Press(b) ==
  /\ held.button = None
  /\ held' = [surface |-> over.surface, button |-> b]
  /\ Acts
  /\ UNCHANGED <<over, scrollVars>>

\* handle_popup_window_event
PressInPopup(b) ==
  LET s == over.surface IN
  /\ s # Main /\ Press(b)
  /\ bits' = [bits EXCEPT ![s] = @ \cup {b}]
  /\ UNCHANGED <<click, dragStart, dragSrc, visual, modal>>

\* window_event: the press of a modal, of the strip or of the page.  The
\* dialog keeps a left press, and the menu every one.
PressInDialog(b) ==
  /\ over.surface = Main /\ modal = "confirm" /\ b = "left" /\ Press(b)
  /\ modal' \in {"confirm", "none"}
  /\ UNCHANGED <<bits, click, dragStart, dragSrc, visual>>

PressInMenu(b) ==
  /\ over.surface = Main /\ modal = "menu" /\ Press(b)
  /\ modal' = "none"
  /\ UNCHANGED <<bits, click, dragStart, dragSrc, visual>>

ToPage(b) == over.surface = Main /\ (modal = "none" \/ (modal = "confirm" /\ b # "left"))

PressInStrip(b) ==
  /\ ToPage(b) /\ over.place = "strip" /\ Press(b)
  /\ dragSrc' = (dragSrc \/ b = "left")
  /\ modal' \in (CASE b = "right" -> {"menu"} [] b = "middle" -> {modal, "confirm"}
                   [] b = "left" -> {modal})
  /\ UNCHANGED <<bits, click, dragStart, visual>>

PressInPage(b) ==
  /\ ToPage(b) /\ over.place = "page" /\ Press(b)
  /\ bits' = [bits EXCEPT ![Main] = @ \cup {b}]
  /\ click' = Clicked(click, b)
  /\ dragStart' = IF b = "left" THEN over.x ELSE dragStart
  /\ UNCHANGED <<dragSrc, visual, modal>>

\* The page hears of a release whatever is open by now.
Heard_unless_modal(s, b) == s # Main \/ ToPage(b)

Heard(s, b) == TRUE

\* A left release that ends a drag of a tab on another tab goes no further.
DropsTab == dragSrc /\ held.button = "left" /\ held.surface = Main /\ over.place = "strip"

ReleaseTab ==
  /\ DropsTab
  /\ held' = [surface |-> None, button |-> None]
  /\ dragSrc' = FALSE
  /\ UNCHANGED <<over, bits, click, dragStart, visual, modal, scrollVars, acts>>

\* Any other one clears the bit; a left one was a click if no drag selected.
Release ==
  LET s == held.surface
      b == held.button
      clicked == s = Main /\ b = "left" /\ dragStart # None
  IN
  /\ b # None
  /\ held' = [surface |-> None, button |-> None]
  /\ dragSrc' = (dragSrc /\ ~(s = Main /\ b = "left"))
  /\ IF Heard(s, b)
     THEN /\ bits' = [bits EXCEPT ![s] = @ \ {b}]
          /\ dragStart' = IF s = Main /\ b = "left" THEN None ELSE dragStart
          /\ visual' = IF clicked THEN click.count >= 2 ELSE visual
     ELSE UNCHANGED <<bits, dragStart, visual>>
  /\ UNCHANGED <<over, click, modal, scrollVars, acts>>

\* DOUBLE_CLICK_WINDOW passes.
ClickAges ==
  /\ click.recent
  /\ click' = [click EXCEPT !.recent = FALSE]
  /\ UNCHANGED <<over, held, bits, dragStart, dragSrc, visual, modal,
                 scrollVars, acts>>

(***************************************************************************)
(* Scrolling.                                                              *)
(***************************************************************************)

Begun(s) == IF swipe.surface = s THEN swipe ELSE [NoSwipe EXCEPT !.surface = s]

\* SwipeDetector::feed.  gap: more than GAP has passed.
Fed(d, x, y, gap) ==
  LET now == IF gap THEN [d EXCEPT !.x = 0, !.y = 0, !.committed = FALSE] ELSE d IN
  [now EXCEPT !.x = @ + x, !.y = @ + y]

Commits(d) ==
  /\ ~d.committed
  /\ Distance(d.x, 0) >= Threshold
  /\ Distance(d.x, 0) > 2 * Distance(d.y, 0)

\* WindowEvent::Scroll by a touchpad: it swipes, or else the page scrolls.
ScrollByFinger ==
  \E x \in {-1, 0, 1}, y \in {0, 1}, gap \in BOOLEAN, v \in 0..MaxSpeed :
    LET s == over.surface
        fed == Fed(Begun(s), x, y, gap)
        goesOn == swipe.surface = s /\ ~gap
        so == IF goesOn THEN travel ELSE NoTravel
        scroll == ~Commits(fed) /\ ~fed.committed
    IN
    /\ Acts
    /\ (x = 0) # (y = 0)
    /\ swipe' = IF Commits(fed) THEN [fed EXCEPT !.committed = TRUE] ELSE fed
    /\ travel' = IF Commits(fed)
                 THEN [x |-> so.x + x, navigated |-> so.navigated + 1,
                       paid |-> Distance(so.x + x, 0)]
                 ELSE [so EXCEPT !.x = @ + x]
    /\ IF scroll /\ s = Main THEN speed' = v ELSE v = 0 /\ UNCHANGED speed
    /\ UNCHANGED <<over, held, bits, click, dragStart, dragSrc, visual, modal>>

\* A wheel has no momentum.
ScrollByWheel ==
  /\ Acts
  /\ speed' = IF over.surface = Main THEN 0 ELSE speed
  /\ UNCHANGED <<over, held, bits, click, dragStart, dragSrc, visual, modal,
                 swipe, travel>>

\* tick_wheel_momentum
TickMomentum ==
  /\ speed > 0
  /\ speed' = speed - 1
  /\ UNCHANGED <<over, held, bits, click, dragStart, dragSrc, visual, modal,
                 swipe, travel, acts>>

\* The page opens a menu, or a key the dialog, at any time.
OpenModal ==
  /\ modal = "none"
  /\ modal' \in {"menu", "confirm"}
  /\ UNCHANGED <<over, held, bits, click, dragStart, dragSrc, visual,
                 scrollVars, acts>>

Next ==
  \/ Moved \/ Release \/ ReleaseTab \/ OpenModal
  \/ \E b \in Buttons :
       \/ PressInPopup(b) \/ PressInDialog(b) \/ PressInMenu(b)
       \/ PressInStrip(b) \/ PressInPage(b)
  \/ ClickAges
  \/ ScrollByFinger \/ ScrollByWheel \/ TickMomentum

Spec == Init /\ [][Next]_vars

(***************************************************************************)
(* Properties.                                                             *)
(***************************************************************************)
\* A button the page is told of is one the user still holds there, though a
\* dialog or a menu may open between press and release; and a swipe
\* navigates once, for scrolling enough on the surface it navigates.
GesturesAreTheUsers ==
  /\ \A s \in Surfaces : bits[s] \subseteq (IF held.surface = s THEN {held.button} ELSE {})
  /\ travel.navigated <= 1
  /\ travel.paid >= Threshold * travel.navigated
=============================================================================
