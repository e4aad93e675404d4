---------------------------- MODULE DeltaReview -----------------------------
(***************************************************************************)
(* The review of the changes on an architecture delta page: one change is  *)
(* shown at a time, by hand or by a playback that a timer drives.  Events  *)
(* of the user and of the page come between any two ticks of the timer.    *)
(***************************************************************************)
EXTENDS Integers, FiniteSets

CONSTANTS
  Rows,       \* how many changes the page lists
  MaxEvents   \* the events of the user and the page a behaviour has

ReviewAssumption == Rows \in Nat \ {0} /\ MaxEvents \in Nat

VARIABLES
  available,   \* reviewAvailable: rows and drawing agree
  activeIndex, \* the change that is shown, -1 for the overview
  marked,      \* the rows whose targets carry data-delta-review-current
  shown,       \* the view: "base", "delta", "head"
  playing,
  token,       \* playbackToken
  timers,      \* the tokens of the timeouts that are to come
  reduced,     \* the reader prefers reduced motion
  damaged,     \* the rows whose targets are no longer those of the receipt
  pressed,     \* the button under a mouse button that is down, "" when none
  focus,       \* the button that has the focus
  events

page == <<available, activeIndex, marked, shown, playing, token, timers>>
world == <<reduced, damaged, pressed, focus, events>>
vars == <<page, world>>

Last == Rows - 1
Buttons == {"play", "next", "previous", "overview", "tab"}
-----------------------------------------------------------------------------
Init ==
  /\ available \in BOOLEAN
  /\ activeIndex = -1 /\ marked = {} /\ shown = "delta"
  /\ playing = FALSE /\ token = 0 /\ timers = {}
  /\ reduced \in BOOLEAN /\ damaged = {} /\ pressed = "" /\ focus = "" /\ events = 0

(* The functions of the page, on a record of its state.                    *)

Page ==
  [available |-> available, activeIndex |-> activeIndex, marked |-> marked, shown |-> shown,
   playing |-> playing, token |-> token, timers |-> timers]

Becomes(s) ==
  /\ available' = s.available /\ activeIndex' = s.activeIndex /\ marked' = s.marked
  /\ shown' = s.shown /\ playing' = s.playing /\ token' = s.token /\ timers' = s.timers

(* Mutant: the timeout is left to run out.                                 *)
StopPlaybackLeaving(s) == [s EXCEPT !.playing = FALSE]

(* stopPlayback: clearTimeout of the only timeout there is.                *)
StopPlayback(s) == [s EXCEPT !.token = @ + 1, !.timers = {}, !.playing = FALSE]

FailReview(s) ==
  [StopPlayback(s) EXCEPT !.available = FALSE, !.activeIndex = -1, !.marked = {}]

Overview(s) ==
  IF ~s.available THEN FailReview(s)
  ELSE [StopPlayback(s) EXCEPT !.activeIndex = -1, !.marked = {}, !.shown = "delta"]

Selectable(s, i) == s.available /\ i \in 0..Last

(* selectChange: targetsMatch is asked again for every change.             *)
SelectChange(s, i) ==
  IF ~Selectable(s, i) THEN s
  ELSE IF i \in damaged THEN FailReview(s)
  ELSE [s EXCEPT !.shown = "delta", !.activeIndex = i, !.marked = {i}]

Selected(s, i) == Selectable(s, i) /\ i \notin damaged

(* schedulePlayback *)
SchedulePlayback(s, t) ==
  IF s.activeIndex >= Last THEN StopPlayback(s)
  ELSE IF s.playing /\ t = s.token THEN [s EXCEPT !.timers = @ \cup {t}] ELSE s

StartReview(s) ==
  IF ~s.available THEN s
  ELSE IF s.playing THEN StopPlayback(s)
  ELSE LET first == SelectChange(StopPlayback(s), 0)
       IN IF ~Selected(s, 0) \/ reduced \/ Rows < 2 THEN first
          ELSE SchedulePlayback([first EXCEPT !.playing = TRUE, !.token = @ + 1],
                                first.token + 1)
-----------------------------------------------------------------------------
(* The timeout of a playback: it does nothing when the playback was        *)
(* stopped or replaced.                                                    *)
Tick ==
  \E t \in timers :
    /\ LET fired == [Page EXCEPT !.timers = @ \ {t}]
       IN Becomes(IF ~playing \/ t # token THEN fired
                  ELSE IF ~Selected(fired, activeIndex + 1)
                       THEN SelectChange(fired, activeIndex + 1)
                       ELSE SchedulePlayback(SelectChange(fired, activeIndex + 1), t))
    /\ UNCHANGED world

Event == events < MaxEvents /\ events' = events + 1

(* The mouse goes down on a button, which takes the focus: "focusin" stops *)
(* a playback.                                                             *)
Press(b) ==
  /\ Event /\ pressed = ""
  /\ pressed' = b /\ focus' = b
  /\ Becomes(IF focus # b /\ playing THEN StopPlayback(Page) ELSE Page)
  /\ UNCHANGED <<reduced, damaged>>

(* The click that follows, with what its listener does.                    *)
Handled(b) ==
  CASE b = "play" -> StartReview(Page)
    [] b = "next" -> IF activeIndex \in 0..(Last - 1)
                     THEN SelectChange(StopPlayback(Page), activeIndex + 1) ELSE Page
    [] b = "previous" -> IF activeIndex > 0
                         THEN SelectChange(StopPlayback(Page), activeIndex - 1) ELSE Page
    [] b = "overview" -> IF activeIndex >= 0 THEN Overview(Page) ELSE Page
    [] b = "tab" -> [StopPlayback(Page) EXCEPT !.shown = "base"]

Click ==
  /\ Event /\ pressed # ""
  /\ Becomes(IF available \/ pressed = "tab" THEN Handled(pressed) ELSE Page)
  /\ pressed' = ""
  /\ UNCHANGED <<reduced, damaged, focus>>

ClickRow(i) ==
  /\ Event /\ available
  /\ Becomes(SelectChange(StopPlayback(Page), i))
  /\ focus' = "row"
  /\ UNCHANGED <<reduced, damaged, pressed>>

(* The focus goes to nothing that is a button.                             *)
Blur ==
  /\ Event /\ focus' = ""
  /\ UNCHANGED <<page, reduced, damaged, pressed>>

(* The page is hidden, or an arrow key moves between the rows.             *)
Interrupt ==
  /\ Event /\ Becomes(StopPlayback(Page))
  /\ UNCHANGED <<reduced, damaged, pressed, focus>>

(* Escape goes back to the overview; so does printing.                     *)
Escape ==
  /\ Event /\ activeIndex >= 0
  /\ Becomes(Overview(Page))
  /\ focus' = "play"
  /\ UNCHANGED <<reduced, damaged, pressed>>

BeforePrint ==
  /\ Event /\ Becomes(Overview(Page))
  /\ UNCHANGED <<reduced, damaged, pressed, focus>>

PreferReducedMotion ==
  /\ Event /\ reduced' = ~reduced
  /\ Becomes(IF reduced' THEN StopPlayback(Page) ELSE Page)
  /\ UNCHANGED <<damaged, pressed, focus>>

(* Something else on the page changes the drawing.                         *)
Damage(i) ==
  /\ Event /\ damaged' = damaged \cup {i}
  /\ UNCHANGED <<page, reduced, pressed, focus>>

Next ==
  \/ Tick \/ Click \/ Blur \/ Interrupt \/ Escape \/ BeforePrint \/ PreferReducedMotion
  \/ \E b \in Buttons : Press(b)
  \/ \E i \in 0..Last : ClickRow(i) \/ Damage(i)

(* A timeout fires.                                                        *)
Spec == Init /\ [][Next]_vars /\ WF_vars(Tick)
-----------------------------------------------------------------------------
(* A playback has one timeout to come, and a page that does not play has   *)
(* none: nothing moves by itself after a stop.                             *)
OneTimeout == timers = IF playing THEN {token} ELSE {}

(* What is marked is the change that is shown, and it is marked only on a  *)
(* page whose review is available and whose delta view was opened with it. *)
OneMark ==
  /\ marked = IF activeIndex >= 0 THEN {activeIndex} ELSE {}
  /\ ~available => activeIndex = -1 /\ ~playing

(* Both at once, whatever clicks, keys, focus, visibility and ticks do.    *)
ReviewIsSingle == OneTimeout /\ OneMark

(* A playback ends: at the last change, or at one that cannot be shown.    *)
PlaybackEnds == playing ~> ~playing
=============================================================================
