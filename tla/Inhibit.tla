------------------------------ MODULE Inhibit -------------------------------
(***************************************************************************)
(* What keeps the screen on: the pages play, a probe and audio events tell *)
(* the application, its event loop decides at every turn (about_to_wait,   *)
(* [idle_inhibit]) and tells a worker thread over a small channel, without *)
(* ever waiting for it (buffr-core inhibit).                               *)
(*                                                                         *)
(* The engine is CEF or, on Linux, WebKit: they report audio differently. A *)
(* probe runs in the page and answers over the console when the answer     *)
(* differs from the last one it gave; both happen in one step here.  The   *)
(* settings are those of one run: AudioOnly and RequireFocus.              *)
(***************************************************************************)
EXTENDS Naturals, Sequences

CONSTANTS
  Tabs,           \* the tabs of the engine
  AudioOnly,      \* idle_inhibit.inhibit_audio_only
  RequireFocus,   \* idle_inhibit.require_focus
  CmdCap,         \* CMD_CAP of the worker's channel
  MaxStreams,     \* bound: audio streams of a page
  MaxChanges      \* bound: changes from outside

VARIABLES
  film,     \* the pages that play a video
  said,     \* __buffr_media_last_emit of each page: what it said last
  asked,    \* the pages a probe was sent to
  streams,  \* the audio streams of each page
  front,    \* the active tab
  flags,    \* of the engine: its kind, video_active and, WebKit only, audio_active
  heard,    \* whether audio events wait in the queue
  app,      \* the application: video_active, media_active, the window
  backend,  \* "worker" (Wayland, Windows) or "direct" (macOS)
  worker,   \* "up" or "down"
  cmds,     \* the channel
  held,     \* whether the system keeps the screen on for buffr
  active,   \* WorkerInhibitor::active, MacosInhibitor::active
  changes   \* changes from outside so far

pages == <<film, said, asked, streams>>
engine == <<flags, heard>>
inhibitor == <<backend, worker, cmds, held, active>>
vars == <<pages, front, engine, app, inhibitor, changes>>

Loud == {t \in Tabs : streams[t] > 0}

Init ==
  /\ film = {} /\ said = [t \in Tabs |-> "nothing"] /\ asked = {}
  /\ streams = [t \in Tabs |-> 0]
  /\ front \in Tabs
  /\ heard = FALSE
  /\ app = [up |-> TRUE, video |-> FALSE, media |-> FALSE, focused |-> TRUE, occluded |-> FALSE]
  /\ backend \in {"worker", "direct"}
  /\ \E webkit \in (IF backend = "worker" THEN BOOLEAN ELSE {FALSE}) :
       flags = [webkit |-> webkit, video |-> FALSE, audio |-> FALSE]
  /\ worker = IF backend = "worker" THEN "up" ELSE "down"
  /\ cmds = <<>> /\ held = FALSE /\ active = FALSE
  /\ changes = 0

-----------------------------------------------------------------------------
(* The pages and the window, from outside.                                 *)

Happens == changes < MaxChanges /\ changes' = changes + 1

FilmChanges(t) ==
  /\ Happens
  /\ film' = IF t \in film THEN film \ {t} ELSE film \cup {t}
  /\ UNCHANGED <<said, asked, streams, front, engine, app, inhibitor>>

\* An audio event is pushed when the page becomes loud or silent: the state
\* first, then the event (on_audio_stream_started, _stopped, _error;
\* on_audio_script_message).
EventAtEdge(t) == heard' = (heard \/ ((streams[t] > 0) # (streams'[t] > 0)))

StreamStarts(t) ==
  /\ Happens /\ streams[t] < MaxStreams
  /\ streams' = [streams EXCEPT ![t] = @ + 1]
  /\ EventAtEdge(t)
  /\ UNCHANGED <<film, said, asked, front, flags, app, inhibitor>>

\* decrement_stream stays at zero: a stop may come before its start.
StreamEnds(t) ==
  /\ Happens
  /\ streams' = [streams EXCEPT ![t] = IF @ = 0 THEN 0 ELSE @ - 1]
  /\ EventAtEdge(t)
  /\ UNCHANGED <<film, said, asked, front, flags, app, inhibitor>>

\* A page is replaced: its scripts go and its nonce, and with the nonce the
\* answers of probes on their way.
PageGoes(t) ==
  /\ film' = film \ {t}
  /\ said' = [said EXCEPT ![t] = "nothing"]
  /\ asked' = asked \ {t}
  /\ streams' = [streams EXCEPT ![t] = 0]

Navigates(t) ==
  /\ Happens /\ PageGoes(t) /\ EventAtEdge(t)
  /\ UNCHANGED <<front, flags, app, inhibitor>>

\* A tab closes, and another one takes its place in the model.  WebKit clears
\* the video flag, whoever set it, and always says that the tab is silent.
Closes(t) ==
  /\ Happens /\ PageGoes(t)
  /\ front' \in Tabs /\ (front # t => front' = front)
  /\ IF flags.webkit THEN flags' = [flags EXCEPT !.video = FALSE] /\ heard' = TRUE
     ELSE EventAtEdge(t) /\ UNCHANGED flags
  /\ UNCHANGED <<app, inhibitor>>

Selects(t) ==
  /\ Happens /\ t # front /\ front' = t
  /\ UNCHANGED <<pages, engine, app, inhibitor>>

\* WindowEvent::Focused wakes the window; Unfocused does not hide it.
Focus(on) ==
  /\ Happens /\ app.up
  /\ app' = [app EXCEPT !.focused = on, !.occluded = @ /\ ~on]
  /\ UNCHANGED <<pages, front, engine, inhibitor>>

\* WindowEvent::Occluded after its debounce, or the heuristic of the present
\* times, which may be wrong.
Occlude(on) ==
  /\ Happens /\ app.up
  /\ app' = [app EXCEPT !.occluded = on]
  /\ UNCHANGED <<pages, front, engine, inhibitor>>

-----------------------------------------------------------------------------
(* The engine.                                                             *)

\* The poll script of a probe that reached its page: on_console_message,
\* on_media_probe_script_message.
Probe(t) ==
  LET answer == IF t \in film THEN "video" ELSE "no video"
  IN  /\ t \in asked /\ asked' = asked \ {t}
      /\ said' = [said EXCEPT ![t] = answer]
      /\ flags' = IF said[t] = answer THEN flags ELSE [flags EXCEPT !.video = t \in film]
      /\ UNCHANGED <<film, streams, front, heard, app, inhibitor, changes>>

\* The worker of the WebKit engine asks its views twice a second.
AudioPoll ==
  /\ flags.webkit
  /\ flags' = [flags EXCEPT !.audio = Loud # {}]
  /\ UNCHANGED <<pages, front, heard, app, inhibitor, changes>>

AnyAudioActive == IF flags.webkit THEN flags.audio ELSE Loud # {}

-----------------------------------------------------------------------------
(* The event loop.                                                         *)

Want(a) == (a.video \/ (AudioOnly /\ a.media)) /\ (RequireFocus => a.focused)

\* post: a command that finds the channel full is dropped.
Posted(cmd) == IF Len(cmds) < CmdCap THEN Append(cmds, cmd) ELSE cmds

\* As Acquire and Release, with the flag set by whoever posts.
Change_at_once(cmd) ==
  /\ cmds' = Posted(cmd) /\ active' = (cmd = "acquire")
  /\ UNCHANGED <<backend, worker, held>>

\* acquire and release.  The system may refuse to be kept awake, macOS at once.
Change(cmd) ==
  IF backend = "worker"
    THEN cmds' = Posted(cmd) /\ UNCHANGED <<backend, worker, held, active>>
    ELSE /\ held' \in (IF cmd = "acquire" THEN BOOLEAN ELSE {FALSE})
         /\ active' = held'
         /\ UNCHANGED <<backend, worker, cmds>>

\* about_to_wait: the events, the flags, the inhibitor, the probe.  The audio
\* of the engine is only looked at when an event says that it changed.
Tick(due) ==
  LET now == [app EXCEPT !.media = IF heard THEN AnyAudioActive ELSE @, !.video = flags.video]
  IN  /\ app.up
      /\ app' = now
      /\ heard' = FALSE
      /\ IF Want(now) # active THEN Change(IF active THEN "release" ELSE "acquire")
         ELSE UNCHANGED inhibitor
      /\ asked' = IF app.occluded /\ due THEN asked \cup {front} ELSE asked
      /\ UNCHANGED <<film, said, streams, front, flags, changes>>

\* Drop for WorkerInhibitor, for MacosInhibitor: each command only if there is
\* room; the channel closes.
Quit ==
  /\ app.up
  /\ app' = [app EXCEPT !.up = FALSE]
  /\ IF backend = "worker"
       THEN /\ cmds' = LET all == cmds \o <<"release", "shutdown">>
                       IN  SubSeq(all, 1, IF Len(all) < CmdCap THEN Len(all) ELSE CmdCap)
            /\ UNCHANGED <<held, active>>
       ELSE held' = FALSE /\ active' = FALSE /\ UNCHANGED cmds
  /\ UNCHANGED <<pages, front, engine, backend, worker, changes>>

-----------------------------------------------------------------------------
(* The worker thread (run_worker).                                         *)

Ends == worker' = "down" /\ held' = FALSE /\ active' = FALSE

\* (mutant) A worker whose channel closed leaves the system as it is.
Closed_silent == worker' = "down" /\ UNCHANGED <<held, active>>

\* The channel is closed and empty.
Closed == Ends

\* Windows may refuse.
Obeys(cmd) ==
  CASE cmd = "acquire"  -> (held' \in {TRUE, held} /\ active' = held' /\ UNCHANGED worker)
    [] cmd = "release"  -> (held' = FALSE /\ active' = FALSE /\ UNCHANGED worker)
    [] cmd = "shutdown" -> Ends

WorkerStep ==
  /\ worker = "up"
  /\ IF cmds # <<>> THEN Obeys(Head(cmds)) /\ cmds' = Tail(cmds)
     ELSE ~app.up /\ Closed /\ UNCHANGED cmds
  /\ UNCHANGED <<pages, front, engine, app, backend, changes>>

-----------------------------------------------------------------------------
Next ==
  \/ \E t \in Tabs :
       \/ FilmChanges(t) \/ StreamStarts(t) \/ StreamEnds(t)
       \/ Navigates(t) \/ Closes(t) \/ Selects(t) \/ Probe(t)
  \/ \E on \in BOOLEAN : Focus(on) \/ Occlude(on)
  \/ AudioPoll
  \/ \E due \in BOOLEAN : Tick(due)
  \/ Quit
  \/ WorkerStep

\* The event loop turns and its timers come due, the threads run, a page that
\* is asked answers, and a system that is asked again and again gives in.
Spec ==
  /\ Init /\ [][Next]_vars
  /\ WF_vars(Tick(TRUE)) /\ WF_vars(WorkerStep) /\ WF_vars(AudioPoll)
  /\ \A t \in Tabs : WF_vars(Probe(t))
  /\ SF_vars(WorkerStep /\ held') /\ SF_vars(Tick(TRUE) /\ held')

-----------------------------------------------------------------------------
(* Properties.                                                             *)

\* With CEF, what the application thinks of audio is so, unless an event waits
\* (on_audio_stream_started, drain_audio_events).
AudioIsHeard == (~flags.webkit /\ app.up /\ ~heard) => (app.media = (Loud # {}))

\* The flag the event loop reads is what the worker has done, and a worker
\* that is gone holds nothing (run_worker, is_active).
FlagIsTrue == active = held /\ (worker = "down" /\ backend = "worker" => ~held)

\* However many commands a slow worker drops or finds outdated, the screen is
\* kept on in the end if the application goes on wanting it, and only then;
\* an application that has quit does not want it (post, Drop).
Wanted == app.up /\ Want(app)
HeldFollows ==
  /\ <>[]Wanted => <>[]held
  /\ <>[]~Wanted => <>[]~held

\* docs/site/config.md: `enabled && (video || ...) && (!require_focus ||
\* window_focused)': a video in front of the user keeps the screen on.
VideoKeepsAwake ==
  <>[](app.up /\ front \in film /\ app.focused /\ ~app.occluded) => <>[]held
=============================================================================
