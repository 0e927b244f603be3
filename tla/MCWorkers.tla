------------------------------ MODULE MCWorkers -----------------------------
(* Instances of WebKitChannel, WebKitPages, WebKitSignals, Inhibit and     *)
(* Session for TLC: what the application leaves to other threads and to    *)
(* later polls.  They share no variable, so one run checks them all: a     *)
(* behaviour is one of the WebKit worker's channel, of its pages, of its   *)
(* signals, of the idle inhibitor or of the saved session.                 *)
EXTENDS WebKitChannel

CONSTANTS
  \* Session
  Urls, Home, Safe, LoopWindow, LoopThreshold, Debounce, MaxOpened, MaxSaved, MaxLaunches,
  StackCap,
  \* WebKitSignals
  MaxSteps,
  \* Inhibit
  Tabs, AudioOnly, RequireFocus, CmdCap, MaxStreams, MaxChanges

\* The two channels have a capacity (sync_channel).
ASSUME CapacityAssumption == QueueLen \in Nat /\ CmdCap \in Nat

VARIABLES
  part,
  running, strip, url, disk, log, restoring, last, dirty, age, recent,
  list, made, frame, announced,
  openTabs, inFront, page, info, tabFlags, orders, got, reads, steps, chosen, missed, unsure,
  film, said, asked, streams, front, flags, heard, app, backend, helper, asks, held, active,
  changes

sessionVars == <<running, strip, url, disk, log, restoring, last, dirty, age, recent>>
pageVars == <<list, made, frame, announced>>
signalVars ==
  <<openTabs, inFront, page, info, tabFlags, orders, got, reads, steps, chosen, missed, unsure>>
inhibitVars ==
  <<film, said, asked, streams, front, flags, heard, app, backend, helper, asks, held, active,
    changes>>

Saved ==
  INSTANCE Session WITH phase <- running, pending <- restoring, MaxTabs <- MaxOpened
Pages == INSTANCE WebKitPages
Signals ==
  INSTANCE WebKitSignals WITH open <- openTabs, front <- inFront, flags <- tabFlags
Screen == INSTANCE Inhibit WITH worker <- helper, cmds <- asks

\* No tab has the name that stands for none.
ASSUME TabsAssumption == Signals!Nobody \notin Tabs

PartsInit ==
  /\ part \in {"channel", "session", "pages", "signals", "screen"}
  /\ Init /\ Saved!Init /\ Pages!Init /\ Signals!Init /\ Screen!Init
  /\ part # "session" => disk = {}
  /\ part # "signals" => inFront = CHOOSE t \in Tabs : TRUE
  /\ part # "screen" => backend = "direct" /\ front = CHOOSE t \in Tabs : TRUE

OfChannel(action) ==
  part = "channel" /\ action /\ UNCHANGED <<part, sessionVars, pageVars, signalVars, inhibitVars>>
OfSession(action) ==
  part = "session" /\ action /\ UNCHANGED <<part, vars, pageVars, signalVars, inhibitVars>>
OfPages(action) ==
  part = "pages" /\ action /\ UNCHANGED <<part, vars, sessionVars, signalVars, inhibitVars>>
OfSignals(action) ==
  part = "signals" /\ action /\ UNCHANGED <<part, vars, sessionVars, pageVars, inhibitVars>>
OfScreen(action) ==
  part = "screen" /\ action /\ UNCHANGED <<part, vars, sessionVars, pageVars, signalVars>>

allVars == <<part, vars, sessionVars, pageVars, signalVars, inhibitVars>>

\* The fairness of the four specifications.
PartsSpec ==
  /\ PartsInit
  /\ [][\/ OfChannel(Next) \/ OfSession(Saved!Next)
        \/ OfPages(Pages!Next) \/ OfSignals(Signals!Next) \/ OfScreen(Screen!Next)]_allVars
  /\ WF_allVars(OfSession(Saved!Poll)) /\ WF_allVars(OfSession(Saved!Flush))
  /\ WF_allVars(OfChannel(WorkerNext))
  /\ WF_allVars(OfChannel(DeferRequests \/ Join \/ Joined))
  /\ WF_allVars(OfPages(Pages!RenderActive))
  /\ WF_allVars(OfScreen(Screen!Tick(TRUE))) /\ WF_allVars(OfScreen(Screen!WorkerStep))
  /\ WF_allVars(OfScreen(Screen!AudioPoll))
  /\ \A t \in Tabs : WF_allVars(OfScreen(Screen!Probe(t)))
  /\ SF_allVars(OfScreen(Screen!WorkerStep /\ held'))
  /\ SF_allVars(OfScreen(Screen!Tick(TRUE) /\ held'))

\* WebKitChannel: callers and pages are told the truth, once.  WebKitSignals:
\* pages that read the clipboard, too.
WhoAsksIsTold == RepliesAreTrue /\ Signals!ReadsAreAnswered

\* WebKitPages: what the application paints as fresh is the active tab's, and
\* the announced tabs are the open ones that play.  WebKitSignals: it knows how
\* the page in front is doing.  Inhibit: what it knows of audio and of the
\* inhibitor is so.
SeenAndHeard ==
  Pages!SeenAndHeard /\ Signals!FlagsAreTrue /\ Screen!AudioIsHeard /\ Screen!FlagIsTrue

\* Session: every change of the tabs is on disk in the end.
EventuallySaved == Saved!EventuallySaved

\* A WebKit worker that was told to end does, its orders find the tab they were
\* for, the tab in front always paints again, and the screen is kept on in the
\* end if and only if that is wanted.
WorkGoesOn ==
  /\ ToldWorkerEnds
  /\ Signals!OrdersFindTheirTab
  /\ []<>(part = "pages" => Pages!FrontIsPainted)
  /\ <>[](part = "screen" /\ Screen!Wanted) => <>[]held
  /\ <>[](part = "screen" /\ ~Screen!Wanted) => <>[]~held
=============================================================================
