------------------------------ MODULE Lifetime ------------------------------
(* The processes of a profile from main to their end: the application, with *)
(* its way out through the shutdown sequence, a Ctrl-C, a panic or a crash, *)
(* private or not, and the commands that answer from the profile.  What     *)
(* they share is on disk: what browsing leaves, the usage counters and the  *)
(* crash reports.                                                           *)
EXTENDS Naturals, FiniteSets, Sequences

CONSTANTS
  Procs,
  Private,       \* of which run with --private
  Items,         \* what browsing leaves in a profile
  ClearOnExit,   \* of which privacy.clear_on_exit lists
  MaxNow,        \* ticks of the clock that stamps the reports
  MaxAttempts,   \* WRITE_REPORT_MAX_ATTEMPTS
  MaxCount,      \* events counted
  MaxPanics,
  MaxLaunches

VARIABLES
  proc,      \* the processes
  data,      \* the items in the profile
  temp,      \* the private processes whose directory is there, as pairs with their number
  disk,      \* the counter file
  reports,   \* the files in crashes/
  now, launches, panics,
  resets,    \* whether the counters were reset since the application started
  unmade,    \* panics whose report was not, or only half, written
  purged     \* reports that a command removed

lifeVars == <<proc, data, temp, disk, reports, now, launches, panics, resets, unmade, purged>>

\* Main after the event loop returns.
Shutdown == <<"engines", "clear", "flush", "state", "done">>
StepNo(step) == CHOOSE i \in DOMAIN Shutdown : Shutdown[i] = step

Gone ==
  [at |-> "none", nr |-> 0, flag |-> FALSE, timer |-> FALSE, count |-> 0,
   seq |-> 0, stamp |-> 0, tries |-> 0, reporting |-> "no"]

Runs(p) == proc[p].at \notin {"none", "done"}
OwnsProfile(p) == Runs(p) /\ p \notin Private

Silent(p) == [proc[p] EXCEPT !.reporting = "no", !.stamp = 0, !.tries = 0]
Unfinished(p) == IF proc[p].reporting = "no" THEN 0 ELSE 1

Init ==
  /\ proc = [p \in Procs |-> Gone]
  /\ data = {} /\ temp = {} /\ disk = 0 /\ reports = {} /\ now = 0 /\ launches = 0 /\ panics = 0
  /\ resets = FALSE /\ unmade = 0 /\ purged = 0

-----------------------------------------------------------------------------
(* main up to the event loop. *)

\* A private run makes a directory of its own and gives it to the state.
Directory(p, nr) == IF p \in Private THEN {<<p, nr>>} ELSE {}

\* The profile has one owner; a private run is nobody's.
MayRun(p) == p \in Private \/ \A q \in Procs : ~OwnsProfile(q)

\* A private run opens its stores in memory.
KeepsData(p) == p \notin Private

\* The counters go on from the file; a private run counts nothing.
Opened(p) == IF p \in Private THEN 0 ELSE disk

Start(p) ==
  /\ ~Runs(p) /\ launches < MaxLaunches /\ launches' = launches + 1
  /\ MayRun(p)
  /\ proc' = [proc EXCEPT ![p] =
       [Gone EXCEPT !.at = "run", !.nr = launches',
                    !.count = IF p \in Private THEN 0 ELSE Opened(p) + 1]]
  /\ temp' = temp \cup Directory(p, launches')
  /\ resets' = IF p \in Private THEN resets ELSE FALSE
  /\ UNCHANGED <<data, disk, reports, now, panics, unmade, purged>>

\* Pages leave their traces where the run keeps its data.
Browse(p) ==
  /\ proc[p].at = "run" /\ ~proc[p].flag
  /\ data' = IF KeepsData(p) THEN Items ELSE data
  /\ UNCHANGED <<proc, temp, disk, reports, now, launches, panics, resets, unmade, purged>>

\* Counters are kept in memory, for the run of a profile only.
Increment(p) ==
  /\ proc[p].at = "run" /\ ~proc[p].flag /\ proc[p].count < MaxCount
  /\ p \notin Private /\ proc' = [proc EXCEPT ![p].count = @ + 1]
  /\ UNCHANGED <<data, temp, disk, reports, now, launches, panics, resets, unmade, purged>>

\* Once a minute they are written.
FlushCounters(p) ==
  /\ proc[p].at = "run" /\ p \notin Private /\ disk' = proc[p].count
  /\ UNCHANGED <<proc, data, temp, reports, now, launches, panics, resets, unmade, purged>>

-----------------------------------------------------------------------------
(* The ways out of the event loop. *)

Same == UNCHANGED <<data, temp, disk, reports, now, launches, panics, resets, unmade, purged>>

\* The window is closed, or the compositor is gone.
CloseRequested(p) ==
  /\ proc[p].at = "run" /\ proc' = [proc EXCEPT ![p].at = "engines"]
  /\ Same

\* :q and the like: the next event finds the flag.
RequestExit(p) ==
  /\ proc[p].at = "run" /\ ~proc[p].flag /\ proc' = [proc EXCEPT ![p].flag = TRUE]
  /\ Same

CheckShutdown(p) ==
  /\ proc[p].at = "run" /\ proc[p].flag /\ proc' = [proc EXCEPT ![p].at = "engines"]
  /\ Same

\* Ctrl-C sets the flag; the first to set it starts the timer that aborts.
CtrlC(p) ==
  /\ Runs(p)
  /\ proc' = [proc EXCEPT ![p].flag = TRUE, ![p].timer = @ \/ ~proc[p].flag]
  /\ Same

\* Three seconds later the process ends where it is, and runs no destructor.
AbortTimer(p) ==
  /\ Runs(p) /\ proc[p].timer
  /\ proc' = [proc EXCEPT ![p] = Gone]
  /\ unmade' = unmade + Unfinished(p)
  /\ UNCHANGED <<data, temp, disk, reports, now, launches, panics, resets, purged>>

-----------------------------------------------------------------------------
(* The shutdown sequence. *)

At(p, step) == proc[p].at = step
Goes(p, r) == proc' = [proc EXCEPT ![p] = [r EXCEPT !.at = Shutdown[StepNo(proc[p].at) + 1]]]

\* Browsers are closed, prompts put off, engines and surfaces let go.
LetGoEngines(p) == At(p, "engines") /\ Goes(p, proc[p]) /\ Same

\* Mutant: a private run clears the profile it was kept out of.
RunClearOnExit_private(p) ==
  /\ At(p, "clear") /\ Goes(p, proc[p])
  /\ data' = data \ ClearOnExit
  /\ UNCHANGED <<temp, disk, reports, now, launches, panics, resets, unmade, purged>>

\* The items that are to be cleared, each by itself.
RunClearOnExit(p) ==
  /\ At(p, "clear") /\ Goes(p, proc[p])
  /\ data' = IF KeepsData(p) THEN data \ ClearOnExit ELSE data
  /\ UNCHANGED <<temp, disk, reports, now, launches, panics, resets, unmade, purged>>

LastFlush(p) ==
  /\ At(p, "flush") /\ Goes(p, proc[p])
  /\ disk' = IF p \in Private THEN disk ELSE proc[p].count
  /\ UNCHANGED <<data, temp, reports, now, launches, panics, resets, unmade, purged>>

\* The backend is shut down; the state owns the directory of a private run; then the process ends,
\* whatever report another thread is writing.
DropState(p) ==
  /\ At(p, "state") /\ Goes(p, Silent(p))
  /\ temp' = temp \ {<<p, proc[p].nr>>}
  /\ unmade' = unmade + Unfinished(p)
  /\ UNCHANGED <<data, disk, reports, now, launches, panics, resets, purged>>

-----------------------------------------------------------------------------
(* Panics and crashes. *)

\* The hook is installed for a profile only.
Panic(p) ==
  /\ Runs(p) /\ p \notin Private /\ proc[p].reporting = "no"
  /\ panics < MaxPanics /\ panics' = panics + 1
  /\ proc' = [proc EXCEPT ![p].reporting = "open", ![p].stamp = now, ![p].tries = 0]
  /\ UNCHANGED <<data, temp, disk, reports, now, launches, resets, unmade, purged>>

Name(p) == <<proc[p].stamp, proc[p].seq>>
Taken(p) == \E r \in reports : r.name = Name(p)

\* A file of its own, whoever else panics in the same millisecond.
OpenReport(p) ==
  /\ proc[p].reporting = "open" /\ proc[p].tries < MaxAttempts
  /\ proc' = [proc EXCEPT ![p].seq = @ + 1, ![p].tries = @ + 1,
                          ![p].reporting = IF Taken(p) THEN "open" ELSE "write"]
  /\ reports' = IF Taken(p) THEN reports
                ELSE reports \cup {[name |-> Name(p), whole |-> FALSE]}
  /\ UNCHANGED <<data, temp, disk, now, launches, panics, resets, unmade, purged>>

Written(p) == <<proc[p].stamp, proc[p].seq - 1>>
\* It is written, or the disk is full.
WriteReport(p) ==
  /\ proc[p].reporting = "write" /\ proc' = [proc EXCEPT ![p] = Silent(p)]
  /\ \/ /\ reports' = {IF r.name = Written(p) THEN [r EXCEPT !.whole = TRUE] ELSE r : r \in reports}
        /\ unmade' = unmade
     \/ reports' = reports /\ unmade' = unmade + 1
  /\ UNCHANGED <<data, temp, disk, now, launches, panics, resets, purged>>

\* The file cannot be made, or every name was taken.
GiveUpReport(p) ==
  /\ proc[p].reporting = "open"
  /\ proc' = [proc EXCEPT ![p] = Silent(p)] /\ unmade' = unmade + 1
  /\ UNCHANGED <<data, temp, disk, reports, now, launches, panics, resets, purged>>

\* The process is killed, or its panic was in a callback of C.
Die(p) ==
  /\ Runs(p) /\ proc' = [proc EXCEPT ![p] = Gone]
  /\ unmade' = unmade + Unfinished(p)
  /\ UNCHANGED <<data, temp, disk, reports, now, launches, panics, resets, purged>>

-----------------------------------------------------------------------------
(* The commands, which a process answers before it would become a browser, *)
(* on the profile and whoever runs on it.                                   *)

ResetTelemetry ==
  /\ disk' = 0 /\ resets' = TRUE
  /\ UNCHANGED <<data, reports, purged>>

\* The rows of one store.
ClearStore ==
  /\ \E item \in Items : data' = data \ {item}
  /\ UNCHANGED <<disk, reports, resets, purged>>

\* Reports that can be read and are old enough; a half-written one is passed over.
PurgeCrashes ==
  /\ reports' = {r \in reports : ~r.whole \/ r.name[1] = now}
  /\ purged' = purged + Cardinality(reports \ reports')
  /\ UNCHANGED <<data, disk, resets>>

Dispatch ==
  /\ launches < MaxLaunches /\ launches' = launches + 1
  /\ ResetTelemetry \/ ClearStore \/ PurgeCrashes
  /\ UNCHANGED <<proc, temp, now, panics, unmade>>

\* Only the age of a report matters.
TimePasses ==
  /\ now < MaxNow /\ reports # {} /\ now' = now + 1
  /\ UNCHANGED <<proc, data, temp, disk, reports, launches, panics, resets, unmade, purged>>

Next ==
  \/ \E p \in Procs :
       \/ Start(p)
       \/ Browse(p) \/ Increment(p) \/ FlushCounters(p)
       \/ CloseRequested(p) \/ RequestExit(p) \/ CheckShutdown(p) \/ CtrlC(p) \/ AbortTimer(p)
       \/ LetGoEngines(p) \/ RunClearOnExit(p) \/ LastFlush(p) \/ DropState(p)
       \/ Panic(p) \/ OpenReport(p) \/ WriteReport(p) \/ GiveUpReport(p) \/ Die(p)
  \/ Dispatch \/ TimePasses

Spec == Init /\ [][Next]_lifeVars

-----------------------------------------------------------------------------
(* Properties. *)

\* Every panic of a run of the profile has a report of its own, also of two runs
\* that panic in the same millisecond, unless it could not be written or was old
\* enough to be purged (write_report's create_new).
EachPanicReported ==
  panics = Cardinality({r \in reports : r.whole}) + purged + unmade
             + Cardinality({p \in Procs : proc[p].reporting # "no"})

Ends(p) == proc[p].at = "state" /\ proc'[p].at = "done"

\* A run that comes to its end leaves the profile without what is to be cleared
\* and with every event counted; the counters only fall by a reset, over all runs
\* (main's sequence after the event loop).
ProfileIsLeftRight ==
  [][/\ \A p \in Procs :
          Ends(p) /\ p \notin Private =>
            data \cap ClearOnExit = {} /\ (disk = proc[p].count \/ resets)
     /\ disk' < disk => disk' = 0 /\ resets']_lifeVars

\* Nothing a private run does, ending included, changes the profile, and what it
\* kept for itself goes with it unless it is ended from outside
\* (main's checks of cli.private).
PrivateLeavesNothing ==
  [][\A p \in Procs :
       p \in Private /\ proc'[p] # proc[p] =>
         /\ UNCHANGED <<data, disk, reports>>
         /\ Ends(p) => \A entry \in temp' : entry[1] # p \/ entry[2] # proc[p].nr]_lifeVars

=============================================================================
