------------------------------ MODULE Downloads ------------------------------
(* The download store and the two engines that write it: one table in       *)
(* SQLite, kept over restarts, with one row per number of a download; the   *)
(* callbacks of CEF, which find their row by the number of the item, and    *)
(* the signals of WebKit, which keep the identity of the row they were      *)
(* given at the start; the queue of notices that the chrome shows; and the  *)
(* command that clears the finished rows, in the application or in a        *)
(* process of its own.  CEF counts its items from one in every run; the     *)
(* WebKit engine gives the number zero to all of its downloads.             *)
EXTENDS Naturals, Sequences, FiniteSets, SequencesExt

CONSTANTS
  Files,          \* the downloads that can be started
  Announces,      \* show_notifications without ask_each_time
  MaxBytes,       \* bound on the bytes of a download
  MaxNotices,     \* bound on the queue of notices
  MaxRuns,        \* bound on the runs of the application
  MaxFailures     \* bound on the writes of the store that fail

ASSUME DownloadsAssumption ==
  /\ Announces \in BOOLEAN
  /\ MaxBytes \in Nat /\ MaxNotices \in Nat /\ MaxRuns \in Nat \ {0} /\ MaxFailures \in Nat

VARIABLES
  rows,           \* the table
  lastId,         \* its AUTOINCREMENT counter
  item,           \* what the engines know of each download
  cefItems,       \* how many items CEF has numbered in this run
  notices,        \* the queue of notices
  counted,        \* how often the counter was incremented for each download
  failures,       \* how many writes have failed
  runs            \* how often the application was started

vars == <<rows, lastId, item, cefItems, notices, counted, failures, runs>>

WebKitNumber == 0

Terminal == {"completed", "canceled", "failed"}

\* A download before it starts and after the run that had it.
NoItem == [engine |-> "none", number |-> 0, row |-> 0, state |-> "none", got |-> 0]

Init ==
  /\ rows = {} /\ lastId = 0
  /\ item = [f \in Files |-> NoItem]
  /\ cefItems = 0 /\ notices = <<>>
  /\ counted = [f \in Files |-> 0]
  /\ failures = 0 /\ runs = 1

-----------------------------------------------------------------------------
(* The operations of the store.                                             *)

RowsOf(number) == {r \in rows : r.number = number}

\* record_started: the row of the number if there is one, a new row if not.
Started(f, number) ==
  IF RowsOf(number) # {} THEN rows
  ELSE rows \cup {[id |-> lastId + 1, number |-> number, name |-> f,
                   status |-> "in_flight", received |-> 0, path |-> {}]}

\* The identity that record_started returns.
StartedId(number) ==
  IF RowsOf(number) # {} THEN (CHOOSE r \in RowsOf(number) : TRUE).id ELSE lastId + 1

\* Progress of a row whatever its status.
Progressed_always(id, bytes) ==
  {IF r.id = id THEN [r EXCEPT !.received = bytes] ELSE r : r \in rows}

\* update_progress writes a row in flight only.
Progressed(id, bytes) ==
  {IF r.id = id /\ r.status = "in_flight" THEN [r EXCEPT !.received = bytes] ELSE r : r \in rows}

\* record_completed, record_canceled and record_failed write any row.
Ended(id, status, path) ==
  {IF r.id = id
   THEN [r EXCEPT !.status = status,
                  !.path = IF status = "completed" THEN path ELSE @]
   ELSE r : r \in rows}

\* clear_completed.
Cleared == {r \in rows : r.status # "completed"}

\* A write that works, or one that fails and leaves the table alone.
Write(table) == rows' = table /\ UNCHANGED failures
WriteFails == failures < MaxFailures /\ failures' = failures + 1 /\ UNCHANGED rows

-----------------------------------------------------------------------------
(* Notices.                                                                 *)

Expiry(kind) == IF kind = "started" THEN 1 ELSE 2       \* two and four seconds

Announced(kind, f) ==
  IF Announces THEN Append(notices, [kind |-> kind, name |-> f, left |-> Expiry(kind)])
  ELSE notices

\* Two seconds pass.
TimePasses ==
  /\ \E i \in DOMAIN notices : notices[i].left > 0
  /\ notices' = [i \in DOMAIN notices |->
                   [notices[i] EXCEPT !.left = IF @ > 0 THEN @ - 1 ELSE 0]]
  /\ UNCHANGED <<rows, lastId, item, cefItems, counted, failures, runs>>

\* The notices of the end stay.
Kept_ends == SelectSeq(notices, LAMBDA n : n.left > 0 \/ n.kind # "started")

\* expire_stale: the notices that are kept.
Kept == SelectSeq(notices, LAMBDA n : n.left > 0)

\* about_to_wait.
Expire ==
  /\ notices' = Kept
  /\ UNCHANGED <<rows, lastId, item, cefItems, counted, failures, runs>>

-----------------------------------------------------------------------------
(* CEF.                                                                     *)

\* on_before_download of a new item, or again of one the user has given up in
\* the dialog and retries.  The download goes on if the store fails.
BeforeDownload(f) ==
  /\ \/ item[f].engine = "none" /\ cefItems' = cefItems + 1
     \/ item[f].engine = "cef" /\ item[f].state = "running" /\ UNCHANGED cefItems
  /\ LET number == IF item[f].engine = "none" THEN cefItems + 1 ELSE item[f].number
         fresh == RowsOf(number) = {} IN
       /\ item' = [item EXCEPT ![f] =
            IF @.engine = "none"
            THEN [NoItem EXCEPT !.engine = "cef", !.number = number, !.state = "running"]
            ELSE @]
       /\ \/ Write(Started(f, number)) /\ lastId' = IF fresh THEN lastId + 1 ELSE lastId
          \/ WriteFails /\ UNCHANGED lastId
  /\ Len(notices) < MaxNotices
  /\ notices' = Announced("started", f)
  /\ UNCHANGED <<counted, runs>>

\* What the item may have become since the last call; CEF calls again after
\* the end.
Becomes(i) ==
  IF i.state = "running"
  THEN {[i EXCEPT !.got = b] : b \in i.got .. MaxBytes} \cup
       {[i EXCEPT !.state = s] : s \in {"complete", "canceled", "interrupted"}}
  ELSE {i}

\* The row that on_download_updated works on: that of the number, in flight.
Ticked(number) == {r \in RowsOf(number) : r.status = "in_flight"}

\* on_download_updated.
DownloadUpdated(f) ==
  /\ item[f].engine = "cef"
  /\ \E now \in Becomes(item[f]) :
       /\ item' = [item EXCEPT ![f] = now]
       /\ \/ /\ Ticked(now.number) = {}
             /\ UNCHANGED <<rows, notices, counted, failures>>
          \/ \E r \in Ticked(now.number) :
               \/ /\ now.state = "complete" /\ Len(notices) < MaxNotices
                  /\ Write(Ended(r.id, "completed", {f}))
                  /\ counted' = [counted EXCEPT ![f] = @ + 1]
                  /\ notices' = Announced("completed", r.name)
               \/ /\ now.state = "canceled"
                  /\ Write(Ended(r.id, "canceled", {}))
                  /\ UNCHANGED <<notices, counted>>
               \/ /\ now.state = "interrupted" /\ Len(notices) < MaxNotices
                  /\ Write(Ended(r.id, "failed", {})) \/ WriteFails
                  /\ notices' = Announced("failed", r.name)
                  /\ UNCHANGED counted
               \/ /\ now.state = "running"
                  /\ Write(Progressed(r.id, now.got))
                  /\ UNCHANGED <<notices, counted>>
               \/ WriteFails /\ UNCHANGED <<notices, counted>>
  /\ UNCHANGED <<lastId, cefItems, runs>>

-----------------------------------------------------------------------------
(* WebKit.                                                                  *)

\* on_download_started: a failing store leaves the download without signals.
WebKitStarted(f) ==
  /\ item[f].engine = "none"
  /\ \/ /\ Write(Started(f, WebKitNumber))
        /\ lastId' = IF RowsOf(WebKitNumber) = {} THEN lastId + 1 ELSE lastId
        /\ item' = [item EXCEPT ![f] = [engine |-> "webkit", number |-> WebKitNumber,
             row |-> StartedId(WebKitNumber), state |-> "running", got |-> 0]]
     \/ /\ WriteFails
        /\ item' = [item EXCEPT ![f] = [NoItem EXCEPT !.engine = "webkit"]]
        /\ UNCHANGED lastId
  /\ UNCHANGED <<cefItems, notices, counted, runs>>

\* on_download_progress; its error is ignored.
WebKitProgress(f) ==
  /\ item[f].engine = "webkit" /\ item[f].state = "running" /\ item[f].got < MaxBytes
  /\ item' = [item EXCEPT ![f].got = @ + 1]
  /\ Write(Progressed(item[f].row, item[f].got + 1)) \/ WriteFails
  /\ UNCHANGED <<lastId, cefItems, notices, counted, runs>>

\* on_download_failed.
WebKitFailed(f) ==
  /\ item[f].engine = "webkit" /\ item[f].state = "running"
  /\ item' = [item EXCEPT ![f].state = "interrupted"]
  /\ Write(Ended(item[f].row, "failed", {})) \/ WriteFails
  /\ UNCHANGED <<lastId, cefItems, notices, counted, runs>>

\* on_download_finished, which WebKit emits after a failure as well.
WebKitFinished(f) ==
  /\ item[f].engine = "webkit" /\ item[f].state \in {"running", "interrupted"}
  /\ item' = [item EXCEPT ![f].state = "complete"]
  /\ Write(Ended(item[f].row, "completed", {f})) \/ WriteFails
  /\ UNCHANGED <<lastId, cefItems, notices, counted, runs>>

-----------------------------------------------------------------------------
(* The application and the command line.                                    *)

\* clear_completed, from the key of the application or by
\* --clear-completed-downloads while the application runs.
ClearCompleted ==
  /\ rows' = Cleared
  /\ UNCHANGED <<lastId, item, cefItems, notices, counted, failures, runs>>

\* The application ends, or is killed, and starts again; clear_on_exit may
\* empty the table, which keeps its counter.
Restart ==
  /\ runs < MaxRuns
  /\ \E clears \in BOOLEAN : rows' = IF clears THEN {} ELSE rows
  /\ item' = [f \in Files |-> IF item[f].engine = "none" THEN item[f]
                              ELSE [NoItem EXCEPT !.engine = "over"]]
  /\ cefItems' = 0 /\ notices' = <<>> /\ runs' = runs + 1
  /\ UNCHANGED <<lastId, counted, failures>>

Next ==
  \/ \E f \in Files : BeforeDownload(f) \/ DownloadUpdated(f)
  \/ \E f \in Files : WebKitStarted(f) \/ WebKitProgress(f) \/ WebKitFailed(f) \/ WebKitFinished(f)
  \/ TimePasses \/ Expire \/ ClearCompleted \/ Restart

Spec == Init /\ [][Next]_vars /\ WF_vars(TimePasses) /\ WF_vars(Expire)

-----------------------------------------------------------------------------
\* A download is counted as completed once at most, however often CEF reports
\* its end, and only when it did complete.
CountedOnce ==
  \A f \in Files : counted[f] <= 1 /\ (item[f].engine = "cef" /\ counted[f] = 1 =>
                                         item[f].state = "complete")

\* Without a failing write, a CEF download that has a row of its own has its
\* outcome there, and the path of the file when it completed.
OutcomeRecorded ==
  failures = 0 =>
    \A f \in Files, r \in rows :
      item[f].engine = "cef" /\ r.number = item[f].number /\ r.name = f =>
        /\ item[f].state = "complete" <=> r.status = "completed" /\ r.path = {f}
        /\ item[f].state = "canceled" <=> r.status = "canceled"
        /\ item[f].state = "interrupted" <=> r.status = "failed"

\* What is told of a download's end: once, and as it ended
\* (on_download_updated, record_completed and its siblings).
EndsAreRecorded == CountedOnce /\ OutcomeRecorded

\* Once over, the row of a CEF download is neither written nor removed,
\* except that a completed one can be cleared and all are at the exit; the
\* bytes of any row are frozen then.
OverIsFrozen ==
  [][\A r \in rows : r.status \in Terminal /\ runs' = runs =>
       /\ r.number # WebKitNumber => \/ r \in rows'
                                     \/ r.status = "completed" /\ rows' \subseteq rows
       /\ \A s \in rows' : s.id = r.id => s.received = r.received]_vars

Notified(f) == \E i \in DOMAIN notices : notices[i].name = f /\ notices[i].kind # "started"

\* The notice of the end of a download does not stay, whatever is queued
\* before and after it.
EndNoticesGo == \A f \in Files : Notified(f) ~> ~Notified(f)

\* The end of a download is told and recorded once, as it was, and stays so.
EndsAreKept == []EndsAreRecorded /\ OverIsFrozen
=============================================================================
