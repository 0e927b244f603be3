------------------------------- MODULE Visits --------------------------------
(* What the engine's callbacks about pages leave behind: the visits of the  *)
(* history with its search index, and the zoom levels of the sites.  Both   *)
(* are tables that outlive the process; the engine's own zoom levels do     *)
(* not, and are shared by the tabs that show the same host.                 *)
EXTENDS Integers, FiniteSets

CONSTANTS
  Tabs,
  Urls,           \* the addresses, as the history writes them
  Internal,       \* those of the browser's own pages
  Skipped,        \* those whose scheme the history skips
  Domain,         \* the key of an address in the zoom table
  Place,          \* what the engine keeps a zoom level for, by address
  TitlesOf,       \* the titles a page of an address may have, never blank
  Codes,          \* sources of a navigation that the engine tells
  Window,         \* DEDUPE_WINDOW_SECS
  Recent,         \* RECENCY_WINDOW_SECS
  ClearsHistory,  \* clear_on_exit lists the history
  MaxNow, MaxRows, MaxLevel, MaxFaults   \* bounds

VARIABLES
  now,            \* seconds
  url,            \* the page each tab shows, Nothing if the tab is not there
  loading,        \* the tabs whose main frame loads
  transitions,    \* pending_transitions, Nothing if the tab has none
  rows,           \* visits
  index,          \* visits_fts
  level,          \* the zoom levels of the engine
  stored,         \* the zoom table, 0 if it has no row
  lastId,         \* the row id given last: ids are not given twice
  faults,         \* queries that failed so far
  finished,       \* when a load of an address finished last, and was recorded
  unsaved         \* domains whose level could not be written

vars == <<now, url, loading, transitions, rows, index, level, stored, lastId, faults,
          finished, unsaved>>
pages == <<url, loading, transitions>>
history == <<rows, index, lastId, finished>>
zoom == <<level, stored, unsaved>>

Nothing == "none"
Never == -1
Recorded == Urls \ (Internal \cup Skipped)
Absent == [t \in Tabs |-> Nothing]
Unzoomed == [p \in {Place[u] : u \in Urls} |-> 0]

Init ==
  /\ now = 0 /\ url = Absent /\ loading = {} /\ transitions = Absent
  /\ rows = {} /\ index = {} /\ lastId = 0
  /\ level = Unzoomed /\ stored = [d \in {Domain[u] : u \in Urls} |-> 0]
  /\ faults = 0 /\ finished = [u \in Urls |-> Never] /\ unsaved = {}

Shown == {t \in Tabs : url[t] # Nothing}

\* A query fails or not, at most MaxFaults times in a behaviour.
Tries(ok) == /\ ok \/ faults < MaxFaults
             /\ faults' = IF ok THEN faults ELSE faults + 1

-----------------------------------------------------------------------------
(* The history.                                                             *)

Entry(row) == [id |-> row.id, url |-> row.url, title |-> row.title]

Newest(set) == CHOOSE row \in set : \A other \in set : other.time <= row.time

\* visits_ai, visits_ad and visits_au: the index follows the table.
Store(new) ==
  /\ rows' = new
  /\ index' = (index \ {Entry(row) : row \in rows \ new}) \cup {Entry(row) : row \in new \ rows}

\* As Repeats, without the row exactly one window old.
Repeats_later(u) == {row \in rows : row.url = u /\ row.time > now - Window}

\* The rows a visit of now is one with.
Repeats(u) == {row \in rows : row.url = u /\ row.time >= now - Window}

\* record_visit, without a title: on_load_end has none.
RecordVisit(u, how) ==
  IF Repeats(u) # {}
  THEN LET row == Newest(Repeats(u)) IN
       /\ Store((rows \ {row}) \cup {[row EXCEPT !.time = now]})
       /\ UNCHANGED lastId
  ELSE /\ lastId' = lastId + 1
       /\ Store(rows \cup {[id |-> lastId', url |-> u, title |-> Nothing, time |-> now,
                            transition |-> how]})

\* update_latest_title.
UpdateLatestTitle(u, title) ==
  LET visits == {row \in rows : row.url = u} IN
  IF visits = {} THEN UNCHANGED <<rows, index>>
  ELSE LET row == Newest(visits) IN
       Store((rows \ {row}) \cup {[row EXCEPT !.title = title]})

\* A word of the address or the title.
Has(entry, word) == word \in {entry.url, entry.title}

\* search: the index finds the rows, one answer for each address, and the
\* addresses visited more often and of late come first.  Answers that are
\* equal in both have the same place.
Search(word) ==
  LET hits == {row \in rows : \E entry \in index : entry.id = row.id /\ Has(entry, word)}
      Of(u) == {row \in hits : row.url = u}
      Answer(u) == LET visits == {row \in rows : row.url = u} IN
        [url |-> u, title |-> Newest(visits).title, time |-> Newest(Of(u)).time,
         score |-> 2 * Cardinality(Of(u)) + (IF Newest(Of(u)).time >= now - Recent THEN 10 ELSE 0)]
      answers == {Answer(u) : u \in {row.url : row \in hits}}
      Before(a, b) == a.score > b.score \/ (a.score = b.score /\ a.time > b.time)
  IN {[url |-> a.url, title |-> a.title, place |-> Cardinality({b \in answers : Before(b, a)})] :
        a \in answers}

-----------------------------------------------------------------------------
(* The callbacks of a page.                                                 *)

\* decode_transition.
Transition(code) ==
  IF code \in {"link", "reload", "form_submit"} THEN code
  ELSE IF code \in {"generated", "keyword", "keyword_generated"} THEN "generated"
  ELSE "other"

\* The main frame of a tab commits an address, and on_load_start.  The tab
\* may be a new one.
LoadStart(t) ==
  \E u \in Urls, code \in Codes :
    /\ url' = [url EXCEPT ![t] = u]
    /\ loading' = loading \cup {t}
    /\ transitions' = [transitions EXCEPT ![t] = Transition(code)]
    /\ UNCHANGED <<now, history, zoom, faults>>

\* on_title_change: a page may say its title while it loads, and again.
TitleChange(t) ==
  /\ t \in Shown
  /\ \E title \in TitlesOf[url[t]], ok \in BOOLEAN :
       /\ Tries(ok)
       /\ IF ok THEN UpdateLatestTitle(url[t], title) ELSE UNCHANGED <<rows, index>>
  /\ UNCHANGED <<now, pages, lastId, finished, zoom>>

\* As ShowLevel, for the pages that the history records.
ShowLevel_recorded(u) ==
  level' = IF u \notin Recorded \/ stored[Domain[u]] = 0 THEN level
           ELSE [level EXCEPT ![Place[u]] = stored[Domain[u]]]

\* The level the table has for a site is the one to show, 0 is not set.
ShowLevel(u) ==
  level' = IF stored[Domain[u]] = 0 THEN level
           ELSE [level EXCEPT ![Place[u]] = stored[Domain[u]]]

\* on_load_end of the main frame.
LoadEnd(t) ==
  LET u == url[t]
      how == IF transitions[t] = Nothing THEN "link" ELSE transitions[t]
  IN /\ t \in loading
     /\ loading' = loading \ {t}
     /\ transitions' = [transitions EXCEPT ![t] = Nothing]
     /\ IF u \in Recorded
        THEN \E ok \in BOOLEAN :
               /\ Tries(ok)
               /\ IF ok THEN /\ lastId < MaxRows
                             /\ RecordVisit(u, how)
                             /\ finished' = [finished EXCEPT ![u] = now]
                  ELSE UNCHANGED <<rows, index, lastId, finished>>
        ELSE UNCHANGED <<history, faults>>
     /\ ShowLevel(u)
     /\ UNCHANGED <<now, url, stored, unsaved>>

\* The tab goes; its transition stays in the map.
TabCloses(t) ==
  /\ t \in Shown
  /\ url' = [url EXCEPT ![t] = Nothing]
  /\ loading' = loading \ {t}
  /\ UNCHANGED <<now, transitions, history, zoom, faults>>

-----------------------------------------------------------------------------
(* Zoom.                                                                    *)

\* adjust_zoom of the active tab, whichever it is.
AdjustZoom(t) ==
  \E delta \in {-1, 1}, ok \in BOOLEAN :
    LET u == url[t]
        new == level[Place[u]] + delta
    IN /\ t \in Shown /\ 0 <= new /\ new <= MaxLevel
       /\ level' = [level EXCEPT ![Place[u]] = new]
       /\ Tries(ok)
       /\ stored' = IF ok THEN [stored EXCEPT ![Domain[u]] = new] ELSE stored
       /\ unsaved' = IF ok THEN unsaved \ {Domain[u]} ELSE unsaved \cup {Domain[u]}
       /\ UNCHANGED <<now, pages, history>>

\* reset_zoom.
ResetZoom(t) ==
  \E ok \in BOOLEAN :
    LET u == url[t] IN
    /\ t \in Shown
    /\ level' = [level EXCEPT ![Place[u]] = 0]
    /\ Tries(ok)
    /\ stored' = IF ok THEN [stored EXCEPT ![Domain[u]] = 0] ELSE stored
    /\ unsaved' = IF ok THEN unsaved \ {Domain[u]} ELSE unsaved \cup {Domain[u]}
    /\ UNCHANGED <<now, pages, history>>

\* run_clear_zoom: another process empties the table.
ClearZoom ==
  /\ stored' = [d \in DOMAIN stored |-> 0]
  /\ UNCHANGED <<now, pages, history, level, unsaved, faults>>

-----------------------------------------------------------------------------
(* The process.                                                             *)

\* It ends and another begins: an exit that is not a crash clears what the
\* configuration lists.
Restart ==
  /\ url' = Absent /\ loading' = {} /\ transitions' = Absent
  /\ level' = Unzoomed /\ unsaved' = {}
  /\ \E crashed \in BOOLEAN :
       IF ClearsHistory /\ ~crashed
       THEN Store({}) /\ finished' = [u \in Urls |-> Never]
       ELSE UNCHANGED <<rows, index, finished>>
  /\ UNCHANGED <<now, lastId, stored, faults>>

Tick == now < MaxNow /\ now' = now + 1 /\ UNCHANGED <<pages, history, zoom, faults>>

Next ==
  \/ \E t \in Tabs :
       \/ LoadStart(t) \/ TitleChange(t) \/ LoadEnd(t) \/ TabCloses(t)
       \/ AdjustZoom(t) \/ ResetZoom(t)
  \/ ClearZoom \/ Restart \/ Tick

Spec == Init /\ [][Next]_vars

-----------------------------------------------------------------------------
(* Properties.                                                              *)

\* Two rows of one address are further apart than the window (the clock does
\* not step back here).
NoDoubles ==
  \A a, b \in rows : (a # b /\ a.url = b.url) => (a.time - b.time > Window \/ b.time - a.time > Window)

\* Every load that finished is in the history, with the time of the last one,
\* and nothing else is: no page of the browser, no skipped scheme.
VisitsAreThere ==
  /\ \A u \in Urls : LET visits == {row \in rows : row.url = u} IN
       IF finished[u] = Never THEN visits = {}
       ELSE visits # {} /\ Newest(visits).time = finished[u]
  /\ {row.url : row \in rows} \subseteq Recorded

\* A row has a title of its own page.
TitlesFit == \A row \in rows : row.title \in TitlesOf[row.url] \cup {Nothing}

\* The search finds what the table has: as a search in the rows would.
SearchIsComplete ==
  \A word \in {url[t] : t \in Shown} \cup UNION {TitlesOf[u] : u \in Urls} :
    LET answers == Search(word)
    IN /\ {a.url : a \in answers} = {row.url : row \in {r \in rows : Has(r, word)}}
       /\ \A a, b \in answers : a.url = b.url => a = b

\* The table follows the visits: nothing doubled, lost, made up or mistitled,
\* and nothing the search misses (record_visit, update_latest_title, search).
VisitsAreTrue == NoDoubles /\ VisitsAreThere /\ TitlesFit /\ SearchIsComplete

\* The sites whose level is not shared with another key.
Plain(u) == \A v \in Urls : (Domain[u] = Domain[v]) <=> (Place[u] = Place[v])

\* A page that has loaded is shown at the level that the table has for its
\* site (on_load_end, adjust_zoom, reset_zoom).
ZoomAgrees ==
  \A t \in Shown \ loading : LET d == Domain[url[t]] IN
    (Plain(url[t]) /\ d \notin unsaved /\ stored[d] # 0) => level[Place[url[t]]] = stored[d]
=============================================================================
