------------------------------- MODULE Icons --------------------------------
(***************************************************************************)
(* The icons of the tab strip.  A page names its icon, the engine fetches  *)
(* it in its own time and leaves it in a queue with the number of the tab  *)
(* (on_favicon_urlchange, on_download_image_finished;                      *)
(* on_favicon_script_message).  At every turn the event loop looks at the  *)
(* tabs and their addresses, shows what a cache on disk holds for the      *)
(* origin of a tab that has no icon yet, and takes the queue, which also   *)
(* fills the cache (pump_favicon_updates).                                 *)
(*                                                                         *)
(* An icon is the address of the page it was fetched for: a tab may have   *)
(* gone elsewhere when it arrives.  Tabs get numbers that are not used     *)
(* again.                                                                  *)
(***************************************************************************)
EXTENDS Naturals, Sequences, FiniteSets

CONSTANTS
  Numbers,     \* browser ids, of all tabs that ever open
  Addresses,
  Origin,      \* origin_of, NoOrigin for about: and its like
  Cached,      \* whether there is a cache (not with --private)
  Shown,       \* [general] show_favicons
  MaxFetches   \* bound: icons on their way

VARIABLES
  address,     \* TabSummary::url, NoTab for a number without a tab
  used,        \* the numbers used so far
  fetching,    \* the icons the engine fetches: [tab, icon]
  sink,        \* FaviconSink
  icons,       \* AppState::favicons: [icon, by], and for what address and
               \* under what origin it was looked up; NoIcon
  prefill,     \* pending_favicon_prefill
  checked,     \* favicon_check_url
  cache,       \* the table, by origin
  given        \* (ghost) the tabs that were sent an icon by their page

app == <<icons, prefill, checked, cache>>
vars == <<address, used, fetching, sink, app, given>>

NoTab == "none"
NoOrigin == "none"
NoIcon == [by |-> "none"]

Origins == {Origin[a] : a \in Addresses} \ {NoOrigin}
Live == {n \in Numbers : address[n] # NoTab}

Init ==
  /\ address = [n \in Numbers |-> NoTab] /\ used = {}
  /\ fetching = {} /\ sink = <<>>
  /\ icons = [n \in Numbers |-> NoIcon]
  /\ prefill = [n \in Numbers |-> NoOrigin]
  /\ checked = [n \in Numbers |-> NoTab]
  /\ cache \in [Origins -> {"nothing"} \cup {a \in Addresses : Origin[a] # NoOrigin}]
  /\ given = {}
  /\ \A o \in Origins : cache[o] = "nothing" \/ Origin[cache[o]] = o

-----------------------------------------------------------------------------
(* Tabs and pages.                                                         *)

\* register_favicon_prefill: a tab the session restores is looked up early.
Registered(n, a) ==
  IF Shown /\ Cached /\ Origin[a] # NoOrigin THEN [prefill EXCEPT ![n] = Origin[a]] ELSE prefill

OpenTab(n, a, restored) ==
  /\ n \notin used /\ used' = used \cup {n}
  /\ address' = [address EXCEPT ![n] = a]
  /\ prefill' = IF restored THEN Registered(n, a) ELSE prefill
  /\ UNCHANGED <<fetching, sink, icons, checked, cache, given>>

CloseTab(n) ==
  /\ n \in Live /\ address' = [address EXCEPT ![n] = NoTab]
  /\ UNCHANGED <<used, fetching, sink, app, given>>

Goes(n, a) ==
  /\ n \in Live /\ address' = [address EXCEPT ![n] = a]
  /\ UNCHANGED <<used, fetching, sink, app, given>>

\* on_favicon_urlchange, unless icons are switched off.
NamesIcon(n) ==
  /\ Shown /\ n \in Live /\ Cardinality(fetching) + Len(sink) < MaxFetches
  /\ fetching' = fetching \cup {[tab |-> n, icon |-> address[n]]}
  /\ UNCHANGED <<address, used, sink, app, given>>

\* on_download_image_finished: an answer that is none, empty or too small is
\* dropped.
Fetched(f, good) ==
  /\ fetching' = fetching \ {f}
  /\ sink' = IF good THEN Append(sink, f) ELSE sink
  /\ UNCHANGED <<address, used, app, given>>

-----------------------------------------------------------------------------
(* The event loop: refresh_tab_strip, pump_favicon_updates.                *)

\* The icons of tabs that are gone are dropped.
Retained == [n \in Numbers |-> IF n \in Live THEN icons[n] ELSE NoIcon]

\* A tab whose address has changed and that has no icon is looked up.
LookedUp(shown) ==
  [n \in Numbers |->
    IF /\ Cached /\ n \in Live /\ checked[n] # address[n]
       /\ shown[n] = NoIcon /\ Origin[address[n]] # NoOrigin
      THEN Origin[address[n]] ELSE prefill[n]]

FromCache(n, origin) ==
  [icon |-> cache[origin], by |-> "cache", for |-> address[n], under |-> origin]

\* The cache answers for tabs without an icon; the lookups are used up.
Prefilled(shown, wanted) ==
  [n \in Numbers |->
    IF Cached /\ shown[n] = NoIcon /\ wanted[n] # NoOrigin /\ cache[wanted[n]] # "nothing"
      THEN FromCache(n, wanted[n]) ELSE shown[n]]

LastOf(n) ==
  LET mine == {i \in DOMAIN sink : sink[i].tab = n}
  IN  [icon |-> sink[CHOOSE i \in mine : \A j \in mine : j <= i].icon, by |-> "page"]

Sent == {sink[i].tab : i \in DOMAIN sink}

\* (mutant) A tab that has an icon keeps it.
Delivered_once(shown) ==
  [n \in Numbers |-> IF n \in Sent /\ shown[n] = NoIcon THEN LastOf(n) ELSE shown[n]]

\* What the engine delivered goes over anything.
Delivered(shown) == [n \in Numbers |-> IF n \in Sent THEN LastOf(n) ELSE shown[n]]

\* FaviconCache::put, under the origin the tab has now; a write may fail.
Put ==
  LET for(o) == {i \in DOMAIN sink :
                   address[sink[i].tab] # NoTab /\ Origin[address[sink[i].tab]] = o}
  IN  [o \in Origins |->
        IF Cached /\ for(o) # {} THEN sink[CHOOSE i \in for(o) : \A j \in for(o) : j <= i].icon
        ELSE cache[o]]

Pump ==
  LET wanted == LookedUp(Retained)
  IN  /\ Shown
      /\ icons' = Delivered(Prefilled(Retained, wanted))
      /\ \E failed \in SUBSET Origins :
           cache' = [o \in Origins |-> IF o \in failed THEN cache[o] ELSE Put[o]]
      /\ given' = given \cup Sent
      /\ sink' = <<>>
      /\ prefill' = [n \in Numbers |-> NoOrigin]
      /\ checked' = IF Cached THEN [n \in Numbers |-> address[n]] ELSE checked
      /\ UNCHANGED <<address, used, fetching>>

Next ==
  \/ \E n \in Numbers :
       \/ CloseTab(n) \/ NamesIcon(n)
       \/ \E a \in Addresses : Goes(n, a) \/ \E restored \in BOOLEAN : OpenTab(n, a, restored)
  \/ \E f \in fetching, good \in BOOLEAN : Fetched(f, good)
  \/ Pump

Spec == Init /\ [][Next]_vars

-----------------------------------------------------------------------------
(* Properties.                                                             *)

\* Nothing from the cache replaces what a page sent, and what came from the
\* cache was looked up under the origin the tab had (pump_favicon_updates).
IconsAreTheirs ==
  \A n \in Live : icons[n] # NoIcon =>
    /\ n \in given => icons[n].by = "page"
    /\ icons[n].by = "cache" => Origin[icons[n].for] \in {icons[n].under, NoOrigin}
=============================================================================
