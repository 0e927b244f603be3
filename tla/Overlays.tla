------------------------------- MODULE Overlays ------------------------------
(* The bar that the chrome opens over the page: the command line, the       *)
(* omnibar and the find bar.  It holds the text being typed, as the bytes   *)
(* of its characters, a cursor that counts bytes, the suggestions for the   *)
(* text and the one selected among them.  The find bar searches while the   *)
(* user types, after a pause; the engine has a search per tab and reports   *)
(* its matches through a mailbox of one slot.                               *)
EXTENDS Naturals, Sequences, FiniteSets, SequencesExt

CONSTANTS
  Tabs,
  Chars,          \* what can be typed: the characters, each a sequence of bytes
  Prefills,       \* the addresses of the pages the omnibar opens on
  Clips,          \* the texts of the clipboard
  Rows,           \* what the stores answer: sequences of addresses
  EngineWords,       \* the words that choose a search engine
  Schemes,        \* the schemes a typed address may have
  Verbs,          \* from the names of the commands to the commands
  MaxSuggestions, \* eight in the code
  MaxText,        \* bound on the bytes in the omnibar
  MaxCommand,     \* bound on the bytes in the command line
  MaxQuery        \* bound on the bytes in the find bar

VARIABLES
  bar,            \* overlay: the bar that is open, a record of kind "none" if none
  due,            \* find_live_due is armed
  mode,           \* the mode of the keymap, as far as the bars set it
  active,         \* the tab shown
  search,         \* the query that each tab's engine searches
  status,         \* find_query of the status line
  opened          \* what the last step navigated to

vars == <<bar, due, mode, active, search, status, opened>>

Blank == " "
Control == {"nl", "tab"}                    \* characters that are not text
NoQuery == [query |-> <<>>, counted |-> FALSE]
NoBar == [kind |-> "none"]
Nothing == <<>>

Bar(kind) == [kind |-> kind, text |-> <<>>, cursor |-> 0, rows |-> <<>>, selected |-> 0]

Init ==
  /\ bar = NoBar /\ due = FALSE /\ mode = "normal"
  /\ active = CHOOSE t \in Tabs : TRUE
  /\ search = [t \in Tabs |-> <<>>]
  /\ status = NoQuery /\ opened = Nothing

-----------------------------------------------------------------------------
(* Texts.                                                                   *)

\* is_char_boundary: "C" is a byte that continues a character.
Boundary(text, i) == i = 0 \/ i = Len(text) \/ (i < Len(text) /\ text[i + 1] # "C")

\* The byte before the cursor, whatever it is part of.
Before_byte(text, i) == i - 1

\* Where the character before the cursor begins, and where the one after ends.
Before(text, i) == CHOOSE j \in 0 .. i - 1 : /\ Boundary(text, j)
                                             /\ \A k \in j + 1 .. i - 1 : ~Boundary(text, k)
After(text, i) == CHOOSE j \in i + 1 .. Len(text) : /\ Boundary(text, j)
                                                    /\ \A k \in i + 1 .. j - 1 : ~Boundary(text, k)

\* The entries of s at the places in keep, in their order.
Picked(s, keep) ==
  LET Place(i) == Cardinality({j \in keep : j <= i}) IN
    [n \in 1 .. Cardinality(keep) |-> s[CHOOSE i \in keep : Place(i) = n]]

Cut(text, from, to) == SubSeq(text, 1, from) \o SubSeq(text, to + 1, Len(text))

\* Where the word before the cursor begins: blanks are passed first.
WordStart(text, i) ==
  LET end == CHOOSE j \in 0 .. i : /\ j = 0 \/ text[j] # Blank
                                  /\ \A k \in j + 1 .. i : text[k] = Blank
  IN CHOOSE j \in 0 .. end : /\ j = 0 \/ text[j] = Blank
                            /\ \A k \in j + 1 .. end : text[k] # Blank

\* trim and split_whitespace.
Trim(text) ==
  LET solid == {i \in DOMAIN text : text[i] # Blank} IN
    IF solid = {} THEN <<>>
    ELSE SubSeq(text, CHOOSE i \in solid : \A j \in solid : i <= j,
                      CHOOSE i \in solid : \A j \in solid : j <= i)
FirstWord(text) ==
  LET blanks == {i \in DOMAIN text : text[i] = Blank} IN
    IF blanks = {} THEN text
    ELSE SubSeq(text, 1, (CHOOSE i \in blanks : \A j \in blanks : i <= j) - 1)
Rest(text) == Trim(SubSeq(text, Len(FirstWord(text)) + 1, Len(text)))

-----------------------------------------------------------------------------
(* What a typed text means: an address, a host or something to search for.  *)

HasScheme(text) ==
  \E i \in DOMAIN text : text[i] = ":" /\ SubSeq(text, 1, i - 1) \in Schemes

\* looks_like_url: labels of letters between dots, one dot at least.
LooksLikeHost(text) ==
  /\ \E i \in DOMAIN text : text[i] = "."
  /\ \A i \in DOMAIN text : text[i] \in {"a", "."}
  /\ \A i \in 1 .. Len(text) + 1 :
       i = 1 \/ i = Len(text) + 1 \/ text[i - 1] # "." \/ text[i] # "."
  /\ text[1] # "." /\ text[Len(text)] # "."

\* resolve_input: what is navigated to.
Resolved(text) ==
  LET said == Trim(text) IN
    CASE said = <<>> -> Nothing
      [] said # <<>> /\ HasScheme(said) -> <<"address", said>>
      [] said # <<>> /\ ~HasScheme(said) /\ LooksLikeHost(said) -> <<"https", said>>
      [] OTHER ->
           IF FirstWord(said) \in EngineWords /\ Rest(said) # <<>>
           THEN <<"search", FirstWord(said), Rest(said)>>
           ELSE <<"search", said>>

-----------------------------------------------------------------------------
(* The suggestions.                                                         *)

Suggestion(kind, value) == [kind |-> kind, value |-> value]

\* The rows of the history, then those of the bookmarks, each address once.
Known(history, bookmarks) ==
  LET Of(kind, rows) == [i \in DOMAIN rows |-> Suggestion(kind, rows[i])]
      found == Of("history", history) \o Of("bookmark", bookmarks)
  IN Picked(found, {i \in DOMAIN found : \A j \in 1 .. i - 1 : found[j].value # found[i].value})

\* The lists that omnibar_suggestions may make for a text.
OmnibarRows(text) ==
  IF Trim(text) = <<>> THEN {<<>>}
  ELSE {LET known == Known(h, b) IN
          IF Len(known) >= MaxSuggestions THEN SubSeq(known, 1, MaxSuggestions)
          ELSE Append(known, Suggestion("search", Resolved(text)))
        : h \in Rows, b \in Rows}

IsBegun(text, name) == Len(text) <= Len(name) /\ SubSeq(name, 1, Len(text)) = text

\* command_suggestions: the names that the text begins, in their order.
CommandRows(text) ==
  LET names == [i \in DOMAIN Verbs |-> Suggestion("command", Verbs[i].name)]
      begun == Picked(names, {i \in DOMAIN Verbs : IsBegun(Trim(text), Verbs[i].name)})
  IN {IF Len(begun) > MaxSuggestions THEN SubSeq(begun, 1, MaxSuggestions) ELSE begun}

RowsFor(b) ==
  CASE b.kind = "omnibar" -> OmnibarRows(b.text)
    [] b.kind = "command" -> CommandRows(b.text)
    [] b.kind = "find" -> {<<>>}

\* refresh_overlay_suggestions of the bar b: the selection is dropped, and
\* the find bar starts its pause again.
Refreshed(b) ==
  /\ \E rows \in RowsFor(b) : bar' = [b EXCEPT !.rows = rows, !.selected = 0]
  /\ due' = (due \/ b.kind = "find")

-----------------------------------------------------------------------------
(* Opening, typing and giving up.                                           *)

NoSearchChange == UNCHANGED <<active, search, status>>

OpenCommandLine ==
  /\ bar = NoBar /\ Refreshed(Bar("command"))
  /\ opened' = Nothing /\ NoSearchChange /\ UNCHANGED mode

\* open_omnibar: the address of the page, the cursor after it.
OpenOmnibar ==
  /\ bar = NoBar
  /\ \E page \in Prefills :
       Refreshed([Bar("omnibar") EXCEPT !.text = page, !.cursor = Len(page)])
  /\ opened' = Nothing /\ NoSearchChange /\ UNCHANGED mode

OpenFind ==
  /\ bar = NoBar /\ mode' = "command" /\ Refreshed(Bar("find"))
  /\ opened' = Nothing /\ NoSearchChange

IsOpen == bar.kind # "none"
Room(b) == Len(b.text) <= CASE b.kind = "omnibar" -> MaxText
                            [] b.kind = "command" -> MaxCommand
                            [] b.kind = "find" -> MaxQuery

\* handle_text.  A character of the clipboard that is not text changes nothing.
Inserted(b, c) ==
  [b EXCEPT !.text = SubSeq(@, 1, b.cursor) \o c \o SubSeq(@, b.cursor + 1, Len(@)),
            !.cursor = @ + Len(c), !.selected = 0]

Deleted(b, from) == [b EXCEPT !.text = Cut(@, from, b.cursor), !.cursor = from, !.selected = 0]

\* A key that changes the text: a character, a backspace, Ctrl-W or Ctrl-U.
Edits(b) ==
  {Inserted(b, c) : c \in Chars} \cup
  {IF b.cursor = 0 THEN b ELSE Deleted(b, Before(b.text, b.cursor)),
   Deleted(b, WordStart(b.text, b.cursor)),
   [b EXCEPT !.text = <<>>, !.cursor = 0, !.selected = 0]}

Edit ==
  /\ IsOpen
  /\ \E b \in Edits(bar) : Room(b) /\ Refreshed(b)
  /\ opened' = Nothing /\ NoSearchChange /\ UNCHANGED mode

\* Ctrl-V: the characters of the clipboard one by one, without ends of lines
\* and other controls.
Pasted(b, clip) ==
  LET text == Picked(clip, {i \in DOMAIN clip : clip[i] \notin Control}) IN
    IF text = <<>> THEN b ELSE Inserted(b, text)

Paste ==
  /\ IsOpen
  /\ \E clip \in Clips : LET b == Pasted(bar, clip) IN Room(b) /\ Refreshed(b)
  /\ opened' = Nothing /\ NoSearchChange /\ UNCHANGED mode

Listed == Len(bar.rows)

\* Up, Down and Tab move the selection; 0 is none.
Select ==
  /\ IsOpen
  /\ \E s \in {IF bar.selected = 0 THEN 0 ELSE bar.selected - 1,
               IF bar.selected >= Listed THEN Listed ELSE bar.selected + 1} :
       bar' = [bar EXCEPT !.selected = s]
  /\ opened' = Nothing /\ NoSearchChange /\ UNCHANGED <<due, mode>>

\* Left and Right move the cursor.
MoveCursor ==
  /\ IsOpen
  /\ \/ bar.cursor > 0 /\ bar' = [bar EXCEPT !.cursor = Before(bar.text, @)]
     \/ bar.cursor < Len(bar.text) /\ bar' = [bar EXCEPT !.cursor = After(bar.text, @)]
  /\ opened' = Nothing /\ NoSearchChange /\ UNCHANGED <<due, mode>>

\* Closing any bar ends the search.
Closed_any(t) ==
  /\ bar' = NoBar
  /\ due' = FALSE /\ mode' = "normal"
  /\ search' = [search EXCEPT ![t] = <<>>] /\ status' = NoQuery

\* close_overlay with t as the tab shown; the find bar ends the search.
Closed(t) ==
  /\ bar' = NoBar
  /\ IF ~IsOpen THEN UNCHANGED <<due, mode, search, status>>
     ELSE /\ due' = FALSE /\ mode' = "normal"
          /\ IF bar.kind = "find"
             THEN search' = [search EXCEPT ![t] = <<>>] /\ status' = NoQuery
             ELSE UNCHANGED <<search, status>>

\* Esc and Ctrl-C.
Escape ==
  /\ IsOpen /\ Closed(active)
  /\ opened' = Nothing /\ UNCHANGED active

\* A click on a tab of the strip: it is shown first, then the bar is closed.
ClickTab(t) ==
  /\ active' = t /\ Closed(t)
  /\ opened' = Nothing

\* A tab is shown without the keyboard: a forwarded address, a script.
ShowTab(t) ==
  /\ active' = t
  /\ opened' = Nothing /\ UNCHANGED <<bar, due, mode, search, status>>

-----------------------------------------------------------------------------
(* Searching.                                                               *)

\* start_find and what the status line says of it.
Searching(query) ==
  /\ search' = [search EXCEPT ![active] = query]
  /\ status' = [query |-> query, counted |-> FALSE]

\* current_value: the suggestion selected, or the text.
Value == IF bar.selected = 0 THEN bar.text ELSE bar.rows[bar.selected].value

\* maybe_dispatch_find_live, once the pause is over.
LiveFind ==
  /\ due /\ due' = FALSE
  /\ IF bar.kind # "find" THEN UNCHANGED <<search, status>>
     ELSE IF Trim(bar.text) = <<>>
          THEN search' = [search EXCEPT ![active] = <<>>] /\ status' = NoQuery
          ELSE Searching(Trim(bar.text))
  /\ opened' = Nothing /\ UNCHANGED <<bar, mode, active>>

\* on_find_result and pump_find_results: the mailbox keeps the last matches of
\* any tab that searches, and those of a tab that is not shown are dropped.
PumpFindResults ==
  /\ \E t \in Tabs :
       /\ search[t] # <<>>
       /\ status' = IF t = active /\ status # NoQuery THEN [status EXCEPT !.counted = TRUE]
                    ELSE status
  /\ opened' = Nothing /\ UNCHANGED <<bar, due, mode, active, search>>

-----------------------------------------------------------------------------
(* Return.                                                                  *)

\* The commands: find and open; the others reach other parts.
Commanded(text) ==
  LET said == Trim(text)
      verbs == {v \in ToSet(Verbs) : v.name = FirstWord(said)}
      Says(command) == (\E v \in verbs : v.command = command) /\ Rest(said) # <<>>
  IN /\ opened' = IF Says("open") THEN Resolved(Rest(said)) ELSE Nothing
     /\ IF Says("find") THEN Searching(Rest(said)) ELSE UNCHANGED <<search, status>>

\* dispatch_omnibar: a selected suggestion is taken as it is.
OmnibarTarget == IF bar.selected # 0 THEN Value ELSE Resolved(bar.text)

\* confirm_overlay: the bar is gone, then its text is dispatched; an empty
\* query leaves the live search alone.
Confirm ==
  /\ IsOpen
  /\ bar' = NoBar /\ due' = FALSE /\ mode' = "normal"
  /\ CASE bar.kind = "command" -> Commanded(Value)
       [] bar.kind = "omnibar" -> opened' = OmnibarTarget /\ UNCHANGED <<search, status>>
       [] bar.kind = "find" ->
            /\ opened' = Nothing
            /\ IF Trim(bar.text) = <<>> THEN UNCHANGED <<search, status>>
               ELSE Searching(Trim(bar.text))
  /\ UNCHANGED active

Next ==
  \/ OpenCommandLine \/ OpenOmnibar \/ OpenFind
  \/ Edit \/ Paste \/ Select \/ MoveCursor \/ Escape \/ Confirm
  \/ \E t \in Tabs : ClickTab(t) \/ ShowTab(t)
  \/ LiveFind \/ PumpFindResults

Spec == Init /\ [][Next]_vars /\ WF_vars(LiveFind)

-----------------------------------------------------------------------------
\* No text begins with the rest of a character, and blanks and controls are
\* characters of one byte.
Whole(text) ==
  /\ text \in Seq(ToSet(text))
  /\ \A i \in DOMAIN text : text[i] = "C" => i > 1 /\ text[i - 1] \notin Control \cup {Blank}

\* A String is valid UTF-8, wherever it comes from.
TextsAreWhole ==
  /\ \A text \in Chars \cup Prefills \cup Clips : Whole(text)
  /\ \A rows \in Rows : rows \in Seq(ToSet(rows))

\* COMMAND_NAMES lists every command once.
NamesAreDistinct ==
  /\ Verbs \in Seq(ToSet(Verbs))
  /\ \A i, j \in DOMAIN Verbs : Verbs[i].name = Verbs[j].name => i = j

\* No edit cuts a character in two (String::insert and replace_range panic
\* there), and the list under the bar is that of the text in it, with every
\* row of the stores once: what Return takes is what is highlighted, or what is typed.
BarIsSound ==
  IsOpen =>
    /\ bar.cursor <= Len(bar.text) /\ Boundary(bar.text, bar.cursor)
    /\ Len(bar.text) > 0 => bar.text[1] # "C"
    /\ bar.selected <= Listed
    /\ bar.rows \in RowsFor(bar)
    /\ \A i, j \in 1 .. Listed :
         bar.rows[i].value = bar.rows[j].value => i = j \/ "search" \in {bar.rows[i].kind, bar.rows[j].kind}

Wants(query) == bar.kind = "find" /\ Trim(bar.text) = query
Queries == {search[t] : t \in Tabs}

\* Searches begin and end with the find bar and the command of that name
\* only: closing another bar leaves the search of a tab alone.
SearchIsTheUsers ==
  [][search' # search => bar.kind = "find" \/ (bar.kind = "command" /\ bar' = NoBar)]_vars

\* While the find bar stays open, what is in it is searched in the end.
TypedIsSearched(query) == Wants(query) ~> (status.query = query \/ ~Wants(query))
=============================================================================
