------------------------------- MODULE MCInput -------------------------------
(* Instances of Keyboard and Overlays for TLC: a behaviour is one of the    *)
(* keys, or of the text in the bar that a key has opened.                   *)
EXTENDS Keyboard

CONSTANTS
  \* Overlays
  Chars, Prefills, Clips, Rows, EngineWords, Schemes, Verbs, MaxSuggestions,
  MaxText, MaxCommand, MaxQuery

VARIABLES part, bar, due, mode, active, search, status, opened

barVars == <<bar, due, mode, active, search, status, opened>>

Bars == INSTANCE Overlays

\* What Overlays assumes of the texts it is given.
ASSUME BarsAssumption == Bars!TextsAreWhole /\ Bars!NamesAreDistinct /\ MaxSuggestions \in Nat

Bind(m, k, a) == [mode |-> m, keys |-> k, action |-> a]

\* The bindings of Esc that every keymap starts from.
Leaving == {Bind("normal", <<"esc">>, "exit"), Bind("visual", <<"esc">>, "normal"),
            Bind("hint", <<"esc">>, "normal"), Bind("command", <<"esc">>, "normal"),
            Bind("visual", <<"y">>, "yank")}

\* One key for each action.
Plain == Leaving \cup {Bind("normal", <<"e">>, "omnibar"), Bind("normal", <<"f">>, "hint"),
                       Bind("normal", <<"g", "g">>, "scroll"), Bind("normal", <<"n">>, "next")}

\* The same with ambiguous keys, and with Insert mode by a key.
Ambiguous == Leaving \cup {Bind("normal", <<"e">>, "omnibar"), Bind("normal", <<"e", "e">>, "newtab"),
                           Bind("normal", <<"g">>, "find"), Bind("normal", <<"g", "f">>, "hint"),
                           Bind("visual", <<"n">>, "insert")}

MCKeymaps == {Plain, Ambiguous}
MCSlotOf == [t \in Tabs |-> t]

-----------------------------------------------------------------------------
(* Texts: a letter of one byte and one of two, a blank and a dot can be     *)
(* typed; "a" is a scheme, a search engine and the find command.            *)

\* Two addresses that the stores know: one is what "a.a" resolves to.
Visited == <<"https", <<"a", ".", "a">>>>
Other == <<"address", <<"u">>>>

MCChars == {<<"a">>, <<"L", "C">>, <<" ">>, <<".">>}
MCPrefills == {<<>>, <<"a", ":", "a">>, <<"a", ".", "a">>}
MCClips == {<<"a", "nl", "L", "C">>, <<"tab", "a">>}
MCRows == {<<>>, <<Visited, Visited, Other>>}
MCVerbs == <<[name |-> <<"a">>, command |-> "find"], [name |-> <<".">>, command |-> "open"],
             [name |-> <<".", "a">>, command |-> "quit"]>>
Letter == {<<"a">>}

-----------------------------------------------------------------------------

PartsInit == part \in {"keys", "bars"} /\ Init /\ Bars!Init /\ (part = "bars" => keymap = Plain)

OfKeys(action) == part = "keys" /\ action /\ UNCHANGED <<part, barVars>>
OfBars(action) == part = "bars" /\ action /\ UNCHANGED <<part, vars>>

allVars == <<part, vars, barVars>>

\* The fairness of Keyboard and Overlays.
PartsSpec ==
  /\ PartsInit
  /\ [][OfKeys(Next) \/ OfBars(Bars!Next)]_allVars
  /\ WF_allVars(OfKeys(weary /\ Esc)) /\ WF_allVars(OfKeys(TimePasses))
  /\ WF_allVars(OfKeys(AboutToWait))
  /\ WF_allVars(OfBars(Bars!LiveFind))

\* Overlays: text, cursor and list fit together in whatever bar is open.
BarIsSound == part = "bars" => Bars!BarIsSound

\* Overlays: a search begins and ends with its bar, and what is typed is searched.
FindFollowsTheBar ==
  Bars!SearchIsTheUsers /\ \A query \in {<<"a">>, <<".">>} : Bars!TypedIsSearched(query)
=============================================================================
