----------------------------- MODULE MCProcesses -----------------------------
(* Instances of SingleInstance, Bookmarks, Visits and Icons for TLC: a      *)
(* behaviour is that of several invocations on one profile, of two          *)
(* processes that have the bookmarks open, of the pages that leave visits   *)
(* and zoom levels behind, or of the icons of two tabs.  The invocations    *)
(* are interchangeable.                                                     *)
EXTENDS SingleInstance, TLC

CONSTANTS
  \* Bookmarks
  Openers, Knows, Links, Titles, Raw, Normal, Docs, MaxDepth, MaxTags, MaxCommits,
  \* Visits
  Tabs, Urls, Internal, Skipped, Domain, Place, TitlesOf, Codes, Window, Recent, ClearsHistory,
  MaxNow, MaxRows, MaxLevel, MaxFaults,
  \* Icons
  Numbers, Addresses, Origin, Cached, ShowIcons, MaxFetches

\* Nobody is no process; a file is read as a sequence of folders, ends and
\* anchors with a list of tags.
ASSUME StoreAssumption ==
  /\ "nobody" \notin Openers /\ Knows \in [Openers -> Nat] /\ MaxTags \in Nat /\ MaxDepth \in Nat \ {0}
  /\ \A doc \in Docs :
       /\ doc \in Seq({doc[i] : i \in DOMAIN doc})
       /\ \A i \in DOMAIN doc : doc[i].kind = "anchor" =>
            doc[i].tags \in Seq({doc[i].tags[k] : k \in DOMAIN doc[i].tags})

ASSUME PagesAssumption == Window \in Nat /\ "none" \notin Urls

VARIABLES part, applied, table, lastId, commits, writer, doing, seen, draft, acknowledged,
          now, url, loading, transitions, visits, index, level, stored, lastVisit, faults,
          finished, unsaved,
          address, used, fetching, sink, icons, prefill, checked, cache, given

storeVars == <<applied, table, lastId, commits, writer, doing, seen, draft, acknowledged>>
pageVars == <<now, url, loading, transitions, visits, index, level, stored, lastVisit, faults,
              finished, unsaved>>
iconVars == <<address, used, fetching, sink, icons, prefill, checked, cache, given>>

Folder(name) == [kind |-> "folder", name |-> name]
End == [kind |-> "end"]
Anchor(link, tags) == [kind |-> "anchor", url |-> link, title |-> "t", tags |-> tags]

\* An address twice and one that is none; folders nested too deep; an end of
\* nothing, a folder without a name, tags that are equal in lower case.
MCDocs ==
  {<<Folder("F"), Anchor("a", <<"Ab">>), Folder("g"), Anchor("b", <<>>), End,
     Anchor("bad", <<>>), End, Anchor("a", <<>>)>>,
   <<Folder("F"), Folder("g"), Folder("F"), Anchor("b", <<"ab">>), End, End, Anchor("a", <<"ab">>)>>,
   <<End, Folder(" "), Anchor("b", <<>>), Folder("g"), Anchor("a", <<"Ab">>), End,
     Anchor("b", <<"ab", " ", "Ab", "F">>)>>}

MCNormal ==
  [tag \in {"Ab", "ab", " ", "F", "g"} |->
     CASE tag \in {"Ab", "ab"} -> "ab" [] tag = " " -> "" [] tag = "F" -> "f" [] OTHER -> tag]

\* The browser is one migration behind the command line.
MCKnows == [app |-> 1, cli |-> 2]

\* One site, a page of the browser's own and one of a skipped scheme: the two
\* have no host and share a key.
MCSite == [a |-> "a", own |-> "_global_", data |-> "_global_"]
MCTitlesOf == [a |-> {"x", "y"}, own |-> {"x"}, data |-> {"x"}]

MCOrigin == [a |-> "A", b |-> "B"]

Store == INSTANCE Bookmarks WITH Procs <- Openers, Urls <- Links, pc <- doing
Pages == INSTANCE Visits WITH rows <- visits, lastId <- lastVisit
Strip == INSTANCE Icons WITH Shown <- ShowIcons

PartsInit ==
  /\ part \in {"urls", "store", "pages", "icons"}
  /\ Init /\ Store!Init /\ Pages!Init /\ Strip!Init
  /\ part # "icons" => \A o \in DOMAIN cache : cache[o] = "nothing"

allVars == <<part, vars, storeVars, pageVars, iconVars>>

OfUrls(action) == part = "urls" /\ action /\ UNCHANGED <<part, storeVars, pageVars, iconVars>>
OfStore(action) == part = "store" /\ action /\ UNCHANGED <<part, vars, pageVars, iconVars>>
OfPages(action) == part = "pages" /\ action /\ UNCHANGED <<part, vars, storeVars, iconVars>>
OfIcons(action) == part = "icons" /\ action /\ UNCHANGED <<part, vars, storeVars, pageVars>>

PartsSpec ==
  PartsInit /\ [][\/ OfUrls(Next) \/ OfStore(Store!Next)
                 \/ OfPages(Pages!Next) \/ OfIcons(Strip!Next)]_allVars

\* Bookmarks: the schema is applied once, no write is lost between the
\* processes, and an import has the tags of its folders.
StoreIsWhole ==
  part = "store" => Store!SchemaIsWhole /\ Store!NoLostUpdate /\ Store!ImportIsFaithful

\* Visits: the history is that of the loads that finished, and a site is shown
\* at the level that is stored for it.  Icons: a tab has the icon its page
\* sent, or one that was kept for its origin.
TablesAreTrue ==
  /\ part = "pages" => Pages!VisitsAreTrue /\ Pages!ZoomAgrees
  /\ part = "icons" => Strip!IconsAreTheirs

ProcSymmetry == Permutations(Procs)
=============================================================================
