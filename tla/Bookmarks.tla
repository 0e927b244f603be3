------------------------------ MODULE Bookmarks ------------------------------
(* A store on disk that several processes have open: the running browser    *)
(* and the command line, perhaps of another version.  Opening it applies    *)
(* the migrations it lacks, one transaction each.  The bookmarks are its    *)
(* table: one row for an address, tags that belong to a row, and an import  *)
(* that is taken whole or not at all.                                       *)
(*                                                                          *)
(* The database is SQLite with a write-ahead log: one writer at a time, and *)
(* a transaction that has read may write only if nothing was committed      *)
(* since.                                                                   *)
EXTENDS Naturals, Sequences, FiniteSets

CONSTANTS
  Procs,
  Knows,          \* the number of migrations in the binary of each process
  Urls,           \* the addresses, as canonicalise writes them
  Titles,
  Raw,            \* tags as they are typed or read from a file
  Normal,         \* trimmed and in lower case, by raw tag; "" if nothing is left
  Docs,           \* what can be imported: sequences of tokens
  MaxDepth,       \* MAX_NETSCAPE_FOLDER_DEPTH
  MaxTags,        \* MAX_NETSCAPE_TAGS_PER_ANCHOR
  MaxCommits      \* bound

VARIABLES
  applied,        \* schema_version: the migrations, in the order they were committed
  table,          \* by address: its row, or Nothing
  lastId,         \* row ids are not given twice
  commits,        \* transactions that changed the file
  writer,         \* who writes
  pc,             \* what each process does with the file
  seen,           \* the version, or the commits, that it saw when it read
  draft,          \* what its transaction leaves behind when it commits
  acknowledged    \* by address: what the operations that succeeded said last

vars == <<applied, table, lastId, commits, writer, pc, seen, draft, acknowledged>>

Nothing == [id |-> 0, title |-> "", tags |-> {}]
NoDraft == [rows |-> [u \in Urls |-> Nothing], lastId |-> 0, says |-> {}, doc |-> <<>>]
Nobody == "nobody"

Init ==
  /\ applied = <<>> /\ table = [u \in Urls |-> Nothing] /\ lastId = 0
  /\ commits = 0 /\ writer = Nobody
  /\ pc = [p \in Procs |-> "closed"] /\ seen = [p \in Procs |-> 0]
  /\ draft = [p \in Procs |-> NoDraft]
  /\ acknowledged = [u \in Urls |-> Nothing]

data == <<table, lastId, acknowledged>>

-----------------------------------------------------------------------------
(* Opening: buffr_store::apply.                                             *)

\* The version is read outside of any transaction.  A file of a newer binary
\* is refused.
Open(p) ==
  /\ pc[p] = "closed"
  /\ Len(applied) <= Knows[p]
  /\ pc' = [pc EXCEPT ![p] = "opening"] /\ seen' = [seen EXCEPT ![p] = Len(applied)]
  /\ UNCHANGED <<applied, commits, writer, draft, data>>

Versions == {applied[i] : i \in DOMAIN applied}

\* As Migrate, if a migration could be run again.
Migrate_again(p) ==
  /\ pc[p] = "opening" /\ seen[p] < Knows[p] /\ writer = Nobody
  /\ writer' = p /\ pc' = [pc EXCEPT ![p] = "migrating"]
  /\ UNCHANGED <<applied, commits, seen, draft, data>>

\* The batch of the next migration runs once no one else writes.
Migrate(p) ==
  /\ pc[p] = "opening" /\ seen[p] < Knows[p] /\ writer = Nobody
  /\ seen[p] + 1 \notin Versions
  /\ writer' = p /\ pc' = [pc EXCEPT ![p] = "migrating"]
  /\ UNCHANGED <<applied, commits, seen, draft, data>>

\* Another process was faster: the number of the version, or the table, is
\* there already and opening fails.
MigrationFails(p) ==
  /\ pc[p] = "opening" /\ seen[p] < Knows[p] /\ writer = Nobody
  /\ seen[p] + 1 \in Versions
  /\ pc' = [pc EXCEPT ![p] = "closed"]
  /\ UNCHANGED <<applied, commits, writer, seen, draft, data>>

MigrationCommits(p) ==
  /\ pc[p] = "migrating"
  /\ applied' = Append(applied, seen[p] + 1)
  /\ seen' = [seen EXCEPT ![p] = @ + 1]
  /\ commits' = commits + 1
  /\ writer' = Nobody /\ pc' = [pc EXCEPT ![p] = "opening"]
  /\ UNCHANGED <<draft, data>>

Opened(p) ==
  /\ pc[p] = "opening" /\ seen[p] >= Knows[p]
  /\ pc' = [pc EXCEPT ![p] = "open"]
  /\ UNCHANGED <<applied, commits, writer, seen, draft, data>>

-----------------------------------------------------------------------------
(* What the operations leave behind.                                        *)

normalise_tags(tags) == {Normal[t] : t \in tags} \ {""}

\* add_in_tx: a row of the address keeps its id and loses title and tags.
Added(rows, id, u, title, tags) ==
  [rows EXCEPT ![u] = [id |-> IF rows[u] = Nothing THEN id + 1 ELSE rows[u].id,
                       title |-> title, tags |-> normalise_tags(tags)]]

Says(u, title, tags) == [url |-> u, title |-> title, tags |-> normalise_tags(tags)]

\* The first MaxTags of the tags that are not blank.
Kept(tags) ==
  LET Full(k) == {j \in 1 .. k : Normal[tags[j]] # ""}
  IN  {tags[k] : k \in {k \in DOMAIN tags : k \in Full(k) /\ Cardinality(Full(k)) <= MaxTags}}

\* One token of the file.  The stack of folders drops its bottom when it is
\* full; an anchor without a good address is passed over.
Imported(state, token) ==
  CASE token.kind = "folder" ->
         LET open == state.folders IN
         [state EXCEPT !.folders = Append(IF Len(open) >= MaxDepth THEN Tail(open) ELSE open, token.name)]
    [] token.kind = "end" ->
         [state EXCEPT !.folders = IF @ = <<>> THEN @ ELSE SubSeq(@, 1, Len(@) - 1)]
    [] token.kind = "anchor" /\ token.url \in Urls ->
         LET tags == Kept(token.tags \o state.folders) IN
         [state EXCEPT !.rows = Added(@, state.lastId, token.url, token.title, tags),
                       !.lastId = IF state.rows[token.url] = Nothing THEN @ + 1 ELSE @,
                       !.says = {s \in @ : s.url # token.url}
                                  \cup {Says(token.url, token.title, tags)}]
    [] OTHER -> state

\* import_netscape: what the tokens up to the i-th leave behind.
Import(doc) ==
  LET After[i \in 0 .. Len(doc)] ==
        IF i = 0 THEN [rows |-> table, lastId |-> lastId, folders |-> <<>>, says |-> {}]
        ELSE Imported(After[i - 1], doc[i])
  IN  After[Len(doc)]

-----------------------------------------------------------------------------
(* Operations of a process that has the store open.                         *)

\* A transaction begins by reading; what it will write follows from that.
Reads(p, result, doc) ==
  /\ pc[p] = "open" /\ commits < MaxCommits
  /\ pc' = [pc EXCEPT ![p] = "reading"]
  /\ seen' = [seen EXCEPT ![p] = commits]
  /\ draft' = [draft EXCEPT ![p] = [rows |-> result.rows, lastId |-> result.lastId,
                                    says |-> result.says, doc |-> doc]]
  /\ UNCHANGED <<applied, commits, writer, data>>

\* add: an address that does not parse fails before.
Add(p) ==
  \E u \in Urls, title \in Titles, tags \in SUBSET Raw :
    Reads(p, [rows |-> Added(table, lastId, u, title, tags),
              lastId |-> IF table[u] = Nothing THEN lastId + 1 ELSE lastId,
              says |-> {Says(u, title, tags)}], <<>>)

\* update of a row that is there: the title, the tags or both.
Update(p) ==
  \E u \in Urls, title \in Titles, tags \in SUBSET Raw :
    \E new \in {[table[u] EXCEPT !.title = title], [table[u] EXCEPT !.tags = normalise_tags(tags)],
                [table[u] EXCEPT !.title = title, !.tags = normalise_tags(tags)]} :
      /\ table[u] # Nothing
      /\ Reads(p, [rows |-> [table EXCEPT ![u] = new], lastId |-> lastId,
                   says |-> {[url |-> u, title |-> new.title, tags |-> new.tags]}], <<>>)

ImportFile(p) == \E doc \in Docs : Reads(p, Import(doc), doc)

\* As Writes, by a transaction that begins after the read.
Writes_late(p) ==
  /\ pc[p] = "reading" /\ writer = Nobody
  /\ writer' = p /\ pc' = [pc EXCEPT ![p] = "writing"]
  /\ UNCHANGED <<applied, commits, seen, draft, data>>

\* The first statement that writes takes the lock, unless the file has
\* changed since the transaction read.
Writes(p) ==
  /\ pc[p] = "reading" /\ writer = Nobody /\ commits = seen[p]
  /\ writer' = p /\ pc' = [pc EXCEPT ![p] = "writing"]
  /\ UNCHANGED <<applied, commits, seen, draft, data>>

\* It has changed, or the lock does not come free in ten seconds, or a
\* statement fails: the transaction is rolled back and the caller told.
Rollback(p) ==
  /\ \/ pc[p] = "reading" /\ (commits # seen[p] \/ writer # Nobody)
     \/ pc[p] = "writing"
  /\ pc' = [pc EXCEPT ![p] = "open"]
  /\ writer' = IF writer = p THEN Nobody ELSE writer
  /\ draft' = [draft EXCEPT ![p] = NoDraft]
  /\ UNCHANGED <<applied, commits, seen, data>>

Commit(p) ==
  /\ pc[p] = "writing"
  /\ table' = draft[p].rows /\ lastId' = draft[p].lastId
  /\ acknowledged' = [u \in Urls |->
       IF \E s \in draft[p].says : s.url = u
       THEN LET s == CHOOSE s \in draft[p].says : s.url = u IN
            [id |-> table'[u].id, title |-> s.title, tags |-> s.tags]
       ELSE acknowledged[u]]
  /\ commits' = commits + 1
  /\ writer' = Nobody /\ pc' = [pc EXCEPT ![p] = "open"]
  /\ draft' = [draft EXCEPT ![p] = NoDraft]
  /\ UNCHANGED <<applied, seen>>

\* remove and clear_all: one statement, the tags go with their rows.
Delete(p) ==
  /\ pc[p] = "open" /\ writer = Nobody /\ commits < MaxCommits
  /\ \E gone \in {Urls} \cup {{u} : u \in Urls} :
       /\ \E u \in gone : table[u] # Nothing
       /\ table' = [u \in Urls |-> IF u \in gone THEN Nothing ELSE table[u]]
       /\ acknowledged' = [u \in Urls |-> IF u \in gone THEN Nothing ELSE acknowledged[u]]
  /\ commits' = commits + 1
  /\ UNCHANGED <<applied, lastId, writer, pc, seen, draft>>

\* The process ends, in the middle of anything: the log of a transaction
\* without its commit is void.
Ends(p) ==
  /\ pc[p] # "closed"
  /\ pc' = [pc EXCEPT ![p] = "closed"]
  /\ writer' = IF writer = p THEN Nobody ELSE writer
  /\ draft' = [draft EXCEPT ![p] = NoDraft]
  /\ UNCHANGED <<applied, commits, seen, data>>

Next ==
  \E p \in Procs :
    \/ Open(p) \/ Migrate(p) \/ MigrationFails(p) \/ MigrationCommits(p) \/ Opened(p)
    \/ Add(p) \/ Update(p) \/ ImportFile(p) \/ Writes(p) \/ Rollback(p) \/ Commit(p)
    \/ Delete(p) \/ Ends(p)

Spec == Init /\ [][Next]_vars

-----------------------------------------------------------------------------
(* Properties.                                                              *)

\* Each migration ran once, in order, and whoever has the store open has all
\* it knows (buffr_store::apply in two processes).
SchemaIsWhole ==
  /\ \A i \in DOMAIN applied : applied[i] = i
  /\ \A p \in Procs : pc[p] \in {"open", "reading", "writing"} => Knows[p] <= Len(applied)

\* The table holds what the operations that succeeded wrote last, whatever
\* the other process did between a read and its write; ids are not shared
\* (add_in_tx, import_netscape, remove, clear_all).
NoLostUpdate ==
  /\ table = acknowledged
  /\ \A u, v \in Urls : (u # v /\ table[u] # Nothing) => table[u].id # table[v].id

\* The folders around a token, by matching each end with its folder.
Around(doc, i) ==
  LET Depth(j, k) == Cardinality({m \in j .. k : doc[m].kind = "folder"})
                       - Cardinality({m \in j .. k : doc[m].kind = "end"})
  IN {j \in 1 .. i - 1 : /\ doc[j].kind = "folder"
                         /\ \A k \in j .. i - 1 : Depth(j, k) > 0}

\* A bookmark of a file has the tags of its last anchor and the names of the
\* folders it lies in, if the file is not nested deeper than the limit and
\* has not more tags than the limit (import_netscape).
ImportIsFaithful ==
  \A p \in Procs : LET doc == draft[p].doc IN
    (\A i \in DOMAIN doc : Cardinality(Around(doc, i) \cup {i}) <= MaxDepth) =>
      \A i \in DOMAIN doc :
        LET names == {doc[j].name : j \in Around(doc, i)}
            own == {doc[i].tags[k] : k \in DOMAIN doc[i].tags} IN
        (/\ doc[i].kind = "anchor" /\ doc[i].url \in Urls
         /\ \A k \in i + 1 .. Len(doc) : doc[k].kind = "anchor" => doc[k].url # doc[i].url
         /\ Len(doc[i].tags) + Cardinality(Around(doc, i)) <= MaxTags)
        => draft[p].rows[doc[i].url].tags = normalise_tags(own \cup names)
=============================================================================
