------------------------------- MODULE Builds -------------------------------
(* The build tool (xtask) and the build script of the CEF crate: fetching   *)
(* CEF into vendor/cef/<platform>, staging it next to the binaries, and     *)
(* packaging.  Commands run one at a time; each can be interrupted, or fail *)
(* on a file, between any two of its steps, and what it wrote stays on disk *)
(* for the next.                                                            *)
EXTENDS Naturals, Sequences, FiniteSets

CONSTANTS
  MaxVersion,    \* versions of CEF that upstream publishes
  MaxCommands,   \* commands the developer runs
  MaxFaults,     \* of which are interrupted or meet an error
  Profiles,      \* some of debug and release
  Variants       \* the kinds of packages asked for: some of deb, rpm, tarball, aur, all

VARIABLES
  index,      \* the version that index.json lists first for the prefix
  archive,    \* the archive in the vendor directory: its bytes
  unpacked,   \* what lies in the cef_binary_* directories
  flat,       \* what lies in the vendor directory itself: the version of each piece
  target,     \* target/<profile>: the versions of the libraries and of the resources
  seen,       \* the vendor directory as the build script last saw it, by profile
  unstaged,   \* the profiles whose last staging met an error
  app,        \* Buffr.app
  dist,       \* the artifacts
  cmd,        \* the command that runs
  said,       \* how the last one ended
  commands, faults

buildVars ==
  <<index, archive, unpacked, flat, target, seen, unstaged, app, dist, cmd, said, commands, faults>>
vendorVars == <<archive, unpacked, flat>>
targetVars == <<target, seen, unstaged>>

Versions == 1..MaxVersion
Other == MaxVersion + 1                \* bytes that are not what was published
Pieces == {"Release", "Resources"}
Packages == {"deb", "rpm", "tarball"}
BundleParts == <<"main", "browser", "framework", "helpers">>
AllParts == {BundleParts[i] : i \in DOMAIN BundleParts}

Nothing == [p \in Pieces |-> 0]
Whole(dir) == dir["Release"] # 0 /\ dir["Resources"] = dir["Release"]
NoArtifact == [made |-> FALSE, libs |-> 0, res |-> 0, release |-> FALSE, stripped |-> FALSE]
NoCommand == [name |-> "none"]
Idle == cmd = NoCommand

Init ==
  /\ index = 1 /\ archive = 0 /\ unpacked = {} /\ flat = Nothing
  /\ target = [p \in Profiles |-> [libs |-> 0, res |-> 0]]
  /\ seen = [p \in Profiles |-> Nothing] /\ unstaged = {}
  /\ app = [exists |-> FALSE, parts |-> {}]
  /\ dist = [f \in Packages \cup {"dmg", "msi"} |-> NoArtifact]
  /\ cmd = NoCommand /\ said = "nothing" /\ commands = 0 /\ faults = 0

Starts(command) ==
  /\ Idle /\ commands < MaxCommands /\ commands' = commands + 1
  /\ cmd' = command

Begin(command) == Starts(command) /\ said' = "nothing"

Ends(how) == cmd' = NoCommand /\ said' = how
Goes(step) == cmd' = [cmd EXCEPT !.at = step] /\ UNCHANGED said

-----------------------------------------------------------------------------
(* fetch-cef. *)

\* What the directory holds decides whether there is anything to fetch.
Populated == flat["Release"] # 0

Fetch ==
  /\ Begin([name |-> "fetch", at |-> "populated", version |-> index, left |-> Pieces,
            fresh |-> unpacked = {} /\ flat = Nothing, whole |-> TRUE])
  /\ UNCHANGED <<index, vendorVars, targetVars, app, dist, faults>>

FindPopulated ==
  /\ cmd.name = "fetch" /\ cmd.at = "populated"
  /\ IF Populated THEN Ends("skipped") ELSE Goes("download")
  /\ UNCHANGED <<index, vendorVars, targetVars, app, dist, commands, faults>>

\* The body may be cut short, too long, or not the bytes of the index's digest.
Download ==
  /\ cmd.name = "fetch" /\ cmd.at = "download"
  /\ \/ archive' \in {cmd.version, Other} /\ Goes("verify")
     \/ archive' = Other /\ Ends("failed")
     \/ archive' = 0 /\ Ends("failed")
  /\ UNCHANGED <<index, unpacked, flat, targetVars, app, dist, commands, faults>>

\* A digest that is none keeps the archive, one that differs deletes it.
VerifySha1 ==
  /\ cmd.name = "fetch" /\ cmd.at = "verify"
  /\ \/ archive = cmd.version /\ Goes("extract") /\ UNCHANGED archive
     \/ archive # cmd.version /\ archive' = 0 /\ Ends("failed")
     \/ UNCHANGED archive /\ Ends("failed")
  /\ UNCHANGED <<index, unpacked, flat, targetVars, app, dist, commands, faults>>

\* Unpacking writes over what an earlier try left of the same version.
Extract ==
  /\ cmd.name = "fetch" /\ cmd.at = "extract"
  /\ \E p \in cmd.left :
       /\ unpacked' = {u \in unpacked : ~(u.dir = cmd.version /\ u.piece = p)}
                        \cup {[dir |-> cmd.version, piece |-> p, of |-> archive]}
       /\ cmd' = IF cmd.left = {p} THEN [cmd EXCEPT !.at = "flatten", !.left = {}]
                                   ELSE [cmd EXCEPT !.left = @ \ {p}]
  /\ UNCHANGED <<index, archive, flat, targetVars, app, dist, said, commands, faults>>

TopDirs == {u.dir : u \in unpacked}

\* Two directories of extracted archives: nothing is moved, and all is well.
FlattenFinds ==
  /\ cmd.name = "fetch" /\ cmd.at = "flatten"
  /\ IF Cardinality(TopDirs) # 1
     THEN Ends("done")
     ELSE cmd' = [cmd EXCEPT !.at = "move", !.left = {u.piece : u \in unpacked}] /\ UNCHANGED said
  /\ UNCHANGED <<index, vendorVars, targetVars, app, dist, commands, faults>>

\* A piece whose place is taken stays in its directory, which then stays too.
Move ==
  /\ cmd.name = "fetch" /\ cmd.at = "move" /\ cmd.left # {}
  /\ \E u \in {x \in unpacked : x.piece \in cmd.left} :
       /\ IF flat[u.piece] # 0
          THEN UNCHANGED <<unpacked, flat>>
          ELSE /\ flat' = [flat EXCEPT ![u.piece] = u.of]
               /\ unpacked' = unpacked \ {u}
       /\ cmd' = [cmd EXCEPT !.left = @ \ {u.piece}, !.whole = @ /\ flat[u.piece] = 0]
  /\ UNCHANGED <<index, archive, targetVars, app, dist, said, commands, faults>>

FlattenEnds ==
  /\ cmd.name = "fetch" /\ cmd.at = "move" /\ cmd.left = {}
  /\ unpacked' = IF cmd.whole THEN {} ELSE unpacked
  /\ said' = IF cmd.fresh THEN "fetched" ELSE "done"
  /\ cmd' = NoCommand
  /\ UNCHANGED <<index, archive, flat, targetVars, app, dist, commands, faults>>

-----------------------------------------------------------------------------
(* Building, and staging CEF next to the binaries (the build script). *)

Package(variant, profile) ==
  /\ Begin([name |-> "package", at |-> "build", variant |-> variant, profile |-> profile,
            payload |-> NoArtifact])
  /\ UNCHANGED <<index, vendorVars, targetVars, app, dist, faults>>

Bundle(profile) ==
  /\ Begin([name |-> "bundle", at |-> "build", profile |-> profile, staged |-> 0])
  /\ UNCHANGED <<index, vendorVars, targetVars, app, dist, faults>>

\* Mutant: a library that is there is kept.
Staged_kept(old, dir) ==
  [libs |-> IF old.libs # 0 THEN old.libs ELSE dir["Release"],
   res |-> IF dir["Resources"] # 0 THEN dir["Resources"] ELSE old.res]

\* Libraries of Release, then what Resources holds; what is missing is passed over.
Staged(old, dir) ==
  [libs |-> IF dir["Release"] # 0 THEN dir["Release"] ELSE old.libs,
   res |-> IF dir["Resources"] # 0 THEN dir["Resources"] ELSE old.res]

\* Cargo runs the script when the vendor directory changed since it last ran.
ScriptRuns(profile) == seen[profile] # flat

\* An error while the script copies is a warning of the build, not its end.
Build ==
  /\ cmd.name \in {"package", "bundle"} /\ cmd.at = "build"
  /\ seen' = [seen EXCEPT ![cmd.profile] = flat]
  /\ \/ ~ScriptRuns(cmd.profile) /\ UNCHANGED <<target, unstaged, faults>>
     \/ /\ ScriptRuns(cmd.profile)
        /\ target' = [target EXCEPT ![cmd.profile] = Staged(@, flat)]
        /\ unstaged' = unstaged \ {cmd.profile} /\ UNCHANGED faults
     \/ /\ ScriptRuns(cmd.profile) /\ faults < MaxFaults /\ faults' = faults + 1
        /\ target' = [target EXCEPT ![cmd.profile] = Staged(@, [flat EXCEPT !["Resources"] = 0])]
        /\ unstaged' = unstaged \cup {cmd.profile}
  /\ Goes(IF cmd.name = "package" THEN "collect" ELSE "wipe")
  /\ UNCHANGED <<index, vendorVars, app, dist, commands>>

-----------------------------------------------------------------------------
(* package-linux. *)

\* The binaries are there after a build; the libraries and the locales need not be.
Collected(t, profile) ==
  [made |-> TRUE, libs |-> t.libs, res |-> t.res, release |-> profile = "release",
   stripped |-> FALSE]
IsComplete_libs(t) == t.libs # 0              \* mutant: the locales are not looked for
IsComplete(t) == t.libs # 0 /\ t.res # 0

Collect ==
  /\ cmd.name = "package" /\ cmd.at = "collect"
  /\ IF IsComplete(target[cmd.profile])
     THEN /\ cmd' = [cmd EXCEPT !.at = IF cmd.profile = "release" THEN "strip" ELSE "deb",
                                !.payload = Collected(target[cmd.profile], cmd.profile)]
          /\ UNCHANGED said
     ELSE Ends("failed")
  /\ UNCHANGED <<index, vendorVars, targetVars, app, dist, commands, faults>>

\* A release is not packaged without strip.
Strip ==
  /\ cmd.name = "package" /\ cmd.at = "strip"
  /\ \/ cmd' = [cmd EXCEPT !.at = "deb", !.payload.stripped = TRUE] /\ UNCHANGED said
     \/ Ends("failed")
  /\ UNCHANGED <<index, vendorVars, targetVars, app, dist, commands, faults>>

\* What the payload becomes in an artifact: each is made in a tree that was wiped.
\* A tool that is missing or fails leaves the artifact of before, and is no error.
Written(format) ==
  /\ cmd.name = "package" /\ cmd.at = format
  /\ \/ cmd.variant \in {format, "all"} /\ dist' = [dist EXCEPT ![format] = cmd.payload]
     \/ UNCHANGED dist
  /\ UNCHANGED <<index, vendorVars, targetVars, app, commands, faults>>

BuildDeb == Written("deb") /\ Goes("rpm")
BuildRpm == Written("rpm") /\ Goes("tarball")
BuildTarball == Written("tarball") /\ Ends("done")

-----------------------------------------------------------------------------
(* bundle-macos and package-macos-dmg. *)

\* The framework must be there before the old bundle is removed.
Wipe ==
  /\ cmd.name = "bundle" /\ cmd.at = "wipe"
  /\ IF flat["Release"] = 0
     THEN Ends("failed") /\ UNCHANGED app
     ELSE app' = [exists |-> FALSE, parts |-> {}] /\ Goes("stage")
  /\ UNCHANGED <<index, vendorVars, targetVars, dist, commands, faults>>

StageBundle ==
  /\ cmd.name = "bundle" /\ cmd.at = "stage"
  /\ app' = [exists |-> TRUE, parts |-> app.parts \cup {BundleParts[cmd.staged + 1]}]
  /\ IF cmd.staged + 1 = Len(BundleParts)
     THEN Ends("bundled")
     ELSE cmd' = [cmd EXCEPT !.staged = @ + 1] /\ UNCHANGED said
  /\ UNCHANGED <<index, vendorVars, targetVars, dist, commands, faults>>

\* Wraps whatever bundle lies in the target directory; with no tool there is no
\* image, which is no error.
Dmg ==
  /\ Starts(NoCommand)
  /\ \/ /\ app.exists /\ said' = "done"
        /\ dist' = [dist EXCEPT !["dmg"] =
                      [NoArtifact EXCEPT !.made = TRUE, !.stripped = app.parts = AllParts]]
     \/ app.exists /\ said' \in {"done", "failed"} /\ UNCHANGED dist
     \/ ~app.exists /\ said' = "failed" /\ UNCHANGED dist
  /\ UNCHANGED <<index, vendorVars, targetVars, app, faults>>

-----------------------------------------------------------------------------
(* package-windows-msi: of what some earlier build left, if it is complete. *)

\* With no payload there is only a source for WiX, which is no error either.
WindowsPayload(profile) ==
  IF IsComplete(target[profile]) THEN {Collected(target[profile], profile)} ELSE {}

Msi(profile) ==
  /\ Starts(NoCommand)
  /\ \/ \E payload \in WindowsPayload(profile) :
          dist' = [dist EXCEPT !["msi"] = payload] /\ said' = "done"
     \/ WindowsPayload(profile) # {} /\ said' = "failed" /\ UNCHANGED dist
     \/ WindowsPayload(profile) = {} /\ said' = "done" /\ UNCHANGED dist
  /\ UNCHANGED <<index, vendorVars, targetVars, app, faults>>

-----------------------------------------------------------------------------

\* Ctrl-C, or an error that the running step returns: the rest is not done.
Interrupted ==
  /\ ~Idle /\ faults < MaxFaults /\ faults' = faults + 1
  /\ Ends("failed")
  /\ UNCHANGED <<index, vendorVars, targetVars, app, dist, commands>>

\* Upstream publishes another version; the developer deletes the vendor directory.
Publish ==
  /\ Idle /\ index < MaxVersion /\ index' = index + 1
  /\ UNCHANGED <<vendorVars, targetVars, app, dist, cmd, said, commands, faults>>

DeleteVendor ==
  /\ Idle /\ archive' = 0 /\ unpacked' = {} /\ flat' = Nothing
  /\ UNCHANGED <<index, targetVars, app, dist, cmd, said, commands, faults>>

Next ==
  \/ Fetch \/ FindPopulated \/ Download \/ VerifySha1 \/ Extract
  \/ FlattenFinds \/ Move \/ FlattenEnds
  \/ Build \/ Collect \/ Strip \/ BuildDeb \/ BuildRpm \/ BuildTarball \/ Wipe \/ StageBundle
  \/ Dmg \/ Interrupted \/ Publish \/ DeleteVendor
  \/ \E profile \in Profiles :
       \/ Bundle(profile) \/ Msi(profile)
       \/ \E variant \in Variants : Package(variant, profile)

Spec == Init /\ [][Next]_buildVars

\* Nothing is unpacked or shipped but bytes with the published digest, and no package
\* lacks its libraries or its locales, whatever was interrupted before: verify_sha1
\* runs between download and unpacking, and the collectors of the packages look for
\* both.  A release package of Linux is stripped.
ShippedIsSound ==
  /\ \A u \in unpacked : u.of \in Versions
  /\ \A p \in Pieces : flat[p] # Other
  /\ \A f \in Packages \cup {"msi"} : dist[f].made =>
       /\ dist[f].libs \in Versions /\ dist[f].res \in Versions
       /\ (dist[f].release /\ f # "msi") => dist[f].stripped

\* A fetch that began with no pieces and came to its end leaves all of one version in
\* place; a package that is written while they are there has that version, unless
\* staging met an error (the script runs again when the directory changed); and an
\* image of a bundle that was made to its end has all its parts.
FetchedIsShipped ==
  [][/\ (said' = "fetched" /\ said # "fetched") => Whole(flat') /\ unpacked' = {}
     /\ \A f \in Packages :
          (dist'[f] # dist[f] /\ Whole(flat) /\ cmd.profile \notin unstaged)
            => dist'[f].libs = flat["Release"] /\ dist'[f].res = flat["Release"]
     /\ (dist'["dmg"] # dist["dmg"] /\ said = "bundled") => dist'["dmg"].stripped]_buildVars
=============================================================================
