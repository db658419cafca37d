------------------------------ MODULE CliUpdate ------------------------------
(***************************************************************************)
(* `earmark update` and `earmark version --check`: the check for a newer     *)
(* build (release API, git tags or commits, with a day's cache keyed by the *)
(* build that asked) and the replacement of the executable by renames.      *)
(*                                                                         *)
(* A build is its release's number (0 for a development build) and the      *)
(* commit it was made at.                                                   *)
(***************************************************************************)
EXTENDS Naturals, Sequences

CONSTANTS MaxReleases, MaxCommits, MaxRuns, MaxFaults, MaxDeaths, MaxByHand   \* bounds

VARIABLES
  releases,  \* the commit of each published release
  head,      \* the last commit of main
  files,     \* the executable, its download, its backup
  cache,     \* the version cache
  run,       \* the command under way
  runs, faults, deaths, byHand

vars == <<releases, head, files, cache, run, runs, faults, deaths, byHand>>

NoFile == [rel |-> 0, at |-> 0]
Build(r) == [rel |-> r, at |-> releases[r]]
DevBuild == [rel |-> 0, at |-> head]
Nothing == [rel |-> 0, at |-> 0, has |-> FALSE]
NoCache == [cur |-> NoFile, res |-> Nothing, on |-> FALSE]
NoRun   == [pc |-> "none", me |-> NoFile, force |-> FALSE, yes |-> FALSE, res |-> Nothing]

Init ==
  /\ releases = <<1>> /\ head = 1
  /\ files \in [exe : {Build(1), DevBuild}, new : {NoFile}, backup : {NoFile}]
  /\ cache = NoCache /\ run = NoRun
  /\ runs = 0 /\ faults = MaxFaults /\ deaths = MaxDeaths /\ byHand = MaxByHand

world == <<releases, head>>
left  == <<runs, faults, deaths, byHand>>
Fault == faults > 0 /\ faults' = faults - 1 /\ UNCHANGED <<runs, deaths, byHand>>
Goto(pc) == run' = [run EXCEPT !.pc = pc]
End == run' = NoRun

-----------------------------------------------------------------------------
(* The world.                                                              *)

Commit == head < MaxCommits /\ head' = head + 1 /\ UNCHANGED <<releases, files, cache, run, left>>

Release ==
  /\ Len(releases) < MaxReleases /\ releases' = Append(releases, head)
  /\ UNCHANGED <<head, files, cache, run, left>>

\* A build is installed by hand; a day passes.
ByHand(r) ==
  /\ byHand > 0 /\ byHand' = byHand - 1 /\ run = NoRun
  /\ files' = [files EXCEPT !.exe = Build(r)]
  /\ UNCHANGED <<world, cache, run, runs, faults, deaths>>

Expire == cache.on /\ cache' = NoCache /\ UNCHANGED <<world, files, run, left>>

-----------------------------------------------------------------------------
(* The check.                                                              *)

\* IsNewerVersion: any release is newer than a development build.
IsNewer(me, r) == me.rel = 0 \/ r > me.rel

\* The release API; the last tag, read with git; the last commit of main, from
\* the API or with git.
ByRelease(me) == [rel |-> Len(releases), at |-> 0, has |-> IsNewer(me, Len(releases))]
LastTag       == Len(releases)
ByTag(me)     == [rel |-> LastTag, at |-> 0, has |-> IsNewer(me, LastTag)]
ByCommit(me)  == [rel |-> 0, at |-> head, has |-> me.at # head]
ByGit(me)     == ByCommit(me)

\* checkReleaseVersion falls back from each to the next, and to nothing.
Results(me) ==
  {ByRelease(me), ByTag(me)} \cup IF faults > 0 THEN {ByCommit(me), ByGit(me), Nothing} ELSE {}

\* Mutant: whoever asked, the answer of the day is used.
CachedAny(me) == cache.on

\* CheckForUpdates: a cached result is for the build that asked.
Cached(me) == cache.on /\ cache.cur = me

Start(force, yes) ==
  /\ run = NoRun /\ runs < MaxRuns /\ files.exe # NoFile
  /\ runs' = runs + 1
  /\ run' = [NoRun EXCEPT !.pc = "check", !.me = files.exe, !.force = force, !.yes = yes]
  /\ UNCHANGED <<world, files, cache, faults, deaths, byHand>>

CheckForUpdates ==
  /\ run.pc = "check"
  /\ \/ /\ Cached(run.me)
        /\ run' = [run EXCEPT !.pc = "decide", !.res = cache.res] /\ UNCHANGED <<cache, left>>
     \/ /\ ~Cached(run.me)
        /\ \E res \in Results(run.me) :
             /\ run' = [run EXCEPT !.pc = "decide", !.res = res]
             /\ cache' = [cur |-> run.me, res |-> res, on |-> TRUE]
             /\ IF res = ByRelease(run.me) THEN UNCHANGED left ELSE Fault
  /\ UNCHANGED <<world, files>>

\* runUpdate: whether to go on, and from where.  A development build is only
\* replaced by a release with consent.
Decide ==
  LET has == run.res.has
      consent == run.yes \/ (has /\ run.me.rel # 0)
  IN
  /\ run.pc = "decide"
  /\ \/ (has \/ run.force) /\ (consent \/ (has /\ run.me.rel = 0)) /\ Goto("fetch")
     \/ (~has \/ (run.me.rel = 0 /\ ~run.yes)) /\ End
  /\ UNCHANGED <<world, files, cache, left>>

-----------------------------------------------------------------------------
(* The replacement, from a release or from source.                         *)

\* The download beside the executable, or the build of main; removed on error.
Fetch ==
  /\ run.pc = "fetch"
  /\ \/ /\ files' = [files EXCEPT !.new = IF run.res.rel # 0 THEN Build(run.res.rel) ELSE DevBuild]
        /\ Goto("backup") /\ UNCHANGED left
     \/ Fault /\ End /\ UNCHANGED files
  /\ UNCHANGED <<world, cache>>

Backup ==
  /\ run.pc = "backup"
  /\ \/ /\ files' = [files EXCEPT !.backup = files.exe, !.exe = NoFile]
        /\ Goto("install") /\ UNCHANGED left
     \/ Fault /\ End /\ files' = [files EXCEPT !.new = NoFile]
  /\ UNCHANGED <<world, cache>>

\* Mutant: a failed rename leaves the command.
GiveUp(pc) == "none"

\* Where a failed rename leads: the backup is put back.
AfterFailure(pc) == IF pc = "install" THEN "restore" ELSE "none"

Install ==
  /\ run.pc = "install"
  /\ \/ files' = [files EXCEPT !.exe = files.new, !.new = NoFile] /\ Goto("clean") /\ UNCHANGED left
     \/ /\ Fault /\ UNCHANGED files
        /\ IF AfterFailure("install") = "restore" THEN Goto("restore") ELSE End
  /\ UNCHANGED <<world, cache>>

Restore ==
  /\ run.pc = "restore" /\ End
  /\ \/ files' = [files EXCEPT !.exe = files.backup, !.backup = NoFile] /\ UNCHANGED left
     \/ Fault /\ UNCHANGED files
  /\ UNCHANGED <<world, cache>>

Clean ==
  /\ run.pc = "clean" /\ End
  /\ \/ files' = [files EXCEPT !.backup = NoFile] /\ UNCHANGED left
     \/ Fault /\ UNCHANGED files
  /\ UNCHANGED <<world, cache>>

Die ==
  /\ run # NoRun /\ deaths > 0 /\ deaths' = deaths - 1 /\ End
  /\ UNCHANGED <<world, files, cache, runs, faults, byHand>>

Next ==
  \/ Commit \/ Release \/ Expire \/ Die
  \/ \E r \in DOMAIN releases : ByHand(r)
  \/ \E force, yes \in BOOLEAN : Start(force, yes)
  \/ CheckForUpdates \/ Decide \/ Fetch \/ Backup \/ Install \/ Restore \/ Clean

Spec == Init /\ [][Next]_vars

-----------------------------------------------------------------------------
(* Properties.                                                             *)

\* An update that was not forced replaces a release by a later one, whatever
\* was cached, by which build, and whatever was installed by hand since.
NeverOlder ==
  run.pc = "install" /\ ~run.force /\ run.me.rel # 0 /\ files.new.rel # 0 => files.new.rel > run.me.rel

\* There is an executable whenever no update is between its two renames, unless
\* one died there or could not put its backup back.
AlwaysABinary ==
  files.exe = NoFile =>
    run.pc \in {"install", "restore"} \/ deaths < MaxDeaths \/ MaxFaults - faults >= 2
=============================================================================
