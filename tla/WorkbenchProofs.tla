--------------------------- MODULE WorkbenchProofs ---------------------------
(***************************************************************************)
(* Theorems about the components that meet the rest of the system only     *)
(* through their own rows and files: the updates of the runner and of the  *)
(* command line, the schema migrations, the rows of the ad-hoc runs, the   *)
(* log of model calls, the model settings and the spelling of a book.      *)
(* They share no state: each is an instance of Workbench, for any values   *)
(* of its constants.                                                       *)
(* Every part has the same shape: a type invariant and its inductive       *)
(* invariant, the lemmas that say what the steps do to them, the theorem.  *)
(***************************************************************************)
EXTENDS Workbench, Integers, FiniteSetTheorems, WellFoundedInduction, TLAPS

-----------------------------------------------------------------------------
(* The runner's self-update.                                               *)

Tags == Versions \cup {FirstBuild, SU!None}
UpdateStates == {"idle", "requested", "updating", "success", "failed"}
UpdateSteps  == {"down", "poll", "stamp", "begin", "fetch", "check", "swap", "record", "exec", "fail"}

UpdateType ==
  /\ control \in [desired : Tags, state : UpdateStates]
  /\ suDisk \in [file : Tags, new : Tags, version : Tags]
  /\ suMe \in [pc : UpdateSteps, code : Tags, says : Tags, target : Tags]
  /\ asks \in Nat /\ tries \in Nat /\ suFaults \in 0 .. MaxUpdateFaults

LEMMA UpdateTyped ==
  ASSUME MaxUpdateFaults \in Nat
  PROVE  /\ SU!Init => UpdateType
         /\ UpdateType /\ [SU!Next]_(SU!vars) => UpdateType'
<1> USE DEF UpdateType, Tags
<1>1. SU!Init => UpdateType
  BY DEF SU!Init, SU!Boot, UpdateSteps, UpdateStates
<1>2. ASSUME UpdateType, NEW v \in Versions \cup {SU!None}, SU!RunnerUpdate(v) PROVE UpdateType'
  BY <1>2 DEF SU!RunnerUpdate, SU!Clear, SU!Ask, UpdateStates
<1>3. ASSUME UpdateType, SU!Poll PROVE UpdateType'
  <2>1. \E pc \in UpdateSteps, target \in Tags : suMe' = [suMe EXCEPT !.pc = pc, !.target = target]
    <3>1. CASE SU!Goto("stamp")
      <4>1. suMe' = [suMe EXCEPT !.pc = "stamp", !.target = suMe.target] /\ suMe.target \in Tags /\ "stamp" \in UpdateSteps
        BY <1>3, <3>1 DEF SU!Goto, UpdateSteps
      <4> QED
        BY <4>1
    <3>2. CASE suMe' = [suMe EXCEPT !.pc = "begin", !.target = control.desired]
      BY <1>3, <3>2 DEF UpdateSteps
    <3> QED
      BY <1>3, <3>1, <3>2 DEF SU!Poll
  <2>2. suMe' \in [pc : UpdateSteps, code : Tags, says : Tags, target : Tags]
    BY <1>3, <2>1
  <2> QED
    BY <1>3, <2>2 DEF SU!Poll
<1>4. ASSUME UpdateType, SU!Stamp \/ SU!Begin \/ SU!Fail PROVE UpdateType'
  BY <1>4 DEF SU!Stamp, SU!Begin, SU!Fail, SU!SetState, SU!Goto, SU!Fault, UpdateSteps, UpdateStates
<1>5. ASSUME UpdateType, SU!Fetch PROVE UpdateType'
  BY <1>5 DEF SU!Fetch, SU!Goto, SU!Fault, UpdateSteps
<1>6. ASSUME UpdateType, SU!Check PROVE UpdateType'
  BY <1>6 DEF SU!Check, SU!Goto, UpdateSteps
<1>7. ASSUME UpdateType, SU!Install PROVE UpdateType'
  <2>1. asks' \in Nat /\ tries' \in Nat /\ suFaults' \in 0 .. MaxUpdateFaults /\ control' = control
    BY <1>7 DEF SU!Install, SU!Fault
  <2>2. \E pc \in UpdateSteps : suMe' = [suMe EXCEPT !.pc = pc]
    BY <1>7 DEF SU!Install, SU!Goto, UpdateSteps
  <2>3. \/ suDisk' = [suDisk EXCEPT !.file = suDisk.new, !.new = SU!None]
        \/ suDisk' = [suDisk EXCEPT !.version = suMe.target]
        \/ suDisk' = [suDisk EXCEPT !.new = SU!None]
    BY <1>7 DEF SU!Install
  <2>4. suDisk' \in [file : Tags, new : Tags, version : Tags]
    BY <1>7, <2>3
  <2>5. suMe' \in [pc : UpdateSteps, code : Tags, says : Tags, target : Tags]
    BY <1>7, <2>2
  <2> QED
    BY <1>7, <2>1, <2>4, <2>5
<1>8. ASSUME UpdateType, SU!Exec \/ SU!Restart \/ SU!Die PROVE UpdateType'
  BY <1>8 DEF SU!Exec, SU!Restart, SU!Die, SU!Boot, SU!Down, UpdateSteps
<1>9. ASSUME UpdateType, UNCHANGED SU!vars PROVE UpdateType'
  BY <1>9 DEF SU!vars
<1> QED
  BY <1>1, <1>2, <1>3, <1>4, <1>5, <1>6, <1>7, <1>8, <1>9 DEF SU!Next

\* What an attempt is paid from: a request in the row that was not taken up or
\* whose taking up was not written, or an attempt about to begin.
UpdatesOwed ==
  /\ (IF control.state = "requested" \/ suMe.pc = "begin" THEN 1 ELSE 0) + (IF suMe.pc = "fetch" THEN 1 ELSE 0)
       + tries <= asks + (MaxUpdateFaults - suFaults)

LEMMA OwedKept ==
  ASSUME MaxUpdateFaults \in Nat
  PROVE  /\ SU!Init => UpdatesOwed
         /\ UpdateType /\ UpdatesOwed /\ [SU!Next]_(SU!vars) => UpdatesOwed'
<1> USE DEF UpdatesOwed, UpdateType
<1>1. SU!Init => UpdatesOwed
  BY DEF SU!Init, SU!Boot
<1> SUFFICES ASSUME UpdateType, UpdatesOwed, [SU!Next]_(SU!vars) PROVE UpdatesOwed'
  BY <1>1
<1>2. ASSUME NEW v \in Versions \cup {SU!None}, SU!RunnerUpdate(v) PROVE UpdatesOwed'
  <2>1. CASE SU!Ask(v)
    BY <2>1 DEF SU!Ask
  <2>2. CASE SU!Clear
    BY <2>2 DEF SU!Clear
  <2> QED
    BY <1>2, <2>1, <2>2 DEF SU!RunnerUpdate
<1>3. CASE SU!Poll
  BY <1>3 DEF SU!Poll, SU!Goto, SU!ShouldSelfUpdate
<1>4. CASE SU!Stamp \/ SU!Fail
  BY <1>4 DEF SU!Stamp, SU!Fail, SU!SetState, SU!Goto, SU!Fault
<1>5. CASE SU!Begin
  BY <1>5 DEF SU!Begin, SU!SetState, SU!Goto, SU!Fault
<1>6. CASE SU!Fetch
  BY <1>6 DEF SU!Fetch, SU!Goto, SU!Fault
<1>7. CASE SU!Check
  BY <1>7 DEF SU!Check, SU!Goto
<1>8. CASE SU!Install
  <2>1. /\ control' = control /\ asks' = asks /\ tries' = tries
        /\ suFaults' = suFaults \/ suFaults' = suFaults - 1
        /\ suMe'.pc \notin {"begin", "fetch"}
    BY <1>8 DEF SU!Install, SU!Goto, SU!Fault
  <2>2. suMe.pc \notin {"begin", "fetch"}
    BY <1>8 DEF SU!Install
  <2> QED
    BY <2>1, <2>2
<1>9. CASE SU!Exec \/ SU!Restart \/ SU!Die
  BY <1>9 DEF SU!Exec, SU!Restart, SU!Die, SU!Boot, SU!Down
<1>10. CASE UNCHANGED SU!vars
  BY <1>10 DEF SU!vars
<1> QED
  BY <1>2, <1>3, <1>4, <1>5, <1>6, <1>7, <1>8, <1>9, <1>10 DEF SU!Next

\* TriedAsAsked: a runner tries an update once for each time it was asked, and
\* once more for each write of its state that was lost; no restart, refused
\* candidate or version that reports itself wrongly makes it loop
\* (runner.py _maybe_self_update).
THEOREM UpdatesAreAskedFor ==
  ASSUME MaxUpdateFaults \in Nat
  PROVE  SU!Spec => []SU!TriedAsAsked
<1>1. UpdateType /\ UpdatesOwed => SU!TriedAsAsked
  BY DEF UpdateType, UpdatesOwed, SU!TriedAsAsked
<1> QED
  BY <1>1, UpdateTyped, OwedKept, PTL DEF SU!Spec

\* Whoever reads VERSION, or records it, finds a version the file has held.
UpdateHeld ==
  /\ {FirstBuild, suDisk.file} \subseteq suHeld
  /\ {suDisk.version, suMe.says} \subseteq suHeld \cup {SU!None}
  /\ suMe.pc \in {"check", "swap"} => suDisk.new = suMe.target
  /\ suMe.pc = "record" => suMe.target \in suHeld

LEMMA HeldKept ==
  ASSUME MaxUpdateFaults \in Nat
  PROVE  /\ SU!Init => UpdateHeld
         /\ UpdateType /\ UpdateHeld /\ [SU!Next]_(SU!vars) => UpdateHeld'
<1> USE DEF UpdateHeld, UpdateType
<1>1. SU!Init => UpdateHeld
  BY DEF SU!Init, SU!Boot
<1> SUFFICES ASSUME UpdateType, UpdateHeld, [SU!Next]_(SU!vars) PROVE UpdateHeld'
  BY <1>1
<1>2. ASSUME NEW v \in Versions \cup {SU!None}, SU!RunnerUpdate(v) PROVE UpdateHeld'
  BY <1>2 DEF SU!RunnerUpdate, SU!Clear, SU!Ask
<1>3. CASE SU!Poll
  <2>1. /\ UNCHANGED <<suDisk, suHeld>> /\ suMe'.says = suMe.says
        /\ suMe'.pc \in {"stamp", "begin"}
    BY <1>3 DEF SU!Poll, SU!Goto
  <2> QED
    BY <2>1
<1>4. CASE SU!Stamp \/ SU!Begin \/ SU!Fail
  <2>1. UNCHANGED <<suDisk, suHeld>>
    BY <1>4 DEF SU!Stamp, SU!Begin, SU!Fail, SU!SetState
  <2>2. \E pc \in {"poll", "fetch"} : suMe' = [suMe EXCEPT !.pc = pc]
    BY <1>4 DEF SU!Stamp, SU!Begin, SU!Fail, SU!SetState, SU!Goto
  <2> QED
    BY <2>1, <2>2
<1>5. CASE SU!Fetch
  BY <1>5 DEF SU!Fetch, SU!Goto
<1>6. CASE SU!Check
  BY <1>6 DEF SU!Check, SU!Goto
<1>7. CASE SU!Install
  <2>1. suHeld' = suHeld \cup {suDisk'.file}
    BY <1>7 DEF SU!Install
  <2>2. \/ /\ suMe.pc = "swap" /\ suMe' = [suMe EXCEPT !.pc = "record"]
           /\ suDisk' = [suDisk EXCEPT !.file = suDisk.new, !.new = SU!None]
        \/ /\ suMe.pc = "record" /\ suMe' = [suMe EXCEPT !.pc = "exec"]
           /\ suDisk' = [suDisk EXCEPT !.version = suMe.target]
        \/ /\ \E pc \in {"fail", "exec"} : suMe' = [suMe EXCEPT !.pc = pc]
           /\ suDisk' = [suDisk EXCEPT !.new = SU!None]
    BY <1>7 DEF SU!Install, SU!Goto, SU!Writes
  <2>3. CASE /\ suMe.pc = "swap" /\ suMe' = [suMe EXCEPT !.pc = "record"]
             /\ suDisk' = [suDisk EXCEPT !.file = suDisk.new, !.new = SU!None]
    <3>1. suDisk'.file = suMe.target /\ suDisk'.version = suDisk.version
      BY <2>3
    <3> QED
      BY <2>1, <2>3, <3>1
  <2>4. CASE suMe.pc = "record" /\ suMe' = [suMe EXCEPT !.pc = "exec"]
             /\ suDisk' = [suDisk EXCEPT !.version = suMe.target]
    BY <2>1, <2>4
  <2>5. CASE /\ \E pc \in {"fail", "exec"} : suMe' = [suMe EXCEPT !.pc = pc]
             /\ suDisk' = [suDisk EXCEPT !.new = SU!None]
    BY <2>1, <2>5
  <2> QED
    BY <2>2, <2>3, <2>4, <2>5
<1>8. CASE SU!Exec \/ SU!Restart \/ SU!Die
  BY <1>8 DEF SU!Exec, SU!Restart, SU!Die, SU!Boot, SU!Down
<1>9. CASE UNCHANGED SU!vars
  BY <1>9 DEF SU!vars
<1> QED
  BY <1>2, <1>3, <1>4, <1>5, <1>6, <1>7, <1>8, <1>9 DEF SU!Next

\* NeverReportedEarly: the version a runner reports, on which the server closes
\* an update as a success, is one its file has held, wherever it was killed
\* between the fetch, the swap and the exec (runner.py _perform_self_update).
THEOREM VersionsWereHeld ==
  ASSUME MaxUpdateFaults \in Nat
  PROVE  SU!Spec => []SU!NeverReportedEarly
<1>1. UpdateHeld => SU!NeverReportedEarly
  BY DEF UpdateHeld, SU!NeverReportedEarly
<1> QED
  BY <1>1, UpdateTyped, HeldKept, PTL DEF SU!Spec

-----------------------------------------------------------------------------
(* The update of the command.                                              *)

Builds  == [rel : Nat, at : Nat]
Results == [rel : Nat, at : Nat, has : BOOLEAN]
CliSteps == {"none", "check", "decide", "fetch", "backup", "install", "restore", "clean"}

CliType ==
  /\ releases \in Seq(Nat) /\ head \in Nat \ {0}
  /\ files \in [exe : Builds, new : Builds, backup : Builds]
  /\ clCache \in [cur : Builds, res : Results, on : BOOLEAN] /\ clCache.res.rel <= Len(releases)
  /\ clRun \in [pc : CliSteps, me : Builds, force : BOOLEAN, yes : BOOLEAN, res : Results]
  /\ clRun.res.rel <= Len(releases)
  /\ clFaults \in 0 .. MaxCliFaults /\ clDeaths \in 0 .. MaxCliDeaths

\* What is built or found in a check.
LEMMA BuildsTyped ==
  ASSUME CliType
  PROVE  /\ \A r \in 1 .. Len(releases) : CL!Build(r) \in Builds /\ CL!Build(r) # CL!NoFile
         /\ CL!DevBuild \in Builds /\ CL!DevBuild # CL!NoFile
         /\ CL!NoFile \in Builds /\ CL!Nothing \in Results
<1>1. ASSUME NEW r \in 1 .. Len(releases)
      PROVE  CL!Build(r) \in Builds /\ CL!Build(r) # CL!NoFile
  <2>1. releases[r] \in Nat /\ r \in Nat /\ r # 0
    BY DEF CliType
  <2>2. CL!Build(r).rel # CL!NoFile.rel
    BY <2>1 DEF CL!Build, CL!NoFile
  <2> QED
    BY <2>1, <2>2 DEF CL!Build, Builds
<1>2. CL!DevBuild \in Builds /\ CL!DevBuild # CL!NoFile
  <2>1. CL!DevBuild.at # CL!NoFile.at
    BY DEF CliType, CL!DevBuild, CL!NoFile
  <2> QED
    BY <2>1 DEF CliType, CL!DevBuild, Builds
<1> QED
  BY <1>1, <1>2 DEF CL!NoFile, CL!Nothing, Builds, Results

\* A result that has an update names a release later than the build that asked,
\* if either has a number.
Newer(res, m) == res.has => res.rel = 0 \/ m.rel = 0 \/ res.rel > m.rel

LEMMA ResultsTyped ==
  ASSUME CliType, NEW m \in Builds, NEW res \in CL!Results(m)
  PROVE  res \in Results /\ res.rel <= Len(releases) /\ Newer(res, m)
<1>1. Len(releases) \in Nat /\ head \in Nat /\ m.rel \in Nat
  BY DEF CliType, Builds
<1>2. \A n, c \in Nat, has \in BOOLEAN :
        /\ [rel |-> n, at |-> c, has |-> has] \in Results
        /\ [rel |-> n, at |-> c, has |-> has].rel = n
        /\ [rel |-> n, at |-> c, has |-> has].has = has
  BY DEF Results
<1> DEFINE n == Len(releases)
           newer == CL!IsNewer(m, n)
           moved == m.at # head
<1>3. newer \in BOOLEAN /\ moved \in BOOLEAN /\ (newer => m.rel = 0 \/ n > m.rel)
  BY DEF CL!IsNewer
<1>4. \/ res = [rel |-> n, at |-> 0, has |-> newer]
      \/ res = [rel |-> 0, at |-> head, has |-> moved]
      \/ res = [rel |-> 0, at |-> 0, has |-> FALSE]
  <2>1. \/ res = CL!ByRelease(m) \/ res = CL!ByTag(m) \/ res = CL!ByCommit(m) \/ res = CL!ByGit(m)
        \/ res = CL!Nothing
    BY DEF CL!Results
  <2> QED
    BY <2>1 DEF CL!ByRelease, CL!ByTag, CL!LastTag, CL!ByCommit, CL!ByGit, CL!Nothing
<1> HIDE DEF n, newer, moved
<1>5. n \in Nat /\ n = Len(releases)
  BY <1>1 DEF n
<1>6. CASE res = [rel |-> n, at |-> 0, has |-> newer]
  <2>1. res \in Results /\ res.rel = n /\ res.has = newer
    BY <1>2, <1>3, <1>5, <1>6
  <2> QED
    BY <2>1, <1>3, <1>5 DEF Newer
<1>7. CASE res = [rel |-> 0, at |-> head, has |-> moved]
  <2>1. res \in Results /\ res.rel = 0
    BY <1>1, <1>2, <1>3, <1>7
  <2> QED
    BY <2>1, <1>1 DEF Newer
<1>8. CASE res = [rel |-> 0, at |-> 0, has |-> FALSE]
  <2>1. res \in Results /\ res.rel = 0
    BY <1>2, <1>8
  <2> QED
    BY <2>1, <1>1 DEF Newer
<1> QED
  BY <1>4, <1>6, <1>7, <1>8

\* The run, the cache and the files agree.
CliInv ==
  /\ clCache.on => Newer(clCache.res, clCache.cur)
  /\ clRun.pc \notin {"none", "check"} => Newer(clRun.res, clRun.me)
  /\ clRun.pc \in {"fetch", "backup", "install"} => clRun.res.has \/ clRun.force
  /\ clRun.pc \in {"backup", "install"} => files.new.rel \in {0, clRun.res.rel} /\ files.new # CL!NoFile
  /\ clRun.pc \in {"install", "restore"} => files.backup # CL!NoFile
  /\ clRun.pc = "restore" => MaxCliFaults - clFaults >= 1
  /\ files.exe = CL!NoFile => \/ clRun.pc \in {"install", "restore"} \/ clDeaths < MaxCliDeaths
                              \/ MaxCliFaults - clFaults >= 2
  /\ clRun.pc \in {"check", "decide", "fetch", "backup", "clean"} => files.exe # CL!NoFile
  /\ clRun.pc = "none" <=> clRun = CL!NoRun

CliConstants == MaxCliFaults \in Nat /\ MaxCliDeaths \in Nat

\* A command that is over.
LEMMA EndTyped ==
  ASSUME CliType, CL!End
  PROVE  /\ clRun' \in [pc : CliSteps, me : Builds, force : BOOLEAN, yes : BOOLEAN, res : Results]
         /\ clRun'.res.rel = 0 /\ clRun'.pc = "none" /\ clRun' = CL!NoRun /\ CL!NoRun' = CL!NoRun
<1>1. CL!NoFile \in Builds /\ CL!Nothing \in Results
  BY BuildsTyped
<1> QED
  BY <1>1 DEF CL!End, CL!NoRun, CL!Nothing, CL!NoFile, CliSteps

LEMMA CliTyped ==
  ASSUME CliConstants
  PROVE  /\ CL!Init => CliType
         /\ CliType /\ [CL!Next]_(CL!vars) => CliType'
<1> USE DEF CliConstants
<1>1. ASSUME CL!Init PROVE CliType
  <2>1. /\ releases = <<1>> /\ head = 1 /\ clFaults = MaxCliFaults /\ clDeaths = MaxCliDeaths
        /\ clCache = CL!NoCache /\ clRun = CL!NoRun
        /\ files \in [exe : {CL!Build(1), CL!DevBuild}, new : {CL!NoFile}, backup : {CL!NoFile}]
    BY <1>1 DEF CL!Init
  <2>2. {CL!NoFile, CL!Build(1), CL!DevBuild} \subseteq Builds /\ CL!Nothing \in Results
    BY <2>1 DEF CL!NoFile, CL!Build, CL!DevBuild, CL!Nothing, Builds, Results
  <2>3. releases \in Seq(Nat) /\ Len(releases) = 1
    BY <2>1
  <2> QED
    BY <2>1, <2>2, <2>3 DEF CliType, CL!NoCache, CL!NoRun, CL!Nothing, CliSteps
<1> SUFFICES ASSUME CliType, [CL!Next]_(CL!vars) PROVE CliType'
  BY <1>1
<1>2. CASE CL!Commit
  BY <1>2 DEF CL!Commit, CL!left, CliType
<1>3. CASE CL!Release
  <2>1. releases' \in Seq(Nat) /\ Len(releases') = Len(releases) + 1
    BY <1>3 DEF CL!Release, CliType
  <2> QED
    BY <1>3, <2>1 DEF CL!Release, CL!left, CliType, Results
<1>4. CASE CL!Expire
  <2>1. clCache' \in [cur : Builds, res : Results, on : BOOLEAN] /\ clCache'.res.rel = 0
    BY <1>4, BuildsTyped DEF CL!Expire, CL!NoCache, CL!Nothing
  <2> QED
    BY <1>4, <2>1 DEF CL!Expire, CL!world, CL!left, CliType
<1>5. CASE CL!Die
  BY <1>5, EndTyped DEF CL!Die, CL!world, CliType
<1>6. ASSUME NEW r \in DOMAIN releases, CL!ByHand(r) PROVE CliType'
  <2>1. CL!Build(r) \in Builds
    BY BuildsTyped DEF CliType
  <2> QED
    BY <1>6, <2>1 DEF CL!ByHand, CL!world, CliType
<1>7. ASSUME NEW force \in BOOLEAN, NEW yes \in BOOLEAN, CL!Start(force, yes) PROVE CliType'
  <2>1. /\ CL!NoRun \in [pc : CliSteps, me : Builds, force : BOOLEAN, yes : BOOLEAN, res : Results]
        /\ CL!NoRun.res.rel = 0
    BY BuildsTyped DEF CL!NoRun, CL!Nothing, CliSteps
  <2>2. /\ clRun' \in [pc : CliSteps, me : Builds, force : BOOLEAN, yes : BOOLEAN, res : Results]
        /\ clRun'.res = CL!NoRun.res
    BY <1>7, <2>1 DEF CL!Start, CliType, CliSteps
  <2> QED
    BY <1>7, <2>1, <2>2 DEF CL!Start, CL!world, CliType
<1>8. CASE CL!CheckForUpdates
  <2>1. UNCHANGED <<releases, head, files>> /\ clFaults' \in 0 .. MaxCliFaults /\ clDeaths' = clDeaths
    <3>1. CL!left' = CL!left \/ CL!Fault
      BY <1>8 DEF CL!CheckForUpdates
    <3>2. CL!left' = CL!left => UNCHANGED <<clFaults, clDeaths>>
      BY DEF CL!left
    <3>3. CL!Fault => clFaults' = clFaults - 1 /\ clFaults > 0 /\ clDeaths' = clDeaths
      BY DEF CL!Fault
    <3>4. UNCHANGED <<releases, head, files>>
      BY <1>8 DEF CL!CheckForUpdates, CL!world
    <3> QED
      BY <3>1, <3>2, <3>3, <3>4 DEF CliType
  <2>2. CASE /\ clCache' = clCache
             /\ clRun' = [clRun EXCEPT !.pc = "decide", !.res = clCache.res]
    BY <2>1, <2>2 DEF CliType, CliSteps
  <2>3. ASSUME NEW res \in CL!Results(clRun.me),
               clRun' = [clRun EXCEPT !.pc = "decide", !.res = res],
               clCache' = [cur |-> clRun.me, res |-> res, on |-> TRUE]
        PROVE  CliType'
    <3>1. res \in Results /\ res.rel <= Len(releases)
      BY ResultsTyped DEF CliType
    <3> QED
      BY <2>1, <2>3, <3>1 DEF CliType, CliSteps
  <2> QED
    BY <1>8, <2>2, <2>3 DEF CL!CheckForUpdates
<1>9. CASE CL!Decide
  <2>1. UNCHANGED <<releases, head, files, clCache, clFaults, clDeaths>>
    BY <1>9 DEF CL!Decide, CL!world, CL!left
  <2>2. CASE CL!End
    BY <2>1, <2>2, EndTyped DEF CliType
  <2>3. CASE CL!Goto("fetch")
    BY <2>1, <2>3 DEF CL!Goto, CliType, CliSteps
  <2> QED
    BY <1>9, <2>2, <2>3 DEF CL!Decide
<1>10. CASE CL!Fetch \/ CL!Backup \/ CL!Install \/ CL!Restore \/ CL!Clean
  <2>1. UNCHANGED <<releases, head, clCache>> /\ clFaults' \in 0 .. MaxCliFaults /\ clDeaths' = clDeaths
    BY <1>10 DEF CL!Fetch, CL!Backup, CL!Install, CL!Restore, CL!Clean, CL!world, CL!left, CL!Fault, CliType
  <2>2. CL!End \/ \E pc \in CliSteps : clRun' = [clRun EXCEPT !.pc = pc]
    <3>1. CL!End \/ \E pc \in CliSteps : CL!Goto(pc)
      BY <1>10 DEF CL!Fetch, CL!Backup, CL!Install, CL!Restore, CL!Clean, CliSteps
    <3> QED
      BY <3>1 DEF CL!Goto
  <2>3. /\ clRun' \in [pc : CliSteps, me : Builds, force : BOOLEAN, yes : BOOLEAN, res : Results]
        /\ clRun'.res.rel <= Len(releases)
    <3>1. CASE CL!End
      BY <3>1, EndTyped DEF CliType
    <3>2. CASE \E pc \in CliSteps : clRun' = [clRun EXCEPT !.pc = pc]
      BY <3>2 DEF CliType
    <3> QED
      BY <2>2, <3>1, <3>2
  <2>4. files' \in [exe : Builds, new : Builds, backup : Builds]
    <3>1. CASE CL!Fetch
      <4>1. clRun.res.rel # 0 => CL!Build(clRun.res.rel) \in Builds
        BY BuildsTyped DEF CliType, Results
      <4> QED
        BY <3>1, <4>1, BuildsTyped DEF CL!Fetch, CliType
    <3>2. CASE CL!Backup
      <4>1. \/ files' = [files EXCEPT !.backup = files.exe, !.exe = CL!NoFile]
            \/ files' = [files EXCEPT !.new = CL!NoFile]
        BY <3>2 DEF CL!Backup
      <4> QED
        BY <4>1, BuildsTyped DEF CliType
    <3>3. CASE CL!Install
      BY <3>3, BuildsTyped DEF CL!Install, CliType
    <3>4. CASE CL!Restore \/ CL!Clean
      BY <3>4, BuildsTyped DEF CL!Restore, CL!Clean, CliType
    <3> QED
      BY <1>10, <3>1, <3>2, <3>3, <3>4
  <2> QED
    BY <2>1, <2>3, <2>4 DEF CliType
<1>11. CASE UNCHANGED CL!vars
  BY <1>11 DEF CL!vars, CliType
<1> QED
  BY <1>2, <1>3, <1>4, <1>5, <1>6, <1>7, <1>8, <1>9, <1>10, <1>11 DEF CL!Next

LEMMA CliKept ==
  ASSUME CliConstants
  PROVE  /\ CL!Init => CliInv
         /\ CliType /\ CliInv /\ [CL!Next]_(CL!vars) => CliInv'
<1> USE DEF CliConstants
<1>1. ASSUME CL!Init PROVE CliInv
  <2>1. releases = <<1>> /\ head = 1
    BY <1>1 DEF CL!Init
  <2>2. CL!Build(1) # CL!NoFile /\ CL!DevBuild # CL!NoFile
    BY <2>1 DEF CL!NoFile, CL!Build, CL!DevBuild
  <2>3. files.exe # CL!NoFile /\ ~clCache.on /\ clRun = CL!NoRun /\ clRun.pc = "none"
    BY <1>1, <2>2 DEF CL!Init, CL!NoCache, CL!NoRun
  <2> QED
    BY <2>3 DEF CliInv
<1> SUFFICES ASSUME CliType, CliInv, [CL!Next]_(CL!vars) PROVE CliInv'
  BY <1>1
<1> DEFINE same == UNCHANGED <<clCache, clRun, files, clFaults, clDeaths>>
<1>2. ASSUME same PROVE CliInv'
  BY <1>2 DEF CliInv, CL!NoFile, CL!NoRun, Newer
<1>3. CASE CL!Commit \/ CL!Release
  BY <1>2, <1>3 DEF CL!Commit, CL!Release, CL!left
<1>4. CASE CL!Expire
  BY <1>4 DEF CL!Expire, CL!world, CL!left, CL!NoCache, CliInv, CL!NoFile, CL!NoRun, Newer
<1>5. CASE CL!Die
  <2>1. UNCHANGED <<clCache, files, clFaults>> /\ clDeaths' < MaxCliDeaths
    BY <1>5 DEF CL!Die, CL!world, CliType
  <2> QED
    BY <1>5, <2>1, EndTyped DEF CL!Die, CliInv, CL!NoFile, Newer
<1>6. ASSUME NEW r \in DOMAIN releases, CL!ByHand(r) PROVE CliInv'
  <2>1. CL!Build(r) # CL!NoFile
    BY BuildsTyped DEF CliType
  <2>2. UNCHANGED <<clCache, clRun>> /\ files'.exe # CL!NoFile /\ clRun.pc = "none"
    BY <1>6, <2>1 DEF CL!ByHand, CliType, CL!NoRun
  <2> QED
    BY <2>2 DEF CliInv, CL!NoFile, CL!NoRun, Newer
<1>7. ASSUME NEW force \in BOOLEAN, NEW yes \in BOOLEAN, CL!Start(force, yes) PROVE CliInv'
  <2>1. clRun'.pc = "check" /\ UNCHANGED <<files, clCache>> /\ files.exe # CL!NoFile
    BY <1>7 DEF CL!Start, CL!world, CL!NoRun
  <2>2. clRun'.pc # CL!NoRun.pc
    BY <2>1 DEF CL!NoRun
  <2> QED
    BY <2>1, <2>2 DEF CliInv, CL!NoFile, CL!NoRun, Newer
<1>8. CASE CL!CheckForUpdates
  <2>1. UNCHANGED files /\ files.exe # CL!NoFile
    BY <1>8 DEF CL!CheckForUpdates, CliInv
  <2>2. /\ clRun'.pc = "decide" /\ Newer(clRun.res, clRun.me)'
        /\ clCache'.on => Newer(clCache.res, clCache.cur)'
    <3>1. CASE /\ CL!Cached(clRun.me) /\ clCache' = clCache
               /\ clRun' = [clRun EXCEPT !.pc = "decide", !.res = clCache.res]
      <4>1. clRun'.pc = "decide" /\ clRun'.res = clCache.res /\ clRun'.me = clCache.cur
        BY <3>1 DEF CL!Cached, CliType
      <4> QED
        BY <3>1, <4>1 DEF CL!Cached, CliInv, Newer
    <3>2. ASSUME NEW res \in CL!Results(clRun.me),
                 clRun' = [clRun EXCEPT !.pc = "decide", !.res = res],
                 clCache' = [cur |-> clRun.me, res |-> res, on |-> TRUE]
          PROVE  /\ clRun'.pc = "decide" /\ Newer(clRun.res, clRun.me)'
                 /\ Newer(clCache.res, clCache.cur)'
      <4>1. Newer(res, clRun.me)
        BY ResultsTyped DEF CliType
      <4>2. clRun'.pc = "decide" /\ clRun'.res = res /\ clRun'.me = clRun.me
        BY <3>2 DEF CliType
      <4> QED
        BY <3>2, <4>1, <4>2 DEF Newer
    <3> QED
      BY <1>8, <3>1, <3>2 DEF CL!CheckForUpdates
  <2>3. clRun'.pc # CL!NoRun.pc
    BY <2>2 DEF CL!NoRun
  <2> QED
    BY <2>1, <2>2, <2>3 DEF CliInv, CL!NoFile, CL!NoRun
<1>9. CASE CL!Decide
  <2>1. UNCHANGED <<files, clCache, clFaults, clDeaths>> /\ clRun.pc = "decide"
    BY <1>9 DEF CL!Decide, CL!world, CL!left
  <2>2. CASE CL!End
    BY <2>1, <2>2, EndTyped DEF CliInv, CL!NoFile, Newer
  <2>3. CASE CL!Goto("fetch") /\ (clRun.res.has \/ clRun.force)
    <3>1. /\ clRun'.pc = "fetch" /\ clRun'.res = clRun.res /\ clRun'.me = clRun.me /\ clRun'.force = clRun.force
      BY <2>3 DEF CL!Goto, CliType
    <3>2. clRun'.pc # CL!NoRun.pc
      BY <3>1 DEF CL!NoRun
    <3> QED
      BY <2>1, <2>3, <3>1, <3>2 DEF CliInv, CL!NoFile, CL!NoRun, Newer
  <2> QED
    BY <1>9, <2>2, <2>3 DEF CL!Decide
<1>10. CASE UNCHANGED CL!vars
  BY <1>2, <1>10 DEF CL!vars
\* A step of the replacement that goes on, and one that fails.
<1>11. ASSUME NEW pc \in CliSteps, pc # "none", CL!Goto(pc)
       PROVE  /\ clRun'.pc = pc /\ clRun' # CL!NoRun /\ clRun'.res = clRun.res /\ clRun'.me = clRun.me
              /\ clRun'.force = clRun.force
  <2>1. clRun'.pc = pc /\ clRun'.res = clRun.res /\ clRun'.me = clRun.me /\ clRun'.force = clRun.force
    BY <1>11 DEF CL!Goto, CliType
  <2>2. CL!NoRun.pc = "none"
    BY DEF CL!NoRun
  <2> QED
    BY <1>11, <2>1, <2>2
<1>12. CL!Fault => clFaults' = clFaults - 1 /\ clDeaths' = clDeaths
  BY DEF CL!Fault
<1>13. UNCHANGED CL!left => UNCHANGED <<clFaults, clDeaths>>
  BY DEF CL!left
<1>14. clFaults \in 0 .. MaxCliFaults /\ clDeaths \in 0 .. MaxCliDeaths
  BY DEF CliType
<1>15. CASE CL!Fetch
  <2>1. UNCHANGED clCache /\ clRun.pc = "fetch"
    BY <1>15 DEF CL!Fetch
  <2>2. CASE CL!End /\ UNCHANGED files
    BY <2>1, <2>2, EndTyped DEF CliInv, CL!NoFile, Newer
  <2>3. CASE /\ files' = [files EXCEPT !.new = IF clRun.res.rel # 0 THEN CL!Build(clRun.res.rel) ELSE CL!DevBuild]
             /\ CL!Goto("backup") /\ UNCHANGED CL!left
    <3>1. clRun.res.rel # 0 => CL!Build(clRun.res.rel) # CL!NoFile /\ CL!Build(clRun.res.rel).rel = clRun.res.rel
      BY BuildsTyped DEF CliType, Results, CL!Build
    <3>2. CL!DevBuild # CL!NoFile /\ CL!DevBuild.rel = 0
      BY BuildsTyped DEF CL!DevBuild
    <3>3. files'.new # CL!NoFile /\ files'.new.rel \in {0, clRun.res.rel} /\ files'.exe = files.exe
      BY <2>3, <3>1, <3>2 DEF CliType
    <3>4. /\ clRun'.pc = "backup" /\ clRun' # CL!NoRun /\ clRun'.res = clRun.res /\ clRun'.me = clRun.me
          /\ clRun'.force = clRun.force
      BY <1>11, <2>3 DEF CliSteps
    <3> QED
      BY <1>13, <2>1, <2>3, <3>3, <3>4 DEF CliInv, CL!NoFile, CL!NoRun, Newer
  <2> QED
    BY <1>15, <2>2, <2>3 DEF CL!Fetch
<1>16. CASE CL!Backup
  <2>1. UNCHANGED clCache /\ clRun.pc = "backup"
    BY <1>16 DEF CL!Backup
  <2>2. CASE CL!End /\ files' = [files EXCEPT !.new = CL!NoFile]
    <3>1. files'.exe = files.exe
      BY <2>2 DEF CliType
    <3> QED
      BY <2>1, <2>2, <3>1, EndTyped DEF CliInv, CL!NoFile, Newer
  <2>3. CASE /\ files' = [files EXCEPT !.backup = files.exe, !.exe = CL!NoFile]
             /\ CL!Goto("install") /\ UNCHANGED CL!left
    <3>1. files'.new = files.new /\ files'.backup = files.exe
      BY <2>3 DEF CliType
    <3>2. /\ clRun'.pc = "install" /\ clRun' # CL!NoRun /\ clRun'.res = clRun.res /\ clRun'.me = clRun.me
          /\ clRun'.force = clRun.force
      BY <1>11, <2>3 DEF CliSteps
    <3> QED
      BY <1>13, <2>1, <2>3, <3>1, <3>2 DEF CliInv, CL!NoFile, CL!NoRun, Newer
  <2> QED
    BY <1>16, <2>2, <2>3 DEF CL!Backup
<1>17. CASE CL!Install
  <2>1. UNCHANGED clCache /\ clRun.pc = "install"
    BY <1>17 DEF CL!Install
  <2>2. CASE /\ files' = [files EXCEPT !.exe = files.new, !.new = CL!NoFile]
             /\ CL!Goto("clean") /\ UNCHANGED CL!left
    <3>1. files'.exe = files.new
      BY <2>2 DEF CliType
    <3>2. /\ clRun'.pc = "clean" /\ clRun' # CL!NoRun /\ clRun'.res = clRun.res /\ clRun'.me = clRun.me
          /\ clRun'.force = clRun.force
      BY <1>11, <2>2 DEF CliSteps
    <3> QED
      BY <1>13, <2>1, <2>2, <3>1, <3>2 DEF CliInv, CL!NoFile, CL!NoRun, Newer
  <2>3. CASE CL!Fault /\ UNCHANGED files
    <3>1. CL!Goto("restore")
      BY <1>17, <2>3, <1>13, <1>12, <1>14 DEF CL!Install, CL!AfterFailure
    <3>2. /\ clRun'.pc = "restore" /\ clRun' # CL!NoRun /\ clRun'.res = clRun.res /\ clRun'.me = clRun.me
          /\ clRun'.force = clRun.force
      BY <1>11, <3>1 DEF CliSteps
    <3> QED
      BY <1>12, <1>14, <2>1, <2>3, <3>2 DEF CliInv, CL!NoFile, CL!NoRun, Newer
  <2> QED
    BY <1>17, <2>2, <2>3 DEF CL!Install
<1>18. CASE CL!Restore
  <2>1. UNCHANGED clCache /\ clRun.pc = "restore" /\ CL!End
    BY <1>18 DEF CL!Restore
  <2>2. CASE files' = [files EXCEPT !.exe = files.backup, !.backup = CL!NoFile]
    <3>1. files'.exe = files.backup
      BY <2>2 DEF CliType
    <3> QED
      BY <2>1, <3>1, EndTyped DEF CliInv, CL!NoFile, Newer
  <2>3. CASE CL!Fault /\ UNCHANGED files
    BY <1>12, <1>14, <2>1, <2>3, EndTyped DEF CliInv, CL!NoFile, Newer
  <2> QED
    BY <1>18, <2>2, <2>3 DEF CL!Restore
<1>19. CASE CL!Clean
  <2>1. UNCHANGED clCache /\ clRun.pc = "clean" /\ CL!End /\ files'.exe = files.exe
    BY <1>19 DEF CL!Clean, CliType
  <2> QED
    BY <2>1, EndTyped DEF CliInv, CL!NoFile, Newer
<1> QED
  BY <1>3, <1>4, <1>5, <1>6, <1>7, <1>8, <1>9, <1>10, <1>15, <1>16, <1>17, <1>18, <1>19 DEF CL!Next

\* NeverOlder: an update that was not forced replaces a release by a later one,
\* whatever an earlier build cached and whatever was installed by hand since
\* (cmd/update/update.go, internal/version/version.go).
THEOREM UpdatesGoForward ==
  ASSUME CliConstants
  PROVE  CL!Spec => []CL!NeverOlder
<1>1. CliType /\ CliInv => CL!NeverOlder
  BY DEF CliType, CliInv, CL!NeverOlder, Newer, Builds
<1> QED
  BY <1>1, CliTyped, CliKept, PTL DEF CL!Spec

\* AlwaysABinary: there is an executable whenever no update is between its two
\* renames, unless one died there or could not put its backup back
\* (cmd/update/update.go).
THEOREM BinaryIsThere ==
  ASSUME CliConstants
  PROVE  CL!Spec => []CL!AlwaysABinary
<1>1. CliInv => CL!AlwaysABinary
  BY DEF CliInv, CL!AlwaysABinary
<1> QED
  BY <1>1, CliTyped, CliKept, PTL DEF CL!Spec

-----------------------------------------------------------------------------
(* The schema migrations.                                                  *)

\* No process is called "none", migrations are numbered, and the baseline has
\* an object (migrations 00001 and on).
MigrateConstants ==
  /\ "none" \notin Procs /\ Objects # {}
  /\ MigrationsOf \in [Procs -> SUBSET Nat]

MigrateSteps == {"down", "lock", "list", "apply", "fail", "failed", "up"}

MigrateType ==
  /\ applied \in Seq(Nat)
  /\ proc \in [Procs -> [pc : MigrateSteps, todo : SUBSET Nat]]
  /\ miHeld \in Procs \cup {"none"}

\* Who holds the lock, what he has still to do, and what is in.
MigrateInv ==
  /\ \A p \in Procs : proc[p].pc \in {"list", "apply", "fail"} <=> miHeld = p
  /\ \A p \in Procs : proc[p].pc = "apply" =>
       /\ \A v \in proc[p].todo : \A i \in DOMAIN applied : applied[i] < v
       /\ MI!Mine(p) \subseteq MI!Range(applied) \cup proc[p].todo
  /\ MI!HistoryAscends /\ MI!BaselineIsWhole /\ MI!ServesItsSchema

\* A migration that is committed is the last of the history.
LEMMA Appended ==
  ASSUME NEW s \in Seq(Nat), NEW v \in Nat
  PROVE  /\ Append(s, v) \in Seq(Nat)
         /\ Len(Append(s, v)) = Len(s) + 1
         /\ Append(s, v)[Len(s) + 1] = v
         /\ \A i \in 1 .. Len(s) : Append(s, v)[i] = s[i]
         /\ DOMAIN s = 1 .. Len(s) /\ DOMAIN Append(s, v) = 1 .. Len(s) + 1
         /\ MI!Range(Append(s, v)) = MI!Range(s) \cup {v}
<1>1. /\ Append(s, v) \in Seq(Nat)
      /\ Len(Append(s, v)) = Len(s) + 1
      /\ Append(s, v)[Len(s) + 1] = v
      /\ \A i \in 1 .. Len(s) : Append(s, v)[i] = s[i]
      /\ DOMAIN s = 1 .. Len(s) /\ DOMAIN Append(s, v) = 1 .. Len(s) + 1
  OBVIOUS
<1>2. MI!Range(Append(s, v)) \subseteq MI!Range(s) \cup {v}
  BY <1>1 DEF MI!Range
<1>3. MI!Range(s) \cup {v} \subseteq MI!Range(Append(s, v))
  <2>1. Len(s) + 1 \in DOMAIN Append(s, v) /\ \A i \in DOMAIN s : i \in DOMAIN Append(s, v)
    BY <1>1
  <2> QED
    BY <1>1, <2>1 DEF MI!Range
<1> QED
  BY <1>1, <1>2, <1>3

LEMMA MigrateTyped ==
  ASSUME MigrateConstants
  PROVE  /\ MI!Init => MigrateType
         /\ MigrateType /\ [MI!Next]_(MI!vars) => MigrateType'
<1> USE DEF MigrateConstants, MigrateType
<1>1. MI!Init => MigrateType
  BY DEF MI!Init, MigrateSteps
<1> SUFFICES ASSUME MigrateType, [MI!Next]_(MI!vars) PROVE MigrateType'
  BY <1>1
<1>2. ASSUME NEW p \in Procs,
             MI!Connect(p) \/ MI!Lock(p) \/ MI!Fail(p) \/ MI!Unlock(p) \/ MI!Die(p)
      PROVE  MigrateType'
  <2>1. applied' = applied /\ miHeld' \in Procs \cup {"none"}
    BY <1>2 DEF MI!Connect, MI!Lock, MI!Fail, MI!Unlock, MI!Die
  <2>2. \E pc \in MigrateSteps : proc' = [proc EXCEPT ![p].pc = pc]
    BY <1>2 DEF MI!Connect, MI!Lock, MI!Fail, MI!Unlock, MI!Die, MI!Goto, MigrateSteps
  <2> QED
    BY <2>1, <2>2
<1>3. ASSUME NEW p \in Procs, MI!List(p) PROVE MigrateType'
  <2>1. MI!Mine(p) \ MI!Range(applied) \in SUBSET Nat
    BY DEF MI!Mine
  <2> QED
    BY <1>3, <2>1 DEF MI!List, MigrateSteps
<1>4. ASSUME NEW p \in Procs, MI!Apply(p) PROVE MigrateType'
  <2>1. PICK v \in proc[p].todo : /\ proc' = [proc EXCEPT ![p].todo = @ \ {v}]
                                  /\ applied' = Append(applied, v)
    BY <1>4 DEF MI!Apply
  <2>2. v \in Nat
    OBVIOUS
  <2>3. applied' \in Seq(Nat)
    BY <2>1, <2>2, Appended
  <2> QED
    BY <1>4, <2>1, <2>3 DEF MI!Apply
<1>5. CASE MI!OldBoot
  BY <1>5 DEF MI!OldBoot
<1>6. CASE UNCHANGED MI!vars
  BY <1>6 DEF MI!vars
<1> QED
  BY <1>2, <1>3, <1>4, <1>5, <1>6 DEF MI!Next

LEMMA MigrateKept ==
  ASSUME MigrateConstants
  PROVE  /\ MI!Init => MigrateInv
         /\ MigrateType /\ MigrateInv /\ [MI!Next]_(MI!vars) => MigrateInv'
<1> USE DEF MigrateConstants
<1>1. ASSUME MI!Init PROVE MigrateInv
  <2>1. /\ miHeld = "none" /\ applied = <<>> /\ ~reran
        /\ \A p \in Procs : proc[p].pc = "down"
    BY <1>1 DEF MI!Init
  <2>2. MI!HistoryAscends
    BY <2>1 DEF MI!HistoryAscends
  <2>3. MI!BaselineIsWhole
    BY <2>1 DEF MI!BaselineIsWhole, MI!Range
  <2> QED
    BY <2>1, <2>2, <2>3 DEF MigrateInv, MI!ServesItsSchema
<1> SUFFICES ASSUME MigrateType, MigrateInv, [MI!Next]_(MI!vars) PROVE MigrateInv'
  BY <1>1
\* Steps that commit no migration.
<1>2. ASSUME NEW p \in Procs, UNCHANGED <<applied, have, reran>>,
             proc' = [proc EXCEPT ![p] = proc'[p]],
             proc'[p].pc \in {"list", "apply", "fail"} <=> miHeld' = p,
             \A q \in Procs \ {p} : miHeld = q <=> miHeld' = q,
             proc'[p].pc = "apply" =>
               /\ \A v \in proc'[p].todo : \A i \in DOMAIN applied : applied[i] < v
               /\ MI!Mine(p) \subseteq MI!Range(applied) \cup proc'[p].todo,
             proc'[p].pc = "up" => MI!Mine(p) \subseteq MI!Range(applied)
      PROVE  MigrateInv'
  <2>1. \A q \in Procs \ {p} : proc'[q] = proc[q]
    BY <1>2 DEF MigrateType
  <2>2. MI!HistoryAscends' /\ MI!BaselineIsWhole'
    BY <1>2 DEF MigrateInv, MI!HistoryAscends, MI!BaselineIsWhole
  <2>3. MI!ServesItsSchema'
    BY <1>2, <2>1 DEF MigrateInv, MI!ServesItsSchema
  <2> QED
    BY <1>2, <2>1, <2>2, <2>3 DEF MigrateInv
<1>3. ASSUME NEW p \in Procs, MI!Connect(p) \/ MI!Lock(p) \/ MI!Fail(p) \/ MI!Unlock(p) \/ MI!Die(p)
      PROVE  MigrateInv'
  <2>1. UNCHANGED <<applied, have, reran>>
    BY <1>3 DEF MI!Connect, MI!Lock, MI!Fail, MI!Unlock, MI!Die
  <2>2. PICK pc \in MigrateSteps : MI!Goto(p, pc)
    BY <1>3 DEF MI!Connect, MI!Lock, MI!Fail, MI!Unlock, MI!Die, MigrateSteps
  <2>3. proc' = [proc EXCEPT ![p] = proc'[p]] /\ proc'[p].pc = pc /\ proc'[p].todo = proc[p].todo
    BY <2>2 DEF MI!Goto, MigrateType
  <2>4. proc[p].pc \in {"list", "apply", "fail"} <=> miHeld = p
    BY DEF MigrateInv
  <2>5. CASE MI!Connect(p)
    <3>1. pc = "lock" /\ miHeld' = miHeld /\ proc[p].pc \in {"down", "failed", "up"}
      BY <2>2, <2>3, <2>5 DEF MI!Connect, MI!Goto, MigrateType
    <3> QED
      BY <1>2, <2>1, <2>3, <2>4, <3>1
  <2>6. CASE MI!Lock(p)
    <3>1. pc = "list" /\ miHeld' = p /\ miHeld = "none"
      BY <2>2, <2>3, <2>6 DEF MI!Lock, MI!Goto, MI!Granted, MigrateType
    <3> QED
      BY <1>2, <2>1, <2>3, <2>4, <3>1
  <2>7. CASE MI!Fail(p)
    <3>1. /\ miHeld' = miHeld /\ proc[p].pc \in {"lock", "list", "apply"}
          /\ pc = IF proc[p].pc = "lock" THEN "failed" ELSE "fail"
      BY <2>2, <2>3, <2>7 DEF MI!Fail, MI!Goto, MigrateType
    <3> QED
      BY <1>2, <2>1, <2>3, <2>4, <3>1
  <2>8. CASE MI!Unlock(p)
    <3>1. /\ miHeld' = IF miHeld = p THEN "none" ELSE miHeld
          /\ pc = IF proc[p].pc = "fail" THEN "failed" ELSE "up"
          /\ proc[p].pc = "fail" \/ (proc[p].pc = "apply" /\ proc[p].todo = {})
      BY <2>2, <2>3, <2>8 DEF MI!Unlock, MI!Goto, MigrateType
    <3>2. pc = "up" => MI!Mine(p) \subseteq MI!Range(applied)
      BY <3>1 DEF MigrateInv
    <3> QED
      BY <1>2, <2>1, <2>3, <2>4, <3>1, <3>2
  <2>9. CASE MI!Die(p)
    <3>1. miHeld' = (IF miHeld = p THEN "none" ELSE miHeld) /\ pc = "down"
      BY <2>2, <2>3, <2>9 DEF MI!Die, MI!Goto, MigrateType
    <3> QED
      BY <1>2, <2>1, <2>3, <2>4, <3>1
  <2> QED
    BY <1>3, <2>5, <2>6, <2>7, <2>8, <2>9
<1>4. ASSUME NEW p \in Procs, MI!List(p) PROVE MigrateInv'
  <2>1. /\ UNCHANGED <<applied, have, reran, miHeld>> /\ proc[p].pc = "list"
        /\ proc' = [proc EXCEPT ![p] = proc'[p]]
        /\ \/ /\ MI!InOrder(p) /\ proc'[p].pc = "apply"
              /\ proc'[p].todo = MI!Mine(p) \ MI!Range(applied)
           \/ proc'[p].pc = "fail"
    BY <1>4 DEF MI!List, MigrateType
  <2>2. MI!InOrder(p) =>
          \A v \in MI!Mine(p) \ MI!Range(applied) : \A i \in DOMAIN applied : applied[i] < v
    BY DEF MI!InOrder, MI!Range
  <2>3. proc[p].pc \in {"list", "apply", "fail"} <=> miHeld = p
    BY DEF MigrateInv
  <2> QED
    BY <1>2, <2>1, <2>2, <2>3
<1>5. ASSUME NEW p \in Procs, MI!Apply(p) PROVE MigrateInv'
  <2>1. PICK v \in proc[p].todo :
          LET ddl == v = 1 /\ MI!Baseline # "stamp" IN
          /\ \A w \in proc[p].todo : v <= w
          /\ proc' = [proc EXCEPT ![p].todo = @ \ {v}]
          /\ applied' = Append(applied, v)
          /\ have' = IF ddl THEN Objects ELSE have
          /\ reran' = (reran \/ (ddl /\ MI!Missing = {}))
    BY <1>5 DEF MI!Apply
  <2>2. proc[p].pc = "apply" /\ miHeld' = miHeld
    BY <1>5 DEF MI!Apply
  <2>3. v \in Nat /\ proc[p].todo \in SUBSET Nat /\ applied \in Seq(Nat)
    BY DEF MigrateType
  <2>4. /\ \A q \in Procs : proc'[q].pc = proc[q].pc
        /\ \A q \in Procs \ {p} : proc'[q] = proc[q]
        /\ proc'[p].todo = proc[p].todo \ {v}
    BY <2>1 DEF MigrateType
  <2>5. \A q \in Procs : proc[q].pc \in {"list", "apply", "fail"} <=> miHeld = q
    BY DEF MigrateInv
  <2>6. \A i \in DOMAIN applied : applied[i] < v
    BY <2>2 DEF MigrateInv
  <2>7. /\ DOMAIN applied = 1 .. Len(applied) /\ DOMAIN applied' = 1 .. Len(applied) + 1
        /\ Len(applied') = Len(applied) + 1 /\ applied'[Len(applied) + 1] = v
        /\ \A i \in 1 .. Len(applied) : applied'[i] = applied[i]
        /\ MI!Range(applied') = MI!Range(applied) \cup {v}
        /\ Len(applied) \in Nat
        /\ \A i \in 1 .. Len(applied) : applied[i] \in Nat
    BY <2>1, <2>3, Appended
  <2>8. MI!HistoryAscends'
    <3> SUFFICES ASSUME NEW i \in 1 .. Len(applied') - 1 PROVE applied'[i] < applied'[i + 1]
      BY DEF MI!HistoryAscends
    <3>1. CASE i = Len(applied)
      BY <2>6, <2>7, <3>1
    <3>2. CASE i < Len(applied)
      <4>1. applied[i] < applied[i + 1]
        BY <2>7, <3>2 DEF MigrateInv, MI!HistoryAscends
      <4> QED
        BY <2>7, <3>2, <4>1
    <3>3. i = Len(applied) \/ i < Len(applied)
      <4>1. Len(applied) \in Nat /\ Len(applied') = Len(applied) + 1
        BY <2>7
      <4> QED
        BY <4>1
    <3> QED
      BY <3>1, <3>2, <3>3
  <2>9. MI!BaselineIsWhole'
    <3>1. (1 \in MI!Range(applied) => Objects \subseteq have) /\ ~reran
      BY DEF MigrateInv, MI!BaselineIsWhole
    <3>2. v = 1 => Objects \subseteq have'
      BY <2>1 DEF MI!Baseline, MI!Missing, MI!LegacyPresent
    <3>3. ~(MI!Baseline # "stamp" /\ MI!Missing = {})
      BY DEF MI!Baseline, MI!Missing, MI!LegacyPresent
    <3> QED
      BY <2>1, <2>7, <3>1, <3>2, <3>3 DEF MI!BaselineIsWhole
  <2>10. MI!ServesItsSchema'
    BY <2>4, <2>7 DEF MigrateInv, MI!ServesItsSchema, MI!Mine
  <2>11. ASSUME NEW q \in Procs, proc'[q].pc = "apply"
         PROVE  /\ \A w \in proc'[q].todo : \A i \in DOMAIN applied' : applied'[i] < w
                /\ MI!Mine(q) \subseteq MI!Range(applied') \cup proc'[q].todo
    <3>1. q = p
      BY <2>2, <2>4, <2>5, <2>11
    <3>2. \A w \in proc[p].todo \ {v} : v < w
      BY <2>1, <2>3
    <3>3. ASSUME NEW w \in proc'[q].todo, NEW i \in DOMAIN applied' PROVE applied'[i] < w
      BY <2>2, <2>4, <2>6, <2>7, <3>1, <3>2, <3>3 DEF MigrateInv
    <3>4. MI!Mine(p) \subseteq MI!Range(applied) \cup proc[p].todo
      BY <2>2 DEF MigrateInv
    <3>5. MI!Mine(q)' = MI!Mine(q)
      BY DEF MI!Mine
    <3> QED
      BY <2>4, <2>7, <3>1, <3>3, <3>4
  <2> QED
    BY <2>2, <2>4, <2>5, <2>8, <2>9, <2>10, <2>11 DEF MigrateInv, MI!Mine
<1>6. CASE MI!OldBoot
  <2>1. UNCHANGED <<applied, proc, reran, miHeld>> /\ have' = have \cup OldKnows
    BY <1>6 DEF MI!OldBoot
  <2>2. MI!HistoryAscends' /\ MI!BaselineIsWhole' /\ MI!ServesItsSchema'
    BY <2>1 DEF MigrateInv, MI!HistoryAscends, MI!BaselineIsWhole, MI!ServesItsSchema, MI!Mine
  <2> QED
    BY <2>1, <2>2 DEF MigrateInv, MI!Mine
<1>7. CASE UNCHANGED MI!vars
  <2>1. UNCHANGED <<applied, proc, reran, miHeld, have>>
    BY <1>7 DEF MI!vars
  <2>2. MI!HistoryAscends' /\ MI!BaselineIsWhole' /\ MI!ServesItsSchema'
    BY <2>1 DEF MigrateInv, MI!HistoryAscends, MI!BaselineIsWhole, MI!ServesItsSchema, MI!Mine
  <2> QED
    BY <2>1, <2>2 DEF MigrateInv, MI!Mine
<1> QED
  BY <1>3, <1>4, <1>5, <1>6, <1>7 DEF MI!Next

\* HistoryAscends, BaselineIsWhole, ServesItsSchema and LockIsLive: whichever
\* processes, of whatever builds, start, fail and die together, each migration
\* is committed once and in order, version 1 stands for the whole baseline, a
\* process that serves has its build's schema, and the lock dies with its
\* session (migrateTo, decideBaseline).
THEOREM SchemasAreServed ==
  ASSUME MigrateConstants
  PROVE  MI!Spec => [](MI!HistoryAscends /\ MI!BaselineIsWhole /\ MI!ServesItsSchema /\ MI!LockIsLive)
<1>1. MigrateType /\ MigrateInv =>
        MI!HistoryAscends /\ MI!BaselineIsWhole /\ MI!ServesItsSchema /\ MI!LockIsLive
  BY DEF MigrateType, MigrateInv, MI!LockIsLive
<1> QED
  BY <1>1, MigrateTyped, MigrateKept, PTL DEF MI!Spec

-----------------------------------------------------------------------------
(* The updates together.                                                   *)

\* Whatever is updated meanwhile, the runner tries a release once for each
\* request and reports what is on disk (runner/runner.py), the command is never
\* put back or lost (cmd/update/update.go), and a process serves with the schema
\* of its build (internal/db/migrate.go).
THEOREM EveryUpdateIsSafe ==
  ASSUME MaxUpdateFaults \in Nat, CliConstants, MigrateConstants
  PROVE  Spec => []UpdatesAreSafe
<1>1. SU!Spec => []SU!TriedAsAsked /\ []SU!NeverReportedEarly
  BY UpdatesAreAskedFor, VersionsWereHeld
<1>2. CL!Spec => []CL!NeverOlder /\ []CL!AlwaysABinary
  BY UpdatesGoForward, BinaryIsThere
<1>3. MI!Spec => [](MI!HistoryAscends /\ MI!BaselineIsWhole /\ MI!ServesItsSchema /\ MI!LockIsLive)
  BY SchemasAreServed
<1>4. ~(part = "su") /\ [UNCHANGED part]_part => ~(part = "su")'
  OBVIOUS
<1>5. ~(part = "cl") /\ [UNCHANGED part]_part => ~(part = "cl")'
  OBVIOUS
<1>6. ~(part = "mi") /\ [UNCHANGED part]_part => ~(part = "mi")'
  OBVIOUS
<1> QED
  BY <1>1, <1>2, <1>3, <1>4, <1>5, <1>6, PTL DEF Spec, ReportsSpec, UpdatesAreSafe

-----------------------------------------------------------------------------
(* The rows of the ad-hoc runs.                                            *)

Outcomes == {"done", "failed", "cancelled"}

Recorders ==
  [on : BOOLEAN, id : Nat, done : Nat, kick : BOOLEAN, ended : Outcomes \cup {"no", "killed"},
   abandoned : BOOLEAN, last : Nat, missed : Nat, pc : {"idle", "start", "insert", "write"},
   final : BOOLEAN, p : Nat]

RunRows == [run : AdhocRuns, done : Nat, status : Outcomes \cup {"running"}, beat : Nat]

RunsType ==
  /\ rec \in [AdhocRuns -> Recorders]
  /\ srRows \in Seq(RunRows)
  /\ late \in SUBSET [run : AdhocRuns, id : Nat, p : Nat, status : Outcomes \cup {"no"}]
  /\ srReader \in [pc : {"idle", "half", "done"}, old : SUBSET Nat, active : SUBSET Nat,
                   recent : SUBSET Nat, link : {srReader.link}]
  /\ srClock \in Nat

\* A recorder that is closing knows how its run ended.
ClosingKnows ==
  \A r \in AdhocRuns : /\ rec[r].on => rec[r].ended # "killed"
                       /\ rec[r].final => rec[r].ended \in Outcomes
                       /\ rec[r].final /\ rec[r].pc # "idle" => rec[r].p = rec[r].done
                       /\ ~rec[r].on => rec[r].pc = "idle" /\ (rec[r].ended = "no" => rec[r].id = 0)

\* What one operation makes of a recorder.
Becomes(r, f) == rec' = [rec EXCEPT ![r] = f]

Moved(r) ==
  \E f \in Recorders :
    /\ Becomes(r, f)
    /\ f.on => f.ended # "killed"
    /\ f.final => f.ended \in Outcomes
    /\ f.final /\ f.pc # "idle" => f.p = f.done
    /\ ~f.on => f.pc = "idle" /\ (f.ended = "no" => f.id = 0)
    /\ rec[r].ended # "no" => f.ended = rec[r].ended /\ f.done = rec[r].done

LEMMA RecorderSteps ==
  ASSUME RunsType, ClosingKnows, NEW r \in AdhocRuns
  PROVE  SR!Start(r) \/ SR!Update(r) \/ SR!Flush(r) \/ SR!Finish(r) \/ SR!Close(r) \/ SR!Inserted(r)
           \/ SR!Recorded(r) \/ SR!Fails(r) \/ SR!Die(r) => Moved(r)
<1> DEFINE m == rec[r]
<1> USE DEF Outcomes
<1>1. m \in Recorders
  BY DEF RunsType
<1>2. /\ m.on => m.ended # "killed"
      /\ m.final => m.ended \in Outcomes
      /\ m.final /\ m.pc # "idle" => m.p = m.done
      /\ ~m.on => m.pc = "idle" /\ (m.ended = "no" => m.id = 0)
  BY DEF ClosingKnows
\* A recorder whose run has not ended, and one whose run has.
<1>3. ASSUME NEW f \in Recorders, Becomes(r, f), f.on, f.ended \in Outcomes \cup {"no"}, m.ended = "no",
             f.final = m.final
      PROVE  Moved(r)
  BY <1>2, <1>3 DEF Moved
<1>4. ASSUME NEW f \in Recorders, Becomes(r, f), m.ended \in Outcomes,
             f.ended = m.ended, f.done = m.done, f.p = f.done, f.on
      PROVE  Moved(r)
  BY <1>4 DEF Moved
<1>5. CASE SR!Start(r)
  <2> DEFINE f == [m EXCEPT !.on = TRUE, !.pc = "start", !.last = srClock]
  <2>1. Becomes(r, f) /\ ~m.on /\ m.ended = "no"
    BY <1>5 DEF SR!Start, SR!Set, Becomes
  <2>2. f \in Recorders /\ f.on /\ f.ended = "no" /\ f.final = m.final
    BY <1>1, <2>1 DEF RunsType, Recorders
  <2> HIDE DEF f
  <2> QED
    BY <1>3, <2>1, <2>2
<1>6. CASE SR!Update(r)
  <2> DEFINE n == m.done + 1
             f == [m EXCEPT !.done = n, !.kick = TRUE]
  <2>1. Becomes(r, f) /\ m.on /\ m.ended = "no" /\ n \in Nat
    BY <1>1, <1>6 DEF SR!Update, SR!Set, Becomes, Recorders
  <2> HIDE DEF n
  <2>2. f \in Recorders /\ f.on /\ f.ended = "no" /\ f.final = m.final
    BY <1>1, <2>1 DEF Recorders
  <2> HIDE DEF f
  <2> QED
    BY <1>3, <2>1, <2>2
<1>7. CASE SR!Flush(r)
  <2> DEFINE pc == IF m.id = 0 THEN "insert" ELSE "write"
             f == [m EXCEPT !.pc = pc, !.p = m.done, !.kick = FALSE, !.last = srClock]
  <2>1. Becomes(r, f) /\ m.on /\ m.ended = "no"
    BY <1>7 DEF SR!Flush, SR!Set, Becomes
  <2>2. pc \in {"insert", "write"}
    OBVIOUS
  <2> HIDE DEF pc
  <2>3. f \in Recorders /\ f.on /\ f.ended = "no" /\ f.final = m.final
    BY <1>1, <2>1, <2>2 DEF RunsType, Recorders
  <2> HIDE DEF f
  <2> QED
    BY <1>3, <2>1, <2>3
<1>8. CASE SR!Finish(r)
  <2>1. PICK outcome \in Outcomes : Becomes(r, [m EXCEPT !.ended = outcome]) /\ m.on /\ m.ended = "no"
    BY <1>8 DEF SR!Finish, SR!Set, Becomes
  <2> DEFINE f == [m EXCEPT !.ended = outcome]
  <2>2. /\ Becomes(r, f)
        /\ f \in Recorders /\ f.on /\ f.ended \in Outcomes /\ f.final = m.final
    BY <1>1, <2>1 DEF Recorders
  <2> HIDE DEF f
  <2> QED
    BY <1>3, <2>1, <2>2
<1>9. CASE SR!Close(r)
  <2>1. m.on /\ m.ended \in Outcomes /\ m.pc = "idle"
    BY <1>1, <1>2, <1>9 DEF SR!Close, Recorders
  <2>2. CASE Becomes(r, [m EXCEPT !.on = FALSE])
    <3> DEFINE f == [m EXCEPT !.on = FALSE]
    <3>1. /\ Becomes(r, f)
          /\ f \in Recorders /\ f.ended = m.ended /\ f.done = m.done /\ f.pc = "idle" /\ f.final = m.final
      BY <1>1, <2>1, <2>2 DEF Recorders
    <3> HIDE DEF f
    <3> QED
      BY <1>2, <2>1, <2>2, <3>1 DEF Moved
  <2>3. ASSUME NEW pc \in {"insert", "write"}, Becomes(r, [m EXCEPT !.pc = pc, !.p = m.done, !.final = TRUE])
        PROVE  Moved(r)
    <3> DEFINE f == [m EXCEPT !.pc = pc, !.p = m.done, !.final = TRUE]
    <3>1. /\ Becomes(r, f)
          /\ f \in Recorders /\ f.ended = m.ended /\ f.done = m.done /\ f.p = f.done /\ f.on
      BY <1>1, <2>1, <2>3 DEF Recorders
    <3> HIDE DEF f
    <3> QED
      BY <1>4, <2>1, <2>3, <3>1
  <2> QED
    BY <1>9, <2>2, <2>3 DEF SR!Close, SR!Set, Becomes
<1>10. CASE SR!Inserted(r)
  <2> DEFINE pc == IF m.pc = "start" THEN "idle" ELSE "write"
             f == [m EXCEPT !.id = Len(srRows) + 1, !.pc = pc]
  <2>1. m.pc \in {"start", "insert"} /\ Becomes(r, f)
    BY <1>1, <1>10 DEF SR!Inserted, SR!Set, Becomes
  <2>2. pc \in {"idle", "write"} /\ (pc = "write" => m.pc = "insert") /\ Len(srRows) + 1 \in Nat
    BY <2>1 DEF RunsType
  <2> HIDE DEF pc
  <2>3. /\ f \in Recorders /\ f.on = m.on /\ f.ended = m.ended /\ f.done = m.done /\ f.pc = pc /\ f.p = m.p
        /\ f.final = m.final
    BY <1>1, <2>2 DEF Recorders
  <2> HIDE DEF f
  <2> QED
    BY <1>2, <2>1, <2>2, <2>3 DEF Moved
\* What is left when the writer's step ends, done or failed.
<1>11. SR!Recorded(r) \/ SR!Fails(r) =>
         \E n \in Nat, gone \in BOOLEAN : Becomes(r, [SR!After(r) EXCEPT !.missed = n, !.abandoned = gone])
  <2>1. SR!After(r).missed = m.missed /\ SR!After(r).abandoned = m.abandoned
    BY <1>1 DEF SR!After, Recorders
  <2>2. \A n \in Nat : [SR!After(r) EXCEPT !.missed = n]
                         = [SR!After(r) EXCEPT !.missed = n, !.abandoned = m.abandoned]
    BY <1>1, <2>1 DEF SR!After, Recorders
  <2>3. [SR!After(r) EXCEPT !.abandoned = TRUE]
          = [SR!After(r) EXCEPT !.missed = m.missed, !.abandoned = TRUE]
    BY <1>1, <2>1 DEF SR!After, Recorders
  <2>4. m.missed \in Nat /\ m.missed + 1 \in Nat /\ m.abandoned \in BOOLEAN
    BY <1>1 DEF Recorders
  <2>5. SR!Recorded(r) => \/ Becomes(r, [SR!After(r) EXCEPT !.missed = 0])
                          \/ Becomes(r, [SR!After(r) EXCEPT !.abandoned = TRUE])
    BY DEF SR!Recorded, SR!Set, Becomes
  <2>6. SR!Fails(r) => Becomes(r, [SR!After(r) EXCEPT !.missed = m.missed + 1])
    BY <2>1 DEF SR!Fails, SR!Set, Becomes
  <2>7. SR!Recorded(r) => \E n \in Nat, gone \in BOOLEAN :
          Becomes(r, [SR!After(r) EXCEPT !.missed = n, !.abandoned = gone])
    BY <2>2, <2>3, <2>4, <2>5
  <2> QED
    BY <2>2, <2>4, <2>6, <2>7
<1>12. CASE SR!Recorded(r) \/ SR!Fails(r)
  <2>1. m.pc # "idle"
    BY <1>12 DEF SR!Recorded, SR!Fails
  <2>2. PICK n \in Nat, gone \in BOOLEAN : Becomes(r, [SR!After(r) EXCEPT !.missed = n, !.abandoned = gone])
    BY <1>11, <1>12
  <2> DEFINE f == [SR!After(r) EXCEPT !.missed = n, !.abandoned = gone]
  <2>3. /\ SR!After(r) \in Recorders /\ SR!After(r).on = (m.on /\ ~m.final) /\ SR!After(r).pc = "idle"
        /\ SR!After(r).ended = m.ended /\ SR!After(r).done = m.done /\ SR!After(r).final = m.final
    <3>1. CASE m.final
      BY <1>1, <3>1 DEF SR!After, Recorders
    <3>2. CASE ~m.final
      BY <1>1, <3>2 DEF SR!After, Recorders
    <3> QED
      BY <3>1, <3>2
  <2>4. /\ f \in Recorders /\ f.on = (m.on /\ ~m.final) /\ f.pc = "idle"
        /\ f.ended = m.ended /\ f.done = m.done /\ f.final = m.final
    BY <2>3 DEF Recorders
  <2>5. Becomes(r, f)
    BY <2>2
  <2> HIDE DEF f
  <2> QED
    BY <1>2, <2>1, <2>4, <2>5 DEF Moved
<1>13. CASE SR!Die(r)
  <2> DEFINE f == [m EXCEPT !.on = FALSE, !.ended = "killed", !.pc = "idle"]
  <2>1. Becomes(r, f) /\ m.on /\ m.ended = "no"
    BY <1>13 DEF SR!Die, SR!Set, Becomes
  <2>2. f \in Recorders /\ ~f.on /\ f.ended = "killed" /\ f.pc = "idle" /\ f.final = m.final
    BY <1>1 DEF Recorders
  <2> HIDE DEF f
  <2> QED
    BY <1>2, <2>1, <2>2 DEF Moved
<1> QED
  BY <1>5, <1>6, <1>7, <1>8, <1>9, <1>10, <1>12, <1>13

\* A row belongs to one run, whichever of its writes lands, and when.
RowsOwned ==
  \A r \in AdhocRuns : rec[r].id # 0 => rec[r].id \in SR!Ids /\ srRows[rec[r].id].run = r

LateKnows ==
  \A w \in late : /\ w.id # 0 => w.id \in SR!Ids /\ srRows[w.id].run = w.run
                  /\ w.status # "no" => w.status = rec[w.run].ended /\ w.p = rec[w.run].done

RunsInv == ClosingKnows /\ RowsOwned /\ LateKnows /\ SR!FinalIsFinal

RowsMove ==
  \/ srRows' = srRows
  \/ \E q \in AdhocRuns : srRows' = Append(srRows, SR!NewRow(q))
  \/ \E id \in SR!Ids, p \in Nat, outcome \in Outcomes \cup {"no"} :
       /\ srRows[id].status = "running" /\ srRows' = SR!Written(id, p, outcome)
       /\ outcome # "no" => outcome = rec[srRows[id].run].ended /\ p = rec[srRows[id].run].done

LEMMA RowTyped ==
  ASSUME RunsType
  PROVE  /\ Len(srRows) \in Nat /\ SR!Ids = 1 .. Len(srRows)
         /\ \A id \in SR!Ids : srRows[id] \in RunRows /\ id \in Nat /\ id # 0
         /\ \A q \in AdhocRuns : /\ SR!NewRow(q) \in RunRows /\ SR!NewRow(q).run = q
                                 /\ SR!NewRow(q).status = "running" /\ SR!NewRow(q).beat = srClock
<1>1. \A q \in AdhocRuns : /\ SR!NewRow(q) \in RunRows /\ SR!NewRow(q).run = q
                           /\ SR!NewRow(q).status = "running" /\ SR!NewRow(q).beat = srClock
  BY DEF RunsType, SR!NewRow, RunRows
<1> HIDE DEF RunRows
<1>2. srRows \in Seq(RunRows)
  BY DEF RunsType
<1>3. Len(srRows) \in Nat /\ SR!Ids = 1 .. Len(srRows)
  BY <1>2 DEF SR!Ids
<1> QED
  BY <1>1, <1>2, <1>3

LEMMA RowAdded ==
  ASSUME RunsType, NEW q \in AdhocRuns, srRows' = Append(srRows, SR!NewRow(q))
  PROVE  /\ srRows' \in Seq(RunRows) /\ SR!Ids' = SR!Ids \cup {Len(srRows) + 1}
         /\ srRows'[Len(srRows) + 1] = SR!NewRow(q)
         /\ \A id \in SR!Ids : srRows'[id] = srRows[id]
<1>1. SR!NewRow(q) \in RunRows /\ srRows \in Seq(RunRows)
  BY RowTyped DEF RunsType
<1> HIDE DEF RunRows
<1>2. /\ srRows' \in Seq(RunRows) /\ Len(srRows') = Len(srRows) + 1
      /\ \A id \in 1 .. Len(srRows) : srRows'[id] = srRows[id]
      /\ srRows'[Len(srRows) + 1] = SR!NewRow(q)
  BY <1>1
<1>3. DOMAIN srRows' = 1 .. Len(srRows) + 1 /\ DOMAIN srRows = 1 .. Len(srRows) /\ Len(srRows) \in Nat
  BY <1>1, <1>2
<1> QED
  BY <1>2, <1>3 DEF SR!Ids

LEMMA RowWritten ==
  ASSUME RunsType, NEW id \in SR!Ids, NEW p \in Nat, NEW outcome \in Outcomes \cup {"no"},
         srRows[id].status = "running", srRows' = SR!Written(id, p, outcome)
  PROVE  /\ srRows' \in Seq(RunRows) /\ SR!Ids' = SR!Ids /\ Len(srRows') = Len(srRows)
         /\ srRows'[id].run = srRows[id].run /\ srRows'[id].done = p /\ srRows'[id].beat = srClock
         /\ srRows'[id].status = IF outcome = "no" THEN "running" ELSE outcome
         /\ \A j \in SR!Ids \ {id} : srRows'[j] = srRows[j]
<1> DEFINE closed == IF outcome = "no" THEN "running" ELSE outcome
           row == [srRows[id] EXCEPT !.done = p, !.beat = srClock, !.status = closed]
<1>1. srRows[id] \in RunRows /\ srRows \in Seq(RunRows) /\ srClock \in Nat /\ SR!Ids = 1 .. Len(srRows)
  BY RowTyped DEF RunsType
<1>2. closed \in Outcomes \cup {"running"}
  OBVIOUS
<1>3. srRows' = [srRows EXCEPT ![id] = row]
  BY DEF SR!Written
<1> HIDE DEF closed
<1>4. row \in RunRows /\ row.run = srRows[id].run /\ row.done = p /\ row.beat = srClock /\ row.status = closed
  BY <1>1, <1>2 DEF RunRows
<1> HIDE DEF row
<1>5. srRows' \in Seq(RunRows) /\ Len(srRows') = Len(srRows) /\ DOMAIN srRows' = DOMAIN srRows
  BY <1>1, <1>3, <1>4
<1>6. srRows'[id] = row /\ \A j \in SR!Ids \ {id} : srRows'[j] = srRows[j]
  BY <1>1, <1>3, <1>5
<1> QED
  BY <1>4, <1>5, <1>6 DEF SR!Ids, closed

\* A closed row is never written again.
LEMMA RowsStay ==
  ASSUME RunsType, RowsMove
  PROVE  /\ srRows' \in Seq(RunRows) /\ SR!Ids \subseteq SR!Ids'
         /\ \A id \in SR!Ids : /\ srRows'[id].run = srRows[id].run
                               /\ srRows[id].status # "running" => srRows'[id] = srRows[id]
<1>1. CASE srRows' = srRows
  BY <1>1 DEF RunsType, SR!Ids
<1>2. ASSUME NEW q \in AdhocRuns, srRows' = Append(srRows, SR!NewRow(q))
      PROVE  /\ srRows' \in Seq(RunRows) /\ SR!Ids \subseteq SR!Ids'
             /\ \A id \in SR!Ids : srRows'[id] = srRows[id]
  BY <1>2, RowAdded
<1>3. ASSUME NEW id \in SR!Ids, NEW p \in Nat, NEW outcome \in Outcomes \cup {"no"},
             srRows[id].status = "running", srRows' = SR!Written(id, p, outcome)
      PROVE  /\ srRows' \in Seq(RunRows) /\ SR!Ids \subseteq SR!Ids'
             /\ srRows'[id].run = srRows[id].run
             /\ \A j \in SR!Ids \ {id} : srRows'[j] = srRows[j]
  BY <1>3, RowWritten
<1> QED
  BY <1>1, <1>2, <1>3 DEF RowsMove

\* What a run has ended with stays.
OutcomesStay == \A q \in AdhocRuns : rec[q].ended # "no" => rec'[q].ended = rec[q].ended /\ rec'[q].done = rec[q].done

LEMMA MovedKeeps ==
  ASSUME RunsType, NEW r \in AdhocRuns, Moved(r)
  PROVE  /\ rec' \in [AdhocRuns -> Recorders] /\ OutcomesStay
         /\ ClosingKnows => ClosingKnows'
         /\ \A q \in AdhocRuns \ {r} : rec'[q] = rec[q]
<1>1. PICK f \in Recorders :
         /\ rec' = [rec EXCEPT ![r] = f]
         /\ f.on => f.ended # "killed"
         /\ f.final => f.ended \in Outcomes
         /\ f.final /\ f.pc # "idle" => f.p = f.done
         /\ ~f.on => f.pc = "idle" /\ (f.ended = "no" => f.id = 0)
         /\ rec[r].ended # "no" => f.ended = rec[r].ended /\ f.done = rec[r].done
  BY DEF Moved, Becomes
<1> HIDE DEF Recorders
<1>2. rec' \in [AdhocRuns -> Recorders] /\ rec'[r] = f /\ \A q \in AdhocRuns \ {r} : rec'[q] = rec[q]
  BY <1>1 DEF RunsType
<1>3. OutcomesStay
  BY <1>1, <1>2 DEF OutcomesStay
<1>4. ClosingKnows => ClosingKnows'
  BY <1>1, <1>2 DEF ClosingKnows
<1> QED
  BY <1>2, <1>3, <1>4

\* A closed row holds its run's outcome.
LEMMA ClosedRows ==
  ASSUME RunsType, SR!FinalIsFinal, RowsMove, OutcomesStay
  PROVE  SR!FinalIsFinal'
<1>1. /\ \A id \in SR!Ids : srRows[id] \in RunRows
      /\ \A id \in SR!Ids : srRows[id].status # "running" =>
            /\ srRows[id].status = rec[srRows[id].run].ended /\ srRows[id].done = rec[srRows[id].run].done
            /\ srRows[id].status # "no" /\ srRows[id].run \in AdhocRuns
  BY RowTyped DEF SR!FinalIsFinal, RunRows, Outcomes
<1> SUFFICES ASSUME NEW id \in SR!Ids', srRows'[id].status # "running"
             PROVE  /\ srRows'[id].status = rec'[srRows'[id].run].ended
                    /\ srRows'[id].done = rec'[srRows'[id].run].done
  BY DEF SR!FinalIsFinal
<1>2. ASSUME id \in SR!Ids, srRows'[id] = srRows[id]
      PROVE  /\ srRows'[id].status = rec'[srRows'[id].run].ended
             /\ srRows'[id].done = rec'[srRows'[id].run].done
  BY <1>1, <1>2 DEF OutcomesStay
<1>3. CASE srRows' = srRows
  BY <1>2, <1>3 DEF SR!Ids
<1>4. ASSUME NEW q \in AdhocRuns, srRows' = Append(srRows, SR!NewRow(q))
      PROVE  id \in SR!Ids /\ srRows'[id] = srRows[id]
  BY <1>4, RowAdded, RowTyped
<1>5. ASSUME NEW j \in SR!Ids, NEW p \in Nat, NEW outcome \in Outcomes \cup {"no"},
             srRows[j].status = "running", srRows' = SR!Written(j, p, outcome),
             outcome # "no" => outcome = rec[srRows[j].run].ended /\ p = rec[srRows[j].run].done
      PROVE  /\ srRows'[id].status = rec'[srRows'[id].run].ended
             /\ srRows'[id].done = rec'[srRows'[id].run].done
  <2>1. /\ srRows'[j].run = srRows[j].run /\ srRows'[j].done = p /\ srRows[j].run \in AdhocRuns
        /\ srRows'[j].status = IF outcome = "no" THEN "running" ELSE outcome
        /\ SR!Ids' = SR!Ids /\ \A i \in SR!Ids \ {j} : srRows'[i] = srRows[i]
    BY <1>1, <1>5, RowWritten DEF RunRows
  <2>2. CASE id = j
    BY <1>5, <2>1, <2>2 DEF OutcomesStay
  <2> QED
    BY <1>2, <2>1, <2>2
<1> QED
  BY <1>2, <1>3, <1>4, <1>5 DEF RowsMove

\* The operations of one run.
Operates(r) ==
  \/ SR!Start(r) \/ SR!Update(r) \/ SR!Flush(r) \/ SR!Finish(r) \/ SR!Close(r) \/ SR!Inserted(r)
  \/ SR!Recorded(r) \/ SR!Fails(r) \/ SR!Die(r)

LEMMA RunSteps ==
  ASSUME RunsType, RunsInv, NEW r \in AdhocRuns, Operates(r)
  PROVE  /\ Moved(r) /\ RowsMove /\ UNCHANGED <<srClock, srReader>>
         /\ \/ rec'[r].id = rec[r].id
            \/ rec'[r].id = Len(srRows) + 1 /\ srRows' = Append(srRows, SR!NewRow(r))
         /\ \A w \in late' \ late : /\ w.run = r /\ w.id \in {0, rec[r].id} /\ w.p \in Nat
                                    /\ w.status \in Outcomes \cup {"no"}
                                    /\ w \in [run : AdhocRuns, id : Nat, p : Nat, status : Outcomes \cup {"no"}]
                                    /\ w.status # "no" => w.status = rec[r].ended /\ w.p = rec[r].done
<1>1. Moved(r)
  BY RecorderSteps DEF Operates, RunsInv
<1>2. rec[r] \in Recorders /\ rec \in [AdhocRuns -> Recorders]
  BY DEF RunsType
<1>3. UNCHANGED <<srClock, srReader>>
  BY DEF Operates, SR!Start, SR!Update, SR!Flush, SR!Finish, SR!Close, SR!Inserted, SR!Recorded, SR!Fails, SR!Die
<1>4. /\ SR!Status(r) \in Outcomes \cup {"no"}
      /\ rec[r].pc # "idle" /\ SR!Status(r) # "no" => SR!Status(r) = rec[r].ended /\ rec[r].p = rec[r].done
  BY DEF SR!Status, RunsInv, ClosingKnows
<1>5. RowsMove
  <2>1. CASE SR!Inserted(r)
    BY <2>1 DEF SR!Inserted, RowsMove
  <2>2. CASE SR!Recorded(r)
    <3>1. CASE UNCHANGED srRows
      BY <3>1 DEF RowsMove
    <3>2. CASE SR!OpenRow(rec[r].id) /\ srRows' = SR!Written(rec[r].id, rec[r].p, SR!Status(r))
      <4>1. rec[r].id \in SR!Ids /\ srRows[rec[r].id].status = "running" /\ rec[r].pc = "write"
        BY <2>2, <3>2 DEF SR!OpenRow, SR!Recorded
      <4>2. srRows[rec[r].id].run = r
        BY <4>1, RowTyped DEF RunsInv, RowsOwned
      <4>3. rec[r].p \in Nat
        BY <1>2 DEF Recorders
      <4> QED
        BY <1>4, <3>2, <4>1, <4>2, <4>3 DEF RowsMove
    <3> QED
      BY <2>2, <3>1, <3>2 DEF SR!Recorded
  <2> QED
    BY <2>1, <2>2 DEF Operates, SR!Start, SR!Update, SR!Flush, SR!Finish, SR!Close, SR!Fails, SR!Die, RowsMove
<1>6. \A w \in late' \ late : w = [run |-> r, id |-> IF rec[r].pc = "write" THEN rec[r].id ELSE 0,
                                   p |-> rec[r].p, status |-> SR!Status(r)] /\ rec[r].pc # "idle"
  BY DEF Operates, SR!Start, SR!Update, SR!Flush, SR!Finish, SR!Close, SR!Inserted, SR!Recorded, SR!Fails, SR!Die
<1>7. ASSUME NEW w \in late' \ late
      PROVE  /\ w.run = r /\ w.id \in {0, rec[r].id} /\ w.p \in Nat
             /\ w.status \in Outcomes \cup {"no"}
             /\ w \in [run : AdhocRuns, id : Nat, p : Nat, status : Outcomes \cup {"no"}]
             /\ w.status # "no" => w.status = rec[r].ended /\ w.p = rec[r].done
  <2> DEFINE id == IF rec[r].pc = "write" THEN rec[r].id ELSE 0
  <2>1. id \in {0, rec[r].id} /\ id \in Nat /\ rec[r].p \in Nat
    BY <1>2 DEF Recorders
  <2>2. w = [run |-> r, id |-> id, p |-> rec[r].p, status |-> SR!Status(r)] /\ rec[r].pc # "idle"
    BY <1>6, <1>7
  <2> HIDE DEF id
  <2> QED
    BY <1>4, <2>1, <2>2
<1>8. \/ rec'[r].id = rec[r].id
      \/ rec'[r].id = Len(srRows) + 1 /\ srRows' = Append(srRows, SR!NewRow(r))
  <2> USE <1>2 DEF SR!Set, Recorders
  <2>1. CASE SR!Start(r)
    BY <2>1 DEF SR!Start
  <2>2. CASE SR!Update(r)
    BY <2>2 DEF SR!Update
  <2>3. CASE SR!Flush(r)
    BY <2>3 DEF SR!Flush
  <2>4. CASE SR!Finish(r)
    BY <2>4 DEF SR!Finish
  <2>5. CASE SR!Close(r)
    BY <2>5 DEF SR!Close
  <2>6. CASE SR!Inserted(r)
    BY <2>6 DEF SR!Inserted
  <2>7. CASE SR!Recorded(r) \/ SR!Fails(r)
    <3>1. SR!After(r).id = rec[r].id /\ SR!After(r) \in Recorders
      <4>1. CASE rec[r].final
        BY <4>1 DEF SR!After
      <4>2. CASE ~rec[r].final
        BY <4>2 DEF SR!After
      <4> QED
        BY <4>1, <4>2
    <3>2. PICK n, gone : Becomes(r, [SR!After(r) EXCEPT !.missed = n])
                         \/ Becomes(r, [SR!After(r) EXCEPT !.abandoned = gone])
      BY <2>7 DEF SR!Recorded, SR!Fails, Becomes
    <3>3. rec'[r].id = SR!After(r).id
      BY <3>1, <3>2 DEF Becomes
    <3> QED
      BY <3>1, <3>3
  <2>8. CASE SR!Die(r)
    BY <2>8 DEF SR!Die
  <2> QED
    BY <2>1, <2>2, <2>3, <2>4, <2>5, <2>6, <2>7, <2>8 DEF Operates
<1> QED
  BY <1>1, <1>3, <1>5, <1>7, <1>8

LEMMA LandSteps ==
  ASSUME RunsType, RunsInv, NEW w \in late, SR!Land(w) \/ SR!Lose(w)
  PROVE  RowsMove /\ UNCHANGED <<rec, srClock, srReader>> /\ late' = late \ {w}
<1>1. UNCHANGED <<rec, srClock, srReader>> /\ late' = late \ {w}
  BY DEF SR!Land, SR!Lose
<1>2. w.run \in AdhocRuns /\ w.id \in Nat /\ w.p \in Nat /\ w.status \in Outcomes \cup {"no"}
  BY DEF RunsType
<1>3. /\ w.id # 0 => w.id \in SR!Ids /\ srRows[w.id].run = w.run
      /\ w.status # "no" => w.status = rec[w.run].ended /\ w.p = rec[w.run].done
  BY DEF RunsInv, LateKnows
<1>4. CASE SR!Land(w)
  <2>1. \/ srRows' = Append(srRows, SR!NewRow(w.run))
        \/ w.id # 0 /\ SR!OpenRow(w.id) /\ srRows' = SR!Written(w.id, w.p, w.status)
        \/ srRows' = srRows
    BY <1>4 DEF SR!Land
  <2> QED
    BY <1>1, <1>2, <1>3, <2>1 DEF RowsMove, SR!OpenRow
<1>5. CASE SR!Lose(w)
  BY <1>1, <1>5 DEF SR!Lose, RowsMove
<1> QED
  BY <1>1, <1>4, <1>5

\* Every step of the rows, whoever takes it.
LEMMA RunsSteps ==
  ASSUME RunsType, RunsInv, [SR!Next]_(SR!vars)
  PROVE  /\ RowsMove /\ OutcomesStay
         /\ rec' \in [AdhocRuns -> Recorders]
         /\ srRows' \in Seq(RunRows)
         /\ late' \in SUBSET [run : AdhocRuns, id : Nat, p : Nat, status : Outcomes \cup {"no"}]
         /\ srClock' \in Nat
         /\ ClosingKnows' /\ RowsOwned' /\ LateKnows'
<1>1. /\ ClosingKnows /\ RowsOwned /\ LateKnows /\ rec \in [AdhocRuns -> Recorders] /\ srRows \in Seq(RunRows)
      /\ late \in SUBSET [run : AdhocRuns, id : Nat, p : Nat, status : Outcomes \cup {"no"}] /\ srClock \in Nat
  BY DEF RunsInv, RunsType
<1>2. ASSUME NEW r \in AdhocRuns, Operates(r)
      PROVE  /\ RowsMove /\ OutcomesStay
             /\ rec' \in [AdhocRuns -> Recorders]
             /\ srRows' \in Seq(RunRows)
             /\ late' \in SUBSET [run : AdhocRuns, id : Nat, p : Nat, status : Outcomes \cup {"no"}]
             /\ srClock' \in Nat
             /\ ClosingKnows' /\ RowsOwned' /\ LateKnows'
  <2>1. /\ Moved(r) /\ RowsMove /\ srClock' = srClock
        /\ \/ rec'[r].id = rec[r].id
           \/ rec'[r].id = Len(srRows) + 1 /\ srRows' = Append(srRows, SR!NewRow(r))
        /\ \A w \in late' \ late : /\ w.run = r /\ w.id \in {0, rec[r].id} /\ w.p \in Nat
                                   /\ w.status \in Outcomes \cup {"no"}
                                   /\ w \in [run : AdhocRuns, id : Nat, p : Nat, status : Outcomes \cup {"no"}]
                                   /\ w.status # "no" => w.status = rec[r].ended /\ w.p = rec[r].done
    BY <1>2, RunSteps
  <2>2. /\ rec' \in [AdhocRuns -> Recorders] /\ OutcomesStay /\ ClosingKnows'
        /\ \A q \in AdhocRuns \ {r} : rec'[q] = rec[q]
    BY <1>1, <2>1, MovedKeeps
  <2>3. /\ srRows' \in Seq(RunRows) /\ SR!Ids \subseteq SR!Ids'
        /\ \A id \in SR!Ids : srRows'[id].run = srRows[id].run
    BY <2>1, RowsStay
  <2>4. RowsOwned'
    <3>1. CASE rec'[r].id = rec[r].id
      BY <1>1, <2>2, <2>3, <3>1 DEF RowsOwned
    <3>2. CASE rec'[r].id = Len(srRows) + 1 /\ srRows' = Append(srRows, SR!NewRow(r))
      <4>1. Len(srRows) + 1 \in SR!Ids' /\ srRows'[Len(srRows) + 1].run = r
        BY <3>2, RowAdded, RowTyped
      <4> QED
        <5> SUFFICES ASSUME NEW q \in AdhocRuns, rec'[q].id # 0
                     PROVE  rec'[q].id \in SR!Ids' /\ srRows'[rec'[q].id].run = q
          BY DEF RowsOwned
        <5>1. CASE q = r
          BY <3>2, <4>1, <5>1
        <5>2. CASE q # r
          BY <1>1, <2>2, <2>3, <5>2 DEF RowsOwned
        <5> QED
          BY <5>1, <5>2
    <3> QED
      BY <2>1, <3>1, <3>2
  <2>5. ASSUME NEW w \in late'
        PROVE  /\ w \in [run : AdhocRuns, id : Nat, p : Nat, status : Outcomes \cup {"no"}]
               /\ w.id # 0 => w.id \in SR!Ids /\ srRows[w.id].run = w.run
               /\ w.status # "no" => w.status = rec[w.run].ended /\ w.p = rec[w.run].done
    <3>1. CASE w \in late
      BY <1>1, <3>1 DEF LateKnows
    <3>2. CASE w \in late' \ late
      BY <1>1, <2>1, <3>2 DEF RowsOwned
    <3> QED
      BY <3>1, <3>2
  <2>6. LateKnows'
    BY <2>2, <2>3, <2>5 DEF LateKnows, OutcomesStay
  <2> QED
    BY <1>1, <2>1, <2>2, <2>3, <2>4, <2>5, <2>6
<1>3. ASSUME NEW w \in late, SR!Land(w) \/ SR!Lose(w)
      PROVE  /\ RowsMove /\ OutcomesStay
             /\ rec' \in [AdhocRuns -> Recorders]
             /\ srRows' \in Seq(RunRows)
             /\ late' \in SUBSET [run : AdhocRuns, id : Nat, p : Nat, status : Outcomes \cup {"no"}]
             /\ srClock' \in Nat
             /\ ClosingKnows' /\ RowsOwned' /\ LateKnows'
  <2>1. RowsMove /\ UNCHANGED <<rec, srClock>> /\ late' = late \ {w}
    BY <1>3, LandSteps
  <2>2. /\ srRows' \in Seq(RunRows) /\ SR!Ids \subseteq SR!Ids'
        /\ \A id \in SR!Ids : srRows'[id].run = srRows[id].run
    BY <2>1, RowsStay
  <2> QED
    BY <1>1, <2>1, <2>2 DEF OutcomesStay, ClosingKnows, RowsOwned, LateKnows
<1>4. CASE SR!Tick \/ SR!Read \/ SR!Shown \/ UNCHANGED SR!vars
  <2>1. UNCHANGED <<rec, srRows, late>> /\ srClock' \in Nat
    BY <1>1, <1>4 DEF SR!Tick, SR!Read, SR!Shown, SR!vars
  <2> QED
    BY <1>1, <2>1 DEF RowsMove, OutcomesStay, ClosingKnows, RowsOwned, LateKnows, SR!Ids
<1> QED
  BY <1>2, <1>3, <1>4 DEF SR!Next, Operates

LEMMA RunsTyped ==
  /\ SR!Init => RunsType
  /\ RunsType /\ RunsInv /\ [SR!Next]_(SR!vars) => RunsType'
<1>1. SR!Init => RunsType
  <2>1. SR!Fresh \in Recorders
    BY DEF SR!Fresh, Recorders
  <2> QED
    BY <2>1 DEF SR!Init, SR!NoRead, RunsType
<1> SUFFICES ASSUME RunsType, RunsInv, [SR!Next]_(SR!vars) PROVE RunsType'
  BY <1>1
<1>2. srReader' \in [pc : {"idle", "half", "done"}, old : SUBSET Nat, active : SUBSET Nat,
                     recent : SUBSET Nat, link : {srReader'.link}]
  <2>1. CASE SR!Read
    <3> DEFINE old == IF srReader.pc = "idle" THEN SR!Known ELSE srReader.old
               active == IF SR!Query(srReader.pc) = "active" THEN SR!Listed ELSE srReader.active
               link == IF SR!Query(srReader.pc) = "active" THEN SR!Link(SR!Listed) ELSE srReader.link
               recent == IF SR!Query(srReader.pc) = "recent" THEN SR!Ids \ SR!Listed ELSE srReader.recent
               pc == IF srReader.pc = "idle" THEN "half" ELSE "done"
    <3>1. srReader' = [srReader EXCEPT !.pc = pc, !.old = old, !.active = active, !.link = link, !.recent = recent]
      BY <2>1 DEF SR!Read
    <3>2. SR!Listed \subseteq Nat /\ SR!Known \subseteq Nat /\ SR!Ids \subseteq Nat
      BY RowTyped DEF SR!Listed, SR!Known
    <3>3. old \subseteq Nat /\ active \subseteq Nat /\ recent \subseteq Nat /\ pc \in {"half", "done"}
      BY <3>2 DEF RunsType
    <3> HIDE DEF old, active, link, recent, pc
    <3> QED
      BY <3>1, <3>3 DEF RunsType
  <2>2. CASE SR!Shown
    BY <2>2 DEF SR!Shown, SR!NoRead
  <2>3. CASE UNCHANGED srReader
    BY <2>3 DEF RunsType
  <2>4. SR!Read \/ SR!Shown \/ UNCHANGED srReader
    BY DEF SR!Next, SR!vars, SR!Start, SR!Update, SR!Flush, SR!Finish, SR!Close, SR!Inserted, SR!Recorded,
           SR!Fails, SR!Die, SR!Land, SR!Lose, SR!Tick
  <2> QED
    BY <2>1, <2>2, <2>3, <2>4
<1> QED
  BY <1>2, RunsSteps DEF RunsType

LEMMA RunsKept ==
  /\ SR!Init => RunsInv
  /\ RunsType /\ RunsInv /\ [SR!Next]_(SR!vars) => RunsInv'
<1>1. ASSUME SR!Init PROVE RunsInv
  <2>1. \A r \in AdhocRuns : /\ ~rec[r].on /\ ~rec[r].final /\ rec[r].id = 0 /\ rec[r].pc = "idle"
                             /\ rec[r].ended = "no"
    BY <1>1 DEF SR!Init, SR!Fresh
  <2>2. SR!Ids = {} /\ late = {}
    BY <1>1 DEF SR!Init, SR!Ids
  <2> QED
    BY <2>1, <2>2 DEF RunsInv, ClosingKnows, RowsOwned, LateKnows, SR!FinalIsFinal
<1>2. RunsType /\ RunsInv /\ [SR!Next]_(SR!vars) => RunsInv'
  BY RunsSteps, ClosedRows DEF RunsInv
<1> QED
  BY <1>1, <1>2

\* FinalIsFinal: a row that was closed keeps the outcome and the count its run
\* ended with, whatever heartbeat was under way, or timed out, and lands later
\* (stepruns.go).
THEOREM OutcomesStand == SR!Spec => []SR!FinalIsFinal
<1>1. RunsInv => SR!FinalIsFinal
  BY DEF RunsInv
<1> QED
  BY <1>1, RunsTyped, RunsKept, PTL DEF SR!Spec

\* What a request that has read the active runs may still miss is closed.
ReadSoFar ==
  /\ srReader.pc = "half" => \A id \in srReader.old \ srReader.active : id \in SR!Ids /\ srRows[id].status # "running"
  /\ SR!NoneMissed

LEMMA ReadKept ==
  /\ SR!Init => ReadSoFar
  /\ RunsType /\ RunsInv /\ ReadSoFar /\ [SR!Next]_(SR!vars) => ReadSoFar'
<1>1. SR!Init => ReadSoFar
  BY DEF SR!Init, SR!NoRead, ReadSoFar, SR!NoneMissed
<1> SUFFICES ASSUME RunsType, RunsInv, ReadSoFar, [SR!Next]_(SR!vars) PROVE ReadSoFar'
  BY <1>1
<1>2. CASE SR!Read
  <2> DEFINE old == IF srReader.pc = "idle" THEN SR!Known ELSE srReader.old
             active == IF SR!Query(srReader.pc) = "active" THEN SR!Listed ELSE srReader.active
             link == IF SR!Query(srReader.pc) = "active" THEN SR!Link(SR!Listed) ELSE srReader.link
             recent == IF SR!Query(srReader.pc) = "recent" THEN SR!Ids \ SR!Listed ELSE srReader.recent
             pc == IF srReader.pc = "idle" THEN "half" ELSE "done"
  <2>1. /\ srReader' = [srReader EXCEPT !.pc = pc, !.old = old, !.active = active, !.link = link, !.recent = recent]
        /\ srReader.pc \in {"idle", "half"} /\ srRows' = srRows
    BY <1>2 DEF SR!Read
  <2>2. CASE srReader.pc = "idle"
    <3>1. pc = "half" /\ old = SR!Known /\ active = SR!Listed
      BY <2>2 DEF SR!Query
    <3> HIDE DEF old, active, link, recent, pc
    <3>2. srReader'.pc = "half" /\ srReader'.old = SR!Known /\ srReader'.active = SR!Listed
      BY <2>1, <3>1 DEF RunsType
    <3>3. \A id \in SR!Known \ SR!Listed : id \in SR!Ids /\ srRows[id].status # "running"
      BY DEF SR!Known, SR!Listed
    <3> QED
      BY <2>1, <3>2, <3>3 DEF ReadSoFar, SR!NoneMissed, SR!Ids
  <2>3. CASE srReader.pc = "half"
    <3>1. pc = "done" /\ old = srReader.old /\ active = srReader.active /\ recent = SR!Ids \ SR!Listed
      BY <2>3 DEF SR!Query
    <3> HIDE DEF old, active, link, recent, pc
    <3>2. /\ srReader'.pc = "done" /\ srReader'.old = srReader.old /\ srReader'.active = srReader.active
          /\ srReader'.recent = SR!Ids \ SR!Listed
      BY <2>1, <3>1 DEF RunsType
    <3>3. \A id \in srReader.old \ srReader.active : id \in SR!Ids \ SR!Listed
      BY <2>3 DEF ReadSoFar, SR!Listed, SR!Fresher
    <3> QED
      BY <3>2, <3>3 DEF ReadSoFar, SR!NoneMissed
  <2> QED
    BY <2>1, <2>2, <2>3
<1>3. CASE SR!Shown
  BY <1>3 DEF SR!Shown, SR!NoRead, ReadSoFar, SR!NoneMissed
<1>4. CASE UNCHANGED srReader
  <2>1. SR!Ids \subseteq SR!Ids' /\ \A id \in SR!Ids : srRows[id].status # "running" => srRows'[id] = srRows[id]
    BY RunsSteps, RowsStay
  <2> QED
    BY <1>4, <2>1 DEF ReadSoFar, SR!NoneMissed
<1>5. SR!Read \/ SR!Shown \/ UNCHANGED srReader
  BY DEF SR!Next, SR!vars, SR!Start, SR!Update, SR!Flush, SR!Finish, SR!Close, SR!Inserted, SR!Recorded,
         SR!Fails, SR!Die, SR!Land, SR!Lose, SR!Tick
<1> QED
  BY <1>2, <1>3, <1>4, <1>5

\* NoneMissed: a run that was there when a request began is in one of the two
\* lists it reads one after the other, though it ended in between; one that was
\* silent for longer than AbandonAfter excepted (stepruns.go).
THEOREM RunsAreListed == SR!Spec => []SR!NoneMissed
<1>1. ReadSoFar => SR!NoneMissed
  BY DEF ReadSoFar
<1> QED
  BY <1>1, RunsTyped, RunsKept, ReadKept, PTL DEF SR!Spec

\* A heartbeat that is due, or under way, is not yet missed.
Slack(r) == IF rec[r].pc # "idle" \/ rec[r].last < srClock THEN 1 ELSE 0

Silence(r) ==
  rec[r].on /\ ~rec[r].abandoned /\ rec[r].id # 0 /\ srRows[rec[r].id].status = "running"
    => srClock - srRows[rec[r].id].beat <= rec[r].missed + Slack(r)

SilenceCounted == \A r \in AdhocRuns : rec[r].last <= srClock /\ Silence(r)

LEMMA BeatsMove ==
  ASSUME RunsType, RowsMove
  PROVE  \A id \in SR!Ids : /\ srRows'[id].beat \in {srRows[id].beat, srClock} /\ srRows'[id].beat \in Nat
                            /\ srRows'[id].status = "running" => srRows[id].status = "running"
<1>1. srClock \in Nat /\ \A id \in SR!Ids : srRows[id].beat \in Nat
  BY RowTyped DEF RunsType, RunRows
<1>2. CASE srRows' = srRows
  BY <1>1, <1>2
<1>3. ASSUME NEW q \in AdhocRuns, srRows' = Append(srRows, SR!NewRow(q))
      PROVE  \A id \in SR!Ids : srRows'[id] = srRows[id]
  BY <1>3, RowAdded
<1>4. ASSUME NEW id \in SR!Ids, NEW p \in Nat, NEW outcome \in Outcomes \cup {"no"},
             srRows[id].status = "running", srRows' = SR!Written(id, p, outcome)
      PROVE  /\ srRows'[id].beat = srClock /\ \A j \in SR!Ids \ {id} : srRows'[j] = srRows[j]
  BY <1>4, RowWritten
<1> QED
  BY <1>1, <1>2, <1>3, <1>4 DEF RowsMove

\* A recorder that goes on misses no more heartbeats than it counts.
LEMMA Counted ==
  ASSUME RunsType, RunsInv, SilenceCounted, NEW r \in AdhocRuns, Operates(r)
  PROVE  /\ rec'[r].last <= srClock /\ rec'[r].missed \in Nat
         /\ \/ ~rec'[r].on \/ rec'[r].abandoned \/ rec'[r].id = 0
            \/ /\ rec'[r].id = rec[r].id /\ rec[r].on /\ ~rec[r].abandoned
               /\ rec[r].missed + Slack(r) <= rec'[r].missed + Slack(r)'
            \/ rec'[r].id \in SR!Ids' /\ srRows'[rec'[r].id].beat = srClock
<1> DEFINE m == rec[r]
           f == rec'[r]
<1>1. /\ m \in Recorders /\ rec \in [AdhocRuns -> Recorders] /\ srClock \in Nat /\ srClock' = srClock
      /\ rec' \in [AdhocRuns -> Recorders] /\ f \in Recorders /\ m.last <= srClock
      /\ ~m.on => m.pc = "idle" /\ (m.ended = "no" => m.id = 0)
  BY RunSteps, MovedKeeps DEF RunsType, SilenceCounted, RunsInv, ClosingKnows
<1>2. f.missed \in Nat /\ m.missed \in Nat /\ f.last \in Nat /\ m.last \in Nat
  BY <1>1 DEF Recorders
<1>3. ASSUME f.id = m.id, f.on => m.on \/ m.id = 0, f.abandoned = m.abandoned, f.last \in {m.last, srClock},
             \/ f.missed = m.missed /\ (f.pc # "idle" \/ (m.pc = "idle" /\ f.last = m.last))
             \/ f.missed = m.missed + 1
      PROVE  /\ f.last <= srClock
             /\ \/ ~f.on \/ f.abandoned \/ f.id = 0
                \/ /\ f.id = m.id /\ m.on /\ ~m.abandoned
                   /\ m.missed + Slack(r) <= f.missed + Slack(r)'
  <2>1. m.missed + Slack(r) <= f.missed + Slack(r)'
    <3> HIDE DEF m, f
    <3>1. /\ Slack(r) = IF m.pc # "idle" \/ m.last < srClock THEN 1 ELSE 0
          /\ Slack(r)' = IF f.pc # "idle" \/ f.last < srClock THEN 1 ELSE 0
      BY <1>1 DEF Slack, m, f
    <3> QED
      BY <1>2, <1>3, <3>1
  <2> QED
    BY <1>1, <1>3, <2>1
<1> USE <1>1 DEF SR!Set, Recorders
<1>4. CASE SR!Start(r)
  <2>1. f.id = m.id /\ m.id = 0 /\ f.last = srClock
    BY <1>4 DEF SR!Start
  <2> QED
    BY <1>2, <2>1
<1>5. CASE SR!Update(r)
  BY <1>2, <1>3, <1>5 DEF SR!Update
<1>6. CASE SR!Flush(r)
  BY <1>2, <1>3, <1>6 DEF SR!Flush
<1>7. CASE SR!Finish(r)
  BY <1>2, <1>3, <1>7 DEF SR!Finish
<1>8. CASE SR!Close(r)
  BY <1>2, <1>3, <1>8 DEF SR!Close
<1>9. CASE SR!Inserted(r)
  <2>1. f.id = Len(srRows) + 1 /\ f.last = m.last /\ srRows' = Append(srRows, SR!NewRow(r))
    BY <1>9 DEF SR!Inserted
  <2>2. f.id \in SR!Ids' /\ srRows'[f.id].beat = srClock
    BY <2>1, RowAdded, RowTyped
  <2> QED
    BY <1>2, <2>1, <2>2
<1>10. CASE SR!Recorded(r) \/ SR!Fails(r)
  <2>1. /\ SR!After(r).id = m.id /\ SR!After(r) \in Recorders /\ SR!After(r).last = m.last
        /\ SR!After(r).missed = m.missed /\ SR!After(r).abandoned = m.abandoned
        /\ SR!After(r).on => m.on
    <3>1. CASE m.final
      BY <3>1 DEF SR!After
    <3>2. CASE ~m.final
      BY <3>2 DEF SR!After
    <3> QED
      BY <3>1, <3>2
  <2>2. CASE Becomes(r, [SR!After(r) EXCEPT !.abandoned = TRUE])
    BY <1>2, <2>1, <2>2 DEF Becomes
  <2>3. CASE SR!Fails(r)
    <3>1. f.id = m.id /\ f.missed = m.missed + 1 /\ f.last = m.last /\ f.abandoned = m.abandoned /\ (f.on => m.on)
      BY <2>1, <2>3 DEF SR!Fails
    <3> QED
      BY <1>2, <1>3, <3>1
  <2>4. CASE /\ SR!OpenRow(m.id) /\ srRows' = SR!Written(m.id, m.p, SR!Status(r))
             /\ Becomes(r, [SR!After(r) EXCEPT !.missed = 0])
    <3>1. f.id = m.id /\ f.last = m.last
      BY <2>1, <2>4 DEF Becomes
    <3>2. SR!Status(r) \in Outcomes \cup {"no"}
      BY DEF SR!Status, RunsInv, ClosingKnows
    <3>3. srRows'[m.id].beat = srClock /\ SR!Ids' = SR!Ids /\ m.id \in SR!Ids
      BY <2>4, <3>2, RowWritten DEF SR!OpenRow
    <3> QED
      BY <1>2, <3>1, <3>3
  <2> QED
    BY <1>10, <2>2, <2>3, <2>4 DEF SR!Recorded, Becomes
<1>11. CASE SR!Die(r)
  BY <1>2, <1>11 DEF SR!Die
<1> QED
  BY <1>4, <1>5, <1>6, <1>7, <1>8, <1>9, <1>10, <1>11 DEF Operates

LEMMA SilenceKept ==
  /\ SR!Init => SilenceCounted
  /\ RunsType /\ RunsInv /\ SilenceCounted /\ [SR!Next]_(SR!vars) => SilenceCounted'
<1>1. SR!Init => SilenceCounted
  BY DEF SR!Init, SR!Fresh, SilenceCounted, Silence
<1> SUFFICES ASSUME RunsType, RunsInv, SilenceCounted, [SR!Next]_(SR!vars) PROVE SilenceCounted'
  BY <1>1
<1>2. /\ RowsMove /\ rec' \in [AdhocRuns -> Recorders] /\ RunsType /\ srClock \in Nat
      /\ \A r \in AdhocRuns : /\ rec[r] \in Recorders /\ rec[r].last \in Nat /\ rec[r].missed \in Nat
                              /\ rec[r].id # 0 => rec[r].id \in SR!Ids
                              /\ rec[r].last <= srClock /\ Silence(r)
  BY RunsSteps DEF RunsType, RunsInv, RowsOwned, SilenceCounted, Recorders
<1>3. \A id \in SR!Ids : /\ srRows'[id].beat \in {srRows[id].beat, srClock}
                         /\ srRows'[id].beat \in Nat /\ srRows[id].beat \in Nat
                         /\ srRows'[id].status = "running" => srRows[id].status = "running"
  BY <1>2, BeatsMove, RowTyped DEF RunRows
\* A recorder that does nothing while the clock stands.
<1>4. ASSUME NEW r \in AdhocRuns, rec'[r] = rec[r], srClock' = srClock
      PROVE  rec'[r].last <= srClock' /\ Silence(r)'
  <2>1. Slack(r)' = Slack(r) /\ Slack(r) \in {0, 1}
    BY <1>4 DEF Slack
  <2> QED
    BY <1>2, <1>3, <1>4, <2>1 DEF Silence
<1>5. ASSUME NEW r \in AdhocRuns, Operates(r) PROVE SilenceCounted'
  <2>1. /\ srClock' = srClock /\ \A q \in AdhocRuns \ {r} : rec'[q] = rec[q]
    BY <1>5, RunSteps, MovedKeeps
  <2>2. /\ rec'[r].last <= srClock /\ rec'[r].missed \in Nat
        /\ \/ ~rec'[r].on \/ rec'[r].abandoned \/ rec'[r].id = 0
           \/ /\ rec'[r].id = rec[r].id /\ rec[r].on /\ ~rec[r].abandoned
              /\ rec[r].missed + Slack(r) <= rec'[r].missed + Slack(r)'
           \/ rec'[r].id \in SR!Ids' /\ srRows'[rec'[r].id].beat = srClock
    BY <1>5, Counted
  <2>3. Slack(r) \in {0, 1} /\ Slack(r)' \in {0, 1}
    BY DEF Slack
  <2>4. Silence(r)'
    <3>1. CASE ~rec'[r].on \/ rec'[r].abandoned \/ rec'[r].id = 0
      BY <3>1 DEF Silence
    <3>2. CASE /\ rec'[r].id = rec[r].id /\ rec[r].on /\ ~rec[r].abandoned
               /\ rec[r].missed + Slack(r) <= rec'[r].missed + Slack(r)'
      BY <1>2, <1>3, <2>1, <2>2, <2>3, <3>2 DEF Silence
    <3>3. CASE rec'[r].id \in SR!Ids' /\ srRows'[rec'[r].id].beat = srClock
      BY <1>2, <2>1, <2>2, <2>3, <3>3 DEF Silence
    <3> QED
      BY <2>2, <3>1, <3>2, <3>3
  <2> QED
    BY <1>4, <2>1, <2>2, <2>4 DEF SilenceCounted
<1>6. ASSUME NEW w \in late, SR!Land(w) \/ SR!Lose(w) PROVE SilenceCounted'
  <2>1. UNCHANGED <<rec, srClock>>
    BY <1>6, LandSteps
  <2> QED
    BY <1>4, <2>1 DEF SilenceCounted
<1>7. CASE SR!Tick
  <2>1. UNCHANGED <<rec, srRows>> /\ srClock' = srClock + 1
    BY <1>7 DEF SR!Tick
  <2>2. \A r \in AdhocRuns : rec[r].on => rec[r].pc = "idle" /\ (rec[r].abandoned \/ rec[r].last = srClock)
    BY <1>2, <1>7 DEF SR!Tick, SR!Due
  <2>3. \A r \in AdhocRuns : rec[r].last < srClock'
    BY <1>2, <2>1
  <2> SUFFICES ASSUME NEW r \in AdhocRuns PROVE rec'[r].last <= srClock' /\ Silence(r)'
    BY DEF SilenceCounted
  <2>4. rec[r].on /\ ~rec[r].abandoned => Slack(r) = 0
    BY <1>2, <2>2 DEF Slack
  <2>5. Slack(r)' = 1
    BY <2>1, <2>3 DEF Slack
  <2> QED
    BY <1>2, <1>3, <2>1, <2>3, <2>4, <2>5 DEF Silence
<1>8. CASE SR!Read \/ SR!Shown \/ UNCHANGED SR!vars
  <2>1. UNCHANGED <<rec, srClock>>
    BY <1>8 DEF SR!Read, SR!Shown, SR!vars
  <2> QED
    BY <1>4, <2>1 DEF SilenceCounted
<1> QED
  BY <1>5, <1>6, <1>7, <1>8 DEF SR!Next, Operates

\* StaleHasMissed: a run read as stale, that its process still records, has
\* missed as many heartbeats in a row as the verdict stands for (stepruns.go).
THEOREM StaleRunsMissed ==
  ASSUME StaleAfter \in Nat
  PROVE  SR!Spec => []SR!StaleHasMissed
<1>1. RunsType /\ RunsInv /\ SilenceCounted => SR!StaleHasMissed
  <2> SUFFICES ASSUME RunsType, RunsInv, SilenceCounted, NEW r \in AdhocRuns, rec[r].on, ~rec[r].abandoned,
                      rec[r].id # 0, ~SR!Fresher(rec[r].id, StaleAfter), srRows[rec[r].id].status = "running"
               PROVE  rec[r].missed >= StaleAfter
    BY DEF SR!StaleHasMissed
  <2>1. rec[r].id \in SR!Ids /\ rec[r] \in Recorders /\ srClock \in Nat
    BY DEF RunsInv, RowsOwned, RunsType
  <2>2. rec[r].missed \in Nat /\ srRows[rec[r].id].beat \in Nat
    BY <2>1, RowTyped DEF Recorders, RunRows
  <2>3. srClock - srRows[rec[r].id].beat <= rec[r].missed + 1
    BY <2>1, <2>2 DEF SilenceCounted, Silence, Slack
  <2> QED
    BY <2>1, <2>2, <2>3 DEF SR!Fresher
<1> QED
  BY <1>1, RunsTyped, RunsKept, SilenceKept, PTL DEF SR!Spec

\* What the page of the runs shows holds of any number of runs: outcomes stand,
\* stale ones have missed their heartbeats, and none is missed between the two
\* lists (internal/db/stepruns.go).
THEOREM RunsAreAllShown ==
  ASSUME StaleAfter \in Nat
  PROVE  Spec => []RunsAreShown
<1>1. SR!Spec => []SR!RunsAreShown
  BY OutcomesStand, RunsAreListed, StaleRunsMissed, PTL DEF SR!RunsAreShown
<1>2. ~(part = "sr") /\ [UNCHANGED part]_part => ~(part = "sr")'
  OBVIOUS
<1> QED
  BY <1>1, <1>2, PTL DEF Spec, ReportsSpec, RunsAreShown

-----------------------------------------------------------------------------
(* The log and cache of model calls.                                       *)

CallConstants ==
  /\ FnKinds \subseteq {"fn", "judge"} /\ "any" \notin Models
  /\ MaxCallFaults \in Nat /\ MaxChanges \in Nat

Keys == Models \cup {"any"}

CallRows(n) == [id : 1 .. n, key : Keys, error : FC!ErrorType, hit : BOOLEAN, from : 0 .. n, reply : FC!ReplyType]

Steps == {"idle", "served", "failed", "lookup", "hit", "call", "log", "wait"}

Askers(n) == [pc : Steps, expects : Keys, attempt : Nat, answered : Nat, error : FC!ErrorType,
              reply : FC!ReplyType, id : 0 .. n]

CallsType ==
  /\ fcKind \in {"fn", "judge"} /\ expected \in Models
  /\ fcRows \subseteq CallRows(made)
  /\ made \in Nat /\ paid \in Nat /\ begun \in Nat /\ dropped \in Nat
  /\ fcAt \in [Callers -> Askers(made)]
  /\ kept \subseteq Keys \X Keys
  /\ fcFaults \in 0 .. MaxCallFaults /\ changes \in 0 .. MaxChanges

LEMMA RowsGrow ==
  ASSUME NEW m \in Nat, NEW n \in Nat, m <= n
  PROVE  CallRows(m) \subseteq CallRows(n) /\ Askers(m) \subseteq Askers(n)
BY DEF CallRows, Askers

\* The row that is inserted.
LEMMA InsertTyped ==
  ASSUME CallsType, NEW c \in Callers, NEW error \in FC!ErrorType, NEW hit \in BOOLEAN, NEW from \in 0 .. made,
         FC!Insert(c, error, hit, from)
  PROVE  /\ made' = made + 1 /\ made' \in Nat /\ fcRows' \subseteq CallRows(made')
         /\ \E row \in CallRows(made') :
              /\ fcRows' = fcRows \cup {row} /\ row \notin fcRows
              /\ row.id = made' /\ row.key = FC!Key(c) /\ row.error = error /\ row.hit = hit
              /\ row.reply = fcAt[c].reply
<1>1. fcAt[c] \in Askers(made) /\ made \in Nat /\ fcRows \subseteq CallRows(made) /\ made' = made + 1
  BY DEF CallsType, FC!Insert
<1>2. FC!Key(c) \in Keys /\ fcAt[c].reply \in FC!ReplyType
  BY <1>1 DEF FC!Key, Askers, Keys
<1> DEFINE row == [id |-> made + 1, key |-> FC!Key(c), error |-> error, hit |-> hit, from |-> from,
                   reply |-> fcAt[c].reply]
<1>3. fcRows' = fcRows \cup {row}
  BY DEF FC!Insert, FC!NextId
<1>4. /\ row.id = made + 1 /\ row.key = FC!Key(c) /\ row.error = error /\ row.hit = hit
      /\ row.reply = fcAt[c].reply
  OBVIOUS
<1>5. row \in CallRows(made + 1)
  BY <1>1, <1>2 DEF CallRows
<1> HIDE DEF row
<1>6. row \notin fcRows
  <2>1. \A r \in fcRows : r.id \in 1 .. made
    BY <1>1 DEF CallRows
  <2> QED
    BY <1>1, <1>4, <2>1
<1>7. CallRows(made) \subseteq CallRows(made + 1)
  BY <1>1, RowsGrow
<1> QED
  BY <1>1, <1>3, <1>4, <1>5, <1>6, <1>7

\* What a step makes of one caller; the others stay as they are.
OneMoves(c, a) == fcAt' = [fcAt EXCEPT ![c] = a]

LEMMA FaultTyped ==
  ASSUME CallConstants, CallsType, FC!Fault
  PROVE  fcFaults' = fcFaults - 1 /\ fcFaults' \in 0 .. MaxCallFaults /\ fcFaults' < fcFaults
BY DEF CallConstants, CallsType, FC!Fault

LEMMA AskerTyped ==
  ASSUME CallsType, NEW c \in Callers
  PROVE  fcAt[c] \in Askers(made) /\ fcAt \in [Callers -> Askers(made)]
BY DEF CallsType

\* A lookup goes on with a row it may serve, or without one.
LookedUp(c) ==
  \E a \in Askers(made) :
    /\ OneMoves(c, a) /\ a.expects = fcAt[c].expects /\ a.answered = fcAt[c].answered
    /\ a.pc = "hit" => \E r \in fcRows : /\ FC!Servable(r, FC!Key(c), fcAt[c].expects)
                                         /\ a.reply = r.reply /\ a.id = r.id
    /\ a.pc \in {"call", "failed", "hit"}

LEMMA LookupSteps ==
  ASSUME CallConstants, CallsType, NEW c \in Callers, FC!Lookup(c)
  PROVE  /\ fcAt[c].pc = "lookup" /\ fcFaults' \in 0 .. MaxCallFaults /\ fcFaults' <= fcFaults
         /\ UNCHANGED <<fcKind, expected, fcRows, made, paid, begun, dropped, kept, changes>>
         /\ LookedUp(c)
<1>1. /\ fcAt[c].pc = "lookup"
      /\ UNCHANGED <<fcKind, expected, fcRows, made, paid, begun, dropped, kept, changes>>
  BY DEF FC!Lookup, FC!table
<1>2. fcFaults' \in 0 .. MaxCallFaults /\ fcFaults' <= fcFaults
  <2>1. fcFaults \in Nat /\ fcFaults \in 0 .. MaxCallFaults
    BY DEF CallsType, CallConstants
  <2>2. FC!Fault \/ UNCHANGED fcFaults
    BY DEF FC!Lookup
  <2> QED
    BY <2>1, <2>2, FaultTyped
<1>3. fcAt[c] \in Askers(made)
  BY AskerTyped
<1>4. ASSUME NEW pc \in {"call", "failed"}, fcAt' = [fcAt EXCEPT ![c].pc = pc] PROVE LookedUp(c)
  <2> DEFINE a == [fcAt[c] EXCEPT !.pc = pc]
  <2>1. OneMoves(c, a)
    BY <1>4 DEF OneMoves
  <2>2. a \in Askers(made) /\ a.expects = fcAt[c].expects /\ a.answered = fcAt[c].answered /\ a.pc = pc
    BY <1>3, <1>4 DEF Askers, Steps
  <2> HIDE DEF a
  <2> QED
    BY <2>1, <2>2 DEF LookedUp
<1>5. ASSUME NEW r \in fcRows, FC!Servable(r, FC!Key(c), fcAt[c].expects),
             fcAt' = [fcAt EXCEPT ![c].pc = "hit", ![c].reply = r.reply, ![c].id = r.id]
      PROVE  LookedUp(c)
  <2> DEFINE a == [fcAt[c] EXCEPT !.pc = "hit", !.reply = r.reply, !.id = r.id]
  <2>1. OneMoves(c, a)
    BY <1>5 DEF OneMoves
  <2>2. r \in CallRows(made)
    BY DEF CallsType
  <2>3. r.id \in 0 .. made /\ r.reply \in FC!ReplyType
    BY <2>2 DEF CallRows, CallsType
  <2>4. /\ a \in Askers(made) /\ a.expects = fcAt[c].expects /\ a.answered = fcAt[c].answered
        /\ a.pc = "hit" /\ a.reply = r.reply /\ a.id = r.id
    BY <1>3, <2>3 DEF Askers, Steps
  <2> HIDE DEF a
  <2> QED
    BY <1>5, <2>1, <2>4 DEF LookedUp
<1> QED
  BY <1>1, <1>2, <1>4, <1>5 DEF FC!Lookup

\* A hit is logged, or its log is lost.
LEMMA LogHitSteps ==
  ASSUME CallConstants, CallsType, NEW c \in Callers, FC!LogHit(c)
  PROVE  /\ fcAt[c].pc = "hit"
         /\ UNCHANGED <<fcKind, expected, paid, begun, dropped, kept, changes>>
         /\ fcFaults' \in 0 .. MaxCallFaults /\ fcFaults' <= fcFaults
         /\ \E pc \in {"served", "failed"}, id \in Nat :
              /\ fcAt' = [fcAt EXCEPT ![c].pc = pc, ![c].id = id]
              /\ \/ /\ FC!Insert(c, "none", TRUE, fcAt[c].id) /\ id \in {fcAt[c].id, made + 1}
                 \/ UNCHANGED <<fcRows, made>> /\ id = fcAt[c].id
<1>1. /\ fcAt[c].pc = "hit"
      /\ UNCHANGED <<fcKind, expected, paid, begun, dropped, kept, changes>>
  BY DEF FC!LogHit
<1>2. fcFaults' \in 0 .. MaxCallFaults /\ fcFaults' <= fcFaults
  <2>1. fcFaults \in Nat /\ fcFaults \in 0 .. MaxCallFaults
    BY DEF CallsType, CallConstants
  <2>2. FC!Fault \/ UNCHANGED fcFaults
    BY DEF FC!LogHit
  <2> QED
    BY <2>1, <2>2, FaultTyped
<1>3. fcAt[c] \in Askers(made) /\ made \in Nat /\ fcAt \in [Callers -> Askers(made)]
  BY AskerTyped DEF CallsType
<1>4. fcAt[c].id \in Nat
  BY <1>3 DEF Askers
<1>5. CASE FC!Insert(c, "none", TRUE, fcAt[c].id)
           /\ fcAt' = [fcAt EXCEPT ![c].pc = "served", ![c].id = IF fcKind = "fn" THEN made + 1 ELSE @]
  <2> DEFINE id == IF fcKind = "fn" THEN made + 1 ELSE fcAt[c].id
  <2>1. fcAt' = [fcAt EXCEPT ![c].pc = "served", ![c].id = id]
    BY <1>3, <1>5 DEF Askers
  <2>2. id \in {fcAt[c].id, made + 1} /\ id \in Nat
    BY <1>3, <1>4
  <2> HIDE DEF id
  <2> QED
    BY <1>1, <1>2, <1>5, <2>1, <2>2
<1>6. CASE UNCHANGED <<fcRows, made>>
           /\ fcAt' = [fcAt EXCEPT ![c].pc = IF fcKind = "fn" THEN "failed" ELSE "served"]
  <2> DEFINE pc == IF fcKind = "fn" THEN "failed" ELSE "served"
  <2>1. pc \in {"served", "failed"}
    OBVIOUS
  <2>2. fcAt' = [fcAt EXCEPT ![c].pc = pc]
    BY <1>6
  <2> HIDE DEF pc
  <2>3. [fcAt EXCEPT ![c].pc = pc] = [fcAt EXCEPT ![c].pc = pc, ![c].id = fcAt[c].id]
    BY <1>3 DEF Askers
  <2> QED
    BY <1>1, <1>2, <1>4, <1>6, <2>1, <2>2, <2>3
<1> QED
  BY <1>5, <1>6 DEF FC!LogHit, FC!table

SlotTaken(c) == fcAt[c].error = "none" /\ ~FC!SlotFree(FC!Key(c))

\* What a caller holds while it logs.
Holds(c, a) ==
  /\ a \in Askers(made') /\ OneMoves(c, a)
  /\ a.expects = fcAt[c].expects /\ a.answered = fcAt[c].answered /\ a.reply = fcAt[c].reply

LogInserts(c) ==
  /\ ~SlotTaken(c) /\ FC!Insert(c, fcAt[c].error, FALSE, 0) /\ UNCHANGED <<dropped, fcFaults>>
  /\ \E a : Holds(c, a) /\ a.error = fcAt[c].error /\ a.pc = FC!AfterLog(c) /\ a.id = made'

LogDrops(c) ==
  /\ SlotTaken(c) /\ fcKind = "fn" /\ UNCHANGED <<fcRows, made, fcFaults>> /\ dropped' = dropped + 1
  /\ \E a : Holds(c, a) /\ a.error = fcAt[c].error /\ a.pc = "served" /\ a.id = 0

LogTaken(c) ==
  /\ SlotTaken(c) /\ fcKind = "judge" /\ UNCHANGED <<fcRows, made, dropped, fcFaults>>
  /\ \E a : Holds(c, a) /\ a.error = "taken" /\ a.pc = "log"

LogLost(c) ==
  /\ fcFaults' = fcFaults - 1 /\ fcFaults' \in 0 .. MaxCallFaults /\ UNCHANGED <<fcRows, made, dropped>>
  /\ \E a : Holds(c, a) /\ a.error = fcAt[c].error /\ a.pc \in {"failed", FC!AfterLog(c)} /\ a.id = 0

LEMMA LogSteps ==
  ASSUME CallConstants, CallsType, NEW c \in Callers, FC!Log(c)
  PROVE  /\ fcAt[c].pc = "log"
         /\ UNCHANGED <<fcKind, expected, paid, begun, changes>>
         /\ kept' = IF fcAt[c].error = "none" /\ fcFaults' = fcFaults
                    THEN kept \cup {<<FC!Key(c), fcAt[c].expects>>} ELSE kept
         /\ LogInserts(c) \/ LogDrops(c) \/ LogTaken(c) \/ LogLost(c)
<1>1. /\ fcAt[c].pc = "log" /\ UNCHANGED <<fcKind, expected, paid, begun, changes>>
      /\ kept' = IF fcAt[c].error = "none" /\ fcFaults' = fcFaults
                 THEN kept \cup {<<FC!Key(c), fcAt[c].expects>>} ELSE kept
  BY DEF FC!Log
<1>2. fcAt[c] \in Askers(made) /\ made \in Nat /\ fcAt \in [Callers -> Askers(made)] /\ fcKind \in {"fn", "judge"}
  BY AskerTyped DEF CallsType
<1>3. FC!AfterLog(c) \in {"served", "wait", "failed"}
  BY DEF FC!AfterLog
<1>8. ASSUME NEW n \in {made, made + 1}, NEW pc \in Steps, NEW id \in 0 .. n
      PROVE  [fcAt[c] EXCEPT !.pc = pc, !.id = id] \in Askers(n)
  <2>1. fcAt[c] \in Askers(n)
    BY <1>2, RowsGrow
  <2> QED
    BY <2>1 DEF Askers
<1>9. made + 1 \in 0 .. made + 1 /\ 0 \in 0 .. made
  BY <1>2
<1>4. CASE /\ ~SlotTaken(c) /\ FC!Insert(c, fcAt[c].error, FALSE, 0) /\ UNCHANGED <<dropped, fcFaults>>
           /\ fcAt' = [fcAt EXCEPT ![c].pc = FC!AfterLog(c), ![c].id = made + 1]
  <2> DEFINE a == [fcAt[c] EXCEPT !.pc = FC!AfterLog(c), !.id = made + 1]
  <2>1. made' = made + 1
    BY <1>4 DEF FC!Insert
  <2>2. a \in Askers(made + 1)
    BY <1>3, <1>8, <1>9 DEF Steps
  <2>3. /\ a.expects = fcAt[c].expects /\ a.answered = fcAt[c].answered /\ a.reply = fcAt[c].reply
        /\ a.error = fcAt[c].error /\ a.pc = FC!AfterLog(c) /\ a.id = made + 1
    BY <1>2 DEF Askers
  <2>4. OneMoves(c, a)
    BY <1>4 DEF OneMoves
  <2> HIDE DEF a
  <2>5. LogInserts(c)
    <3>1. Holds(c, a)
      BY <1>4, <2>1, <2>2, <2>3, <2>4 DEF Holds
    <3> QED
      BY <1>4, <2>1, <2>2, <2>3, <2>4, <3>1 DEF LogInserts
  <2> QED
    BY <1>1, <2>5
<1>5. CASE /\ SlotTaken(c) /\ fcKind = "fn" /\ UNCHANGED <<fcRows, made, fcFaults>> /\ dropped' = dropped + 1
           /\ fcAt' = [fcAt EXCEPT ![c].pc = "served", ![c].id = 0]
  <2> DEFINE a == [fcAt[c] EXCEPT !.pc = "served", !.id = 0]
  <2>1. a \in Askers(made)
    BY <1>8, <1>9 DEF Steps
  <2>2. /\ a.expects = fcAt[c].expects /\ a.answered = fcAt[c].answered /\ a.reply = fcAt[c].reply
        /\ a.error = fcAt[c].error /\ a.pc = "served" /\ a.id = 0
    BY <1>2 DEF Askers
  <2>3. OneMoves(c, a)
    BY <1>5 DEF OneMoves
  <2> HIDE DEF a
  <2>5. LogDrops(c)
    <3>1. Holds(c, a)
      BY <1>5, <2>1, <2>2, <2>3 DEF Holds
    <3> QED
      BY <1>5, <2>1, <2>2, <2>3, <3>1 DEF LogDrops
  <2> QED
    BY <1>1, <2>5
<1>6. CASE /\ SlotTaken(c) /\ fcKind = "judge" /\ UNCHANGED <<fcRows, made, dropped, fcFaults>>
           /\ fcAt' = [fcAt EXCEPT ![c].error = "taken"]
  <2> DEFINE a == [fcAt[c] EXCEPT !.error = "taken"]
  <2>1. a \in Askers(made)
    BY <1>2 DEF Askers, FC!ErrorType
  <2>2. /\ a.expects = fcAt[c].expects /\ a.answered = fcAt[c].answered /\ a.reply = fcAt[c].reply
        /\ a.error = "taken" /\ a.pc = "log"
    BY <1>1, <1>2 DEF Askers
  <2>3. OneMoves(c, a)
    BY <1>6 DEF OneMoves
  <2> HIDE DEF a
  <2>5. LogTaken(c)
    <3>1. Holds(c, a)
      BY <1>6, <2>1, <2>2, <2>3 DEF Holds
    <3> QED
      BY <1>6, <2>1, <2>2, <2>3, <3>1 DEF LogTaken
  <2> QED
    BY <1>1, <2>5
<1>7. ASSUME NEW pc \in {"failed", FC!AfterLog(c)}, FC!Fault, UNCHANGED <<fcRows, made, dropped>>,
             fcAt' = [fcAt EXCEPT ![c].pc = pc, ![c].id = 0]
      PROVE  LogLost(c)
  <2> DEFINE a == [fcAt[c] EXCEPT !.pc = pc, !.id = 0]
  <2>1. a \in Askers(made)
    BY <1>3, <1>8, <1>9 DEF Steps
  <2>2. /\ a.expects = fcAt[c].expects /\ a.answered = fcAt[c].answered /\ a.reply = fcAt[c].reply
        /\ a.error = fcAt[c].error /\ a.pc = pc /\ a.id = 0
    BY <1>2 DEF Askers
  <2>3. OneMoves(c, a)
    BY <1>7 DEF OneMoves
  <2>4. fcFaults' = fcFaults - 1 /\ fcFaults' \in 0 .. MaxCallFaults
    BY <1>7, FaultTyped
  <2> HIDE DEF a
  <2> QED
    BY <1>7, <2>1, <2>2, <2>3, <2>4 DEF LogLost, Holds
<1> QED
  <2>1. \/ /\ ~SlotTaken(c) /\ FC!Insert(c, fcAt[c].error, FALSE, 0) /\ UNCHANGED <<dropped, fcFaults>>
           /\ fcAt' = [fcAt EXCEPT ![c].pc = FC!AfterLog(c), ![c].id = made + 1]
        \/ /\ SlotTaken(c) /\ fcKind = "fn" /\ UNCHANGED <<fcRows, made, fcFaults>> /\ dropped' = dropped + 1
           /\ fcAt' = [fcAt EXCEPT ![c].pc = "served", ![c].id = 0]
        \/ /\ SlotTaken(c) /\ fcKind = "judge" /\ UNCHANGED <<fcRows, made, dropped, fcFaults>>
           /\ fcAt' = [fcAt EXCEPT ![c].error = "taken"]
        \/ /\ FC!Fault /\ UNCHANGED <<fcRows, made, dropped>>
           /\ fcAt' = [fcAt EXCEPT ![c].pc = IF fcKind = "fn" THEN "failed" ELSE FC!AfterLog(c), ![c].id = 0]
    BY <1>2 DEF FC!Log, FC!table, FC!DropsLoser, FC!NoRow, SlotTaken
  <2>2. CASE /\ FC!Fault /\ UNCHANGED <<fcRows, made, dropped>>
             /\ fcAt' = [fcAt EXCEPT ![c].pc = IF fcKind = "fn" THEN "failed" ELSE FC!AfterLog(c), ![c].id = 0]
    <3> DEFINE pc == IF fcKind = "fn" THEN "failed" ELSE FC!AfterLog(c)
    <3>1. pc \in {"failed", FC!AfterLog(c)}
      OBVIOUS
    <3>2. fcAt' = [fcAt EXCEPT ![c].pc = pc, ![c].id = 0]
      BY <2>2
    <3> HIDE DEF pc
    <3>3. LogLost(c)
      BY <1>7, <2>2, <3>1, <3>2
    <3> QED
      BY <1>1, <3>3
  <2>3. CASE ~(FC!Fault /\ UNCHANGED <<fcRows, made, dropped>>
             /\ fcAt' = [fcAt EXCEPT ![c].pc = IF fcKind = "fn" THEN "failed" ELSE FC!AfterLog(c), ![c].id = 0])
    <3> HIDE DEF FC!Fault, SlotTaken
    <3> QED
      BY <1>1, <1>4, <1>5, <1>6, <2>1, <2>3
  <2> QED
    BY <2>2, <2>3

\* The steps that leave the rows as they are.
Begins(c) ==
  /\ fcAt[c].pc \in FC!Ended /\ begun' = begun + 1 /\ UNCHANGED <<paid, fcFaults>>
  /\ \E a \in Askers(made) : OneMoves(c, a) /\ a.pc = "lookup" /\ a.answered = 0 /\ a.expects = expected

AnswersCall(c) ==
  /\ fcAt[c].pc = "call" /\ paid' = paid + 1 /\ UNCHANGED <<begun, fcFaults>>
  /\ \E a \in Askers(made) :
       /\ OneMoves(c, a) /\ a.pc = "log" /\ a.answered = fcAt[c].answered + 1 /\ a.expects = fcAt[c].expects
       /\ a.error \in {"none", "fallback", "invalid", "body"} /\ a.reply.n = paid + 1
       /\ a.error \in {"none", "fallback"} => a.reply.usable
       /\ a.error = "none" => a.reply.model = a.expects

Refuses(c) ==
  /\ fcAt[c].pc = "call" /\ UNCHANGED <<paid, begun, fcFaults>>
  /\ \E a \in Askers(made) :
       /\ OneMoves(c, a) /\ a.pc = "log" /\ a.answered = fcAt[c].answered /\ a.expects = fcAt[c].expects
       /\ a.error \in {"transient", "status"} /\ a.reply.n = 0

RetriesOrStops(c) ==
  /\ fcAt[c].pc = "wait" /\ UNCHANGED <<paid, begun>> /\ fcFaults' \in 0 .. MaxCallFaults /\ fcFaults' <= fcFaults
  /\ \E a \in Askers(made) :
       OneMoves(c, a) /\ a.pc \in {"call", "failed"} /\ a.answered = fcAt[c].answered /\ a.expects = fcAt[c].expects

Dies(c) ==
  /\ fcAt[c].pc \notin FC!Ended /\ UNCHANGED <<paid, begun>>
  /\ fcFaults' = fcFaults - 1 /\ fcFaults' \in 0 .. MaxCallFaults
  /\ \E a \in Askers(made) : OneMoves(c, a) /\ a.pc = "idle" /\ a.answered = 0

LEMMA CallerSteps ==
  ASSUME CallConstants, CallsType, NEW c \in Callers,
         \/ FC!Begin(c) \/ FC!Retry(c) \/ FC!Die(c)
         \/ \E m \in Models, usable \in BOOLEAN : FC!Answered(c, m, usable)
         \/ \E error \in {"transient", "status"} : FC!Unanswered(c, error)
  PROVE  /\ UNCHANGED <<fcKind, expected, fcRows, made, dropped, kept, changes>>
         /\ Begins(c) \/ AnswersCall(c) \/ Refuses(c) \/ RetriesOrStops(c) \/ Dies(c)
<1>1. /\ fcAt[c] \in Askers(made) /\ made \in Nat /\ fcAt \in [Callers -> Askers(made)] /\ expected \in Keys
      /\ paid \in Nat /\ fcAt[c].expects \in Keys
  BY AskerTyped DEF CallsType, Keys, Askers
<1>2. UNCHANGED <<fcKind, expected, fcRows, made, dropped, kept, changes>>
  BY DEF FC!Begin, FC!Retry, FC!Die, FC!Answered, FC!Unanswered, FC!table
<1>3. CASE FC!Begin(c)
  <2> DEFINE a == [FC!Idle EXCEPT !.pc = "lookup", !.expects = expected]
  <2>1. OneMoves(c, a) /\ fcAt[c].pc \in FC!Ended /\ begun' = begun + 1 /\ UNCHANGED <<paid, fcFaults>>
    BY <1>3 DEF FC!Begin, OneMoves
  <2>3. FC!Idle \in Askers(made) /\ FC!Idle.answered = 0
    BY <1>1 DEF FC!Idle, FC!NoReply, FC!ReplyType, FC!ErrorType, Askers, Keys, Steps
  <2>2. a \in Askers(made) /\ a.pc = "lookup" /\ a.answered = 0 /\ a.expects = expected
    BY <1>1, <2>3 DEF Askers, Steps
  <2> HIDE DEF a
  <2> QED
    BY <1>2, <2>1, <2>2 DEF Begins
<1>4. ASSUME NEW m \in Models, NEW usable \in BOOLEAN, FC!Answered(c, m, usable) PROVE AnswersCall(c)
  <2>1. PICK error \in IF usable THEN {FC!ErrorOf(c, m, usable)} ELSE {FC!ErrorOf(c, m, usable), "body"} :
          fcAt' = [fcAt EXCEPT ![c].pc = "log", ![c].answered = @ + 1, ![c].error = error,
                               ![c].reply = [n |-> paid + 1, model |-> m, usable |-> usable]]
    BY <1>4 DEF FC!Answered
  <2>2. /\ error \in {"none", "fallback", "invalid", "body"}
        /\ error \in {"none", "fallback"} => usable
        /\ error = "none" => m = fcAt[c].expects
    BY <2>1 DEF FC!ErrorOf
  <2> DEFINE reply == [n |-> paid + 1, model |-> m, usable |-> usable]
             n == fcAt[c].answered + 1
             a == [fcAt[c] EXCEPT !.pc = "log", !.answered = n, !.error = error, !.reply = reply]
  <2>3. reply \in FC!ReplyType /\ reply.n = paid + 1 /\ reply.usable = usable /\ reply.model = m
    BY <1>1 DEF FC!ReplyType
  <2>4. n \in Nat
    BY <1>1 DEF Askers
  <2>5. OneMoves(c, a)
    BY <1>1, <2>1 DEF OneMoves, Askers
  <2> HIDE DEF reply, n
  <2>6. /\ a \in Askers(made) /\ a.pc = "log" /\ a.answered = n /\ a.expects = fcAt[c].expects
        /\ a.error = error /\ a.reply = reply
    BY <1>1, <2>2, <2>3, <2>4 DEF Askers, Steps, FC!ErrorType
  <2>7. fcAt[c].pc = "call" /\ paid' = paid + 1 /\ UNCHANGED <<begun, fcFaults>>
    BY <1>4 DEF FC!Answered
  <2>8. n = fcAt[c].answered + 1
    BY DEF n
  <2> HIDE DEF a
  <2> QED
    BY <2>2, <2>3, <2>5, <2>6, <2>7, <2>8 DEF AnswersCall
<1>5. ASSUME NEW error \in {"transient", "status"}, FC!Unanswered(c, error) PROVE Refuses(c)
  <2> DEFINE a == [fcAt[c] EXCEPT !.pc = "log", !.error = error, !.reply = FC!NoReply]
  <2>0. fcAt[c].pc = "call" /\ UNCHANGED <<paid, begun, fcFaults>>
    BY <1>5 DEF FC!Unanswered
  <2>1. OneMoves(c, a)
    <3> DEFINE z == FC!NoReply
    <3>1. fcAt' = [fcAt EXCEPT ![c].pc = "log", ![c].error = error, ![c].reply = z]
      BY <1>5 DEF FC!Unanswered
    <3> HIDE DEF z
    <3>2. fcAt' = [fcAt EXCEPT ![c] = [fcAt[c] EXCEPT !.pc = "log", !.error = error, !.reply = z]]
      BY <1>1, <3>1
    <3> QED
      BY <3>2 DEF OneMoves, z
  <2>2. FC!NoReply \in FC!ReplyType /\ FC!NoReply.n = 0
    BY DEF FC!NoReply, FC!ReplyType
  <2>3. /\ a \in Askers(made) /\ a.pc = "log" /\ a.answered = fcAt[c].answered /\ a.expects = fcAt[c].expects
        /\ a.error = error /\ a.reply = FC!NoReply
    BY <1>1, <1>5, <2>2 DEF Askers, Steps, FC!ErrorType
  <2> HIDE DEF a
  <2> QED
    BY <2>0, <2>1, <2>2, <2>3 DEF Refuses
<1>6. fcFaults \in Nat /\ fcFaults \in 0 .. MaxCallFaults
  BY DEF CallsType, CallConstants
<1>7. CASE FC!Retry(c)
  <2>1. fcAt[c].pc = "wait" /\ UNCHANGED <<paid, begun>> /\ (UNCHANGED fcFaults \/ FC!Fault)
    BY <1>7 DEF FC!Retry
  <2>2. CASE fcAt' = [fcAt EXCEPT ![c].pc = "call", ![c].attempt = @ + 1]
    <3> DEFINE n == fcAt[c].attempt + 1
               a == [fcAt[c] EXCEPT !.pc = "call", !.attempt = n]
    <3>1. n \in Nat
      BY <1>1 DEF Askers
    <3>2. OneMoves(c, a)
      BY <1>1, <2>2 DEF OneMoves, Askers
    <3> HIDE DEF n
    <3>3. a \in Askers(made) /\ a.pc = "call" /\ a.answered = fcAt[c].answered /\ a.expects = fcAt[c].expects
      BY <1>1, <3>1 DEF Askers, Steps
    <3> HIDE DEF a
    <3> QED
      BY <1>2, <1>6, <2>1, <3>2, <3>3, FaultTyped DEF RetriesOrStops
  <2>3. CASE fcAt' = [fcAt EXCEPT ![c].pc = "failed"]
    <3> DEFINE a == [fcAt[c] EXCEPT !.pc = "failed"]
    <3>1. /\ OneMoves(c, a)
          /\ a \in Askers(made) /\ a.pc = "failed" /\ a.answered = fcAt[c].answered /\ a.expects = fcAt[c].expects
      BY <1>1, <2>3 DEF OneMoves, Askers, Steps
    <3> HIDE DEF a
    <3> QED
      BY <1>2, <1>6, <2>1, <3>1, FaultTyped DEF RetriesOrStops
  <2> QED
    BY <1>7, <2>2, <2>3 DEF FC!Retry
<1>8. CASE FC!Die(c)
  <2>1. OneMoves(c, FC!Idle) /\ fcAt[c].pc \notin FC!Ended /\ UNCHANGED <<paid, begun>> /\ FC!Fault
    BY <1>8 DEF FC!Die, OneMoves
  <2>2. FC!Idle \in Askers(made) /\ FC!Idle.pc = "idle" /\ FC!Idle.answered = 0
    BY <1>1 DEF FC!Idle, FC!NoReply, FC!ReplyType, FC!ErrorType, Askers, Keys, Steps
  <2> QED
    BY <1>2, <2>1, <2>2, FaultTyped DEF Dies
<1> QED
  BY <1>2, <1>3, <1>4, <1>5, <1>7, <1>8

\* Every step, by what it does.
CallStep(c) ==
  \/ /\ LookedUp(c) /\ fcAt[c].pc = "lookup" /\ fcFaults' \in 0 .. MaxCallFaults /\ fcFaults' <= fcFaults
     /\ UNCHANGED <<fcKind, expected, fcRows, made, paid, begun, dropped, kept, changes>>
  \/ /\ UNCHANGED <<fcKind, expected, fcRows, made, dropped, kept, changes>>
     /\ Begins(c) \/ AnswersCall(c) \/ Refuses(c) \/ RetriesOrStops(c) \/ Dies(c)
  \/ FC!LogHit(c) \/ FC!Log(c)

LEMMA CallsStep ==
  ASSUME CallConstants, CallsType, [FC!Next]_(FC!vars)
  PROVE  \/ \E c \in Callers : CallStep(c)
         \/ \E m \in Models : FC!Repin(m)
         \/ UNCHANGED FC!vars
<1>1. ASSUME NEW c \in Callers, FC!Begin(c) \/ FC!Invoke(c) \/ FC!Die(c) PROVE CallStep(c)
  <2>1. CASE FC!Lookup(c)
    BY <2>1, LookupSteps DEF CallStep
  <2>2. CASE FC!LogHit(c) \/ FC!Log(c)
    BY <2>2 DEF CallStep
  <2>3. CASE \/ FC!Begin(c) \/ FC!Retry(c) \/ FC!Die(c)
             \/ \E m \in Models, usable \in BOOLEAN : FC!Answered(c, m, usable)
             \/ \E error \in {"transient", "status"} : FC!Unanswered(c, error)
    BY <2>3, CallerSteps DEF CallStep
  <2> QED
    BY <1>1, <2>1, <2>2, <2>3 DEF FC!Invoke
<1> QED
  BY <1>1 DEF FC!Next

\* The caller that moves.
LEMMA Moves ==
  ASSUME CallsType, NEW c \in Callers, NEW a, OneMoves(c, a)
  PROVE  fcAt'[c] = a /\ \A d \in Callers \ {c} : fcAt'[d] = fcAt[d]
BY DEF CallsType, OneMoves

LEMMA AskersKept ==
  ASSUME CallsType, NEW c \in Callers, NEW n \in Nat, made <= n, NEW a \in Askers(n), OneMoves(c, a)
  PROVE  fcAt' \in [Callers -> Askers(n)]
<1>1. fcAt \in [Callers -> Askers(made)] /\ made \in Nat
  BY DEF CallsType
<1>2. fcAt \in [Callers -> Askers(n)]
  BY <1>1, RowsGrow
<1> QED
  BY <1>2 DEF OneMoves

LEMMA CallsTyped ==
  ASSUME CallConstants
  PROVE  /\ FC!Init => CallsType
         /\ CallsType /\ [FC!Next]_(FC!vars) => CallsType'
<1> USE DEF CallConstants
<1>1. ASSUME FC!Init PROVE CallsType
  <2>1. FC!Idle \in Askers(0)
    BY DEF FC!Idle, FC!NoReply, FC!ReplyType, FC!ErrorType, Askers, Keys, Steps
  <2>2. fcKind \in {"fn", "judge"} /\ fcAt \in [Callers -> Askers(0)]
    BY <1>1, <2>1 DEF FC!Init
  <2> QED
    BY <1>1, <2>2 DEF FC!Init, CallsType, FC!table
<1> SUFFICES ASSUME CallsType, [FC!Next]_(FC!vars) PROVE CallsType'
  BY <1>1
<1>2. ASSUME NEW c \in Callers, CallStep(c) PROVE CallsType'
  <2>1. ASSUME NEW a \in Askers(made), OneMoves(c, a), UNCHANGED made PROVE fcAt' \in [Callers -> Askers(made')]
    BY <2>1, AskersKept DEF CallsType
  <2>2. CASE /\ LookedUp(c) /\ fcAt[c].pc = "lookup" /\ fcFaults' \in 0 .. MaxCallFaults
             /\ UNCHANGED <<fcKind, expected, fcRows, made, paid, begun, dropped, kept, changes>>
    BY <2>1, <2>2 DEF LookedUp, CallsType
  <2>3. CASE /\ UNCHANGED <<fcKind, expected, fcRows, made, dropped, kept, changes>>
             /\ Begins(c) \/ AnswersCall(c) \/ Refuses(c) \/ RetriesOrStops(c) \/ Dies(c)
    <3>1. fcAt' \in [Callers -> Askers(made')]
      BY <2>1, <2>3 DEF Begins, AnswersCall, Refuses, RetriesOrStops, Dies
    <3>2. paid' \in Nat /\ begun' \in Nat /\ fcFaults' \in 0 .. MaxCallFaults
      BY <2>3 DEF Begins, AnswersCall, Refuses, RetriesOrStops, Dies, CallsType
    <3> QED
      BY <2>3, <3>1, <3>2 DEF CallsType
  <2>4. CASE FC!LogHit(c)
    <3>1. PICK pc \in {"served", "failed"}, id \in Nat :
              /\ fcAt' = [fcAt EXCEPT ![c].pc = pc, ![c].id = id]
              /\ \/ /\ FC!Insert(c, "none", TRUE, fcAt[c].id) /\ id \in {fcAt[c].id, made + 1}
                 \/ UNCHANGED <<fcRows, made>> /\ id = fcAt[c].id
      BY <2>4, LogHitSteps
    <3>2. /\ UNCHANGED <<fcKind, expected, paid, begun, dropped, kept, changes>>
          /\ fcFaults' \in 0 .. MaxCallFaults
      BY <2>4, LogHitSteps
    <3>3. fcAt[c] \in Askers(made) /\ fcAt[c].id \in 0 .. made /\ made \in Nat /\ "none" \in FC!ErrorType
      BY AskerTyped DEF CallsType, Askers, FC!ErrorType
    <3>4. made' \in Nat /\ made <= made' /\ fcRows' \subseteq CallRows(made') /\ id \in 0 .. made'
      <4>1. CASE FC!Insert(c, "none", TRUE, fcAt[c].id) /\ id \in {fcAt[c].id, made + 1}
        <5>1. made' = made + 1 /\ fcRows' \subseteq CallRows(made')
          BY <3>3, <4>1, InsertTyped
        <5> QED
          BY <3>3, <4>1, <5>1
      <4>2. CASE UNCHANGED <<fcRows, made>> /\ id = fcAt[c].id
        BY <3>3, <4>2 DEF CallsType
      <4> QED
        BY <3>1, <4>1, <4>2
    <3>5. [fcAt[c] EXCEPT !.pc = pc, !.id = id] \in Askers(made')
      <4>1. fcAt[c] \in Askers(made')
        BY <3>3, <3>4, RowsGrow
      <4> QED
        BY <3>4, <4>1 DEF Askers, Steps
    <3>6. OneMoves(c, [fcAt[c] EXCEPT !.pc = pc, !.id = id])
      BY <3>1 DEF OneMoves
    <3>7. fcAt' \in [Callers -> Askers(made')]
      BY <3>4, <3>5, <3>6, AskersKept
    <3> QED
      BY <3>2, <3>4, <3>7 DEF CallsType
  <2>5. CASE FC!Log(c)
    <3>1. /\ UNCHANGED <<fcKind, expected, paid, begun, changes>>
          /\ kept' = IF fcAt[c].error = "none" /\ fcFaults' = fcFaults
                     THEN kept \cup {<<FC!Key(c), fcAt[c].expects>>} ELSE kept
          /\ LogInserts(c) \/ LogDrops(c) \/ LogTaken(c) \/ LogLost(c)
      BY <2>5, LogSteps
    <3>2. fcAt[c] \in Askers(made) /\ made \in Nat
      BY AskerTyped DEF CallsType
    <3>3. fcAt[c].error \in FC!ErrorType /\ 0 \in 0 .. made /\ FC!Key(c) \in Keys /\ fcAt[c].expects \in Keys
      BY <3>2 DEF Askers, FC!Key, Keys
    <3>4. kept' \subseteq Keys \X Keys
      BY <3>1, <3>3 DEF CallsType
    <3>5. made' \in Nat /\ made <= made' /\ fcRows' \subseteq CallRows(made')
      <4>1. CASE LogInserts(c)
        <5>1. FC!Insert(c, fcAt[c].error, FALSE, 0)
          BY <4>1 DEF LogInserts
        <5>2. made' = made + 1 /\ made' \in Nat /\ fcRows' \subseteq CallRows(made')
          BY <3>3, <5>1, InsertTyped
        <5> QED
          BY <3>2, <5>2
      <4>2. CASE LogDrops(c) \/ LogTaken(c) \/ LogLost(c)
        BY <4>2, <3>2 DEF LogDrops, LogTaken, LogLost, CallsType
      <4> QED
        BY <3>1, <4>1, <4>2
    <3>6. \E a \in Askers(made') : OneMoves(c, a)
      BY <3>1 DEF LogInserts, LogDrops, LogTaken, LogLost, Holds
    <3>7. fcAt' \in [Callers -> Askers(made')]
      BY <3>5, <3>6, AskersKept
    <3>8. dropped' \in Nat /\ fcFaults' \in 0 .. MaxCallFaults
      <4>1. dropped \in Nat /\ fcFaults \in 0 .. MaxCallFaults
        BY DEF CallsType
      <4>2. dropped' = dropped \/ dropped' = dropped + 1
        BY <3>1 DEF LogInserts, LogDrops, LogTaken, LogLost
      <4>3. fcFaults' = fcFaults \/ fcFaults' \in 0 .. MaxCallFaults
        BY <3>1 DEF LogInserts, LogDrops, LogTaken, LogLost
      <4> QED
        BY <4>1, <4>2, <4>3
    <3> QED
      BY <3>1, <3>4, <3>5, <3>7, <3>8 DEF CallsType
  <2> QED
    BY <1>2, <2>2, <2>3, <2>4, <2>5 DEF CallStep
<1>3. ASSUME NEW m \in Models, FC!Repin(m) PROVE CallsType'
  BY <1>3 DEF FC!Repin, FC!table, CallsType
<1>4. CASE UNCHANGED FC!vars
  BY <1>4 DEF FC!vars, FC!table, CallsType
<1> QED
  BY <1>2, <1>3, <1>4, CallsStep

\* What a caller knows of what it holds.
Knows(a) ==
  /\ a.answered <= 1
  /\ a.pc \in {"lookup", "hit", "call", "wait"} => a.answered = 0
  /\ a.pc = "log" /\ a.error \in {"transient", "status"} => a.answered = 0
  /\ a.pc = "hit" => a.reply.usable /\ a.reply.model = a.expects
  /\ a.pc = "log" /\ a.error \in {"none", "taken"} => a.reply.usable /\ a.reply.model = a.expects
  /\ a.pc = "log" /\ a.error = "fallback" => a.reply.usable
  /\ a.pc = "served" => a.reply.usable /\ (a.reply.model = a.expects \/ a.error = "fallback")

NamesRow(a, logged) == a.pc \in {"hit", "served"} /\ a.id # 0 => \E r \in logged : r.id = a.id /\ r.reply = a.reply

CallsInv ==
  /\ \A c \in Callers : Knows(fcAt[c]) /\ NamesRow(fcAt[c], fcRows)
  /\ \A r \in fcRows : r.error = "none" => r.reply.usable

\* One caller moves, and the rows grow.
LEMMA OneKnows ==
  ASSUME CallsType, CallsInv, NEW c \in Callers, NEW a, OneMoves(c, a),
         fcRows \subseteq fcRows', \A r \in fcRows' \ fcRows : r.error = "none" => r.reply.usable,
         Knows(a), NamesRow(a, fcRows')
  PROVE  CallsInv'
<1>1. fcAt'[c] = a /\ \A d \in Callers \ {c} : fcAt'[d] = fcAt[d]
  BY Moves
<1>2. \A d \in Callers : NamesRow(fcAt[d], fcRows) => NamesRow(fcAt[d], fcRows')
  BY DEF NamesRow
<1>3. \A d \in Callers : Knows(fcAt'[d]) /\ NamesRow(fcAt'[d], fcRows')
  BY <1>1, <1>2 DEF CallsInv
<1>4. \A r \in fcRows' : r.error = "none" => r.reply.usable
  BY DEF CallsInv
<1> QED
  BY <1>3, <1>4 DEF CallsInv, Knows, NamesRow

LEMMA CallsKept ==
  ASSUME CallConstants
  PROVE  /\ FC!Init => CallsInv
         /\ CallsType /\ CallsInv /\ [FC!Next]_(FC!vars) => CallsInv'
<1>1. FC!Init => CallsInv
  BY DEF FC!Init, FC!Idle, FC!NoReply, FC!table, CallsInv, Knows, NamesRow
<1> SUFFICES ASSUME CallsType, CallsInv, [FC!Next]_(FC!vars) PROVE CallsInv'
  BY <1>1
<1>2. ASSUME NEW c \in Callers, CallStep(c) PROVE CallsInv'
  <2>1. fcAt[c] \in Askers(made) /\ Knows(fcAt[c]) /\ NamesRow(fcAt[c], fcRows) /\ made \in Nat
    BY AskerTyped DEF CallsInv, CallsType
  <2>2. CASE LookedUp(c) /\ fcAt[c].pc = "lookup" /\ fcRows' = fcRows
    <3>1. PICK a \in Askers(made) :
            /\ OneMoves(c, a) /\ a.expects = fcAt[c].expects /\ a.answered = fcAt[c].answered
            /\ a.pc = "hit" => \E r \in fcRows : /\ FC!Servable(r, FC!Key(c), fcAt[c].expects)
                                                 /\ a.reply = r.reply /\ a.id = r.id
            /\ a.pc \in {"call", "failed", "hit"}
      BY <2>2 DEF LookedUp
    <3>2. a.pc = "hit" => a.reply.usable /\ a.reply.model = a.expects /\ NamesRow(a, fcRows)
      BY <3>1 DEF FC!Servable, FC!InSlot, CallsInv, NamesRow
    <3>3. Knows(a) /\ NamesRow(a, fcRows)
      BY <2>1, <2>2, <3>1, <3>2 DEF Knows, NamesRow
    <3> QED
      BY <2>2, <3>1, <3>3, OneKnows
  <2>3. CASE fcRows' = fcRows /\ (Begins(c) \/ AnswersCall(c) \/ Refuses(c) \/ RetriesOrStops(c) \/ Dies(c))
    <3>1. PICK a \in Askers(made) : OneMoves(c, a) /\ Knows(a) /\ a.pc \notin {"hit", "served"}
      <4>1. CASE Begins(c)
        BY <4>1 DEF Begins, Knows
      <4>2. CASE AnswersCall(c)
        BY <2>1, <4>2 DEF AnswersCall, Knows, Askers
      <4>3. CASE Refuses(c)
        BY <2>1, <4>3 DEF Refuses, Knows, Askers
      <4>4. CASE RetriesOrStops(c)
        BY <2>1, <4>4 DEF RetriesOrStops, Knows, Askers
      <4>5. CASE Dies(c)
        BY <4>5 DEF Dies, Knows
      <4> QED
        BY <2>3, <4>1, <4>2, <4>3, <4>4, <4>5
    <3>2. NamesRow(a, fcRows)
      BY <3>1 DEF NamesRow
    <3> QED
      BY <2>3, <3>1, <3>2, OneKnows
  <2>4. CASE FC!LogHit(c)
    <3>1. PICK pc \in {"served", "failed"}, id \in Nat :
              /\ fcAt' = [fcAt EXCEPT ![c].pc = pc, ![c].id = id]
              /\ \/ /\ FC!Insert(c, "none", TRUE, fcAt[c].id) /\ id \in {fcAt[c].id, made + 1}
                 \/ UNCHANGED <<fcRows, made>> /\ id = fcAt[c].id
      BY <2>4, LogHitSteps
    <3>2. fcAt[c].pc = "hit" /\ fcAt[c].id \in 0 .. made /\ "none" \in FC!ErrorType
      BY <2>1, <2>4, LogHitSteps DEF Askers, FC!ErrorType
    <3> DEFINE a == [fcAt[c] EXCEPT !.pc = pc, !.id = id]
    <3>3. OneMoves(c, a)
      BY <3>1 DEF OneMoves
    <3>4. /\ a.pc = pc /\ a.id = id /\ a.reply = fcAt[c].reply /\ a.expects = fcAt[c].expects
          /\ a.answered = fcAt[c].answered /\ a.error = fcAt[c].error
      BY <2>1 DEF Askers
    <3> HIDE DEF a
    <3>5. Knows(a)
      BY <2>1, <3>2, <3>4 DEF Knows
    <3>6. CASE FC!Insert(c, "none", TRUE, fcAt[c].id) /\ id \in {fcAt[c].id, made + 1}
      <4>1. PICK row : /\ fcRows' = fcRows \cup {row} /\ row.id = made + 1 /\ row.reply = fcAt[c].reply
        <5>1. TRUE \in BOOLEAN /\ FC!Insert(c, "none", TRUE, fcAt[c].id)
          BY <3>6
        <5>2. /\ made' = made + 1
              /\ \E row \in CallRows(made') :
                   /\ fcRows' = fcRows \cup {row} /\ row \notin fcRows
                   /\ row.id = made' /\ row.key = FC!Key(c) /\ row.error = "none" /\ row.hit = TRUE
                   /\ row.reply = fcAt[c].reply
          BY <3>2, <5>1, InsertTyped
        <5> QED
          BY <5>2
      <4>2. NamesRow(a, fcRows')
        BY <2>1, <3>2, <3>4, <3>6, <4>1 DEF NamesRow
      <4>3. row.reply.usable
        BY <2>1, <3>2, <4>1 DEF Knows
      <4> QED
        BY <3>3, <3>5, <4>1, <4>2, <4>3, OneKnows
    <3>7. CASE UNCHANGED <<fcRows, made>> /\ id = fcAt[c].id
      <4>1. NamesRow(a, fcRows)
        BY <2>1, <3>2, <3>4, <3>7 DEF NamesRow
      <4> QED
        BY <3>3, <3>5, <3>7, <4>1, OneKnows
    <3> QED
      BY <3>1, <3>6, <3>7
  <2>5. CASE FC!Log(c)
    <3>1. fcAt[c].pc = "log" /\ (LogInserts(c) \/ LogDrops(c) \/ LogTaken(c) \/ LogLost(c))
      BY <2>5, LogSteps
    <3>2. /\ FC!AfterLog(c) \in {"served", "wait", "failed"}
          /\ FC!AfterLog(c) = "served" => fcAt[c].error \in {"none", "taken", "fallback"}
          /\ FC!AfterLog(c) = "wait" => fcAt[c].error = "transient"
      BY DEF FC!AfterLog, FC!Retryable
    <3>3. fcAt[c].error \in FC!ErrorType /\ FALSE \in BOOLEAN /\ 0 \in 0 .. made
      BY <2>1 DEF Askers
    <3>4. CASE LogInserts(c)
      <4>1. PICK a : Holds(c, a) /\ a.error = fcAt[c].error /\ a.pc = FC!AfterLog(c) /\ a.id = made'
        BY <3>4 DEF LogInserts
      <4>2. PICK row : /\ fcRows' = fcRows \cup {row} /\ row.id = made' /\ row.reply = fcAt[c].reply
                       /\ row.error = fcAt[c].error
        <5>1. FC!Insert(c, fcAt[c].error, FALSE, 0)
          BY <3>4 DEF LogInserts
        <5>2. \E row \in CallRows(made') :
                /\ fcRows' = fcRows \cup {row} /\ row \notin fcRows
                /\ row.id = made' /\ row.key = FC!Key(c) /\ row.error = fcAt[c].error /\ row.hit = FALSE
                /\ row.reply = fcAt[c].reply
          BY <3>3, <5>1, InsertTyped
        <5> QED
          BY <5>2
      <4>3. Knows(a)
        BY <2>1, <3>1, <3>2, <4>1 DEF Knows, Holds
      <4>4. NamesRow(a, fcRows')
        BY <4>1, <4>2 DEF NamesRow, Holds
      <4>5. row.error = "none" => row.reply.usable
        BY <2>1, <3>1, <4>2 DEF Knows
      <4> QED
        BY <4>1, <4>2, <4>3, <4>4, <4>5, OneKnows DEF Holds
    <3>5. CASE LogDrops(c) \/ LogTaken(c) \/ LogLost(c)
      <4>1. PICK a : /\ Holds(c, a)
                     /\ \/ SlotTaken(c) /\ a.error = fcAt[c].error /\ a.pc = "served" /\ a.id = 0
                        \/ SlotTaken(c) /\ a.error = "taken" /\ a.pc = "log"
                        \/ a.error = fcAt[c].error /\ a.pc \in {"failed", FC!AfterLog(c)} /\ a.id = 0
        BY <3>5 DEF LogDrops, LogTaken, LogLost
      <4>2. Knows(a)
        BY <2>1, <3>1, <3>2, <4>1 DEF Knows, Holds, SlotTaken
      <4>3. NamesRow(a, fcRows)
        BY <3>2, <4>1 DEF NamesRow
      <4>4. fcRows' = fcRows
        BY <3>5 DEF LogDrops, LogTaken, LogLost
      <4> QED
        BY <4>1, <4>2, <4>3, <4>4, OneKnows DEF Holds
    <3> QED
      BY <3>1, <3>4, <3>5
  <2> QED
    BY <1>2, <2>2, <2>3, <2>4, <2>5 DEF CallStep
<1>3. CASE UNCHANGED <<fcAt, fcRows>>
  BY <1>3 DEF CallsInv, Knows, NamesRow
<1> QED
  BY <1>2, <1>3, CallsStep DEF FC!Repin, FC!vars, FC!table

\* ServedByExpected, AnswerIsAttributed and PaidOnce: an answer handed out is
\* usable and of the model expected, or marked as a fallback's; the row a result
\* names holds that answer, whichever caller won the slot; and one invocation
\* pays for one reply at most, through every retry (fn.go Invoke, eval.go JudgeChunkWithBook).
THEOREM AnswersAreUsable ==
  ASSUME CallConstants
  PROVE  FC!Spec => [](FC!ServedByExpected /\ FC!AnswerIsAttributed /\ FC!PaidOnce)
<1>1. CallsInv => FC!ServedByExpected /\ FC!AnswerIsAttributed /\ FC!PaidOnce
  BY DEF CallsInv, Knows, NamesRow, FC!ServedByExpected, FC!AnswerIsAttributed, FC!PaidOnce
<1> QED
  BY <1>1, CallsTyped, CallsKept, PTL DEF FC!Spec

\* Under one pinned model a slot holds an answer of the model that is expected.
SlotsHold ==
  fcKind = "judge" \/ changes = MaxChanges =>
    /\ \A k \in kept : \E r \in fcRows : FC!Servable(r, k[1], k[2])
    /\ \A r \in fcRows : r.error = "none" /\ ~r.hit =>
         r.reply.model = IF fcKind = "judge" THEN r.key ELSE expected
    /\ fcKind = "fn" => \A c \in Callers : fcAt[c].pc \notin FC!Ended => fcAt[c].expects = expected

LEMMA SlotsKept ==
  ASSUME CallConstants
  PROVE  /\ FC!Init => SlotsHold
         /\ CallsType /\ CallsInv /\ SlotsHold /\ [FC!Next]_(FC!vars) => SlotsHold'
<1>1. FC!Init => SlotsHold
  BY DEF FC!Init, FC!Idle, FC!table, FC!Ended, SlotsHold
<1> SUFFICES ASSUME CallsType, CallsInv, SlotsHold, [FC!Next]_(FC!vars),
                    (fcKind = "judge" \/ changes = MaxChanges)'
             PROVE  /\ \A k \in kept' : \E r \in fcRows' : FC!Servable(r, k[1], k[2])
                    /\ \A r \in fcRows' : r.error = "none" /\ ~r.hit =>
                         r.reply.model = IF fcKind' = "judge" THEN r.key ELSE expected'
                    /\ fcKind' = "fn" => \A c \in Callers : fcAt'[c].pc \notin FC!Ended => fcAt'[c].expects = expected'
  BY <1>1 DEF SlotsHold, FC!Servable, FC!InSlot, FC!Ended
<1> DEFINE Rows(ks, rs) == \A k \in ks : \E r \in rs : FC!Servable(r, k[1], k[2])
           Model(r) == r.reply.model = IF fcKind = "judge" THEN r.key ELSE expected
           Asked == fcKind = "fn" => \A c \in Callers : fcAt'[c].pc \notin FC!Ended => fcAt'[c].expects = expected
\* Steps of one caller, with its row if it inserts one.
<1>2. ASSUME UNCHANGED <<fcKind, expected, changes>>
      PROVE  /\ Rows(kept, fcRows) /\ (\A r \in fcRows : r.error = "none" /\ ~r.hit => Model(r))
             /\ fcKind = "fn" => \A c \in Callers : fcAt[c].pc \notin FC!Ended => fcAt[c].expects = expected
  BY <1>2 DEF SlotsHold
<1>3. ASSUME NEW c \in Callers, NEW a, OneMoves(c, a), UNCHANGED <<fcKind, expected, changes>>,
             a.pc \notin FC!Ended => a.expects = expected \/ (fcAt[c].pc \notin FC!Ended /\ a.expects = fcAt[c].expects)
      PROVE  Asked
  <2>1. fcAt'[c] = a /\ \A d \in Callers \ {c} : fcAt'[d] = fcAt[d]
    BY <1>3, Moves
  <2> QED
    BY <1>2, <1>3, <2>1
<1>4. ASSUME NEW c \in Callers, CallStep(c)
      PROVE  /\ Rows(kept', fcRows') /\ (\A r \in fcRows' : r.error = "none" /\ ~r.hit => Model(r))
             /\ Asked /\ UNCHANGED <<fcKind, expected>>
  <2>1. fcAt[c] \in Askers(made) /\ Knows(fcAt[c]) /\ made \in Nat
    BY AskerTyped DEF CallsInv, CallsType
  <2>2. CASE /\ LookedUp(c) /\ fcAt[c].pc = "lookup"
             /\ UNCHANGED <<fcKind, expected, fcRows, made, paid, begun, dropped, kept, changes>>
    <3>1. \E a : OneMoves(c, a) /\ a.expects = fcAt[c].expects
      BY <2>2 DEF LookedUp
    <3>2. Asked
      BY <1>3, <2>2, <3>1 DEF FC!Ended
    <3> QED
      BY <1>2, <2>2, <3>2
  <2>3. CASE /\ UNCHANGED <<fcKind, expected, fcRows, made, dropped, kept, changes>>
             /\ Begins(c) \/ AnswersCall(c) \/ Refuses(c) \/ RetriesOrStops(c) \/ Dies(c)
    <3>1. \E a : /\ OneMoves(c, a)
                 /\ \/ a.expects = expected \/ a.pc \in FC!Ended
                    \/ fcAt[c].pc \notin FC!Ended /\ a.expects = fcAt[c].expects
      BY <2>3 DEF Begins, AnswersCall, Refuses, RetriesOrStops, Dies, FC!Ended
    <3>2. Asked
      BY <1>3, <2>3, <3>1
    <3> QED
      BY <1>2, <2>3, <3>2
  <2>4. CASE FC!LogHit(c)
    <3>1. /\ fcAt[c].pc = "hit" /\ UNCHANGED <<fcKind, expected, kept, changes>>
          /\ \E pc \in {"served", "failed"}, id \in Nat :
              /\ fcAt' = [fcAt EXCEPT ![c].pc = pc, ![c].id = id]
              /\ \/ /\ FC!Insert(c, "none", TRUE, fcAt[c].id) /\ id \in {fcAt[c].id, made + 1}
                 \/ UNCHANGED <<fcRows, made>> /\ id = fcAt[c].id
      BY <2>4, LogHitSteps
    <3>2. PICK pc \in {"served", "failed"}, id \in Nat :
              /\ fcAt' = [fcAt EXCEPT ![c].pc = pc, ![c].id = id]
              /\ \/ /\ FC!Insert(c, "none", TRUE, fcAt[c].id) /\ id \in {fcAt[c].id, made + 1}
                 \/ UNCHANGED <<fcRows, made>> /\ id = fcAt[c].id
      BY <3>1
    <3>3. Asked
      <4> DEFINE a == [fcAt[c] EXCEPT !.pc = pc, !.id = id]
      <4>1. OneMoves(c, a) /\ a.pc \in FC!Ended
        BY <2>1, <3>2 DEF OneMoves, Askers, FC!Ended
      <4> HIDE DEF a
      <4> QED
        BY <1>3, <3>1, <4>1
    <3>4. fcRows \subseteq fcRows' /\ \A r \in fcRows' \ fcRows : r.hit = TRUE
      <4>1. CASE FC!Insert(c, "none", TRUE, fcAt[c].id)
        <5>1. TRUE \in BOOLEAN /\ "none" \in FC!ErrorType /\ fcAt[c].id \in 0 .. made
          BY <2>1 DEF Askers, FC!ErrorType
        <5>2. \E row \in CallRows(made') :
                 /\ fcRows' = fcRows \cup {row} /\ row \notin fcRows
                 /\ row.id = made' /\ row.key = FC!Key(c) /\ row.error = "none" /\ row.hit = TRUE
                 /\ row.reply = fcAt[c].reply
          BY <4>1, <5>1, InsertTyped
        <5> QED
          BY <5>2
      <4> QED
        BY <3>2, <4>1
    <3> QED
      BY <1>2, <3>1, <3>3, <3>4
  <2>5. CASE FC!Log(c)
    <3>1. /\ fcAt[c].pc = "log" /\ UNCHANGED <<fcKind, expected, changes>>
          /\ kept' = IF fcAt[c].error = "none" /\ fcFaults' = fcFaults
                     THEN kept \cup {<<FC!Key(c), fcAt[c].expects>>} ELSE kept
          /\ LogInserts(c) \/ LogDrops(c) \/ LogTaken(c) \/ LogLost(c)
      BY <2>5, LogSteps
    <3>2. Asked
      <4>1. \E a : Holds(c, a)
        BY <3>1 DEF LogInserts, LogDrops, LogTaken, LogLost
      <4> QED
        BY <1>3, <3>1, <4>1 DEF Holds, FC!Ended
    <3>3. /\ fcKind \in {"fn", "judge"}
          /\ fcKind = "judge" => FC!Key(c) = fcAt[c].expects
          /\ fcKind = "fn" => fcAt[c].expects = expected
          /\ fcAt[c].error = "none" => fcAt[c].reply.model = fcAt[c].expects
      BY <1>2, <2>1, <3>1 DEF CallsType, FC!Key, FC!Ended, Knows
    <3>4. /\ fcRows \subseteq fcRows'
          /\ \A r \in fcRows' \ fcRows : r.error = "none" /\ ~r.hit => Model(r)
          /\ fcAt[c].error = "none" /\ fcFaults' = fcFaults =>
                 \E r \in fcRows' : FC!Servable(r, FC!Key(c), fcAt[c].expects)
      <4>1. CASE LogInserts(c)
        <5>1. fcAt[c].error \in FC!ErrorType /\ FALSE \in BOOLEAN /\ 0 \in 0 .. made
          BY <2>1 DEF Askers
        <5>3. FC!Insert(c, fcAt[c].error, FALSE, 0)
          BY <4>1 DEF LogInserts
        <5>2. \E row \in CallRows(made') :
                /\ fcRows' = fcRows \cup {row} /\ row \notin fcRows
                /\ row.id = made' /\ row.key = FC!Key(c) /\ row.error = fcAt[c].error /\ row.hit = FALSE
                /\ row.reply = fcAt[c].reply
          BY <5>1, <5>3, InsertTyped
        <5> QED
          BY <3>3, <5>2 DEF FC!Servable, FC!InSlot
      <4>2. CASE LogDrops(c) \/ LogTaken(c)
        <5>1. fcRows' = fcRows /\ ~FC!SlotFree(FC!Key(c))
          BY <4>2 DEF LogDrops, LogTaken, SlotTaken
        <5>2. PICK r \in fcRows : FC!InSlot(r, FC!Key(c))
          BY <5>1 DEF FC!SlotFree
        <5>3. r.reply.model = fcAt[c].expects
          BY <1>2, <3>1, <3>3, <5>2 DEF FC!InSlot
        <5> QED
          BY <5>1, <5>2, <5>3 DEF FC!Servable
      <4>3. CASE LogLost(c)
        <5>1. fcRows' = fcRows /\ fcFaults' = fcFaults - 1 /\ fcFaults \in Nat
          BY <4>3 DEF LogLost, CallsType, CallConstants
        <5> QED
          BY <5>1
      <4> QED
        BY <3>1, <4>1, <4>2, <4>3
    <3>5. Rows(kept', fcRows')
      BY <1>2, <3>1, <3>4
    <3> QED
      BY <1>2, <3>1, <3>2, <3>4, <3>5
  <2> QED
    BY <1>4, <2>2, <2>3, <2>4, <2>5 DEF CallStep
<1>5. ASSUME NEW m \in Models, FC!Repin(m)
      PROVE  /\ fcKind' = "judge" /\ UNCHANGED <<fcKind, kept, fcRows>>
             /\ Rows(kept, fcRows) /\ \A r \in fcRows : r.error = "none" /\ ~r.hit => r.reply.model = r.key
  <2>1. changes' = changes - 1 /\ changes \in 0 .. MaxChanges /\ UNCHANGED <<fcKind, kept, fcRows>>
    BY <1>5 DEF FC!Repin, FC!table, CallsType
  <2>2. fcKind = "judge"
    BY <2>1 DEF CallConstants
  <2> QED
    BY <2>1, <2>2 DEF SlotsHold
<1>6. CASE UNCHANGED FC!vars
  BY <1>6 DEF FC!vars, FC!table, SlotsHold
<1> QED
  BY <1>4, <1>5, <1>6, CallsStep

\* AnswersAreKept: a usable answer of the expected model that was logged, or
\* dropped because its slot was taken, serves the next caller, as long as no
\* model was repinned under a function's key (fncalls.go fn_calls_cache_key_idx).
THEOREM AnswersServeAgain ==
  ASSUME CallConstants
  PROVE  FC!Spec => []FC!AnswersAreKept
<1>1. SlotsHold => FC!AnswersAreKept
  BY DEF SlotsHold, FC!AnswersAreKept
<1> QED
  BY <1>1, CallsTyped, CallsKept, SlotsKept, PTL DEF FC!Spec

\* A reply that was paid for is in a row, on its way to one, or accounted for.
PaidInv ==
  /\ IsFiniteSet(fcRows)
  /\ paid <= Cardinality(FC!Logged) + Cardinality(FC!InFlight) + dropped + (MaxCallFaults - fcFaults)

\* One caller moves: at most one reply more, or one less, is on its way.
LEMMA InFlightMoves ==
  ASSUME CallsType, IsFiniteSet(Callers), NEW c \in Callers, NEW a, OneMoves(c, a)
  PROVE  /\ IsFiniteSet(FC!InFlight) /\ IsFiniteSet(FC!InFlight')
         /\ c \notin FC!InFlight \/ c \in FC!InFlight' => Cardinality(FC!InFlight) <= Cardinality(FC!InFlight')
         /\ c \notin FC!InFlight /\ c \in FC!InFlight' => Cardinality(FC!InFlight) + 1 <= Cardinality(FC!InFlight')
         /\ Cardinality(FC!InFlight) <= Cardinality(FC!InFlight') + 1
         /\ Cardinality(FC!InFlight) \in Nat /\ Cardinality(FC!InFlight') \in Nat
<1> DEFINE before == FC!InFlight
           after == FC!InFlight'
<1>1. IsFiniteSet(before) /\ IsFiniteSet(after)
  <2>1. before \subseteq Callers /\ after \subseteq Callers
    BY DEF FC!InFlight
  <2> QED
    BY <2>1, FS_Subset
<1>2. \A d \in Callers \ {c} : fcAt'[d] = fcAt[d]
  BY Moves
<1>3. before \ {c} \subseteq after \ {c} /\ after \ {c} \subseteq before \ {c}
  BY <1>2 DEF FC!InFlight
<1> HIDE DEF before, after
<1>4. after = before \/ after = before \cup {c} \/ after = before \ {c}
  BY <1>3
<1>5. /\ Cardinality(before) \in Nat /\ Cardinality(after) \in Nat
      /\ Cardinality(before \cup {c}) = IF c \in before THEN Cardinality(before) ELSE Cardinality(before) + 1
      /\ Cardinality(before \ {c}) = IF c \in before THEN Cardinality(before) - 1 ELSE Cardinality(before)
  BY <1>1, FS_AddElement, FS_RemoveElement, FS_CardinalityType
<1>6. CASE after = before
  BY <1>1, <1>5, <1>6 DEF before, after
<1>7. CASE after = before \cup {c}
  BY <1>1, <1>5, <1>7 DEF before, after
<1>8. CASE after = before \ {c}
  BY <1>1, <1>5, <1>8 DEF before, after
<1> QED
  BY <1>4, <1>6, <1>7, <1>8

\* The instance counts as this module does.
LEMMA SameCount ==
  ASSUME NEW S PROVE FC!Cardinality(S) = Cardinality(S)
  BY DEF FC!Cardinality, Cardinality

\* The rows of replies that were paid for.
LEMMA LoggedGrows ==
  ASSUME IsFiniteSet(fcRows), NEW row, fcRows' = fcRows \cup {row}, row \notin fcRows
  PROVE  /\ IsFiniteSet(fcRows') /\ IsFiniteSet(FC!Logged) /\ IsFiniteSet(FC!Logged')
         /\ Cardinality(FC!Logged) \in Nat
         /\ Cardinality(FC!Logged') = Cardinality(FC!Logged) + IF ~row.hit /\ row.reply.n # 0 THEN 1 ELSE 0
<1>1. IsFiniteSet(fcRows')
  BY FS_AddElement
<1>2. IsFiniteSet(FC!Logged) /\ IsFiniteSet(FC!Logged')
  <2>1. FC!Logged \subseteq fcRows /\ FC!Logged' \subseteq fcRows'
    BY DEF FC!Logged
  <2> QED
    BY <1>1, <2>1, FS_Subset
<1>3. FC!Logged' = IF ~row.hit /\ row.reply.n # 0 THEN FC!Logged \cup {row} ELSE FC!Logged
  BY DEF FC!Logged
<1>4. row \notin FC!Logged
  BY DEF FC!Logged
<1>5. Cardinality(FC!Logged) \in Nat /\ Cardinality(FC!Logged \cup {row}) = Cardinality(FC!Logged) + 1
  BY <1>2, <1>4, FS_AddElement, FS_CardinalityType
<1> QED
  BY <1>1, <1>2, <1>3, <1>5

LEMMA PaidKept ==
  ASSUME CallConstants, IsFiniteSet(Callers)
  PROVE  /\ FC!Init => PaidInv
         /\ CallsType /\ PaidInv /\ [FC!Next]_(FC!vars) => PaidInv'
<1>1. ASSUME FC!Init PROVE PaidInv
  <2>1. fcRows = {} /\ paid = 0 /\ dropped = 0 /\ fcFaults = MaxCallFaults /\ FC!Logged = {}
        /\ fcAt = [c \in Callers |-> FC!Idle]
    BY <1>1 DEF FC!Init, FC!table, FC!Logged
  <2>2. FC!InFlight = {}
    BY <2>1 DEF FC!InFlight, FC!Idle
  <2>3. IsFiniteSet({}) /\ Cardinality({}) = 0
    BY FS_EmptySet
  <2>4. IsFiniteSet(fcRows) /\ Cardinality(FC!Logged) = 0 /\ Cardinality(FC!InFlight) = 0
    BY <2>1, <2>2, <2>3
  <2>5. paid <= Cardinality(FC!Logged) + Cardinality(FC!InFlight) + dropped + (MaxCallFaults - fcFaults)
    BY <2>1, <2>4 DEF CallConstants
  <2> QED
    BY <2>1, <2>4, <2>5 DEF PaidInv
<1> SUFFICES ASSUME CallsType, PaidInv, [FC!Next]_(FC!vars) PROVE PaidInv'
  BY <1>1
<1> DEFINE L == Cardinality(FC!Logged)
           F == Cardinality(FC!InFlight)
<1>2. /\ paid \in Nat /\ dropped \in Nat /\ fcFaults \in Nat /\ MaxCallFaults \in Nat /\ IsFiniteSet(fcRows)
      /\ paid <= L + F + dropped + (MaxCallFaults - fcFaults)
  <2>1. paid \in Nat /\ dropped \in Nat /\ fcFaults \in Nat /\ MaxCallFaults \in Nat
    BY DEF CallsType, CallConstants
  <2> QED
    BY <2>1 DEF PaidInv
<1>3. IsFiniteSet(FC!Logged) /\ IsFiniteSet(FC!InFlight) /\ L \in Nat /\ F \in Nat
  <2>1. FC!Logged \subseteq fcRows /\ FC!InFlight \subseteq Callers
    BY DEF FC!Logged, FC!InFlight
  <2> QED
    BY <1>2, <2>1, FS_Subset, FS_CardinalityType
<1>4. fcRows' = fcRows => L' = L
  BY DEF FC!Logged
\* One caller moves, and what it gives up is accounted for.
<1>5. ASSUME NEW c \in Callers, NEW a, OneMoves(c, a), IsFiniteSet(fcRows'), L' \in Nat, L <= L',
             dropped' \in Nat, fcFaults' \in Nat,
             \/ /\ paid' = paid /\ dropped <= dropped' /\ fcFaults' <= fcFaults
                /\ \/ c \notin FC!InFlight \/ c \in FC!InFlight'
                   \/ L' = L + 1 \/ dropped' = dropped + 1 \/ fcFaults' = fcFaults - 1
             \/ /\ paid' = paid + 1 /\ dropped' = dropped /\ fcFaults' = fcFaults
                /\ c \notin FC!InFlight /\ c \in FC!InFlight'
      PROVE  PaidInv'
  <2>1. /\ (c \notin FC!InFlight \/ c \in FC!InFlight') => F <= F'
        /\ (c \notin FC!InFlight /\ c \in FC!InFlight') => F + 1 <= F'
        /\ F <= F' + 1 /\ F' \in Nat
    BY <1>5, InFlightMoves
  <2>2. /\ paid' \in Nat /\ L <= L' /\ dropped <= dropped' /\ fcFaults' <= fcFaults
        /\ \/ paid' = paid /\ (F <= F' \/ L' = L + 1 \/ dropped' = dropped + 1 \/ fcFaults' = fcFaults - 1)
           \/ paid' = paid + 1 /\ F + 1 <= F'
    <3> HIDE DEF L, F
    <3> QED
      BY <1>2, <1>5, <2>1
  <2>3. PICK l \in Nat, f \in Nat, l1 \in Nat, f1 \in Nat : l = L /\ f = F /\ l1 = L' /\ f1 = F'
    BY <1>3, <1>5, <2>1
  <2>4. /\ dropped \in Nat /\ fcFaults \in Nat /\ paid \in Nat /\ MaxCallFaults \in Nat
        /\ dropped' \in Nat /\ fcFaults' \in Nat /\ paid' \in Nat
        /\ l <= l1 /\ dropped <= dropped' /\ fcFaults' <= fcFaults
        /\ paid <= l + f + dropped + (MaxCallFaults - fcFaults)
        /\ \/ paid' = paid /\ (f <= f1 \/ l1 = l + 1 \/ dropped' = dropped + 1 \/ fcFaults' = fcFaults - 1)
           \/ paid' = paid + 1 /\ f + 1 <= f1
        /\ f <= f1 + 1
    BY <1>2, <1>5, <2>1, <2>2, <2>3
  <2>5. paid' <= l1 + f1 + dropped' + (MaxCallFaults - fcFaults')
    BY <2>3, <2>4
  <2> QED
    BY <1>5, <2>3, <2>5 DEF PaidInv
<1>6. ASSUME NEW c \in Callers, CallStep(c) PROVE PaidInv'
  <2>1. fcAt[c] \in Askers(made) /\ made \in Nat
    BY AskerTyped DEF CallsType
  <2>2. CASE /\ LookedUp(c) /\ fcAt[c].pc = "lookup" /\ fcFaults' \in 0 .. MaxCallFaults /\ fcFaults' <= fcFaults
             /\ UNCHANGED <<fcKind, expected, fcRows, made, paid, begun, dropped, kept, changes>>
    <3>1. PICK a : OneMoves(c, a)
      BY <2>2 DEF LookedUp
    <3>2. c \notin FC!InFlight
      BY <2>2 DEF FC!InFlight
    <3> QED
      BY <1>2, <1>3, <1>4, <1>5, <2>2, <3>1, <3>2
  <2>3. CASE /\ UNCHANGED <<fcKind, expected, fcRows, made, dropped, kept, changes>>
             /\ Begins(c) \/ Refuses(c) \/ RetriesOrStops(c) \/ Dies(c)
    <3>1. PICK a : OneMoves(c, a)
      BY <2>3 DEF Begins, Refuses, RetriesOrStops, Dies
    <3>2. /\ paid' = paid /\ fcFaults' <= fcFaults /\ fcFaults' \in Nat
          /\ fcAt[c].pc # "log" \/ fcFaults' = fcFaults - 1
      BY <1>2, <2>3 DEF Begins, Refuses, RetriesOrStops, Dies, FC!Ended
    <3>3. c \notin FC!InFlight \/ fcFaults' = fcFaults - 1
      BY <3>2 DEF FC!InFlight
    <3> QED
      BY <1>2, <1>3, <1>4, <1>5, <2>3, <3>1, <3>2, <3>3
  <2>4. CASE /\ UNCHANGED <<fcKind, expected, fcRows, made, dropped, kept, changes>> /\ AnswersCall(c)
    <3>1. PICK a : OneMoves(c, a) /\ a.pc = "log" /\ a.reply.n = paid + 1
      BY <2>4 DEF AnswersCall
    <3>2. c \notin FC!InFlight
      BY <2>4 DEF AnswersCall, FC!InFlight
    <3>3. c \in FC!InFlight'
      <4>1. fcAt'[c] = a
        BY <3>1, Moves
      <4> QED
        BY <1>2, <3>1, <4>1 DEF FC!InFlight
    <3> QED
      BY <1>2, <1>3, <1>4, <1>5, <2>4, <3>1, <3>2, <3>3 DEF AnswersCall
  <2>5. CASE FC!LogHit(c)
    <3>1. /\ fcAt[c].pc = "hit" /\ UNCHANGED <<paid, dropped>> /\ fcFaults' \in 0 .. MaxCallFaults /\ fcFaults' <= fcFaults
      BY <2>5, LogHitSteps
    <3>2. PICK pc \in {"served", "failed"}, id \in Nat :
              /\ fcAt' = [fcAt EXCEPT ![c].pc = pc, ![c].id = id]
              /\ \/ /\ FC!Insert(c, "none", TRUE, fcAt[c].id) /\ id \in {fcAt[c].id, made + 1}
                 \/ UNCHANGED <<fcRows, made>> /\ id = fcAt[c].id
      BY <2>5, LogHitSteps
    <3>3. OneMoves(c, [fcAt[c] EXCEPT !.pc = pc, !.id = id])
      BY <3>2 DEF OneMoves
    <3>4. IsFiniteSet(fcRows') /\ L' \in Nat /\ L <= L'
      <4>1. CASE FC!Insert(c, "none", TRUE, fcAt[c].id)
        <5>1. TRUE \in BOOLEAN /\ "none" \in FC!ErrorType /\ fcAt[c].id \in 0 .. made
          BY <2>1 DEF Askers, FC!ErrorType
        <5>2. PICK row : fcRows' = fcRows \cup {row} /\ row \notin fcRows
          BY <4>1, <5>1, InsertTyped
        <5>3. IsFiniteSet(fcRows') /\ L' = L + IF ~row.hit /\ row.reply.n # 0 THEN 1 ELSE 0
          BY <1>2, <5>2, LoggedGrows
        <5> QED
          BY <1>3, <5>3
      <4>2. CASE UNCHANGED <<fcRows, made>>
        BY <1>2, <1>3, <1>4, <4>2
      <4> QED
        BY <3>2, <4>1, <4>2
    <3>5. c \notin FC!InFlight
      BY <3>1 DEF FC!InFlight
    <3> QED
      BY <1>2, <1>5, <3>1, <3>3, <3>4, <3>5
  <2>6. CASE FC!Log(c)
    <3>1. /\ fcAt[c].pc = "log" /\ paid' = paid
          /\ LogInserts(c) \/ LogDrops(c) \/ LogTaken(c) \/ LogLost(c)
      BY <2>6, LogSteps
    <3>2. PICK a : Holds(c, a) /\ (LogTaken(c) => a.pc = "log")
      BY <3>1 DEF LogInserts, LogDrops, LogTaken, LogLost
    <3>3. OneMoves(c, a) /\ fcAt'[c] = a /\ a.reply = fcAt[c].reply
      BY <3>2, Moves DEF Holds
    <3>4. CASE LogInserts(c)
      <4>1. fcAt[c].error \in FC!ErrorType /\ FALSE \in BOOLEAN /\ 0 \in 0 .. made
        BY <2>1 DEF Askers
      <4>2. FC!Insert(c, fcAt[c].error, FALSE, 0) /\ UNCHANGED <<dropped, fcFaults>>
        BY <3>4 DEF LogInserts
      <4>. \E row \in CallRows(made') :
              /\ fcRows' = fcRows \cup {row} /\ row \notin fcRows
              /\ row.id = made' /\ row.key = FC!Key(c) /\ row.error = fcAt[c].error /\ row.hit = FALSE
              /\ row.reply = fcAt[c].reply
        BY <4>1, <4>2, InsertTyped
      <4>3. PICK row : fcRows' = fcRows \cup {row} /\ row \notin fcRows /\ row.hit = FALSE /\ row.reply = fcAt[c].reply
        OBVIOUS
      <4>4. IsFiniteSet(fcRows') /\ L' = L + IF ~row.hit /\ row.reply.n # 0 THEN 1 ELSE 0
        BY <1>2, <4>3, LoggedGrows
      <4>5. c \in FC!InFlight => row.reply.n # 0
        BY <4>3 DEF FC!InFlight
      <4>6. L' \in Nat /\ L <= L' /\ (c \notin FC!InFlight \/ L' = L + 1)
        BY <1>3, <4>3, <4>4, <4>5
      <4> QED
        BY <1>2, <1>5, <3>1, <3>3, <4>2, <4>4, <4>6
    <3>5. CASE LogDrops(c)
      BY <1>2, <1>3, <1>4, <1>5, <3>1, <3>3, <3>5 DEF LogDrops
    <3>6. CASE LogTaken(c)
      <4>1. c \in FC!InFlight => c \in FC!InFlight'
        BY <3>2, <3>3, <3>6 DEF FC!InFlight
      <4> QED
        BY <1>2, <1>3, <1>4, <1>5, <3>1, <3>3, <3>6, <4>1 DEF LogTaken
    <3>7. CASE LogLost(c)
      BY <1>2, <1>3, <1>4, <1>5, <3>1, <3>3, <3>7 DEF LogLost
    <3> QED
      BY <3>1, <3>4, <3>5, <3>6, <3>7
  <2> QED
    BY <1>6, <2>2, <2>3, <2>4, <2>5, <2>6 DEF CallStep
<1>7. ASSUME UNCHANGED <<fcAt, fcRows, paid, dropped, fcFaults>> PROVE PaidInv'
  BY <1>7 DEF PaidInv, FC!InFlight, FC!Logged
<1> QED
  BY <1>6, <1>7, CallsStep DEF FC!Repin, FC!vars, FC!table

\* PaidIsLogged: every reply that was paid for has its row, except for a lost
\* write, a death, or an answer that found its slot taken (calls.go logCall).
THEOREM RepliesAreLogged ==
  ASSUME CallConstants, IsFiniteSet(Callers)
  PROVE  FC!Spec => []FC!PaidIsLogged
<1>1. PaidInv => FC!PaidIsLogged
  BY SameCount DEF PaidInv, FC!PaidIsLogged
<1> QED
  BY <1>1, CallsTyped, PaidKept, PTL DEF FC!Spec

-----------------------------------------------------------------------------
(* The model settings.                                                     *)

\* A deployment the config accepts: endpoints have ids of their own, and each
\* step is bound to one.
EnvOK(e) ==
  /\ \A r, q \in e.endpoints : r.id = q.id => r = q
  /\ \A s \in MS!Steps : \E r \in e.endpoints : r.id = e.role[s]
  /\ e.pin = [s \in MS!Steps |-> e.pin[s]]

SettingConstants ==
  /\ \A e \in Envs : EnvOK(e)
  /\ \A set \in Settable : set.step \in MS!Steps

\* A config has its fields and no others.
Shaped(c) ==
  c = [eps |-> c.eps, role |-> c.role, pin |-> c.pin, policy |-> c.policy, src |-> c.src, psrc |-> c.psrc]

\* What settings keep of a config: the registered endpoints are all there, an
\* endpoint that was synthesized is bound to the step it was made for.
ConfigOK(e, c) ==
  /\ Shaped(c)
  /\ c.role = [s \in MS!Steps |-> c.role[s]] /\ c.pin = [s \in MS!Steps |-> c.pin[s]]
  /\ MS!Registered(e) \subseteq c.eps
  /\ \A x, y \in c.eps : x.id = y.id => x = y
  /\ \A x \in c.eps : x \in MS!Registered(e) \/ \E t \in MS!Steps : x.id = c.role[t] /\ x.id[2] = t
  /\ \A s \in MS!Steps : \E x \in c.eps :
       x.id = c.role[s] /\ x.id[2] \in {"none", s} /\ \E r \in e.endpoints : r.id = x.id[1]

LEMMA BoundIsThere ==
  ASSUME NEW e, NEW c, ConfigOK(e, c), NEW s \in MS!Steps
  PROVE  /\ MS!Bound(c, s) \in c.eps /\ MS!Bound(c, s).id = c.role[s]
         /\ MS!Bound(c, s).id[2] \in {"none", s}
         /\ \E r \in e.endpoints : r.id = MS!Bound(c, s).id[1]
         /\ \A x \in c.eps : x.id = c.role[s] => x = MS!Bound(c, s)
<1>1. PICK x \in c.eps : x.id = c.role[s] /\ x.id[2] \in {"none", s} /\ \E r \in e.endpoints : r.id = x.id[1]
  BY DEF ConfigOK
<1>2. MS!Bound(c, s) \in c.eps /\ MS!Bound(c, s).id = c.role[s]
  BY <1>1 DEF MS!Bound
<1>3. \A y \in c.eps : y.id = c.role[s] => y = MS!Bound(c, s)
  BY <1>2 DEF ConfigOK
<1> QED
  BY <1>1, <1>2, <1>3

LEMMA RegisteredIds ==
  ASSUME NEW e, EnvOK(e)
  PROVE  /\ \A x \in MS!Registered(e) : x.id[2] = "none"
         /\ \A x, y \in MS!Registered(e) : x.id = y.id => x = y
         /\ \A r \in e.endpoints : /\ MS!OwnModel(e, r.id) = r.model
                                   /\ [id |-> <<r.id, "none">>, model |-> r.model] \in MS!Registered(e)
<1>1. \A x \in MS!Registered(e) : \E r \in e.endpoints : x = [id |-> <<r.id, "none">>, model |-> r.model]
  BY DEF MS!Registered
<1>2. \A x, y \in MS!Registered(e) : x.id = y.id => x = y
  <2> SUFFICES ASSUME NEW x \in MS!Registered(e), NEW y \in MS!Registered(e), x.id = y.id PROVE x = y
    OBVIOUS
  <2>1. PICK r \in e.endpoints : x = [id |-> <<r.id, "none">>, model |-> r.model]
    BY <1>1
  <2>2. PICK q \in e.endpoints : y = [id |-> <<q.id, "none">>, model |-> q.model]
    BY <1>1
  <2>3. r.id = q.id
    BY <2>1, <2>2
  <2> QED
    BY <2>1, <2>2, <2>3 DEF EnvOK
<1>3. ASSUME NEW r \in e.endpoints
      PROVE  MS!OwnModel(e, r.id) = r.model /\ [id |-> <<r.id, "none">>, model |-> r.model] \in MS!Registered(e)
  <2>1. (CHOOSE q \in e.endpoints : q.id = r.id) = r
    BY DEF EnvOK
  <2> QED
    BY <2>1 DEF MS!OwnModel, MS!Registered
<1> QED
  BY <1>1, <1>2, <1>3

LEMMA BaseIsOK ==
  ASSUME NEW e, EnvOK(e)
  PROVE  /\ ConfigOK(e, MS!Base(e))
         /\ \A s \in MS!Steps : MS!Base(e).role[s] = <<e.role[s], "none">> /\ MS!Base(e).pin[s] = e.pin[s]
<1> DEFINE b == MS!Base(e)
<1>1. /\ b.eps = MS!Registered(e) /\ b.role = [s \in MS!Steps |-> <<e.role[s], "none">>]
      /\ b.pin = e.pin /\ Shaped(b)
  BY DEF MS!Base, Shaped
<1>2. \A s \in MS!Steps : b.role[s] = <<e.role[s], "none">>
  BY <1>1
<1>3. ASSUME NEW s \in MS!Steps
      PROVE  \E x \in b.eps : x.id = b.role[s] /\ x.id[2] \in {"none", s} /\ \E r \in e.endpoints : r.id = x.id[1]
  <2>1. PICK r \in e.endpoints : r.id = e.role[s]
    BY DEF EnvOK
  <2> DEFINE x == [id |-> <<r.id, "none">>, model |-> r.model]
  <2>2. x \in b.eps /\ x.id = <<r.id, "none">>
    BY <1>1, RegisteredIds
  <2> QED
    BY <1>2, <2>1, <2>2
<1>4. b.role = [s \in MS!Steps |-> b.role[s]] /\ b.pin = [s \in MS!Steps |-> b.pin[s]]
  BY <1>1 DEF EnvOK
<1>5. \A x, y \in b.eps : x.id = y.id => x = y
  BY <1>1, RegisteredIds
<1> HIDE DEF b
<1>6. ConfigOK(e, b) /\ \A s \in MS!Steps : b.role[s] = <<e.role[s], "none">> /\ b.pin[s] = e.pin[s]
  BY <1>1, <1>2, <1>3, <1>4, <1>5 DEF ConfigOK
<1> QED
  BY <1>6 DEF b

\* What a setting puts in a config (applyStepSetting).
SameAs(c, set) ==
  LET cur == MS!Bound(c, set.step) IN set.pin = "none" /\ cur.model = set.model /\ cur.id[1] = set.ep
NewEndpoint(e, set) ==
  [id |-> <<set.ep, IF MS!OwnModel(e, set.ep) = set.model THEN "none" ELSE set.step>>, model |-> set.model]

LEMMA AppliedFields ==
  ASSUME NEW e, NEW c, Shaped(c), NEW set, NEW from, NEW n, n = MS!ApplySetting(e, c, set, from)
  PROVE  /\ Shaped(n)
         /\ SameAs(c, set) => n.eps = c.eps /\ n.role = c.role /\ n.pin = c.pin
         /\ ~SameAs(c, set) =>
              /\ n.eps = MS!Without(c, MS!Bound(c, set.step)) \cup {NewEndpoint(e, set)}
              /\ n.role = [c.role EXCEPT ![set.step] = NewEndpoint(e, set).id]
              /\ n.pin = [c.pin EXCEPT ![set.step] = MS!NewPin(e, c, set)]
<1> DEFINE s == set.step
           env0 == set.pin = "none" /\ MS!IsEnvBinding(e, set)
           pol == IF env0 THEN e.policy[s] ELSE "none"
           psc == IF env0 THEN "env" ELSE from
           ep == NewEndpoint(e, set)
           moved == [c EXCEPT !.eps = MS!Without(c, MS!Bound(c, s)) \cup {ep}, !.role[s] = ep.id,
                              !.pin[s] = MS!NewPin(e, c, set), !.policy[s] = pol, !.psrc[s] = psc]
           m == IF SameAs(c, set) THEN c ELSE moved
           k == [m EXCEPT !.src[s] = from]
<1>1. n = IF set.policy = "none" THEN k ELSE [k EXCEPT !.policy[s] = set.policy, !.psrc[s] = from]
  BY DEF MS!ApplySetting, SameAs, NewEndpoint
<1>2. /\ Shaped(moved) /\ moved.eps = MS!Without(c, MS!Bound(c, s)) \cup {ep}
      /\ moved.role = [c.role EXCEPT ![s] = ep.id] /\ moved.pin = [c.pin EXCEPT ![s] = MS!NewPin(e, c, set)]
  <2> DEFINE eps == MS!Without(c, MS!Bound(c, s)) \cup {ep}
             pin == MS!NewPin(e, c, set)
  <2>1. moved = [c EXCEPT !.eps = eps, !.role[s] = ep.id, !.pin[s] = pin, !.policy[s] = pol, !.psrc[s] = psc]
    OBVIOUS
  <2> HIDE DEF moved, eps, pin, pol, psc, ep, s
  <2>2. moved = [eps |-> eps, role |-> [c.role EXCEPT ![s] = ep.id], pin |-> [c.pin EXCEPT ![s] = pin],
                 policy |-> [c.policy EXCEPT ![s] = pol], src |-> c.src, psrc |-> [c.psrc EXCEPT ![s] = psc]]
    <3> DEFINE cr == [eps |-> c.eps, role |-> c.role, pin |-> c.pin, policy |-> c.policy, src |-> c.src, psrc |-> c.psrc]
    <3>1. moved = [cr EXCEPT !.eps = eps, !.role[s] = ep.id, !.pin[s] = pin, !.policy[s] = pol, !.psrc[s] = psc]
      BY <2>1 DEF Shaped
    <3> QED
      BY <3>1
  <2> QED
    BY <2>2 DEF eps, pin, Shaped
<1> HIDE DEF moved
<1>3. Shaped(m)
  BY <1>2
<1> HIDE DEF m
<1>4. Shaped(k) /\ k.eps = m.eps /\ k.role = m.role /\ k.pin = m.pin
  BY <1>3 DEF Shaped
<1> HIDE DEF k
<1>5. Shaped(n) /\ n.eps = k.eps /\ n.role = k.role /\ n.pin = k.pin
  BY <1>1, <1>4 DEF Shaped
<1>6. n.eps = m.eps /\ n.role = m.role /\ n.pin = m.pin
  BY <1>4, <1>5
<1> QED
  BY <1>2, <1>5, <1>6 DEF m, ep

\* A setting moves its own step, to the endpoint and model it names, and leaves
\* every other step where it was.
LEMMA ApplyKeeps ==
  ASSUME NEW e, EnvOK(e), NEW c, ConfigOK(e, c), NEW set, set.step \in MS!Steps,
         \E r \in e.endpoints : r.id = set.ep, NEW from, NEW n, n = MS!ApplySetting(e, c, set, from)
  PROVE  /\ ConfigOK(e, n)
         /\ \A t \in MS!Steps \ {set.step} :
              n.role[t] = c.role[t] /\ n.pin[t] = c.pin[t] /\ MS!Bound(n, t) = MS!Bound(c, t)
         /\ MS!Bound(n, set.step).id[1] = set.ep /\ MS!Bound(n, set.step).model = set.model
         /\ n.pin[set.step] = IF SameAs(c, set) THEN c.pin[set.step] ELSE MS!NewPin(e, c, set)
<1> DEFINE s == set.step
           cur == MS!Bound(c, s)
           ep == NewEndpoint(e, set)
           W == MS!Without(c, cur)
<1>1. Shaped(c)
  BY DEF ConfigOK
<1>0. /\ Shaped(n)
      /\ SameAs(c, set) => n.eps = c.eps /\ n.role = c.role /\ n.pin = c.pin
      /\ ~SameAs(c, set) =>
           /\ n.eps = MS!Without(c, MS!Bound(c, set.step)) \cup {NewEndpoint(e, set)}
           /\ n.role = [c.role EXCEPT ![set.step] = NewEndpoint(e, set).id]
           /\ n.pin = [c.pin EXCEPT ![set.step] = MS!NewPin(e, c, set)]
  BY <1>1, AppliedFields
<1>2. CASE SameAs(c, set)
  <2>1. n.eps = c.eps /\ n.role = c.role /\ n.pin = c.pin /\ Shaped(n)
    BY <1>0, <1>2
  <2>2. \A t : MS!Bound(n, t) = MS!Bound(c, t)
    BY <2>1 DEF MS!Bound
  <2>3. ConfigOK(e, n)
    BY <2>1 DEF ConfigOK
  <2>4. MS!Bound(c, s).id[1] = set.ep /\ MS!Bound(c, s).model = set.model
    BY <1>2 DEF SameAs
  <2> QED
    BY <1>2, <2>1, <2>2, <2>3, <2>4
<1>3. CASE ~SameAs(c, set)
  <2>1. /\ Shaped(n) /\ n.eps = W \cup {ep} /\ n.role = [c.role EXCEPT ![s] = ep.id]
        /\ n.pin = [c.pin EXCEPT ![s] = MS!NewPin(e, c, set)]
    BY <1>0, <1>3
  <2>2. /\ cur \in c.eps /\ cur.id = c.role[s] /\ cur.id[2] \in {"none", s}
        /\ \A x \in c.eps : x.id = c.role[s] => x = cur
    BY BoundIsThere
  <2>3. W = IF cur.id[2] = "none" THEN c.eps ELSE c.eps \ {cur}
    BY DEF MS!Without
  <2>4. MS!Registered(e) \subseteq c.eps /\ \A x \in MS!Registered(e) : x.id[2] = "none"
    BY RegisteredIds DEF ConfigOK
  <2>5. MS!Registered(e) \subseteq W
    BY <2>3, <2>4
  <2>6. s \in MS!Steps /\ "none" \notin MS!Steps
    BY DEF MS!Steps
  <2>7. /\ ep.id[1] = set.ep /\ ep.model = set.model
        /\ ep \in MS!Registered(e) \/ (ep.id = <<set.ep, s>> /\ ep.id[2] = s)
        /\ ep.id[2] \in {"none", s}
    <3>1. PICK r \in e.endpoints : r.id = set.ep
      OBVIOUS
    <3>2. MS!OwnModel(e, set.ep) = r.model /\ [id |-> <<r.id, "none">>, model |-> r.model] \in MS!Registered(e)
      BY <3>1, RegisteredIds
    <3>3. CASE r.model = set.model
      <4>1. ep = [id |-> <<r.id, "none">>, model |-> r.model]
        BY <3>1, <3>2, <3>3 DEF NewEndpoint
      <4> QED
        BY <3>1, <3>2, <3>3, <4>1
    <3>4. CASE r.model # set.model
      <4>1. ep = [id |-> <<set.ep, s>>, model |-> set.model]
        BY <3>2, <3>4 DEF NewEndpoint
      <4> QED
        BY <4>1
    <3> QED
      BY <3>3, <3>4
  <2>8. \A x \in c.eps : x \in MS!Registered(e) \/ \E t \in MS!Steps : x.id = c.role[t] /\ x.id[2] = t
    BY DEF ConfigOK
  <2>9. \A x, y \in c.eps : x.id = y.id => x = y
    BY DEF ConfigOK
  <2> HIDE DEF W, ep, cur, s
  \* An endpoint left in the config does not have the new one's id.
  <2>10. \A x \in W : x.id = ep.id => x = ep
    <3> SUFFICES ASSUME NEW x \in W, x.id = ep.id PROVE x = ep
      OBVIOUS
    <3>1. CASE ep \in MS!Registered(e)
      BY <2>3, <2>4, <2>9, <3>1
    <3>2. CASE ep.id[2] = s
      <4>1. x \in c.eps /\ x \notin MS!Registered(e)
        BY <2>3, <2>4, <2>6, <3>2
      <4>2. PICK t \in MS!Steps : x.id = c.role[t] /\ x.id[2] = t
        BY <2>8, <4>1
      <4>3. x = cur /\ cur.id[2] = s
        BY <2>2, <3>2, <4>1, <4>2
      <4> QED
        BY <2>3, <2>6, <4>3
    <3> QED
      BY <2>7, <3>1, <3>2
  <2>11. \A x, y \in n.eps : x.id = y.id => x = y
    BY <2>1, <2>3, <2>9, <2>10
  <2>12. /\ n.role = [t \in MS!Steps |-> IF t = s THEN ep.id ELSE c.role[t]]
         /\ n.pin = [t \in MS!Steps |-> IF t = s THEN MS!NewPin(e, c, set) ELSE c.pin[t]]
    BY <2>1 DEF ConfigOK
  <2>13. \A x \in n.eps : x \in MS!Registered(e) \/ \E t \in MS!Steps : x.id = n.role[t] /\ x.id[2] = t
    <3> SUFFICES ASSUME NEW x \in n.eps, x \notin MS!Registered(e)
                 PROVE  \E t \in MS!Steps : x.id = n.role[t] /\ x.id[2] = t
      OBVIOUS
    <3>1. CASE x = ep
      BY <2>6, <2>7, <2>12, <3>1
    <3>2. CASE x \in W
      <4>1. x \in c.eps
        BY <2>3, <3>2
      <4>2. PICK t \in MS!Steps : x.id = c.role[t] /\ x.id[2] = t
        BY <2>8, <4>1
      <4>3. t # s
        <5>1. SUFFICES ASSUME t = s PROVE FALSE
          OBVIOUS
        <5>2. x = cur /\ cur.id[2] # "none"
          BY <2>2, <2>6, <4>1, <4>2, <5>1
        <5> QED
          BY <2>3, <3>2, <5>2
      <4> QED
        BY <2>12, <4>2, <4>3
    <3> QED
      BY <2>1, <3>1, <3>2
  \* The other steps' endpoints are still there.
  <2>14. ASSUME NEW t \in MS!Steps, t # s
         PROVE  /\ n.role[t] = c.role[t] /\ n.pin[t] = c.pin[t]
                /\ MS!Bound(c, t) \in n.eps /\ MS!Bound(c, t).id = n.role[t]
                /\ MS!Bound(c, t).id[2] \in {"none", t} /\ \E r \in e.endpoints : r.id = MS!Bound(c, t).id[1]
                /\ MS!Bound(n, t) = MS!Bound(c, t)
    <3> DEFINE x == MS!Bound(c, t)
    <3>1. /\ x \in c.eps /\ x.id = c.role[t] /\ x.id[2] \in {"none", t}
          /\ \E r \in e.endpoints : r.id = x.id[1]
      BY BoundIsThere
    <3>2. n.role[t] = c.role[t] /\ n.pin[t] = c.pin[t]
      BY <2>12, <2>14
    <3> HIDE DEF x
    <3>3. x \in W
      BY <2>2, <2>3, <2>14, <3>1
    <3>4. x \in n.eps /\ x.id = n.role[t]
      BY <2>1, <3>1, <3>2, <3>3
    <3>5. MS!Bound(n, t) = x
      BY <2>11, <3>4 DEF MS!Bound
    <3> QED
      BY <3>1, <3>2, <3>4, <3>5 DEF x
  <2>15. ep \in n.eps /\ n.role[s] = ep.id
    BY <2>1, <2>6, <2>12
  <2>16. MS!Bound(n, s) = ep
    BY <2>11, <2>15 DEF MS!Bound
  <2>17. ASSUME NEW t \in MS!Steps
         PROVE  \E x \in n.eps : x.id = n.role[t] /\ x.id[2] \in {"none", t} /\ \E r \in e.endpoints : r.id = x.id[1]
    <3>1. CASE t = s
      BY <2>7, <2>15, <3>1 DEF s
    <3>2. CASE t # s
      BY <2>14, <3>2
    <3> QED
      BY <3>1, <3>2
  <2>18. n.role = [t \in MS!Steps |-> n.role[t]] /\ n.pin = [t \in MS!Steps |-> n.pin[t]]
    BY <2>12
  <2>19. MS!Registered(e) \subseteq n.eps
    BY <2>1, <2>5
  <2>20. ConfigOK(e, n)
    BY <2>1, <2>11, <2>13, <2>17, <2>18, <2>19 DEF ConfigOK
  <2>21. n.pin[s] = MS!NewPin(e, c, set)
    BY <2>6, <2>12
  <2> QED
    BY <1>3, <2>7, <2>14, <2>16, <2>20, <2>21 DEF s
<1> QED
  BY <1>2, <1>3

\* A step that no setting has moved.
Unmoved(e, c, s) == c.role[s] = <<e.role[s], "none">> /\ c.pin[s] = e.pin[s]

LEMMA UnmovedIsBase ==
  ASSUME NEW e, EnvOK(e), NEW c, ConfigOK(e, c), NEW s \in MS!Steps, Unmoved(e, c, s)
  PROVE  MS!Bound(c, s) = MS!Bound(MS!Base(e), s) /\ MS!Binding(c, s) = MS!Binding(MS!Base(e), s)
<1> DEFINE b == MS!Base(e)
           x == MS!Bound(b, s)
<1>1. ConfigOK(e, b) /\ b.role[s] = <<e.role[s], "none">> /\ b.pin[s] = e.pin[s]
  BY BaseIsOK
<1>2. x \in b.eps /\ x.id = b.role[s]
  <2> HIDE DEF b
  <2> QED
    BY <1>1, BoundIsThere
<1>3. b.eps = MS!Registered(e)
  BY DEF MS!Base
<1>4. x \in c.eps /\ x.id = c.role[s]
  BY <1>1, <1>2, <1>3 DEF ConfigOK, Unmoved
<1>5. MS!Bound(c, s) = x
  <2> HIDE DEF x
  <2> QED
    BY <1>4, BoundIsThere
<1> HIDE DEF b
<1> QED
  BY <1>1, <1>5 DEF MS!Binding, Unmoved, b

RowsTypedFor(rs) == \A s \in MS!Steps : rs[s] = MS!NoRow \/ rs[s].step = s

\* A row laid over a config binds its own step as the contract says.
LEMMA RowLaid ==
  ASSUME NEW e, EnvOK(e), NEW c, ConfigOK(e, c), NEW rs, RowsTypedFor(rs), NEW steps, NEW s \in MS!Steps,
         Unmoved(e, c, s), NEW n, n = MS!WithRow(e, rs, steps, c, s)
  PROVE  /\ ConfigOK(e, n)
         /\ \A t \in MS!Steps \ {s} : /\ MS!Binding(n, t) = MS!Binding(c, t)
                                      /\ Unmoved(e, c, t) => Unmoved(e, n, t)
         /\ MS!Binding(n, s) = IF s \in steps THEN MS!Want(e, s, rs[s]) ELSE MS!Binding(MS!Base(e), s)
<1> DEFINE set == rs[s]
<1>1. CASE ~(s \in steps /\ set # MS!NoRow /\ MS!Valid(e, set))
  <2>1. n = c
    BY <1>1 DEF MS!WithRow
  <2>2. MS!Binding(c, s) = MS!Binding(MS!Base(e), s)
    BY UnmovedIsBase
  <2>3. s \in steps => MS!Want(e, s, set) = MS!Binding(MS!Base(e), s)
    BY <1>1 DEF MS!Want
  <2> QED
    BY <2>1, <2>2, <2>3
<1>2. CASE s \in steps /\ set # MS!NoRow /\ MS!Valid(e, set)
  <2>1. n = MS!ApplySetting(e, c, set, "db") /\ set.step = s
    BY <1>2 DEF MS!WithRow, RowsTypedFor
  <2>2. \E r \in e.endpoints : r.id = set.ep
    BY <1>2 DEF MS!Valid
  <2> HIDE DEF set
  <2>3. /\ ConfigOK(e, n)
        /\ \A t \in MS!Steps \ {s} : n.role[t] = c.role[t] /\ n.pin[t] = c.pin[t] /\ MS!Bound(n, t) = MS!Bound(c, t)
        /\ MS!Bound(n, s).id[1] = set.ep /\ MS!Bound(n, s).model = set.model
        /\ n.pin[s] = IF SameAs(c, set) THEN c.pin[s] ELSE MS!NewPin(e, c, set)
    BY <2>1, <2>2, ApplyKeeps
  <2>4. MS!Bound(c, s) = MS!Bound(MS!Base(e), s) /\ c.pin[s] = e.pin[s]
    BY UnmovedIsBase DEF Unmoved
  <2>5. n.pin[s] = IF set.pin = "none" /\ MS!IsEnvBinding(e, set) THEN e.pin[s] ELSE set.pin
    <3>1. SameAs(c, set) <=> set.pin = "none" /\ MS!IsEnvBinding(e, set)
      BY <2>1, <2>4 DEF SameAs, MS!IsEnvBinding
    <3> QED
      BY <2>1, <2>3, <2>4, <3>1 DEF MS!NewPin
  <2>6. MS!Binding(n, s) = MS!Want(e, s, set)
    BY <1>2, <2>3, <2>5 DEF MS!Binding, MS!Want, set
  <2>7. \A t \in MS!Steps \ {s} : MS!Binding(n, t) = MS!Binding(c, t) /\ (Unmoved(e, c, t) => Unmoved(e, n, t))
    BY <2>3 DEF MS!Binding, Unmoved
  <2> QED
    BY <1>2, <2>3, <2>6, <2>7 DEF set
<1> QED
  BY <1>1, <1>2

LEMMA RowsLaid ==
  ASSUME NEW e, EnvOK(e), NEW rs, RowsTypedFor(rs), NEW steps
  PROVE  /\ ConfigOK(e, MS!WithRows(e, rs, steps))
         /\ \A s \in MS!Steps : MS!Binding(MS!WithRows(e, rs, steps), s)
              = IF s \in steps THEN MS!Want(e, s, rs[s]) ELSE MS!Binding(MS!Base(e), s)
<1> DEFINE b == MS!Base(e)
           c1 == MS!WithRow(e, rs, steps, b, "decide")
           c2 == MS!WithRow(e, rs, steps, c1, "embed")
           c3 == MS!WithRow(e, rs, steps, c2, "propose")
           c4 == MS!WithRow(e, rs, steps, c3, "scan")
           As(s) == IF s \in steps THEN MS!Want(e, s, rs[s]) ELSE MS!Binding(MS!Base(e), s)
<1>0. MS!Steps = {"decide", "embed", "propose", "scan"}
  BY DEF MS!Steps
<1>1. c4 = MS!WithRows(e, rs, steps)
  BY DEF MS!WithRows
<1>2. ConfigOK(e, b) /\ \A s \in MS!Steps : Unmoved(e, b, s)
  BY BaseIsOK DEF Unmoved
<1> HIDE DEF b, As
<1>3. ConfigOK(e, c1) /\ MS!Binding(c1, "decide") = As("decide") /\ \A s \in {"embed", "propose", "scan"} : Unmoved(e, c1, s)
  BY <1>0, <1>2, RowLaid DEF As
<1> HIDE DEF c1
<1>4. /\ ConfigOK(e, c2) /\ MS!Binding(c2, "decide") = As("decide") /\ MS!Binding(c2, "embed") = As("embed")
      /\ \A s \in {"propose", "scan"} : Unmoved(e, c2, s)
  BY <1>0, <1>3, RowLaid DEF As
<1> HIDE DEF c2
<1>5. /\ ConfigOK(e, c3) /\ MS!Binding(c3, "decide") = As("decide") /\ MS!Binding(c3, "embed") = As("embed")
      /\ MS!Binding(c3, "propose") = As("propose") /\ Unmoved(e, c3, "scan")
  BY <1>0, <1>4, RowLaid DEF As
<1> HIDE DEF c3
<1>6. /\ ConfigOK(e, c4) /\ MS!Binding(c4, "decide") = As("decide") /\ MS!Binding(c4, "embed") = As("embed")
      /\ MS!Binding(c4, "propose") = As("propose") /\ MS!Binding(c4, "scan") = As("scan")
  BY <1>0, <1>5, RowLaid DEF As
<1> HIDE DEF c4
<1>7. \A s \in MS!Steps : MS!Binding(c4, s) = As(s)
  BY <1>0, <1>6
<1> QED
  BY <1>1, <1>6, <1>7 DEF As

RowSet == Settable \cup {MS!NoRow}
Commands == [pc : {"idle", "set"}, set : RowSet, seen : RowSet]
Events == [old : RowSet, new : RowSet]

SettingType ==
  /\ env \in Envs /\ worker.e \in Envs /\ search.e \in Envs
  /\ msRows \in [MS!Steps -> RowSet] /\ RowsTypedFor(msRows)
  /\ history \in [MS!Steps -> Seq(Events)]
  /\ cli \in [Operators -> Commands] /\ \A o \in Operators : cli[o].pc = "set" => cli[o].set \in Settable
  /\ worker = [pc |-> worker.pc, e |-> worker.e, read |-> worker.read, fresh |-> worker.fresh,
               active |-> worker.active, judge |-> worker.judge, emb |-> worker.emb]
  /\ RowsTypedFor(worker.read)
  /\ search = [e |-> search.e, emb |-> search.emb, error |-> search.error]

\* The actions that write the settings, those of the worker, and of search.
SettingMoved == \E o \in Operators : MS!StartSet(o) \/ MS!WriteSet(o) \/ MS!Unset(o)
WorkerMoves == MS!Cycle \/ MS!RestartWorker
SearchMoves == MS!Watch \/ MS!WatchFails \/ MS!RestartSearch

LEMMA SettingMoves ==
  ASSUME MS!Next
  PROVE  \/ SettingMoved /\ UNCHANGED <<env, worker, search, msRun>>
         \/ WorkerMoves /\ UNCHANGED <<env, msRows, history, cli, search, msRun>>
         \/ SearchMoves /\ UNCHANGED <<env, msRows, history, cli, worker, msRun>>
         \/ (MS!Resolve \/ MS!EndRun) /\ UNCHANGED <<env, msRows, history, cli, worker, search>>
         \/ MS!Redeploy /\ env' \in Envs /\ UNCHANGED <<msRows, history, cli, worker, search, msRun>>
<1>1. SettingMoved => UNCHANGED <<env, worker, search, msRun>>
  BY DEF SettingMoved, MS!StartSet, MS!WriteSet, MS!Unset
<1>2. WorkerMoves => UNCHANGED <<env, msRows, history, cli, search, msRun>>
  BY DEF WorkerMoves, MS!Cycle, MS!Starts, MS!ReadRows, MS!CannotRead, MS!Apply, MS!Work, MS!RestartWorker
<1>3. SearchMoves => UNCHANGED <<env, msRows, history, cli, worker, msRun>>
  BY DEF SearchMoves, MS!Watch, MS!WatchFails, MS!RestartSearch
<1>4. MS!Resolve \/ MS!EndRun => UNCHANGED <<env, msRows, history, cli, worker, search>>
  BY DEF MS!Resolve, MS!EndRun
<1>5. MS!Redeploy => env' \in Envs /\ UNCHANGED <<msRows, history, cli, worker, search, msRun>>
  BY DEF MS!Redeploy
<1> QED
  BY <1>1, <1>2, <1>3, <1>4, <1>5 DEF MS!Next, SettingMoved, WorkerMoves, SearchMoves

\* What a write puts in the rows and in the history: one step's row, and one
\* event that says so.
LEMMA SettingWritten ==
  ASSUME SettingConstants, SettingType, SettingMoved
  PROVE  /\ \/ msRows' = msRows /\ history' = history
            \/ \E s \in MS!Steps, row \in RowSet :
                 /\ row = MS!NoRow \/ row.step = s
                 /\ row # msRows[s]
                 /\ msRows' = [msRows EXCEPT ![s] = row]
                 /\ history' = [history EXCEPT ![s] = Append(@, [old |-> msRows[s], new |-> row])]
         /\ cli' \in [Operators -> Commands] /\ \A o \in Operators : cli'[o].pc = "set" => cli'[o].set \in Settable
<1>0. PICK o \in Operators : MS!StartSet(o) \/ MS!WriteSet(o) \/ MS!Unset(o)
  BY DEF SettingMoved
<1>1. CASE MS!StartSet(o)
  <2>1. PICK set \in Settable : cli' = [cli EXCEPT ![o] = [pc |-> "set", set |-> set, seen |-> msRows[set.step]]]
    BY <1>1 DEF MS!StartSet
  <2>2. [pc |-> "set", set |-> set, seen |-> msRows[set.step]] \in Commands
    BY DEF SettingConstants, SettingType, Commands, RowSet
  <2> QED
    BY <1>1, <2>1, <2>2 DEF MS!StartSet, SettingType
<1>2. CASE MS!WriteSet(o)
  <2> DEFINE set == cli[o].set
  <2>1. set \in Settable /\ set.step \in MS!Steps /\ set \in RowSet
    BY <1>2 DEF MS!WriteSet, SettingType, SettingConstants, RowSet
  <2>2. MS!NoCommand \in Commands /\ MS!NoCommand.pc = "idle"
    BY DEF MS!NoCommand, Commands, RowSet
  <2>3. cli' = [cli EXCEPT ![o] = MS!NoCommand]
    BY <1>2 DEF MS!WriteSet
  <2>4. cli' \in [Operators -> Commands] /\ \A p \in Operators : cli'[p].pc = "set" => cli'[p].set \in Settable
    BY <2>2, <2>3 DEF SettingType
  <2>5. \/ msRows' = msRows /\ history' = history
        \/ /\ set # msRows[set.step] /\ msRows' = [msRows EXCEPT ![set.step] = set]
           /\ history' = [history EXCEPT ![set.step] = Append(@, [old |-> msRows[set.step], new |-> set])]
    BY <1>2 DEF MS!WriteSet, MS!LockedRow
  <2> QED
    BY <2>1, <2>4, <2>5
<1>3. CASE MS!Unset(o)
  <2>1. PICK s \in MS!Steps : /\ msRows[s] # MS!NoRow /\ msRows' = [msRows EXCEPT ![s] = MS!NoRow]
                              /\ history' = [history EXCEPT ![s] = Append(@, [old |-> msRows[s], new |-> MS!NoRow])]
    BY <1>3 DEF MS!Unset
  <2>2. MS!NoRow \in RowSet /\ cli' = cli
    BY <1>3 DEF RowSet, MS!Unset
  <2> QED
    BY <2>1, <2>2 DEF SettingType
<1> QED
  BY <1>0, <1>1, <1>2, <1>3

\* What the worker may become: it starts anew, goes on, reads the rows, or
\* takes up what it read.
WorkerRec(pc, e, read, fresh, active, judge, emb) ==
  [pc |-> pc, e |-> e, read |-> read, fresh |-> fresh, active |-> active, judge |-> judge, emb |-> emb]

LEMMA WorkerSteps ==
  ASSUME SettingType, WorkerMoves
  PROVE  LET w == worker
             c == MS!WithRows(w.e, w.read, MS!WorkerSteps)
             judge == MS!Binding(c, "propose")
             emb == MS!Binding(c, "embed") IN
         \/ worker' = MS!WorkerOn(env)
         \/ \E pc \in {"idle", "work"}, fresh \in {FALSE, w.fresh} :
              /\ worker' = WorkerRec(pc, w.e, w.read, fresh, w.active, w.judge, w.emb)
              /\ pc = "work" => fresh = FALSE
         \/ worker' = WorkerRec("apply", w.e, msRows, TRUE, w.active, w.judge, w.emb)
         \/ /\ w.pc = "apply"
            /\ \/ worker' = WorkerRec("idle", w.e, w.read, w.fresh, w.active, judge, w.emb)
               \/ \E active : /\ worker' = WorkerRec("work", w.e, w.read, w.fresh, active, judge, emb)
                              /\ emb = w.emb \/ emb.model \notin Unfit
<1> DEFINE w == worker
           c == MS!WithRows(w.e, w.read, MS!WorkerSteps)
           judge == MS!Binding(c, "propose")
           emb == MS!Binding(c, "embed")
           old == WorkerRec(w.pc, w.e, w.read, w.fresh, w.active, w.judge, w.emb)
<1>0. worker = old
  BY DEF SettingType, WorkerRec
<1>1. CASE MS!Starts \/ MS!Work
  <2>1. worker' = [old EXCEPT !.pc = "idle"]
    BY <1>0, <1>1 DEF MS!Starts, MS!Work
  <2>2. worker' = WorkerRec("idle", w.e, w.read, w.fresh, w.active, w.judge, w.emb)
    BY <2>1 DEF WorkerRec
  <2> QED
    BY <2>2
<1>2. CASE MS!ReadRows
  <2>1. worker' = [old EXCEPT !.pc = "apply", !.read = msRows, !.fresh = TRUE]
    BY <1>0, <1>2 DEF MS!ReadRows
  <2>2. worker' = WorkerRec("apply", w.e, msRows, TRUE, w.active, w.judge, w.emb)
    BY <2>1 DEF WorkerRec
  <2> QED
    BY <2>2
<1>3. CASE MS!CannotRead
  <2>1. worker.pc = "idle" /\ (worker' = [old EXCEPT !.pc = "work", !.fresh = FALSE] \/ worker' = worker)
    BY <1>0, <1>3 DEF MS!CannotRead
  <2>2. CASE worker' = [old EXCEPT !.pc = "work", !.fresh = FALSE]
    <3>1. worker' = WorkerRec("work", w.e, w.read, FALSE, w.active, w.judge, w.emb)
      BY <2>2 DEF WorkerRec
    <3> QED
      BY <3>1
  <2>3. CASE worker' = worker
    <3>1. worker' = WorkerRec("idle", w.e, w.read, w.fresh, w.active, w.judge, w.emb)
      BY <1>0, <2>1, <2>3
    <3> QED
      BY <3>1
  <2> QED
    BY <2>1, <2>2, <2>3
<1>4. CASE MS!Apply
  <2> HIDE DEF c
  <2>1. (IF MS!SameJudge(w.judge, judge) THEN w.judge ELSE judge) = judge
    BY DEF MS!SameJudge
  <2>2. (IF MS!SameEmbedder(emb, w.emb) THEN w.emb ELSE emb) = emb
    BY DEF MS!SameEmbedder
  <2>3. worker.pc = "apply"
    BY <1>4 DEF MS!Apply
  <2> HIDE DEF judge, emb
  <2>4. \/ worker' = [old EXCEPT !.pc = "idle"]
        \/ /\ emb = w.emb \/ emb.model \notin Unfit
           /\ worker' = [[old EXCEPT !.judge = judge] EXCEPT !.pc = "work", !.emb = emb,
                                                             !.active = {[judge |-> judge, emb |-> emb]}]
        \/ worker' = [[old EXCEPT !.judge = judge] EXCEPT !.pc = "idle"]
    <3> DEFINE switched == [worker EXCEPT !.judge = IF MS!SameJudge(@, judge) THEN @ ELSE judge]
    <3>1. switched = [old EXCEPT !.judge = judge]
      BY <1>0, <2>1
    <3>2. \/ worker' = [worker EXCEPT !.pc = "idle"]
          \/ /\ MS!SameEmbedder(emb, worker.emb) \/ MS!Fits(emb)
             /\ worker' = [switched EXCEPT !.pc = "work", !.emb = IF MS!SameEmbedder(emb, @) THEN @ ELSE emb,
                                           !.active = {[judge |-> judge, emb |-> emb]}]
          \/ worker' = [switched EXCEPT !.pc = "idle"]
      BY <1>4 DEF MS!Apply, judge, emb, c
    <3> HIDE DEF switched
    <3>3. switched.emb = w.emb
      BY <3>1 DEF WorkerRec
    <3>4. [switched EXCEPT !.pc = "work", !.emb = IF MS!SameEmbedder(emb, @) THEN @ ELSE emb,
                           !.active = {[judge |-> judge, emb |-> emb]}]
          = [switched EXCEPT !.pc = "work", !.emb = emb, !.active = {[judge |-> judge, emb |-> emb]}]
      BY <3>1 DEF MS!SameEmbedder, WorkerRec
    <3> QED
      BY <1>0, <3>1, <3>2, <3>4 DEF MS!Fits, MS!SameEmbedder
  <2>5. CASE worker' = [old EXCEPT !.pc = "idle"]
    <3>1. worker' = WorkerRec("idle", w.e, w.read, w.fresh, w.active, w.judge, w.emb)
      BY <2>5 DEF WorkerRec
    <3> QED
      BY <3>1
  <2>6. CASE /\ emb = w.emb \/ emb.model \notin Unfit
             /\ worker' = [[old EXCEPT !.judge = judge] EXCEPT !.pc = "work", !.emb = emb,
                                                               !.active = {[judge |-> judge, emb |-> emb]}]
    <3>1. worker' = WorkerRec("work", w.e, w.read, w.fresh, {[judge |-> judge, emb |-> emb]}, judge, emb)
      BY <2>6 DEF WorkerRec
    <3> QED
      BY <2>3, <2>6, <3>1 DEF judge, emb, c
  <2>7. CASE worker' = [[old EXCEPT !.judge = judge] EXCEPT !.pc = "idle"]
    <3>1. worker' = WorkerRec("idle", w.e, w.read, w.fresh, w.active, judge, w.emb)
      BY <2>7 DEF WorkerRec
    <3> QED
      BY <2>3, <3>1 DEF judge, c
  <2> QED
    BY <2>4, <2>5, <2>6, <2>7
<1>5. CASE MS!RestartWorker
  BY <1>5 DEF MS!RestartWorker
<1> QED
  BY <1>1, <1>2, <1>3, <1>4, <1>5 DEF WorkerMoves, MS!Cycle

LEMMA SearchSteps ==
  ASSUME SettingType, SearchMoves
  PROVE  \/ search' = MS!SearchOn(env)
         \/ \E emb, error : /\ search' = [e |-> search.e, emb |-> emb, error |-> error]
                            /\ emb = search.emb \/ emb.model \notin Unfit
<1> DEFINE old == [e |-> search.e, emb |-> search.emb, error |-> search.error]
           emb == MS!Binding(MS!WithRows(search.e, msRows, {"embed"}), "embed")
<1>0. search = old
  BY DEF SettingType
<1> HIDE DEF emb
<1>1. \/ search' = [old EXCEPT !.error = TRUE]
      \/ search' = old
      \/ emb.model \notin Unfit /\ search' = [old EXCEPT !.emb = emb, !.error = FALSE]
      \/ search' = MS!SearchOn(env)
  BY <1>0 DEF SearchMoves, MS!Watch, MS!WatchFails, MS!RestartSearch, MS!Fits, emb
<1>2. CASE search' = [old EXCEPT !.error = TRUE]
  <2>1. search' = [e |-> search.e, emb |-> search.emb, error |-> TRUE]
    BY <1>2
  <2> QED
    BY <2>1
<1>3. CASE search' = old
  BY <1>3
<1>4. CASE emb.model \notin Unfit /\ search' = [old EXCEPT !.emb = emb, !.error = FALSE]
  <2>1. search' = [e |-> search.e, emb |-> emb, error |-> FALSE]
    BY <1>4
  <2> QED
    BY <1>4, <2>1
<1> QED
  BY <1>1, <1>2, <1>3, <1>4

LEMMA SettingsTyped ==
  ASSUME SettingConstants
  PROVE  /\ MS!Init => SettingType
         /\ SettingType /\ [MS!Next]_(MS!vars) => SettingType'
<1>1. ASSUME MS!Init PROVE SettingType
  <2>1. worker = MS!WorkerOn(env) /\ search = MS!SearchOn(env) /\ env \in Envs
    BY <1>1 DEF MS!Init
  <2>2. msRows \in [MS!Steps -> RowSet] /\ RowsTypedFor(msRows)
    BY <1>1 DEF MS!Init, MS!Unread, RowSet, RowsTypedFor
  <2>3. history \in [MS!Steps -> Seq(Events)]
    BY <1>1 DEF MS!Init
  <2>4. cli \in [Operators -> Commands] /\ \A o \in Operators : cli[o].pc = "set" => cli[o].set \in Settable
    BY <1>1 DEF MS!Init, MS!NoCommand, Commands, RowSet
  <2>5. /\ worker.e \in Envs /\ RowsTypedFor(worker.read)
        /\ worker = [pc |-> worker.pc, e |-> worker.e, read |-> worker.read, fresh |-> worker.fresh,
                     active |-> worker.active, judge |-> worker.judge, emb |-> worker.emb]
    BY <2>1 DEF MS!WorkerOn, MS!Unread, RowsTypedFor
  <2>6. search.e \in Envs /\ search = [e |-> search.e, emb |-> search.emb, error |-> search.error]
    BY <2>1 DEF MS!SearchOn
  <2> QED
    BY <2>1, <2>2, <2>3, <2>4, <2>5, <2>6 DEF SettingType
<1>2. ASSUME SettingType, SettingMoved, UNCHANGED <<env, worker, search, msRun>> PROVE SettingType'
  <2>1. /\ \/ msRows' = msRows /\ history' = history
           \/ \E s \in MS!Steps, row \in RowSet :
                /\ row = MS!NoRow \/ row.step = s
                /\ row # msRows[s]
                /\ msRows' = [msRows EXCEPT ![s] = row]
                /\ history' = [history EXCEPT ![s] = Append(@, [old |-> msRows[s], new |-> row])]
        /\ cli' \in [Operators -> Commands] /\ \A o \in Operators : cli'[o].pc = "set" => cli'[o].set \in Settable
    BY <1>2, SettingWritten
  <2>2. CASE msRows' = msRows /\ history' = history
    BY <1>2, <2>1, <2>2 DEF SettingType
  <2>3. ASSUME NEW s \in MS!Steps, NEW row \in RowSet, row = MS!NoRow \/ row.step = s,
               msRows' = [msRows EXCEPT ![s] = row],
               history' = [history EXCEPT ![s] = Append(@, [old |-> msRows[s], new |-> row])]
        PROVE  SettingType'
    <3>1. msRows' \in [MS!Steps -> RowSet] /\ RowsTypedFor(msRows')
      BY <1>2, <2>3 DEF SettingType, RowsTypedFor
    <3>2. [old |-> msRows[s], new |-> row] \in Events
      BY <1>2, <2>3 DEF SettingType, Events
    <3>3. history' \in [MS!Steps -> Seq(Events)]
      BY <1>2, <2>3, <3>2 DEF SettingType
    <3> QED
      BY <1>2, <2>1, <3>1, <3>3 DEF SettingType, RowsTypedFor
  <2> QED
    BY <2>1, <2>2, <2>3
<1>3. ASSUME SettingType, WorkerMoves, UNCHANGED <<env, msRows, history, cli, search, msRun>> PROVE SettingType'
  <2> DEFINE c == MS!WithRows(worker.e, worker.read, MS!WorkerSteps)
  <2>1. CASE worker' = MS!WorkerOn(env)
    <3>1. /\ worker'.e \in Envs /\ RowsTypedFor(worker'.read)
          /\ worker' = [pc |-> worker'.pc, e |-> worker'.e, read |-> worker'.read, fresh |-> worker'.fresh,
                        active |-> worker'.active, judge |-> worker'.judge, emb |-> worker'.emb]
      BY <1>3, <2>1 DEF MS!WorkerOn, MS!Unread, RowsTypedFor, SettingType
    <3> QED
      BY <1>3, <3>1 DEF SettingType, RowsTypedFor
  <2>2. ASSUME NEW pc, NEW read, NEW fresh, NEW active, NEW judge, NEW emb, RowsTypedFor(read),
               worker' = WorkerRec(pc, worker.e, read, fresh, active, judge, emb)
        PROVE  SettingType'
    <3>1. /\ worker'.e = worker.e /\ RowsTypedFor(worker'.read)
          /\ worker' = [pc |-> worker'.pc, e |-> worker'.e, read |-> worker'.read, fresh |-> worker'.fresh,
                        active |-> worker'.active, judge |-> worker'.judge, emb |-> worker'.emb]
      BY <2>2 DEF WorkerRec
    <3> QED
      BY <1>3, <3>1 DEF SettingType, RowsTypedFor
  <2>3. RowsTypedFor(worker.read) /\ RowsTypedFor(msRows)
    BY <1>3 DEF SettingType
  <2> HIDE DEF c
  <2>4. worker' = MS!WorkerOn(env) \/
        \E pc, read, fresh, active, judge, emb :
           RowsTypedFor(read) /\ worker' = WorkerRec(pc, worker.e, read, fresh, active, judge, emb)
    BY <1>3, <2>3, WorkerSteps
  <2> QED
    BY <2>1, <2>2, <2>4
<1>4. ASSUME SettingType, SearchMoves, UNCHANGED <<env, msRows, history, cli, worker, msRun>> PROVE SettingType'
  <2>1. search'.e \in Envs /\ search' = [e |-> search'.e, emb |-> search'.emb, error |-> search'.error]
    <3>1. CASE search' = MS!SearchOn(env)
      BY <1>4, <3>1 DEF MS!SearchOn, SettingType
    <3>2. ASSUME NEW emb, NEW error, search' = [e |-> search.e, emb |-> emb, error |-> error]
          PROVE  search'.e \in Envs /\ search' = [e |-> search'.e, emb |-> search'.emb, error |-> search'.error]
      BY <1>4, <3>2 DEF SettingType
    <3> QED
      BY <1>4, <3>1, <3>2, SearchSteps
  <2> QED
    BY <1>4, <2>1 DEF SettingType, RowsTypedFor
<1>5. ASSUME SettingType, env' \in Envs, UNCHANGED <<msRows, history, cli, worker, search>> PROVE SettingType'
  BY <1>5 DEF SettingType, RowsTypedFor
<1>6. ASSUME SettingType, UNCHANGED MS!vars PROVE SettingType'
  BY <1>6 DEF SettingType, RowsTypedFor, MS!vars
<1>7. ASSUME SettingType, MS!Next PROVE SettingType'
  <2>1. env \in Envs
    BY <1>7 DEF SettingType
  <2> QED
    BY <1>2, <1>3, <1>4, <1>5, <1>7, <2>1, SettingMoves
<1> QED
  BY <1>1, <1>6, <1>7

\* A setting moves its own step, whatever the other steps' rows, though the
\* endpoint it names is bound to others (config.applyStepSetting).
THEOREM SettingsApart ==
  ASSUME SettingConstants PROVE MS!Spec => []MS!StepsApart
<1>1. SettingType => MS!StepsApart
  <2> SUFFICES ASSUME SettingType, NEW e \in {env, worker.e}, NEW s \in MS!Steps
               PROVE  MS!Binding(MS!WithRows(e, msRows, MS!Steps), s) = MS!Want(e, s, msRows[s])
    BY DEF MS!StepsApart
  <2>1. EnvOK(e) /\ RowsTypedFor(msRows)
    BY DEF SettingType, SettingConstants
  <2> QED
    BY <2>1, RowsLaid
<1> QED
  BY <1>1, SettingsTyped, PTL DEF MS!Spec

\* A cycle of the worker that read the rows judges and embeds with the endpoint,
\* model and pin they name (worker.cycleConfig, applyConfig).
THEOREM WorkerIsAsSet ==
  ASSUME SettingConstants PROVE MS!Spec => []MS!WorkerRunsAsSet
<1>1. MS!Init => MS!WorkerRunsAsSet
  BY DEF MS!Init, MS!WorkerOn, MS!WorkerRunsAsSet
<1>2. ASSUME SettingType, MS!WorkerRunsAsSet, WorkerMoves PROVE MS!WorkerRunsAsSet'
  <2> DEFINE w == worker
             c == MS!WithRows(w.e, w.read, MS!WorkerSteps)
             judge == MS!Binding(c, "propose")
             emb == MS!Binding(c, "embed")
  <2>1. judge = MS!Want(w.e, "propose", w.read["propose"]) /\ emb = MS!Want(w.e, "embed", w.read["embed"])
    <3>1. EnvOK(w.e) /\ RowsTypedFor(w.read)
      BY <1>2 DEF SettingType, SettingConstants
    <3>2. {"embed", "propose"} \subseteq MS!Steps /\ MS!WorkerSteps = {"embed", "propose"}
      BY DEF MS!Steps, MS!WorkerSteps
    <3> QED
      BY <3>1, <3>2, RowsLaid
  <2> HIDE DEF c, judge, emb
  <2>2. \/ worker' = MS!WorkerOn(env)
        \/ \E pc \in {"idle", "work"}, fresh \in {FALSE, w.fresh} :
             /\ worker' = WorkerRec(pc, w.e, w.read, fresh, w.active, w.judge, w.emb)
             /\ pc = "work" => fresh = FALSE
        \/ worker' = WorkerRec("apply", w.e, msRows, TRUE, w.active, w.judge, w.emb)
        \/ worker' = WorkerRec("idle", w.e, w.read, w.fresh, w.active, judge, w.emb)
        \/ \E active : worker' = WorkerRec("work", w.e, w.read, w.fresh, active, judge, emb)
    BY <1>2, WorkerSteps DEF judge, emb, c
  <2>3. CASE \E active : worker' = WorkerRec("work", w.e, w.read, w.fresh, active, judge, emb)
    <3>1. worker'.judge = judge /\ worker'.emb = emb /\ worker'.e = w.e /\ worker'.read = w.read
      BY <2>3 DEF WorkerRec
    <3> QED
      BY <2>1, <3>1 DEF MS!WorkerRunsAsSet
  <2>4. CASE worker'.pc \in {"start", "idle", "apply"} \/ worker'.fresh = FALSE
    BY <2>4 DEF MS!WorkerRunsAsSet
  <2>5. worker' = MS!WorkerOn(env) => worker'.pc = "start"
    BY DEF MS!WorkerOn
  <2>6. \A pc, e, read, fresh, active, jd, em : worker' = WorkerRec(pc, e, read, fresh, active, jd, em)
           => worker'.pc = pc /\ worker'.fresh = fresh
    BY DEF WorkerRec
  <2>7. CASE \E pc \in {"idle", "work"}, fresh \in {FALSE, w.fresh} :
               /\ worker' = WorkerRec(pc, w.e, w.read, fresh, w.active, w.judge, w.emb)
               /\ pc = "work" => fresh = FALSE
    <3>1. PICK pc \in {"idle", "work"}, fresh \in {FALSE, w.fresh} :
               /\ worker' = WorkerRec(pc, w.e, w.read, fresh, w.active, w.judge, w.emb)
               /\ pc = "work" => fresh = FALSE
      BY <2>7
    <3>2. worker'.pc = pc /\ worker'.fresh = fresh
      BY <2>6, <3>1
    <3> QED
      BY <2>4, <3>1, <3>2
  <2>8. CASE worker' = WorkerRec("apply", w.e, msRows, TRUE, w.active, w.judge, w.emb)
    <3>1. worker'.pc = "apply"
      BY <2>6, <2>8
    <3> QED
      BY <2>4, <3>1
  <2>9. CASE worker' = WorkerRec("idle", w.e, w.read, w.fresh, w.active, judge, w.emb)
    <3>1. worker'.pc = "idle"
      BY <2>6, <2>9
    <3> QED
      BY <2>4, <3>1
  <2> HIDE DEF w
  <2> QED
    BY <2>2, <2>3, <2>4, <2>5, <2>7, <2>8, <2>9
<1>3. ASSUME MS!WorkerRunsAsSet, UNCHANGED worker PROVE MS!WorkerRunsAsSet'
  BY <1>3 DEF MS!WorkerRunsAsSet
<1>4. SettingType /\ MS!WorkerRunsAsSet /\ [MS!Next]_(MS!vars) => MS!WorkerRunsAsSet'
  BY <1>2, <1>3, SettingMoves DEF MS!vars
<1> QED
  BY <1>1, <1>4, SettingsTyped, PTL DEF MS!Spec

\* An ad-hoc run has the endpoint and model it was asked for, else those that
\* are set, and no pin that was written for another model (config.OverrideSetting,
\* db.ResolveStep).
THEOREM RunsAreAsAsked ==
  ASSUME SettingConstants PROVE MS!Spec => []MS!RunsAsAsked
<1>0. MS!NoRun.on = FALSE
  <2>1. \A e : [on |-> FALSE, e |-> e, step |-> "none", ov |-> [ep |-> "", model |-> ""],
               read |-> MS!NoRow, got |-> MS!NoRow].on = FALSE
    OBVIOUS
  <2> QED
    BY <2>1, Zenon DEF MS!NoRun
<1>1. MS!Init => MS!RunsAsAsked
  <2>1. MS!Init => msRun.on = FALSE
    BY <1>0 DEF MS!Init
  <2> QED
    BY <2>1 DEF MS!RunsAsAsked
<1>2. ASSUME SettingType, MS!Resolve PROVE MS!RunsAsAsked'
  <2>1. PICK s \in MS!Steps, ov \in Overrides :
          LET c   == MS!WithRows(env, msRows, {s})
              set == MS!Override(env, c, s, ov)
          IN /\ ov.ep = "" \/ \E r \in env.endpoints : r.id = ov.ep /\ r.type = MS!TypeFor[s]
             /\ LET n == IF ov.ep = "" /\ ov.model = "" THEN c ELSE MS!ApplySetting(env, c, set, "override")
                IN msRun' = [on |-> TRUE, e |-> env, step |-> s, ov |-> ov, read |-> msRows[s],
                             got |-> MS!Binding(n, s)]
    BY <1>2 DEF MS!Resolve
  <2> DEFINE c == MS!WithRows(env, msRows, {s})
             set == MS!Override(env, c, s, ov)
             n == IF ov.ep = "" /\ ov.model = "" THEN c ELSE MS!ApplySetting(env, c, set, "override")
             want == MS!Want(env, s, msRows[s])
             base == MS!Binding(MS!Base(env), s)
             binds == MS!Binding(n, s)
  <2>2. EnvOK(env) /\ RowsTypedFor(msRows)
    BY <1>2 DEF SettingType, SettingConstants
  <2>3. ConfigOK(env, c) /\ MS!Binding(c, s) = want
    BY <2>2, RowsLaid
  <2>4. /\ msRun'.e = env /\ msRun'.step = s /\ msRun'.ov = ov /\ msRun'.read = msRows[s] /\ msRun'.got = binds
        /\ ov.ep = "" \/ \E r \in env.endpoints : r.id = ov.ep
    BY <2>1
  <2> HIDE DEF c
  <2>5. MS!Bound(c, s).id[1] = want.ep /\ MS!Bound(c, s).model = want.model
    BY <2>3 DEF MS!Binding
  <2>6. /\ set.step = s /\ set.pin = "none" /\ set.ep = IF ov.ep = "" THEN want.ep ELSE ov.ep
        /\ set.model = IF ov.model # "" THEN ov.model
                       ELSE IF set.ep = want.ep THEN want.model ELSE MS!OwnModel(env, set.ep)
    BY <2>5 DEF MS!Override
  <2> HIDE DEF want, set, base
  <2>7. /\ binds.ep = set.ep /\ binds.model = set.model
        /\ binds.pin # "none" => binds \in {want, base}
    <3>1. CASE ov.ep = "" /\ ov.model = ""
      BY <2>3, <2>6, <3>1
    <3>2. CASE ~(ov.ep = "" /\ ov.model = "")
      <4>1. n = MS!ApplySetting(env, c, set, "override")
        BY <3>2
      <4>2. \E r \in env.endpoints : r.id = set.ep
        <5>1. \E r \in env.endpoints : r.id = MS!Bound(c, s).id[1]
          BY <2>3, BoundIsThere
        <5> QED
          BY <2>4, <2>5, <2>6, <5>1
      <4> HIDE DEF n
      <4>3. /\ MS!Bound(n, s).id[1] = set.ep /\ MS!Bound(n, s).model = set.model
            /\ n.pin[s] = IF SameAs(c, set) THEN c.pin[s] ELSE MS!NewPin(env, c, set)
        <5>1. set.step \in MS!Steps /\ EnvOK(env) /\ ConfigOK(env, c)
          BY <2>2, <2>3, <2>6
        <5>2. \A m, from : m = MS!ApplySetting(env, c, set, from) =>
                /\ MS!Bound(m, set.step).id[1] = set.ep /\ MS!Bound(m, set.step).model = set.model
                /\ m.pin[set.step] = IF SameAs(c, set) THEN c.pin[set.step] ELSE MS!NewPin(env, c, set)
          BY <4>2, <5>1, ApplyKeeps
        <5>3. /\ MS!Bound(n, set.step).id[1] = set.ep /\ MS!Bound(n, set.step).model = set.model
              /\ n.pin[set.step] = IF SameAs(c, set) THEN c.pin[set.step] ELSE MS!NewPin(env, c, set)
          BY <4>1, <5>2
        <5> QED
          BY <2>6, <5>3
      <4>4. binds = [ep |-> set.ep, model |-> set.model, pin |-> n.pin[s]]
        BY <4>3 DEF MS!Binding
      <4>5. CASE SameAs(c, set)
        <5>1. set.ep = want.ep /\ set.model = want.model
          BY <2>5, <2>6, <4>5 DEF SameAs
        <5>2. want = [ep |-> want.ep, model |-> want.model, pin |-> c.pin[s]]
          BY <2>3 DEF MS!Binding
        <5> QED
          BY <4>3, <4>4, <4>5, <5>1, <5>2
      <4>6. CASE ~SameAs(c, set)
        <5>1. n.pin[s] = IF MS!IsEnvBinding(env, set) THEN env.pin[s] ELSE "none"
          BY <2>6, <4>3, <4>6 DEF MS!NewPin
        <5>2. MS!IsEnvBinding(env, set) => base = [ep |-> set.ep, model |-> set.model, pin |-> env.pin[s]]
          <6>1. MS!Base(env).pin = env.pin
            BY DEF MS!Base
          <6> QED
            BY <2>6, <6>1 DEF MS!IsEnvBinding, MS!Binding, base
        <5> QED
          BY <4>4, <5>1, <5>2
      <4> QED
        BY <4>4, <4>5, <4>6
    <3> QED
      BY <3>1, <3>2
  <2> HIDE DEF binds
  <2> QED
    BY <2>4, <2>6, <2>7 DEF MS!RunsAsAsked, want, base
<1>3. ASSUME MS!RunsAsAsked, UNCHANGED msRun PROVE MS!RunsAsAsked'
  BY <1>3 DEF MS!RunsAsAsked
<1>4. MS!EndRun => MS!RunsAsAsked'
  <2>1. MS!EndRun => msRun'.on = FALSE
    BY <1>0 DEF MS!EndRun
  <2> QED
    BY <2>1 DEF MS!RunsAsAsked
<1>5. SettingType /\ MS!RunsAsAsked /\ [MS!Next]_(MS!vars) => MS!RunsAsAsked'
  BY <1>2, <1>3, <1>4, SettingMoves DEF MS!vars
<1> QED
  BY <1>1, <1>5, SettingsTyped, PTL DEF MS!Spec

\* A setting's history is a chain: each event starts from what the one before
\* it left, and the last one left the row, however the operators' commands
\* interleave (db.SetModelSetting, UnsetModelSetting).
THEOREM HistoriesAreChains ==
  ASSUME SettingConstants PROVE MS!Spec => []MS!HistoryIsAChain
<1>1. MS!Init => MS!HistoryIsAChain
  BY DEF MS!Init, MS!Unread, MS!HistoryIsAChain
<1> DEFINE Chain(h, row) ==
             /\ \A i \in 1 .. Len(h) : h[i].old = (IF i = 1 THEN MS!NoRow ELSE h[i - 1].new) /\ h[i].old # h[i].new
             /\ row = (IF h = <<>> THEN MS!NoRow ELSE h[Len(h)].new)
<1>2. MS!HistoryIsAChain <=> \A s \in MS!Steps : Chain(history[s], msRows[s])
  BY DEF MS!HistoryIsAChain, MS!Last
<1>3. ASSUME NEW h \in Seq(Events), NEW old, NEW row, Chain(h, old), old # row,
             NEW g, g = Append(h, [old |-> old, new |-> row])
      PROVE  Chain(g, row)
  <2> DEFINE n == Len(h)
  <2>1. n \in Nat /\ Len(g) = n + 1 /\ g # <<>>
    BY <1>3
  <2>2. g[n + 1] = [old |-> old, new |-> row] /\ \A i \in 1 .. n : g[i] = h[i]
    BY <1>3
  <2>3. old = IF n = 0 THEN MS!NoRow ELSE h[n].new
    BY <1>3
  <2>4. \A i \in 1 .. n : h[i].old = (IF i = 1 THEN MS!NoRow ELSE h[i - 1].new) /\ h[i].old # h[i].new
    BY <1>3
  <2>5. ASSUME NEW i \in 1 .. Len(g)
        PROVE  g[i].old = (IF i = 1 THEN MS!NoRow ELSE g[i - 1].new) /\ g[i].old # g[i].new
    <3>1. CASE i = n + 1
      BY <1>3, <2>1, <2>2, <2>3, <3>1
    <3>2. CASE i \in 1 .. n
      BY <2>1, <2>2, <2>4, <3>2
    <3> QED
      BY <2>1, <3>1, <3>2
  <2>6. row = g[Len(g)].new
    BY <2>1, <2>2
  <2> QED
    BY <2>1, <2>5, <2>6
<1> HIDE DEF Chain
<1>4. ASSUME SettingType, MS!HistoryIsAChain, SettingMoved PROVE MS!HistoryIsAChain'
  <2>1. CASE msRows' = msRows /\ history' = history
    BY <1>4, <2>1 DEF MS!HistoryIsAChain
  <2>2. ASSUME NEW s \in MS!Steps, NEW row, row # msRows[s], msRows' = [msRows EXCEPT ![s] = row],
               history' = [history EXCEPT ![s] = Append(@, [old |-> msRows[s], new |-> row])]
        PROVE  MS!HistoryIsAChain'
    <3>1. \A t \in MS!Steps : /\ msRows'[t] = (IF t = s THEN row ELSE msRows[t])
                              /\ history'[t] = (IF t = s THEN Append(history[t], [old |-> msRows[t], new |-> row])
                                                ELSE history[t])
      BY <1>4, <2>2 DEF SettingType
    <3>2. \A t \in MS!Steps : Chain(history[t], msRows[t]) /\ history[t] \in Seq(Events)
      BY <1>2, <1>4 DEF SettingType
    <3>3. ASSUME NEW t \in MS!Steps PROVE Chain(history'[t], msRows'[t])
      <4>1. CASE t # s
        BY <3>1, <3>2, <4>1
      <4>2. CASE t = s
        <5> DEFINE h == history[s] old == msRows[s] g == history'[s]
        <5>1. h \in Seq(Events) /\ Chain(h, old) /\ old # row
          BY <2>2, <3>2
        <5>2. g = Append(h, [old |-> old, new |-> row]) /\ msRows'[s] = row
          BY <3>1
        <5> HIDE DEF h, old, g
        <5>3. Chain(g, row)
          BY <1>3, <5>1, <5>2
        <5> QED
          BY <4>2, <5>2, <5>3 DEF g
      <4> QED
        BY <4>1, <4>2
    <3> QED
      BY <3>3 DEF Chain, MS!HistoryIsAChain, MS!Last
  <2> QED
    BY <1>4, <2>1, <2>2, SettingWritten
<1>5. ASSUME MS!HistoryIsAChain, UNCHANGED <<msRows, history>> PROVE MS!HistoryIsAChain'
  BY <1>5 DEF MS!HistoryIsAChain
<1>6. SettingType /\ MS!HistoryIsAChain /\ [MS!Next]_(MS!vars) => MS!HistoryIsAChain'
  BY <1>4, <1>5, SettingMoves DEF MS!vars
<1> QED
  BY <1>1, <1>6, SettingsTyped, PTL DEF MS!Spec

\* Nothing is embedded or searched with vectors the column cannot hold, if the
\* deployments' own embedders fit it (worker.applyEmbed, db.ApplyEmbedSettings).
THEOREM EmbeddersFit ==
  ASSUME SettingConstants, \A e \in Envs : MS!Binding(MS!Base(e), "embed").model \notin Unfit
  PROVE  MS!Spec => []MS!NeverUnfit
<1>1. MS!Init => MS!NeverUnfit
  BY DEF MS!Init, MS!WorkerOn, MS!SearchOn, MS!NeverUnfit
<1>2. ASSUME SettingType, MS!NeverUnfit, WorkerMoves, search' = search PROVE MS!NeverUnfit'
  <2> DEFINE emb == MS!Binding(MS!WithRows(worker.e, worker.read, MS!WorkerSteps), "embed")
  <2>1. \/ worker' = MS!WorkerOn(env)
        \/ \E pc, read, fresh, active, judge : worker' = WorkerRec(pc, worker.e, read, fresh, active, judge, worker.emb)
        \/ \E pc, read, fresh, active, judge : /\ worker' = WorkerRec(pc, worker.e, read, fresh, active, judge, emb)
                                               /\ emb = worker.emb \/ emb.model \notin Unfit
    BY <1>2, WorkerSteps
  <2> HIDE DEF emb
  <2>2. worker'.emb = worker.emb \/ worker'.emb.model \notin Unfit
    BY <1>2, <2>1 DEF WorkerRec, MS!WorkerOn, SettingType
  <2> QED
    BY <1>2, <2>2 DEF MS!NeverUnfit
<1>3. ASSUME SettingType, MS!NeverUnfit, SearchMoves, worker' = worker PROVE MS!NeverUnfit'
  <2>1. search'.emb = search.emb \/ search'.emb.model \notin Unfit
    BY <1>3, SearchSteps DEF MS!SearchOn, SettingType
  <2> QED
    BY <1>3, <2>1 DEF MS!NeverUnfit
<1>4. ASSUME MS!NeverUnfit, UNCHANGED <<worker, search>> PROVE MS!NeverUnfit'
  BY <1>4 DEF MS!NeverUnfit
<1>5. SettingType /\ MS!NeverUnfit /\ [MS!Next]_(MS!vars) => MS!NeverUnfit'
  BY <1>2, <1>3, <1>4, SettingMoves DEF MS!vars
<1> QED
  BY <1>1, <1>5, SettingsTyped, PTL DEF MS!Spec

-----------------------------------------------------------------------------
(* What a model answers, and which model is asked.                         *)

\* An answer served is the expected model's, attributed and paid for once
\* (internal/db/fncalls.go), and each step asks the endpoint and the model that are
\* set for it, or asked for, with a chain of what was set before
\* (internal/config/stepsettings.go, internal/db/modelsettings.go), whenever the
\* deployments' own embedders fit the column.
THEOREM EveryAnswerIsHonest ==
  ASSUME CallConstants, SettingConstants, \A e \in Envs : MS!Binding(MS!Base(e), "embed").model \notin Unfit
  PROVE  Spec => []AnswersAreHonest
<1>1. FC!Spec => [](FC!ServedByExpected /\ FC!AnswerIsAttributed /\ FC!PaidOnce)
  BY AnswersAreUsable
<1>2. MS!Spec => []MS!StepsApart /\ []MS!WorkerRunsAsSet /\ []MS!RunsAsAsked /\ []MS!HistoryIsAChain /\ []MS!NeverUnfit
  BY SettingsApart, WorkerIsAsSet, RunsAreAsAsked, HistoriesAreChains, EmbeddersFit
<1>3. ~(part = "fc") /\ [UNCHANGED part]_part => ~(part = "fc")'
  OBVIOUS
<1>4. ~(part = "ms") /\ [UNCHANGED part]_part => ~(part = "ms")'
  OBVIOUS
<1> QED
  BY <1>1, <1>2, <1>3, <1>4, PTL DEF Spec, ReportsSpec, AnswersAreHonest

-----------------------------------------------------------------------------
(* One spelling per book: what the pass of a decide run (OneSpelling)      *)
(* keeps of a book, whatever the runs read of it and when.  A decision     *)
(* made because nothing went against it is of a book that any other run's  *)
(* either holds or knows nothing in that goes against it: two of them      *)
(* never part.                                                             *)



States == {"none", "proposed", "accepted", "applied", "rejected"}
Words == Answers \cup {"-", "unavailable", "apply", "off_established", "conflict"}

\* A run is a record of six fields, whatever its cursor.
SpellShaped(w) ==
  w = [at |-> w.at, after |-> w.after, page |-> w.page, out |-> w.out, dead |-> w.dead, book |-> w.book]

RunType(w) ==
  /\ SpellShaped(w) /\ w.at \in {"load", "pass", "write"}
  /\ w.at # "load" => w.out \in [w.page -> Words]

SpellType ==
  /\ answer \in [OS!Findings -> Answers \cup {"-"}]
  /\ state \in [OS!Findings -> States]
  /\ osHeld \in [OS!Findings -> Words]
  /\ sight \in [OS!Findings -> {"-", "unknown", "led", "alone", "person"}]
  /\ osRun = [r \in OS!Runs |-> osRun[r]]
  /\ \A r \in OS!Runs : RunType(osRun[r])

\* What stands, or may still be lifted by a vote of the pilots.
MayStand(o) == o = "apply" \/ o \in OS!Liftable

\* The pass left it: it follows the spelling that leads, or nothing that counts
\* contradicts it.
Left(w, f) ==
  LET group  == OS!Group(w.book.members, KeyOf[OS!Original(f)])
      strong == OS!Strong(w.book, group)
  IN IF strong # {} THEN OS!Target(f) \in strong ELSE ~OS!Contradictory(group \ w.dead)

PassFits(w) ==
  /\ w.page \subseteq OS!Findings
  /\ \A f \in w.book.members : f \in OS!Findings /\ state[f] # "none"
  /\ \A f \in w.dead : f \in OS!Findings /\ answer[f] = "reject"
  /\ w.at = "pass" => \A f \in w.page : w.out[f] = "unavailable" \/ (w.out[f] = answer[f] /\ answer[f] # "-")
  /\ w.at = "write" => \A f \in w.page : MayStand(w.out[f]) =>
       answer[f] \notin {"-", "reject"} /\ (f \in w.book.members => Left(w, f))

\* A machine's decision for want of a contradiction, that stands or may.
Chosen(f) ==
  /\ sight[f] = "alone"
  /\ state[f] \in {"accepted", "applied"} \/ (state[f] = "proposed" /\ osHeld[f] \in OS!Liftable)

Apart(f, g) == OS!KeysOf(f) \cap OS!KeysOf(g) # {} /\ OS!Target(f) # OS!Target(g)

\* What the model said of them it will not take back.
SureAnswers == \A f \in OS!Findings : Chosen(f) => answer[f] \notin {"-", "reject"}

\* Of two books one holds the other, the rejected apart.
Nested ==
  \A r, q \in OS!Runs : \A f \in osRun[r].book.members \ osRun[q].book.members,
                           g \in osRun[q].book.members \ osRun[r].book.members :
    state[f] = "rejected" \/ state[g] = "rejected"

\* A book that does not know a choice knows nothing that goes against it.
Covered ==
  \A f \in OS!Findings, r \in OS!Runs : Chosen(f) /\ f \notin osRun[r].book.members =>
    \A g \in osRun[r].book.members : Apart(f, g) => answer[g] = "reject" \/ state[g] = "rejected"

NoneApart == \A f, g \in OS!Findings : Chosen(f) /\ Chosen(g) => ~Apart(f, g)

RunsFit == \A r \in OS!Runs : \A w : w = osRun[r] => PassFits(w)
Unheld == \A f \in OS!Findings : state[f] = "none" => osHeld[f] = "-"

SpellInv == RunsFit /\ Unheld /\ SureAnswers /\ Nested /\ Covered /\ NoneApart

\* The classes of the union-find are closed: findings that share a key are of one group.
LEMMA SharersAreGrouped ==
  ASSUME NEW members, NEW f \in members, NEW g \in members, OS!KeysOf(f) \cap OS!KeysOf(g) # {}
  PROVE  /\ g \in OS!Group(members, KeyOf[OS!Original(f)])
         /\ OS!Grouped(members, f)
<1> DEFINE k == KeyOf[OS!Original(f)]
           AllKeys == {k} \cup UNION {OS!KeysOf(h) : h \in members}
           Closed == {C \in SUBSET AllKeys : \A h \in members : OS!KeysOf(h) \cap C # {} => OS!KeysOf(h) \subseteq C}
<1>1. OS!Joined(members, k) = {j \in AllKeys : \A C \in Closed : k \in C => j \in C}
  BY DEF OS!Joined
<1>2. k \in OS!KeysOf(f) /\ OS!KeysOf(f) \subseteq AllKeys /\ OS!KeysOf(g) \subseteq AllKeys
  BY DEF OS!KeysOf
<1>3. \A C \in Closed : k \in C => OS!KeysOf(f) \subseteq C /\ OS!KeysOf(g) \subseteq C
  <2> SUFFICES ASSUME NEW C \in Closed, k \in C PROVE OS!KeysOf(f) \subseteq C /\ OS!KeysOf(g) \subseteq C
    OBVIOUS
  <2>1. OS!KeysOf(f) \subseteq C
    BY <1>2
  <2> QED
    BY <2>1
<1> HIDE DEF k, AllKeys, Closed
<1>4. OS!KeysOf(f) \subseteq OS!Joined(members, k) /\ OS!KeysOf(g) \subseteq OS!Joined(members, k)
  BY <1>1, <1>2, <1>3
<1>5. KeyOf[OS!Original(g)] \in OS!KeysOf(g) /\ KeyOf[OS!Target(f)] \in OS!KeysOf(f) /\ KeyOf[OS!Original(f)] \in OS!KeysOf(f)
  BY DEF OS!KeysOf
<1> QED
  BY <1>4, <1>5 DEF OS!Group, OS!Grouped, k

LEMMA FewerContradictNoMore ==
  ASSUME NEW S, NEW T, S \subseteq T, OS!Contradictory(S) PROVE OS!Contradictory(T)
BY DEF OS!Contradictory

\* The book's model depends on the scene alone.
LEMMA SameBook ==
  ASSUME osScene' = osScene
  PROVE  /\ OS!Findings' = OS!Findings /\ OS!Runs' = OS!Runs
         /\ \A f, g : Apart(f, g)' <=> Apart(f, g)
         /\ \A w, f : Left(w, f)' <=> Left(w, f)
<1>1. \A f : OS!Original(f)' = OS!Original(f) /\ OS!Target(f)' = OS!Target(f)
  BY DEF OS!Original, OS!Target
<1>2. \A f : OS!KeysOf(f)' = OS!KeysOf(f)
  BY DEF OS!KeysOf, OS!Original, OS!Target
<1>3. \A b, g : OS!Strong(b, g)' = OS!Strong(b, g)
  BY DEF OS!Strong, OS!Applied, OS!Target, OS!ByPilots, OS!Spellings, OS!Original, OS!InPilot
<1>4. \A m, k : OS!Group(m, k)' = OS!Group(m, k)
  BY DEF OS!Group, OS!Joined, OS!KeysOf, OS!Original, OS!Target
<1>5. \A g : OS!Contradictory(g)' <=> OS!Contradictory(g)
  BY DEF OS!Contradictory, OS!Original, OS!Target
<1>6. \A f, g : Apart(f, g)' <=> Apart(f, g)
  BY <1>1, <1>2 DEF Apart
<1>7. \A w, f : Left(w, f)' <=> Left(w, f)
  BY <1>1, <1>3, <1>4, <1>5 DEF Left
<1> QED
  BY <1>6, <1>7 DEF OS!Findings, OS!Runs

\* What the steps of a run set of its record.
AskedRun(w, told) == [w EXCEPT !.at = "pass", !.page = DOMAIN told, !.out = told]
PassedRun(w, dead, book, out) == [w EXCEPT !.at = "write", !.dead = dead, !.book = book, !.out = out]
WrittenRun(w, after) == [w EXCEPT !.at = "load", !.page = {}, !.out = <<>>, !.after = after]

LEMMA PageAsked ==
  ASSUME NEW w, SpellShaped(w), NEW told
  PROVE  /\ AskedRun(w, told) = [at |-> "pass", after |-> w.after, page |-> DOMAIN told, out |-> told, dead |-> w.dead, book |-> w.book]
         /\ SpellShaped(AskedRun(w, told))
<1> DEFINE u == [at |-> w.at, after |-> w.after, page |-> w.page, out |-> w.out, dead |-> w.dead, book |-> w.book]
           v == AskedRun(w, told)
<1>1. v = [u EXCEPT !.at = "pass", !.page = DOMAIN told, !.out = told]
  BY DEF SpellShaped, AskedRun
<1> HIDE DEF v
<1>2. v = [at |-> "pass", after |-> w.after, page |-> DOMAIN told, out |-> told, dead |-> w.dead, book |-> w.book]
  BY <1>1
<1>3. SpellShaped(v)
  BY <1>2 DEF SpellShaped
<1> QED
  BY <1>2, <1>3 DEF v

LEMMA PagePassed ==
  ASSUME NEW w, SpellShaped(w), NEW dead, NEW book, NEW out
  PROVE  /\ PassedRun(w, dead, book, out) = [at |-> "write", after |-> w.after, page |-> w.page, out |-> out, dead |-> dead, book |-> book]
         /\ SpellShaped(PassedRun(w, dead, book, out))
<1> DEFINE u == [at |-> w.at, after |-> w.after, page |-> w.page, out |-> w.out, dead |-> w.dead, book |-> w.book]
           v == PassedRun(w, dead, book, out)
<1>1. v = [u EXCEPT !.at = "write", !.dead = dead, !.book = book, !.out = out]
  BY DEF SpellShaped, PassedRun
<1> HIDE DEF v
<1>2. v = [at |-> "write", after |-> w.after, page |-> w.page, out |-> out, dead |-> dead, book |-> book]
  BY <1>1
<1>3. SpellShaped(v)
  BY <1>2 DEF SpellShaped
<1> QED
  BY <1>2, <1>3 DEF v

LEMMA PageWritten ==
  ASSUME NEW w, SpellShaped(w), NEW after
  PROVE  /\ WrittenRun(w, after) = [at |-> "load", after |-> after, page |-> {}, out |-> <<>>, dead |-> w.dead, book |-> w.book]
         /\ SpellShaped(WrittenRun(w, after))
<1> DEFINE u == [at |-> w.at, after |-> w.after, page |-> w.page, out |-> w.out, dead |-> w.dead, book |-> w.book]
           v == WrittenRun(w, after)
<1>1. v = [u EXCEPT !.at = "load", !.page = {}, !.out = <<>>, !.after = after]
  BY DEF SpellShaped, WrittenRun
<1> HIDE DEF v
<1>2. v = [at |-> "load", after |-> after, page |-> {}, out |-> <<>>, dead |-> w.dead, book |-> w.book]
  BY <1>1
<1>3. SpellShaped(v)
  BY <1>2 DEF SpellShaped
<1> QED
  BY <1>2, <1>3 DEF v

\* The other runs keep theirs.
OthersKeep(r) == osRun' = [q \in OS!Runs |-> IF q = r THEN osRun'[r] ELSE osRun[q]]

PassedOut(w, book, dead) ==
  [f \in DOMAIN w.out |-> IF f \in OS!Eligible(w.out) THEN OS!Relabel(book, dead, f, w.out[f]) ELSE w.out[f]]

LEMMA LoadSets ==
  ASSUME SpellType, NEW r \in OS!Runs, OS!Load(r)
  PROVE  /\ OthersKeep(r) /\ UNCHANGED <<osScene, state, osHeld, sight>>
         /\ \/ osRun'[r] = OS!Idle /\ answer' = answer
            \/ /\ osRun'[r].at = "pass" /\ osRun'[r].page \subseteq OS!Findings
               /\ osRun'[r].dead = osRun[r].dead /\ osRun'[r].book = osRun[r].book
               /\ RunType(osRun'[r])
               /\ answer' \in [OS!Findings -> Answers \cup {"-"}]
               /\ \A f \in OS!Findings : answer'[f] # answer[f] => answer[f] = "-"
               /\ \A f \in osRun'[r].page : osRun'[r].out[f] = "unavailable"
                     \/ (osRun'[r].out[f] = answer'[f] /\ answer'[f] \in Answers)
<1> DEFINE lostOf(told) == {f \in OS!Page(OS!Todo(r)) : told[f] = "unavailable"}
<1>1. osScene' = osScene /\ state' = state /\ osHeld' = osHeld /\ sight' = sight
  BY DEF OS!Load
<1>2. CASE osRun' = [osRun EXCEPT ![r] = OS!Idle] /\ answer' = answer
  BY <1>1, <1>2 DEF SpellType, OthersKeep
<1>3. ASSUME NEW told \in [OS!Page(OS!Todo(r)) -> Answers \cup {"unavailable"}],
             \A f \in DOMAIN told \ lostOf(told) : answer[f] \in {"-", told[f]},
             answer' = [f \in OS!Findings |-> IF f \in DOMAIN told \ lostOf(told) THEN told[f] ELSE answer[f]],
             osRun' = [osRun EXCEPT ![r].at = "pass", ![r].page = DOMAIN told, ![r].out = told]
      PROVE  /\ OthersKeep(r)
             /\ osRun'[r].at = "pass" /\ osRun'[r].page \subseteq OS!Findings
             /\ osRun'[r].dead = osRun[r].dead /\ osRun'[r].book = osRun[r].book
             /\ RunType(osRun'[r])
             /\ answer' \in [OS!Findings -> Answers \cup {"-"}]
             /\ \A f \in OS!Findings : answer'[f] # answer[f] => answer[f] = "-"
             /\ \A f \in osRun'[r].page : osRun'[r].out[f] = "unavailable"
                     \/ (osRun'[r].out[f] = answer'[f] /\ answer'[f] \in Answers)
  <2>1. osRun' = [osRun EXCEPT ![r] = AskedRun(osRun[r], told)]
    BY <1>3 DEF SpellType, AskedRun
  <2>2. osRun'[r] = AskedRun(osRun[r], told)
    BY <2>1 DEF SpellType
  <2>3. osRun'[r] = [at |-> "pass", after |-> osRun[r].after, page |-> DOMAIN told, out |-> told, dead |-> osRun[r].dead,
                     book |-> osRun[r].book] /\ SpellShaped(osRun'[r])
    BY <2>2, PageAsked DEF SpellType, RunType
  <2>4. DOMAIN told = OS!Page(OS!Todo(r)) /\ DOMAIN told \subseteq OS!Findings
    BY <1>3 DEF OS!Page, OS!Todo
  <2>5. \A f \in DOMAIN told : told[f] = "unavailable" \/ (told[f] = answer'[f] /\ answer'[f] \in Answers)
    BY <1>3, <2>4
  <2>6. RunType(osRun'[r])
    <3>1. told \in [DOMAIN told -> Words]
      BY <1>3, <2>4 DEF Words
    <3> QED
      BY <2>3, <3>1 DEF RunType
  <2>7. OthersKeep(r)
    BY <2>1 DEF SpellType, OthersKeep
  <2>8. /\ answer' \in [OS!Findings -> Answers \cup {"-"}]
        /\ \A f \in OS!Findings : answer'[f] # answer[f] => answer[f] = "-"
    BY <1>3, <2>4 DEF SpellType
  <2> QED
    BY <2>3, <2>4, <2>5, <2>6, <2>7, <2>8
<1>4. CASE OS!Todo(r) = {}
  BY <1>1, <1>2, <1>4 DEF OS!Load
<1>5. CASE OS!Todo(r) # {}
  <2>1. PICK told \in [OS!Page(OS!Todo(r)) -> Answers \cup {"unavailable"}] :
          /\ \A f \in DOMAIN told \ lostOf(told) : answer[f] \in {"-", told[f]}
          /\ answer' = [f \in OS!Findings |-> IF f \in DOMAIN told \ lostOf(told) THEN told[f] ELSE answer[f]]
          /\ osRun' = [osRun EXCEPT ![r].at = "pass", ![r].page = DOMAIN told, ![r].out = told]
    BY <1>5 DEF OS!Load
  <2> QED
    BY <1>1, <1>3, <2>1
<1> QED
  BY <1>4, <1>5

LEMMA PassSets ==
  ASSUME SpellType, NEW r \in OS!Runs, OS!Pass(r)
  PROVE  /\ OthersKeep(r) /\ UNCHANGED <<osScene, answer, state, osHeld, sight>>
         /\ osRun[r].at = "pass" /\ osRun'[r].at = "write" /\ osRun'[r].page = osRun[r].page
         /\ osRun'[r].dead = OS!Dead(r) /\ osRun'[r].book = OS!BookOf(r)
         /\ osRun'[r].out = PassedOut(osRun[r], OS!BookOf(r), OS!Dead(r))
         /\ RunType(osRun'[r])
<1> DEFINE out == PassedOut(osRun[r], OS!BookOf(r), OS!Dead(r))
<1>1. osRun' = [osRun EXCEPT ![r] = PassedRun(osRun[r], OS!Dead(r), OS!BookOf(r), out)]
  BY DEF OS!Pass, PassedOut, PassedRun, SpellType
<1>2. out \in [osRun[r].page -> Words]
  <2>1. osRun[r].out \in [osRun[r].page -> Words]
    BY DEF OS!Pass, SpellType, RunType
  <2>2. \A f \in osRun[r].page : OS!Relabel(OS!BookOf(r), OS!Dead(r), f, osRun[r].out[f]) \in Words
    BY <2>1 DEF OS!Relabel, Words
  <2> QED
    BY <2>1, <2>2 DEF PassedOut
<1> HIDE DEF out
<1>3. osRun'[r] = PassedRun(osRun[r], OS!Dead(r), OS!BookOf(r), out) /\ OthersKeep(r)
  BY <1>1 DEF SpellType, OthersKeep
<1>4. /\ osRun'[r] = [at |-> "write", after |-> osRun[r].after, page |-> osRun[r].page, out |-> out,
                      dead |-> OS!Dead(r), book |-> OS!BookOf(r)]
      /\ SpellShaped(osRun'[r])
  BY <1>3, PagePassed DEF SpellType, RunType
<1>5. RunType(osRun'[r])
  BY <1>2, <1>4 DEF RunType
<1>6. osRun[r].at = "pass" /\ UNCHANGED <<osScene, answer, state, osHeld, sight>>
  BY DEF OS!Pass
<1>7. osRun'[r].out = PassedOut(osRun[r], OS!BookOf(r), OS!Dead(r))
  BY <1>4 DEF out
<1> QED
  BY <1>3, <1>4, <1>5, <1>6, <1>7

LEMMA WriteSets ==
  ASSUME SpellType, NEW r \in OS!Runs, OS!Write(r)
  PROVE  /\ OthersKeep(r) /\ UNCHANGED <<osScene, answer>>
         /\ osRun[r].at = "write" /\ osRun'[r].at = "load" /\ osRun'[r].page = {}
         /\ osRun'[r].dead = osRun[r].dead /\ osRun'[r].book = osRun[r].book
         /\ RunType(osRun'[r])
<1> DEFINE next == CHOOSE f \in osRun[r].page : \A g \in osRun[r].page : g <= f
<1>0. /\ osRun' = [osRun EXCEPT ![r].at = "load", ![r].page = {}, ![r].out = <<>>, ![r].after = next]
      /\ osRun[r].at = "write" /\ osScene' = osScene /\ answer' = answer
  BY DEF OS!Write
<1> HIDE DEF next
<1>1. osRun' = [osRun EXCEPT ![r] = WrittenRun(osRun[r], next)]
  BY <1>0 DEF WrittenRun, SpellType
<1>2. osRun'[r] = WrittenRun(osRun[r], next) /\ OthersKeep(r)
  BY <1>1 DEF SpellType, OthersKeep
<1>3. /\ osRun'[r] = [at |-> "load", after |-> next, page |-> {}, out |-> <<>>, dead |-> osRun[r].dead, book |-> osRun[r].book]
      /\ SpellShaped(osRun'[r])
  BY <1>2, PageWritten DEF SpellType, RunType
<1>4. RunType(osRun'[r])
  BY <1>3 DEF RunType
<1>5. osRun'[r].at = "load" /\ osRun'[r].page = {} /\ osRun'[r].dead = osRun[r].dead /\ osRun'[r].book = osRun[r].book
  BY <1>3
<1> QED
  BY <1>0, <1>2, <1>4, <1>5

LEMMA IdleRun == RunType(OS!Idle) /\ OS!Idle.at = "load" /\ OS!Idle.page = {} /\ OS!Idle.dead = {} /\ OS!Idle.book.members = {}
BY DEF RunType, SpellShaped, OS!Idle, OS!NoBook

LEMMA SpellTyped ==
  /\ OS!Init => SpellType
  /\ SpellType /\ [OS!Next]_(OS!vars) => SpellType'
<1> DEFINE Same == OS!Findings' = OS!Findings /\ OS!Runs' = OS!Runs
<1>1. OS!Init => SpellType
  BY IdleRun DEF OS!Init, SpellType, OS!Findings, OS!Runs, States, Words
<1>2. ASSUME SpellType, NEW r \in OS!Runs, OthersKeep(r), RunType(osRun'[r]), Same,
             answer' \in [OS!Findings -> Answers \cup {"-"}], state' \in [OS!Findings -> States],
             osHeld' \in [OS!Findings -> Words], sight' \in [OS!Findings -> {"-", "unknown", "led", "alone", "person"}]
      PROVE  SpellType'
  <2>1. \A q \in OS!Runs : RunType(osRun'[q])
    BY <1>2 DEF OthersKeep, SpellType
  <2>2. osRun' = [q \in OS!Runs |-> osRun'[q]]
    BY <1>2 DEF OthersKeep
  <2> QED
    BY <1>2, <2>1, <2>2 DEF SpellType, RunType, SpellShaped, States, Words
<1>3. ASSUME osScene' = osScene PROVE Same
  BY <1>3 DEF OS!Findings, OS!Runs
<1>4. ASSUME SpellType, NEW r \in OS!Runs, OS!Load(r) PROVE SpellType'
  BY <1>2, <1>3, <1>4, LoadSets, IdleRun DEF SpellType
<1>5. ASSUME SpellType, NEW r \in OS!Runs, OS!Pass(r) PROVE SpellType'
  BY <1>2, <1>3, <1>5, PassSets DEF SpellType
<1>6. ASSUME SpellType, NEW r \in OS!Runs, OS!Write(r) PROVE SpellType'
  <2>1. \A f \in osRun[r].page : osRun[r].out[f] \in Words
    BY <1>6, WriteSets DEF SpellType, RunType
  <2>2. state' \in [OS!Findings -> States] /\ osHeld' \in [OS!Findings -> Words]
    BY <1>6, <2>1 DEF OS!Write, SpellType, States
  <2>3. sight' \in [OS!Findings -> {"-", "unknown", "led", "alone", "person"}]
    BY <1>6 DEF OS!Write, OS!Sight, SpellType
  <2> QED
    BY <1>2, <1>3, <1>6, <2>2, <2>3, WriteSets DEF SpellType
<1>7. ASSUME SpellType, NEW r \in OS!Runs, OS!Stop(r) PROVE SpellType'
  <2>1. OthersKeep(r) /\ osRun'[r] = OS!Idle /\ UNCHANGED <<osScene, answer, state, osHeld, sight>>
    BY <1>7 DEF OS!Stop, OthersKeep, SpellType
  <2> QED
    BY <1>2, <1>3, <1>7, <2>1, IdleRun DEF SpellType
<1>8. ASSUME SpellType, NEW f \in OS!Findings, OS!Judged(f) \/ OS!AudioLift(f) \/ OS!Review(f) \/ OS!Replay(f) PROVE SpellType'
  <2>1. /\ osScene' = osScene /\ osRun' = osRun /\ answer' = answer /\ osHeld' = osHeld
        /\ state' \in [OS!Findings -> States]
        /\ sight' \in [OS!Findings -> {"-", "unknown", "led", "alone", "person"}]
    BY <1>8 DEF OS!Judged, OS!AudioLift, OS!Review, OS!Replay, SpellType, States
  <2> QED
    BY <1>3, <1>8, <2>1 DEF SpellType, RunType, SpellShaped
<1>9. ASSUME SpellType, UNCHANGED OS!vars PROVE SpellType'
  BY <1>3, <1>9 DEF OS!vars, SpellType, RunType, SpellShaped
<1> QED
  BY <1>1, <1>4, <1>5, <1>6, <1>7, <1>8, <1>9 DEF OS!Next

\* Nothing said, recorded or rejected is taken back.
SpellSaves ==
  /\ osScene' = osScene
  /\ \A f \in OS!Findings : /\ answer[f] # "-" => answer'[f] = answer[f]
                            /\ state[f] # "none" => state'[f] # "none"
                            /\ state[f] = "rejected" => state'[f] = "rejected"

LEMMA SpellSaved == ASSUME SpellType, [OS!Next]_(OS!vars) PROVE SpellSaves
<1>1. ASSUME NEW r \in OS!Runs, OS!Load(r) PROVE SpellSaves
  BY <1>1, LoadSets DEF SpellSaves
<1>2. ASSUME NEW r \in OS!Runs, OS!Pass(r) PROVE SpellSaves
  BY <1>2, PassSets DEF SpellSaves
<1>3. ASSUME NEW r \in OS!Runs, OS!Write(r) PROVE SpellSaves
  BY <1>3, WriteSets DEF SpellSaves, SpellType, OS!Write, OS!Undecided
<1>4. ASSUME NEW r \in OS!Runs, OS!Stop(r) PROVE SpellSaves
  BY <1>4 DEF SpellSaves, OS!Stop
<1>5. ASSUME NEW f \in OS!Findings, OS!Judged(f) \/ OS!AudioLift(f) \/ OS!Review(f) \/ OS!Replay(f) PROVE SpellSaves
  BY <1>5 DEF SpellSaves, SpellType, OS!Judged, OS!AudioLift, OS!Review, OS!Replay
<1>6. ASSUME UNCHANGED OS!vars PROVE SpellSaves
  BY <1>6 DEF SpellSaves, OS!vars
<1> QED
  BY <1>1, <1>2, <1>3, <1>4, <1>5, <1>6 DEF OS!Next

LEMMA FitsKept ==
  ASSUME SpellType, SpellSaves, NEW w, PassFits(w)
  PROVE  PassFits(w)'
<1>1. OS!Findings' = OS!Findings /\ \A f : Left(w, f)' <=> Left(w, f)
  BY SameBook DEF SpellSaves
<1>2. w.at = "pass" => \A f \in w.page : w.out[f] = "unavailable" \/ (w.out[f] = answer'[f] /\ answer'[f] # "-")
  BY DEF PassFits, SpellSaves
<1>3. w.at = "write" => \A f \in w.page : MayStand(w.out[f]) =>
        answer'[f] \notin {"-", "reject"} /\ (f \in w.book.members => Left(w, f))
  BY DEF PassFits, SpellSaves
<1>4. /\ \A f \in w.book.members : f \in OS!Findings /\ state'[f] # "none"
      /\ \A f \in w.dead : f \in OS!Findings /\ answer'[f] = "reject"
  BY DEF PassFits, SpellSaves
<1>5. \A o : MayStand(o)' <=> MayStand(o)
  BY DEF MayStand, OS!Liftable
<1> QED
  BY <1>1, <1>2, <1>3, <1>4, <1>5 DEF PassFits

\* A step that loads no book and chooses nothing new.
LEMMA ChoicesKept ==
  ASSUME SpellType, SpellSaves, SpellInv,
         \A r \in OS!Runs : osRun'[r].book.members \in {osRun[r].book.members, {}},
         \A f \in OS!Findings : Chosen(f)' => Chosen(f)
  PROVE  (SureAnswers /\ Nested /\ Covered /\ NoneApart)'
<1>1. OS!Findings' = OS!Findings /\ OS!Runs' = OS!Runs /\ \A f, g : Apart(f, g)' <=> Apart(f, g)
  BY SameBook DEF SpellSaves
<1>2. \A r \in OS!Runs : osRun[r].book.members \subseteq OS!Findings
  BY DEF SpellInv, RunsFit, PassFits
<1>3. SureAnswers'
  BY <1>1 DEF SpellInv, SureAnswers, SpellSaves
<1>4. Nested'
  BY <1>1, <1>2 DEF SpellInv, Nested, SpellSaves
<1>5. Covered'
  <2> SUFFICES ASSUME NEW f \in OS!Findings, NEW r \in OS!Runs, Chosen(f)', f \notin osRun'[r].book.members,
                      NEW g \in osRun'[r].book.members, Apart(f, g)
               PROVE  answer'[g] = "reject" \/ state'[g] = "rejected"
    BY <1>1 DEF Covered
  <2>1. f \notin osRun[r].book.members /\ g \in osRun[r].book.members /\ g \in OS!Findings
    BY <1>2
  <2> QED
    BY <2>1 DEF SpellInv, Covered, SpellSaves
<1>6. NoneApart'
  BY <1>1 DEF SpellInv, NoneApart
<1> QED
  BY <1>3, <1>4, <1>5, <1>6

\* What a step that moves one run does to what the others hold.
LEMMA RunsFitStill ==
  ASSUME SpellType, SpellSaves, RunsFit, NEW r \in OS!Runs, OthersKeep(r), NEW v, v = osRun'[r], PassFits(v)'
  PROVE  RunsFit'
<1>1. \A w : PassFits(w) => PassFits(w)'
  BY FitsKept
<1>2. \A q \in OS!Runs : q # r => osRun'[q] = osRun[q]
  BY DEF OthersKeep
<1>3. \A q \in OS!Runs : \A w : w = osRun'[q] => PassFits(w)'
  BY <1>1, <1>2 DEF RunsFit
<1>4. OS!Runs' = OS!Runs
  BY SameBook DEF SpellSaves
<1> QED
  BY <1>3, <1>4 DEF RunsFit

\* One that moves none.
LEMMA NoRunMoves ==
  ASSUME SpellType, SpellSaves, RunsFit, osRun' = osRun
  PROVE  RunsFit'
<1>1. \A w : PassFits(w) => PassFits(w)'
  BY FitsKept
<1>2. OS!Runs' = OS!Runs
  BY SameBook DEF SpellSaves
<1> QED
  BY <1>1, <1>2 DEF RunsFit

LEMMA IdleFits == PassFits(OS!Idle)
BY IdleRun DEF PassFits

LEMMA LoadSpells == ASSUME SpellType, SpellInv, SpellSaves, "-" \notin Answers, NEW r \in OS!Runs, OS!Load(r) PROVE SpellInv'
<1>1. OS!Findings' = OS!Findings /\ OS!Runs' = OS!Runs
  BY SameBook DEF SpellSaves
<1>2. UNCHANGED <<state, osHeld, sight>> /\ OthersKeep(r)
  BY LoadSets
<1>3. ASSUME NEW v, v = osRun'[r] PROVE PassFits(v)'
  <2>1. CASE osRun'[r] = OS!Idle /\ answer' = answer
    BY <1>3, <2>1, IdleFits, FitsKept
  <2>2. CASE ~(osRun'[r] = OS!Idle /\ answer' = answer)
    <3>1. /\ v.at = "pass" /\ v.page \subseteq OS!Findings
          /\ v.dead = osRun[r].dead /\ v.book = osRun[r].book
          /\ \A f \in v.page : v.out[f] = "unavailable" \/ (v.out[f] = answer'[f] /\ answer'[f] \in Answers)
      BY <1>3, <2>2, LoadSets
    <3>2. PassFits(osRun[r])
      BY DEF SpellInv, RunsFit
    <3>3. /\ \A f \in v.dead : f \in OS!Findings /\ answer'[f] = "reject"
          /\ \A f \in v.book.members : f \in OS!Findings /\ state'[f] # "none"
      BY <1>2, <3>1, <3>2 DEF PassFits, SpellSaves
    <3> QED
      BY <1>1, <3>1, <3>3 DEF PassFits
  <2> QED
    BY <2>1, <2>2
<1>4. RunsFit'
  BY <1>2, <1>3, RunsFitStill DEF SpellInv
<1>5. Unheld'
  BY <1>1, <1>2 DEF SpellInv, Unheld
<1>6. \A q \in OS!Runs : osRun'[q].book.members \in {osRun[q].book.members, {}}
  BY LoadSets, IdleRun DEF OthersKeep
<1>7. \A f \in OS!Findings : Chosen(f)' => Chosen(f)
  BY <1>2 DEF Chosen, OS!Liftable
<1> QED
  BY <1>4, <1>5, <1>6, <1>7, ChoicesKept DEF SpellInv

LEMMA StopSpells == ASSUME SpellType, SpellInv, SpellSaves, NEW r \in OS!Runs, OS!Stop(r) PROVE SpellInv'
<1>1. OS!Findings' = OS!Findings /\ OS!Runs' = OS!Runs
  BY SameBook DEF SpellSaves
<1>2. OthersKeep(r) /\ osRun'[r] = OS!Idle /\ UNCHANGED <<answer, state, osHeld, sight>>
  BY DEF OS!Stop, OthersKeep, SpellType
<1>3. RunsFit'
  BY <1>2, IdleFits, FitsKept, RunsFitStill DEF SpellInv
<1>4. Unheld'
  BY <1>1, <1>2 DEF SpellInv, Unheld
<1>5. \A q \in OS!Runs : osRun'[q].book.members \in {osRun[q].book.members, {}}
  BY <1>2, IdleRun DEF OthersKeep
<1>6. \A f \in OS!Findings : Chosen(f)' => Chosen(f)
  BY <1>2 DEF Chosen, OS!Liftable
<1> QED
  BY <1>3, <1>4, <1>5, <1>6, ChoicesKept DEF SpellInv

LEMMA OthersSpell ==
  ASSUME SpellType, SpellInv, SpellSaves,
         NEW f \in OS!Findings, OS!Judged(f) \/ OS!AudioLift(f) \/ OS!Review(f) \/ OS!Replay(f)
  PROVE  SpellInv'
<1>1. OS!Findings' = OS!Findings /\ OS!Runs' = OS!Runs
  BY SameBook DEF SpellSaves
<1>2. osRun' = osRun /\ answer' = answer /\ osHeld' = osHeld
  BY DEF OS!Judged, OS!AudioLift, OS!Review, OS!Replay
<1>3. RunsFit'
  BY <1>2, NoRunMoves DEF SpellInv
<1>4. Unheld'
  BY <1>1, <1>2 DEF SpellInv, Unheld, SpellSaves
<1>5. \A q \in OS!Runs : osRun'[q].book.members \in {osRun[q].book.members, {}}
  BY <1>2
<1>6. \A g \in OS!Findings : Chosen(g)' => Chosen(g)
  BY <1>2 DEF SpellInv, Unheld, Chosen, OS!Liftable, OS!Judged, OS!AudioLift, OS!Review, OS!Replay, SpellType
<1> QED
  BY <1>3, <1>4, <1>5, <1>6, ChoicesKept DEF SpellInv

\* The book that a pass knows is the one it knew, or all that is not rejected, or nothing.
LEMMA BookKnows ==
  ASSUME SpellType, NEW r \in OS!Runs
  PROVE  \/ OS!BookOf(r).members \in {osRun[r].book.members, {}}
         \/ OS!BookOf(r).members = {f \in OS!Findings : state[f] \in OS!Live}
BY DEF OS!BookOf, OS!IsLive

LEMMA PassSpells == ASSUME SpellType, SpellInv, SpellSaves, NEW r \in OS!Runs, OS!Pass(r) PROVE SpellInv'
<1>1. OS!Findings' = OS!Findings /\ OS!Runs' = OS!Runs /\ \A f, g : Apart(f, g)' <=> Apart(f, g)
  BY SameBook DEF SpellSaves
<1>2. OthersKeep(r) /\ UNCHANGED <<answer, state, osHeld, sight>>
  BY PassSets
<1>3. PassFits(osRun[r])
  BY DEF SpellInv, RunsFit
<1>4. ASSUME NEW v, v = osRun'[r] PROVE PassFits(v)'
  <2>1. /\ v.at = "write" /\ v.page = osRun[r].page /\ v.dead = OS!Dead(r) /\ v.book = OS!BookOf(r)
        /\ v.out = PassedOut(osRun[r], OS!BookOf(r), OS!Dead(r))
    BY <1>4, PassSets
  <2>2. osRun[r].at = "pass" /\ DOMAIN osRun[r].out = osRun[r].page
    BY PassSets DEF SpellType, RunType
  <2>3. /\ v.page \subseteq OS!Findings
        /\ \A f \in v.book.members : f \in OS!Findings /\ state[f] # "none"
    BY <1>3, <2>1, BookKnows DEF PassFits, OS!Live
  <2>4. \A f \in v.dead : f \in OS!Findings /\ answer[f] = "reject"
    BY <1>3, <2>1, <2>2 DEF PassFits, OS!Dead, OS!Rejects
  <2>5. ASSUME NEW f \in v.page, MayStand(v.out[f])
        PROVE  answer[f] \notin {"-", "reject"} /\ (f \in v.book.members => Left(v, f))
    <3> DEFINE book  == OS!BookOf(r)
               dead  == OS!Dead(r)
               group == OS!Group(book.members, KeyOf[OS!Original(f)])
               strong == OS!Strong(book, group)
    <3>1. v.out[f] = IF f \in OS!Eligible(osRun[r].out) THEN OS!Relabel(book, dead, f, osRun[r].out[f]) ELSE osRun[r].out[f]
      BY <2>1, <2>2, <2>5 DEF PassedOut
    <3>2. MayStand(osRun[r].out[f]) => f \in OS!Eligible(osRun[r].out)
      BY <2>1, <2>2, <2>5 DEF MayStand, OS!Eligible
    <3>3. f \in OS!Eligible(osRun[r].out) /\ v.out[f] = OS!Relabel(book, dead, f, osRun[r].out[f])
      BY <2>5, <3>1, <3>2
    <3>4. osRun[r].out[f] = answer[f] /\ answer[f] \notin {"-", "reject"}
      BY <1>3, <2>1, <2>2, <2>5, <3>3 DEF PassFits, OS!Eligible, OS!Liftable
    <3>5. ASSUME f \in v.book.members PROVE Left(v, f)
      <4>1. OS!KeysOf(f) \cap OS!KeysOf(f) # {}
        BY DEF OS!KeysOf
      <4>2. OS!Grouped(book.members, f)
        BY <2>1, <3>5, <4>1, SharersAreGrouped
      <4>3. CASE strong # {} /\ OS!Target(f) \notin strong
        <5>1. v.out[f] = "off_established"
          BY <3>3, <4>2, <4>3 DEF OS!Relabel
        <5> QED
          BY <2>5, <5>1 DEF MayStand, OS!Liftable
      <4>4. CASE strong = {} /\ OS!Contradictory(OS!Counted(group, dead))
        <5>1. v.out[f] = "conflict"
          BY <3>3, <4>2, <4>4 DEF OS!Relabel
        <5> QED
          BY <2>5, <5>1 DEF MayStand, OS!Liftable
      <4>5. CASE (strong # {} /\ OS!Target(f) \in strong) \/ (strong = {} /\ ~OS!Contradictory(OS!Counted(group, dead)))
        BY <2>1, <4>5 DEF Left, OS!Counted
      <4> QED
        BY <4>3, <4>4, <4>5
    <3> QED
      BY <3>4, <3>5
  <2>6. PassFits(v)
    BY <2>1, <2>3, <2>4, <2>5 DEF PassFits
  <2> QED
    BY <2>6, FitsKept
<1>5. RunsFit'
  BY <1>2, <1>4, RunsFitStill DEF SpellInv
<1>6. Unheld'
  BY <1>1, <1>2 DEF SpellInv, Unheld
<1>7. CASE OS!BookOf(r).members \in {osRun[r].book.members, {}}
  <2>1. \A q \in OS!Runs : osRun'[q].book.members \in {osRun[q].book.members, {}}
    BY <1>2, <1>7, PassSets DEF OthersKeep
  <2>2. \A f \in OS!Findings : Chosen(f)' => Chosen(f)
    BY <1>2 DEF Chosen, OS!Liftable
  <2> QED
    BY <1>5, <1>6, <2>1, <2>2, ChoicesKept DEF SpellInv
<1>8. CASE OS!BookOf(r).members = {f \in OS!Findings : state[f] \in OS!Live}
  <2>1. /\ osRun'[r].book.members = {f \in OS!Findings : state[f] \in OS!Live}
        /\ \A q \in OS!Runs : q # r => osRun'[q].book.members = osRun[q].book.members
    BY <1>2, <1>8, PassSets DEF OthersKeep
  <2>2. \A q \in OS!Runs : \A f \in osRun[q].book.members : f \in OS!Findings /\ state[f] # "none"
    BY DEF SpellInv, RunsFit, PassFits
  <2>3. \A f \in OS!Findings : state[f] # "none" /\ state[f] \notin OS!Live => state[f] = "rejected"
    BY DEF SpellType, States, OS!Live
  <2>4. \A f : Chosen(f)' <=> Chosen(f)
    BY <1>2 DEF Chosen, OS!Liftable
  <2>5. \A f : Chosen(f) => state[f] \in OS!Live
    BY DEF Chosen, OS!Live
  <2>6. Nested'
    <3> SUFFICES ASSUME NEW p \in OS!Runs, NEW q \in OS!Runs,
                        NEW f \in osRun'[p].book.members \ osRun'[q].book.members,
                        NEW g \in osRun'[q].book.members \ osRun'[p].book.members
                 PROVE  state[f] = "rejected" \/ state[g] = "rejected"
      BY <1>1, <1>2 DEF Nested
    <3>1. CASE p = r /\ q # r
      BY <2>1, <2>2, <2>3, <3>1
    <3>2. CASE q = r /\ p # r
      BY <2>1, <2>2, <2>3, <3>2
    <3>3. CASE p = r /\ q = r
      BY <3>3
    <3>4. CASE p # r /\ q # r
      BY <2>1, <3>4 DEF SpellInv, Nested
    <3> QED
      BY <3>1, <3>2, <3>3, <3>4
  <2>7. Covered'
    <3> SUFFICES ASSUME NEW f \in OS!Findings, NEW q \in OS!Runs, Chosen(f), f \notin osRun'[q].book.members,
                        NEW g \in osRun'[q].book.members, Apart(f, g)
                 PROVE  answer[g] = "reject" \/ state[g] = "rejected"
      BY <1>1, <1>2, <2>4 DEF Covered
    <3>1. q # r
      BY <2>1, <2>5
    <3> QED
      BY <2>1, <3>1 DEF SpellInv, Covered
  <2>8. NoneApart' /\ SureAnswers'
    BY <1>1, <1>2, <2>4 DEF SpellInv, NoneApart, SureAnswers
  <2> QED
    BY <1>5, <1>6, <2>6, <2>7, <2>8 DEF SpellInv
<1> QED
  BY <1>7, <1>8, BookKnows

\* A choice that a write makes was of the run's book, and nothing there goes against it
\* but what the model rejects.
LEMMA NewChoices ==
  ASSUME SpellType, SpellInv, SpellSaves, NEW r \in OS!Runs, OS!Write(r),
         NEW f \in OS!Findings, Chosen(f)', ~Chosen(f)
  PROVE  /\ f \in osRun[r].book.members /\ state[f] = "proposed" /\ answer[f] \notin {"-", "reject"}
         /\ \A g \in osRun[r].book.members : Apart(f, g) => answer[g] = "reject"
<1> DEFINE w == osRun[r]
           group == OS!Group(w.book.members, KeyOf[OS!Original(f)])
           strong == OS!Strong(w.book, group)
<1>1. f \in w.page /\ OS!Undecided(f)
  BY DEF Chosen, OS!Write, OS!Liftable
<1>2. MayStand(w.out[f])
  BY <1>1 DEF Chosen, MayStand, OS!Write, OS!Liftable, OS!Undecided
<1>3. f \in w.book.members /\ strong = {}
  <2>1. sight'[f] = OS!Sight(w.book, f) /\ sight'[f] = "alone"
    BY <1>1 DEF Chosen, OS!Write
  <2> QED
    BY <2>1 DEF OS!Sight
<1>4. PassFits(w) /\ w.at = "write"
  BY WriteSets DEF SpellInv, RunsFit
<1>5. answer[f] \notin {"-", "reject"} /\ Left(w, f)
  BY <1>1, <1>2, <1>3, <1>4 DEF PassFits
<1>6. ~OS!Contradictory(group \ w.dead)
  BY <1>3, <1>5 DEF Left
<1>7. ASSUME NEW g \in w.book.members, Apart(f, g) PROVE answer[g] = "reject"
  <2>1. OS!KeysOf(f) \cap OS!KeysOf(f) # {}
    BY DEF OS!KeysOf
  <2>2. f \in group /\ g \in group
    BY <1>3, <1>7, <2>1, SharersAreGrouped DEF Apart
  <2>3. f \notin w.dead
    BY <1>4, <1>5 DEF PassFits
  <2>4. g \in w.dead
    BY <1>6, <1>7, <2>2, <2>3 DEF Apart, OS!Contradictory
  <2> QED
    BY <1>4, <2>4 DEF PassFits
<1> QED
  BY <1>1, <1>3, <1>5, <1>7 DEF OS!Undecided

LEMMA WriteSpells == ASSUME SpellType, SpellInv, SpellSaves, NEW r \in OS!Runs, OS!Write(r) PROVE SpellInv'
<1>1. OS!Findings' = OS!Findings /\ OS!Runs' = OS!Runs /\ \A f, g : Apart(f, g)' <=> Apart(f, g)
  BY SameBook DEF SpellSaves
<1>2. OthersKeep(r) /\ answer' = answer
  BY WriteSets
<1>3. \A q \in OS!Runs : osRun'[q].book = osRun[q].book
  BY <1>2, WriteSets DEF OthersKeep
<1>4. ASSUME NEW v, v = osRun'[r] PROVE PassFits(v)'
  <2>1. v.at = "load" /\ v.page = {} /\ v.dead = osRun[r].dead /\ v.book = osRun[r].book
    BY <1>4, WriteSets
  <2>2. PassFits(osRun[r])
    BY DEF SpellInv, RunsFit
  <2>3. PassFits(v)
    BY <2>1, <2>2 DEF PassFits
  <2> QED
    BY <2>3, FitsKept
<1>5. RunsFit'
  BY <1>2, <1>4, RunsFitStill DEF SpellInv
<1>6. Unheld'
  BY <1>1 DEF SpellInv, Unheld, OS!Write, OS!Undecided, SpellSaves
<1>7. \A f \in OS!Findings : Chosen(f)' /\ ~Chosen(f) =>
        /\ f \in osRun[r].book.members /\ state[f] = "proposed" /\ answer[f] \notin {"-", "reject"}
        /\ \A g \in osRun[r].book.members : Apart(f, g) => answer[g] = "reject"
  BY NewChoices
<1>8. \A q \in OS!Runs : osRun[q].book.members \subseteq OS!Findings
  BY DEF SpellInv, RunsFit, PassFits
<1>9. \A f \in OS!Findings : Chosen(f)' => answer[f] \notin {"-", "reject"}
  BY <1>7 DEF SpellInv, SureAnswers
<1>10. SureAnswers'
  BY <1>1, <1>2, <1>9 DEF SureAnswers
<1>11. Nested'
  BY <1>1, <1>3, <1>8 DEF SpellInv, Nested, SpellSaves
<1>12. Covered'
  <2> SUFFICES ASSUME NEW f \in OS!Findings, NEW q \in OS!Runs, Chosen(f)', f \notin osRun[q].book.members,
                      NEW g \in osRun[q].book.members, Apart(f, g)
               PROVE  answer[g] = "reject" \/ state'[g] = "rejected"
    BY <1>1, <1>2, <1>3 DEF Covered
  <2>1. g \in OS!Findings
    BY <1>8
  <2>2. CASE Chosen(f)
    BY <2>1, <2>2 DEF SpellInv, Covered, SpellSaves
  <2>3. CASE ~Chosen(f)
    <3>1. CASE g \in osRun[r].book.members
      BY <1>7, <2>3, <3>1
    <3>2. CASE g \notin osRun[r].book.members
      <4>1. state[f] = "rejected" \/ state[g] = "rejected"
        BY <1>7, <2>3, <3>2 DEF SpellInv, Nested
      <4>2. state[f] = "proposed"
        BY <1>7, <2>3
      <4> QED
        BY <2>1, <4>1, <4>2 DEF SpellSaves
    <3> QED
      BY <3>1, <3>2
  <2> QED
    BY <2>2, <2>3
<1>13. NoneApart'
  <2>1. ASSUME NEW f \in OS!Findings, NEW g \in OS!Findings, Chosen(f)', Chosen(g)', Apart(f, g), ~Chosen(f) PROVE FALSE
    <3>1. g \notin osRun[r].book.members
      BY <1>7, <1>9, <2>1
    <3>2. Chosen(g)
      BY <1>7, <2>1, <3>1
    <3>3. f \in osRun[r].book.members /\ state[f] = "proposed" /\ answer[f] # "reject"
      BY <1>7, <2>1
    <3>4. Apart(g, f)
      BY <2>1 DEF Apart
    <3> QED
      BY <3>1, <3>2, <3>3, <3>4 DEF SpellInv, Covered
  <2>2. \A f, g : Apart(f, g) => Apart(g, f)
    BY DEF Apart
  <2>3. \A f, g \in OS!Findings : Chosen(f)' /\ Chosen(g)' => ~Apart(f, g)
    BY <2>1, <2>2 DEF SpellInv, NoneApart
  <2> QED
    BY <1>1, <2>3 DEF NoneApart
<1> QED
  BY <1>5, <1>6, <1>10, <1>11, <1>12, <1>13 DEF SpellInv

LEMMA SpellStarts == ASSUME OS!Init PROVE SpellInv
<1>1. \A f \in OS!Findings : ~Chosen(f)
  BY DEF Chosen, OS!Init
<1>2. \A r \in OS!Runs : osRun[r] = OS!Idle
  BY DEF OS!Init
<1>3. RunsFit
  BY <1>2, IdleFits DEF RunsFit
<1> QED
  BY <1>1, <1>2, <1>3, IdleRun DEF SpellInv, Unheld, SureAnswers, Nested, Covered, NoneApart, OS!Init

LEMMA SpellKept == ASSUME SpellType, SpellInv, "-" \notin Answers, [OS!Next]_(OS!vars) PROVE SpellInv'
<1>1. SpellSaves
  BY SpellSaved
<1>2. ASSUME UNCHANGED OS!vars PROVE SpellInv'
  <2>1. osRun' = osRun /\ osHeld' = osHeld /\ \A f \in OS!Findings : Chosen(f)' => Chosen(f)
    BY <1>2 DEF OS!vars, Chosen, OS!Liftable
  <2>2. RunsFit'
    BY <1>1, <2>1, NoRunMoves DEF SpellInv
  <2>3. Unheld'
    BY <1>2 DEF OS!vars, SpellInv, Unheld, OS!Findings
  <2> QED
    BY <1>1, <2>1, <2>2, <2>3, ChoicesKept DEF SpellInv
<1> QED
  BY <1>1, <1>2, LoadSpells, PassSpells, WriteSpells, StopSpells, OthersSpell DEF OS!Next

LEMMA SpellSettles == ASSUME SpellType, SpellInv PROVE OS!OnceSpelt /\ OS!PagedAppliesNoMore
<1>1. OS!OnceSpelt
  BY DEF SpellInv, NoneApart, Chosen, Apart, OS!OnceSpelt, OS!Standing
<1>2. ASSUME NEW r \in OS!Runs, osRun[r].at = "write", NEW f \in osRun[r].page \cap osRun[r].book.members,
             osRun[r].out[f] = "apply"
      PROVE  f \in OS!AtOnce(r)
  <2> DEFINE w == osRun[r]
             group == OS!Group(w.book.members, KeyOf[OS!Original(f)])
             dead == {g \in w.book.members : answer[g] = "reject"}
  <2>1. PassFits(w)
    BY DEF SpellInv, RunsFit
  <2>2. Left(w, f)
    BY <1>2, <2>1 DEF PassFits, MayStand
  <2>3. group \ dead \subseteq group \ w.dead
    BY <2>1 DEF PassFits, OS!Group
  <2>4. ~OS!Contradictory(group \ w.dead) => ~OS!Contradictory(group \ dead)
    BY <2>3, FewerContradictNoMore
  <2> QED
    BY <1>2, <2>2, <2>4 DEF Left, OS!AtOnce
<1> QED
  BY <1>1, <1>2 DEF OS!PagedAppliesNoMore

\* In any book, whatever its runs, pages, faults and late findings are, machine
\* decisions that stand, neither led by an established spelling nor recorded after
\* their run had read the book, spell no name two ways; and a page applies nothing
\* that one page over the whole book would hold (internal/decide/spelling.go).
THEOREM BookIsSpeltOnce ==
  ASSUME "-" \notin Answers
  PROVE  Spec => []BookSpeltOnce
<1>1. OS!Init => SpellType /\ SpellInv
  BY SpellTyped, SpellStarts
<1>2. SpellType /\ SpellInv /\ [OS!Next]_(OS!vars) => SpellType' /\ SpellInv'
  BY SpellTyped, SpellKept
<1>3. SpellType /\ SpellInv => OS!BookSpeltOnce
  BY SpellSettles DEF OS!BookSpeltOnce
<1>4. OS!Spec => []OS!BookSpeltOnce
  BY <1>1, <1>2, <1>3, PTL DEF OS!Spec
<1>5. ~(part = "os") /\ [UNCHANGED part]_part => ~(part = "os")'
  OBVIOUS
<1> QED
  BY <1>4, <1>5, PTL DEF Spec, ReportsSpec, BookSpeltOnce

=============================================================================
