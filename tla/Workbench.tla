----------------------------- MODULE Workbench ------------------------------
(***************************************************************************)
(* The parts of earmark that share no state with one another, for any      *)
(* values of their constants: those of Reports, and the model calls, the   *)
(* settings, the ad-hoc runs, the updates and the spelling of a book.      *)
(* Each is an instance with variables of its own, part names the one a     *)
(* behaviour is of, and the promises of parts of one kind are joined in    *)
(* one property.                                                           *)
(***************************************************************************)
EXTENDS Reports

\* The log of model calls.
CONSTANTS Callers, Models, FnKinds, Retries, MaxCalls, MaxCallFaults, MaxChanges
VARIABLES fcKind, expected, fcRows, made, paid, fcAt, begun, dropped, kept, fcFaults, changes

\* The model settings.
CONSTANTS Envs, Settable, Overrides, Unfit, Operators, Bounds
VARIABLES env, msRows, history, cli, worker, search, msRun, msCurrent, msLeft

\* The rows of ad-hoc runs.
CONSTANTS AdhocRuns, MaxItems, StaleAfter, AbandonAfter, MaxStoreFaults, MaxRunTime
VARIABLES rec, srRows, srClock, late, srReader, srFaults

\* The runner's update, the command line's, and the migrations.
CONSTANTS Versions, Broken, FirstBuild, MaxAsks, MaxUpdateFaults, MaxDeaths
VARIABLES control, suDisk, suMe, suHeld, asks, tries, suFaults, suDeaths
CONSTANTS MaxReleases, MaxCommits, MaxRuns, MaxCliFaults, MaxCliDeaths, MaxByHand
VARIABLES releases, head, files, clCache, clRun, runs, clFaults, clDeaths, byHand
CONSTANTS Procs, MigrationsOf, Objects, FirstMigrations, OldKnows, MaxStarts, MaxMigrateFaults, MaxOld
VARIABLES miHeld, have, applied, proc, reran, starts, miFaults, olds

\* One spelling per book.
CONSTANTS SpellingScenes, KeyOf, Answers, MinPilot, SpellPage, MaxSpellFaults, MaxReviews
VARIABLES osScene, answer, state, osHeld, sight, osRun, osFaults, reviews

FC == INSTANCE FnCache WITH Kinds <- FnKinds, MaxFaults <- MaxCallFaults,
  kind <- fcKind, rows <- fcRows, at <- fcAt, faults <- fcFaults
MS == INSTANCE ModelSettings WITH rows <- msRows, run <- msRun, current <- msCurrent, left <- msLeft
SR == INSTANCE StepRuns WITH Runs <- AdhocRuns, MaxFaults <- MaxStoreFaults, MaxTime <- MaxRunTime,
  rows <- srRows, clock <- srClock, reader <- srReader, faults <- srFaults
SU == INSTANCE SelfUpdate WITH MaxFaults <- MaxUpdateFaults, First <- FirstBuild,
  disk <- suDisk, me <- suMe, held <- suHeld, faults <- suFaults, deaths <- suDeaths
CL == INSTANCE CliUpdate WITH MaxFaults <- MaxCliFaults, MaxDeaths <- MaxCliDeaths,
  cache <- clCache, run <- clRun, faults <- clFaults, deaths <- clDeaths
MI == INSTANCE Migrate WITH Versions <- MigrationsOf, Firsts <- FirstMigrations, MaxFaults <- MaxMigrateFaults,
  held <- miHeld, faults <- miFaults
OS == INSTANCE OneSpelling WITH Scenes <- SpellingScenes, PageSize <- SpellPage, MaxFaults <- MaxSpellFaults,
  scene <- osScene, held <- osHeld, run <- osRun, faults <- osFaults

\* A behaviour is one of the part it is of.
Spec ==
  /\ ReportsSpec
  /\ part = "fc" => FC!Spec
  /\ part = "ms" => MS!Spec
  /\ part = "sr" => SR!Spec
  /\ part = "su" => SU!Spec
  /\ part = "cl" => CL!Spec
  /\ part = "mi" => MI!Spec
  /\ part = "os" => OS!Spec

-----------------------------------------------------------------------------
(* The properties, each of its parts.                                      *)

\* What the function-call cache serves was answered by the model that is
\* expected now, its row names the model that gave the answer, and no answer
\* that was paid for is bought again (internal/db/fncalls.go). A model setting
\* moves its own step and no other, the worker and an ad-hoc run use the
\* endpoint, model and pin that are set or asked for, a setting's history is a
\* chain, and nothing is embedded with a model the column cannot hold
\* (internal/config/stepsettings.go, internal/db/modelsettings.go).
AnswersAreHonest ==
  /\ (part = "fc" => FC!ServedByExpected /\ FC!AnswerIsAttributed /\ FC!PaidOnce)
  /\ (part = "ms" => MS!StepsApart /\ MS!WorkerRunsAsSet /\ MS!RunsAsAsked /\ MS!HistoryIsAChain /\ MS!NeverUnfit)

\* A closed run has the outcome it ended with, one shown as stale has missed a
\* heartbeat, and a page that reads the runs that go on and then those that
\* ended misses none that ends in between (internal/db/stepruns.go).
RunsAreShown == part = "sr" => SR!RunsAreShown

\* The runner tries a release once for each time it was asked to, however it
\* dies, and reports a version only when it is on disk (runner/runner.py).
\* earmark update acts on no cached result of another build, never installs an
\* older release, and leaves a binary in place whatever step of the swap fails
\* (cmd/update/update.go). Whichever processes start, fail and die together,
\* each migration is committed once and in order, version 1 stands for the
\* whole baseline, and a process that serves has the schema of its build
\* (internal/db/migrate.go).
UpdatesAreSafe ==
  /\ (part = "su" => SU!TriedAsAsked /\ SU!NeverReportedEarly)
  /\ (part = "cl" => CL!NeverOlder /\ CL!AlwaysABinary)
  /\ (part = "mi" => MI!HistoryAscends /\ MI!BaselineIsWhole /\ MI!ServesItsSchema /\ MI!LockIsLive)

\* Machine decisions that stand and neither follow an established spelling nor
\* were recorded after their run had read the book spell no name two ways, and
\* a paged run applies nothing that one page over everything would hold
\* (internal/decide/spelling.go).
BookSpeltOnce == part = "os" => OS!BookSpeltOnce

=============================================================================
