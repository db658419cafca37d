------------------------------ MODULE Reports -------------------------------
(***************************************************************************)
(* The parts of earmark that read, show or judge what the others keep:     *)
(* the pages of the dashboard, the labels, the walks of the audit trail    *)
(* and of the library, the scan and the second ASR models' votes.  Each is *)
(* an instance with variables of its own, for any values of its constants, *)
(* and part names the one a behaviour is of.                               *)
(***************************************************************************)
EXTENDS Naturals, Sequences

\* Which part a behaviour is of.
VARIABLE part

\* The dashboard: its cache, the status page, the pipeline bar, the servers.
CONSTANTS Requests, CacheKinds, Ttl, RetryAfter, FirstRetryAfter, MaxLoadTime, MaxVersion, MaxGets, MaxLoadFaults
VARIABLES rcKind, source, last, lastErr, loads, rcAt, served, most, now, gets, rcFaults
CONSTANTS PageTracks, EvalEnabled, MaxMoves
VARIABLES status, judged, spChunks, spAt, got, line, asked, touched, joined, spMoves
CONSTANT BarInputs
VARIABLES pbCount, pct, pbNext, pbDoing
CONSTANTS CardPages, NameHolds
VARIABLES scPage, scDoing, scI, scLive, scUsed, cards, health

\* The labels on proposed fixes.
CONSTANTS Importers, Shas, Fixes, Verdicts, Spans, LabelFiles, Dates, NoSha, MaxImports, MaxProposals
VARIABLES lbCurrent, seen, findings, lbLog, imp, imports

\* The walks of the audit trail and of the library.
CONSTANTS Readers, EntryTags, MaxInflight, PageLimit, MaxRows
VARIABLES afRows, afReader, inflight
CONSTANTS LibFiles, DirOf, Libraries, StabilityCount, MaxPolls
VARIABLES fmScene, fmDisk, dirs, watched, inbox, mon, walk, task, jobs, bytes, fmFaults, restarts

\* The chunk quality scan.
CONSTANTS ScanRuns, Transcript, Matched, Neighbours, Texts, Replies, Widths, ScanScenes, ScanPage
VARIABLES snText, scans, snCache, snRun, plan, said, due, snRebuilds, snFaults

\* The votes of the second ASR models.
CONSTANTS HeldFindings, TrackOf, PilotModels, Hears, Alike, Names, CappedFindings, VoteRuns, VotePage, PilotScenes
VARIABLES pilots, votes, fin, pvText, pvRun, rung, pvClock, pvLeft, steady

RC == INSTANCE RefreshCache WITH Kinds <- CacheKinds, MaxTime <- MaxLoadTime, MaxFaults <- MaxLoadFaults,
  kind <- rcKind, at <- rcAt, faults <- rcFaults
SP == INSTANCE StatusPage WITH Tracks <- PageTracks, chunks <- spChunks, at <- spAt, moves <- spMoves
PB == INSTANCE PipelineBar WITH Inputs <- BarInputs, count <- pbCount, next <- pbNext, doing <- pbDoing
SC == INSTANCE ServerCards WITH Pages <- CardPages, Holds <- NameHolds,
  page <- scPage, doing <- scDoing, i <- scI, live <- scLive, used <- scUsed
LB == INSTANCE Labels WITH Files <- LabelFiles, MaxFindings <- MaxProposals, current <- lbCurrent, log <- lbLog
AF == INSTANCE AuditFeed WITH Tags <- EntryTags, rows <- afRows, reader <- afReader
FM == INSTANCE FileMonitor WITH Files <- LibFiles, Scenes <- Libraries,
  scene <- fmScene, disk <- fmDisk, faults <- fmFaults
SN == INSTANCE Scan WITH Runs <- ScanRuns, Scenes <- ScanScenes, PageSize <- ScanPage,
  text <- snText, cache <- snCache, run <- snRun, rebuilds <- snRebuilds, faults <- snFaults
PV == INSTANCE PilotVotes WITH Findings <- HeldFindings, Capped <- CappedFindings, Models <- PilotModels,
  Runs <- VoteRuns, PageSize <- VotePage, Scenes <- PilotScenes,
  text <- pvText, run <- pvRun, clock <- pvClock, left <- pvLeft

\* A behaviour is one of the part it is of.
ReportsSpec ==
  /\ [][UNCHANGED part]_part
  /\ part = "rc" => RC!Spec
  /\ part = "sp" => SP!Spec
  /\ part = "pb" => PB!Spec
  /\ part = "sc" => SC!Spec
  /\ part = "lb" => LB!Spec
  /\ part = "af" => AF!Spec
  /\ part = "fm" => FM!Spec
  /\ part = "sn" => SN!Spec
  /\ part = "pv" => PV!Spec

-----------------------------------------------------------------------------
(* The properties, each of its parts.                                      *)

\* A page never goes back to an older value than one it has shown, and a viewer
\* who leaves does not make the cache show a failure to the others
\* (internal/mcp/refresh_cache.go). A status page that says it is safe to walk
\* away was asked for when every track with a row had failed or is searchable
\* by now, those sent back since excepted, and, with the judge in the pipeline
\* and no newcomer, when every transcribed track has its verdict, though it is
\* read in queries of their own (internal/db/db.go GetServiceStatus,
\* internal/mcp/dashboard.go). The bar fills its row to the point and hides no
\* stage that has a track (internal/mcp/bar.go). A runner with a claim has one
\* card, a host of late is on one, and a stalled runner fails the ASR role
\* unless another transcribes (internal/mcp/servers.go,
\* internal/mcp/models.go).
PagesAreTrue ==
  /\ (part = "rc" => RC!NeverBack /\ RC!CancelHurtsNobody)
  /\ (part = "sp" => SP!SafeIsSearchable /\ SP!SafeIsJudged)
  /\ (part = "pb" => PB!BarIsWhole)
  /\ (part = "sc" => SC!NoneLostNoneTwice /\ SC!HealthIsHonest)

\* A label is tied to a revision its fix was proposed on or stands in, whatever
\* is judged or rebuilt meanwhile, and imports at once repeat no verdict
\* (internal/db/labels.go).
LabelsAreSound == part = "lb" => LB!LabelsAreSound

\* A walk of the audit trail returns what was there when it began and nothing
\* twice, whatever commits meanwhile (internal/db/audit.go). A walk of the
\* library owes no job to a file that was there when it began, but where that
\* file could not be read or written down, and a file hashed by a walk and a
\* handler in the middle of its copy has one job (internal/monitor/monitor.go).
WalkIsComplete ==
  /\ (part = "af" => AF!WalkIsComplete)
  /\ (part = "fm" => FM!OneJobPerFile /\ FM!WalkLeavesNone)

\* A scan row holds what was answered about its text, the index counts a chunk
\* once and for what it now says, a walk that ends leaves nothing it owed, and
\* no answer stops a run or fails every later one (cmd/scan/scan.go,
\* internal/db/chunkscan.go).
ScansAreTrue == part = "sn" => SN!ScansAreTrue

\* A vote names the text it was made on, a run ends with a vote on every held
\* finding that stood through it, and the audio-vote rung decides what every
\* model heard in the text it writes to, while it is held as it was read, and
\* leaves no agreement out (cmd/asrpilot/vote.go, internal/decide/audiovote.go).
VotesAreHeard ==
  part = "pv" => PV!DecidedAsHeard /\ PV!VoteNamesItsText /\ PV!EveryHeldFindingVoted /\ PV!EveryAgreementActedOn

=============================================================================
