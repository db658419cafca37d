SPECIFICATION MCSpec
INVARIANTS AnswersAreHonest RunsAreShown UpdatesAreSafe PagesAreTrue LabelsAreSound  BookSpeltOnce EditsAreExact ScansAreTrue VotesAreHeard
PROPERTIES AnchorsAreTrue
CONSTANTS
  \* the log of model calls
  Callers = {"a", "b"}
  Models = {"m1", "m2"}
  FnKinds = {"fn", "judge"}
  Retries = 1
  MaxCalls = 2
  MaxCallFaults = 1
  MaxChanges = 1
  \* the model settings
  Envs <- Deployments
  Settable <- SettingRows
  Overrides <- RunAsks
  Unfit = {"big"}
  Operators = {"i", "j"}
  Bounds <- SettingBounds
  \* ad-hoc runs
  AdhocRuns = {"a"}
  MaxItems = 2
  StaleAfter = 1
  AbandonAfter = 2
  MaxStoreFaults = 1
  MaxRunTime = 3
  \* the runner's update
  Versions = {"v1", "v2", "v3"}
  Broken = {"v3"}
  FirstBuild = "v1"
  MaxAsks = 3
  MaxUpdateFaults = 2
  MaxDeaths = 2
  \* the command line's
  MaxReleases = 3
  MaxCommits = 2
  MaxRuns = 2
  MaxCliFaults = 2
  MaxCliDeaths = 1
  MaxByHand = 1
  \* the migrations
  Procs = {"ingest", "mcp"}
  MigrationsOf <- OfBuild
  Objects = {"jobs", "added"}
  FirstMigrations = {{}, {"jobs"}, {"jobs", "added"}}
  OldKnows = {"jobs"}
  MaxStarts = 4
  MaxMigrateFaults = 2
  MaxOld = 1
  \* the dashboard
  Requests = {"a", "b"}
  CacheKinds = {"db", "gateway", "probe"}
  Ttl = 2
  RetryAfter = 2
  FirstRetryAfter = 1
  MaxLoadTime = 4
  MaxVersion = 3
  MaxGets = 4
  MaxLoadFaults = 1
  PageTracks = {"t1", "t2"}
  EvalEnabled = TRUE
  MaxMoves = 1
  BarInputs <- StageCounts
  CardPages <- ServerPages
  NameHolds <- NamesWithin
  \* the labels
  Importers = {"i", "j"}
  Shas = {"s1", "s2"}
  Fixes = {"f"}
  Verdicts = {"good", "junk"}
  Spans <- StandsIn
  LabelFiles <- MCLabelFiles
  Dates = {1, 2}
  NoSha = "-"
  MaxImports = 2
  MaxProposals = 2
  \* the audit trail and the library
  Readers = {"r", "q"}
  EntryTags = {"x", "y"}
  MaxInflight = 1
  PageLimit = 1
  MaxRows = 2
  LibFiles = {1, 2, 3}
  DirOf <- Folders
  Libraries <- LibraryScenes
  StabilityCount = 1
  MaxPolls = 1
  \* the spelling of a book
  SpellingScenes <- MCSpellingScenes
  KeyOf <- Spelt
  Answers = {"apply", "no_evidence", "capped", "reject"}
  MinPilot = 1
  SpellPage = 1
  MaxSpellFaults = 1
  MaxReviews = 1
  \* the scan
  ScanRuns = {"r", "q"}
  Transcript <- ChunkTracks
  Matched = {1}
  Neighbours <- Context
  Texts = {"x", "y"}
  Replies <- ScanReplies
  Widths = {1, 2}
  ScanScenes <- MCScanScenes
  ScanPage = 2
  \* the votes
  HeldFindings = {1, 2, 3}
  TrackOf <- FindingTracks
  PilotModels = {"m1", "m2"}
  Hears <- PilotHears
  Alike = {}
  Names = {3}
  CappedFindings = {3}
  VoteRuns = {"r"}
  VotePage = 1
  PilotScenes <- MCPilotScenes
CHECK_DEADLOCK FALSE
