---------------------------- MODULE WorkbenchMC -----------------------------
(***************************************************************************)
(* The parts of Workbench checked in one run, and with them three that     *)
(* compute: rung 0's edits, the alignment behind a vote, and re-anchoring. *)
(* The initial state names the part of a behaviour, and the variables of   *)
(* the others are "off".                                                   *)
(***************************************************************************)
EXTENDS Workbench

\* Rung 0, re-anchoring, and the vote on one span.
VARIABLES edit, policy, verdict, evidence, decision
VARIABLES raChunks, row, raRun, lock, settled, prune, raRebuilds, decisions
VARIABLES input, vote

fcVars == <<fcKind, expected, fcRows, made, paid, fcAt, begun, dropped, kept,
  fcFaults, changes>>
srVars == <<rec, srRows, srClock, late, srReader, srFaults>>
suVars == <<control, suDisk, suMe, suHeld, asks, tries, suFaults, suDeaths>>
clVars == <<releases, head, files, clCache, clRun, runs, clFaults, clDeaths,
  byHand>>
rcVars == <<rcKind, source, last, lastErr, loads, rcAt, served, most, now, gets,
  rcFaults>>
lbVars == <<lbCurrent, seen, findings, lbLog, imp, imports>>
afVars == <<afRows, afReader, inflight>>
osVars == <<osScene, answer, state, osHeld, sight, osRun, osFaults, reviews>>
rzVars == <<edit, policy, verdict, evidence, decision>>
raVars == <<raChunks, row, raRun, lock, settled, prune, raRebuilds, decisions>>
snVars == <<snText, scans, snCache, snRun, plan, said, due, snRebuilds,
  snFaults>>
avVars == <<input, vote>>
pvVars == <<pilots, votes, fin, pvText, pvRun, rung, pvClock, pvLeft, steady>>
fmVars == <<fmScene, fmDisk, dirs, watched, inbox, mon, walk, task, jobs, bytes,
  fmFaults, restarts>>
miVars == <<miHeld, have, applied, proc, reran, starts, miFaults, olds>>
msVars == <<env, msRows, history, cli, worker, search, msRun, msCurrent,
  msLeft>>
spVars == <<status, judged, spChunks, spAt, got, line, asked, touched, joined,
  spMoves>>
pbVars == <<pbCount, pct, pbNext, pbDoing>>
scVars == <<scPage, scDoing, scI, scLive, scUsed, cards, health>>
mcVars == <<part, fcVars, srVars, suVars, clVars, rcVars, lbVars, afVars,
  osVars, rzVars, raVars, snVars, avVars, pvVars, fmVars, miVars, msVars,
  spVars, pbVars, scVars>>

LabelItem(fid, chunk, sha, fix, v, at) ==
  [fid |-> fid, chunk |-> chunk, sha |-> sha, fix |-> fix, verdict |-> v, at |-> at]
GoodNow   == LabelItem(0, TRUE, "-", "f", "good", 0)
JunkLater == LabelItem(0, TRUE, "-", "f", "junk", 2)
MCLabelFiles ==
  { <<LabelItem(1, FALSE, "-", "none", "good", 0)>>, <<LabelItem(0, TRUE, "-", "f", "good", 1)>>,
    <<GoodNow>>, <<JunkLater>>, <<GoodNow, JunkLater>>,
    <<LabelItem(0, TRUE, "s1", "f", "good", 0), LabelItem(0, TRUE, "s2", "f", "junk", 0)>> }

Unheard == [s \in {"a", "b", "c", "d"} |-> 0]
SpellingScene(rs, pairs, l, heard) ==
  [runs |-> rs, pair |-> pairs, late |-> l, over |-> FALSE, pilots |-> [m \in {"m1", "m2"} |-> heard]]
MCSpellingScenes ==
  { SpellingScene({"r"}, <<<<"a", "b">>, <<"a", "c">>, <<"a", "b">>>>, {2}, Unheard),
    SpellingScene({"r"}, <<<<"a", "b">>, <<"b", "a">>, <<"d", "b">>>>, {}, Unheard),
    SpellingScene({"r"}, <<<<"a", "d">>, <<"c", "d">>, <<"a", "b">>>>, {}, Unheard),
    SpellingScene({"r"}, <<<<"a", "c">>, <<"a", "b">>>>, {1}, [Unheard EXCEPT !["b"] = 1]),
    SpellingScene({"r", "q"}, <<<<"a", "b">>, <<"a", "c">>>>, {}, Unheard),
    [SpellingScene({"r"}, <<<<"a", "b">>, <<"a", "c">>>>, {}, Unheard) EXCEPT !.over = TRUE] }

Word == {"x", "y", "z", "1", "2"}
Heard == [w \in Word |-> CASE w \in {"x", "1"} -> <<"p">> [] w = "y" -> <<"q">>
                           [] w = "z" -> <<"p", "q">> [] OTHER -> <<"t">>]
UpTo(S, n) == UNION {[1 .. k -> S] : k \in 0 .. n}
FindingEdit(o, r, type, breaks, target) ==
  [target |-> target, o |-> o, r |-> r, type |-> type, breaks |-> breaks, name |-> type = "number",
   record |-> {<<"x", "y">>, <<"z">>}]
Said(S, n) == UpTo(S, n) \ {<<>>}
FindingEdits ==
  {FindingEdit(o, r, "word", {}, "found") : o \in Said({"x", "y", "z"}, 3), r \in UpTo({"x", "y", "z"}, 3)}
  \cup {FindingEdit(o, r, "number", {}, "found") : o \in Said({"x", "1", "2"}, 2), r \in UpTo({"x", "1", "2"}, 2)}
  \cup {FindingEdit(o, r, "repeat", b, "found") : o \in Said({"x", "y"}, 4), r \in UpTo({"x", "y"}, 2), b \in SUBSET (1 .. 3)}
  \cup {FindingEdit(o, r, "dropped", {}, "found") : o \in Said({"x", "y"}, 3), r \in UpTo({"x", "y"}, 4)}
  \cup {FindingEdit(<<"x">>, <<"y">>, t, {}, g) : t \in {"proper_noun", "word", "style"},
          g \in {"found", "chunk_changed", "anchor_missing", "not_word_bounded"}}

BookSegments ==
  << <<[text |-> <<"a", "_", "b">>, start |-> 0, end |-> 1], [text |-> <<"a">>, start |-> 1, end |-> 2],
       [text |-> <<"b", "_", "a">>, start |-> 2, end |-> 3]>>,
     <<[text |-> <<"a", "b">>, start |-> 0, end |-> 1], [text |-> <<"a">>, start |-> 1, end |-> 2]>> >>
JudgedFinding(t, span, place, size, offset) ==
  [t |-> t, span |-> span, place |-> place, size |-> size, offset |-> offset, index |-> TRUE, window |-> TRUE]
JudgedFindings ==
  << JudgedFinding(1, <<"a">>, 8, 5, TRUE), JudgedFinding(1, <<"a", "_", "b">>, 4, 9, TRUE),
     JudgedFinding(2, <<"a">>, 3, 4, FALSE) >>

ScanReply(b, s, p) == [boilerplate |-> b, score |-> s, probs |-> p]
ScanReplies == {ScanReply(50, 4, "known"), ScanReply(51, 0, "known"), ScanReply(0, 4, "none")}
Flags(yes, sample, limit, width) == [yes |-> yes, sample |-> sample, limit |-> limit, width |-> width]
ScanScene(x, old, p, n, f) == [text |-> x, old |-> old, plan |-> p, rebuilds |-> n, faults |-> f]
MCScanScenes ==
  { ScanScene(<<"x", "y", "x">>, {1}, [r |-> Flags(TRUE, 0, 0, 2)], 1, 1),
    ScanScene(<<"x", "y", "y">>, {}, [r |-> Flags(FALSE, 0, 0, 2)], 1, 1),
    ScanScene(<<"x", "y", "y">>, {}, [r |-> Flags(TRUE, 0, 2, 2)], 1, 1),
    ScanScene(<<"x", "y", "y">>, {}, [r |-> Flags(TRUE, 2, 0, 1)], 1, 1),
    ScanScene(<<"x", "gone", "y">>, {}, [r |-> Flags(TRUE, 0, 0, 1), q |-> Flags(TRUE, 0, 0, 2)], 0, 1),
    ScanScene(<<"gone", "gone", "x">>, {}, [r |-> Flags(TRUE, 0, 0, 2), q |-> Flags(TRUE, 0, 0, 2)], 1, 0) }

SpokenWord == {"u", "v", "w", "x", "y", "z", "X", "Y"}
LettersOf == [w \in SpokenWord |-> CASE w = "x" -> <<1, 1, 1, 1, 1, 1>> [] w = "z" -> <<1, 1, 1, 1, 1, 2>>
                                     [] w = "w" -> <<4>> [] OTHER -> <<3>>]
TrackSegment(ws, t) == [words |-> ws, timed |-> t]
PilotText(h, f, timed, cased) == [segs |-> <<[words |-> h, from |-> f, to |-> f + 4]>>, timed |-> timed, cased |-> cased]
InHalves(h) ==
  [timed |-> TRUE, cased |-> TRUE,
   segs |-> <<[words |-> SubSeq(h, 1, 2), from |-> 0, to |-> 2], [words |-> SubSeq(h, 3, Len(h)), from |-> 2, to |-> 4]>>]
VotedSpan(p, o, r, pilot, at, sg, timed) ==
  [segs |-> <<TrackSegment(SubSeq(p, 1, 2), timed), TrackSegment(SubSeq(p, 3, 4), TRUE)>>, seg |-> sg,
   chunk |-> IF sg = 1 THEN p ELSE SubSeq(p, 3, 4), found |-> TRUE, same |-> TRUE,
   original |-> o, replacement |-> r, offset |-> at, pilot |-> pilot]
Readings(p, i, r) ==
  LET Put(q, k, w) == SubSeq(q, 1, k - 1) \o w \o SubSeq(q, k + 1, Len(q))
  IN {h \in {p, Put(p, i, r), Put(p, i, <<"z">>), Put(Put(p, i, r), 1, <<"z">>)} : Len(h) > 1}
OneWordSpans ==
  UNION {UNION {UNION {{VotedSpan(p, <<p[i]>>, r, pl, i, 1, TRUE) : pl \in {PilotText(h, 0, FALSE, TRUE), InHalves(h)}}
                : h \in Readings(p, i, r)}
         : r \in {<<"x">>, <<"y">>, <<"z">>, <<"x", "y">>, <<>>} \ {<<p[i]>>}}
  : p \in {<<"x", "x", "y", "x">>, <<"x", "z", "y", "x">>, <<"z", "x", "x", "y">>, <<"y", "z", "x", "z">>,
           <<"z", "w", "w", "w">>}, i \in 1 .. 4}
PhraseSpans ==
  {VotedSpan(p, SubSeq(p, 2, 3), r, PilotText(h, 0, FALSE, c), 2, 1, TRUE) :
     p \in {<<"y", "x", "z", "y">>, <<"y", "y", "v", "y">>, <<"y", "x", "Y", "z">>},
     r \in {<<"x", "y">>, <<"y", "u">>, <<"X", "Y">>, <<"z", "z">>}, c \in BOOLEAN,
     h \in {<<"y", "x", "z", "y">>, <<"y", "y", "u", "y">>, <<"y", "y", "x", "z">>, <<"y", "X", "Y", "z">>,
            <<"z", "x", "w", "w", "x", "y", "z">>}}
OddSpans ==
  {VotedSpan(p, <<"x">>, <<"y">>, PilotText(p, f, t, TRUE), at, sg, timed) :
     p \in {<<"x", "y", "z", "y">>, <<"z", "z", "x", "x">>, <<"y", "z", "x", "z">>}, f \in {0, 4}, t \in BOOLEAN,
     at \in 0 .. 3, sg \in {1, 2}, timed \in BOOLEAN}
VotedSpans ==
  LET spans == OneWordSpans \cup PhraseSpans \cup OddSpans
      lost  == VotedSpan(<<"x", "y", "z", "y">>, <<"z">>, <<"x">>, PilotText(<<"x">>, 0, FALSE, FALSE), 3, 1, TRUE)
  IN spans \cup {[lost EXCEPT !.found = FALSE], [lost EXCEPT !.same = FALSE]}

PilotHears ==
  [k \in {"m1", "m2"} \X {"full", "findings"} \X {1, 2, 3} |->
     CASE k[2] = "findings" -> "neither" [] k[3] = 1 -> "heard_original"
       [] k[3] = 2 \/ k[1] = "m1" -> "heard_replacement" [] OTHER -> "heard_original"]
Full(t, m) == <<t, m, "full">>
PilotScene(n, l, g, y, moves, rows, v, h) ==
  [runs |-> n, limit |-> l, rungs |-> g, yes |-> y, moves |-> moves, pilots |-> rows, voted |-> v,
   holds |-> [f \in 1 .. 3 |-> f \in h]]
MCPilotScenes ==
  { PilotScene(0, 0, 1, TRUE, 2, <<Full(1, "m1"), Full(1, "m2")>>, TRUE, {1, 2}),
    PilotScene(1, 0, 0, TRUE, 2, <<Full(1, "m1")>>, TRUE, {1, 2}),
    PilotScene(1, 0, 1, TRUE, 1, <<Full(1, "m1"), Full(1, "m2"), <<1, "m2", "findings">>>>, TRUE, {1, 2}),
    PilotScene(2, 0, 1, TRUE, 0, <<Full(1, "m1"), Full(1, "m2"), Full(2, "m1")>>, FALSE, {1, 2}),
    PilotScene(1, 1, 1, FALSE, 1, <<Full(1, "m1"), <<2, "m1", "findings">>, Full(2, "m2")>>, TRUE, {1, 3}) }

LibraryScene(cp, local, slow, junk, interval, there, n, m) ==
  [copy |-> cp, size |-> <<1, 1, 1>>, local |-> local, slow |-> slow, junk |-> junk, interval |-> interval,
   there |-> there, faults |-> n, restarts |-> m]
LibraryScenes ==
  { LibraryScene(<<"a", "b", "c">>, {}, {3}, {}, TRUE, {1, 2, 3}, 2, 1),
    LibraryScene(<<"a", "b", "b">>, {<<"d", 0>>, <<"root", 1>>, <<"d", 2>>, <<"d", 3>>}, {}, {}, FALSE, {}, 0, 0),
    LibraryScene(<<"a", "b", "b">>, {<<"root", 1>>}, {2}, {}, TRUE, {}, 0, 0),
    LibraryScene(<<"a", "b", "c">>, {}, {}, {2}, TRUE, {1, 2}, 1, 0) }

Ep(i, t, m) == [id |-> i, type |-> t, model |-> m]
\* decide and scan share an endpoint; the second deployment drops chat2.
Home ==
  [endpoints |-> {Ep("emb", "embeddings", "m0"), Ep("chat", "chat", "c0"), Ep("chat2", "chat", "c2"),
                  Ep("s1", "systemone", "j0")},
   role   |-> [decide |-> "s1", embed |-> "emb", propose |-> "chat", scan |-> "s1"],
   pin    |-> [decide |-> "none", embed |-> "env", propose |-> "env", scan |-> "none"],
   policy |-> [decide |-> "env", embed |-> "none", propose |-> "none", scan |-> "none"]]
Deployments == {Home, [Home EXCEPT !.endpoints = {r \in @ : r.id # "chat2"}]}
SettingRow(s, e, m, p, q) == [step |-> s, ep |-> e, model |-> m, pin |-> p, policy |-> q]
SettingRows ==
  {SettingRow("embed", "emb", "m1", "none", "none"), SettingRow("embed", "emb", "m0", "row", "none"),
   SettingRow("embed", "emb", "big", "none", "none"), SettingRow("propose", "chat2", "c2", "row", "none"),
   SettingRow("propose", "chat", "c9", "none", "none"),
   SettingRow("decide", "s1", "j1", "none", "row"), SettingRow("scan", "s1", "j2", "none", "none")}
RunAsks == {[ep |-> "", model |-> ""], [ep |-> "", model |-> "j0"], [ep |-> "chat", model |-> ""]}
SettingBound(c, f, d, r) == [changes |-> c, faults |-> f, deploys |-> d, runs |-> r]
SettingBounds == {SettingBound(2, 0, 0, 0), SettingBound(1, 1, 1, 0), SettingBound(1, 0, 0, 1)}

NamesWithin == [g |-> {"g"}, gg |-> {"g", "gg"}, m |-> {"m"}, gm |-> {"g", "m"}]
Listed(token, probe)   == [token |-> token, probe |-> probe]
Claiming(name, beat)   == [name |-> name, beat |-> beat]
RanOn(name, finished)  == [name |-> name, finished |-> finished]
ServerPages ==
  [servers : {<<>>, <<Listed("g", "none")>>}
     \cup {<<Listed("g", p), Listed(t, q)>> : p \in {"held", "stopped", "ready", "offline"}, t \in {"gg", "m"},
                                             q \in {"held", "offline", "none"}},
   runners : {<<>>, <<Claiming("m", 1)>>, <<Claiming("gg", 2), Claiming("g", 1)>>,
              <<Claiming("g", 2), Claiming("gg", 0)>>, <<Claiming("gg", 0), Claiming("m", 0)>>,
              <<Claiming("gm", 1), Claiming("g", 0), Claiming("gg", 0)>>},
   hosts : {<<>>, <<RanOn("gg", 3), RanOn("g", 2)>>, <<RanOn("m", 2), RanOn("g", 2), RanOn("gg", 1)>>,
            <<RanOn("g", 0)>>},
   waits : BOOLEAN, phase : {"idle", "analyze"}]

Spelt == [a |-> 1, b |-> 1, c |-> 2, d |-> 2]
StandsIn == [s \in {"s1", "s2"} |-> {"f"}]
OfBuild == [ingest |-> {2, 4}, mcp |-> {2, 3, 4}]
Folders == <<"root", "d", "d">>
ChunkTracks == <<1, 1, 2>>
Context == <<1, 2, 2>>
FindingTracks == <<1, 1, 2>>
StageCounts == [1 .. 5 -> {0, 1, 40, 500, 501}]

Rz == INSTANCE RungZero WITH Edits <- FindingEdits, Reading <- Heard,
  Value <- [w \in Word |-> IF w = "1" THEN 1 ELSE IF w = "2" THEN 2 ELSE 0],
  Letters <- {"y"}, Inflects <- {{"x", "z"}}, Stop <- {"y"}, Policies <- {[apply
  |-> 3, reject |-> 1, lowercase |-> TRUE, floor |-> 1, evidence |->
  {"exact_repeat"}]}, MaxTokens <- 3, MaxHunk <- 2, MaxChanged <- 2,
  MaxRepeat <- 2, MaxInserted <- 2

Ra == INSTANCE Reanchor WITH Segments <- BookSegments, Sizes <- {5, 9},
  Findings <- JudgedFindings, Runs <- {"r", "q"}, BatchSize <- 1, Limit <- 0,
  PruneSize <- 9, MaxRebuilds <- 1, MaxPasses <- 1, MaxDecisions <- 1,
  chunks <- raChunks, run <- raRun, rebuilds <- raRebuilds

Av == INSTANCE AsrVote WITH Inputs <- VotedSpans, Norm <- [w \in SpokenWord |->
  CASE w = "X" -> "x" [] w = "Y" -> "y" [] OTHER -> w], Case <- [w \in
  SpokenWord |-> w], Letters <- LettersOf, Variants <- {{"v", "u"}},
  TimedPad <- 2, SegmentPad <- 1, MaxTokens <- 6, MaxEdits <- 4

Keep(p, vs) == IF part = p THEN TRUE ELSE UNCHANGED vs

OnlyPart(p) ==
  /\ part = p /\ UNCHANGED part
  /\ Keep("fc", fcVars)
  /\ Keep("sr", srVars)
  /\ Keep("su", suVars)
  /\ Keep("cl", clVars)
  /\ Keep("rc", rcVars)
  /\ Keep("lb", lbVars)
  /\ Keep("af", afVars)
  /\ Keep("os", osVars)
  /\ Keep("rz", rzVars)
  /\ Keep("ra", raVars)
  /\ Keep("sn", snVars)
  /\ Keep("av", avVars)
  /\ Keep("pv", pvVars)
  /\ Keep("fm", fmVars)
  /\ Keep("mi", miVars)
  /\ Keep("ms", msVars)
  /\ Keep("sp", spVars)
  /\ Keep("pb", pbVars)
  /\ Keep("sc", scVars)

FcOff == fcKind = "off" /\ expected = "off" /\ fcRows = "off" /\ made = "off" /\
  paid = "off" /\ fcAt = "off" /\ begun = "off" /\ dropped = "off" /\
  kept = "off" /\ fcFaults = "off" /\ changes = "off"
SrOff == rec = "off" /\ srRows = "off" /\ srClock = "off" /\ late = "off" /\
  srReader = "off" /\ srFaults = "off"
SuOff == control = "off" /\ suDisk = "off" /\ suMe = "off" /\ suHeld = "off" /\
  asks = "off" /\ tries = "off" /\ suFaults = "off" /\ suDeaths = "off"
ClOff == releases = "off" /\ head = "off" /\ files = "off" /\ clCache = "off" /\
  clRun = "off" /\ runs = "off" /\ clFaults = "off" /\ clDeaths = "off" /\
  byHand = "off"
RcOff == rcKind = "off" /\ source = "off" /\ last = "off" /\ lastErr = "off" /\
  loads = "off" /\ rcAt = "off" /\ served = "off" /\ most = "off" /\ now = "off"
  /\ gets = "off" /\ rcFaults = "off"
LbOff == lbCurrent = "off" /\ seen = "off" /\ findings = "off" /\ lbLog = "off"
  /\ imp = "off" /\ imports = "off"
AfOff == afRows = "off" /\ afReader = "off" /\ inflight = "off"
OsOff == osScene = "off" /\ answer = "off" /\ state = "off" /\ osHeld = "off" /\
  sight = "off" /\ osRun = "off" /\ osFaults = "off" /\ reviews = "off"
RzOff == edit = "off" /\ policy = "off" /\ verdict = "off" /\ evidence = "off"
  /\ decision = "off"
RaOff == raChunks = "off" /\ row = "off" /\ raRun = "off" /\ lock = "off" /\
  settled = "off" /\ prune = "off" /\ raRebuilds = "off" /\ decisions = "off"
SnOff == snText = "off" /\ scans = "off" /\ snCache = "off" /\ snRun = "off" /\
  plan = "off" /\ said = "off" /\ due = "off" /\ snRebuilds = "off" /\
  snFaults = "off"
AvOff == input = "off" /\ vote = "off"
PvOff == pilots = "off" /\ votes = "off" /\ fin = "off" /\ pvText = "off" /\
  pvRun = "off" /\ rung = "off" /\ pvClock = "off" /\ pvLeft = "off" /\
  steady = "off"
FmOff == fmScene = "off" /\ fmDisk = "off" /\ dirs = "off" /\ watched = "off" /\
  inbox = "off" /\ mon = "off" /\ walk = "off" /\ task = "off" /\ jobs = "off"
  /\ bytes = "off" /\ fmFaults = "off" /\ restarts = "off"
MiOff == miHeld = "off" /\ have = "off" /\ applied = "off" /\ proc = "off" /\
  reran = "off" /\ starts = "off" /\ miFaults = "off" /\ olds = "off"
MsOff == env = "off" /\ msRows = "off" /\ history = "off" /\ cli = "off" /\
  worker = "off" /\ search = "off" /\ msRun = "off" /\ msCurrent = "off" /\
  msLeft = "off"
SpOff == status = "off" /\ judged = "off" /\ spChunks = "off" /\ spAt = "off" /\
  got = "off" /\ line = "off" /\ asked = "off" /\ touched = "off" /\
  joined = "off" /\ spMoves = "off"
PbOff == pbCount = "off" /\ pct = "off" /\ pbNext = "off" /\ pbDoing = "off"
ScOff == scPage = "off" /\ scDoing = "off" /\ scI = "off" /\ scLive = "off" /\
  scUsed = "off" /\ cards = "off" /\ health = "off"

MCInit ==
  \/ part = "fc" /\ FC!Init /\ SrOff /\ SuOff /\ ClOff /\ RcOff /\ LbOff /\ AfOff /\ OsOff /\ RzOff /\ RaOff /\ SnOff /\ AvOff /\ PvOff /\ FmOff /\ MiOff /\ MsOff /\ SpOff /\ PbOff /\ ScOff
  \/ part = "sr" /\ SR!Init /\ FcOff /\ SuOff /\ ClOff /\ RcOff /\ LbOff /\ AfOff /\ OsOff /\ RzOff /\ RaOff /\ SnOff /\ AvOff /\ PvOff /\ FmOff /\ MiOff /\ MsOff /\ SpOff /\ PbOff /\ ScOff
  \/ part = "su" /\ SU!Init /\ FcOff /\ SrOff /\ ClOff /\ RcOff /\ LbOff /\ AfOff /\ OsOff /\ RzOff /\ RaOff /\ SnOff /\ AvOff /\ PvOff /\ FmOff /\ MiOff /\ MsOff /\ SpOff /\ PbOff /\ ScOff
  \/ part = "cl" /\ CL!Init /\ FcOff /\ SrOff /\ SuOff /\ RcOff /\ LbOff /\ AfOff /\ OsOff /\ RzOff /\ RaOff /\ SnOff /\ AvOff /\ PvOff /\ FmOff /\ MiOff /\ MsOff /\ SpOff /\ PbOff /\ ScOff
  \/ part = "rc" /\ RC!Init /\ FcOff /\ SrOff /\ SuOff /\ ClOff /\ LbOff /\ AfOff /\ OsOff /\ RzOff /\ RaOff /\ SnOff /\ AvOff /\ PvOff /\ FmOff /\ MiOff /\ MsOff /\ SpOff /\ PbOff /\ ScOff
  \/ part = "lb" /\ LB!Init /\ FcOff /\ SrOff /\ SuOff /\ ClOff /\ RcOff /\ AfOff /\ OsOff /\ RzOff /\ RaOff /\ SnOff /\ AvOff /\ PvOff /\ FmOff /\ MiOff /\ MsOff /\ SpOff /\ PbOff /\ ScOff
  \/ part = "af" /\ AF!Init /\ FcOff /\ SrOff /\ SuOff /\ ClOff /\ RcOff /\ LbOff /\ OsOff /\ RzOff /\ RaOff /\ SnOff /\ AvOff /\ PvOff /\ FmOff /\ MiOff /\ MsOff /\ SpOff /\ PbOff /\ ScOff
  \/ part = "os" /\ OS!Init /\ FcOff /\ SrOff /\ SuOff /\ ClOff /\ RcOff /\ LbOff /\ AfOff /\ RzOff /\ RaOff /\ SnOff /\ AvOff /\ PvOff /\ FmOff /\ MiOff /\ MsOff /\ SpOff /\ PbOff /\ ScOff
  \/ part = "rz" /\ Rz!Init /\ FcOff /\ SrOff /\ SuOff /\ ClOff /\ RcOff /\ LbOff /\ AfOff /\ OsOff /\ RaOff /\ SnOff /\ AvOff /\ PvOff /\ FmOff /\ MiOff /\ MsOff /\ SpOff /\ PbOff /\ ScOff
  \/ part = "ra" /\ Ra!Init /\ FcOff /\ SrOff /\ SuOff /\ ClOff /\ RcOff /\ LbOff /\ AfOff /\ OsOff /\ RzOff /\ SnOff /\ AvOff /\ PvOff /\ FmOff /\ MiOff /\ MsOff /\ SpOff /\ PbOff /\ ScOff
  \/ part = "sn" /\ SN!Init /\ FcOff /\ SrOff /\ SuOff /\ ClOff /\ RcOff /\ LbOff /\ AfOff /\ OsOff /\ RzOff /\ RaOff /\ AvOff /\ PvOff /\ FmOff /\ MiOff /\ MsOff /\ SpOff /\ PbOff /\ ScOff
  \/ part = "av" /\ Av!Init /\ FcOff /\ SrOff /\ SuOff /\ ClOff /\ RcOff /\ LbOff /\ AfOff /\ OsOff /\ RzOff /\ RaOff /\ SnOff /\ PvOff /\ FmOff /\ MiOff /\ MsOff /\ SpOff /\ PbOff /\ ScOff
  \/ part = "pv" /\ PV!Init /\ FcOff /\ SrOff /\ SuOff /\ ClOff /\ RcOff /\ LbOff /\ AfOff /\ OsOff /\ RzOff /\ RaOff /\ SnOff /\ AvOff /\ FmOff /\ MiOff /\ MsOff /\ SpOff /\ PbOff /\ ScOff
  \/ part = "fm" /\ FM!Init /\ FcOff /\ SrOff /\ SuOff /\ ClOff /\ RcOff /\ LbOff /\ AfOff /\ OsOff /\ RzOff /\ RaOff /\ SnOff /\ AvOff /\ PvOff /\ MiOff /\ MsOff /\ SpOff /\ PbOff /\ ScOff
  \/ part = "mi" /\ MI!Init /\ FcOff /\ SrOff /\ SuOff /\ ClOff /\ RcOff /\ LbOff /\ AfOff /\ OsOff /\ RzOff /\ RaOff /\ SnOff /\ AvOff /\ PvOff /\ FmOff /\ MsOff /\ SpOff /\ PbOff /\ ScOff
  \/ part = "ms" /\ MS!Init /\ FcOff /\ SrOff /\ SuOff /\ ClOff /\ RcOff /\ LbOff /\ AfOff /\ OsOff /\ RzOff /\ RaOff /\ SnOff /\ AvOff /\ PvOff /\ FmOff /\ MiOff /\ SpOff /\ PbOff /\ ScOff
  \/ part = "sp" /\ SP!Init /\ FcOff /\ SrOff /\ SuOff /\ ClOff /\ RcOff /\ LbOff /\ AfOff /\ OsOff /\ RzOff /\ RaOff /\ SnOff /\ AvOff /\ PvOff /\ FmOff /\ MiOff /\ MsOff /\ PbOff /\ ScOff
  \/ part = "pb" /\ PB!Init /\ FcOff /\ SrOff /\ SuOff /\ ClOff /\ RcOff /\ LbOff /\ AfOff /\ OsOff /\ RzOff /\ RaOff /\ SnOff /\ AvOff /\ PvOff /\ FmOff /\ MiOff /\ MsOff /\ SpOff /\ ScOff
  \/ part = "sc" /\ SC!Init /\ FcOff /\ SrOff /\ SuOff /\ ClOff /\ RcOff /\ LbOff /\ AfOff /\ OsOff /\ RzOff /\ RaOff /\ SnOff /\ AvOff /\ PvOff /\ FmOff /\ MiOff /\ MsOff /\ SpOff /\ PbOff

MCNext ==
  \/ OnlyPart("fc") /\ FC!Next
  \/ OnlyPart("sr") /\ SR!Next
  \/ OnlyPart("su") /\ SU!Next
  \/ OnlyPart("cl") /\ CL!Next
  \/ OnlyPart("rc") /\ RC!Next
  \/ OnlyPart("lb") /\ LB!Next
  \/ OnlyPart("af") /\ AF!Next
  \/ OnlyPart("os") /\ OS!Next
  \/ OnlyPart("rz") /\ Rz!Next
  \/ OnlyPart("ra") /\ Ra!Next
  \/ OnlyPart("sn") /\ SN!Next
  \/ OnlyPart("av") /\ Av!Next
  \/ OnlyPart("pv") /\ PV!Next
  \/ OnlyPart("fm") /\ FM!Next
  \/ OnlyPart("mi") /\ MI!Next
  \/ OnlyPart("ms") /\ MS!Next
  \/ OnlyPart("sp") /\ SP!Next
  \/ OnlyPart("pb") /\ PB!Next
  \/ OnlyPart("sc") /\ SC!Next

MCSpec == MCInit /\ [][MCNext]_mcVars

-----------------------------------------------------------------------------
(* The properties of these three.                                          *)

\* Rung 0 counts as few changed words as any alignment of a finding has, passes
\* a repeat or an insertion if and only if it is one, finds all the words that
\* are new, and refuses whatever the judge step has dropped
\* (internal/decide/rung0.go). The alignment behind a vote is a best one, a pilot
\* that wrote a reading is heard for it and never for the other, and no vote is
\* for the reading farther from the words heard (internal/asrpilot/vote.go,
\* align.go).
EditsAreExact ==
  /\ (part = "rz" => Rz!FewestChanges /\ Rz!RepeatIsExact /\ Rz!InsertsOnly /\ Rz!NeverStricter /\ Rz!NewIsAllThatIsNew)
  /\ (part = "av" => Av!AlignsBest /\ Av!HearsWhatWasSaid /\ Av!HeardIsNearer)

\* A re-anchored finding names the words the judge saw, however the chunks were
\* cut anew, no decided finding is moved, a batch writes all it reports, and a
\* run twice in a row is a run once (internal/db/reanchor.go).
AnchorsAreTrue ==
  [][part = "ra" => Ra!ReanchorStep]_mcVars

=============================================================================
