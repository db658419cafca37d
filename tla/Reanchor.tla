------------------------------- MODULE Reanchor -------------------------------
(***************************************************************************)
(* earmark reanchor (internal/db/reanchor.go, internal/patch/reanchor.go):   *)
(* after a re-chunk, the findings nobody has decided yet are anchored to the *)
(* chunks there are now, or parked.  Beside it run the worker's rebuilds     *)
(* (InsertChunks), `requeue --reembed`, `prune-chunks` and a reviewer.       *)
(*                                                                         *)
(* A text is a sequence of letters and Gap, the space; a transcript's        *)
(* segments never change, only how they are cut into chunks.                *)
(***************************************************************************)
EXTENDS Integers, Sequences, FiniteSets

CONSTANTS
  Segments,    \* transcript -> sequence of [text, start, end]
  Sizes,       \* the chunk sizes an embed recipe may have
  Findings,    \* finding -> [t, span, place, size, offset, index, window]
  Runs, BatchSize, Limit,     \* Limit: 0 for none
  PruneSize,   \* CHUNK_SIZE of `earmark prune-chunks`
  MaxRebuilds, MaxPasses, MaxDecisions

VARIABLES
  chunks,      \* transcript -> its chunk rows, <<>> while it is re-embedded
  row,         \* finding -> its row
  run,         \* run -> where it is
  lock,        \* finding -> the run that has it locked, or "-"
  settled,     \* findings classified, with no rebuild or decision since
  prune,       \* the prune command: [pc, t, other]
  rebuilds, decisions

vars == <<chunks, row, run, lock, settled, prune, rebuilds, decisions>>

Gap == "_"
Transcripts == DOMAIN Segments
F == DOMAIN Findings
Least(S) == CHOOSE n \in S : \A m \in S : n <= m
Cut(s, i, j) == SubSeq(s, i + 1, j)       \* s[i:j]

-----------------------------------------------------------------------------
(* Chunking.                                                               *)

RECURSIVE Joined(_)
Joined(texts) ==
  IF Len(texts) <= 1 THEN IF texts = <<>> THEN <<>> ELSE texts[1]
  ELSE texts[1] \o <<Gap>> \o Joined(Tail(texts))

TextOf(t, lo, hi) == Joined([k \in 1 .. hi - lo + 1 |-> Segments[t][lo + k - 1].text])

\* Segments lo to hi of t as chunk n.
ChunkRow(t, n, lo, hi) ==
  [index |-> n, first |-> lo, last |-> hi, text |-> TextOf(t, lo, hi),
   start |-> Segments[t][lo].start, end |-> Segments[t][hi].end]

\* buildChunksFromSegments: segments gathered until the next is over the budget.
RECURSIVE ChunksFrom(_, _, _, _, _)
ChunksFrom(t, size, n, lo, hi) ==
  IF hi = Len(Segments[t]) THEN <<ChunkRow(t, n, lo, hi)>>
  ELSE IF Len(TextOf(t, lo, hi + 1)) > size
       THEN <<ChunkRow(t, n, lo, hi)>> \o ChunksFrom(t, size, n + 1, hi + 1, hi + 1)
  ELSE ChunksFrom(t, size, n, lo, hi + 1)

PristineChunks(t, size) == ChunksFrom(t, size, 0, 1, 1)

\* Where the text of a chunk begins in the transcript's whole text.
Base(t, c) == IF c.first = 1 THEN 0 ELSE Len(TextOf(t, 1, c.first - 1)) + 1

-----------------------------------------------------------------------------
(* Anchors.                                                                *)

Occurrences(text, span) ==
  {i \in 0 .. Len(text) - Len(span) : Cut(text, i, i + Len(span)) = span}

Nth(S, n) == CHOOSE i \in S : Cardinality({j \in S : j < i}) = n

\* The start of the span an anchor names, or -1.
Locate(text, span, off, occ) ==
  LET all == Occurrences(text, span) IN
  IF off \in all THEN off
  ELSE IF occ \in 0 .. Cardinality(all) - 1 THEN Nth(all, occ)
  ELSE IF Cardinality(all) = 1 THEN Least(all) ELSE -1

\* The occurrences that begin and end a word where the span does.
WordOccurrences(text, span) ==
  {i \in Occurrences(text, span) :
     LET n == Len(span) IN
     /\ span[1] # Gap /\ i > 0 => text[i] = Gap
     /\ span[n] # Gap /\ i + n < Len(text) => text[i + n + 1] = Gap}

\* decide: the one hit of a search, or what the search found instead.
OutcomeOf(named, hits) ==
  IF hits = {} THEN [outcome |-> "none"]
  ELSE IF Cardinality(hits) > 1 THEN [outcome |-> "ambiguous"]
  ELSE LET h == CHOOSE x \in hits : TRUE IN
       [outcome |-> IF named # {} /\ h.chunk \in named THEN "unique" ELSE "moved",
        chunk |-> h.chunk, start |-> h.start]

Hits(cs, span) ==
  UNION {{[chunk |-> c, start |-> i] : i \in WordOccurrences(c.text, span)} : c \in cs}

\* Mutant: each chunk of the window is searched by itself.
ChunkByChunk(f, named, cs) ==
  LET over == SelectSeq(cs, LAMBDA c : c.start < f.end /\ c.end > f.start)
  IN OutcomeOf(named, Hits({over[k] : k \in DOMAIN over}, f.span))

\* searchWindow: the chunks the judged window covers, as one text.
SearchWindow(f, named, cs) ==
  LET over    == SelectSeq(cs, LAMBDA c : c.start < f.end /\ c.end > f.start)
      whole   == Joined([k \in DOMAIN over |-> over[k].text])
      at(k)   == IF k = 1 THEN 0 ELSE Len(Joined([m \in 1 .. k - 1 |-> over[m].text])) + 1
      found   == WordOccurrences(whole, f.span)
      start   == Least(found)
      holds   == {k \in DOMAIN over : start >= at(k) /\ start - at(k) + Len(f.span) <= Len(over[k].text)}
  IN IF over = <<>> \/ found = {} THEN [outcome |-> "none"]
     ELSE IF Cardinality(found) > 1 THEN [outcome |-> "ambiguous"]
     ELSE OutcomeOf(named, {[chunk |-> over[k], start |-> start - at(k)] : k \in holds})

\* Reanchor: a finding against the chunks cs.
Classify(f, cs) ==
  LET all     == {cs[k] : k \in DOMAIN cs}
      named   == {c \in all : c.index = f.index}
      judged  == {c \in named : c.text = f.hash}
      located == {c \in judged : Locate(c.text, f.span, f.off, f.occ) # -1}
  IN IF cs = <<>> THEN [outcome |-> "pending"]
     ELSE IF located # {}
     THEN LET c == CHOOSE x \in located : TRUE
          IN [outcome |-> "already", chunk |-> c, start |-> Locate(c.text, f.span, f.off, f.occ)]
     ELSE IF judged # {} THEN OutcomeOf(named, Hits(judged, f.span))
     ELSE IF f.end > f.start THEN SearchWindow(f, named, cs)
     ELSE IF Hits(named, f.span) # {} THEN OutcomeOf(named, Hits(named, f.span))
     ELSE OutcomeOf(named, Hits(all, f.span))

-----------------------------------------------------------------------------
(* The rows.                                                               *)

\* The chunk of a chunking that holds all of a judged span.
Holder(t, size, place, n) ==
  CHOOSE c \in {PristineChunks(t, size)[k] : k \in DOMAIN PristineChunks(t, size)} :
    place >= Base(t, c) /\ place + n <= Base(t, c) + Len(c.text)

\* A finding as it was recorded; what an old judge did not record is -1, or "-".
Recorded(f) ==
  LET d   == Findings[f]
      c   == Holder(d.t, d.size, d.place, Len(d.span))
      off == d.place - Base(d.t, c)
  IN [span |-> d.span, state |-> "proposed", reason |-> "-",
      index |-> IF d.index THEN c.index ELSE -1,
      start |-> IF d.window THEN c.start ELSE 0, end |-> IF d.window THEN c.end ELSE 0,
      hash |-> IF d.offset THEN c.text ELSE <<"-">>,
      off |-> IF d.offset THEN off ELSE -1,
      occ |-> IF d.offset THEN Cardinality({i \in Occurrences(c.text, d.span) : i < off}) ELSE -1]

Idle == [pc |-> "idle", after |-> 0, ids |-> {}, got |-> <<>>, had |-> <<>>, sees |-> <<>>, count |-> 0, passes |-> 0]

\* The tail of an older, longer chunking, as rebuilds once left it.
WithTail(t, s, old) ==
  LET new == PristineChunks(t, s)
  IN new \o SelectSeq(PristineChunks(t, old), LAMBDA c : c.index >= Len(new))

Init ==
  /\ chunks \in {[t \in Transcripts |-> WithTail(t, s, old)] : s \in Sizes, old \in Sizes}
  /\ row = [f \in F |-> Recorded(f)]
  /\ run = [r \in Runs |-> Idle]
  /\ lock = [f \in F |-> "-"]
  /\ settled = {} /\ rebuilds = 0 /\ decisions = 0
  /\ prune = [pc |-> "idle", t |-> 0, other |-> FALSE]

InScope(f) == row[f].state \in {"proposed", "unanchorable"}
LockedBy(r) == {f \in F : lock[f] = r}

\* The chunk rows of t are locked FOR SHARE by a run that has read them.
Shared(t) == \E r \in Runs : run[r].pc = "write" /\ t \in run[r].ids /\ run[r].sees[t] # <<>>

FindingsOf(t) == {f \in F : Findings[f].t = t}

\* pruneChunks: the findings addressed to the rows from `keep` on are retired.
TailOf(t, keep) == {f \in FindingsOf(t) : row[f].index >= keep}

Retire(fs) ==
  [f \in F |-> IF f \in fs /\ row[f].state \in {"proposed", "accepted"}
               THEN [row[f] EXCEPT !.state = "stale"] ELSE row[f]]

\* InsertChunks: the rows upserted, the tail pruned.
Rebuild(t, size) ==
  LET new  == PristineChunks(t, size)
      tail == TailOf(t, Len(new))
  IN /\ rebuilds < MaxRebuilds /\ rebuilds' = rebuilds + 1
     /\ ~Shared(t) /\ \A f \in tail : lock[f] = "-"
     /\ chunks' = [chunks EXCEPT ![t] = new]
     /\ row' = Retire(tail)
     /\ settled' = settled \ FindingsOf(t)
     /\ prune' = [prune EXCEPT !.other = @ \/ (prune.t = t /\ size # PruneSize)]
     /\ UNCHANGED <<run, lock, decisions>>

\* Mutant: any tail is an orphan, whatever the head.
AnyTail(expected, stored) == Len(stored) > Len(expected)

\* classify: the head is the re-chunk's, and rows follow it.
Orphans(expected, stored) ==
  /\ Len(stored) > Len(expected)
  /\ \A k \in DOMAIN expected : stored[k].text = expected[k].text

\* prune-chunks compares a transcript ...
PruneCompare(t) ==
  /\ prune.pc = "idle" /\ Orphans(PristineChunks(t, PruneSize), chunks[t])
  /\ prune' = [pc |-> "delete", t |-> t, other |-> FALSE]
  /\ UNCHANGED <<chunks, row, run, lock, settled, rebuilds, decisions>>

\* ... and prunes it, in a transaction of its own.
PruneDelete ==
  LET t    == prune.t
      keep == Len(PristineChunks(t, PruneSize))
  IN /\ prune.pc = "delete" /\ ~Shared(t)
     /\ \A f \in TailOf(t, keep) : lock[f] = "-"
     /\ chunks' = [chunks EXCEPT ![t] = SelectSeq(@, LAMBDA c : c.index < keep)]
     /\ row' = Retire(TailOf(t, keep))
     /\ settled' = settled \ FindingsOf(t)
     /\ prune' = [prune EXCEPT !.pc = "done"]
     /\ UNCHANGED <<run, lock, rebuilds, decisions>>

\* requeue --reembed.
Reembed(t) ==
  /\ rebuilds < MaxRebuilds /\ rebuilds' = rebuilds + 1
  /\ ~Shared(t)
  /\ chunks' = [chunks EXCEPT ![t] = <<>>]
  /\ settled' = settled \ FindingsOf(t)
  /\ UNCHANGED <<row, run, lock, prune, decisions>>

\* A reviewer decides, or takes a rejection back.
Review(f, s) ==
  /\ decisions < MaxDecisions /\ decisions' = decisions + 1
  /\ lock[f] = "-"
  /\ <<row[f].state, s>> \in {<<"proposed", "accepted">>, <<"proposed", "rejected">>, <<"rejected", "proposed">>}
  /\ row' = [row EXCEPT ![f].state = s]
  /\ settled' = settled \ {f}
  /\ UNCHANGED <<chunks, run, lock, prune, rebuilds>>

-----------------------------------------------------------------------------
(* A run: a transaction for each batch of transcripts.                      *)

Start(r) ==
  /\ run[r].pc = "idle" /\ run[r].passes < MaxPasses
  /\ run' = [run EXCEPT ![r] = [Idle EXCEPT !.pc = "page", !.passes = run[r].passes + 1]]
  /\ UNCHANGED <<chunks, row, lock, settled, prune, rebuilds, decisions>>

Stopped(r) == [Idle EXCEPT !.passes = run[r].passes]

\* The next transcripts with findings in scope.
Page(r) ==
  LET due == {t \in Transcripts : t > run[r].after /\ \E f \in FindingsOf(t) : InScope(f)}
      ids == {t \in due : Cardinality({u \in due : u < t}) < BatchSize}
  IN /\ run[r].pc = "page"
     /\ run' = [run EXCEPT ![r] = IF ids = {} THEN Stopped(r) ELSE [@ EXCEPT !.pc = "lock", !.ids = ids]]
     /\ UNCHANGED <<chunks, row, lock, settled, prune, rebuilds, decisions>>

\* Mutant: the rows are read without their locks (reanchorFindingsSQL).
NotLocked(r, fs) == lock

Locked(r, fs) == [f \in F |-> IF f \in fs THEN r ELSE lock[f]]

Before(g, f) ==
  \/ Findings[g].t < Findings[f].t
  \/ Findings[g].t = Findings[f].t /\ g < f

\* The findings, FOR UPDATE SKIP LOCKED, at most Limit of them in all the run.
LockFindings(r) ==
  LET free == {f \in F : Findings[f].t \in run[r].ids /\ InScope(f) /\ lock[f] = "-"}
      fs   == {f \in free :
                 Limit > 0 => Cardinality({g \in free : Before(g, f)}) < Limit - run[r].count}
  IN /\ run[r].pc = "lock"
     /\ lock' = Locked(r, fs)
     /\ run' = [run EXCEPT ![r].pc = "snap", ![r].got = [f \in fs |-> row[f]]]
     /\ UNCHANGED <<chunks, row, settled, prune, rebuilds, decisions>>

\* The chunks, FOR SHARE: of the rows there are when the statement begins ...
Snapshot(r) ==
  /\ run[r].pc = "snap"
  /\ run' = [run EXCEPT ![r].pc = "chunks", ![r].had = [t \in run[r].ids |-> Len(chunks[t])]]
  /\ UNCHANGED <<chunks, row, lock, settled, prune, rebuilds, decisions>>

\* ... each as it stands when its lock is had.
ReadChunks(r) ==
  /\ run[r].pc = "chunks"
  /\ run' = [run EXCEPT ![r].pc = "write",
       ![r].sees = [t \in run[r].ids |-> SelectSeq(chunks[t], LAMBDA c : c.index < run[r].had[t])]]
  /\ UNCHANGED <<chunks, row, lock, settled, prune, rebuilds, decisions>>

Got(r) == DOMAIN run[r].got
Result(r, f) == Classify(run[r].got[f], run[r].sees[Findings[f].t])

\* reanchorWriteSQL: the anchor, if the row is as it was read and the chunk too.
Anchored(r, f) ==
  LET res == Result(r, f)
      c   == res.chunk
  IN IF \E k \in DOMAIN chunks[Findings[f].t] :
          LET d == chunks[Findings[f].t][k] IN d.index = c.index /\ d.text = c.text
     THEN [row[f] EXCEPT !.index = c.index, !.hash = c.text, !.off = res.start,
             !.occ = Cardinality({i \in Occurrences(c.text, row[f].span) : i < res.start}),
             !.state = "proposed", !.reason = "-"]
     ELSE row[f]

\* writeReanchor.
Written(r, f) ==
  LET res == Result(r, f) IN
  IF \/ res.outcome = "pending" \/ row[f].state # run[r].got[f].state
     \/ res.outcome = "already" /\ run[r].got[f].state = "proposed"
  THEN row[f]
  ELSE IF res.outcome \in {"ambiguous", "none"}
       THEN [row[f] EXCEPT !.state = "unanchorable", !.reason = res.outcome]
       ELSE Anchored(r, f)

Whole(r, t) == run[r].sees[t] = chunks[t]

\* The batch is written and committed, and the walk goes on or is over.
WriteBatch(r) ==
  LET n == run[r].count + Cardinality(Got(r)) IN
  /\ run[r].pc = "write"
  /\ row' = [f \in F |-> IF f \in Got(r) THEN Written(r, f) ELSE row[f]]
  /\ lock' = [f \in F |-> IF lock[f] = r THEN "-" ELSE lock[f]]
  /\ settled' = settled \cup {f \in Got(r) : Whole(r, Findings[f].t)}
  /\ run' = [run EXCEPT ![r] =
       IF Cardinality(@.ids) < BatchSize \/ (Limit > 0 /\ n >= Limit) THEN Stopped(r)
       ELSE [Stopped(r) EXCEPT !.pc = "page", !.count = n,
               !.after = CHOOSE t \in run[r].ids : \A u \in run[r].ids : u <= t]]
  /\ UNCHANGED <<chunks, prune, rebuilds, decisions>>

\* A statement fails or the process dies: the batch is rolled back.
Rollback(r) ==
  /\ run[r].pc # "idle"
  /\ run' = [run EXCEPT ![r] = Stopped(r)]
  /\ lock' = [f \in F |-> IF lock[f] = r THEN "-" ELSE lock[f]]
  /\ UNCHANGED <<chunks, row, settled, prune, rebuilds, decisions>>

Next ==
  \/ \E t \in Transcripts : Reembed(t) \/ \E s \in Sizes : Rebuild(t, s)
  \/ PruneDelete \/ \E t \in Transcripts : PruneCompare(t)
  \/ \E f \in F, s \in {"accepted", "rejected", "proposed"} : Review(f, s)
  \/ \E r \in Runs : Start(r) \/ Page(r) \/ LockFindings(r) \/ Snapshot(r)
                       \/ ReadChunks(r) \/ WriteBatch(r) \/ Rollback(r)

Spec == Init /\ [][Next]_vars

-----------------------------------------------------------------------------
(* The properties.                                                         *)

\* The rows of t reach its last segment.
Covered(t, rows) == \E k \in DOMAIN rows : rows[k].last = Len(Segments[t])

\* The batch of f saw all the text there is.
WholeFor(f) ==
  \A r \in Runs : run[r].pc = "write" /\ f \in Got(r) =>
    Whole(r, Findings[f].t) /\ Covered(Findings[f].t, chunks[Findings[f].t])

Placed(f) ==
  LET c == {chunks[Findings[f].t][k] : k \in DOMAIN chunks[Findings[f].t]}
      d == CHOOSE x \in c : x.index = row'[f].index
  IN d.text = row[f].hash \/ Base(Findings[f].t, d) + row'[f].off = Findings[f].place

\* An anchor that is written names the words the judge saw, however often the chunks
\* were cut anew since; a chunk with the text that was judged counts as that chunk.
StaysWhereJudged ==
  \A f \in F :
    /\ row'[f] # row[f] /\ InScope(f) /\ row'[f].state = "proposed"
    /\ Findings[f].window /\ WholeFor(f)
    => Placed(f)

\* A run changes nothing that a person or a rebuild has decided.
DecidedStands ==
  \A f \in F : row'[f] # row[f] =>
     \/ decisions' # decisions \/ rebuilds' # rebuilds \/ prune' # prune
     \/ row[f].state \in {"proposed", "unanchorable"}

\* What a batch reports is what it wrote: while it has its locks nothing it writes to
\* is decided or rebuilt.
NoConflict ==
  \A r \in Runs : run[r].pc = "write" /\ run'[r] # run[r] /\ row' # row =>
     \A f \in Got(r) :
       /\ row[f] = run[r].got[f]
       /\ Result(r, f).outcome \in {"unique", "moved"} =>
            row'[f].state = "proposed" /\ row'[f].off = Result(r, f).start

\* A finding that was classified is not written again before its transcript is
\* rebuilt or it is decided anew: a run twice in a row is a run once.
RunTwiceIsOnce ==
  \A f \in F : f \in settled /\ f \in settled' => row'[f] = row[f]

\* prune-chunks takes no text of a transcript away, if the worker cuts it by the
\* command's CHUNK_SIZE meanwhile: what is left still reaches the last segment.
PruneLeavesAll ==
  prune.pc = "delete" /\ prune'.pc = "done" /\ ~prune.other /\ chunks[prune.t] # <<>> =>
    Covered(prune.t, chunks'[prune.t])

\* What one step may not do.
ReanchorStep ==
  StaysWhereJudged /\ DecidedStands /\ NoConflict /\ RunTwiceIsOnce /\ PruneLeavesAll

\* Not so: a batch sees all the chunks of a transcript, of one rebuild.
BatchSeesAll ==
  \A r \in Runs : run[r].pc = "write" => \A t \in run[r].ids : Whole(r, t)
=============================================================================
