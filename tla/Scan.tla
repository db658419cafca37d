------------------------------- MODULE Scan -------------------------------
(***************************************************************************)
(* The chunk quality scan (cmd/scan, internal/scan, internal/db chunkscan):*)
(* each chunk's text is put to a decision model, and the answer stored as  *)
(* a row of (position, text, recipe).  A run reads a page of candidates,   *)
(* asks about them at once, and writes the answers in the page's order,    *)
(* while the worker rebuilds chunks, transcripts are requeued and another  *)
(* run scans the same chunks.                                              *)
(*                                                                         *)
(* A chunk's position stands for (transcript_id, chunk_index), which the   *)
(* walk is ordered by.  The answer cache is one slot of an input (FnCache  *)
(* has its races of lookup and insert); a recipe differs from another in   *)
(* the context it shows, or only in the build that registered it.          *)
(***************************************************************************)
EXTENDS Integers, FiniteSetsExt, SequencesExt

CONSTANTS
  Runs,         \* scan runs
  Transcript,   \* position -> its transcript, in the walk's order
  Matched,      \* transcripts whose book has a catalogue record
  Neighbours,   \* position -> segments it has around it
  Texts,        \* chunk texts
  Replies,      \* what the model may reply
  Widths,       \* segments of context a run may show
  Scenes,       \* what there is: [text, old, plan, rebuilds, faults], the plan the flags of
                \* each run to come, [yes, sample, limit, width], and old what is scanned;
                \* faults are failed calls, fallbacks, stops and requeues (bounds)
  PageSize      \* candidates in a page

VARIABLES
  text,    \* position -> its chunk's text, or Gone
  scans,   \* the chunk_scan rows
  cache,   \* input -> the fn_calls row that serves it, or NoAnswer
  run,     \* each run
  plan,    \* the runs to come, and their flags
  said,    \* what the model has said of a text
  due,     \* run -> <<position, text>> it has to scan
  rebuilds, faults  \* what is left of the bounds

vars == <<text, scans, cache, run, plan, said, due, rebuilds, faults>>

Gone      == "gone"
Positions == DOMAIN Transcript
Of(t)     == {p \in Positions : Transcript[p] = t}
Fault     == faults > 0 /\ faults' = faults - 1

\* A recipe: the context shown, and the build for ids of the first format.
Recipe(w) == [width |-> w, build |-> "any"]
OldRecipe(w) == [Recipe(w) EXCEPT !.build = "old"]

\* equivalentRecipesCTE: recipes that differ at most in the build.
Equivalent(a, b) == a.width = b.width

Lesser(m, n) == IF m < n THEN m ELSE n

\* InputFor: the text with the neighbours there are.
Input(p, x, w) == <<x, Lesser(w, Neighbours[p])>>
Inputs         == Texts \X UNION {0 .. w : w \in Widths}
NoAnswer       == [recipe |-> "none"]

-----------------------------------------------------------------------------
(* Replies: issue probabilities that are "known", "unknown" or "none", a    *)
(* score, and the probability of boilerplate in percent.                    *)

Percent(p) == p \in 0 .. 100

\* checkAnswer: what the client accepts of a reply.
Accepted(a) == Percent(a.boilerplate) /\ a.score \in 0 .. 4

\* MapAnswers: what the mapping can use.
Usable(a) == Percent(a.boilerplate) /\ a.score \in 0 .. 4 /\ a.probs = "known"

\* Mutant: a score is stored as it came.
AsScored(a) == [quality |-> a.score, boilerplate |-> a.boilerplate]

\* The result of usable answers.
Result(a) == [quality |-> a.score + 1, boilerplate |-> a.boilerplate]

\* ChunkScan.validate.
Valid(r) == r.quality \in 1 .. 5 /\ Percent(r.boilerplate)

-----------------------------------------------------------------------------
(* The quality index, over scans of what the chunks now say.                *)

\* Mutant: a scan of replaced text still counts.
AtPosition(s) == text[s.p] # Gone

\* qualityGroupsSQL's join: the scan is of the chunk's text.
Describes(s) == text[s.p] = s.text

BoilerplateCut == 50
Scope(t) == IF t \in Matched THEN "asin_matched" ELSE "unmatched"

\* The scans a series is the mean of.
Counted(recipe, scopes) ==
  {s \in scans : /\ s.recipe = recipe /\ Describes(s)
                 /\ s.result.boilerplate <= BoilerplateCut
                 /\ Scope(Transcript[s.p]) \in scopes}

\* sum(s.quality): the points of the scans, each scan's told from the others'.
Points(S) == UNION {{s} \X (1 .. s.result.quality) : s \in S}

\* QualityIndex: the library and its two sides, those with a chunk to count.
Scopes == {"asin_matched", "unmatched"}
QualityIndex(recipe) ==
  {[n |-> Cardinality(Counted(recipe, S)), sum |-> Cardinality(Points(Counted(recipe, S)))] :
     S \in {T \in {Scopes, {"asin_matched"}, {"unmatched"}} : Counted(recipe, T) # {}}}

-----------------------------------------------------------------------------
(* A run.                                                                   *)

Idle == [pc |-> "idle"]

Stay(r, pc) == run' = [run EXCEPT ![r].pc = pc]

\* Candidates: chunks whose text has no scan by the recipe or an equivalent.
Scanned(p, x, recipe) ==
  \E s \in scans : s.p = p /\ s.text = x /\ Equivalent(s.recipe, recipe)
Unscanned(w) == {p \in Positions : text[p] # Gone /\ ~Scanned(p, text[p], Recipe(w))}

\* What a run begins with, under its flags.
Begun(f) ==
  [pc |-> "select", yes |-> f.yes, sample |-> f.sample, limit |-> f.limit, width |-> f.width,
   after |-> 0, page |-> <<>>, outs |-> <<>>, next |-> 1, seen |-> FALSE, visited |-> {}]

Start(r) ==
  /\ run[r].pc = "idle" /\ r \in DOMAIN plan
  /\ run' = [run EXCEPT ![r] = Begun(plan[r])]
  /\ due' = [due EXCEPT ![r] = {<<p, text[p]>> : p \in Unscanned(plan[r].width)}]
  /\ UNCHANGED <<plan, text, scans, cache, said, rebuilds, faults>>

\* A page's limit; 0 is none.
Limit(r) == IF run[r].limit > 0 THEN Lesser(run[r].limit, PageSize) ELSE PageSize

\* The first k of a set, in order.
Firsts(S, k) ==
  {q \in [1 .. k -> S] : /\ \A i, j \in 1 .. k : i < j => q[i] < q[j]
                         /\ \A p \in S \ {q[i] : i \in 1 .. k} : \A i \in 1 .. k : q[i] < p}

\* Mutant: the next page skips as many as have been visited.
Offset(r) ==
  LET S == Unscanned(run[r].width)
      n == Cardinality(run[r].visited)
      k == Max({0, Lesser(Limit(r), Cardinality(S) - n)})
  IN {q \in [1 .. k -> S] : \A i \in 1 .. k : Cardinality({p \in S : p < q[i]}) = n + i - 1}

\* scanCandidatesSQL: the sample in an order of its own, else a keyset page.
Pages(r) ==
  LET S == {p \in Unscanned(run[r].width) : p > run[r].after}
  IN IF run[r].sample > 0
     THEN {q \in [1 .. Lesser(run[r].sample, Cardinality(S)) -> S] : IsInjective(q)}
     ELSE Firsts(S, Lesser(Limit(r), Cardinality(S)))

Candidate(p) == [p |-> p, text |-> text[p]]
Open == [is |-> "open"]

Select(r) ==
  /\ run[r].pc = "select"
  /\ \E page \in Pages(r) :
       run' = [run EXCEPT ![r].pc = IF page = <<>> THEN "done" ELSE "ask",
                          ![r].page = [i \in DOMAIN page |-> Candidate(page[i])],
                          ![r].outs = [i \in DOMAIN page |-> Open], ![r].next = 1]
  /\ UNCHANGED <<plan, text, scans, cache, said, due, rebuilds, faults>>

Asked(r, i)  == Input(run[r].page[i].p, run[r].page[i].text, run[r].width)
Outcome(is, recipe, a) == [is |-> is, recipe |-> recipe, answer |-> a]
Failed       == [is |-> "error"]
Out(r, i, o) == run' = [run EXCEPT ![r].outs[i] = o]
Waits(r, i, is) == run[r].pc = "ask" /\ i \in DOMAIN run[r].outs /\ run[r].outs[i].is = is

\* The cache serves the answer, under the recipe it was given to; Decode maps it.
Serve(r, i) ==
  LET row == cache[Asked(r, i)]
  IN /\ Waits(r, i, "open") /\ row # NoAnswer
     /\ Out(r, i, IF Usable(row.answer) THEN Outcome("answer", row.recipe, row.answer) ELSE Failed)
     /\ UNCHANGED <<plan, text, scans, cache, said, due, rebuilds, faults>>

Send(r, i) ==
  /\ Waits(r, i, "open") /\ cache[Asked(r, i)] = NoAnswer
  /\ Out(r, i, [is |-> "sent"])
  /\ UNCHANGED <<plan, text, scans, cache, said, due, rebuilds, faults>>

\* Mutant: a reply is cached before it is mapped.
Unmapped(a) == Accepted(a)

\* A reply the client accepts and the mapping can use is cached.
Cached(a) == Accepted(a) /\ Usable(a)

\* The expected model replies.
Reply(r, i, a) ==
  LET in == Asked(r, i)
  IN /\ Waits(r, i, "sent")
     /\ Out(r, i, IF Cached(a) /\ Usable(a) THEN Outcome("answer", Recipe(run[r].width), a) ELSE Failed)
     /\ said' = IF Cached(a) THEN said \cup {[text |-> in[1], result |-> Result(a)]} ELSE said
     /\ cache' = IF Cached(a) /\ cache[in] = NoAnswer
                 THEN [cache EXCEPT ![in] = [recipe |-> Recipe(run[r].width), answer |-> a]]
                 ELSE cache
     /\ UNCHANGED <<plan, text, scans, due, rebuilds, faults>>

\* Another model does, or the call fails: neither is this scan's answer.
NoReply(r, i) ==
  /\ Waits(r, i, "sent") /\ Fault
  /\ \E is \in {"fallback", "error"} : Out(r, i, [is |-> is])
  /\ UNCHANGED <<plan, text, scans, cache, said, due, rebuilds>>

\* scanAll returns when all of the page is answered.
Gather(r) ==
  /\ run[r].pc = "ask" /\ \A i \in DOMAIN run[r].outs : run[r].outs[i].is \notin {"open", "sent"}
  /\ Stay(r, "tally")
  /\ UNCHANGED <<plan, text, scans, cache, said, due, rebuilds, faults>>

Left(r) == run[r].pc = "tally" /\ run[r].next <= Len(run[r].page)
Chunk(r) == run[r].page[run[r].next]
Now(r)   == run[r].outs[run[r].next]

\* On to the page's next outcome.
Tallied(r) ==
  run' = [run EXCEPT ![r].pc = "tally", ![r].next = @ + 1, ![r].visited = @ \cup {Chunk(r).p}]

\* What the run does not owe a scan of: no answer, or one of another recipe.
NotOwed(r) == due' = [due EXCEPT ![r] = {d \in @ : d[1] # Chunk(r).p}]

\* tally, of an outcome that is not written.
Skip(r) ==
  /\ Left(r)
  /\ \/ Now(r).is # "answer" /\ NotOwed(r)
     \/ Now(r).is = "answer" /\ ~run[r].yes /\ UNCHANGED due
  /\ Tallied(r)
  /\ UNCHANGED <<plan, text, scans, cache, said, rebuilds, faults>>

\* cur: the chunk says what the model saw, in the statement's snapshot.
Unchanged(c) == text[c.p] = c.text

\* insertChunkScan: a result that does not validate stops the run.
Recheck(r) ==
  /\ Left(r) /\ Now(r).is = "answer" /\ run[r].yes
  /\ run' = [run EXCEPT ![r].pc = IF Valid(Result(Now(r).answer)) THEN "insert" ELSE "refused",
                        ![r].seen = Unchanged(Chunk(r))]
  /\ UNCHANGED <<plan, text, scans, cache, said, due, rebuilds, faults>>

\* Mutant: the row takes the text the chunk now has.
AsItIs(c) == text[c.p]

\* chunk_text_sha256: of the text that was read.
HashOf(c) == c.text

Row(r) == [p |-> Chunk(r).p, text |-> HashOf(Chunk(r)), recipe |-> Now(r).recipe,
           result |-> Result(Now(r).answer)]

\* The unique key.
SameKey(s, u) == s.p = u.p /\ s.text = u.text /\ s.recipe = u.recipe

\* ins: inserted, or there already, or nothing to insert.  A transcript that is
\* gone by then fails the foreign key, and a store error stops the run.
Insert(r) ==
  /\ run[r].pc = "insert"
  /\ IF run[r].seen /\ \A p \in Of(Transcript[Chunk(r).p]) : text[p] = Gone
     THEN Stay(r, "failed") /\ UNCHANGED <<scans, due>>
     ELSE /\ scans' = IF run[r].seen /\ \A s \in scans : ~SameKey(s, Row(r))
                      THEN scans \cup {Row(r)} ELSE scans
          /\ IF Equivalent(Now(r).recipe, Recipe(run[r].width)) THEN UNCHANGED due ELSE NotOwed(r)
          /\ Tallied(r)
  /\ UNCHANGED <<plan, text, cache, said, rebuilds, faults>>

\* The next page, unless the sample or the limit is reached.
NextPage(r) ==
  LET rest == run[r].limit - Len(run[r].page)
  IN /\ run[r].pc = "tally" /\ ~Left(r)
     /\ IF run[r].sample > 0 \/ (run[r].limit > 0 /\ rest <= 0) THEN Stay(r, "reached")
        ELSE run' = [run EXCEPT ![r].pc = "select", ![r].after = Last(run[r].page).p,
                                ![r].limit = IF @ > 0 THEN rest ELSE 0]
     /\ UNCHANGED <<plan, text, scans, cache, said, due, rebuilds, faults>>

\* A stop: nothing more is asked or written.
Stop(r) ==
  /\ run[r].pc \in {"select", "ask", "tally", "insert"} /\ Fault /\ Stay(r, "stopped")
  /\ UNCHANGED <<plan, text, scans, cache, said, due, rebuilds>>

-----------------------------------------------------------------------------
(* The rest of the system.                                                  *)

\* What a chunk no longer says is not owed.
Forget == due' = [r \in Runs |-> {d \in due[r] : text'[d[1]] = d[2]}]

\* The worker cuts a transcript anew: chunk indexes have no gap.
Rebuild(t) ==
  /\ rebuilds > 0 /\ rebuilds' = rebuilds - 1 /\ text[Min(Of(t))] # Gone
  /\ \E cut \in [Of(t) -> Texts \cup {Gone}] :
       /\ \A p, q \in Of(t) : p < q /\ cut[p] = Gone => cut[q] = Gone
       /\ cut[Min(Of(t))] # Gone
       /\ text' = [p \in Positions |-> IF p \in Of(t) THEN cut[p] ELSE text[p]]
  /\ Forget
  /\ UNCHANGED <<plan, scans, cache, run, said, faults>>

\* A requeue deletes the transcript, its chunks and its scans.
Requeue(t) ==
  /\ Fault /\ text[Min(Of(t))] # Gone
  /\ text' = [p \in Positions |-> IF p \in Of(t) THEN Gone ELSE text[p]]
  /\ scans' = {s \in scans : Transcript[s.p] # t}
  /\ Forget
  /\ UNCHANGED <<plan, cache, run, said, rebuilds>>

Init ==
  /\ \E scene \in Scenes :
       /\ text = scene.text
       /\ scans = {[p |-> p, text |-> text[p], recipe |-> OldRecipe(w),
                    result |-> [quality |-> 1, boilerplate |-> 0]] : p \in scene.old, w \in Widths}
       /\ plan = scene.plan /\ rebuilds = scene.rebuilds /\ faults = scene.faults
  /\ cache = [in \in Inputs |-> NoAnswer]
  /\ run = [r \in Runs |-> Idle] /\ due = [r \in Runs |-> {}]
  /\ said = {}

Step(r) ==
  \/ Start(r) \/ Select(r) \/ Gather(r) \/ Skip(r) \/ Recheck(r) \/ Insert(r)
  \/ NextPage(r) \/ Stop(r)
  \/ \E i \in 1 .. Len(Transcript) :
       Serve(r, i) \/ Send(r, i) \/ NoReply(r, i) \/ \E a \in Replies : Reply(r, i, a)

Next ==
  \/ \E r \in Runs : Step(r)
  \/ \E t \in {Transcript[p] : p \in Positions} : Rebuild(t) \/ Requeue(t)

Spec == Init /\ [][Next]_vars

-----------------------------------------------------------------------------
(* Properties.                                                              *)

\* A row holds what was said of the text it names, whatever became of the chunk
\* and of the rest of the page while the model was asked.
AnswerIsOfText ==
  \A s \in scans : s.recipe.build = "old" \/ [text |-> s.text, result |-> s.result] \in said

\* A chunk counts once in a recipe's index, and for what it says now; every mean
\* is one that normalizes to 0 .. 1.
IndexIsCurrent ==
  \A w \in Widths : \A recipe \in {Recipe(w), OldRecipe(w)} :
    /\ \A p \in Positions :
         Cardinality({s \in Counted(recipe, Scopes) : s.p = p}) <= IF text[p] = Gone THEN 0 ELSE 1
    /\ \A point \in QualityIndex(recipe) : point.n <= point.sum /\ point.sum <= 5 * point.n

\* A run over everything that ends by itself has visited every chunk that was
\* unscanned when it began and has not changed since; if it writes, each has a
\* scan, unless no answer of its recipe was to be had.
NoneLeftOut ==
  \A r \in Runs : run[r].pc = "done" =>
    \A d \in due[r] : \/ Scanned(d[1], d[2], Recipe(run[r].width))
                      \/ ~run[r].yes /\ d[1] \in run[r].visited

\* No run stops at an answer, which the mapping and the table check each their
\* own way, and none is kept that would fail again in every later run.
MappedIsStorable ==
  /\ \A r \in Runs : run[r].pc # "refused"
  /\ \A in \in Inputs : cache[in] # NoAnswer => Usable(cache[in].answer) /\ Valid(Result(cache[in].answer))

\* What the scans promise.
ScansAreTrue == AnswerIsOfText /\ IndexIsCurrent /\ NoneLeftOut /\ MappedIsStorable

\* Not so: "a chunk whose text changed since the model saw it gets no row"
\* (chunkscan.go:198).  The statement reads the chunk before it inserts, and a
\* rebuild may commit in between.
NoRowOfChanged == [][\A s \in scans' \ scans : text[s.p] = s.text]_vars

=============================================================================
