----------------------------- MODULE PilotVotes -----------------------------
(***************************************************************************)
(* The second-ASR pilot's evidence and its use: pilot_transcripts (written  *)
(* by runner/pilot.py), the votes `earmark asr-pilot vote` records from     *)
(* them for held findings (finding_asr_votes), and `earmark decide          *)
(* --audio-vote`, which decides held findings on the votes of the           *)
(* configured models.                                                       *)
(*                                                                         *)
(* Both commands read page by page with no lock held.  Meanwhile findings   *)
(* are decided, held and given back, chunks are cut anew and findings       *)
(* re-anchored, a pilot is run again, and a track is requeued, which        *)
(* deletes its pilots and their votes.  A chunk's texts are numbered, and a *)
(* run has no --max-accepts.                                                *)
(***************************************************************************)
EXTENDS Integers, FiniteSetsExt, SequencesExt

CONSTANTS
  Findings,  \* the judge's findings, numbered in id order
  TrackOf,   \* their tracks, numbered in path order
  Models,    \* the configured pilot models, each at its revision
  Hears,     \* <<model, scope, finding>> -> the vote on it
  Alike,     \* findings whose two readings sound alike
  Names,     \* findings of an issue type whose rejects are held
  Capped,    \* findings of a capped issue type
  Runs,      \* vote commands
  PageSize,  \* findings read at once
  Scenes     \* who moves, and how often: [runs, limit, rungs, yes, moves, pilots, voted, holds]

Tracks == {TrackOf[f] : f \in Findings}

VARIABLES
  pilots,    \* pilot_transcripts rows: id, track, model, scope
  votes,     \* finding_asr_votes: <<finding, pilot id>> -> [sha, vote, at, of]
  fin,       \* each finding: patch_state, live decisions, recorded chunk hash
  text,      \* the number of each finding's chunk text
  run,       \* each vote command
  rung,      \* the audio-vote command
  clock,     \* commits and ids so far
  left,      \* what is left of the scene's bounds
  steady     \* findings nothing was done to since a command started: for a vote
             \* run, no other one's write of a page read before a re-anchoring

vars == <<pilots, votes, fin, text, run, rung, clock, left, steady>>

NoRun  == [pc |-> "idle", model |-> "none", yes |-> FALSE, limit |-> 0, todo |-> {}, after |-> 0,
           size |-> 0, page |-> {}, n |-> 0]
NoRung == [pc |-> "idle", yes |-> FALSE, limit |-> 0, after |-> 0, page |-> {}, read |-> {}, n |-> 0, wrote |-> {}]

\* A decision event; liftable: of a reason, and with a p, the rung may lift.
Decision(id, outcome, liftable, by) == [id |-> id, outcome |-> outcome, liftable |-> liftable, by |-> by]

\* Mutant: whatever the chunk says now is voted on.
VoteOnAnything(p, f) == Hears[<<p.model, p.scope, f>>]

\* Vote (module AsrVote): a chunk whose text is not the one recorded with the
\* finding is not voted on.
VoteOn(p, f) == IF text[f] = fin[f].sha THEN Hears[<<p.model, p.scope, f>>] ELSE "unmappable"

Init ==
  /\ left \in Scenes
  /\ clock = 100
  /\ pilots = {[id |-> i, track |-> left.pilots[i][1], model |-> left.pilots[i][2], scope |-> left.pilots[i][3]] :
                 i \in DOMAIN left.pilots}
  /\ fin = [f \in Findings |-> [state |-> "proposed", sha |-> 1,
                                log |-> << Decision(f, "hold", left.holds[f], "decide") >>]]
  /\ text = [f \in Findings |-> 1]
  /\ votes = [k \in {x \in Findings \X DOMAIN left.pilots : left.voted /\ TrackOf[x[1]] = left.pilots[x[2]][1]} |->
                [sha |-> 1, of |-> 1, at |-> 0, vote |-> VoteOn(CHOOSE p \in pilots : p.id = k[2], k[1])]]
  /\ run = [r \in Runs |-> NoRun] /\ rung = NoRung
  /\ steady = [c \in Runs \cup {"rung"} |-> {}]

Latest(f) == IF fin[f].log = <<>> THEN Decision(0, "none", FALSE, "none") ELSE Last(fin[f].log)

\* heldJoin.
Held(f) == fin[f].state = "proposed" /\ Latest(f).outcome = "hold"

Spend(what)  == left' = [left EXCEPT ![what] = @ - 1]
Disturb(fs)  == steady' = [c \in DOMAIN steady |-> steady[c] \ fs]
FirstOf(S, n) == {f \in S : Cardinality({g \in S : g <= f}) <= n}
IdsOf(ps)     == {p.id : p \in ps}

-----------------------------------------------------------------------------
(* asr-pilot vote.                                                          *)

\* onePerTrack: scope full before findings, then the newest.
Best(m, t) ==
  LET S == {p \in pilots : p.track = t /\ p.model = m}
  IN CHOOSE p \in S : \A q \in S :
       IF p.scope = q.scope THEN p.id >= q.id ELSE p.scope = "full"

\* The pilot transcripts are taken in path order.
Turn(r) == CHOOSE p \in run[r].todo : \A q \in run[r].todo : p.track <= q.track

\* runVote, listPilots.
StartVotes(r) ==
  /\ run[r].pc = "idle" /\ left.runs > 0 /\ Spend("runs")
  /\ \E m \in Models, yes \in BOOLEAN :
       LET ts == {t \in Tracks : \E p \in pilots : p.track = t /\ p.model = m}
       IN /\ run' = [run EXCEPT ![r] = [NoRun EXCEPT !.pc = "track", !.model = m, !.yes = yes, !.limit = left.limit,
                       !.todo = {Best(m, t) : t \in ts}]]
          /\ steady' = [steady EXCEPT ![r] =
               IF yes /\ left.limit = 0 THEN {f \in Findings : Held(f) /\ TrackOf[f] \in ts} ELSE {}]
  /\ UNCHANGED <<pilots, votes, fin, text, rung, clock>>

\* voteTrack: the segments of both; a track without them is skipped, and a run
\* at its limit or with no track left ends.
OpenTrack(r) ==
  /\ run[r].pc = "track"
  /\ run' = [run EXCEPT ![r] =
       IF @.todo = {} \/ (@.limit > 0 /\ @.n >= @.limit) THEN [@ EXCEPT !.pc = "done"]
       ELSE IF Turn(r) \notin pilots THEN [@ EXCEPT !.todo = run[r].todo \ {Turn(r)}]
       ELSE [@ EXCEPT !.pc = "page", !.after = 0]]
  /\ UNCHANGED <<pilots, votes, fin, text, rung, clock, left, steady>>

\* heldFindingsSQL and the votes on the page.
ReadPage(r) ==
  LET p    == Turn(r)
      size == IF run[r].limit = 0 THEN PageSize ELSE Min({PageSize, run[r].limit - run[r].n})
      page == FirstOf({f \in Findings : f > run[r].after /\ TrackOf[f] = p.track /\ Held(f)}, size)
  IN
  /\ run[r].pc = "page"
  /\ run' = [run EXCEPT ![r] =
       IF size <= 0 THEN [@ EXCEPT !.pc = "track", !.todo = run[r].todo \ {p}]
       ELSE [@ EXCEPT !.pc = "write", !.size = size, !.n = run[r].n + Cardinality(page),
               !.page = {[f |-> f, sha |-> fin[f].sha, vote |-> VoteOn(p, f), of |-> text[f]] : f \in page}]]
  /\ UNCHANGED <<pilots, votes, fin, text, rung, clock, left, steady>>

\* Mutant: an earlier vote of the finding by the pilot transcript stands.
InsertOnly(old, new) == old @@ new

\* upsertFindingASRVotesSQL.
Upsert(old, new) == [k \in DOMAIN old \cup DOMAIN new |-> IF k \in DOMAIN new THEN new[k] ELSE old[k]]

\* UpsertFindingASRVotes, and the next page.  A pilot deleted meanwhile fails
\* the statement and with it the run.
WritePage(r) ==
  LET p    == Turn(r)
      page == run[r].page
      Row(f) == LET v == CHOOSE v \in page : v.f = f
                IN [sha |-> v.sha, vote |-> v.vote, of |-> v.of, at |-> clock + 1]
      writes == run[r].yes /\ page # {}
      fails  == writes /\ p \notin pilots
      stale == {v \in page : v.sha # fin[v.f].sha}
      new  == [k \in {<<v.f, p.id>> : v \in page} |-> Row(k[1])]
  IN
  /\ run[r].pc = "write"
  /\ run' = [run EXCEPT ![r] =
       IF fails THEN [NoRun EXCEPT !.pc = "failed"]
       ELSE IF Cardinality(page) < @.size THEN [@ EXCEPT !.pc = "track", !.todo = run[r].todo \ {p}, !.page = {}]
       ELSE [@ EXCEPT !.pc = "page", !.after = Max({v.f : v \in page}), !.page = {}]]
  /\ votes' = IF writes /\ ~fails THEN Upsert(votes, new) ELSE votes
  /\ clock' = IF writes /\ ~fails THEN clock + 1 ELSE clock
  /\ steady' = [c \in DOMAIN steady |->
       IF ~writes \/ fails \/ c = r THEN steady[c]
       ELSE steady[c] \ {v.f : v \in IF c = "rung" THEN page ELSE stale}]
  /\ UNCHANGED <<pilots, fin, text, rung, left>>

-----------------------------------------------------------------------------
(* decide --audio-vote.                                                     *)

PilotOf(k) == CHOOSE p \in pilots : p.id = k[2]

\* Mutant: a vote on a chunk's earlier text counts still.
AnyText(k) == TRUE

\* currentVoteWhere.
OfItsText(k) == votes[k].sha = fin[k[1]].sha

Counted(f) == {k \in DOMAIN votes : k[1] = f /\ PilotOf(k).model \in Models /\ OfItsText(k)}

\* currentASRVotesSQL: a model's most recently written vote, "none" without.
Current(f, m) ==
  LET S == {k \in Counted(f) : PilotOf(k).model = m}
      k == CHOOSE x \in S : \A y \in S :
             votes[x].at > votes[y].at \/ (votes[x].at = votes[y].at /\ x[2] >= y[2])
  IN IF S = {} THEN [vote |-> "none", of |-> 0] ELSE [vote |-> votes[k].vote, of |-> votes[k].of]

\* audioVoteWorkSQL.
Work == {f \in Findings : Held(f) /\ Counted(f) # {}}

StartRung ==
  /\ rung.pc = "idle" /\ left.rungs > 0 /\ Spend("rungs")
  /\ rung' = [NoRung EXCEPT !.pc = "work", !.yes = left.yes, !.limit = left.limit]
  /\ steady' = [steady EXCEPT !["rung"] = IF left.yes /\ left.limit = 0 THEN Work ELSE {}]
  /\ UNCHANGED <<pilots, votes, fin, text, run, clock>>

\* Mutant: the pages of a list its own writes shorten are counted off.
Offset(size) == FirstOf(Work, rung.n + size) \ FirstOf(Work, rung.n)

\* By keyset.
Pages(size) == FirstOf({f \in Work : f > rung.after}, size)

ReadWork ==
  LET size == IF rung.limit = 0 THEN PageSize ELSE Min({PageSize, rung.limit - rung.n})
      page == Pages(size)
  IN
  /\ rung.pc = "work"
  /\ rung' = IF size <= 0 \/ page = {} THEN [rung EXCEPT !.pc = "done"]
             ELSE [rung EXCEPT !.pc = "votes", !.after = Max(page), !.n = @ + Cardinality(page),
                     !.page = {[f |-> f, sha |-> fin[f].sha, hold |-> Latest(f)] : f \in page}]
  /\ UNCHANGED <<pilots, votes, fin, text, run, clock, left, steady>>

\* Evaluate, of a finding that rung 0 passes and no other fix conflicts with
\* (module Decisions has those).
Evaluate(i, heard) ==
  CASE \E m \in Models : heard[m].vote = "none" -> "hold"
    [] \A m \in Models : heard[m].vote = "heard_original" ->
         IF i.f \in Alike \cup Names THEN "hold" ELSE "reject"
    [] \A m \in Models : heard[m].vote = "heard_replacement" ->
         IF i.f \in Capped \/ ~i.hold.liftable THEN "hold" ELSE "apply"
    [] OTHER -> "hold"

\* evaluateAudioPage: the votes are read after the page.
ReadVotes ==
  LET Heard(i) == [m \in Models |-> Current(i.f, m)]
  IN
  /\ rung.pc = "votes"
  /\ rung' = [rung EXCEPT !.pc = IF rung.yes THEN "write" ELSE "work", !.page = {},
                !.read = {[f |-> i.f, sha |-> i.sha, hold |-> i.hold, heard |-> Heard(i), out |-> Evaluate(i, Heard(i))]
                            : i \in rung.page}]
  /\ UNCHANGED <<pilots, votes, fin, text, run, clock, left, steady>>

\* Mutant: whatever was decided since is written over.
Unguarded(i) == fin[i.f].state = "proposed"

\* RequiresLatestDecision, under the row's lock.
StillHeld(i) == fin[i.f].state = "proposed" /\ Latest(i.f) = i.hold

\* ApplyDecisions, of the applies and rejects; not of a chunk that changed.
WriteDecisions ==
  LET out == {i \in rung.read : i.out # "hold" /\ StillHeld(i) /\ i.sha = text[i.f]}
      Of(f) == CHOOSE i \in out : i.f = f
      fs == {i.f : i \in out}
  IN
  /\ rung.pc = "write"
  /\ fin' = [f \in Findings |->
       IF f \notin fs THEN fin[f]
       ELSE [fin[f] EXCEPT !.state = IF Of(f).out = "apply" THEN "accepted" ELSE "rejected",
               !.log = Append(@, Decision(clock + 1, Of(f).out, FALSE, "rung"))]]
  /\ clock' = clock + 1
  /\ rung' = [rung EXCEPT !.pc = "work", !.read = {},
                !.wrote = @ \cup {[i |-> i, text |-> text[i.f], before |-> Latest(i.f)] : i \in out}]
  /\ steady' = [c \in DOMAIN steady |-> IF c = "rung" THEN steady[c] ELSE steady[c] \ fs]
  /\ UNCHANGED <<pilots, votes, text, run, left>>

-----------------------------------------------------------------------------
(* Everybody else.                                                          *)

Elsewhere == left.moves > 0 /\ Spend("moves") /\ UNCHANGED <<run, rung>>

\* A decide run holds it again, by another recipe or for another reason, or
\* decides it.
Decide(f) ==
  /\ fin[f].state = "proposed"
  /\ \E o \in {"hold", "reject"}, lift \in BOOLEAN :
       fin' = [fin EXCEPT ![f].state = IF o = "reject" THEN "rejected" ELSE @,
                 ![f].log = Append(@, Decision(clock + 1, o, lift /\ o = "hold", "decide"))]
  /\ clock' = clock + 1 /\ Disturb({f}) /\ UNCHANGED <<pilots, votes, text>> /\ Elsewhere

\* The undo revokes the latest decision, so that an earlier hold is the latest
\* again.
Revoke(f) ==
  /\ Len(fin[f].log) > 1 /\ fin[f].state \in {"proposed", "rejected"}
  /\ fin' = [fin EXCEPT ![f].state = "proposed", ![f].log = Front(@)]
  /\ Disturb({f}) /\ UNCHANGED <<pilots, votes, text, clock>> /\ Elsewhere

\* A rebuild cuts the chunk anew; a re-anchoring then records its text's hash.
Rechunk(f) ==
  /\ text' = [text EXCEPT ![f] = @ + 1]
  /\ Disturb({f}) /\ UNCHANGED <<pilots, votes, fin, clock>> /\ Elsewhere
ReanchorFinding(f) ==
  /\ fin[f].state = "proposed" /\ fin[f].sha # text[f]
  /\ fin' = [fin EXCEPT ![f].sha = text[f]]
  /\ Disturb({f}) /\ UNCHANGED <<pilots, votes, text, clock>> /\ Elsewhere

WithoutPilots(ids) == [k \in {x \in DOMAIN votes : x[2] \notin ids} |-> votes[k]]

\* runner/pilot.py write_result: a row a track, model, revision and scope,
\* with --force in place of the one there.
Pilot(t, m, s) ==
  LET old == {p \in pilots : p.track = t /\ p.model = m /\ p.scope = s}
  IN
  /\ \E f \in Findings : TrackOf[f] = t /\ fin[f].state # "superseded"
  /\ pilots' = (pilots \ old) \cup {[id |-> clock + 1, track |-> t, model |-> m, scope |-> s]}
  /\ votes' = WithoutPilots(IdsOf(old)) /\ clock' = clock + 1
  /\ Disturb({f \in Findings : TrackOf[f] = t}) /\ UNCHANGED <<fin, text>> /\ Elsewhere

\* A requeue archives the track's findings and deletes its transcript, whose
\* pilots and their votes go with it.
Requeue(t) ==
  LET gone == {p \in pilots : p.track = t}
  IN
  /\ \E f \in Findings : TrackOf[f] = t /\ fin[f].state # "superseded"
  /\ pilots' = pilots \ gone /\ votes' = WithoutPilots(IdsOf(gone))
  /\ fin' = [f \in Findings |-> IF TrackOf[f] = t THEN [fin[f] EXCEPT !.state = "superseded"] ELSE fin[f]]
  /\ Disturb({f \in Findings : TrackOf[f] = t}) /\ UNCHANGED <<text, clock>> /\ Elsewhere

Next ==
  \/ \E r \in Runs : StartVotes(r) \/ OpenTrack(r) \/ ReadPage(r) \/ WritePage(r)
  \/ StartRung \/ ReadWork \/ ReadVotes \/ WriteDecisions
  \/ \E f \in Findings : Decide(f) \/ Revoke(f) \/ Rechunk(f) \/ ReanchorFinding(f)
  \/ \E t \in Tracks : Requeue(t) \/ \E m \in Models, s \in {"full", "findings"} : Pilot(t, m, s)

Spec == Init /\ [][Next]_vars

-----------------------------------------------------------------------------
(* Properties.                                                              *)

\* What the rung decided, every configured model had heard in the very text
\* the fix will be applied to, and the finding was still held by the hold the
\* rung had read, not by a later one.
DecidedAsHeard ==
  \A w \in rung.wrote :
    /\ \A m \in Models : /\ w.i.heard[m].of = w.text
                         /\ w.i.heard[m].vote = (IF w.i.out = "apply" THEN "heard_replacement" ELSE "heard_original")
    /\ w.before = w.i.hold
    /\ w.i.out = "apply" => w.before.liftable

\* A vote names the text it was made on, or says there was none to make.
VoteNamesItsText == \A k \in DOMAIN votes : votes[k].vote = "unmappable" \/ votes[k].sha = votes[k].of

\* A written run that ends has voted, by a pilot of its model, on the text
\* recorded with every finding that stood through it.
EveryHeldFindingVoted ==
  \A r \in Runs : run[r].pc = "done" =>
    \A f \in steady[r] : \E k \in Counted(f) : PilotOf(k).model = run[r].model

\* A written rung that ends has decided every finding in its work that stood
\* through it, its chunk the judged one, and that all models agreed on.
EveryAgreementActedOn ==
  rung.pc = "done" => \A f \in steady["rung"] :
    Held(f) /\ text[f] = fin[f].sha =>
      Evaluate([f |-> f, hold |-> Latest(f)], [m \in Models |-> Current(f, m)]) = "hold"

=============================================================================
