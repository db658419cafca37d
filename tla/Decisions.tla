----------------------------- MODULE Decisions -----------------------------
(***************************************************************************)
(* Who decides a proposed fix: `earmark decide --yes` (internal/decide),    *)
(* the audio-vote rung, the undo of a recipe's decisions                   *)
(* (`earmark decide revert`), a reviewer, and the rebuild that applies an   *)
(* accepted fix, over the findings of one chunk and their decision events   *)
(* (internal/db findingevents.go, decidewrite.go).                         *)
(*                                                                         *)
(* A run reads and asks the model with no lock held (Plan) and writes in   *)
(* two short transactions (WriteFresh, WriteRecheck); an undo lists what it*)
(* will move, moves it in batches, and revokes the decisions last.         *)
(* Whatever makes a write skip a finding (its row is locked, its chunk's   *)
(* text changed) is a choice.  A recipe stands for the recipes equivalent  *)
(* to it.                                                                  *)
(***************************************************************************)
EXTENDS Naturals, FiniteSets, SequencesExt

CONSTANTS
  Findings,    \* anchored findings of one chunk, numbered in id order
  FixOf,       \* the fix each proposes
  Overlapping, \* pairs of different fixes to overlapping text
  Unvetted,    \* findings whose claim rung 0 refuses
  Recipes,     \* decide recipes
  Audio,       \* those of them that are the audio-vote rung
  Current,     \* the current decide recipe
  Runners,     \* decide processes
  Bounds       \* what is explored together: how many runs, undos, moves of a reviewer
               \* and faults (skips, stops, unanswered calls), with what --max-accepts
               \* (what no run reaches is none) and how many runs at once

ASSUME FindingsAreNumbered == IsFiniteSet(Findings) /\ Findings \subseteq Nat \ {0}

VARIABLES
  fin,     \* each finding: its state, who decided it, what it duplicates
  log,     \* its live (unrevoked) decisions, oldest first
  run,     \* each decide process
  undo,    \* the undo under way
  unseen,  \* pairs of fixes that one of their deciders could not weigh
  left,    \* what is left of the bounds
  stripped \* findings an undo's last step stripped of a decision made since
           \* it listed what to move

vars == <<fin, log, run, undo, unseen, left, stripped>>

Live    == {"proposed", "accepted", "applied"}
InText  == {"accepted", "applied"}      \* the overlay's states
Undoable == {"applied", "accepted", "rejected", "reverted", "duplicate"}
Nobody == [who |-> "nobody", recipe |-> "none"]
Person == [who |-> "person", recipe |-> "none"]
Jev(r)  == [who |-> "jev", recipe |-> r]
Undo(r) == [who |-> "undo", recipe |-> r]

Idle    == [pc |-> "idle", recipe |-> "none", after |-> 0, plan |-> {}, seen |-> {}, room |-> 0,
            capped |-> FALSE]
NoUndo  == [on |-> FALSE, recipes |-> {}, scope |-> {}, cands |-> {}, done |-> {}, since |-> {}]

Init ==
  /\ fin = [f \in Findings |-> [state |-> "proposed", by |-> Nobody, of |-> 0]]
  /\ log = [f \in Findings |-> <<>>]
  /\ run = [p \in Runners |-> Idle] /\ undo = NoUndo
  /\ unseen = {} /\ stripped = {}
  /\ left \in Bounds

State(f) == fin[f].state
Overlay  == {f \in Findings : State(f) \in InText}
\* The same fix, or different ones to the same text.
Clash(f, g) == f # g /\ (FixOf[f] = FixOf[g] \/ {FixOf[f], FixOf[g]} \in Overlapping)
Pairs(A, B) == UNION {{{a, b} : b \in B} : a \in A}
\* What another writer did to these findings since the undo listed them.
Since(fs) == undo' = IF undo.on THEN [undo EXCEPT !.since = @ \cup fs] ELSE undo
Spend(what, n) == left' = [left EXCEPT ![what] = @ - n]

-----------------------------------------------------------------------------
(* Decision events.                                                        *)

\* Undone: written by an undo, and no later undo revokes it.
Event(r, outcome, reason, about, undone) ==
  [recipe |-> r, outcome |-> outcome, reason |-> reason, about |-> about, undone |-> undone]

NoEvent   == Event("none", "none", "none", 0, FALSE)
Latest(f) == IF log[f] = <<>> THEN NoEvent ELSE Last(log[f])

\* The decisions an undo revokes with a follower it moves.
OfFollower(e) == e.outcome = "duplicate" \/ e.reason = "duplicate_of_reverted"
Unfollowed(l) == SelectSeq(l, LAMBDA e : ~OfFollower(e))

\* An earlier verdict of the same recipe is never the latest again: what
\* revokes the later one revokes both.
Append1(l, e) ==
  Append(SelectSeq(l, LAMBDA d : d.recipe # e.recipe \/ OfFollower(d) \/ OfFollower(e)), e)

-----------------------------------------------------------------------------
(* The work list (decideWorkSQL, audioVoteWorkSQL).                        *)

HeldBy(r, f) == State(f) = "proposed" /\ Latest(f).outcome = "hold" /\ Latest(f).recipe = r

\* A recipe's verdict is final, but a hold that met no answer, and that of a
\* conflict's loser unless its winner is held still.
Final(r, d) ==
  /\ d.recipe = r
  /\ ~(d.outcome = "hold" /\ d.reason = "jev_unavailable")
  /\ ~(d.outcome = "hold" /\ d.reason = "overlap_pending" /\ ~HeldBy(r, d.about))

\* Mutant: another recipe's accept and anybody else's are re-checked alike.
AnyoneElses(r, f) == fin[f].by # Jev(r)

OtherRecipes(r, f) == fin[f].by.who = "jev" /\ fin[f].by.recipe # r

InWork(r, f) ==
  IF r \in Audio THEN State(f) = "proposed" /\ Latest(f).outcome = "hold"
  ELSE /\ State(f) = "proposed" \/ (State(f) \in InText /\ OtherRecipes(r, f))
       /\ ~Final(r, Latest(f))

-----------------------------------------------------------------------------
(* What a page's findings are decided with: planChunk.                     *)

\* repTiers; the last tiers (proposed by the current recipe, newest, lowest
\* id) are one order, that of the numbers.
\* The audio-vote rung groups as the current decide recipe would.
GroupedBy(r) == IF r \in Audio THEN Current ELSE r
HasDuplicates(f) == \E d \in Findings : State(d) = "duplicate" /\ fin[d].of = f
Tier(r, f) == (IF State(f) \in InText THEN 4 ELSE 0)
            + (IF HasDuplicates(f) \/ Latest(f).recipe = GroupedBy(r) THEN 2 ELSE 0)
            + (IF f \notin Unvetted THEN 1 ELSE 0)

Members(f) == {g \in Findings : FixOf[g] = FixOf[f] /\ (State(g) = "proposed" \/ State(g) \in InText)}
Rep(r, f) ==
  LET T == [g \in Members(f) |-> Tier(r, g)]
  IN CHOOSE g \in DOMAIN T : \A h \in DOMAIN T : T[g] > T[h] \/ (T[g] = T[h] /\ g <= h)

\* groupChunk: the proposed findings that agree with a better one.
Duplicates(r) == {f \in Findings : State(f) = "proposed" /\ Rep(r, f) # f}

\* Mutant: only other candidates are weighed, not the fixes already in.
NeverBlocked(f) == FALSE

\* Dedupe: the text is claimed by a fix already in.
Blocked(f) == \E g \in Overlay : Clash(f, g)

\* The rest of the candidates, that pass rung 0.
Passing(page, dups) ==
  {f \in (page \cup {g \in Findings : State(g) = "proposed"}) \ dups :
     f \notin Unvetted /\ ~Blocked(f)}

Reached(S, E) == {f \in Findings : \A T \in SUBSET Findings :
                    S \subseteq T /\ (\A e \in E : e \cap T = {} \/ e \subseteq T) => f \in T}

\* Of a page: what passes, what is in conflict with what, what a group or a
\* conflict ties the page to, what is asked about (the page's and their
\* competitors), and the conflict set of each.
Grouping(r, page) ==
  LET dups == Duplicates(r)
      passing == Passing(page, dups)
      against == [f \in Findings |-> {g \in passing : f \in passing /\ Clash(f, g)}]
      touched == Reached(page, {{f, Rep(r, f)} : f \in dups}
                               \cup UNION {{{f, g} : g \in against[f]} : f \in passing})
      asked == {f \in passing : f \in page \/ (f \in touched /\ against[f] # {})}
  IN [dups |-> dups, passing |-> passing, against |-> against, touched |-> touched, asked |-> asked,
      set |-> [f \in asked |-> Reached({f}, UNION {{{g, h} : h \in against[g]} : g \in asked})]]

-----------------------------------------------------------------------------
(* resolveConflicts.  An answer is the verdict on the finding's own p, or   *)
(* "none", and rank orders the p's.                                        *)

\* RankConflicts: best first, whatever overlaps nothing kept is kept.
Kept(S, rank) == CHOOSE K \in SUBSET S : \A f \in S :
                   f \in K <=> ~\E g \in K : rank[g] < rank[f] /\ Clash(f, g)
WinnerOver(K, rank, f) == CHOOSE w \in K : Clash(f, w)
                            /\ \A g \in K : Clash(f, g) => rank[w] <= rank[g]

\* Mutant: each is decided on its own p alone.
Unresolved(r, S, ans, rank, f) == Event(r, ans[f], "p", 0, FALSE)

Resolved(r, S, ans, rank, f) ==
  LET K == Kept({g \in S : ans[g] # "reject"}, rank)
      w == WinnerOver(K, rank, f)
  IN IF ans[f] = "none" \/ (Cardinality(S) > 1 /\ ans[f] = "apply" /\ \E g \in S : ans[g] = "none")
       THEN Event(r, "hold", "jev_unavailable", 0, FALSE)
     ELSE IF ans[f] = "reject" \/ f \in K \/ \E g \in S : ans[g] = "none"
       THEN Event(r, ans[f], "p", 0, FALSE)
     ELSE IF ans[w] = "apply" THEN Event(r, "reject", "overlap_dup", w, FALSE)
     ELSE Event(r, "hold", "overlap_pending", w, FALSE)

\* The decision on one finding of a page: a duplicate's, rung 0's, the model's.
DecisionOn(r, g, ans, rank, f) ==
  IF f \in g.dups THEN Event(r, "duplicate", "duplicate", Rep(r, f), FALSE)
  ELSE IF f \notin g.passing THEN Event(r, "reject", "rung0", 0, FALSE)
  ELSE Resolved(r, g.set[f], ans, rank, f)

\* The audio-vote rung: a hold's finding the pilots agree on is applied unless
\* it has a competitor that did not lose to it; what rung 0 refuses is
\* rejected; holds and duplicates are not written ("none").
LostTo(g, f) == Latest(g).outcome = "hold" /\ Latest(g).reason = "overlap_pending" /\ Latest(g).about = f
AudioDecision(r, g, heard, f) ==
  IF f \in g.dups THEN NoEvent
  ELSE IF f \notin g.passing THEN Event(r, "reject", "rung0", 0, FALSE)
  ELSE IF heard = "original" THEN Event(r, "reject", "asr", 0, FALSE)
  ELSE IF /\ heard = "replacement" /\ Latest(f).reason = "p"
          /\ \A h \in g.against[f] : LostTo(h, f)
    THEN Event(r, "apply", "asr", 0, FALSE)
  ELSE NoEvent

-----------------------------------------------------------------------------
(* A run.                                                                  *)

Start(p) ==
  /\ run[p].pc = "idle" /\ left.runs > 0
  /\ Cardinality({q \in Runners : run[q].pc # "idle"}) < left.atonce
  /\ \E r \in Recipes :
       run' = [run EXCEPT ![p] = [Idle EXCEPT !.pc = "plan", !.recipe = r, !.room = left.cap]]
  /\ Spend("runs", 1) /\ UNCHANGED <<fin, log, undo, unseen, stripped>>

Stops(p) == run' = [run EXCEPT ![p] = Idle]

\* No work is left, or the run is over its --max-accepts.
Finish(p) ==
  /\ run[p].pc = "plan"
  /\ run[p].capped \/ ~\E f \in Findings : f > run[p].after /\ InWork(run[p].recipe, f)
  /\ Stops(p) /\ UNCHANGED <<fin, log, undo, unseen, stripped, left>>

\* What a write will do: the finding, its decision, the state it was read in
\* and the decision the audio rung found it held by.
Item(f, e) == [f |-> f, e |-> e, from |-> State(f), hold |-> Latest(f)]

\* A page (a prefix of the work in id order) is read, grouped, asked about.
Plan(p) ==
  LET r == run[p].recipe
      Work == {f \in Findings : f > run[p].after /\ InWork(r, f)}
  IN
  /\ run[p].pc = "plan" /\ ~run[p].capped /\ Work # {}
  /\ \E last \in Work :
       LET page == {f \in Work : f <= last}
           g == Grouping(r, page)
           Planned(items) == run' = [run EXCEPT ![p].pc = "fresh", ![p].after = last,
                                       ![p].seen = Overlay, ![p].plan = items]
       IN \/ /\ r \notin Audio
             /\ \E ans \in [g.asked -> {"apply", "hold", "reject", "none"}],
                   rank \in {b \in [g.asked -> 1 .. Cardinality(g.asked)] : IsInjective(b)} :
                  /\ Cardinality({f \in g.asked : ans[f] = "none"}) <= left.faults
                  /\ Spend("faults", Cardinality({f \in g.asked : ans[f] = "none"}))
                  /\ Planned({Item(f, DecisionOn(r, g, ans, rank, f)) :
                                f \in page \cup (g.touched \cap g.dups)})
          \/ /\ r \in Audio
             /\ \E heard \in [page -> {"replacement", "original", "split"}] :
                  Planned({i \in {Item(f, AudioDecision(r, g, heard[f], f)) : f \in page} :
                             i.e # NoEvent})
             /\ UNCHANGED left
  /\ UNCHANGED <<fin, log, undo, unseen, stripped>>

\* Mutant: the cap is not kept.
Uncapped(items, room) == items

\* capAccepts: applies past --max-accepts are left undecided, in id order.
Capped(items, room) ==
  {i \in items : i.e.outcome = "apply" =>
     Cardinality({j \in items : j.e.outcome = "apply" /\ j.f <= i.f}) <= room}

\* Mutant: a duplicate is recorded whatever became of its representative.
RepAsRead(i) == TRUE

\* lockRepresentativesSQL.
RepIsLive(i) == State(i.e.about) \in Live

\* What a transaction can write: unmoved since, and not skipped.
Writable(p, i, skipped) ==
  /\ i.f \notin skipped /\ State(i.f) = "proposed"
  /\ run[p].recipe \in Audio => i.hold = Latest(i.f)
  /\ i.e.outcome = "duplicate" => i.e.about \notin skipped /\ RepIsLive(i)

\* Mutant: a loser is rejected for a fix that may not be in.
Unconditional(e, accepted) == e

\* A conflict's loser is rejected only for a fix that is accepted with it.
Conditional(e, accepted) ==
  IF e.reason = "overlap_dup" /\ e.about \notin accepted
  THEN [e EXCEPT !.outcome = "hold", !.reason = "overlap_pending"] ELSE e

\* What a decision makes of its finding.
Moved(r, e, f) ==
  CASE e.outcome = "apply"     -> [state |-> "accepted", by |-> Jev(r), of |-> 0]
    [] e.outcome = "reject"    -> [state |-> "rejected", by |-> Jev(r), of |-> 0]
    [] e.outcome = "duplicate" -> [state |-> "duplicate", by |-> Jev(r), of |-> e.about]
    [] OTHER                   -> fin[f]

\* ApplyDecisions.
WriteFresh(p) ==
  LET r == run[p].recipe
      fresh == {i \in run[p].plan : i.from = "proposed"}
      items == Capped(fresh, run[p].room)
  IN
  /\ run[p].pc = "fresh"
  /\ \E skipped \in SUBSET {i.f : i \in items} :
       /\ Cardinality(skipped) <= left.faults /\ Spend("faults", Cardinality(skipped))
       /\ LET out == {i \in items : Writable(p, i, skipped)}
              accepted == {i.f : i \in {j \in out : j.e.outcome = "apply"}}
              On(f) == Conditional((CHOOSE i \in out : i.f = f).e, accepted)
              written == {i.f : i \in out}
          IN /\ fin' = [f \in Findings |-> IF f \in written THEN Moved(r, On(f), f) ELSE fin[f]]
             /\ log' = [f \in Findings |-> IF f \in written THEN Append1(log[f], On(f)) ELSE log[f]]
             /\ unseen' = unseen \cup Pairs(accepted, Overlay \ run[p].seen)
             /\ Since(written)
             /\ run' = [run EXCEPT ![p].pc = "recheck",
                          ![p].capped = Cardinality(items) < Cardinality(fresh),
                          ![p].room = @ - Cardinality(accepted)]
  /\ UNCHANGED stripped

\* ApplyRecheckDecisions: an accept stands or is undone.
WriteRecheck(p) ==
  LET r == run[p].recipe
      items == {i \in run[p].plan : i.from # "proposed"}
  IN
  /\ run[p].pc = "recheck"
  /\ \E skipped \in SUBSET {i.f : i \in items} :
       /\ Cardinality(skipped) <= left.faults /\ Spend("faults", Cardinality(skipped))
       /\ LET out == {i \in items : i.f \notin skipped /\ State(i.f) \in InText /\ OtherRecipes(r, i.f)}
              On(f) == Conditional((CHOOSE i \in out : i.f = f).e, {})
              written == {i.f : i \in out}
          IN /\ fin' = [f \in Findings |->
                          IF f \in written /\ On(f).outcome = "reject"
                          THEN [state |-> IF State(f) = "accepted" THEN "rejected" ELSE "reverted",
                                by |-> Jev(r), of |-> 0]
                          ELSE fin[f]]
             /\ log' = [f \in Findings |-> IF f \in written THEN Append1(log[f], On(f)) ELSE log[f]]
             /\ Since(written)
  /\ run' = [run EXCEPT ![p] = [@ EXCEPT !.pc = "plan", !.plan = {}, !.seen = {}]]
  /\ UNCHANGED <<unseen, stripped>>

\* The process stops, between any two steps.
Stop(p) ==
  /\ run[p].pc # "idle" /\ left.faults > 0
  /\ Stops(p) /\ Spend("faults", 1) /\ UNCHANGED <<fin, log, undo, unseen, stripped>>

-----------------------------------------------------------------------------
(* The undo: RevertDecisions.                                              *)

\* revertCandidatesSQL.
Candidates(recipes, scope) ==
  {[f |-> f, state |-> State(f), recipe |-> fin[f].by.recipe] :
     f \in {g \in scope : fin[g].by.who = "jev" /\ fin[g].by.recipe \in recipes /\ State(g) \in Undoable}}

\* Of a recipe, or of one finding.
StartUndo ==
  /\ ~undo.on /\ left.undos > 0
  /\ \E sc \in {<<{r}, Findings>> : r \in Recipes} \cup {<<Recipes, {f}>> : f \in Findings} :
       undo' = [on |-> TRUE, recipes |-> sc[1], scope |-> sc[2], cands |-> Candidates(sc[1], sc[2]),
                done |-> {}, since |-> {}]
  /\ Spend("undos", 1) /\ UNCHANGED <<fin, log, run, unseen, stripped>>

\* Representatives first, then by id.
Before(c, d) ==
  \/ c.state # "duplicate" /\ d.state = "duplicate"
  \/ (c.state = "duplicate") = (d.state = "duplicate") /\ c.f <= d.f

\* revertTransitions.
UndoneState(s) == CASE s = "applied" -> "reverted" [] s = "accepted" -> "rejected" [] OTHER -> "proposed"

\* Mutant: duplicates stay behind when their representative leaves the overlay.
NoneOf(reps) == {}

FollowersOf(reps) == {f \in Findings : State(f) = "duplicate" /\ fin[f].of \in reps}

\* Mutant: a duplicate is left to the move of its representative.
LeftToTheirs(batch) == {}

\* The batch's own duplicates.
Listed(batch) == {c.f : c \in {d \in batch : d.state = "duplicate" /\ State(d.f) = "duplicate"}}

\* The representatives an earlier undo rejected a finding with.
RejectedWith(f) == {e.about : e \in {d \in ToSet(log[f]) : d.reason = "duplicate_of_reverted"}}

\* revertBatch and moveFollowersTx.
UndoBatch ==
  /\ undo.on /\ undo.cands # {}
  /\ \E last \in undo.cands :
       LET batch == {c \in undo.cands : Before(c, last)}
           moved == {c \in batch : c.state # "duplicate" /\ State(c.f) = c.state}
           Ids(cs) == {c.f : c \in cs}
           RecipeOf(f) == (CHOOSE c \in batch : c.f = f).recipe
           outs == Ids({c \in moved : c.state \in InText})
           ins  == Ids(moved) \ outs
           rejected == FollowersOf(outs)
           listed   == Listed(batch) \ (undo.done \cup rejected)
           \* Of what is rejected after the moves above.
           restored == {f \in Findings \ ins : RejectedWith(f) \cap ins # {}
                          /\ State(f) = (IF f \in outs THEN "accepted" ELSE "rejected")}
           released == listed \cup FollowersOf(ins) \cup restored
           \* Whose undo a follower's move is: its representative's, else its own.
           Leads(f) == (IF State(f) = "duplicate" THEN {fin[f].of} ELSE RejectedWith(f)) \cap ins
           To(state, r) == [state |-> state, by |-> Undo(r), of |-> 0]
       IN /\ fin' = [f \in Findings |->
                       IF f \in released
                         THEN To("proposed", RecipeOf(IF Leads(f) = {} THEN f ELSE CHOOSE g \in Leads(f) : TRUE))
                       ELSE IF f \in rejected THEN To("rejected", RecipeOf(fin[f].of))
                       ELSE IF f \in Ids(moved) THEN To(UndoneState(State(f)), RecipeOf(f))
                       ELSE fin[f]]
          /\ log' = [f \in Findings |->
                       IF f \in rejected
                         THEN Append(Unfollowed(log[f]), Event(RecipeOf(fin[f].of), "reject",
                                       "duplicate_of_reverted", fin[f].of, TRUE))
                       ELSE IF f \in released THEN Unfollowed(log[f])
                       ELSE log[f]]
          /\ undo' = [undo EXCEPT !.cands = @ \ batch,
                                  !.done = @ \cup rejected \cup released]
  /\ UNCHANGED <<run, unseen, left, stripped>>

\* Mutant: every recipe's decisions go with one recipe's.
RevokedOfAll(f, e) == f \in undo.scope /\ ~e.undone

\* revertScopeDecisions.
RevokedBy(f, e) == f \in undo.scope /\ e.recipe \in undo.recipes /\ ~e.undone

\* revokeScopeSQL, in a statement of its own, after every batch.
EndUndo ==
  /\ undo.on /\ undo.cands = {}
  /\ log' = [f \in Findings |-> SelectSeq(log[f], LAMBDA e : ~RevokedBy(f, e))]
  /\ stripped' = stripped \cup {f \in undo.since : log'[f] # log[f]}
  /\ undo' = NoUndo /\ UNCHANGED <<fin, run, unseen, left>>

UndoStops ==
  /\ undo.on /\ left.faults > 0 /\ Spend("faults", 1)
  /\ undo' = NoUndo /\ UNCHANGED <<fin, log, run, unseen, stripped>>

-----------------------------------------------------------------------------
(* A reviewer, and the rebuild.                                            *)

ReviewMoves == {<<"proposed", "accepted">>, <<"proposed", "rejected">>, <<"accepted", "rejected">>,
                <<"applied", "reverted">>, <<"rejected", "proposed">>, <<"reverted", "proposed">>}

\* SetPatchState; a reconsider stamps no decider.
Review(f, to) ==
  /\ left.moves > 0 /\ <<State(f), to>> \in ReviewMoves
  /\ fin' = [fin EXCEPT ![f].state = to, ![f].by = IF to = "proposed" THEN @ ELSE Person]
  /\ unseen' = IF to = "accepted" THEN unseen \cup Pairs({f}, Overlay) ELSE unseen
  /\ Since({f}) /\ Spend("moves", 1) /\ UNCHANGED <<log, run, stripped>>

\* The rebuild replays the accepted fixes, and puts aside for good those that
\* overlap another.
Rebuild ==
  LET Replayed(f) == IF \E g \in Overlay : Clash(f, g) THEN "stale" ELSE "applied"
  IN /\ fin' = [f \in Findings |-> IF f \in Overlay THEN [fin[f] EXCEPT !.state = Replayed(f)]
                                    ELSE fin[f]]
     /\ fin' # fin
     /\ Since({f \in Findings : fin'[f] # fin[f]})
     /\ UNCHANGED <<log, run, unseen, left, stripped>>

Run(p) == Finish(p) \/ Plan(p) \/ WriteFresh(p) \/ WriteRecheck(p)

Next ==
  \/ \E p \in Runners : Start(p) \/ Run(p) \/ Stop(p)
  \/ StartUndo \/ UndoBatch \/ EndUndo \/ UndoStops
  \/ \E f \in Findings, to \in {"accepted", "rejected", "reverted", "proposed"} : Review(f, to)
  \/ Rebuild

Spec == Init /\ [][Next]_vars

-----------------------------------------------------------------------------
(* Properties.                                                             *)

TypeOK ==
  /\ \A f \in Findings :
       /\ State(f) \in Live \cup Undoable \cup {"stale"}
       /\ fin[f].by.who \in {"nobody", "person", "jev", "undo"}
       /\ fin[f].of \in Findings \cup {0} /\ (fin[f].of # 0) = (State(f) = "duplicate")
  /\ \A p \in Runners : run[p].pc \in {"idle", "plan", "fresh", "recheck"} /\ run[p].room \in Nat
  /\ \A w \in DOMAIN left : left[w] \in Nat
  /\ stripped \subseteq Findings

\* Two fixes to the same text are both in (which loses both at the next
\* rebuild) only if one of the deciders could not have known of the other: it
\* went in between a run's reading and its writing, or a person accepted over
\* it.
OneFixPerText ==
  \A f, g \in Overlay : Clash(f, g) => {f, g} \in unseen

\* A duplicate behind a representative that an undo took out or rejected.
LeftBehind(f) ==
  /\ State(f) = "duplicate" /\ State(fin[f].of) \in {"rejected", "reverted"}
  /\ fin[fin[f].of].by.who = "undo"

\* No step leaves a duplicate waiting behind a representative an undo took out:
\* the undo takes its followers with it, and no run adds one to it after.  Only
\* one whose representative had become a duplicate itself stays behind.
DuplicatesFollow ==
  [][\A f \in Findings : LeftBehind(f)' /\ ~LeftBehind(f) => State(fin'[f].of) = "duplicate"]_vars

\* lockRepresentativesSQL says: "Only a live fix can represent: ... never a
\* duplicate".  Refuted: a representative still proposed is grouped in its turn
\* behind a fix accepted or reconsidered since, its duplicates behind it.
NoneBehindADuplicate ==
  \A f \in Findings : State(f) = "duplicate" => State(fin[f].of) # "duplicate"

\* Whatever a recipe is said to have decided has the recipe's live decision
\* behind it, but for what an undo stripped because it was decided too late to
\* be moved; and a live duplicate decision is that of a duplicate.
DecisionsStand ==
  \A f \in Findings :
    /\ fin[f].by.who = "jev" /\ State(f) \in Undoable /\ f \notin stripped =>
         \E e \in ToSet(log[f]) : e.recipe = fin[f].by.recipe /\ ~e.undone
    /\ \A e \in ToSet(log[f]) : e.outcome = "duplicate" => State(f) = "duplicate" /\ fin[f].of = e.about

\* A conflict's loser is rejected for a fix only in the step that accepts it.
LosersLoseToAFix ==
  [][\A f \in Findings : log'[f] # <<>> /\ Last(log'[f]) \notin ToSet(log[f])
                       /\ Last(log'[f]).reason = "overlap_dup" =>
       fin'[Last(log'[f]).about].state = "accepted"]_vars

\* What a person decided no machine changes, but where the undo works from an
\* older sight of the finding: listed before the person's decision in the same
\* state, or rejected with its representative by an earlier undo.
PersonStands ==
  [][\A f \in Findings : fin[f].by = Person /\ State(f) \in Undoable /\ fin'[f].by.who \in {"jev", "undo"} =>
       f \in undo.since \/ RejectedWith(f) # {}]_vars

\* RevertDecisions says: "a person's decision is never touched".
PersonNeverTouched ==
  [][\A f \in Findings : fin[f].by = Person /\ State(f) \in Undoable =>
       fin'[f].by.who \notin {"jev", "undo"}]_vars

\* What an undo was to take back is taken back when it ends, but for what
\* someone decided since it was listed.
UndoIsComplete ==
  [][EndUndo => \A c \in Candidates(undo.recipes, undo.scope) : c.f \in undo.since]_vars
=============================================================================
