---------------------------- MODULE ReportsProofs ----------------------------
(***************************************************************************)
(* Theorems about what operators are shown, and what is found for the      *)
(* queue: the status page, the audit feed, the chunk quality scan, the     *)
(* file monitor, the dashboard's refresh cache, pipeline bar and server    *)
(* cards, the labels, and the votes of the second ASR models.  They share  *)
(* no state: each is an instance of Reports, for any values of its         *)
(* constants.                                                              *)
(***************************************************************************)
EXTENDS Reports, Integers, FiniteSetTheorems, WellFoundedInduction, TLAPS

-----------------------------------------------------------------------------
(* The status page: its inductive invariant.                               *)

Counted  == {"backlog", "runner", "coverage", "render"}
Backlogs == {"runner", "coverage", "render"}

Drained == got.pending = 0 /\ got.claimed = 0

Settled(t)    == status[t] \in {"done", "failed"}
Searchable(t) == status[t] = "failed" \/ (status[t] = "done" /\ spChunks[t])
DoneIsJudged  == \A t \in PageTracks : status[t] = "done" => judged[t] = "yes"

\* What each query has learnt of the tracks the page was asked for stays true
\* of those nobody sends back, and without a newcomer no more tracks are
\* transcribed than were counted.
PageInv ==
  /\ \A t \in asked : status[t] # "absent"
  /\ spAt \in Counted /\ Drained => \A t \in asked \ touched : Settled(t)
  /\ spAt \in Backlogs /\ Drained /\ got.backlog = 0 =>
       \A t \in asked \ touched : Searchable(t)
  /\ spAt \in Counted /\ joined = {} => Cardinality(SP!With("done")) <= got.done
  /\ spAt = "render" /\ joined = {} /\ got.covered >= got.done => DoneIsJudged
  /\ SP!SafeIsSearchable
  /\ SP!SafeIsJudged

-----------------------------------------------------------------------------
(* Lemmas.                                                                 *)

\* The instance counts as this module does.
LEMMA PageCount ==
  \A S : SP!Cardinality(S) = Cardinality(S)
BY DEF SP!Cardinality, Cardinality

\* The sets the queries count are finite.
LEMMA CountsFinite ==
  ASSUME IsFiniteSet(PageTracks), SP!TypeOK, NEW s
  PROVE  /\ IsFiniteSet(SP!With(s)) /\ Cardinality(SP!With(s)) \in Nat
         /\ IsFiniteSet(SP!Backlog) /\ Cardinality(SP!Backlog) \in Nat
         /\ IsFiniteSet(SP!JudgedDone) /\ Cardinality(SP!JudgedDone) \in Nat
<1>1. SP!With(s) \subseteq PageTracks /\ SP!Backlog \subseteq PageTracks /\ SP!JudgedDone \subseteq PageTracks
  BY DEF SP!With, SP!Backlog, SP!JudgedDone
<1>2. IsFiniteSet(SP!With(s)) /\ IsFiniteSet(SP!Backlog) /\ IsFiniteSet(SP!JudgedDone)
  BY <1>1, FS_Subset
<1> QED
  BY <1>2, FS_CardinalityType

\* A count of none is no track at all.
LEMMA NoneCounted ==
  ASSUME IsFiniteSet(PageTracks), SP!TypeOK
  PROVE  /\ \A s : Cardinality(SP!With(s)) = 0 => SP!With(s) = {}
         /\ Cardinality(SP!Backlog) = 0 => SP!Backlog = {}
BY CountsFinite, FS_EmptySet

\* A step of the pipeline leaves the page alone; while one is made it moves no
\* settled track it does not put down as sent back, and transcribes none it
\* does not put down as a newcomer.
LEMMA PipelineKeeps ==
  ASSUME SP!TypeOK, SP!Pipeline
  PROVE  /\ UNCHANGED SP!pageVars
         /\ \A u \in PageTracks : status[u] # "absent" => status'[u] # "absent"
         /\ spAt # "none" =>
              /\ touched \subseteq touched' /\ joined \subseteq joined'
              /\ \A u \in PageTracks : u \notin touched' /\ Settled(u) =>
                   status'[u] = status[u] /\ (spChunks[u] => spChunks'[u])
              /\ joined' = {} => \A u \in PageTracks : status'[u] = "done" =>
                   status[u] = "done" /\ (judged[u] = "yes" => judged'[u] = "yes")
<1>1. PICK t \in PageTracks :
        \/ SP!Enqueue(t) \/ SP!Claim(t) \/ SP!Complete(t) \/ SP!GiveUp(t) \/ SP!GiveBack(t)
        \/ SP!Judge(t) \/ SP!Embed(t) \/ SP!Requeue(t) \/ SP!Reembed(t)
  BY DEF SP!Pipeline
<1>2. CASE SP!Enqueue(t) \/ SP!Claim(t) \/ SP!GiveUp(t) \/ SP!GiveBack(t)
  <2>1. CASE SP!Enqueue(t)
    BY <2>1 DEF SP!Enqueue, SP!Moves, SP!TypeOK, Settled, SP!sinceVars
  <2>2. CASE SP!Claim(t)
    BY <2>2 DEF SP!Claim, SP!Moves, SP!TypeOK, Settled, SP!sinceVars
  <2>3. CASE SP!GiveUp(t)
    BY <2>3 DEF SP!GiveUp, SP!Moves, SP!TypeOK, Settled, SP!sinceVars
  <2>4. CASE SP!GiveBack(t)
    BY <2>4 DEF SP!GiveBack, SP!Moves, SP!TypeOK, Settled, SP!sinceVars
  <2> QED
    BY <1>2, <2>1, <2>2, <2>3, <2>4
<1>3. CASE SP!Complete(t)
  BY <1>3 DEF SP!Complete, SP!Moves, SP!TypeOK, Settled
<1>4. CASE SP!Judge(t)
  BY <1>4 DEF SP!Judge, SP!TypeOK, Settled, SP!sinceVars
<1>5. CASE SP!Embed(t)
  BY <1>5 DEF SP!Embed, SP!TypeOK, Settled, SP!sinceVars
<1>6. CASE SP!Requeue(t)
  BY <1>6 DEF SP!Requeue, SP!Moves, SP!Touches, SP!TypeOK, Settled
<1>7. CASE SP!Reembed(t)
  BY <1>7 DEF SP!Reembed, SP!Touches, SP!TypeOK, Settled
<1> QED
  BY <1>1, <1>2, <1>3, <1>4, <1>5, <1>6, <1>7

\* The line that says "safe" is of a page whose counts are all drained.
LEMMA SafeIsFullyDone ==
  ASSUME NEW e, SP!StateLine(got, e).sub = "safe" PROVE SP!FullyDone(got)
BY DEF SP!StateLine

-----------------------------------------------------------------------------
(* Typing.                                                                 *)

\* A step of the pipeline keeps the types.
LEMMA PipelineType == ASSUME SP!TypeOK, SP!Pipeline PROVE SP!TypeOK'
<1>1. PICK t \in PageTracks :
        \/ SP!Enqueue(t) \/ SP!Claim(t) \/ SP!Complete(t) \/ SP!GiveUp(t) \/ SP!GiveBack(t)
        \/ SP!Judge(t) \/ SP!Embed(t) \/ SP!Requeue(t) \/ SP!Reembed(t)
  BY DEF SP!Pipeline
<1>2. UNCHANGED SP!pageVars
  BY PipelineKeeps
<1>3. status' \in [PageTracks -> {"absent", "pending", "claimed", "done", "failed"}]
  <2>1. \/ UNCHANGED status
        \/ \E s \in {"pending", "claimed", "done", "failed"} : status' = [status EXCEPT ![t] = s]
    BY <1>1 DEF SP!Enqueue, SP!Claim, SP!Complete, SP!GiveUp, SP!GiveBack, SP!Requeue, SP!Moves, SP!Judge, SP!Embed, SP!Reembed
  <2> QED
    BY <2>1 DEF SP!TypeOK
<1>4. judged' \in [PageTracks -> {"no", "yes", "failed"}]
  <2>1. \/ UNCHANGED judged
        \/ \E j \in {"no", "yes", "failed"} : judged' = [judged EXCEPT ![t] = j]
    BY <1>1 DEF SP!Enqueue, SP!Claim, SP!Complete, SP!GiveUp, SP!GiveBack, SP!Requeue, SP!Judge, SP!Embed, SP!Reembed
  <2> QED
    BY <2>1 DEF SP!TypeOK
<1>5. spChunks' \in [PageTracks -> BOOLEAN]
  <2>1. UNCHANGED spChunks \/ \E c \in BOOLEAN : spChunks' = [spChunks EXCEPT ![t] = c]
    BY <1>1 DEF SP!Enqueue, SP!Claim, SP!Complete, SP!GiveUp, SP!GiveBack, SP!Requeue, SP!Judge, SP!Embed, SP!Reembed
  <2> QED
    BY <2>1 DEF SP!TypeOK
<1>6. touched' \in SUBSET PageTracks /\ joined' \in SUBSET PageTracks /\ spMoves' \in Nat
  <2>1. /\ touched' = touched \/ touched' = touched \cup {t}
        /\ joined' = joined \/ joined' = joined \cup {t}
        /\ spMoves' = spMoves \/ spMoves' = spMoves + 1
    <3>1. CASE SP!Enqueue(t) \/ SP!Claim(t) \/ SP!GiveUp(t) \/ SP!GiveBack(t) \/ SP!Judge(t) \/ SP!Embed(t)
      BY <3>1 DEF SP!Enqueue, SP!Claim, SP!GiveUp, SP!GiveBack, SP!Judge, SP!Embed, SP!sinceVars
    <3>2. CASE SP!Complete(t)
      BY <3>2 DEF SP!Complete
    <3>3. CASE SP!Requeue(t) \/ SP!Reembed(t)
      <4>1. SP!Touches(t)
        BY <3>3 DEF SP!Requeue, SP!Reembed
      <4> QED
        BY <4>1 DEF SP!Touches
    <3> QED
      BY <1>1, <3>1, <3>2, <3>3
  <2>2. touched \in SUBSET PageTracks /\ joined \in SUBSET PageTracks /\ spMoves \in Nat
    BY DEF SP!TypeOK
  <2>3. spMoves' \in Nat
    BY <2>1, <2>2
  <2> QED
    BY <2>1, <2>2, <2>3
<1> QED
  BY <1>2, <1>3, <1>4, <1>5, <1>6 DEF SP!TypeOK, SP!pageVars

\* So does a query.
LEMMA PageType == ASSUME IsFiniteSet(PageTracks), SP!TypeOK, SP!Page PROVE SP!TypeOK'
<1> USE DEF SP!trackVars, SP!sinceVars
<1>1. ASSUME NEW step \in {"none", "counts"}, NEW tracks \in SUBSET PageTracks, SP!Begin(step, tracks)
      PROVE  SP!TypeOK'
  BY <1>1 DEF SP!Begin, SP!Nothing, SP!NoLine, SP!TypeOK
<1>2. CASE SP!Ask
  <2>1. {t \in PageTracks : status[t] # "absent"} \in SUBSET PageTracks
    OBVIOUS
  <2> QED
    BY <1>1, <1>2, <2>1 DEF SP!Ask
<1>3. CASE SP!Leave \/ SP!Fail
  BY <1>1, <1>3 DEF SP!Leave, SP!Fail
<1>4. CASE SP!ReadCounts
  BY <1>4, CountsFinite, PageCount DEF SP!ReadCounts, SP!Query, SP!TypeOK
<1>5. CASE SP!ReadBacklog
  BY <1>5, CountsFinite, PageCount DEF SP!ReadBacklog, SP!Query, SP!TypeOK
<1>6. CASE SP!ReadRunner
  BY <1>6 DEF SP!ReadRunner, SP!Query, SP!TypeOK
<1>7. CASE SP!ReadCoverage
  BY <1>7, CountsFinite, PageCount DEF SP!ReadCoverage, SP!Query, SP!TypeOK
<1>8. CASE SP!Render
  <2>1. ASSUME NEW e
        PROVE  SP!StateLine(got, e) \in
                 [label : {"PAUSED", "RUNNING", "STALLED", "IDLE", "WINDING DOWN", "ANALYZING"},
                  sub : {"none", "eval", "batch", "winding", "safe", "runner"}]
    <3>1. SP!BaseLabel(got, e) \in {"PAUSED", "RUNNING", "STALLED", "IDLE"}
      BY DEF SP!BaseLabel
    <3> QED
      BY <3>1 DEF SP!StateLine
  <2>2. /\ \E e \in SP!Elsewhere : line' = SP!StateLine(got, e)
        /\ got' = SP!Nothing /\ spAt' = "shown"
        /\ UNCHANGED <<status, judged, spChunks, asked, touched, joined, spMoves>>
    BY <1>8 DEF SP!Render
  <2>3. line' \in [label : {"PAUSED", "RUNNING", "STALLED", "IDLE", "WINDING DOWN", "ANALYZING"},
                    sub : {"none", "eval", "batch", "winding", "safe", "runner"}]
    BY <2>1, <2>2
  <2>4. got' \in [pending : Nat, claimed : Nat, done : Nat, backlog : Nat,
                   active : BOOLEAN, covered : Nat]
    BY <2>2 DEF SP!Nothing
  <2> QED
    BY <2>2, <2>3, <2>4 DEF SP!TypeOK
<1> QED
  BY <1>2, <1>3, <1>4, <1>5, <1>6, <1>7, <1>8 DEF SP!Page

\* Every step keeps them.
LEMMA StepType ==
  ASSUME IsFiniteSet(PageTracks) PROVE SP!TypeOK /\ [SP!Next]_(SP!vars) => SP!TypeOK'
<1>1. ASSUME SP!TypeOK, UNCHANGED SP!vars PROVE SP!TypeOK'
  BY <1>1 DEF SP!TypeOK, SP!vars, SP!trackVars, SP!pageVars, SP!sinceVars
<1> QED
  BY <1>1, PipelineType, PageType DEF SP!Next

-----------------------------------------------------------------------------
(* What the page promises.                                                 *)

\* A step of the pipeline keeps what the queries have learnt.
LEMMA PipelinePage == ASSUME IsFiniteSet(PageTracks), SP!TypeOK, SP!TypeOK', PageInv, SP!Pipeline PROVE PageInv'
<1>1. /\ UNCHANGED <<spAt, got, line, asked>>
      /\ \A u \in PageTracks : status[u] # "absent" => status'[u] # "absent"
      /\ asked \subseteq PageTracks
  BY PipelineKeeps DEF SP!pageVars, SP!TypeOK
<1>2. spAt # "none" =>
        /\ touched \subseteq touched' /\ (joined' = {} => joined = {})
        /\ \A u \in PageTracks : u \notin touched' /\ Settled(u) =>
             status'[u] = status[u] /\ (spChunks[u] => spChunks'[u])
        /\ joined' = {} => \A u \in PageTracks : status'[u] = "done" =>
             status[u] = "done" /\ (judged[u] = "yes" => judged'[u] = "yes")
  <2>1. ASSUME spAt # "none" PROVE touched \subseteq touched' /\ joined \subseteq joined'
    BY <2>1, PipelineKeeps
  <2> QED
    BY <2>1, PipelineKeeps
<1>3. \A t \in asked : status'[t] # "absent"
  BY <1>1 DEF PageInv
<1>4. ASSUME spAt # "none", NEW t \in asked \ touched', Settled(t)
      PROVE  /\ t \in asked \ touched /\ Settled(t)'
             /\ Searchable(t) => Searchable(t)'
  BY <1>1, <1>2, <1>4 DEF Settled, Searchable
<1>5. spAt \in Counted /\ Drained => \A t \in asked \ touched' : Settled(t)'
  BY <1>2, <1>4 DEF PageInv, Counted
<1>6. spAt \in Backlogs /\ Drained /\ got.backlog = 0 =>
        \A t \in asked \ touched' : Searchable(t)'
  BY <1>2, <1>4 DEF PageInv, Backlogs, Searchable, Settled
<1>7. ASSUME spAt \in Counted, joined' = {} PROVE Cardinality(SP!With("done"))' <= got.done
  <2>1. SP!With("done")' \subseteq SP!With("done") /\ joined = {}
    BY <1>2, <1>7 DEF SP!With, Counted
  <2>2. Cardinality(SP!With("done"))' <= Cardinality(SP!With("done"))
    BY <2>1, CountsFinite, FS_Subset
  <2>3. Cardinality(SP!With("done")) \in Nat /\ Cardinality(SP!With("done"))' \in Nat /\ got.done \in Nat
    <3>1. SP!With("done")' \subseteq PageTracks
      BY DEF SP!With
    <3>2. Cardinality(SP!With("done"))' \in Nat
      BY <3>1, FS_Subset, FS_CardinalityType
    <3> QED
      BY <3>2, CountsFinite DEF SP!TypeOK
  <2>4. Cardinality(SP!With("done")) <= got.done
    BY <1>7, <2>1 DEF PageInv
  <2> QED
    BY <2>2, <2>3, <2>4
<1>8. spAt # "none" /\ joined' = {} /\ DoneIsJudged => DoneIsJudged'
  BY <1>2 DEF DoneIsJudged
<1>9. SP!SafeIsSearchable'
  BY <1>1, <1>2, <1>4 DEF PageInv, SP!SafeIsSearchable, SP!Safe, Searchable, Settled
<1>10. SP!SafeIsJudged'
  BY <1>1, <1>2, <1>8 DEF PageInv, SP!SafeIsJudged, SP!Safe, DoneIsJudged
<1> QED
  BY <1>1, <1>2, <1>3, <1>5, <1>6, <1>7, <1>8, <1>9, <1>10 DEF PageInv, Drained

\* A page begins with nothing learnt.
LEMMA BeginPage ==
  ASSUME SP!TypeOK, PageInv, SP!Ask \/ SP!Leave \/ SP!Fail
  PROVE  PageInv'
<1>1. /\ spAt' \in {"none", "counts"} /\ UNCHANGED SP!trackVars
      /\ \A t \in asked' : status[t] # "absent"
  BY DEF SP!Ask, SP!Leave, SP!Fail, SP!Begin
<1> QED
  BY <1>1 DEF PageInv, Counted, Backlogs, SP!SafeIsSearchable, SP!SafeIsJudged, SP!Safe, SP!trackVars

\* No pending and no claimed track leaves only settled ones.
LEMMA CountsPage == ASSUME IsFiniteSet(PageTracks), SP!TypeOK, PageInv, SP!ReadCounts PROVE PageInv'
<1>1. /\ spAt' = "backlog"
      /\ UNCHANGED <<status, judged, spChunks, line, asked, touched, joined>>
      /\ got'.pending = Cardinality(SP!With("pending"))
      /\ got'.claimed = Cardinality(SP!With("claimed"))
      /\ got'.done = Cardinality(SP!With("done"))
  BY PageCount DEF SP!ReadCounts, SP!Query, SP!trackVars, SP!sinceVars, SP!TypeOK
<1>2. ASSUME Drained', NEW t \in asked PROVE Settled(t)
  <2>1. SP!With("pending") = {} /\ SP!With("claimed") = {}
    BY <1>1, <1>2, NoneCounted DEF Drained
  <2>2. t \in PageTracks /\ status[t] \in {"pending", "claimed", "done", "failed"}
    BY DEF SP!TypeOK, PageInv
  <2> QED
    BY <2>1, <2>2 DEF SP!With, Settled
<1>3. Cardinality(SP!With("done"))' <= got'.done
  <2>1. SP!With("done")' = SP!With("done")
    BY <1>1 DEF SP!With
  <2> QED
    BY <1>1, <2>1, CountsFinite
<1> QED
  BY <1>1, <1>2, <1>3 DEF PageInv, Counted, Backlogs, Settled, SP!SafeIsSearchable, SP!SafeIsJudged, SP!Safe

\* No backlog after that leaves only searchable and failed ones.
LEMMA BacklogPage == ASSUME IsFiniteSet(PageTracks), SP!TypeOK, PageInv, SP!ReadBacklog PROVE PageInv'
<1>1. /\ spAt = "backlog" /\ spAt' = "runner"
      /\ UNCHANGED <<status, judged, spChunks, line, asked, touched, joined>>
      /\ got'.pending = got.pending /\ got'.claimed = got.claimed /\ got'.done = got.done
      /\ got'.backlog = Cardinality(SP!Backlog)
  BY PageCount DEF SP!ReadBacklog, SP!Query, SP!trackVars, SP!sinceVars, SP!TypeOK
<1>2. Drained' <=> Drained
  BY <1>1 DEF Drained
<1>3. ASSUME Drained, got'.backlog = 0, NEW t \in asked \ touched PROVE Searchable(t)
  <2>1. SP!Backlog = {}
    BY <1>1, <1>3, NoneCounted
  <2>2. t \in PageTracks /\ Settled(t)
    BY <1>1, <1>3 DEF PageInv, Counted, SP!TypeOK
  <2> QED
    BY <2>1, <2>2 DEF SP!Backlog, Settled, Searchable
<1>4. SP!With("done")' = SP!With("done")
  BY <1>1 DEF SP!With
<1> QED
  BY <1>1, <1>2, <1>3, <1>4
  DEF PageInv, Counted, Backlogs, Settled, Searchable, SP!SafeIsSearchable, SP!SafeIsJudged, SP!Safe

\* The runner's row says nothing of that.
LEMMA RunnerPage == ASSUME SP!TypeOK, PageInv, SP!ReadRunner PROVE PageInv'
<1>1. /\ spAt = "runner" /\ spAt' = "coverage"
      /\ UNCHANGED <<status, judged, spChunks, line, asked, touched, joined>>
      /\ got'.pending = got.pending /\ got'.claimed = got.claimed /\ got'.done = got.done
      /\ got'.backlog = got.backlog
  BY DEF SP!ReadRunner, SP!Query, SP!trackVars, SP!sinceVars, SP!TypeOK
<1>2. SP!With("done")' = SP!With("done") /\ (Drained' <=> Drained)
  BY <1>1 DEF SP!With, Drained
<1> QED
  BY <1>1, <1>2
  DEF PageInv, Counted, Backlogs, Settled, Searchable, SP!SafeIsSearchable, SP!SafeIsJudged, SP!Safe

\* As many verdicts as there were transcribed tracks are all of them.
LEMMA CoveragePage == ASSUME IsFiniteSet(PageTracks), SP!TypeOK, PageInv, SP!ReadCoverage PROVE PageInv'
<1>1. /\ spAt = "coverage" /\ spAt' = "render"
      /\ UNCHANGED <<status, judged, spChunks, line, asked, touched, joined>>
      /\ got'.pending = got.pending /\ got'.claimed = got.claimed /\ got'.done = got.done
      /\ got'.backlog = got.backlog
      /\ got'.covered = Cardinality(SP!JudgedDone)
  BY PageCount DEF SP!ReadCoverage, SP!Query, SP!trackVars, SP!sinceVars, SP!TypeOK
<1>2. SP!With("done")' = SP!With("done") /\ (Drained' <=> Drained)
  BY <1>1 DEF SP!With, Drained
<1>3. ASSUME joined = {}, got'.covered >= got'.done PROVE DoneIsJudged
  <2>1. SP!JudgedDone \subseteq SP!With("done")
    BY DEF SP!JudgedDone, SP!With
  <2>2. Cardinality(SP!With("done")) <= got.done
    BY <1>1, <1>3 DEF PageInv, Counted
  <2>3. /\ Cardinality(SP!JudgedDone) <= Cardinality(SP!With("done"))
        /\ Cardinality(SP!JudgedDone) = Cardinality(SP!With("done")) => SP!JudgedDone = SP!With("done")
    BY <2>1, CountsFinite, FS_Subset
  <2>4. Cardinality(SP!JudgedDone) \in Nat /\ Cardinality(SP!With("done")) \in Nat /\ got.done \in Nat
    BY CountsFinite DEF SP!TypeOK
  <2>5. SP!JudgedDone = SP!With("done")
    BY <1>1, <1>3, <2>2, <2>3, <2>4
  <2> QED
    BY <2>5 DEF SP!JudgedDone, SP!With, DoneIsJudged
<1>4. DoneIsJudged' <=> DoneIsJudged
  BY <1>1 DEF DoneIsJudged
<1> QED
  BY <1>1, <1>2, <1>3, <1>4
  DEF PageInv, Counted, Backlogs, Settled, Searchable, SP!SafeIsSearchable, SP!SafeIsJudged, SP!Safe

\* The page says no more than its queries learnt.
LEMMA RenderPage == ASSUME SP!TypeOK, PageInv, SP!Render PROVE PageInv'
<1>1. /\ spAt = "render" /\ spAt' = "shown"
      /\ UNCHANGED <<status, judged, spChunks, asked, touched, joined>>
  BY DEF SP!Render, SP!trackVars, SP!sinceVars
<1>2. line'.sub = "safe" => SP!FullyDone(got)
  BY SafeIsFullyDone DEF SP!Render
<1>3. SP!FullyDone(got) => \A t \in asked \ touched : Searchable(t)
  BY <1>1 DEF PageInv, Backlogs, Drained, SP!FullyDone
<1>4. SP!FullyDone(got) /\ EvalEnabled /\ joined = {} => DoneIsJudged
  BY <1>1 DEF PageInv, SP!FullyDone, SP!Covered
<1>5. SP!SafeIsSearchable'
  BY <1>1, <1>2, <1>3 DEF SP!SafeIsSearchable, SP!Safe, Searchable
<1>6. SP!SafeIsJudged'
  BY <1>1, <1>2, <1>4 DEF SP!SafeIsJudged, SP!Safe, DoneIsJudged
<1> QED
  BY <1>1, <1>5, <1>6 DEF PageInv, Counted, Backlogs

\* Every step keeps it.
LEMMA StepPage ==
  ASSUME IsFiniteSet(PageTracks) PROVE SP!TypeOK /\ SP!TypeOK' /\ PageInv /\ [SP!Next]_(SP!vars) => PageInv'
<1>1. ASSUME PageInv, UNCHANGED SP!vars PROVE PageInv'
  BY <1>1 DEF PageInv, Settled, Searchable, Drained, DoneIsJudged, SP!With, SP!SafeIsSearchable,
              SP!SafeIsJudged, SP!Safe, SP!vars, SP!trackVars, SP!pageVars, SP!sinceVars
<1> QED
  BY <1>1, PipelinePage, BeginPage, CountsPage, BacklogPage, RunnerPage, CoveragePage, RenderPage
  DEF SP!Next, SP!Page

\* Nothing is shown at the start.
LEMMA InitPage == SP!Init => SP!TypeOK /\ PageInv
<1>1. SP!Init => SP!TypeOK
  BY DEF SP!Init, SP!Nothing, SP!NoLine, SP!TypeOK
<1>2. SP!Init => PageInv
  BY DEF SP!Init, PageInv, Counted, Backlogs, SP!SafeIsSearchable, SP!SafeIsJudged, SP!Safe
<1> QED
  BY <1>1, <1>2

\* The types of the queue and of a page under way (internal/db/db.go
\* QueueStats).
THEOREM TypeCorrect ==
  ASSUME IsFiniteSet(PageTracks) PROVE SP!Spec => []SP!TypeOK
<1>1. SP!Init => SP!TypeOK
  BY InitPage
<1> QED
  BY <1>1, StepType, PTL DEF SP!Spec

\* Whatever runners, judge, worker and operators do between its queries, a page
\* that says "safe to walk away" was asked for when every track with a row had
\* failed or is searchable by now, those sent back since excepted
\* (GetServiceStatus's order of queries, computePipelineLifecycle's FullyDone).
THEOREM SafeMeansSearchable ==
  ASSUME IsFiniteSet(PageTracks) PROVE SP!Spec => []SP!SafeIsSearchable
<1>1. SP!TypeOK /\ PageInv /\ [SP!Next]_(SP!vars) => (SP!TypeOK /\ PageInv)'
  BY StepType, StepPage
<1>2. PageInv => SP!SafeIsSearchable
  BY DEF PageInv
<1> QED
  BY <1>1, <1>2, InitPage, PTL DEF SP!Spec

\* And, with the judge in the pipeline and no newcomer, when every transcribed
\* track has its verdict (the coverage of computePipelineLifecycle).
THEOREM SafeMeansJudged ==
  ASSUME IsFiniteSet(PageTracks) PROVE SP!Spec => []SP!SafeIsJudged
<1>1. SP!TypeOK /\ PageInv /\ [SP!Next]_(SP!vars) => (SP!TypeOK /\ PageInv)'
  BY StepType, StepPage
<1>2. PageInv => SP!SafeIsJudged
  BY DEF PageInv
<1> QED
  BY <1>1, <1>2, InitPage, PTL DEF SP!Spec

-----------------------------------------------------------------------------
(* The audit feed.                                                         *)

Entries == [id : 1 .. MaxRows, tag : EntryTags, at : {"open", "committed", "aborted"}]
Walks ==
  [at : {"new", "asks", "reads", "refused", "end"}, desc : BOOLEAN, tags : SUBSET EntryTags,
   cursor : Nat, got : SUBSET (1 .. MaxRows), twice : BOOLEAN, owed : SUBSET (1 .. MaxRows)]

\* An id is taken from the sequence once.
FeedType ==
  /\ afRows \subseteq Entries /\ IsFiniteSet(afRows)
  /\ \A x \in afRows : x.id <= Cardinality(afRows)
  /\ \A x, y \in afRows : x.id = y.id => x = y
  /\ afReader \in [Readers -> Walks]

\* id lies past the cursor: a page may still return it.
Past(w, id) == IF w.desc THEN id < w.cursor ELSE id > w.cursor

\* What a walk returned lies on this side of its cursor; what it owes it has
\* returned, or finds past its cursor, where nothing that is committed leaves.
WalkInv(w) ==
  /\ ~w.twice /\ \A g \in w.got : ~Past(w, g)
  /\ \A o \in w.owed : /\ o \in w.got \/ Past(w, o)
                       /\ \E x \in AF!Committed : x.id = o /\ x.tag \in w.tags
  /\ w.at = "end" => w.owed \subseteq w.got

FeedInv == \A r \in Readers : WalkInv(afReader[r])

FeedConstants == MaxRows \in Nat /\ PageLimit \in Nat

\* The instance counts as this module does.
LEMMA FeedCount ==
  ASSUME NEW S PROVE AF!Cardinality(S) = Cardinality(S)
  BY DEF AF!Cardinality, Cardinality

\* A set of numbers has a least one, a bounded one its largest.
LEMMA Least ==
  ASSUME NEW S \in SUBSET Nat, S # {}
  PROVE  \E n \in S : \A m \in S : n <= m
<1> DEFINE R == {ss \in Nat \X Nat : ss[1] < ss[2]}
<1>1. IsWellFoundedOn(R, Nat)
  BY NatLessThanWellFounded DEF OpToRel
<1>2. \A m, n \in Nat : m < n => <<m, n>> \in R
  OBVIOUS
<1> HIDE DEF R
<1>3. PICK n \in S : \A m \in S : ~(<<m, n>> \in R)
  BY <1>1, WFMin
<1>4. \A m \in S : m \in Nat /\ n \in Nat /\ ~(m < n)
  BY <1>2, <1>3
<1> QED
  BY <1>4

LEMMA Ends ==
  ASSUME NEW top \in Nat, NEW S \in SUBSET (1 .. top), S # {}
  PROVE  /\ AF!Min(S) \in S /\ \A m \in S : AF!Min(S) <= m
         /\ AF!Max(S) \in S /\ \A m \in S : m <= AF!Max(S)
<1>1. \E n \in S : \A m \in S : n <= m
  BY Least
<1>2. \E n \in S : \A m \in S : n >= m
  <2> DEFINE T == {top - m : m \in S}
  <2>1. T \in SUBSET Nat /\ T # {}
    <3>1. \A m \in S : m \in Nat /\ m <= top
      OBVIOUS
    <3>2. \A m \in S : top - m \in Nat
      BY <3>1
    <3> QED
      BY <3>2
  <2>2. PICK n \in T : \A m \in T : n <= m
    <3> HIDE DEF T
    <3> QED
      BY <2>1, Least
  <2>3. PICK k \in S : n = top - k
    OBVIOUS
  <2>4. \A m \in S : top - k <= top - m
    BY <2>2, <2>3
  <2>5. \A m \in S : k >= m
    BY <2>4
  <2> QED
    BY <2>5
<1> QED
  BY <1>1, <1>2 DEF AF!Min, AF!Max

\* A page of the first rows: what it leaves out comes after all of it, and it
\* leaves nothing out unless it is full.
LEMMA FirstRows ==
  ASSUME NEW past, IsFiniteSet(past), NEW limit \in Nat, NEW key \in [past -> Nat],
         \A x, y \in past : key[x] = key[y] => x = y,
         NEW page, page = {x \in past : Cardinality({y \in past : key[y] < key[x]}) < limit}
  PROVE  /\ \A x \in page, y \in past \ page : key[x] < key[y]
         /\ past \subseteq page \/ Cardinality(page) >= limit
<1> DEFINE Ahead(x) == {y \in past : key[y] < key[x]}
<1>0. \A x \in past : Ahead(x) \in SUBSET past /\ IsFiniteSet(Ahead(x)) /\ Cardinality(Ahead(x)) \in Nat
  <2> TAKE x \in past
  <2>1. Ahead(x) \in SUBSET past
    OBVIOUS
  <2> HIDE DEF Ahead
  <2> QED
    BY <2>1, FS_Subset, FS_CardinalityType
<1>1. \A x \in page, y \in past \ page : key[x] < key[y]
  <2> SUFFICES ASSUME NEW x \in page, NEW y \in past \ page, ~(key[x] < key[y]) PROVE FALSE
    OBVIOUS
  <2>1. Ahead(y) \in SUBSET Ahead(x)
    OBVIOUS
  <2>2. Cardinality(Ahead(y)) <= Cardinality(Ahead(x))
    <3> HIDE DEF Ahead
    <3> QED
      BY <1>0, <2>1, FS_Subset
  <2>3. Cardinality(Ahead(x)) < limit /\ ~(Cardinality(Ahead(y)) < limit)
    OBVIOUS
  <2> HIDE DEF Ahead
  <2> QED
    BY <1>0, <2>2, <2>3
<1>2. ASSUME ~(past \subseteq page) PROVE Cardinality(page) >= limit
  <2> DEFINE K == {key[x] : x \in past \ page}
  <2>1. K \in SUBSET Nat /\ K # {}
    <3>1. PICK x \in past : x \notin page
      BY <1>2
    <3>2. key[x] \in K
      BY <3>1
    <3>3. \A z \in past : key[z] \in Nat
      OBVIOUS
    <3> QED
      BY <3>2, <3>3
  <2>2. PICK n \in K : \A m \in K : n <= m
    <3> HIDE DEF K
    <3> QED
      BY <2>1, Least
  <2>3. PICK y \in past \ page : n = key[y]
    OBVIOUS
  <2>4. Ahead(y) \in SUBSET page
    <3> SUFFICES ASSUME NEW x \in Ahead(y), x \notin page PROVE FALSE
      OBVIOUS
    <3>1. x \in past \ page /\ key[x] < key[y]
      OBVIOUS
    <3>2. n <= key[x]
      <4>1. key[x] \in K
        BY <3>1
      <4> HIDE DEF K
      <4> QED
        BY <2>2, <4>1
    <3>3. key[x] \in Nat /\ key[y] \in Nat
      BY <3>1
    <3> QED
      BY <2>3, <3>1, <3>2, <3>3
  <2>5. page \in SUBSET past /\ ~(Cardinality(Ahead(y)) < limit)
    OBVIOUS
  <2>6. IsFiniteSet(page) /\ Cardinality(page) \in Nat
    BY <2>5, FS_Subset, FS_CardinalityType
  <2> HIDE DEF Ahead
  <2>7. Cardinality(Ahead(y)) <= Cardinality(page)
    BY <2>4, <2>6, FS_Subset
  <2> QED
    BY <1>0, <2>5, <2>6, <2>7
<1> QED
  BY <1>1, <1>2

\* The page of a walk: matching rows past its cursor; of these, what it leaves
\* out comes later, and then the page is full.
LEMMA PageOfWalk ==
  ASSUME FeedConstants, FeedType, NEW r \in Readers, NEW page,
         page = {x.id : x \in AF!Page(r) \cap AF!Matching(r)}
  PROVE  /\ page \subseteq 1 .. MaxRows
         /\ \A p \in page : Past(afReader[r], p)
         /\ \A x \in AF!Matching(r) : Past(afReader[r], x.id) /\ x.id \notin page =>
              /\ \A p \in page : IF afReader[r].desc THEN x.id < p ELSE p < x.id
              /\ AF!Cardinality(page) >= PageLimit
<1> DEFINE w == afReader[r]
           past == {x \in AF!Matching(r) : Past(w, x.id)}
           key == [x \in past |-> IF w.desc THEN MaxRows - x.id ELSE x.id]
           first == {x \in past : Cardinality({y \in past : key[y] < key[x]}) < PageLimit}
<1>1. w \in Walks /\ w.cursor \in Nat /\ MaxRows \in Nat /\ PageLimit \in Nat
  BY DEF FeedType, FeedConstants, Walks
<1>2. past \subseteq afRows /\ past \subseteq AF!Matching(r)
  BY DEF AF!Matching, AF!Committed
<1>3. \A x \in past : x.id \in 1 .. MaxRows /\ x.id \in Nat /\ x.id <= MaxRows
  <2>1. \A x \in afRows : x.id \in 1 .. MaxRows
    BY DEF FeedType, Entries
  <2> QED
    BY <1>1, <1>2, <2>1
<1>4. IsFiniteSet(past)
  BY <1>2, FS_Subset DEF FeedType
<1>5. key \in [past -> Nat]
  <2>1. \A x \in past : (IF w.desc THEN MaxRows - x.id ELSE x.id) \in Nat
    BY <1>1, <1>3
  <2> QED
    BY <2>1
<1>6. \A x, y \in past : (key[x] < key[y]) <=> IF w.desc THEN y.id < x.id ELSE x.id < y.id
  BY <1>1, <1>3
<1>7. \A x, y \in past : key[x] = key[y] => x = y
  <2>1. \A x, y \in past : key[x] = key[y] => x.id = y.id
    BY <1>1, <1>3
  <2> QED
    BY <1>2, <2>1 DEF FeedType
<1>8. AF!Page(r) = first
  <2>1. past = {x \in AF!Candidates(r) : IF w.desc THEN x.id < w.cursor ELSE x.id > w.cursor}
    BY DEF AF!Candidates, Past
  <2>2. \A x \in past : {y \in past : IF w.desc THEN y.id > x.id ELSE y.id < x.id} = {y \in past : key[y] < key[x]}
    <3> TAKE x \in past
    <3>1. \A y \in past : (IF w.desc THEN y.id > x.id ELSE y.id < x.id) <=> key[y] < key[x]
      <4> TAKE y \in past
      <4>1. (key[y] < key[x]) <=> IF w.desc THEN x.id < y.id ELSE y.id < x.id
        BY <1>6
      <4> HIDE DEF key
      <4> QED
        BY <1>3, <4>1
    <3> HIDE DEF key, past
    <3> QED
      BY <3>1
  <2> HIDE DEF past, key
  <2>3. AF!Page(r) = {x \in past : AF!Cardinality({y \in past : IF w.desc THEN y.id > x.id ELSE y.id < x.id}) < PageLimit}
    BY <2>1 DEF AF!Page
  <2> QED
    BY <2>2, <2>3, FeedCount
<1>9. page = {x.id : x \in first}
  <2>1. AF!Page(r) \cap AF!Matching(r) = first
    BY <1>2, <1>8
  <2> HIDE DEF first
  <2> QED
    BY <2>1
<1>10. first \subseteq past
  OBVIOUS
<1>11. /\ \A x \in first, y \in past \ first : key[x] < key[y]
       /\ past \subseteq first \/ Cardinality(first) >= PageLimit
  <2>1. PageLimit \in Nat
    BY <1>1
  <2>2. \A P, k : /\ IsFiniteSet(P) /\ k \in [P -> Nat]
                  /\ \A x, y \in P : k[x] = k[y] => x = y
          => \A Q : Q = {x \in P : Cardinality({y \in P : k[y] < k[x]}) < PageLimit} =>
               /\ \A x \in Q, y \in P \ Q : k[x] < k[y]
               /\ P \subseteq Q \/ Cardinality(Q) >= PageLimit
    BY <2>1, FirstRows
  <2>3. IsFiniteSet(past) /\ key \in [past -> Nat] /\ \A x, y \in past : key[x] = key[y] => x = y
    <3> HIDE DEF past, key
    <3> QED
      BY <1>4, <1>5, <1>7
  <2> HIDE DEF past, key
  <2> QED
    BY <2>2, <2>3
<1> HIDE DEF first, key
<1>12. page \subseteq 1 .. MaxRows /\ \A p \in page : Past(w, p)
  <2>1. \A x \in first : x.id \in 1 .. MaxRows /\ Past(w, x.id)
    BY <1>3, <1>10
  <2> QED
    BY <1>9, <2>1
<1>15. IsFiniteSet(page)
  <2>1. IsFiniteSet(1 .. MaxRows)
    BY <1>1, FS_Interval
  <2>2. page \in SUBSET (1 .. MaxRows)
    BY <1>12
  <2> QED
    BY <2>1, <2>2, FS_Subset
<1>13. AF!Cardinality(page) >= Cardinality(first)
  <2>1. IsFiniteSet(page)
    BY <1>15
  <2> DEFINE f == [x \in first |-> x.id]
  <2>2. f \in Injection(first, page)
    <3>1. f \in [first -> page]
      <4>1. \A x \in first : x.id \in page
        BY <1>9
      <4> QED
        BY <4>1
    <3>2. \A x, y \in first : f[x] = f[y] => x = y
      <4>1. \A x, y \in first : f[x] = x.id /\ f[y] = y.id /\ x \in afRows /\ y \in afRows
        BY <1>2, <1>10
      <4> HIDE DEF f
      <4> QED
        BY <4>1 DEF FeedType
    <3> HIDE DEF f
    <3> QED
      BY <3>1, <3>2 DEF Injection, IsInjective
  <2> HIDE DEF f
  <2>3. Cardinality(first) <= Cardinality(page)
    BY <2>1, <2>2, FS_Injection
  <2>4. Cardinality(page) \in Nat /\ IsFiniteSet(first) /\ Cardinality(first) \in Nat
    BY <2>1, <1>4, <1>10, FS_Subset, FS_CardinalityType
  <2> QED
    BY <2>3, <2>4, FeedCount
<1>14. ASSUME NEW x \in AF!Matching(r), Past(w, x.id), x.id \notin page
       PROVE  /\ \A p \in page : IF w.desc THEN x.id < p ELSE p < x.id
              /\ AF!Cardinality(page) >= PageLimit
  <2>1. x \in past \ first
    BY <1>9, <1>14
  <2>2. \A p \in page : IF w.desc THEN x.id < p ELSE p < x.id
    <3> TAKE p \in page
    <3>1. PICK y \in first : p = y.id
      BY <1>9
    <3>2. key[y] < key[x]
      BY <1>11, <2>1
    <3> QED
      BY <1>6, <1>10, <2>1, <3>1, <3>2
  <2>3. Cardinality(first) >= PageLimit
    BY <1>11, <2>1
  <2>4. Cardinality(first) \in Nat /\ AF!Cardinality(page) \in Nat
    <3>1. IsFiniteSet(first) /\ IsFiniteSet(page)
      BY <1>4, <1>10, <1>15, FS_Subset
    <3> QED
      BY <3>1, FS_CardinalityType, FeedCount
  <2> QED
    BY <1>1, <1>13, <2>2, <2>3, <2>4
<1> QED
  BY <1>12, <1>14

\* What a row may become: it is added with the next id, or its transaction ends.
LEMMA RowsTyped ==
  ASSUME FeedConstants, FeedType,
         \/ \E tag \in EntryTags : AF!Insert(tag)
         \/ \E x \in afRows, how \in {"committed", "aborted"} : AF!End(x, how)
  PROVE  FeedType' /\ AF!Committed \subseteq AF!Committed' /\ afReader' = afReader
<1>0. Cardinality(afRows) \in Nat /\ MaxRows \in Nat
  BY FS_CardinalityType DEF FeedType, FeedConstants
<1>1. ASSUME NEW tag \in EntryTags, AF!Insert(tag) PROVE FeedType' /\ AF!Committed \subseteq AF!Committed'
  <2>1. PICK n \in Nat : n = Cardinality(afRows)
    BY <1>0
  <2>2. n < MaxRows /\ n + 1 \in 1 .. MaxRows
    <3>1. n < MaxRows
      BY <1>1, <2>1, FeedCount DEF AF!Insert
    <3> QED
      BY <1>0, <3>1
  <2>3. PICK new : /\ new = [id |-> n + 1, tag |-> tag, at |-> "open"]
                   /\ afRows' = afRows \cup {new} /\ afReader' = afReader
    BY <1>1, <2>1, FeedCount DEF AF!Insert
  <2>4. new \in Entries /\ new.id = n + 1
    BY <2>2, <2>3 DEF Entries
  <2>5. \A x \in afRows : x.id \in 1 .. MaxRows /\ x.id <= n
    BY <2>1 DEF FeedType, Entries
  <2>6. \A x \in afRows : x.id \in Nat /\ x.id <= n
    BY <1>0, <2>5
  <2>7. \A x \in afRows : x.id # new.id
    BY <2>1, <2>4, <2>6
  <2>8. IsFiniteSet(afRows') /\ Cardinality(afRows') = n + 1
    <3>1. new \notin afRows
      BY <2>7
    <3> QED
      BY <2>1, <2>3, <3>1, FS_AddElement DEF FeedType
  <2>9. \A x \in afRows' : x.id <= n + 1
    <3>1. \A x \in afRows : x.id <= n + 1
      BY <2>1, <2>6
    <3>2. new.id <= n + 1
      BY <2>1, <2>4
    <3> QED
      BY <2>3, <3>1, <3>2
  <2>10. \A x, y \in afRows' : x.id = y.id => x = y
    BY <2>3, <2>7 DEF FeedType
  <2>11. AF!Committed \subseteq AF!Committed'
    BY <2>3 DEF AF!Committed
  <2>12. afRows' \subseteq Entries /\ afReader' \in [Readers -> Walks]
    BY <2>3, <2>4 DEF FeedType
  <2> QED
    BY <2>8, <2>9, <2>10, <2>11, <2>12 DEF FeedType
<1>2. ASSUME NEW x \in afRows, NEW how \in {"committed", "aborted"}, AF!End(x, how)
      PROVE  FeedType' /\ AF!Committed \subseteq AF!Committed'
  <2> DEFINE y == [x EXCEPT !.at = how]
  <2>1. x.at = "open" /\ afRows' = (afRows \ {x}) \cup {y} /\ afReader' = afReader
    BY <1>2 DEF AF!End
  <2>2. x \in Entries
    BY DEF FeedType
  <2>3. y \in Entries /\ y.id = x.id /\ y.at = how
    BY <2>2 DEF Entries
  <2> HIDE DEF y
  <2>4. y \notin afRows
    BY <2>1, <2>3 DEF FeedType
  <2>5. IsFiniteSet(afRows') /\ Cardinality(afRows') = Cardinality(afRows)
    <3>1. IsFiniteSet(afRows \ {x}) /\ Cardinality(afRows \ {x}) = Cardinality(afRows) - 1
      BY FS_RemoveElement DEF FeedType
    <3>2. IsFiniteSet(afRows') /\ Cardinality(afRows') = Cardinality(afRows \ {x}) + 1
      BY <2>1, <2>4, <3>1, FS_AddElement
    <3>3. PICK n \in Nat : n = Cardinality(afRows)
      BY <1>0
    <3> QED
      BY <3>1, <3>2, <3>3
  <2>6. \A z \in afRows' : z.id <= Cardinality(afRows')
    BY <2>1, <2>3, <2>5 DEF FeedType
  <2>7. \A z, t \in afRows' : z.id = t.id => z = t
    BY <2>1, <2>3 DEF FeedType
  <2>8. AF!Committed \subseteq AF!Committed'
    BY <2>1 DEF AF!Committed
  <2> QED
    BY <2>1, <2>3, <2>5, <2>6, <2>7, <2>8 DEF FeedType
<1> QED
  BY <1>1, <1>2 DEF AF!Insert, AF!End

\* What a walk may become: it begins, or moves on from where it is.
LEMMA WalkSteps ==
  ASSUME FeedConstants, FeedType, FeedInv, NEW r \in Readers,
         \/ \E desc \in BOOLEAN, tags \in {{t} : t \in EntryTags} \cup {EntryTags} : AF!Begin(r, desc, tags)
         \/ AF!Enter(r) \/ AF!Refused(r) \/ AF!Read(r) \/ AF!Failed(r) \/ AF!Tail(r)
  PROVE  /\ afRows' = afRows
         /\ \E w \in Walks : afReader' = [afReader EXCEPT ![r] = w] /\ WalkInv(w)
<1> DEFINE v == afReader[r]
<1>0. v \in Walks /\ WalkInv(v) /\ MaxRows \in Nat /\ PageLimit \in Nat
  BY DEF FeedType, FeedInv, FeedConstants
<1>1. ASSUME NEW desc \in BOOLEAN, NEW tags \in {{t} : t \in EntryTags} \cup {EntryTags}, AF!Begin(r, desc, tags)
      PROVE  \E w \in Walks : afReader' = [afReader EXCEPT ![r] = w] /\ WalkInv(w)
  <2> DEFINE owed == {x.id : x \in {y \in AF!Committed : y.tag \in tags}}
             w == [AF!None EXCEPT !.at = "asks", !.desc = desc, !.tags = tags,
                     !.cursor = AF!First(desc), !.owed = owed]
  <2>1. afReader' = [afReader EXCEPT ![r] = w]
    BY <1>1 DEF AF!Begin
  <2>2. owed \subseteq 1 .. MaxRows /\ tags \in SUBSET EntryTags
    BY DEF FeedType, Entries, AF!Committed
  <2>4. \A o \in owed : \E x \in AF!Committed : x.id = o /\ x.tag \in tags
    OBVIOUS
  <2> HIDE DEF owed
  <2>3. \A o \in owed : IF desc THEN o < AF!First(desc) ELSE o > AF!First(desc)
    <3>1. ASSUME NEW n \in Nat, NEW o \in 1 .. n PROVE o < n + 1 /\ o > 0
      OBVIOUS
    <3>2. AF!First(desc) = IF desc THEN MaxRows + 1 ELSE 0
      BY DEF AF!First
    <3>3. \A o \in owed : o < MaxRows + 1 /\ o > 0
      BY <1>0, <2>2, <3>1
    <3> HIDE DEF w, v
    <3> QED
      BY <3>2, <3>3
  <2>5. AF!None \in Walks /\ AF!None.got = {} /\ AF!None.twice = FALSE
    BY DEF AF!None, Walks
  <2>6. /\ w \in Walks /\ w.at = "asks" /\ w.desc = desc /\ w.tags = tags /\ w.cursor = AF!First(desc)
        /\ w.got = {} /\ w.twice = FALSE /\ w.owed = owed
    <3>1. AF!First(desc) \in Nat
      BY <1>0 DEF AF!First
    <3> QED
      BY <2>2, <2>5, <3>1 DEF Walks
  <2>7. WalkInv(w)
    BY <2>3, <2>4, <2>6 DEF WalkInv, Past
  <2> HIDE DEF w
  <2> QED
    BY <2>1, <2>6, <2>7
<1>2. ASSUME NEW place \in {"asks", "reads", "refused"}, afReader' = [afReader EXCEPT ![r].at = place]
      PROVE  \E w \in Walks : afReader' = [afReader EXCEPT ![r] = w] /\ WalkInv(w)
  <2> DEFINE w == [v EXCEPT !.at = place]
  <2>1. afReader' = [afReader EXCEPT ![r] = w]
    BY <1>2
  <2>2. w \in Walks
    BY <1>0 DEF Walks
  <2>3. /\ w.at = place /\ w.desc = v.desc /\ w.tags = v.tags /\ w.cursor = v.cursor /\ w.got = v.got
        /\ w.twice = v.twice /\ w.owed = v.owed
    BY <1>0 DEF Walks
  <2> HIDE DEF w
  <2>4. WalkInv(w)
    BY <1>0, <2>3 DEF WalkInv, Past
  <2> QED
    BY <2>1, <2>2, <2>4
<1>3. ASSUME AF!Read(r) PROVE \E w \in Walks : afReader' = [afReader EXCEPT ![r] = w] /\ WalkInv(w)
  <2> DEFINE page == {x.id : x \in AF!Page(r) \cap AF!Matching(r)}
             place == IF AF!Cardinality(page) < PageLimit THEN "end" ELSE "asks"
             cursor == IF page = {} THEN v.cursor ELSE IF v.desc THEN AF!Min(page) ELSE AF!Max(page)
             twice == v.twice \/ v.got \cap page # {}
             w == [v EXCEPT !.at = place, !.cursor = cursor, !.got = v.got \cup page, !.twice = twice]
  <2>1. afReader' = [afReader EXCEPT ![r] = w]
    BY <1>3 DEF AF!Read
  <2>2. /\ page \subseteq 1 .. MaxRows
        /\ \A p \in page : Past(v, p)
        /\ \A x \in AF!Matching(r) : Past(v, x.id) /\ x.id \notin page =>
             /\ \A p \in page : IF v.desc THEN x.id < p ELSE p < x.id
             /\ AF!Cardinality(page) >= PageLimit
    <3> HIDE DEF page
    <3> QED
      BY PageOfWalk DEF page
  <2>3. AF!Cardinality(page) \in Nat
    <3>1. IsFiniteSet(1 .. MaxRows) /\ page \in SUBSET (1 .. MaxRows)
      <4>1. MaxRows \in Int
        BY <1>0
      <4> HIDE DEF page
      <4> QED
        BY <2>2, <4>1, FS_Interval
    <3> HIDE DEF page
    <3> QED
      BY <3>1, FS_Subset, FS_CardinalityType, FeedCount
  <2>4. AF!Matching(r) = {x \in AF!Committed : x.tag \in v.tags}
    BY DEF AF!Matching
  <2> HIDE DEF page
  <2>5. page # {} =>
          /\ AF!Min(page) \in page /\ \A m \in page : AF!Min(page) <= m
          /\ AF!Max(page) \in page /\ \A m \in page : m <= AF!Max(page)
    BY <1>0, <2>2, Ends
  <2>6. \A p \in page : p \in Nat
    BY <1>0, <2>2
  <2>7. v.cursor \in Nat /\ v.desc \in BOOLEAN /\ v.got \subseteq 1 .. MaxRows /\ v.owed \subseteq 1 .. MaxRows
    BY <1>0 DEF Walks
  <2>8. cursor \in Nat
    BY <2>5, <2>6, <2>7
  <2>9. v.got \cap page = {} /\ ~twice
    BY <1>0, <2>2 DEF WalkInv
  \* The cursor moves on to the last row of the page.
  <2>10. \A p \in page : IF v.desc THEN cursor <= p ELSE p <= cursor
    BY <2>5, <2>6
  <2>11. IF v.desc THEN cursor <= v.cursor ELSE v.cursor <= cursor
    BY <2>2, <2>5, <2>6, <2>7 DEF Past
  <2>12. page # {} => cursor \in page
    BY <2>5
  <2>13. w.at = place /\ w.desc = v.desc /\ w.tags = v.tags /\ w.cursor = cursor /\ w.got = v.got \cup page
         /\ w.twice = twice /\ w.owed = v.owed
    BY <1>0 DEF Walks
  <2>14. w \in Walks
    <3>1. place \in {"end", "asks"} /\ twice \in BOOLEAN /\ v.got \cup page \in SUBSET (1 .. MaxRows)
      BY <1>0, <2>2, <2>7, <2>9
    <3> HIDE DEF place, twice, cursor
    <3> QED
      BY <1>0, <2>8, <3>1 DEF Walks
  <2> HIDE DEF w, cursor
  <2>15. \A g \in w.got : ~Past(w, g)
    <3> SUFFICES ASSUME NEW g \in w.got PROVE ~Past(w, g)
      OBVIOUS
    <3>1. g \in Nat
      BY <1>0, <2>6, <2>7, <2>13
    <3>2. CASE g \in page
      BY <2>8, <2>10, <2>13, <3>1, <3>2 DEF Past
    <3>3. CASE g \in v.got
      <4>1. ~Past(v, g)
        BY <1>0, <3>3 DEF WalkInv
      <4> QED
        BY <2>7, <2>8, <2>11, <2>13, <3>1, <4>1 DEF Past
    <3> QED
      BY <2>13, <3>2, <3>3
  <2>16. \A o \in w.owed : \E x \in AF!Committed : x.id = o /\ x.tag \in w.tags
    BY <1>0, <2>13 DEF WalkInv
  <2>17. ASSUME NEW o \in v.owed, o \notin w.got PROVE Past(w, o) /\ place # "end"
    <3>1. Past(v, o) /\ o \notin page /\ o \in Nat
      BY <1>0, <2>7, <2>13, <2>17 DEF WalkInv
    <3>2. PICK x \in AF!Committed : x.id = o /\ x.tag \in v.tags
      BY <1>0, <2>13, <2>16
    <3>3. /\ \A p \in page : IF v.desc THEN o < p ELSE p < o
          /\ AF!Cardinality(page) >= PageLimit
      BY <2>2, <2>4, <3>1, <3>2
    <3>4. IF v.desc THEN o < cursor ELSE o > cursor
      <4>1. CASE page = {}
        BY <3>1, <4>1 DEF Past, cursor
      <4>2. CASE page # {}
        BY <2>6, <2>12, <3>1, <3>3, <4>2
      <4> QED
        BY <4>1, <4>2
    <3> QED
      BY <1>0, <2>3, <2>13, <3>3, <3>4 DEF Past
  <2>18. WalkInv(w)
    BY <2>9, <2>13, <2>15, <2>16, <2>17 DEF WalkInv
  <2> QED
    BY <2>1, <2>14, <2>18
<1>4. afRows' = afRows
  BY DEF AF!Begin, AF!Enter, AF!Refused, AF!Read, AF!Failed, AF!Tail
<1>5. CASE AF!Enter(r) \/ AF!Refused(r) \/ AF!Failed(r) \/ AF!Tail(r)
  <2>1. \E place \in {"asks", "reads", "refused"} : afReader' = [afReader EXCEPT ![r].at = place]
    BY <1>5 DEF AF!Enter, AF!Refused, AF!Failed, AF!Tail
  <2>2. PICK place \in {"asks", "reads", "refused"} : afReader' = [afReader EXCEPT ![r].at = place]
    BY <2>1
  <2>3. \E w \in Walks : afReader' = [afReader EXCEPT ![r] = w] /\ WalkInv(w)
    BY <1>2, <2>2
  <2> QED
    BY <1>4, <2>3
<1> QED
  BY <1>1, <1>3, <1>4, <1>5

LEMMA FeedKept ==
  ASSUME FeedConstants
  PROVE  /\ AF!Init => FeedType /\ FeedInv
         /\ FeedType /\ FeedInv /\ [AF!Next]_(AF!vars) => (FeedType /\ FeedInv)'
<1>1. ASSUME AF!Init PROVE FeedType /\ FeedInv
  <2>1. afRows = {} /\ IsFiniteSet(afRows)
    BY <1>1, FS_EmptySet DEF AF!Init
  <2>2. AF!None \in Walks /\ WalkInv(AF!None)
    BY DEF AF!None, Walks, WalkInv, Past
  <2>3. afReader = [r \in Readers |-> AF!None]
    BY <1>1 DEF AF!Init
  <2> QED
    BY <2>1, <2>2, <2>3 DEF FeedType, FeedInv
<1>2. ASSUME FeedType, FeedInv, AF!Committed \subseteq AF!Committed', afReader' = afReader PROVE FeedInv'
  BY <1>2 DEF FeedInv, WalkInv
<1>3. ASSUME FeedType, FeedInv, UNCHANGED AF!vars PROVE (FeedType /\ FeedInv)'
  <2>1. afRows' = afRows /\ afReader' = afReader
    BY <1>3 DEF AF!vars
  <2>2. FeedType' /\ AF!Committed' = AF!Committed
    BY <1>3, <2>1 DEF FeedType, AF!Committed
  <2> QED
    BY <1>2, <1>3, <2>1, <2>2
<1>4. ASSUME FeedType, FeedInv,
             \/ \E tag \in EntryTags : AF!Insert(tag)
             \/ \E x \in afRows, how \in {"committed", "aborted"} : AF!End(x, how)
      PROVE  (FeedType /\ FeedInv)'
  BY <1>2, <1>4, RowsTyped
<1>5. ASSUME FeedType, FeedInv, NEW r \in Readers,
             \/ \E desc \in BOOLEAN, tags \in {{t} : t \in EntryTags} \cup {EntryTags} : AF!Begin(r, desc, tags)
             \/ AF!Enter(r) \/ AF!Refused(r) \/ AF!Read(r) \/ AF!Failed(r) \/ AF!Tail(r)
      PROVE  (FeedType /\ FeedInv)'
  <2>1. afRows' = afRows
    BY <1>5, WalkSteps
  <2>2. PICK w \in Walks : afReader' = [afReader EXCEPT ![r] = w] /\ WalkInv(w)
    BY <1>5, WalkSteps
  <2>3. FeedType'
    BY <1>5, <2>1, <2>2 DEF FeedType
  <2>4. \A q \in Readers : afReader'[q] = (IF q = r THEN w ELSE afReader[q]) /\ WalkInv(afReader'[q])
    BY <1>5, <2>2 DEF FeedType, FeedInv
  <2>5. \A u : WalkInv(u) <=> WalkInv(u)'
    BY <2>1 DEF WalkInv, AF!Committed
  <2> QED
    BY <2>1, <2>3, <2>4 DEF FeedInv, WalkInv, AF!Committed
<1> QED
  BY <1>1, <1>3, <1>4, <1>5 DEF AF!Next

\* A walk to its end, newest or oldest first, returns every matching row that
\* was committed when it began, and no row twice, whatever commits out of the
\* order of the ids, fails or is refused meanwhile (internal/db/audit.go).
THEOREM WalksAreComplete ==
  ASSUME FeedConstants PROVE AF!Spec => []AF!WalkIsComplete
<1>1. FeedInv => AF!WalkIsComplete
  BY DEF FeedInv, WalkInv, AF!WalkIsComplete
<1> QED
  BY <1>1, FeedKept, PTL DEF AF!Spec

-----------------------------------------------------------------------------
(* The chunk quality scan.                                                 *)

\* A library's chunks are numbered, a page holds one at least, and the flags of
\* a run are what the command's validation lets through.
ScanConstants ==
  /\ Transcript \in Seq(Int) /\ ScanPage \in Nat \ {0}
  /\ Widths \subseteq Nat /\ \A p \in SN!Positions : Neighbours[p] \in Nat
  /\ \A scene \in ScanScenes :
       /\ scene.text \in [SN!Positions -> Texts \cup {SN!Gone}]
       /\ \A r \in DOMAIN scene.plan :
            /\ scene.plan[r].yes \in BOOLEAN /\ scene.plan[r].width \in Widths
            /\ scene.plan[r].sample \in Nat /\ scene.plan[r].limit \in Nat

Candidates == [p : SN!Positions, text : Texts]
ScanSteps == {"select", "ask", "tally", "insert", "done", "reached", "stopped", "failed"}

\* A run under the flags of f.
ScanRec(pc, f, after, limit, page, outs, next, fresh, visited) ==
  [pc |-> pc, yes |-> f.yes, sample |-> f.sample, limit |-> limit, width |-> f.width,
   after |-> after, page |-> page, outs |-> outs, next |-> next, seen |-> fresh, visited |-> visited]

\* What becomes of a run's record when some of its fields change.
Stays(v, pc) == [v EXCEPT !.pc = pc]
Told(v, x) == [v EXCEPT !.outs = x]
Checked(v, pc, x) == [v EXCEPT !.pc = pc, !.seen = x]
Counts(v, pc, x, y) == [v EXCEPT !.pc = pc, !.next = x, !.visited = y]
Resumed(v, pc, x, y) == [v EXCEPT !.pc = pc, !.after = x, !.limit = y]
Filled(v, pc, x, y, z) == [v EXCEPT !.pc = pc, !.page = x, !.outs = y, !.next = z]

LEMMA RecordsAfter ==
  ASSUME NEW v, v = ScanRec(v.pc, v, v.after, v.limit, v.page, v.outs, v.next, v.seen, v.visited)
  PROVE  /\ \A pc : Stays(v, pc) = ScanRec(pc, v, v.after, v.limit, v.page, v.outs, v.next, v.seen, v.visited)
         /\ \A x : Told(v, x) = ScanRec(v.pc, v, v.after, v.limit, v.page, x, v.next, v.seen, v.visited)
         /\ \A pc, x : Checked(v, pc, x) = ScanRec(pc, v, v.after, v.limit, v.page, v.outs, v.next, x, v.visited)
         /\ \A pc, x, y : Counts(v, pc, x, y) = ScanRec(pc, v, v.after, v.limit, v.page, v.outs, x, v.seen, y)
         /\ \A pc, x, y : Resumed(v, pc, x, y) = ScanRec(pc, v, x, y, v.page, v.outs, v.next, v.seen, v.visited)
         /\ \A pc, x, y, z : Filled(v, pc, x, y, z) = ScanRec(pc, v, v.after, v.limit, x, y, z, v.seen, v.visited)
<1> DEFINE was == v.pc yes == v.yes sample == v.sample limit == v.limit width == v.width after == v.after
           page == v.page outs == v.outs next == v.next fresh == v.seen visited == v.visited
           R(c, a, l, p, o, n, s, d) ==
             [pc |-> c, yes |-> yes, sample |-> sample, limit |-> l, width |-> width,
              after |-> a, page |-> p, outs |-> o, next |-> n, seen |-> s, visited |-> d]
<1>1. v = R(was, after, limit, page, outs, next, fresh, visited)
  BY DEF ScanRec
<1>2. \A c, a, l, p, o, n, s, d : ScanRec(c, v, a, l, p, o, n, s, d) = R(c, a, l, p, o, n, s, d)
  BY DEF ScanRec
<1> HIDE DEF was, yes, sample, limit, width, after, page, outs, next, fresh, visited
<1>3. ASSUME NEW pc
      PROVE  Stays(v, pc) = R(pc, after, limit, page, outs, next, fresh, visited)
  BY <1>1 DEF Stays
<1>4. ASSUME NEW x
      PROVE  Told(v, x) = R(was, after, limit, page, x, next, fresh, visited)
  BY <1>1 DEF Told
<1>5. ASSUME NEW pc, NEW x
      PROVE  /\ Checked(v, pc, x) = R(pc, after, limit, page, outs, next, x, visited)
             /\ [v EXCEPT !.pc = pc, !.next = x] = R(pc, after, limit, page, outs, x, fresh, visited)
             /\ [v EXCEPT !.pc = pc, !.after = x] = R(pc, x, limit, page, outs, next, fresh, visited)
             /\ [v EXCEPT !.pc = pc, !.page = x] = R(pc, after, limit, x, outs, next, fresh, visited)
  <2> DEFINE u == [v EXCEPT !.pc = pc]
  <2>1. u = R(pc, after, limit, page, outs, next, fresh, visited)
    BY <1>3 DEF Stays
  <2>2. /\ Checked(v, pc, x) = [u EXCEPT !.seen = x]
        /\ [v EXCEPT !.pc = pc, !.next = x] = [u EXCEPT !.next = x]
        /\ [v EXCEPT !.pc = pc, !.after = x] = [u EXCEPT !.after = x]
        /\ [v EXCEPT !.pc = pc, !.page = x] = [u EXCEPT !.page = x]
    BY DEF Checked
  <2> HIDE DEF u
  <2>3. /\ [u EXCEPT !.seen = x] = R(pc, after, limit, page, outs, next, x, visited)
        /\ [u EXCEPT !.next = x] = R(pc, after, limit, page, outs, x, fresh, visited)
        /\ [u EXCEPT !.after = x] = R(pc, x, limit, page, outs, next, fresh, visited)
        /\ [u EXCEPT !.page = x] = R(pc, after, limit, x, outs, next, fresh, visited)
    BY <2>1
  <2> HIDE DEF R
  <2> QED
    BY <2>2, <2>3
<1>6. ASSUME NEW pc, NEW x, NEW y
      PROVE  Counts(v, pc, x, y) = R(pc, after, limit, page, outs, x, fresh, y)
  <2> DEFINE w == [v EXCEPT !.pc = pc, !.next = x]
  <2>1. w = R(pc, after, limit, page, outs, x, fresh, visited)
    BY <1>5
  <2>2. Counts(v, pc, x, y) = [w EXCEPT !.visited = y]
    BY DEF Counts
  <2> HIDE DEF w
  <2> QED
    BY <2>1, <2>2
<1>7. ASSUME NEW pc, NEW x, NEW y
      PROVE  Resumed(v, pc, x, y) = R(pc, x, y, page, outs, next, fresh, visited)
  <2> DEFINE w == [v EXCEPT !.pc = pc, !.after = x]
  <2>1. w = R(pc, x, limit, page, outs, next, fresh, visited)
    BY <1>5
  <2>2. Resumed(v, pc, x, y) = [w EXCEPT !.limit = y]
    BY DEF Resumed
  <2> HIDE DEF w
  <2> QED
    BY <2>1, <2>2
<1>8. ASSUME NEW pc, NEW x, NEW y, NEW z
      PROVE  Filled(v, pc, x, y, z) = R(pc, after, limit, x, y, z, fresh, visited)
  <2> DEFINE w == [v EXCEPT !.pc = pc, !.page = x]
             q == [v EXCEPT !.pc = pc, !.page = x, !.outs = y]
  <2>1. w = R(pc, after, limit, x, outs, next, fresh, visited)
    BY <1>5
  <2>2. q = [w EXCEPT !.outs = y] /\ Filled(v, pc, x, y, z) = [q EXCEPT !.next = z]
    BY DEF Filled
  <2> HIDE DEF w, q
  <2>3. q = R(pc, after, limit, x, y, next, fresh, visited)
    BY <2>1, <2>2
  <2>4. [q EXCEPT !.next = z] = R(pc, after, limit, x, y, z, fresh, visited)
    BY <2>3
  <2> HIDE DEF R
  <2> QED
    BY <2>2, <2>4
<1> HIDE DEF R
<1>9. \A pc : Stays(v, pc) = ScanRec(pc, v, after, limit, page, outs, next, fresh, visited)
  BY <1>2, <1>3
<1>10. \A x : Told(v, x) = ScanRec(was, v, after, limit, page, x, next, fresh, visited)
  BY <1>2, <1>4
<1>11. \A pc, x : Checked(v, pc, x) = ScanRec(pc, v, after, limit, page, outs, next, x, visited)
  <2>1. \A pc, x : Checked(v, pc, x) = R(pc, after, limit, page, outs, next, x, visited)
    BY <1>5
  <2> QED
    BY <1>2, <2>1
<1>12. \A pc, x, y : Counts(v, pc, x, y) = ScanRec(pc, v, after, limit, page, outs, x, fresh, y)
  BY <1>2, <1>6
<1>13. \A pc, x, y : Resumed(v, pc, x, y) = ScanRec(pc, v, x, y, page, outs, next, fresh, visited)
  BY <1>2, <1>7
<1>14. \A pc, x, y, z : Filled(v, pc, x, y, z) = ScanRec(pc, v, after, limit, x, y, z, fresh, visited)
  BY <1>2, <1>8
<1> QED
  BY <1>9, <1>10, <1>11, <1>12, <1>13, <1>14 DEF was, limit, after, page, outs, next, fresh, visited

\* A run that has begun.
Active(v) ==
  /\ v = ScanRec(v.pc, v, v.after, v.limit, v.page, v.outs, v.next, v.seen, v.visited)
  /\ v.pc \in ScanSteps /\ v.yes \in BOOLEAN /\ v.sample \in Nat /\ v.limit \in Nat /\ v.width \in Widths
  /\ v.after \in Nat /\ v.page \in Seq(Candidates) /\ v.outs = [i \in 1 .. Len(v.page) |-> v.outs[i]]
  /\ v.next \in Nat \ {0} /\ v.seen \in BOOLEAN /\ v.visited \subseteq SN!Positions

ScanType ==
  /\ snText \in [SN!Positions -> Texts \cup {SN!Gone}]
  /\ snCache = [in \in SN!Inputs |-> snCache[in]]
  /\ snRun = [r \in ScanRuns |-> snRun[r]] /\ \A r \in ScanRuns : snRun[r] = SN!Idle \/ Active(snRun[r])
  /\ due = [r \in ScanRuns |-> due[r]]
  /\ \A r \in DOMAIN plan : /\ plan[r].yes \in BOOLEAN /\ plan[r].width \in Widths
                            /\ plan[r].sample \in Nat /\ plan[r].limit \in Nat

\* A page's candidates, and what the first ones of them are.
LEMMA LesserOf ==
  ASSUME NEW m \in Nat, NEW n \in Nat
  PROVE  /\ SN!Lesser(m, n) \in Nat /\ SN!Lesser(m, n) <= m /\ SN!Lesser(m, n) <= n
         /\ SN!Lesser(m, n) \in {m, n}
  BY DEF SN!Lesser

LEMMA ScanCount ==
  ASSUME NEW S PROVE SN!Cardinality(S) = Cardinality(S)
  BY DEF SN!Cardinality, Cardinality

LEMMA PositionsCounted ==
  ASSUME ScanConstants
  PROVE  /\ SN!Positions = 1 .. Len(Transcript) /\ Len(Transcript) \in Nat
         /\ \A S \in SUBSET SN!Positions : SN!Cardinality(S) \in Nat /\ (SN!Cardinality(S) = 0 => S = {})
<1>1. SN!Positions = 1 .. Len(Transcript) /\ Len(Transcript) \in Nat
  BY DEF ScanConstants, SN!Positions
<1>2. IsFiniteSet(SN!Positions)
  BY <1>1, FS_Interval
<1>3. ASSUME NEW S \in SUBSET SN!Positions PROVE Cardinality(S) \in Nat /\ (Cardinality(S) = 0 => S = {})
  BY <1>2, FS_Subset, FS_CardinalityType, FS_EmptySet
<1> QED
  BY <1>1, <1>3, ScanCount

\* What a run has not come to, and what a page takes of it.
Waiting(v) == {p \in SN!Unscanned(v.width) : p > v.after}
Takes(q, p) == \E i \in 1 .. Len(q) : q[i] = p

\* A page holds chunks that were not scanned, past the cursor; of these, what it
\* leaves out comes after all of it, and none is left out by an empty page.
LEMMA PageRead ==
  ASSUME ScanConstants, ScanType, NEW r \in ScanRuns, Active(snRun[r]), NEW q \in SN!Pages(r)
  PROVE  /\ q \in Seq(Waiting(snRun[r])) /\ (q = <<>> => Waiting(snRun[r]) = {})
         /\ snRun[r].sample = 0 => \A p \in Waiting(snRun[r]) : Takes(q, p) \/ q[Len(q)] < p
<1> DEFINE v == snRun[r]
           S == Waiting(v)
           Goal == /\ q \in Seq(S) /\ (q = <<>> => S = {})
                   /\ v.sample = 0 => \A p \in S : Takes(q, p) \/ q[Len(q)] < p
<1>0. S = {p \in SN!Unscanned(v.width) : p > v.after}
  BY DEF Waiting
<1>1. S \subseteq SN!Positions /\ v.after \in Nat /\ v.sample \in Nat /\ v.limit \in Nat
  BY <1>0 DEF SN!Unscanned, Active
<1> HIDE DEF S
<1>2. SN!Cardinality(S) \in Nat /\ (SN!Cardinality(S) = 0 => S = {})
  BY <1>1, PositionsCounted
<1>3. SN!Limit(r) \in Nat \ {0}
  BY <1>1 DEF SN!Limit, SN!Lesser, ScanConstants
<1>4. ASSUME NEW k \in Nat, q \in [1 .. k -> S] PROVE q \in Seq(S) /\ Len(q) = k
  BY <1>4
<1>5. ASSUME NEW m \in Nat \ {0}, NEW k, k = SN!Lesser(m, SN!Cardinality(S)), q \in [1 .. k -> S]
      PROVE  k \in Nat /\ q \in Seq(S) /\ Len(q) = k /\ (q = <<>> => S = {})
  <2>1. k \in Nat /\ k \in {m, SN!Cardinality(S)}
    BY <1>2, <1>5, LesserOf
  <2>2. q \in Seq(S) /\ Len(q) = k
    BY <1>4, <1>5, <2>1
  <2>3. q = <<>> => k = 0
    BY <2>2
  <2> QED
    BY <1>2, <1>5, <2>1, <2>2, <2>3
<1>6. ASSUME v.sample > 0 PROVE Goal
  <2>1. v.sample \in Nat \ {0} /\ q \in [1 .. SN!Lesser(v.sample, SN!Cardinality(S)) -> S]
    BY <1>0, <1>1, <1>6 DEF SN!Pages
  <2> QED
    BY <1>5, <1>6, <2>1
<1>7. ASSUME ~(v.sample > 0) PROVE Goal
  <2> DEFINE k == SN!Lesser(SN!Limit(r), SN!Cardinality(S))
  <2>1. q \in SN!Firsts(S, k)
    BY <1>0, <1>7 DEF SN!Pages
  <2> HIDE DEF k
  <2>2. /\ q \in [1 .. k -> S]
        /\ \A p \in S \ {q[i] : i \in 1 .. k} : \A i \in 1 .. k : q[i] < p
    BY <2>1 DEF SN!Firsts
  <2>3. k \in Nat /\ q \in Seq(S) /\ Len(q) = k /\ (q = <<>> => S = {})
    BY <1>3, <1>5, <2>2 DEF k
  <2>4. ASSUME NEW p \in S PROVE Takes(q, p) \/ q[Len(q)] < p
    <3>1. CASE p \in {q[i] : i \in 1 .. k}
      BY <2>3, <3>1 DEF Takes
    <3>2. CASE p \notin {q[i] : i \in 1 .. k}
      <4>1. k # 0
        BY <2>3, <2>4
      <4> QED
        BY <2>2, <2>3, <3>2, <4>1
    <3> QED
      BY <3>1, <3>2
  <2> QED
    BY <2>3, <2>4
<1> QED
  BY <1>6, <1>7 DEF S

\* An answer the mapping took, of a text.
Said(D, x, o) == SN!Usable(o.answer) /\ [text |-> x, result |-> SN!Result(o.answer)] \in D

\* What a page's outcomes and the cache hold was said of the texts they are of.
OutcomesOK(D, v) ==
  /\ \A i \in 1 .. Len(v.page) : v.outs[i].is = "answer" => Said(D, v.page[i].text, v.outs[i])
  /\ v.pc \in {"ask", "tally", "insert"} => v.page # <<>>
  /\ v.pc = "ask" => v.next = 1
  /\ v.pc = "insert" => v.next <= Len(v.page) /\ v.outs[v.next].is = "answer"

CacheOK == \A in \in SN!Inputs : snCache[in] # SN!NoAnswer => Said(said, in[1], snCache[in])

SaidInv ==
  /\ CacheOK /\ SN!AnswerIsOfText
  /\ \A r \in ScanRuns : snRun[r] # SN!Idle => OutcomesOK(said, snRun[r])

\* What a step makes of its run.
RunBegins(r, w) ==
  /\ r \in DOMAIN plan /\ w = ScanRec("select", plan[r], 0, plan[r].limit, <<>>, <<>>, 1, FALSE, {})
  /\ due' = [due EXCEPT ![r] = {<<p, snText[p]>> : p \in SN!Unscanned(plan[r].width)}]
  /\ UNCHANGED <<scans, snCache, said>>

Selects(r, v, w) ==
  /\ v.pc = "select"
  /\ \E q \in SN!Pages(r) :
       w = ScanRec(IF q = <<>> THEN "done" ELSE "ask", v, v.after, v.limit,
                   [i \in DOMAIN q |-> [p |-> q[i], text |-> snText[q[i]]]],
                   [i \in DOMAIN q |-> [is |-> "open"]], 1, v.seen, v.visited)
  /\ UNCHANGED <<scans, snCache, said, due>>

PageAnswers(v, w) ==
  /\ v.pc = "ask" /\ said \subseteq said'
  /\ \E o : \E i \in 1 .. Len(v.page) :
       /\ w = ScanRec("ask", v, v.after, v.limit, v.page, [v.outs EXCEPT ![i] = o], v.next, v.seen, v.visited)
       /\ o.is = "answer" => Said(said', v.page[i].text, o)
  /\ snCache' = [in \in SN!Inputs |-> snCache'[in]]
  /\ \A in \in SN!Inputs : snCache'[in] = snCache[in] \/ Said(said', in[1], snCache'[in])
  /\ UNCHANGED <<scans, due>>

RunGoesOn(v, w) ==
  /\ \E pc \in {"tally", "reached", "stopped", "failed"} :
       /\ w = ScanRec(pc, v, v.after, v.limit, v.page, v.outs, v.next, v.seen, v.visited)
       /\ pc = "tally" => v.pc = "ask"
  /\ UNCHANGED <<scans, snCache, said, due>>

\* The next outcome of a page is tallied.
Tallies(v, w) ==
  /\ v.next <= Len(v.page)
  /\ w = ScanRec("tally", v, v.after, v.limit, v.page, v.outs, v.next + 1, v.seen,
                 v.visited \cup {v.page[v.next].p})
  /\ UNCHANGED <<snCache, said>>

Unowed(r, p) == [due EXCEPT ![r] = {d \in @ : d[1] # p}]

Skips(r, v, w) ==
  /\ v.pc = "tally" /\ Tallies(v, w) /\ scans' = scans
  /\ \/ due' = Unowed(r, v.page[v.next].p)
     \/ due' = due /\ ~v.yes

RowFrom(c, o) == [p |-> c.p, text |-> c.text, recipe |-> o.recipe, result |-> SN!Result(o.answer)]

Inserts(r, v, w) ==
  LET c == v.page[v.next] o == v.outs[v.next] IN
  /\ v.pc = "insert" /\ Tallies(v, w)
  /\ scans' = IF v.seen /\ \A s \in scans : ~SN!SameKey(s, RowFrom(c, o)) THEN scans \cup {RowFrom(c, o)} ELSE scans
  /\ due' = IF SN!Equivalent(o.recipe, SN!Recipe(v.width)) THEN due ELSE Unowed(r, c.p)

Rechecks(v, w) ==
  LET c == v.page[v.next] IN
  /\ v.pc = "tally" /\ v.next <= Len(v.page) /\ v.outs[v.next].is = "answer"
  /\ w = ScanRec("insert", v, v.after, v.limit, v.page, v.outs, v.next, snText[c.p] = c.text, v.visited)
  /\ UNCHANGED <<scans, snCache, said, due>>

TurnsPage(v, w) ==
  /\ v.pc = "tally" /\ ~(v.next <= Len(v.page)) /\ v.sample = 0
  /\ \E limit \in Nat : w = ScanRec("select", v, v.page[Len(v.page)].p, limit, v.page, v.outs,
                                    v.next, v.seen, v.visited)
  /\ UNCHANGED <<scans, snCache, said, due>>

RunMoves(r, v, w) ==
  \/ Selects(r, v, w) \/ PageAnswers(v, w) \/ RunGoesOn(v, w) \/ Skips(r, v, w) \/ Inserts(r, v, w)
  \/ Rechecks(v, w) \/ TurnsPage(v, w)

\* A result the mapping takes is one the table takes.
LEMMA MappedIsValid ==
  ASSUME NEW a, SN!Usable(a) PROVE SN!Valid(SN!Result(a))
  BY DEF SN!Usable, SN!Valid, SN!Result, SN!Percent

LEMMA ScanRunSteps ==
  ASSUME ScanConstants, ScanType, SaidInv, NEW r \in ScanRuns, SN!Step(r)
  PROVE  /\ snText' = snText /\ plan' = plan
         /\ \E w : /\ snRun' = [snRun EXCEPT ![r] = w]
                   /\ \/ snRun[r] = SN!Idle /\ RunBegins(r, w)
                      \/ Active(snRun[r]) /\ OutcomesOK(said, snRun[r]) /\ RunMoves(r, snRun[r], w)
<1> DEFINE v == snRun[r]
           Goal == /\ snText' = snText /\ plan' = plan
                   /\ \E w : /\ snRun' = [snRun EXCEPT ![r] = w]
                             /\ \/ v = SN!Idle /\ RunBegins(r, w)
                                \/ Active(v) /\ OutcomesOK(said, v) /\ RunMoves(r, v, w)
<1>1. (v = SN!Idle /\ v.pc = "idle") \/ (Active(v) /\ OutcomesOK(said, v) /\ v.pc # "idle")
  BY DEF ScanType, SaidInv, SN!Idle, Active, ScanSteps
<1>2. CASE SN!Start(r)
  <2>1. v = SN!Idle
    BY <1>1, <1>2 DEF SN!Start
  <2> DEFINE w == SN!Begun(plan[r])
  <2>2. snRun' = [snRun EXCEPT ![r] = w] /\ RunBegins(r, w)
    BY <1>2 DEF SN!Start, SN!Begun, RunBegins, ScanRec
  <2>3. snText' = snText /\ plan' = plan
    BY <1>2 DEF SN!Start
  <2> QED
    BY <2>1, <2>2, <2>3
<1>3. CASE v.pc = "idle" /\ ~SN!Start(r)
  BY <1>3 DEF SN!Step, SN!Select, SN!Gather, SN!Skip, SN!Left, SN!Recheck, SN!Insert, SN!NextPage, SN!Stop,
    SN!Serve, SN!Send, SN!NoReply, SN!Reply, SN!Waits
<1>4. ASSUME Active(v), OutcomesOK(said, v), v.pc # "idle" PROVE Goal
  <2>0. /\ v.outs = [i \in 1 .. Len(v.page) |-> v.outs[i]] /\ DOMAIN v.outs = 1 .. Len(v.page)
        /\ v.page \in Seq(Candidates) /\ v.next \in Nat \ {0}
        /\ v = ScanRec(v.pc, v, v.after, v.limit, v.page, v.outs, v.next, v.seen, v.visited)
    BY <1>4 DEF Active
  <2>1. CASE SN!Select(r)
    <3>1. PICK q \in SN!Pages(r) :
            snRun' = [snRun EXCEPT ![r].pc = IF q = <<>> THEN "done" ELSE "ask",
                            ![r].page = [i \in DOMAIN q |-> [p |-> q[i], text |-> snText[q[i]]]],
                            ![r].outs = [i \in DOMAIN q |-> [is |-> "open"]], ![r].next = 1]
      BY <2>1 DEF SN!Select, SN!Candidate, SN!Open
    <3> DEFINE pg == [i \in DOMAIN q |-> [p |-> q[i], text |-> snText[q[i]]]]
               op == [i \in DOMAIN q |-> [is |-> "open"]]
               pc == IF q = <<>> THEN "done" ELSE "ask"
               w == ScanRec(pc, v, v.after, v.limit, pg, op, 1, v.seen, v.visited)
    <3>2. snRun' = [snRun EXCEPT ![r] = w]
      <4> HIDE DEF pg, op, pc
      <4>1. snRun' = [snRun EXCEPT ![r].pc = pc, ![r].page = pg, ![r].outs = op, ![r].next = 1]
        BY <3>1 DEF pg, op, pc
      <4>2. snRun' = [snRun EXCEPT ![r] = Filled(v, pc, pg, op, 1)]
        BY <4>1 DEF ScanType, Filled
      <4>3. Filled(v, pc, pg, op, 1) = w
        BY <2>0, RecordsAfter
      <4> QED
        BY <4>2, <4>3
    <3>3. Selects(r, v, w)
      BY <2>1 DEF SN!Select, Selects
    <3>4. snText' = snText /\ plan' = plan
      BY <2>1 DEF SN!Select
    <3> QED
      BY <1>4, <3>2, <3>3, <3>4 DEF RunMoves
  <2>2. CASE SN!Gather(r) \/ SN!Stop(r)
    <3>1. PICK pc \in {"tally", "stopped"} : snRun' = [snRun EXCEPT ![r].pc = pc] /\ (pc = "tally" => v.pc = "ask")
      BY <2>2 DEF SN!Gather, SN!Stop, SN!Stay
    <3> DEFINE w == ScanRec(pc, v, v.after, v.limit, v.page, v.outs, v.next, v.seen, v.visited)
    <3>2. snRun' = [snRun EXCEPT ![r] = w]
      <4>1. snRun' = [snRun EXCEPT ![r] = Stays(v, pc)]
        BY <3>1 DEF ScanType, Stays
      <4> QED
        BY <2>0, <4>1, RecordsAfter
    <3>3. RunGoesOn(v, w) /\ snText' = snText /\ plan' = plan
      BY <2>2, <3>1 DEF SN!Gather, SN!Stop, RunGoesOn
    <3> QED
      BY <1>4, <3>2, <3>3 DEF RunMoves
  <2>3. ASSUME SN!Tallied(r), v.next <= Len(v.page), UNCHANGED <<snCache, said>>
        PROVE  LET w == ScanRec("tally", v, v.after, v.limit, v.page, v.outs, v.next + 1, v.seen,
                                v.visited \cup {v.page[v.next].p})
               IN snRun' = [snRun EXCEPT ![r] = w] /\ Tallies(v, w)
    <3> DEFINE x == v.next + 1
               y == v.visited \cup {v.page[v.next].p}
    <3>1. snRun' = [snRun EXCEPT ![r].pc = "tally", ![r].next = x, ![r].visited = y]
      BY <2>3 DEF SN!Tallied, SN!Chunk
    <3> HIDE DEF x, y
    <3>2. snRun' = [snRun EXCEPT ![r] = Counts(v, "tally", x, y)]
      BY <3>1 DEF ScanType, Counts
    <3>3. snRun' = [snRun EXCEPT ![r] = ScanRec("tally", v, v.after, v.limit, v.page, v.outs, x, v.seen, y)]
      <4>1. Counts(v, "tally", x, y) = ScanRec("tally", v, v.after, v.limit, v.page, v.outs, x, v.seen, y)
        BY <2>0, RecordsAfter
      <4> QED
        BY <3>2, <4>1
    <3> QED
      BY <2>3, <3>3 DEF x, y, Tallies
  <2>4. CASE SN!Skip(r)
    <3>1. SN!Tallied(r) /\ v.next <= Len(v.page) /\ v.pc = "tally" /\ UNCHANGED <<snCache, said>>
      BY <2>4 DEF SN!Skip, SN!Left
    <3>2. PICK w : snRun' = [snRun EXCEPT ![r] = w] /\ Tallies(v, w)
      BY <2>3, <3>1
    <3>3. Skips(r, v, w) /\ snText' = snText /\ plan' = plan
      BY <2>4, <3>1, <3>2 DEF SN!Skip, SN!NotOwed, SN!Chunk, Skips, Unowed
    <3> QED
      BY <1>4, <3>2, <3>3 DEF RunMoves
  <2>5. CASE SN!Insert(r)
    <3>1. CASE SN!Stay(r, "failed") /\ UNCHANGED <<scans, due>>
      <4> DEFINE w == ScanRec("failed", v, v.after, v.limit, v.page, v.outs, v.next, v.seen, v.visited)
      <4>1. snRun' = [snRun EXCEPT ![r] = w]
        <5>1. snRun' = [snRun EXCEPT ![r] = Stays(v, "failed")]
          BY <3>1 DEF SN!Stay, ScanType, Stays
        <5> QED
          BY <2>0, <5>1, RecordsAfter
      <4>2. RunGoesOn(v, w) /\ snText' = snText /\ plan' = plan
        BY <2>5, <3>1 DEF SN!Insert, RunGoesOn
      <4> QED
        BY <1>4, <4>1, <4>2 DEF RunMoves
    <3>2. CASE ~(SN!Stay(r, "failed") /\ UNCHANGED <<scans, due>>)
      <4>1. /\ v.pc = "insert" /\ SN!Tallied(r) /\ UNCHANGED <<plan, snText, snCache, said>>
            /\ scans' = IF v.seen /\ \A s \in scans : ~SN!SameKey(s, SN!Row(r)) THEN scans \cup {SN!Row(r)} ELSE scans
            /\ IF SN!Equivalent(SN!Now(r).recipe, SN!Recipe(v.width)) THEN UNCHANGED due ELSE SN!NotOwed(r)
        BY <2>5, <3>2 DEF SN!Insert
      <4>2. v.next <= Len(v.page)
        BY <1>4, <4>1 DEF OutcomesOK
      <4> DEFINE w == ScanRec("tally", v, v.after, v.limit, v.page, v.outs, v.next + 1, v.seen,
                              v.visited \cup {v.page[v.next].p})
      <4>3. snRun' = [snRun EXCEPT ![r] = w] /\ Tallies(v, w)
        BY <2>3, <4>1, <4>2
      <4>4. SN!Row(r) = RowFrom(v.page[v.next], v.outs[v.next])
        BY DEF SN!Row, RowFrom, SN!HashOf, SN!Chunk, SN!Now
      <4> HIDE DEF w
      <4>5. Inserts(r, v, w)
        BY <4>1, <4>3, <4>4 DEF Inserts, SN!Now, SN!Chunk, SN!NotOwed, Unowed
      <4> QED
        BY <1>4, <4>1, <4>3, <4>5 DEF RunMoves
    <3> QED
      BY <3>1, <3>2
  <2>6. CASE SN!Recheck(r)
    <3> DEFINE c == v.page[v.next]
               fresh == snText[c.p] = c.text
    <3>1. v.pc = "tally" /\ v.next <= Len(v.page) /\ v.outs[v.next].is = "answer"
      BY <2>6 DEF SN!Recheck, SN!Left, SN!Now
    <3>2. Said(said, c.text, v.outs[v.next])
      <4>1. v.next \in 1 .. Len(v.page)
        BY <2>0, <3>1
      <4>2. \A i \in 1 .. Len(v.page) : v.outs[i].is = "answer" => Said(said, v.page[i].text, v.outs[i])
        BY <1>4 DEF OutcomesOK
      <4> QED
        BY <3>1, <4>1, <4>2
    <3>3. SN!Valid(SN!Result(SN!Now(r).answer))
      BY <3>2, MappedIsValid DEF Said, SN!Now
    <3>4. snRun' = [snRun EXCEPT ![r].pc = "insert", ![r].seen = fresh]
      BY <2>6, <3>3 DEF SN!Recheck, SN!Unchanged, SN!Chunk
    <3> DEFINE w == ScanRec("insert", v, v.after, v.limit, v.page, v.outs, v.next, fresh, v.visited)
    <3>5. snRun' = [snRun EXCEPT ![r] = w]
      <4> HIDE DEF fresh
      <4>1. snRun' = [snRun EXCEPT ![r] = Checked(v, "insert", fresh)]
        BY <3>4 DEF ScanType, Checked
      <4> QED
        BY <2>0, <4>1, RecordsAfter
    <3>6. Rechecks(v, w) /\ snText' = snText /\ plan' = plan
      BY <2>6, <3>1 DEF SN!Recheck, Rechecks
    <3> QED
      BY <1>4, <3>5, <3>6 DEF RunMoves
  <2>7. CASE SN!NextPage(r)
    <3>0. UNCHANGED <<plan, snText, scans, snCache, said, due>> /\ v.pc = "tally" /\ ~(v.next <= Len(v.page))
      BY <2>7 DEF SN!NextPage, SN!Left
    <3>1. CASE SN!Stay(r, "reached")
      <4> DEFINE w == ScanRec("reached", v, v.after, v.limit, v.page, v.outs, v.next, v.seen, v.visited)
      <4>1. snRun' = [snRun EXCEPT ![r] = w]
        <5>1. snRun' = [snRun EXCEPT ![r] = Stays(v, "reached")]
          BY <3>1 DEF SN!Stay, ScanType, Stays
        <5> QED
          BY <2>0, <5>1, RecordsAfter
      <4>2. RunGoesOn(v, w)
        BY <3>0 DEF RunGoesOn
      <4> QED
        BY <1>4, <3>0, <4>1, <4>2 DEF RunMoves
    <3>2. CASE ~SN!Stay(r, "reached")
      <4> DEFINE rest == v.limit - Len(v.page)
                 limit == IF v.limit > 0 THEN rest ELSE 0
                 after == v.page[Len(v.page)].p
      <4>1. /\ ~(v.sample > 0 \/ (v.limit > 0 /\ rest <= 0))
            /\ snRun' = [snRun EXCEPT ![r].pc = "select", ![r].after = after, ![r].limit = IF @ > 0 THEN rest ELSE 0]
        BY <2>7, <3>2 DEF SN!NextPage, SN!Last
      <4>2. limit \in Nat /\ v.sample = 0
        BY <1>4, <4>1 DEF Active
      <4> DEFINE w == ScanRec("select", v, after, limit, v.page, v.outs, v.next, v.seen, v.visited)
      <4>3. snRun' = [snRun EXCEPT ![r] = w]
        <5>1. snRun' = [snRun EXCEPT ![r].pc = "select", ![r].after = after, ![r].limit = limit]
          BY <4>1 DEF ScanType
        <5> HIDE DEF limit, after
        <5>2. snRun' = [snRun EXCEPT ![r] = Resumed(v, "select", after, limit)]
          BY <5>1 DEF ScanType, Resumed
        <5>3. Resumed(v, "select", after, limit) = ScanRec("select", v, after, limit, v.page, v.outs, v.next, v.seen, v.visited)
          BY <2>0, RecordsAfter
        <5> QED
          BY <5>2, <5>3
      <4>4. TurnsPage(v, w)
        BY <3>0, <4>2 DEF TurnsPage
      <4> QED
        BY <1>4, <3>0, <4>3, <4>4 DEF RunMoves
    <3> QED
      BY <3>1, <3>2
  <2>8. ASSUME NEW i, NEW o, v.pc = "ask", i \in DOMAIN v.outs, SN!Out(r, i, o), UNCHANGED <<plan, snText, scans, due>>,
               o.is = "answer" => Said(said', v.page[i].text, o), said \subseteq said',
               snCache' = [in \in SN!Inputs |-> snCache'[in]],
               \A in \in SN!Inputs : snCache'[in] = snCache[in] \/ Said(said', in[1], snCache'[in])
        PROVE  Goal
    <3> DEFINE outs == [v.outs EXCEPT ![i] = o]
               w == ScanRec("ask", v, v.after, v.limit, v.page, outs, v.next, v.seen, v.visited)
    <3>1. snRun' = [snRun EXCEPT ![r] = w]
      <4>1. snRun' = [snRun EXCEPT ![r].outs[i] = o]
        BY <2>8 DEF SN!Out
      <4>2. snRun' = [snRun EXCEPT ![r] = Told(v, outs)]
        BY <4>1 DEF ScanType, Told
      <4> HIDE DEF outs
      <4>3. Told(v, outs) = w
        BY <2>0, <2>8, RecordsAfter
      <4> QED
        BY <4>2, <4>3
    <3>2. PageAnswers(v, w)
      <4> HIDE DEF w
      <4>1. i \in 1 .. Len(v.page)
        BY <2>0, <2>8
      <4> QED
        BY <2>8, <4>1 DEF PageAnswers, w
    <3> QED
      BY <1>4, <2>8, <3>1, <3>2 DEF RunMoves
  <2>9. ASSUME NEW i, SN!Serve(r, i) \/ SN!Send(r, i) \/ SN!NoReply(r, i) \/ \E a \in Replies : SN!Reply(r, i, a)
        PROVE  Goal
    <3> DEFINE in == SN!Asked(r, i)
               x == v.page[i].text
    <3>0. CASE ~(v.pc = "ask" /\ i \in DOMAIN v.outs)
      BY <2>9, <3>0 DEF SN!Serve, SN!Send, SN!NoReply, SN!Reply, SN!Waits
    <3>1. SUFFICES ASSUME v.pc = "ask", i \in DOMAIN v.outs PROVE Goal
      BY <3>0
    <3>2. in \in SN!Inputs /\ in[1] = x
      <4>1. v.page[i] \in Candidates /\ v.width \in Nat /\ v.width \in Widths
        <5>1. v.width \in Widths
          BY <1>4 DEF Active
        <5>2. v.page[i] \in Candidates
          BY <2>0, <3>1
        <5> QED
          BY <5>1, <5>2 DEF ScanConstants
      <4>2. x \in Texts /\ Neighbours[v.page[i].p] \in Nat
        BY <4>1 DEF Candidates, ScanConstants
      <4>3. SN!Lesser(v.width, Neighbours[v.page[i].p]) \in 0 .. v.width
        BY <4>1, <4>2 DEF SN!Lesser
      <4>4. in = <<x, SN!Lesser(v.width, Neighbours[v.page[i].p])>>
        BY DEF SN!Asked, SN!Input
      <4> QED
        <5> DEFINE n == SN!Lesser(v.width, Neighbours[v.page[i].p])
        <5>1. n \in UNION {0 .. k : k \in Widths} /\ in = <<x, n>>
          BY <4>1, <4>3, <4>4
        <5> HIDE DEF n, in, x
        <5> QED
          BY <4>2, <5>1 DEF SN!Inputs
    <3>3. snCache = [n \in SN!Inputs |-> snCache[n]]
      BY DEF ScanType
    <3> HIDE DEF in, x
    <3>4. CASE SN!Serve(r, i)
      <4> DEFINE row == snCache[in]
      <4>1. /\ row # SN!NoAnswer /\ UNCHANGED <<plan, snText, scans, snCache, said, due>>
            /\ SN!Out(r, i, IF SN!Usable(row.answer) THEN SN!Outcome("answer", row.recipe, row.answer) ELSE SN!Failed)
        BY <3>4 DEF SN!Serve, in
      <4>2. Said(said, x, row)
        BY <3>2, <4>1 DEF SaidInv, CacheOK
      <4> HIDE DEF row
      <4> DEFINE o == SN!Outcome("answer", row.recipe, row.answer)
      <4>3. SN!Out(r, i, o)
        BY <4>1, <4>2 DEF Said
      <4>4. Said(said', x, o)
        BY <4>1, <4>2 DEF Said, SN!Outcome
      <4> HIDE DEF o
      <4> QED
        BY <2>8, <3>1, <3>3, <4>1, <4>3, <4>4 DEF x
    <3>5. CASE SN!Send(r, i)
      <4> DEFINE o == [is |-> "sent"]
      <4>1. SN!Out(r, i, o) /\ o.is # "answer" /\ UNCHANGED <<plan, snText, scans, snCache, said, due>>
        BY <3>5 DEF SN!Send
      <4> HIDE DEF o
      <4> QED
        BY <2>8, <3>1, <3>3, <4>1
    <3>6. CASE SN!NoReply(r, i)
      <4>1. PICK is \in {"fallback", "error"} : SN!Out(r, i, [is |-> is])
        BY <3>6 DEF SN!NoReply
      <4> DEFINE o == [is |-> is]
      <4>2. SN!Out(r, i, o) /\ o.is # "answer" /\ UNCHANGED <<plan, snText, scans, snCache, said, due>>
        BY <3>6, <4>1 DEF SN!NoReply
      <4> HIDE DEF o
      <4> QED
        BY <2>8, <3>1, <3>3, <4>2
    <3>7. ASSUME NEW a \in Replies, SN!Reply(r, i, a) PROVE Goal
      <4>0. UNCHANGED <<plan, snText, scans, due>>
        BY <3>7 DEF SN!Reply
      <4>1. CASE ~SN!Cached(a)
        <5>1. SN!Out(r, i, SN!Failed) /\ UNCHANGED <<snCache, said>> /\ SN!Failed.is # "answer"
          BY <3>7, <4>1 DEF SN!Reply, SN!Failed
        <5> QED
          BY <2>8, <3>1, <3>3, <4>0, <5>1
      <4>2. CASE SN!Cached(a)
        <5> DEFINE recipe == SN!Recipe(v.width)
                   o == SN!Outcome("answer", recipe, a)
                   k == [recipe |-> recipe, answer |-> a]
        <5>1. /\ SN!Usable(a) /\ SN!Out(r, i, o)
              /\ said' = said \cup {[text |-> x, result |-> SN!Result(a)]}
              /\ snCache' = IF snCache[in] = SN!NoAnswer THEN [snCache EXCEPT ![in] = k] ELSE snCache
          BY <3>2, <3>7, <4>2 DEF SN!Reply, SN!Cached, in
        <5>2. Said(said', x, o) /\ Said(said', x, k)
          BY <5>1 DEF Said, SN!Outcome
        <5> HIDE DEF recipe, o, k
        <5>3. snCache' = [n \in SN!Inputs |-> snCache'[n]]
          BY <3>2, <3>3, <5>1
        <5>4. \A n \in SN!Inputs : snCache'[n] = snCache[n] \/ Said(said', n[1], snCache'[n])
          <6>1. ASSUME NEW n \in SN!Inputs, snCache'[n] # snCache[n] PROVE n = in /\ snCache'[n] = k
            BY <3>2, <3>3, <5>1, <6>1
          <6> QED
            BY <3>2, <5>2, <6>1
        <5> QED
          BY <2>8, <3>1, <4>0, <5>1, <5>2, <5>3, <5>4 DEF x
      <4> QED
        BY <4>1, <4>2
    <3> QED
      BY <2>9, <3>4, <3>5, <3>6, <3>7
  <2> QED
    BY <1>3, <1>4, <2>1, <2>2, <2>4, <2>5, <2>6, <2>7, <2>9 DEF SN!Step, SN!Start
<1> QED
  BY <1>1, <1>2, <1>3, <1>4

\* What makes a record a run that has begun.
Fits(pc, f, after, limit, page, outs, next, fresh, visited) ==
  /\ pc \in ScanSteps /\ f.yes \in BOOLEAN /\ f.sample \in Nat /\ limit \in Nat /\ f.width \in Widths
  /\ after \in Nat /\ page \in Seq(Candidates) /\ outs = [i \in 1 .. Len(page) |-> outs[i]]
  /\ next \in Nat \ {0} /\ fresh \in BOOLEAN /\ visited \subseteq SN!Positions

LEMMA ActiveRec ==
  ASSUME NEW pc, NEW f, NEW after, NEW limit, NEW page, NEW outs, NEW next, NEW fresh, NEW visited,
         Fits(pc, f, after, limit, page, outs, next, fresh, visited),
         NEW w, w = ScanRec(pc, f, after, limit, page, outs, next, fresh, visited)
  PROVE  Active(w)
<1>1. /\ w.pc = pc /\ w.yes = f.yes /\ w.sample = f.sample /\ w.limit = limit /\ w.width = f.width
      /\ w.after = after /\ w.page = page /\ w.outs = outs /\ w.next = next /\ w.seen = fresh /\ w.visited = visited
  BY DEF ScanRec
<1>2. w = ScanRec(w.pc, w, w.after, w.limit, w.page, w.outs, w.next, w.seen, w.visited)
  BY <1>1 DEF ScanRec
<1> QED
  BY <1>1, <1>2 DEF Active, Fits

\* A step keeps its run a run.
LEMMA RunsKeepShape ==
  ASSUME ScanConstants, ScanType, NEW r \in ScanRuns, NEW w,
         \/ RunBegins(r, w)
         \/ Active(snRun[r]) /\ OutcomesOK(said, snRun[r]) /\ RunMoves(r, snRun[r], w)
  PROVE  Active(w)
<1> DEFINE v == snRun[r]
<1>1. CASE RunBegins(r, w)
  <2>1. /\ plan[r].yes \in BOOLEAN /\ plan[r].width \in Widths /\ plan[r].sample \in Nat /\ plan[r].limit \in Nat
        /\ w = ScanRec("select", plan[r], 0, plan[r].limit, <<>>, <<>>, 1, FALSE, {})
    BY <1>1 DEF RunBegins, ScanType
  <2>2. "select" \in ScanSteps /\ <<>> \in Seq(Candidates) /\ {} \in SUBSET SN!Positions
        /\ <<>> = [i \in 1 .. Len(<<>>) |-> <<>>[i]]
    BY DEF ScanSteps
  <2> DEFINE f == plan[r] none == <<>> zero == 0 one == 1 no == FALSE
  <2>3. w = ScanRec("select", f, zero, f.limit, none, none, one, no, {})
    BY <2>1
  <2>4. /\ f.yes \in BOOLEAN /\ f.width \in Widths /\ f.sample \in Nat /\ f.limit \in Nat
        /\ none \in Seq(Candidates) /\ none = [i \in 1 .. Len(none) |-> none[i]]
        /\ zero \in Nat /\ one \in Nat \ {0} /\ no \in BOOLEAN
    BY <2>1, <2>2
  <2> HIDE DEF f, none, zero, one, no
  <2>5. Fits("select", f, zero, f.limit, none, none, one, no, {})
    BY <2>2, <2>4 DEF Fits
  <2> QED
    BY <2>3, <2>5, ActiveRec
<1>2. ASSUME Active(v), OutcomesOK(said, v), RunMoves(r, v, w) PROVE Active(w)
  <2>0. /\ v.pc \in ScanSteps /\ v.yes \in BOOLEAN /\ v.sample \in Nat /\ v.limit \in Nat /\ v.width \in Widths
        /\ v.after \in Nat /\ v.page \in Seq(Candidates) /\ v.outs = [i \in 1 .. Len(v.page) |-> v.outs[i]]
        /\ v.next \in Nat \ {0} /\ v.seen \in BOOLEAN /\ v.visited \in SUBSET SN!Positions
    BY <1>2 DEF Active
  <2>00. {"select", "done", "ask", "tally", "reached", "stopped", "failed", "insert"} \subseteq ScanSteps
    BY DEF ScanSteps
  <2>1. CASE Selects(r, v, w)
    <3>1. PICK q \in SN!Pages(r) :
       w = ScanRec(IF q = <<>> THEN "done" ELSE "ask", v, v.after, v.limit,
                   [i \in DOMAIN q |-> [p |-> q[i], text |-> snText[q[i]]]],
                   [i \in DOMAIN q |-> [is |-> "open"]], 1, v.seen, v.visited)
      BY <2>1 DEF Selects
    <3> DEFINE S == Waiting(v)
               page == [i \in DOMAIN q |-> [p |-> q[i], text |-> snText[q[i]]]]
               outs == [i \in DOMAIN q |-> [is |-> "open"]]
    <3>2. q \in Seq(S)
      BY <1>2, PageRead
    <3>3. \A p \in S : [p |-> p, text |-> snText[p]] \in Candidates
      <4>1. \A p \in S : p \in SN!Positions /\ snText[p] # SN!Gone
        BY DEF SN!Unscanned, Waiting
      <4> QED
        BY <4>1 DEF ScanType, Candidates
    <3> HIDE DEF S
    <3>4. page \in Seq(Candidates) /\ Len(page) = Len(q) /\ outs = [i \in 1 .. Len(page) |-> outs[i]]
      BY <3>2, <3>3
    <3> HIDE DEF page, outs
    <3> DEFINE pc == IF q = <<>> THEN "done" ELSE "ask"
               one == 1
    <3>5. w = ScanRec(pc, v, v.after, v.limit, page, outs, one, v.seen, v.visited)
      BY <3>1 DEF page, outs
    <3>6. pc \in ScanSteps /\ one \in Nat \ {0}
      BY <2>00
    <3>7. page \in Seq(Candidates) /\ outs = [i \in 1 .. Len(page) |-> outs[i]]
      BY <3>4
    <3> HIDE DEF v, pc, one
    <3>8. /\ w.pc = pc /\ w.yes = v.yes /\ w.sample = v.sample /\ w.limit = v.limit /\ w.width = v.width
          /\ w.after = v.after /\ w.page = page /\ w.outs = outs /\ w.next = one /\ w.seen = v.seen
          /\ w.visited = v.visited
      BY <3>5 DEF ScanRec
    <3>9. w = ScanRec(w.pc, w, w.after, w.limit, w.page, w.outs, w.next, w.seen, w.visited)
      BY <3>5, <3>8 DEF ScanRec
    <3> QED
      BY <2>0, <3>6, <3>7, <3>8, <3>9 DEF Active
  <2>2. CASE PageAnswers(v, w)
    <3>1. PICK o : \E i \in 1 .. Len(v.page) :
            w = ScanRec("ask", v, v.after, v.limit, v.page, [v.outs EXCEPT ![i] = o], v.next, v.seen, v.visited)
      BY <2>2 DEF PageAnswers
    <3>2. PICK i \in 1 .. Len(v.page) :
            w = ScanRec("ask", v, v.after, v.limit, v.page, [v.outs EXCEPT ![i] = o], v.next, v.seen, v.visited)
      BY <3>1
    <3> DEFINE outs == [v.outs EXCEPT ![i] = o]
    <3>3. outs = [k \in 1 .. Len(v.page) |-> outs[k]]
      BY <2>0
    <3> HIDE DEF outs, v
    <3> QED
      <4>1. Fits("ask", v, v.after, v.limit, v.page, outs, v.next, v.seen, v.visited)
        BY <2>0, <2>00, <3>3 DEF Fits
      <4>2. w = ScanRec("ask", v, v.after, v.limit, v.page, outs, v.next, v.seen, v.visited)
        BY <3>2 DEF outs
      <4> QED
        BY <4>1, <4>2, ActiveRec
  <2>3. CASE RunGoesOn(v, w)
    <3>1. PICK pc \in {"tally", "reached", "stopped", "failed"} :
            w = ScanRec(pc, v, v.after, v.limit, v.page, v.outs, v.next, v.seen, v.visited)
      BY <2>3 DEF RunGoesOn
    <3>2. pc \in ScanSteps
      BY <2>00
    <3> HIDE DEF v
    <3> QED
      <4>1. Fits(pc, v, v.after, v.limit, v.page, v.outs, v.next, v.seen, v.visited)
        BY <2>0, <3>2 DEF Fits
      <4> QED
        BY <3>1, <4>1, ActiveRec
  <2>4. CASE Skips(r, v, w) \/ Inserts(r, v, w)
    <3> DEFINE visited == v.visited \cup {v.page[v.next].p}
    <3>1. v.next <= Len(v.page) /\ w = ScanRec("tally", v, v.after, v.limit, v.page, v.outs, v.next + 1, v.seen, visited)
      BY <2>4 DEF Skips, Inserts, Tallies
    <3>2. v.page[v.next] \in Candidates
      BY <2>0, <3>1
    <3>3. visited \in SUBSET SN!Positions /\ v.next + 1 \in Nat \ {0}
      BY <2>0, <3>2 DEF Candidates
    <3> DEFINE next == v.next + 1
    <3>4. Fits("tally", v, v.after, v.limit, v.page, v.outs, next, v.seen, visited)
      BY <2>0, <2>00, <3>3 DEF Fits
    <3>5. w = ScanRec("tally", v, v.after, v.limit, v.page, v.outs, next, v.seen, visited)
      BY <3>1
    <3> HIDE DEF v, visited, next
    <3> QED
      BY <3>4, <3>5, ActiveRec
  <2>5. CASE Rechecks(v, w)
    <3> DEFINE fresh == snText[v.page[v.next].p] = v.page[v.next].text
    <3>1. w = ScanRec("insert", v, v.after, v.limit, v.page, v.outs, v.next, fresh, v.visited) /\ fresh \in BOOLEAN
      BY <2>5 DEF Rechecks
    <3> HIDE DEF v, fresh
    <3>2. Fits("insert", v, v.after, v.limit, v.page, v.outs, v.next, fresh, v.visited)
      BY <2>0, <2>00, <3>1 DEF Fits
    <3> QED
      BY <3>1, <3>2, ActiveRec
  <2>6. CASE TurnsPage(v, w)
    <3>1. PICK limit \in Nat : w = ScanRec("select", v, v.page[Len(v.page)].p, limit, v.page, v.outs,
                                           v.next, v.seen, v.visited)
      BY <2>6 DEF TurnsPage
    <3>2. v.page # <<>>
      BY <1>2, <2>6 DEF TurnsPage, OutcomesOK
    <3> DEFINE after == v.page[Len(v.page)].p
    <3>3. after \in Nat
      <4>1. v.page[Len(v.page)] \in Candidates
        BY <2>0, <3>2
      <4> QED
        BY <4>1, PositionsCounted DEF Candidates
    <3>4. w = ScanRec("select", v, after, limit, v.page, v.outs, v.next, v.seen, v.visited)
      BY <3>1
    <3> HIDE DEF v, after
    <3>5. Fits("select", v, after, limit, v.page, v.outs, v.next, v.seen, v.visited)
      BY <2>0, <2>00, <3>3 DEF Fits
    <3> QED
      BY <3>4, <3>5, ActiveRec
  <2> QED
    BY <1>2, <2>1, <2>2, <2>3, <2>4, <2>5, <2>6 DEF RunMoves
<1> QED
  BY <1>1, <1>2
\* A step of a run, and what it owes.
ScanMoves(r, w) ==
  \/ snRun[r] = SN!Idle /\ RunBegins(r, w)
  \/ Active(snRun[r]) /\ OutcomesOK(said, snRun[r]) /\ RunMoves(r, snRun[r], w)

\* More said of a text leaves what was said.
LEMMA SaidGrows ==
  ASSUME NEW D, NEW E, D \subseteq E
  PROVE  /\ \A x, o : Said(D, x, o) => Said(E, x, o)
         /\ \A v : OutcomesOK(D, v) => OutcomesOK(E, v)
<1>1. \A x, o : Said(D, x, o) => Said(E, x, o)
  BY DEF Said
<1>2. ASSUME NEW v, OutcomesOK(D, v) PROVE OutcomesOK(E, v)
  BY <1>1, <1>2 DEF OutcomesOK
<1> QED
  BY <1>1, <1>2

\* A step keeps the answers of its run answers of their texts.
LEMMA OutcomesKept ==
  ASSUME ScanConstants, ScanType, NEW r \in ScanRuns, NEW w, ScanMoves(r, w)
  PROVE  said \subseteq said' /\ OutcomesOK(said', w)
<1> DEFINE v == snRun[r]
<1>1. CASE RunBegins(r, w)
  <2>1. w.page = <<>> /\ w.pc = "select" /\ said' = said
    BY <1>1 DEF RunBegins, ScanRec
  <2> QED
    BY <2>1 DEF OutcomesOK
<1>2. ASSUME Active(v), OutcomesOK(said, v), RunMoves(r, v, w) PROVE said \subseteq said' /\ OutcomesOK(said', w)
  <2>0. /\ v.page \in Seq(Candidates) /\ v.outs = [i \in 1 .. Len(v.page) |-> v.outs[i]] /\ v.next \in Nat \ {0}
    BY <1>2 DEF Active
  <2>1. CASE Selects(r, v, w)
    <3>1. PICK q \in SN!Pages(r) :
       w = ScanRec(IF q = <<>> THEN "done" ELSE "ask", v, v.after, v.limit,
                   [i \in DOMAIN q |-> [p |-> q[i], text |-> snText[q[i]]]],
                   [i \in DOMAIN q |-> [is |-> "open"]], 1, v.seen, v.visited)
      BY <2>1 DEF Selects
    <3>2. q \in Seq(Waiting(v))
      BY <1>2, PageRead
    <3>3. /\ w.pc = (IF q = <<>> THEN "done" ELSE "ask") /\ w.next = 1
          /\ w.page = [i \in DOMAIN q |-> [p |-> q[i], text |-> snText[q[i]]]]
          /\ w.outs = [i \in DOMAIN q |-> [is |-> "open"]]
      BY <3>1 DEF ScanRec
    <3>4. Len(w.page) = Len(q) /\ \A i \in 1 .. Len(w.page) : w.outs[i].is = "open"
      BY <3>2, <3>3
    <3>5. w.pc = "ask" => w.page # <<>>
      BY <3>2, <3>3, <3>4
    <3>6. said' = said /\ w.pc \in {"done", "ask"}
      BY <2>1, <3>3 DEF Selects
    <3> QED
      BY <3>3, <3>4, <3>5, <3>6 DEF OutcomesOK
  <2>2. CASE PageAnswers(v, w)
    <3>1. PICK o : \E i \in 1 .. Len(v.page) :
            /\ w = ScanRec("ask", v, v.after, v.limit, v.page, [v.outs EXCEPT ![i] = o], v.next, v.seen, v.visited)
            /\ o.is = "answer" => Said(said', v.page[i].text, o)
      BY <2>2 DEF PageAnswers
    <3>2. PICK i \in 1 .. Len(v.page) :
            /\ w = ScanRec("ask", v, v.after, v.limit, v.page, [v.outs EXCEPT ![i] = o], v.next, v.seen, v.visited)
            /\ o.is = "answer" => Said(said', v.page[i].text, o)
      BY <3>1
    <3>3. w.page = v.page /\ w.pc = "ask" /\ w.next = v.next /\ w.outs = [v.outs EXCEPT ![i] = o]
      BY <3>2 DEF ScanRec
    <3>4. \A k \in 1 .. Len(v.page) : w.outs[k] = IF k = i THEN o ELSE v.outs[k]
      BY <2>0, <3>3
    <3>5. said \subseteq said' /\ v.pc = "ask"
      BY <2>2 DEF PageAnswers
    <3>6. OutcomesOK(said', v)
      BY <1>2, <3>5, SaidGrows
    <3> QED
      BY <3>2, <3>3, <3>4, <3>5, <3>6 DEF OutcomesOK
  <2>3. CASE RunGoesOn(v, w)
    <3>1. /\ w.page = v.page /\ w.outs = v.outs /\ w.next = v.next /\ said' = said
          /\ w.pc \in {"tally", "reached", "stopped", "failed"} /\ (w.pc = "tally" => v.pc = "ask")
      BY <2>3 DEF RunGoesOn, ScanRec
    <3> QED
      BY <1>2, <3>1 DEF OutcomesOK
  <2>4. CASE Skips(r, v, w) \/ Inserts(r, v, w)
    <3>1. w.page = v.page /\ w.outs = v.outs /\ w.pc = "tally" /\ v.pc \in {"tally", "insert"} /\ said' = said
      <4>1. Tallies(v, w) /\ v.pc \in {"tally", "insert"}
        BY <2>4 DEF Skips, Inserts
      <4> QED
        BY <4>1 DEF Tallies, ScanRec
    <3> QED
      BY <1>2, <3>1 DEF OutcomesOK
  <2>5. CASE Rechecks(v, w)
    <3>1. /\ w.page = v.page /\ w.outs = v.outs /\ w.next = v.next /\ w.pc = "insert" /\ v.pc = "tally" /\ said' = said
          /\ v.next <= Len(v.page) /\ v.outs[v.next].is = "answer"
      BY <2>5 DEF Rechecks, ScanRec
    <3> QED
      BY <1>2, <3>1 DEF OutcomesOK
  <2>6. CASE TurnsPage(v, w)
    <3>1. w.page = v.page /\ w.outs = v.outs /\ w.pc = "select" /\ said' = said
      BY <2>6 DEF TurnsPage, ScanRec
    <3> QED
      BY <1>2, <3>1 DEF OutcomesOK
  <2> QED
    BY <1>2, <2>1, <2>2, <2>3, <2>4, <2>5, <2>6 DEF RunMoves
<1> QED
  BY <1>1, <1>2 DEF ScanMoves

\* What the rest of the system does: chunks are cut anew, a transcript is requeued.
World ==
  /\ UNCHANGED <<plan, snCache, snRun, said>> /\ scans' \subseteq scans
  /\ snText' \in [SN!Positions -> Texts \cup {SN!Gone}]
  /\ due' = [r \in ScanRuns |-> {d \in due[r] : snText'[d[1]] = d[2]}]
  /\ \A s \in scans : s \notin scans' => snText'[s.p] = SN!Gone \/ s.p \notin SN!Positions

LEMMA WorldSteps ==
  ASSUME ScanConstants, ScanType, NEW t, SN!Rebuild(t) \/ SN!Requeue(t)
  PROVE  World
<1>1. CASE SN!Rebuild(t)
  <2>1. PICK cut \in [SN!Of(t) -> Texts \cup {SN!Gone}] :
          snText' = [p \in SN!Positions |-> IF p \in SN!Of(t) THEN cut[p] ELSE snText[p]]
    BY <1>1 DEF SN!Rebuild
  <2>2. snText' \in [SN!Positions -> Texts \cup {SN!Gone}]
    BY <2>1 DEF ScanType
  <2> QED
    BY <1>1, <2>2 DEF SN!Rebuild, SN!Forget, World
<1>2. CASE SN!Requeue(t)
  <2>1. /\ snText' = [p \in SN!Positions |-> IF p \in SN!Of(t) THEN SN!Gone ELSE snText[p]]
        /\ scans' = {s \in scans : Transcript[s.p] # t}
    BY <1>2 DEF SN!Requeue
  <2>2. snText' \in [SN!Positions -> Texts \cup {SN!Gone}]
    BY <2>1 DEF ScanType
  <2>3. \A s \in scans : s \notin scans' => snText'[s.p] = SN!Gone \/ s.p \notin SN!Positions
    BY <2>1 DEF SN!Of
  <2> QED
    BY <1>2, <2>1, <2>2, <2>3 DEF SN!Requeue, SN!Forget, World
<1> QED
  BY <1>1, <1>2
\* A step of a run is one of ScanMoves, and the rest of the system's is World.
LEMMA ScanCases ==
  ASSUME ScanConstants, ScanType, SaidInv, [SN!Next]_SN!vars
  PROVE  \/ UNCHANGED SN!vars
         \/ World
         \/ /\ snText' = snText /\ plan' = plan
            /\ \E r \in ScanRuns : \E w : ScanMoves(r, w) /\ snRun' = [snRun EXCEPT ![r] = w]
<1>1. ASSUME NEW r \in ScanRuns, SN!Step(r)
      PROVE  /\ snText' = snText /\ plan' = plan
             /\ \E w : ScanMoves(r, w) /\ snRun' = [snRun EXCEPT ![r] = w]
  BY <1>1, ScanRunSteps DEF ScanMoves
<1>2. ASSUME NEW t, SN!Rebuild(t) \/ SN!Requeue(t) PROVE World
  BY <1>2, WorldSteps
<1> QED
  BY <1>1, <1>2 DEF SN!Next

\* What a step of a run leaves as it was.
LEMMA MovesLeave ==
  ASSUME ScanConstants, ScanType, NEW r \in ScanRuns, NEW w, ScanMoves(r, w)
  PROVE  /\ scans \subseteq scans'
         /\ due' = [q \in ScanRuns |-> due'[q]] /\ \A q \in ScanRuns : q # r => due'[q] = due[q]
         /\ snCache' = [in \in SN!Inputs |-> snCache'[in]]
<1> DEFINE v == snRun[r]
<1>1. CASE RunBegins(r, w)
  BY <1>1 DEF RunBegins, ScanType
<1>2. CASE RunMoves(r, v, w)
  <2>1. CASE Selects(r, v, w) \/ RunGoesOn(v, w) \/ Rechecks(v, w) \/ TurnsPage(v, w)
    BY <2>1 DEF Selects, RunGoesOn, Rechecks, TurnsPage, ScanType
  <2>2. CASE PageAnswers(v, w)
    BY <2>2 DEF PageAnswers, ScanType
  <2>3. CASE Skips(r, v, w)
    BY <2>3 DEF Skips, Tallies, Unowed, ScanType
  <2>4. CASE Inserts(r, v, w)
    BY <2>4 DEF Inserts, Tallies, Unowed, ScanType
  <2> QED
    BY <1>2, <2>1, <2>2, <2>3, <2>4 DEF RunMoves
<1> QED
  BY <1>1, <1>2 DEF ScanMoves

LEMMA ScanTyped ==
  ASSUME ScanConstants, ScanType, SaidInv, [SN!Next]_SN!vars
  PROVE  ScanType'
<1>1. CASE UNCHANGED SN!vars
  BY <1>1 DEF SN!vars, ScanType, SN!Positions, SN!Inputs, SN!Idle
<1>2. CASE World
  BY <1>2 DEF World, ScanType, SN!Positions, SN!Inputs, SN!Idle
<1>3. ASSUME snText' = snText, plan' = plan, NEW r \in ScanRuns, NEW w, ScanMoves(r, w), snRun' = [snRun EXCEPT ![r] = w]
      PROVE  ScanType'
  <2>1. Active(w)
    BY <1>3, RunsKeepShape DEF ScanMoves
  <2>2. /\ due' = [q \in ScanRuns |-> due'[q]]
        /\ snCache' = [in \in SN!Inputs |-> snCache'[in]]
    BY <1>3, MovesLeave
  <2>3. snRun' = [q \in ScanRuns |-> snRun'[q]] /\ \A q \in ScanRuns : snRun'[q] = SN!Idle \/ Active(snRun'[q])
    BY <1>3, <2>1 DEF ScanType
  <2> QED
    BY <1>3, <2>2, <2>3 DEF ScanType, SN!Positions, SN!Inputs, SN!Idle
<1> QED
  BY <1>1, <1>2, <1>3, ScanCases

\* Rows, the cache and pages hold what was said of the texts they name.
LEMMA SaidKept ==
  ASSUME ScanConstants, ScanType, SaidInv, [SN!Next]_SN!vars
  PROVE  SaidInv'
<1>1. CASE UNCHANGED SN!vars
  BY <1>1 DEF SN!vars, SaidInv, CacheOK, SN!AnswerIsOfText, SN!Inputs, SN!Idle, SN!NoAnswer
<1>2. CASE World
  BY <1>2 DEF World, SaidInv, CacheOK, SN!AnswerIsOfText, SN!Inputs, SN!Idle, SN!NoAnswer
<1>3. ASSUME NEW r \in ScanRuns, NEW w, ScanMoves(r, w), snRun' = [snRun EXCEPT ![r] = w] PROVE SaidInv'
  <2> DEFINE v == snRun[r]
  <2>1. said \subseteq said' /\ OutcomesOK(said', w)
    BY <1>3, OutcomesKept
  <2>2. /\ \A x, o : Said(said, x, o) => Said(said', x, o)
        /\ \A u : OutcomesOK(said, u) => OutcomesOK(said', u)
    BY <2>1, SaidGrows
  <2>3. CacheOK'
    <3>1. CASE snCache' = snCache
      BY <2>2, <3>1 DEF SaidInv, CacheOK, SN!Inputs, SN!NoAnswer
    <3>2. CASE PageAnswers(v, w)
      <4>1. \A in \in SN!Inputs : snCache'[in] = snCache[in] \/ Said(said', in[1], snCache'[in])
        BY <3>2 DEF PageAnswers
      <4> QED
        BY <2>2, <4>1 DEF SaidInv, CacheOK, SN!Inputs, SN!NoAnswer
    <3> QED
      BY <1>3, <3>1, <3>2 DEF ScanMoves, RunBegins, RunMoves, Selects, RunGoesOn, Skips, Inserts, Tallies, Rechecks, TurnsPage
  <2>4. SN!AnswerIsOfText'
    <3>1. CASE scans' = scans
      BY <2>1, <3>1 DEF SaidInv, SN!AnswerIsOfText
    <3>2. CASE Active(v) /\ OutcomesOK(said, v) /\ Inserts(r, v, w)
      <4> DEFINE c == v.page[v.next]
                 o == v.outs[v.next]
      <4>1. \A s \in scans' : s \in scans \/ s = RowFrom(c, o)
        BY <3>2 DEF Inserts
      <4>2. v.next \in 1 .. Len(v.page) /\ o.is = "answer"
        <5>1. v.pc = "insert"
          BY <3>2 DEF Inserts
        <5>2. v.next <= Len(v.page) /\ o.is = "answer"
          BY <3>2, <5>1 DEF OutcomesOK
        <5>3. v.next \in Nat \ {0} /\ v.page \in Seq(Candidates)
          BY <3>2 DEF Active
        <5> QED
          BY <5>2, <5>3
      <4>3. Said(said, c.text, o)
        BY <3>2, <4>2 DEF OutcomesOK
      <4>4. RowFrom(c, o).text = c.text /\ RowFrom(c, o).result = SN!Result(o.answer)
        BY DEF RowFrom
      <4> HIDE DEF c, o
      <4>5. [text |-> RowFrom(c, o).text, result |-> RowFrom(c, o).result] \in said'
        BY <2>1, <4>3, <4>4 DEF Said
      <4> QED
        BY <2>1, <4>1, <4>5 DEF SaidInv, SN!AnswerIsOfText
    <3> QED
      BY <1>3, <3>1, <3>2 DEF ScanMoves, RunBegins, RunMoves, Selects, RunGoesOn, Skips, PageAnswers, Rechecks, TurnsPage
  <2>5. \A q \in ScanRuns : snRun'[q] # SN!Idle => OutcomesOK(said', snRun'[q])
    BY <1>3, <2>1, <2>2 DEF SaidInv, ScanType
  <2> QED
    BY <2>3, <2>4, <2>5 DEF SaidInv, SN!Idle
<1> QED
  BY <1>1, <1>2, <1>3, ScanCases

\* What a run v owes of d: a chunk and its text, as S and T are the rows and the
\* texts.  It is served, or ahead of the run: in the rest of its page, or past it.
Served(S, v, d) ==
  \/ \E s \in S : s.p = d[1] /\ s.text = d[2] /\ SN!Equivalent(s.recipe, SN!Recipe(v.width))
  \/ ~v.yes /\ d[1] \in v.visited

IsOf(c, d) == c.p = d[1] /\ c.text = d[2]

StillAhead(v, d) ==
  \/ \E i \in v.next .. Len(v.page) : IsOf(v.page[i], d)
  \/ d[1] > v.page[Len(v.page)].p

DueOK(T, S, v, d) ==
  /\ d[1] \in SN!Positions /\ d[2] # SN!Gone /\ T[d[1]] = d[2]
  /\ v.pc = "select" => Served(S, v, d) \/ d[1] > v.after
  /\ v.pc \in {"ask", "tally", "insert"} /\ v.sample = 0 => Served(S, v, d) \/ StillAhead(v, d)
  /\ v.pc = "insert" /\ IsOf(v.page[v.next], d) => v.seen
  /\ v.pc = "done" => Served(S, v, d)

DueInv == \A r \in ScanRuns : snRun[r] # SN!Idle => \A d \in due[r] : DueOK(snText, scans, snRun[r], d)

LEMMA ServedStays ==
  ASSUME NEW S, NEW R, S \subseteq R, NEW v, NEW w, NEW d, Served(S, v, d),
         w.width = v.width, w.yes = v.yes, v.visited \subseteq w.visited
  PROVE  Served(R, w, d)
  BY DEF Served

\* More rows leave a run's duty done as far as it was.
LEMMA RowsServe ==
  ASSUME NEW T, NEW S, NEW R, S \subseteq R, NEW v, NEW d, DueOK(T, S, v, d)
  PROVE  DueOK(T, R, v, d)
<1>1. Served(S, v, d) => Served(R, v, d)
  BY ServedStays
<1> QED
  BY <1>1 DEF DueOK

\* A step of a run leaves nothing out of what the run owes.
LEMMA NothingLost ==
  ASSUME ScanConstants, ScanType, NEW r \in ScanRuns, NEW w, ScanMoves(r, w), snText' = snText,
         snRun[r] # SN!Idle => \A d \in due[r] : DueOK(snText, scans, snRun[r], d), NEW d \in due'[r]
  PROVE  DueOK(snText, scans', w, d)
<1> DEFINE v == snRun[r]
<1>1. CASE RunBegins(r, w)
  <2>1. w.pc = "select" /\ w.after = 0
    BY <1>1 DEF RunBegins, ScanRec
  <2>2. PICK p \in SN!Unscanned(plan[r].width) : d = <<p, snText[p]>>
    BY <1>1 DEF RunBegins, ScanType
  <2>3. d[1] = p /\ d[2] = snText[p] /\ p \in SN!Positions /\ snText[p] # SN!Gone
    BY <2>2 DEF SN!Unscanned
  <2>4. p > 0
    BY <2>3, PositionsCounted
  <2> QED
    BY <2>1, <2>3, <2>4 DEF DueOK
<1>2. ASSUME Active(v), OutcomesOK(said, v), RunMoves(r, v, w), d \in due[r] => DueOK(snText, scans, v, d)
      PROVE  DueOK(snText, scans', w, d)
  <2>0. /\ v.page \in Seq(Candidates) /\ v.next \in Nat \ {0} /\ v.sample \in Nat /\ v.after \in Nat
        /\ scans \subseteq scans'
    BY <1>2, MovesLeave DEF Active, ScanMoves
  <2>00. d \in due[r]
    <3>1. CASE due' = due
      BY <3>1
    <3>2. CASE \E p : due' = Unowed(r, p)
      BY <3>2 DEF Unowed, ScanType
    <3> QED
      BY <1>2, <3>1, <3>2 DEF RunMoves, Selects, PageAnswers, RunGoesOn, Skips, Inserts, Rechecks, TurnsPage
  <2>01. DueOK(snText, scans, v, d) /\ d[1] \in SN!Positions /\ d[2] # SN!Gone /\ snText[d[1]] = d[2]
    BY <1>2, <2>00 DEF DueOK
  <2>02. d[1] \in Nat
    BY <2>01, PositionsCounted
  <2>1. CASE Selects(r, v, w)
    <3>1. PICK q \in SN!Pages(r) :
       w = ScanRec(IF q = <<>> THEN "done" ELSE "ask", v, v.after, v.limit,
                   [i \in DOMAIN q |-> [p |-> q[i], text |-> snText[q[i]]]],
                   [i \in DOMAIN q |-> [is |-> "open"]], 1, v.seen, v.visited)
      BY <2>1 DEF Selects
    <3> DEFINE S == Waiting(v)
    <3>2. /\ q \in Seq(S) /\ (q = <<>> => S = {})
          /\ v.sample = 0 => \A p \in S : Takes(q, p) \/ q[Len(q)] < p
      BY <1>2, PageRead
    <3>3. /\ w.pc = (IF q = <<>> THEN "done" ELSE "ask") /\ w.next = 1 /\ w.sample = v.sample
          /\ w.page = [i \in DOMAIN q |-> [p |-> q[i], text |-> snText[q[i]]]]
          /\ w.width = v.width /\ w.yes = v.yes /\ w.visited = v.visited
      BY <3>1 DEF ScanRec
    <3>4. v.pc = "select" /\ scans' = scans
      BY <2>1 DEF Selects
    <3>5. Served(scans, v, d) \/ d[1] > v.after
      BY <2>01, <3>4 DEF DueOK
    <3>6. CASE Served(scans, v, d)
      <4>1. Served(scans', w, d)
        BY <3>3, <3>4, <3>6, ServedStays
      <4> QED
        BY <2>01, <3>3, <4>1 DEF DueOK
    <3>7. CASE ~Served(scans, v, d)
      <4>1. d[1] \in S
        BY <2>01, <3>5, <3>7 DEF Served, Waiting, SN!Unscanned, SN!Scanned
      <4>2. q # <<>> /\ w.pc = "ask"
        BY <3>2, <3>3, <4>1
      <4>3. v.sample = 0 => StillAhead(w, d)
        <5> SUFFICES ASSUME v.sample = 0 PROVE StillAhead(w, d)
          OBVIOUS
        <5> HIDE DEF S
        <5>1. Len(w.page) = Len(q) /\ \A i \in 1 .. Len(q) : w.page[i].p = q[i] /\ w.page[i].text = snText[q[i]]
          BY <3>2, <3>3
        <5>2. Len(q) \in 1 .. Len(q)
          BY <3>2, <4>2
        <5>3. CASE Takes(q, d[1])
          BY <2>01, <3>3, <5>1, <5>3 DEF StillAhead, IsOf, Takes
        <5>4. CASE q[Len(q)] < d[1]
          <6>1. q[Len(q)] \in S
            BY <3>2, <5>2
          <6>2. q[Len(q)] \in Nat
            BY <6>1, PositionsCounted DEF S, Waiting, SN!Unscanned
          <6> QED
            BY <2>02, <5>1, <5>2, <5>4, <6>2 DEF StillAhead
        <5> QED
          BY <3>2, <4>1, <5>3, <5>4
      <4> QED
        BY <2>01, <3>3, <4>2, <4>3 DEF DueOK
    <3> QED
      BY <3>6, <3>7
  <2>2. CASE PageAnswers(v, w) \/ RunGoesOn(v, w)
    <3>1. /\ w.page = v.page /\ w.next = v.next /\ w.sample = v.sample /\ w.width = v.width /\ w.yes = v.yes
          /\ w.visited = v.visited /\ w.pc \in {"ask", "tally", "reached", "stopped", "failed"} /\ scans' = scans
          /\ w.pc \in {"ask", "tally"} => v.pc = "ask"
      BY <2>2 DEF PageAnswers, RunGoesOn, ScanRec
    <3>2. Served(scans, v, d) => Served(scans', w, d)
      BY <3>1, ServedStays
    <3>3. StillAhead(v, d) => StillAhead(w, d)
      BY <3>1 DEF StillAhead
    <3> QED
      BY <2>01, <3>1, <3>2, <3>3 DEF DueOK
  <2>3. CASE Skips(r, v, w) \/ Inserts(r, v, w)
    <3> DEFINE c == v.page[v.next]
               o == v.outs[v.next]
    <3>1. /\ w.page = v.page /\ w.next = v.next + 1 /\ w.sample = v.sample /\ w.width = v.width /\ w.yes = v.yes
          /\ w.visited = v.visited \cup {c.p} /\ w.pc = "tally" /\ v.pc \in {"tally", "insert"}
          /\ v.next \in 1 .. Len(v.page)
      <4>1. Tallies(v, w) /\ v.pc \in {"tally", "insert"}
        BY <2>3 DEF Skips, Inserts
      <4>2. v.next \in 1 .. Len(v.page)
        BY <2>0, <4>1 DEF Tallies
      <4> QED
        BY <4>1, <4>2 DEF Tallies, ScanRec
    <3>2. Served(scans, v, d) => Served(scans', w, d)
      BY <2>0, <3>1, ServedStays
    <3>3. StillAhead(v, d) => StillAhead(w, d) \/ IsOf(c, d)
      <4>1. \A i \in v.next .. Len(v.page) : i = v.next \/ i \in w.next .. Len(w.page)
        BY <2>0, <3>1
      <4> QED
        BY <3>1, <4>1 DEF StillAhead
    <3>4. IsOf(c, d) => Served(scans', w, d)
      <4> SUFFICES ASSUME IsOf(c, d) PROVE Served(scans', w, d)
        OBVIOUS
      <4>1. due' # Unowed(r, c.p)
        BY <2>00 DEF Unowed, ScanType, IsOf
      <4>2. CASE Skips(r, v, w)
        BY <3>1, <4>1, <4>2 DEF Skips, Served, IsOf
      <4>3. CASE Inserts(r, v, w)
        <5>1. SN!Equivalent(o.recipe, SN!Recipe(v.width)) /\ v.pc = "insert"
          BY <4>1, <4>3 DEF Inserts
        <5>2. v.seen
          BY <2>01, <5>1 DEF DueOK
        <5>3. \E s \in scans' : SN!SameKey(s, RowFrom(c, o))
          BY <4>3, <5>2 DEF Inserts, SN!SameKey
        <5>4. PICK s \in scans' : SN!SameKey(s, RowFrom(c, o))
          BY <5>3
        <5>5. s.p = c.p /\ s.text = c.text /\ s.recipe = o.recipe
          BY <5>4 DEF SN!SameKey, RowFrom
        <5> QED
          BY <3>1, <5>1, <5>5 DEF Served, IsOf
      <4> QED
        BY <2>3, <4>2, <4>3
    <3>5. v.sample = 0 => Served(scans, v, d) \/ StillAhead(v, d)
      BY <2>01, <3>1 DEF DueOK
    <3> QED
      BY <2>01, <3>1, <3>2, <3>3, <3>4, <3>5 DEF DueOK
  <2>4. CASE Rechecks(v, w)
    <3>1. /\ w.page = v.page /\ w.next = v.next /\ w.sample = v.sample /\ w.width = v.width /\ w.yes = v.yes
          /\ w.visited = v.visited /\ w.pc = "insert" /\ v.pc = "tally" /\ scans' = scans
          /\ w.seen = (snText[v.page[v.next].p] = v.page[v.next].text)
      BY <2>4 DEF Rechecks, ScanRec
    <3>2. Served(scans, v, d) => Served(scans', w, d)
      BY <3>1, ServedStays
    <3>3. StillAhead(v, d) => StillAhead(w, d)
      BY <3>1 DEF StillAhead
    <3>4. IsOf(w.page[w.next], d) => w.seen
      BY <2>01, <3>1 DEF IsOf
    <3> QED
      BY <2>01, <3>1, <3>2, <3>3, <3>4 DEF DueOK
  <2>5. CASE TurnsPage(v, w)
    <3>1. /\ w.after = v.page[Len(v.page)].p /\ w.width = v.width /\ w.yes = v.yes /\ w.visited = v.visited
          /\ w.pc = "select" /\ v.pc = "tally" /\ scans' = scans /\ v.sample = 0 /\ ~(v.next <= Len(v.page))
      BY <2>5 DEF TurnsPage, ScanRec
    <3>2. Served(scans, v, d) => Served(scans', w, d)
      BY <3>1, ServedStays
    <3>3. StillAhead(v, d) => d[1] > w.after
      BY <2>0, <3>1 DEF StillAhead
    <3> QED
      BY <2>01, <3>1, <3>2, <3>3 DEF DueOK
  <2> QED
    BY <1>2, <2>1, <2>2, <2>3, <2>4, <2>5 DEF RunMoves
<1> QED
  BY <1>1, <1>2 DEF ScanMoves, SN!Idle, Active, ScanSteps

LEMMA DueKept ==
  ASSUME ScanConstants, ScanType, SaidInv, DueInv, [SN!Next]_SN!vars
  PROVE  DueInv'
<1>1. CASE UNCHANGED SN!vars
  BY <1>1 DEF SN!vars, DueInv, SN!Idle
<1>2. CASE World
  <2> SUFFICES ASSUME NEW r \in ScanRuns, snRun'[r] # SN!Idle, NEW d \in due'[r]
               PROVE  DueOK(snText', scans', snRun'[r], d)
    BY DEF DueInv, SN!Idle
  <2>1. snRun'[r] = snRun[r] /\ d \in due[r] /\ snText'[d[1]] = d[2]
    BY <1>2 DEF World
  <2> DEFINE v == snRun[r]
  <2>2. DueOK(snText, scans, v, d)
    BY <2>1 DEF DueInv
  <2>3. Served(scans, v, d) => Served(scans', v, d)
    <3>1. d[1] \in SN!Positions /\ snText'[d[1]] # SN!Gone
      BY <2>1, <2>2 DEF DueOK
    <3> QED
      BY <1>2, <3>1 DEF World, Served
  <2> QED
    BY <2>1, <2>2, <2>3 DEF DueOK
<1>3. ASSUME snText' = snText, NEW r \in ScanRuns, NEW w, ScanMoves(r, w), snRun' = [snRun EXCEPT ![r] = w] PROVE DueInv'
  <2>1. scans \subseteq scans' /\ \A q \in ScanRuns : q # r => due'[q] = due[q]
    BY <1>3, MovesLeave
  <2>2. \A d \in due'[r] : DueOK(snText, scans', w, d)
    BY <1>3, NothingLost DEF DueInv
  <2>3. ASSUME NEW q \in ScanRuns, q # r, snRun[q] # SN!Idle, NEW d \in due[q] PROVE DueOK(snText, scans', snRun[q], d)
    BY <2>1, <2>3, RowsServe DEF DueInv
  <2> QED
    BY <1>3, <2>1, <2>2, <2>3 DEF DueInv, ScanType, SN!Idle
<1> QED
  BY <1>1, <1>2, <1>3, ScanCases

ScanInv == ScanType /\ SaidInv /\ DueInv

LEMMA ScanBegins ==
  ASSUME ScanConstants, SN!Init
  PROVE  ScanInv
<1>1. PICK scene \in ScanScenes :
        /\ snText = scene.text /\ plan = scene.plan
        /\ scans = {[p |-> p, text |-> snText[p], recipe |-> SN!OldRecipe(w),
                     result |-> [quality |-> 1, boilerplate |-> 0]] : p \in scene.old, w \in Widths}
  BY DEF SN!Init
<1>2. /\ snCache = [in \in SN!Inputs |-> SN!NoAnswer] /\ snRun = [r \in ScanRuns |-> SN!Idle]
      /\ due = [r \in ScanRuns |-> {}]
  BY DEF SN!Init
<1>3. ScanType
  BY <1>1, <1>2 DEF ScanConstants, ScanType
<1>4. SN!AnswerIsOfText
  <2>1. \A w : SN!OldRecipe(w).build = "old"
    BY DEF SN!OldRecipe, SN!Recipe
  <2>2. \A s \in scans : \E w : s.recipe = SN!OldRecipe(w)
    BY <1>1
  <2> QED
    BY <2>1, <2>2 DEF SN!AnswerIsOfText
<1> QED
  BY <1>2, <1>3, <1>4 DEF ScanInv, SaidInv, CacheOK, DueInv

LEMMA ScanIsInductive ==
  ASSUME ScanConstants PROVE SN!Spec => []ScanInv
<1>1. SN!Init => ScanInv
  BY ScanBegins
<1>2. ScanInv /\ [SN!Next]_SN!vars => ScanInv'
  BY ScanTyped, SaidKept, DueKept DEF ScanInv
<1> QED
  BY <1>1, <1>2, PTL DEF SN!Spec

\* In every state, for every library, fleet of runs and set of replies:
\* a stored scan holds what the model said of the text the row names, whatever
\* became of the chunk and of the page's order meanwhile (insertChunkScan).
THEOREM AnswersAreOfTheirText == ASSUME ScanConstants PROVE SN!Spec => []SN!AnswerIsOfText
<1>1. ScanInv => SN!AnswerIsOfText
  BY DEF ScanInv, SaidInv
<1> QED
  BY <1>1, ScanIsInductive, PTL

\* No run stops at an answer that the mapping takes and the table refuses, and
\* the cache keeps none that would fail again (MapAnswers, ChunkScan.validate).
THEOREM MappedAnswersAreStored == ASSUME ScanConstants PROVE SN!Spec => []SN!MappedIsStorable
<1>1. ASSUME ScanInv PROVE SN!MappedIsStorable
  <2>1. ASSUME NEW r \in ScanRuns PROVE snRun[r].pc # "refused"
    <3>1. snRun[r] = SN!Idle \/ snRun[r].pc \in ScanSteps
      BY <1>1 DEF ScanInv, ScanType, Active
    <3> QED
      BY <3>1 DEF ScanSteps, SN!Idle
  <2>2. \A in \in SN!Inputs : snCache[in] # SN!NoAnswer =>
          SN!Usable(snCache[in].answer) /\ SN!Valid(SN!Result(snCache[in].answer))
    BY <1>1, MappedIsValid DEF ScanInv, SaidInv, CacheOK, Said
  <2> QED
    BY <2>1, <2>2 DEF SN!MappedIsStorable
<1> QED
  BY <1>1, ScanIsInductive, PTL

\* A run that ends by itself leaves out no chunk that was there when it began and
\* is unchanged, however rebuilds, requeues and other runs move the set that its
\* pages are cut from (scanCandidatesSQL's keyset).
THEOREM RunsLeaveNoneOut == ASSUME ScanConstants PROVE SN!Spec => []SN!NoneLeftOut
<1>1. ASSUME ScanInv PROVE SN!NoneLeftOut
  <2> SUFFICES ASSUME NEW r \in ScanRuns, snRun[r].pc = "done", NEW d \in due[r]
               PROVE  \/ SN!Scanned(d[1], d[2], SN!Recipe(snRun[r].width))
                      \/ ~snRun[r].yes /\ d[1] \in snRun[r].visited
    BY DEF SN!NoneLeftOut
  <2>1. snRun[r] # SN!Idle
    BY DEF SN!Idle
  <2>2. Served(scans, snRun[r], d)
    BY <1>1, <2>1 DEF ScanInv, DueInv, DueOK
  <2> QED
    BY <2>2 DEF Served, SN!Scanned
<1> QED
  BY <1>1, ScanIsInductive, PTL

\* The scans that are there at the start are finitely many, and of texts.
RowConstants ==
  /\ SN!Gone \notin Texts /\ IsFiniteSet(Widths)
  /\ \A scene \in ScanScenes : IsFiniteSet(scene.old) /\ \A p \in scene.old : scene.text[p] \in Texts

Olds(old) ==
  {[p |-> p, text |-> snText[p], recipe |-> SN!OldRecipe(w), result |-> [quality |-> 1, boilerplate |-> 0]] :
     p \in old, w \in Widths}

\* A row is the one of its key and of a text, and its quality is on the scale.
RowsInv ==
  /\ IsFiniteSet(scans)
  /\ \A s, u \in scans : SN!SameKey(s, u) => s = u
  /\ \A s \in scans : s.result.quality \in 1 .. 5 /\ s.text \in Texts

LEMMA OldsAreRows ==
  ASSUME IsFiniteSet(Widths), NEW old, IsFiniteSet(old), \A p \in old : snText[p] \in Texts, scans = Olds(old)
  PROVE  RowsInv
<1> DEFINE Old(p, w) == [p |-> p, text |-> snText[p], recipe |-> SN!OldRecipe(w), result |-> [quality |-> 1, boilerplate |-> 0]]
           f == [z \in old \X Widths |-> Old(z[1], z[2])]
<1>1. IsFiniteSet(old \X Widths)
  BY FS_Product
<1>2. \A s \in scans : \E p \in old, w \in Widths : s = Old(p, w)
  BY DEF Olds
<1>3. f \in Surjection(old \X Widths, scans)
  <2>1. \A p \in old, w \in Widths : Old(p, w) \in scans
    BY DEF Olds
  <2> HIDE DEF Old
  <2>2. f \in [old \X Widths -> scans]
    BY <2>1
  <2>3. \A s \in scans : \E z \in old \X Widths : f[z] = s
    <3> SUFFICES ASSUME NEW s \in scans PROVE \E z \in old \X Widths : f[z] = s
      OBVIOUS
    <3>1. PICK p \in old, w \in Widths : s = Old(p, w)
      BY <1>2
    <3>2. <<p, w>> \in old \X Widths /\ f[<<p, w>>] = s
      BY <3>1
    <3> QED
      BY <3>2
  <2> QED
    BY <2>2, <2>3 DEF Surjection
<1>4. IsFiniteSet(scans)
  BY <1>1, <1>3, FS_Surjection
<1>5. \A p, w : /\ Old(p, w).p = p /\ Old(p, w).text = snText[p] /\ Old(p, w).recipe = SN!OldRecipe(w)
                /\ Old(p, w).result.quality = 1
  OBVIOUS
<1>6. \A p, v, w : SN!OldRecipe(v) = SN!OldRecipe(w) => Old(p, v) = Old(p, w)
  OBVIOUS
<1> HIDE DEF Old
<1> QED
  BY <1>2, <1>4, <1>5, <1>6 DEF RowsInv, SN!SameKey

LEMMA RowsKept ==
  ASSUME ScanConstants, ScanInv, RowsInv, [SN!Next]_SN!vars
  PROVE  RowsInv'
<1>1. ASSUME scans' \subseteq scans PROVE RowsInv'
  BY <1>1, FS_Subset DEF RowsInv, SN!SameKey
<1>2. ASSUME NEW r \in ScanRuns, NEW w, ScanMoves(r, w) PROVE RowsInv'
  <2> DEFINE v == snRun[r]
             c == v.page[v.next]
             o == v.outs[v.next]
  <2>1. CASE Active(v) /\ OutcomesOK(said, v) /\ Inserts(r, v, w)
    <3>1. v.page \in Seq(Candidates) /\ v.next \in 1 .. Len(v.page) /\ o.is = "answer"
      BY <2>1 DEF Inserts, OutcomesOK, Active
    <3>2. SN!Usable(o.answer)
      BY <2>1, <3>1 DEF OutcomesOK, Said
    <3>3. RowFrom(c, o).result.quality \in 1 .. 5
      <4>1. o.answer.score \in 0 .. 4
        BY <3>2 DEF SN!Usable
      <4>2. RowFrom(c, o).result.quality = o.answer.score + 1
        BY DEF RowFrom, SN!Result
      <4> HIDE DEF c, o
      <4> QED
        BY <4>1, <4>2
    <3>6. RowFrom(c, o).text \in Texts
      <4>1. c \in Candidates
        BY <3>1
      <4> QED
        BY <4>1 DEF RowFrom, Candidates
    <3>4. CASE \A s \in scans : ~SN!SameKey(s, RowFrom(c, o))
      <4> DEFINE u == RowFrom(c, o)
      <4>1. scans' = scans \cup {u} \/ scans' = scans
        BY <2>1 DEF Inserts
      <4>2. \A s \in scans : ~SN!SameKey(s, u) /\ ~SN!SameKey(u, s)
        BY <3>4 DEF SN!SameKey
      <4> HIDE DEF u, c, o
      <4>3. IsFiniteSet(scans \cup {u})
        BY FS_AddElement DEF RowsInv
      <4>4. u.result.quality \in 1 .. 5 /\ u.text \in Texts
        BY <3>3, <3>6 DEF u
      <4>5. CASE scans' = scans \cup {u}
        <5>1. \A s, t \in scans' : SN!SameKey(s, t) => s = t
          BY <4>2, <4>5 DEF RowsInv
        <5> QED
          BY <4>3, <4>4, <4>5, <5>1 DEF RowsInv, SN!SameKey
      <4> QED
        BY <1>1, <4>1, <4>5
    <3>5. CASE ~\A s \in scans : ~SN!SameKey(s, RowFrom(c, o))
      BY <1>1, <2>1, <3>5 DEF Inserts
    <3> QED
      BY <3>4, <3>5
  <2>2. CASE ~(Active(v) /\ OutcomesOK(said, v) /\ Inserts(r, v, w))
    BY <1>1, <1>2, <2>2 DEF ScanMoves, RunBegins, RunMoves, Selects, PageAnswers, RunGoesOn, Skips, Rechecks, TurnsPage
  <2> QED
    BY <2>1, <2>2
<1> QED
  BY <1>1, <1>2, ScanCases DEF ScanInv, World, SN!vars

\* Numbers of the points that a set of scans has.
LEMMA PointsAreOnScale ==
  ASSUME NEW S, IsFiniteSet(S), NEW n \in Nat \ {0}, \A s \in S : s.result.quality \in 1 .. n
  PROVE  /\ Cardinality(S) <= Cardinality(SN!Points(S))
         /\ Cardinality(SN!Points(S)) <= n * Cardinality(S)
<1>1. S \X {1} \subseteq SN!Points(S) /\ SN!Points(S) \subseteq S \X (1 .. n)
  <2>1. \A s \in S : 1 \in 1 .. s.result.quality /\ 1 .. s.result.quality \subseteq 1 .. n
    OBVIOUS
  <2>2. \A z : z \in SN!Points(S) <=> \E s \in S : z \in {s} \X (1 .. s.result.quality)
    BY DEF SN!Points
  <2> QED
    BY <2>1, <2>2
<1>2. IsFiniteSet({1}) /\ Cardinality({1}) = 1
  BY FS_Singleton
<1>3. IsFiniteSet(1 .. n) /\ Cardinality(1 .. n) = n
  BY FS_Interval
<1>4. /\ Cardinality(S) \in Nat
      /\ Cardinality(S \X {1}) = Cardinality(S) * 1
      /\ IsFiniteSet(S \X (1 .. n)) /\ Cardinality(S \X (1 .. n)) = Cardinality(S) * n
  BY <1>2, <1>3, FS_Product, FS_CardinalityType
<1>5. IsFiniteSet(SN!Points(S)) /\ Cardinality(SN!Points(S)) <= Cardinality(S \X (1 .. n))
  BY <1>1, <1>4, FS_Subset
<1>6. Cardinality(S \X {1}) <= Cardinality(SN!Points(S))
  BY <1>1, <1>5, FS_Subset
<1>7. Cardinality(S) * n = n * Cardinality(S) /\ Cardinality(S) * 1 = Cardinality(S)
  BY <1>4
<1> HIDE DEF SN!Points
<1> QED
  BY <1>4, <1>5, <1>6, <1>7

LEMMA IndexIsRight ==
  ASSUME SN!Gone \notin Texts, RowsInv PROVE SN!IndexIsCurrent
<1>1. \A recipe, S : /\ SN!Counted(recipe, S) \subseteq scans
                     /\ IsFiniteSet(SN!Counted(recipe, S))
  <2>1. \A recipe, S : SN!Counted(recipe, S) \subseteq scans
    BY DEF SN!Counted
  <2> QED
    BY <2>1, FS_Subset DEF RowsInv
<1>2. ASSUME NEW recipe, NEW p \in SN!Positions
      PROVE  SN!Cardinality({s \in SN!Counted(recipe, SN!Scopes) : s.p = p}) <= IF snText[p] = SN!Gone THEN 0 ELSE 1
  <2> DEFINE S == {s \in SN!Counted(recipe, SN!Scopes) : s.p = p}
  <2>1. \A s \in S : s \in scans /\ s.p = p /\ s.text = snText[p] /\ s.recipe = recipe
    BY DEF SN!Counted, SN!Describes
  <2> HIDE DEF S
  <2>2. \A s, u \in S : s = u
    BY <2>1 DEF RowsInv, SN!SameKey
  <2>3. snText[p] = SN!Gone => S = {}
    BY <2>1 DEF RowsInv
  <2>4. CASE S = {}
    <3>1. SN!Cardinality(S) = 0
      BY <2>4, ScanCount, FS_EmptySet
    <3> QED
      BY <3>1 DEF S
  <2>5. CASE S # {}
    <3>1. \E s : S = {s}
      BY <2>2, <2>5
    <3>2. SN!Cardinality(S) = 1
      BY <3>1, ScanCount, FS_Singleton
    <3> QED
      BY <2>3, <2>5, <3>2 DEF S
  <2> QED
    BY <2>4, <2>5
<1>3. ASSUME NEW recipe, NEW point \in SN!QualityIndex(recipe)
      PROVE  point.n <= point.sum /\ point.sum <= 5 * point.n
  <2>1. PICK S : point = [n |-> SN!Cardinality(SN!Counted(recipe, S)),
                          sum |-> SN!Cardinality(SN!Points(SN!Counted(recipe, S)))]
    BY <1>3 DEF SN!QualityIndex
  <2> DEFINE C == SN!Counted(recipe, S)
  <2>2. IsFiniteSet(C) /\ \A s \in C : s.result.quality \in 1 .. 5
    BY <1>1 DEF RowsInv
  <2>3. point.n = SN!Cardinality(C) /\ point.sum = SN!Cardinality(SN!Points(C))
    BY <2>1
  <2> HIDE DEF C
  <2>4. point.n = Cardinality(C) /\ point.sum = Cardinality(SN!Points(C))
    BY <2>3, ScanCount
  <2> QED
    BY <2>2, <2>4, PointsAreOnScale
<1> QED
  BY <1>2, <1>3 DEF SN!IndexIsCurrent

\* Whatever is rebuilt, requeued and scanned meanwhile, a chunk counts once in a
\* recipe's index and for what it now says, and every mean of the index normalizes
\* (qualityGroupsSQL's join, and its "no latest to pick").
THEOREM IndexCountsOnce ==
  ASSUME ScanConstants, RowConstants
  PROVE  SN!Spec => []SN!IndexIsCurrent
<1>1. ASSUME SN!Init PROVE RowsInv
  <2>1. PICK scene \in ScanScenes :
          /\ snText = scene.text
          /\ scans = {[p |-> p, text |-> snText[p], recipe |-> SN!OldRecipe(w),
                       result |-> [quality |-> 1, boilerplate |-> 0]] : p \in scene.old, w \in Widths}
    BY <1>1 DEF SN!Init
  <2>2. scans = Olds(scene.old)
    BY <2>1 DEF Olds
  <2> QED
    BY <2>1, <2>2, OldsAreRows DEF RowConstants
<1>2. RowsInv => SN!IndexIsCurrent
  BY IndexIsRight DEF RowConstants
<1>3. ScanInv /\ RowsInv /\ [SN!Next]_SN!vars => RowsInv'
  BY RowsKept
<1> QED
  BY <1>1, <1>2, <1>3, ScanIsInductive, PTL DEF SN!Spec

\* Together: what is stored, counted and left to do of any scan.
THEOREM ScansKeepTheirPromise ==
  ASSUME ScanConstants, RowConstants
  PROVE  ReportsSpec => []ScansAreTrue
<1>1. SN!Spec => []SN!ScansAreTrue
  BY AnswersAreOfTheirText, IndexCountsOnce, RunsLeaveNoneOut, MappedAnswersAreStored, PTL DEF SN!ScansAreTrue
<1>2. ~(part = "sn") /\ [UNCHANGED part]_part => ~(part = "sn")'
  OBVIOUS
<1> QED
  BY <1>1, <1>2, PTL DEF ReportsSpec, ScansAreTrue

-----------------------------------------------------------------------------
(* The file monitor: any library, and any number of handlers beside the    *)
(* walk.                                                                   *)

\* Files are numbered from 1, and the jobs that are there at the start are of
\* files, and of contents, of their own (the unique constraints).
LibraryConstants ==
  /\ 0 \notin LibFiles
  /\ \A l \in Libraries : \A f, g \in l.there \cap l.junk : l.copy[f] = l.copy[g] => f = g

\* A walk is a record of five fields, a task of seven.
WalkRec(pc, todo, there, lost, other) == [pc |-> pc, todo |-> todo, there |-> there, lost |-> lost, other |-> other]
TaskRec(pc, file, sum, job, prior, streak, polls) ==
  [pc |-> pc, file |-> file, sum |-> sum, job |-> job, last |-> prior, streak |-> streak, polls |-> polls]

\* What a step makes of the walk or of a task.
Ended(w) == [w EXCEPT !.pc = "done"]
Goes(w, todo) == [w EXCEPT !.todo = todo]
Loses(w, todo, lost) == [w EXCEPT !.todo = todo, !.lost = lost]
LosesFile(w, lost) == [w EXCEPT !.lost = lost]
FindsOther(w, other) == [w EXCEPT !.other = other]

WalkShaped(w) == w = WalkRec(w.pc, w.todo, w.there, w.lost, w.other)
TaskShaped(t) == t = TaskRec(t.pc, t.file, t.sum, t.job, t.last, t.streak, t.polls)

LEMMA WalksAfter ==
  ASSUME NEW w, WalkShaped(w)
  PROVE  /\ Ended(w) = WalkRec("done", w.todo, w.there, w.lost, w.other)
         /\ \A x : Goes(w, x) = WalkRec(w.pc, x, w.there, w.lost, w.other)
         /\ \A x, y : Loses(w, x, y) = WalkRec(w.pc, x, w.there, y, w.other)
         /\ \A x : LosesFile(w, x) = WalkRec(w.pc, w.todo, w.there, x, w.other)
         /\ \A x : FindsOther(w, x) = WalkRec(w.pc, w.todo, w.there, w.lost, x)
<1> DEFINE pc == w.pc todo == w.todo there == w.there lost == w.lost other == w.other
<1>1. w = [pc |-> pc, todo |-> todo, there |-> there, lost |-> lost, other |-> other]
  BY DEF WalkShaped, WalkRec
<1> HIDE DEF pc, todo, there, lost, other
<1>2. /\ Ended(w) = WalkRec("done", todo, there, lost, other)
      /\ \A x : Goes(w, x) = WalkRec(pc, x, there, lost, other)
      /\ \A x : LosesFile(w, x) = WalkRec(pc, todo, there, x, other)
      /\ \A x : FindsOther(w, x) = WalkRec(pc, todo, there, lost, x)
  BY <1>1 DEF Ended, Goes, LosesFile, FindsOther, WalkRec
<1>3. ASSUME NEW x, NEW y PROVE Loses(w, x, y) = WalkRec(pc, x, there, y, other)
  <2> DEFINE u == [w EXCEPT !.todo = x]
  <2>1. u = [pc |-> pc, todo |-> x, there |-> there, lost |-> lost, other |-> other]
    BY <1>1
  <2>2. Loses(w, x, y) = [u EXCEPT !.lost = y]
    BY DEF Loses
  <2> HIDE DEF u
  <2> QED
    BY <2>1, <2>2 DEF WalkRec
<1> QED
  BY <1>2, <1>3 DEF pc, todo, there, lost, other

\* A walk's fields.
LEMMA WalkFields ==
  ASSUME NEW pc, NEW todo, NEW there, NEW lost, NEW other
  PROVE  LET w == WalkRec(pc, todo, there, lost, other)
         IN w.pc = pc /\ w.todo = todo /\ w.there = there /\ w.lost = lost /\ w.other = other /\ WalkShaped(w)
BY DEF WalkRec, WalkShaped

\* What the walk makes of its task.
Found(f) == [FM!NoTask EXCEPT !.pc = "hash", !.file = f]
Summed(t, sum) == [t EXCEPT !.pc = "insert", !.sum = sum]
Inserted(t, job) == [t EXCEPT !.pc = "bytes", !.job = job]

LEMMA TasksAfter ==
  /\ TaskShaped(FM!NoTask) /\ FM!NoTask.pc = "none"
  /\ \A f : TaskShaped(Found(f)) /\ Found(f).pc = "hash" /\ Found(f).file = f
  /\ \A t : TaskShaped(t) =>
       /\ \A x : TaskShaped(Summed(t, x)) /\ Summed(t, x).pc = "insert" /\ Summed(t, x).file = t.file
       /\ \A x : TaskShaped(Inserted(t, x)) /\ Inserted(t, x).pc = "bytes" /\ Inserted(t, x).file = t.file
<1>1. ASSUME NEW t, TaskShaped(t), NEW pc, NEW x
      PROVE  /\ [t EXCEPT !.pc = pc, !.sum = x] = TaskRec(pc, t.file, x, t.job, t.last, t.streak, t.polls)
             /\ [t EXCEPT !.pc = pc, !.job = x] = TaskRec(pc, t.file, t.sum, x, t.last, t.streak, t.polls)
             /\ [t EXCEPT !.pc = pc, !.file = x] = TaskRec(pc, x, t.sum, t.job, t.last, t.streak, t.polls)
  <2> DEFINE was == t.pc file == t.file sum == t.sum job == t.job prior == t.last streak == t.streak polls == t.polls
             u == [t EXCEPT !.pc = pc]
  <2>1. t = [pc |-> was, file |-> file, sum |-> sum, job |-> job, last |-> prior, streak |-> streak, polls |-> polls]
    BY <1>1 DEF TaskShaped, TaskRec
  <2> HIDE DEF was, file, sum, job, prior, streak, polls
  <2>2. u = [pc |-> pc, file |-> file, sum |-> sum, job |-> job, last |-> prior, streak |-> streak, polls |-> polls]
    BY <2>1
  <2>3. /\ [t EXCEPT !.pc = pc, !.sum = x] = [u EXCEPT !.sum = x]
        /\ [t EXCEPT !.pc = pc, !.job = x] = [u EXCEPT !.job = x]
        /\ [t EXCEPT !.pc = pc, !.file = x] = [u EXCEPT !.file = x]
    OBVIOUS
  <2> HIDE DEF u
  <2>4. /\ [u EXCEPT !.sum = x] = TaskRec(pc, file, x, job, prior, streak, polls)
        /\ [u EXCEPT !.job = x] = TaskRec(pc, file, sum, x, prior, streak, polls)
        /\ [u EXCEPT !.file = x] = TaskRec(pc, x, sum, job, prior, streak, polls)
    BY <2>2 DEF TaskRec
  <2> QED
    BY <2>3, <2>4 DEF file, sum, job, prior, streak, polls
<1>2. \A pc, file, sum, job, prior, streak, polls : LET t == TaskRec(pc, file, sum, job, prior, streak, polls)
        IN TaskShaped(t) /\ t.pc = pc /\ t.file = file
  BY DEF TaskShaped, TaskRec
<1>3. TaskShaped(FM!NoTask) /\ FM!NoTask.pc = "none"
  BY DEF TaskShaped, TaskRec, FM!NoTask
<1>4. ASSUME NEW f PROVE TaskShaped(Found(f)) /\ Found(f).pc = "hash" /\ Found(f).file = f
  <2> DEFINE t == FM!NoTask
  <2>1. Found(f) = TaskRec("hash", f, t.sum, t.job, t.last, t.streak, t.polls)
    BY <1>1, <1>3 DEF Found
  <2> QED
    BY <1>2, <2>1
<1>5. ASSUME NEW t, TaskShaped(t), NEW x
      PROVE  /\ TaskShaped(Summed(t, x)) /\ Summed(t, x).pc = "insert" /\ Summed(t, x).file = t.file
             /\ TaskShaped(Inserted(t, x)) /\ Inserted(t, x).pc = "bytes" /\ Inserted(t, x).file = t.file
  <2>1. /\ Summed(t, x) = TaskRec("insert", t.file, x, t.job, t.last, t.streak, t.polls)
        /\ Inserted(t, x) = TaskRec("bytes", t.file, t.sum, x, t.last, t.streak, t.polls)
    BY <1>1, <1>5 DEF Summed, Inserted
  <2> QED
    BY <1>2, <2>1
<1> QED
  BY <1>3, <1>4, <1>5

\* The walk is on its way to a file, or hands it in.
ToBeFound(f) == FM!Entry(DirOf[f], f) \in walk.todo \/ FM!Entry(DirOf[f], 0) \in walk.todo
HandedIn(f) == task[0].pc \in {"hash", "insert"} /\ task[0].file = f

WalkOwes ==
  walk.pc # "idle" =>
    \A f \in walk.there \ (walk.lost \cup walk.other \cup fmScene.slow) :
      FM!IsAudio(f) => FM!Queued(f) \/ (walk.pc = "on" /\ (ToBeFound(f) \/ HandedIn(f)))

LibraryOK ==
  /\ fmDisk \in [LibFiles -> Int] /\ \A f \in LibFiles : fmDisk[f] >= 0 => DirOf[f] \in dirs
  /\ walk.there \subseteq FM!There

TasksOK ==
  /\ task = [a \in LibFiles \cup {0} |-> task[a]]
  /\ TaskShaped(task[0]) /\ task[0].pc \in {"none", "hash", "insert", "bytes"}

MonitorInv ==
  /\ LibraryOK /\ TasksOK /\ FM!OneJobPerFile
  /\ WalkShaped(walk) /\ walk.pc \in {"idle", "on", "done"} /\ WalkOwes

LEMMA MonitorBegins == ASSUME LibraryConstants, FM!Init PROVE MonitorInv
<1>1. walk = FM!NoWalk /\ WalkShaped(FM!NoWalk) /\ FM!NoWalk.pc = "idle" /\ FM!NoWalk.there = {}
  BY DEF FM!Init, FM!NoWalk, WalkShaped, WalkRec
<1>2. LibraryOK
  BY <1>1 DEF FM!Init, LibraryOK
<1>3. TasksOK
  <2>1. task = [a \in LibFiles \cup {0} |-> FM!NoTask]
    BY DEF FM!Init
  <2> QED
    BY <2>1, TasksAfter DEF TasksOK
<1>4. FM!OneJobPerFile
  <2>1. /\ jobs = {[file |-> f, sum |-> <<fmScene.copy[f], 0>>] : f \in fmScene.there \cap fmScene.junk}
        /\ \A f, g \in fmScene.there \cap fmScene.junk : fmScene.copy[f] = fmScene.copy[g] => f = g
    BY DEF FM!Init, LibraryConstants
  <2>2. ASSUME NEW j \in jobs, NEW k \in jobs, j.file = k.file \/ j.sum = k.sum PROVE j = k
    <3>1. PICK f \in fmScene.there \cap fmScene.junk : j = [file |-> f, sum |-> <<fmScene.copy[f], 0>>]
      BY <2>1
    <3>2. PICK g \in fmScene.there \cap fmScene.junk : k = [file |-> g, sum |-> <<fmScene.copy[g], 0>>]
      BY <2>1
    <3>3. f = g \/ fmScene.copy[f] = fmScene.copy[g]
      BY <2>2, <3>1, <3>2
    <3> QED
      BY <2>1, <3>1, <3>2, <3>3
  <2> QED
    BY <2>2 DEF FM!OneJobPerFile
<1> QED
  BY <1>1, <1>2, <1>3, <1>4 DEF MonitorInv, WalkOwes

\* A step that leaves the walk and what it hands in alone, and takes no job away.
LEMMA WalkGoesOn ==
  ASSUME MonitorInv, fmScene' = fmScene, walk' = walk, jobs \subseteq jobs',
         task'[0] = task[0], task' = [a \in LibFiles \cup {0} |-> task'[a]]
  PROVE  TasksOK' /\ WalkOwes' /\ WalkShaped(walk)' /\ walk'.pc \in {"idle", "on", "done"}
<1>1. \A f : FM!Queued(f) => FM!Queued(f)'
  BY DEF FM!Queued
<1>2. \A f : (ToBeFound(f)' <=> ToBeFound(f)) /\ (HandedIn(f)' <=> HandedIn(f)) /\ (FM!IsAudio(f)' <=> FM!IsAudio(f))
  BY DEF ToBeFound, HandedIn, FM!IsAudio, FM!Entry
<1>3. WalkOwes'
  BY <1>1, <1>2 DEF WalkOwes, MonitorInv
<1>4. TasksOK'
  BY DEF TasksOK, MonitorInv, TaskShaped, TaskRec
<1> QED
  BY <1>3, <1>4 DEF MonitorInv, WalkShaped

\* One that leaves the library alone, or adds to it.
LEMMA LibraryStays ==
  ASSUME LibraryOK, UNCHANGED <<fmDisk, dirs>>, walk'.there \in {walk.there, FM!There, {}}
  PROVE  LibraryOK'
BY DEF LibraryOK, FM!There

LEMMA LibraryGrows ==
  ASSUME MonitorInv, (\E d \in FM!Dirs : FM!MakeDir(d)) \/ \E f \in LibFiles : FM!Arrive(f) \/ FM!Grow(f)
  PROVE  MonitorInv'
<1>1. UNCHANGED <<fmScene, walk, jobs, task>>
  BY DEF FM!MakeDir, FM!Arrive, FM!Grow
<1>2. LibraryOK'
  <2>1. CASE \E d \in FM!Dirs : FM!MakeDir(d)
    BY <1>1, <2>1 DEF FM!MakeDir, LibraryOK, MonitorInv, FM!There
  <2>2. ASSUME NEW f \in LibFiles, FM!Arrive(f) \/ FM!Grow(f) PROVE LibraryOK'
    <3>1. dirs' = dirs /\ (fmDisk[f] \geq 0 \/ DirOf[f] \in dirs)
      BY <2>2 DEF FM!Arrive, FM!Grow, MonitorInv, LibraryOK
    <3>2. fmDisk' \in [LibFiles -> Int] /\ \A g \in LibFiles : (fmDisk[g] >= 0 => fmDisk'[g] >= 0) /\ (g # f => fmDisk'[g] = fmDisk[g])
      BY <2>2 DEF FM!Arrive, FM!Grow, MonitorInv, LibraryOK
    <3> QED
      BY <1>1, <3>1, <3>2 DEF MonitorInv, LibraryOK, FM!There
  <2> QED
    BY <2>1, <2>2
<1>3. FM!OneJobPerFile'
  BY <1>1 DEF MonitorInv, FM!OneJobPerFile
<1>4. task' = [a \in LibFiles \cup {0} |-> task'[a]]
  BY <1>1 DEF MonitorInv, TasksOK
<1> QED
  BY <1>1, <1>2, <1>3, <1>4, WalkGoesOn DEF MonitorInv

\* A walk begins with everything there is ahead of it.
Began(there, todo) == [FM!NoWalk EXCEPT !.pc = "on", !.there = there, !.todo = todo]

LEMMA WalkBegins ==
  ASSUME MonitorInv, FM!BeginWalk, UNCHANGED <<fmScene, fmDisk, dirs, task>>
  PROVE  LibraryOK' /\ TasksOK' /\ WalkShaped(walk)' /\ walk'.pc \in {"idle", "on", "done"} /\ WalkOwes'
<1> DEFINE todo == {FM!Entry(d, 0) : d \in dirs \ {FM!Root}} \cup FM!Within(FM!Root)
<1>1. walk' = Began(FM!There, todo)
  BY DEF FM!BeginWalk, Began
<1>2. \A x, y : Began(x, y) = WalkRec("on", y, x, {}, {})
  <2>1. ASSUME NEW x, NEW y PROVE Began(x, y) = WalkRec("on", y, x, {}, {})
    <3> DEFINE u == [FM!NoWalk EXCEPT !.pc = "on"]
               v == [u EXCEPT !.there = x]
    <3>1. u = WalkRec("on", {}, {}, {}, {})
      BY DEF FM!NoWalk, WalkRec
    <3>2. Began(x, y) = [v EXCEPT !.todo = y]
      BY DEF Began
    <3> HIDE DEF u
    <3>3. v = WalkRec("on", {}, x, {}, {})
      BY <3>1 DEF WalkRec
    <3> HIDE DEF v
    <3>4. [v EXCEPT !.todo = y] = WalkRec("on", y, x, {}, {})
      BY <3>3 DEF WalkRec
    <3> QED
      BY <3>2, <3>4
  <2> QED
    BY <2>1
<1> HIDE DEF todo
<1>3. /\ walk'.pc = "on" /\ walk'.todo = todo /\ walk'.there = FM!There /\ WalkShaped(walk')
  BY <1>1, <1>2, WalkFields
<1>4. \A f \in FM!There : FM!Entry(DirOf[f], f) \in todo \/ FM!Entry(DirOf[f], 0) \in todo
  <2>1. ASSUME NEW f \in FM!There PROVE FM!Entry(DirOf[f], f) \in todo \/ FM!Entry(DirOf[f], 0) \in todo
    <3>1. DirOf[f] \in dirs
      BY <2>1 DEF MonitorInv, LibraryOK, FM!There
    <3>2. CASE DirOf[f] = FM!Root
      BY <2>1, <3>2 DEF todo, FM!Within, FM!There
    <3>3. CASE DirOf[f] # FM!Root
      BY <3>1, <3>3 DEF todo
    <3> QED
      BY <3>2, <3>3
  <2> QED
    BY <2>1
<1>5. WalkOwes'
  <2>1. \A f \in FM!There : ToBeFound(f)'
    BY <1>3, <1>4 DEF ToBeFound, FM!Entry
  <2> QED
    BY <1>3, <2>1 DEF WalkOwes
<1>6. LibraryOK'
  BY <1>3, LibraryStays DEF MonitorInv
<1>7. TasksOK'
  BY DEF MonitorInv, TasksOK, TaskShaped, TaskRec
<1> QED
  BY <1>3, <1>5, <1>6, <1>7 DEF WalkShaped

LEMMA MonitorMoves ==
  ASSUME LibraryConstants, MonitorInv, FM!Start \/ FM!Watch \/ FM!Restart \/ FM!Tick
  PROVE  MonitorInv'
<1>1. ASSUME FM!Start PROVE MonitorInv'
  <2>1. UNCHANGED <<fmScene, fmDisk, dirs, task>> /\ FM!BeginWalk /\ jobs' \subseteq jobs
    BY <1>1 DEF FM!Start
  <2>2. FM!OneJobPerFile'
    BY <2>1 DEF MonitorInv, FM!OneJobPerFile
  <2> QED
    BY <2>1, <2>2, WalkBegins DEF MonitorInv
<1>2. ASSUME FM!Tick PROVE MonitorInv'
  <2>1. UNCHANGED <<fmScene, fmDisk, dirs, task, jobs>> /\ FM!BeginWalk
    BY <1>2 DEF FM!Tick, FM!lib
  <2>2. FM!OneJobPerFile'
    BY <2>1 DEF MonitorInv, FM!OneJobPerFile
  <2> QED
    BY <2>1, <2>2, WalkBegins DEF MonitorInv
<1>3. ASSUME FM!Watch PROVE MonitorInv'
  <2>1. UNCHANGED <<fmScene, fmDisk, dirs, task, jobs, walk>>
    BY <1>3 DEF FM!Watch, FM!lib
  <2>2. FM!OneJobPerFile' /\ LibraryOK' /\ task' = [a \in LibFiles \cup {0} |-> task'[a]]
    BY <2>1, LibraryStays DEF MonitorInv, FM!OneJobPerFile, TasksOK
  <2> QED
    BY <2>1, <2>2, WalkGoesOn DEF MonitorInv
<1>4. ASSUME FM!Restart PROVE MonitorInv'
  <2>1. UNCHANGED <<fmScene, fmDisk, dirs, jobs>> /\ walk' = FM!NoWalk
    BY <1>4 DEF FM!Restart, FM!lib
  <2>2. walk'.pc = "idle" /\ walk'.there = {} /\ WalkShaped(walk')
    BY <2>1 DEF FM!NoWalk, WalkShaped, WalkRec
  <2>3. FM!OneJobPerFile' /\ LibraryOK'
    BY <2>1, <2>2, LibraryStays DEF MonitorInv, FM!OneJobPerFile
  <2>4. TasksOK'
    <3>1. task' = [a \in LibFiles \cup {0} |-> FM!NoTask]
      BY <1>4 DEF FM!Restart, MonitorInv, TasksOK
    <3>2. task'[0] = FM!NoTask
      BY <3>1
    <3>3. TaskShaped(task'[0]) /\ task'[0].pc = "none"
      BY <3>2, TasksAfter
    <3> QED
      BY <3>1, <3>3 DEF TasksOK, TaskShaped
  <2> QED
    BY <2>2, <2>3, <2>4 DEF MonitorInv, WalkOwes, WalkShaped
<1> QED
  BY <1>1, <1>2, <1>3, <1>4

\* The next entry of a walk: read, handed in or lost, and nothing beside it.
LEMMA EntryVisited ==
  ASSUME LibraryConstants, MonitorInv, NEW e \in walk.todo, FM!Visit(e)
  PROVE  MonitorInv'
<1> DEFINE f == e[2]
<1>1. UNCHANGED <<fmScene, fmDisk, dirs, jobs>> /\ walk.pc = "on" /\ task[0].pc = "none" /\ WalkShaped(walk)
  BY DEF FM!Visit, FM!lib, FM!Walking, MonitorInv
<1>2. FM!OneJobPerFile'
  BY <1>1 DEF MonitorInv, FM!OneJobPerFile
<1>3. \A g : (FM!Queued(g)' <=> FM!Queued(g)) /\ (FM!IsAudio(g)' <=> FM!IsAudio(g))
  BY <1>1 DEF FM!Queued, FM!IsAudio
<1>4. \A g \in walk.there \ (walk.lost \cup walk.other \cup fmScene.slow) : FM!IsAudio(g) => FM!Queued(g) \/ ToBeFound(g)
  BY <1>1 DEF MonitorInv, WalkOwes, HandedIn
<1>5. ASSUME NEW todo, NEW lost, walk' = WalkRec("on", todo, walk.there, walk.lost \cup lost, walk.other), TasksOK',
             \A g \in walk.there \ (walk.lost \cup walk.other \cup fmScene.slow) : ToBeFound(g) /\ FM!IsAudio(g) /\ ~FM!Queued(g) =>
               \/ FM!Entry(DirOf[g], g) \in todo \/ FM!Entry(DirOf[g], 0) \in todo \/ g \in lost
               \/ task'[0].pc \in {"hash", "insert"} /\ task'[0].file = g
      PROVE  MonitorInv'
  <2>1. /\ walk'.pc = "on" /\ walk'.todo = todo /\ walk'.there = walk.there /\ walk'.lost = walk.lost \cup lost
        /\ walk'.other = walk.other /\ WalkShaped(walk')
    BY <1>5, WalkFields
  <2>2. \A g : /\ ToBeFound(g)' <=> (FM!Entry(DirOf[g], g) \in todo \/ FM!Entry(DirOf[g], 0) \in todo)
               /\ HandedIn(g)' <=> (task'[0].pc \in {"hash", "insert"} /\ task'[0].file = g)
    BY <2>1 DEF ToBeFound, HandedIn, FM!Entry
  <2>3. WalkOwes'
    BY <1>1, <1>3, <1>4, <1>5, <2>1, <2>2 DEF WalkOwes
  <2>4. LibraryOK'
    BY <1>1, <2>1, LibraryStays DEF MonitorInv
  <2> QED
    BY <1>2, <1>5, <2>1, <2>3, <2>4 DEF MonitorInv, WalkShaped
<1>6. task' = task => TasksOK'
  BY DEF MonitorInv, TasksOK, TaskShaped, TaskRec
<1>7. CASE walk' = [walk EXCEPT !.todo = FM!AfterError(e), !.lost = @ \cup FM!Under(e)] /\ task' = task
  <2>1. walk' = Loses(walk, walk.todo \ {e}, walk.lost \cup FM!Under(e))
    BY <1>7 DEF Loses, FM!AfterError
  <2>2. walk' = WalkRec("on", walk.todo \ {e}, walk.there, walk.lost \cup FM!Under(e), walk.other)
    BY <1>1, <2>1, WalksAfter
  <2>3. ASSUME NEW g \in walk.there, e = FM!Entry(DirOf[g], g) \/ e = FM!Entry(DirOf[g], 0) PROVE g \in FM!Under(e)
    <3>1. g \in LibFiles /\ g # 0
      BY DEF MonitorInv, LibraryOK, FM!There, LibraryConstants
    <3> QED
      BY <2>3, <3>1 DEF FM!Entry, FM!Under
  <2> QED
    BY <1>5, <1>6, <1>7, <2>2, <2>3 DEF ToBeFound
<1>8. CASE f = 0 /\ walk' = [walk EXCEPT !.todo = (@ \ {e}) \cup FM!Within(e[1])] /\ task' = task
  <2> DEFINE todo == (walk.todo \ {e}) \cup FM!Within(e[1])
  <2>1. walk' = Goes(walk, todo)
    BY <1>8 DEF Goes
  <2> HIDE DEF todo
  <2>2. walk' = WalkRec("on", todo, walk.there, walk.lost \cup {}, walk.other)
    BY <1>1, <2>1, WalksAfter
  <2>3. ASSUME NEW g \in walk.there, ToBeFound(g) PROVE FM!Entry(DirOf[g], g) \in todo \/ FM!Entry(DirOf[g], 0) \in todo
    <3>1. g \in FM!There /\ g # 0
      BY DEF MonitorInv, LibraryOK, FM!There, LibraryConstants
    <3>2. CASE e = FM!Entry(DirOf[g], 0)
      BY <3>1, <3>2 DEF FM!Entry, FM!Within, FM!There, todo
    <3>3. CASE e # FM!Entry(DirOf[g], 0)
      BY <1>8, <2>3, <3>1, <3>3 DEF ToBeFound, FM!Entry, todo
    <3> QED
      BY <3>2, <3>3
  <2> QED
    BY <1>5, <1>6, <1>8, <2>2, <2>3
<1>9. CASE /\ f # 0 /\ walk' = [walk EXCEPT !.todo = @ \ {e}]
           /\ task' = IF FM!IsAudio(f) /\ ~FM!Queued(f) THEN [task EXCEPT ![0] = [FM!NoTask EXCEPT !.pc = "hash", !.file = f]] ELSE task
  <2>1. walk' = Goes(walk, walk.todo \ {e})
    BY <1>9 DEF Goes
  <2>2. walk' = WalkRec("on", walk.todo \ {e}, walk.there, walk.lost \cup {}, walk.other)
    BY <1>1, <2>1, WalksAfter
  <2>3. FM!IsAudio(f) /\ ~FM!Queued(f) => task' = [task EXCEPT ![0] = Found(f)]
    BY <1>9 DEF Found
  <2>4. FM!IsAudio(f) /\ ~FM!Queued(f) => TasksOK' /\ task'[0].pc = "hash" /\ task'[0].file = f
    <3> SUFFICES ASSUME FM!IsAudio(f), ~FM!Queued(f) PROVE TasksOK' /\ task'[0].pc = "hash" /\ task'[0].file = f
      OBVIOUS
    <3>1. task'[0] = Found(f) /\ task' = [a \in LibFiles \cup {0} |-> task'[a]]
      BY <2>3 DEF MonitorInv, TasksOK
    <3>2. TaskShaped(task'[0]) /\ task'[0].pc = "hash" /\ task'[0].file = f
      BY <3>1, TasksAfter
    <3> QED
      BY <3>1, <3>2 DEF TasksOK, TaskShaped
  <2>5. ~(FM!IsAudio(f) /\ ~FM!Queued(f)) => TasksOK'
    BY <1>6, <1>9
  <2>6. ASSUME NEW g \in walk.there, ToBeFound(g), FM!IsAudio(g), ~FM!Queued(g)
        PROVE  \/ FM!Entry(DirOf[g], g) \in walk.todo \ {e} \/ FM!Entry(DirOf[g], 0) \in walk.todo \ {e}
               \/ task'[0].pc \in {"hash", "insert"} /\ task'[0].file = g
    <3>1. CASE e = FM!Entry(DirOf[g], g)
      <4>1. f = g
        BY <3>1 DEF FM!Entry
      <4> QED
        BY <2>4, <2>6, <4>1
    <3>2. CASE e # FM!Entry(DirOf[g], g)
      BY <1>9, <2>6, <3>2 DEF ToBeFound, FM!Entry
    <3> QED
      BY <3>1, <3>2
  <2> QED
    BY <1>5, <2>2, <2>4, <2>5, <2>6
<1> QED
  BY <1>7, <1>8, <1>9 DEF FM!Visit

LEMMA WalkEnds == ASSUME MonitorInv, FM!EndWalk PROVE MonitorInv'
<1>1. UNCHANGED <<fmScene, fmDisk, dirs, jobs, task>> /\ walk' = Ended(walk) /\ walk.pc = "on" /\ walk.todo = {} /\ task[0].pc = "none"
  BY DEF FM!EndWalk, FM!lib, FM!Walking, Ended
<1>2. /\ walk'.pc = "done" /\ walk'.there = walk.there /\ walk'.lost = walk.lost /\ walk'.other = walk.other
      /\ WalkShaped(walk')
  BY <1>1, WalksAfter, WalkFields DEF MonitorInv
<1>3. FM!OneJobPerFile' /\ LibraryOK' /\ TasksOK'
  BY <1>1, <1>2, LibraryStays DEF MonitorInv, FM!OneJobPerFile, TasksOK, TaskShaped, TaskRec
<1>4. WalkOwes'
  BY <1>1, <1>2 DEF MonitorInv, WalkOwes, ToBeFound, HandedIn, FM!Queued, FM!IsAudio
<1> QED
  BY <1>2, <1>3, <1>4 DEF MonitorInv, WalkShaped

LEMMA HandlersRun ==
  ASSUME LibraryConstants, MonitorInv,
         (\E e \in inbox : FM!Handle(e)) \/ \E a \in LibFiles \cup {0} : FM!Poll(a) \/ (a # 0 /\ FM!Hash(a)) \/ (a # 0 /\ FM!Bytes(a))
  PROVE  MonitorInv'
<1>1. UNCHANGED <<fmScene, fmDisk, dirs, walk, jobs>>
  BY DEF FM!Handle, FM!Poll, FM!Hash, FM!Bytes, FM!lib
<1>2. task' = [a \in LibFiles \cup {0} |-> task'[a]] /\ task'[0] = task[0]
  <2>1. \E a, t : task' = task \/ (a # 0 /\ task' = [task EXCEPT ![a] = t])
    <3>1. ASSUME NEW e \in inbox, FM!Handle(e) PROVE \E a, t : task' = task \/ (a # 0 /\ task' = [task EXCEPT ![a] = t])
      BY <3>1 DEF FM!Handle
    <3>2. ASSUME NEW a \in LibFiles \cup {0}, FM!Poll(a) PROVE a # 0 /\ \E t : task' = [task EXCEPT ![a] = t]
      BY <3>2 DEF FM!Poll, MonitorInv, TasksOK
    <3>3. ASSUME NEW a \in LibFiles \cup {0}, FM!Hash(a) PROVE \E t : task' = [task EXCEPT ![a] = t]
      BY <3>3 DEF FM!Hash, MonitorInv, TasksOK
    <3>4. ASSUME NEW a \in LibFiles \cup {0}, FM!Bytes(a) PROVE \E t : task' = [task EXCEPT ![a] = t]
      BY <3>4 DEF FM!Bytes
    <3> QED
      BY <3>1, <3>2, <3>3, <3>4
  <2> QED
    BY <2>1 DEF MonitorInv, TasksOK
<1>3. FM!OneJobPerFile' /\ LibraryOK'
  BY <1>1, LibraryStays DEF MonitorInv, FM!OneJobPerFile
<1> QED
  BY <1>1, <1>2, <1>3, WalkGoesOn DEF MonitorInv

\* The walk's own task, up to its insert.
LEMMA WalkHands ==
  ASSUME MonitorInv, FM!Hash(0) \/ FM!Bytes(0)
  PROVE  MonitorInv'
<1>1. UNCHANGED <<fmScene, fmDisk, dirs, walk, jobs>>
  BY DEF FM!Hash, FM!Bytes, FM!lib
<1>2. FM!OneJobPerFile' /\ LibraryOK' /\ WalkShaped(walk)'
  BY <1>1, LibraryStays DEF MonitorInv, FM!OneJobPerFile, WalkShaped
<1>3. ASSUME TasksOK', \A f : HandedIn(f) => HandedIn(f)' PROVE MonitorInv'
  <2>1. \A f : (FM!Queued(f)' <=> FM!Queued(f)) /\ (FM!IsAudio(f)' <=> FM!IsAudio(f)) /\ (ToBeFound(f)' <=> ToBeFound(f))
    BY <1>1 DEF FM!Queued, FM!IsAudio, ToBeFound, FM!Entry
  <2>2. WalkOwes'
    BY <1>1, <1>3, <2>1 DEF MonitorInv, WalkOwes
  <2> QED
    BY <1>1, <1>2, <1>3, <2>2 DEF MonitorInv
<1>4. CASE FM!Hash(0)
  <2>1. PICK x : task' = [task EXCEPT ![0].pc = "insert", ![0].sum = x]
    BY <1>4 DEF FM!Hash
  <2>2. task' = [task EXCEPT ![0] = Summed(task[0], x)]
    BY <2>1 DEF Summed, MonitorInv, TasksOK
  <2>3. task'[0] = Summed(task[0], x) /\ task' = [a \in LibFiles \cup {0} |-> task'[a]]
    BY <2>2 DEF MonitorInv, TasksOK
  <2>4. TaskShaped(task'[0]) /\ task'[0].pc = "insert" /\ task'[0].file = task[0].file
    BY <2>3, TasksAfter DEF MonitorInv, TasksOK
  <2> QED
    BY <1>3, <2>3, <2>4 DEF TasksOK, TaskShaped, HandedIn
<1>5. CASE FM!Bytes(0)
  <2>1. task'[0] = FM!NoTask /\ task' = [a \in LibFiles \cup {0} |-> task'[a]] /\ task[0].pc = "bytes"
    BY <1>5 DEF FM!Bytes, MonitorInv, TasksOK
  <2>2. TasksOK'
    BY <2>1, TasksAfter DEF TasksOK, TaskShaped
  <2> QED
    BY <1>3, <2>1, <2>2 DEF HandedIn
<1> QED
  BY <1>4, <1>5

\* A job goes in unless one of its file or of its content is there.
LEMMA JobGoesIn ==
  ASSUME LibraryConstants, MonitorInv, NEW a \in LibFiles \cup {0}, FM!Insert(a)
  PROVE  MonitorInv'
<1> DEFINE t == task[a]
<1>1. UNCHANGED <<fmScene, fmDisk, dirs>> /\ t.pc = "insert"
  BY DEF FM!Insert, FM!lib
<1>2. jobs \subseteq jobs' /\ FM!OneJobPerFile'
  <2>1. CASE jobs' = jobs
    BY <2>1 DEF MonitorInv, FM!OneJobPerFile
  <2>2. ASSUME FM!Clashes(t.file, t.sum) = {}, jobs' = jobs \cup {[file |-> t.file, sum |-> t.sum]}
        PROVE  jobs \subseteq jobs' /\ FM!OneJobPerFile'
    <3> DEFINE n == [file |-> t.file, sum |-> t.sum]
    <3>1. n.file = t.file /\ n.sum = t.sum
      OBVIOUS
    <3>2. \A j \in jobs : j.sum # n.sum /\ j.file # n.file
      BY <2>2, <3>1 DEF FM!Clashes
    <3>3. jobs' = jobs \cup {n}
      BY <2>2
    <3> HIDE DEF n
    <3> QED
      BY <3>2, <3>3 DEF MonitorInv, FM!OneJobPerFile
  <2> QED
    BY <2>1, <2>2 DEF FM!Insert
<1>3. PICK x : /\ task' = [task EXCEPT ![a] = x] /\ x \in {FM!NoTask} \cup {Inserted(t, j) : j \in {t.file} \cup {k.file : k \in jobs}}
  <2>1. \/ task' = [task EXCEPT ![a] = FM!NoTask]
        \/ \E j \in {t.file} \cup {k.file : k \in jobs} : task' = [task EXCEPT ![a].pc = "bytes", ![a].job = j]
    BY DEF FM!Insert, FM!Clashes
  <2>2. ASSUME NEW j, task' = [task EXCEPT ![a].pc = "bytes", ![a].job = j] PROVE task' = [task EXCEPT ![a] = Inserted(t, j)]
    BY <2>2 DEF Inserted, MonitorInv, TasksOK
  <2> QED
    BY <2>1, <2>2
<1>4. task' = [q \in LibFiles \cup {0} |-> task'[q]] /\ task'[a] = x /\ \A q \in LibFiles \cup {0} : q # a => task'[q] = task[q]
  BY <1>3 DEF MonitorInv, TasksOK
<1>5. ASSUME a # 0 PROVE MonitorInv'
  <2>1. walk' = walk
    BY <1>5 DEF FM!Insert
  <2>2. LibraryOK'
    BY <1>1, <2>1, LibraryStays DEF MonitorInv
  <2> QED
    BY <1>1, <1>2, <1>4, <1>5, <2>1, <2>2, WalkGoesOn DEF MonitorInv
<1>6. ASSUME a = 0 PROVE MonitorInv'
  <2>1. TaskShaped(t) /\ WalkShaped(walk)
    BY <1>6 DEF MonitorInv, TasksOK
  <2>2. TaskShaped(task'[0]) /\ task'[0].pc \in {"none", "bytes"}
    BY <1>3, <1>4, <1>6, <2>1, TasksAfter
  <2>3. TasksOK'
    BY <1>4, <2>2 DEF TasksOK, TaskShaped
  <2>4. PICK lost, other :
          /\ walk' = WalkRec(walk.pc, walk.todo, walk.there, walk.lost \cup lost, walk.other \cup other)
          /\ \/ t.file \in fmScene.slow \cup lost \cup other
             \/ \E j \in jobs' : j.file = t.file
    <3>1. CASE walk' = walk /\ (t.file \in fmScene.slow \/ \E j \in jobs' : j.file = t.file)
      <4>1. walk' = WalkRec(walk.pc, walk.todo, walk.there, walk.lost \cup {}, walk.other \cup {})
        BY <2>1, <3>1 DEF WalkShaped
      <4> QED
        BY <3>1, <4>1
    <3>2. CASE walk' = [walk EXCEPT !.lost = @ \cup {t.file}]
      <4>1. walk' = LosesFile(walk, walk.lost \cup {t.file})
        BY <3>2 DEF LosesFile
      <4>2. walk' = WalkRec(walk.pc, walk.todo, walk.there, walk.lost \cup {t.file}, walk.other \cup {})
        BY <2>1, <4>1, WalksAfter
      <4> QED
        BY <4>2
    <3>3. CASE walk' = [walk EXCEPT !.other = @ \cup {t.file}]
      <4>1. walk' = FindsOther(walk, walk.other \cup {t.file})
        BY <3>3 DEF FindsOther
      <4>2. walk' = WalkRec(walk.pc, walk.todo, walk.there, walk.lost \cup {}, walk.other \cup {t.file})
        BY <2>1, <4>1, WalksAfter
      <4> QED
        BY <4>2
    <3>4. CASE jobs' = jobs \cup {[file |-> t.file, sum |-> t.sum]} /\ walk' = walk
      <4>1. [file |-> t.file, sum |-> t.sum] \in jobs' /\ [file |-> t.file, sum |-> t.sum].file = t.file
        BY <3>4
      <4> QED
        BY <3>1, <3>4, <4>1
    <3>5. ASSUME jobs' = jobs, walk' = walk, FM!Queued(t.file) PROVE \E j \in jobs' : j.file = t.file
      BY <3>5 DEF FM!Queued
    <3> QED
      BY <1>6, <3>1, <3>2, <3>3, <3>4, <3>5 DEF FM!Insert
  <2>5. /\ walk'.pc = walk.pc /\ walk'.todo = walk.todo /\ walk'.there = walk.there
        /\ walk'.lost = walk.lost \cup lost /\ walk'.other = walk.other \cup other /\ WalkShaped(walk')
    BY <2>4, WalkFields
  <2>6. \A f : /\ FM!Queued(f) => FM!Queued(f)'
               /\ (ToBeFound(f)' <=> ToBeFound(f)) /\ (FM!IsAudio(f)' <=> FM!IsAudio(f))
    BY <1>1, <1>2, <2>5 DEF FM!Queued, FM!IsAudio, ToBeFound, FM!Entry
  <2>7. \A f : HandedIn(f) => f = t.file
    BY <1>6 DEF HandedIn
  <2>8. WalkOwes'
    <3> SUFFICES ASSUME walk.pc # "idle",
                        NEW f \in walk.there \ (walk.lost \cup lost \cup walk.other \cup other \cup fmScene.slow),
                        FM!IsAudio(f)'
                 PROVE  FM!Queued(f)' \/ (walk.pc = "on" /\ ToBeFound(f)')
      BY <1>1, <2>5 DEF WalkOwes
    <3>1. FM!Queued(f) \/ (walk.pc = "on" /\ (ToBeFound(f) \/ HandedIn(f)))
      BY <2>6 DEF MonitorInv, WalkOwes
    <3>2. CASE HandedIn(f)
      <4>1. f = t.file
        BY <2>7, <3>2
      <4>2. \E j \in jobs' : j.file = f
        BY <2>4, <4>1
      <4> QED
        BY <4>2 DEF FM!Queued
    <3> QED
      BY <2>6, <3>1, <3>2
  <2>9. LibraryOK'
    BY <1>1, <2>5, LibraryStays DEF MonitorInv
  <2> QED
    BY <1>2, <2>3, <2>5, <2>8, <2>9 DEF MonitorInv, WalkShaped
<1> QED
  BY <1>5, <1>6

LEMMA MonitorKept ==
  ASSUME LibraryConstants, MonitorInv, [FM!Next]_FM!vars
  PROVE  MonitorInv'
<1>1. ASSUME UNCHANGED FM!vars PROVE MonitorInv'
  <2>1. UNCHANGED <<fmScene, fmDisk, dirs, walk, jobs, task>>
    BY <1>1 DEF FM!vars
  <2>2. FM!OneJobPerFile' /\ LibraryOK' /\ task' = [a \in LibFiles \cup {0} |-> task'[a]]
    BY <2>1, LibraryStays DEF MonitorInv, FM!OneJobPerFile, TasksOK
  <2> QED
    BY <2>1, <2>2, WalkGoesOn DEF MonitorInv
<1>2. ASSUME NEW a \in LibFiles \cup {0}, FM!Poll(a) \/ FM!Hash(a) \/ FM!Insert(a) \/ FM!Bytes(a) PROVE MonitorInv'
  BY <1>2, HandlersRun, WalkHands, JobGoesIn
<1> QED
  BY <1>1, <1>2, LibraryGrows, MonitorMoves, EntryVisited, WalkEnds, HandlersRun DEF FM!Next

\* Whatever is copied, handled, walked and stopped at once, each file and each
\* content has one job, and a walk to its end leaves none owed to a file that was
\* there when it began and could be read and written down
\* (internal/monitor/monitor.go over InsertJobIfAbsent).
THEOREM EveryFileHasAJob ==
  ASSUME LibraryConstants
  PROVE  FM!Spec => [](FM!OneJobPerFile /\ FM!WalkLeavesNone)
<1>1. FM!Init => MonitorInv
  BY MonitorBegins
<1>2. MonitorInv /\ [FM!Next]_FM!vars => MonitorInv'
  BY MonitorKept
<1>3. MonitorInv => FM!OneJobPerFile /\ FM!WalkLeavesNone
  BY DEF MonitorInv, WalkOwes, FM!WalkLeavesNone
<1> QED
  BY <1>1, <1>2, <1>3, PTL DEF FM!Spec

-----------------------------------------------------------------------------
(* The walks, together.                                                    *)

\* No walk leaves anything out, not of the audit trail's rows and not of the
\* library's files, for every audit trail and library (internal/db/audit.go,
\* internal/monitor/monitor.go).
THEOREM NoWalkLeavesAnyOut ==
  ASSUME FeedConstants, LibraryConstants
  PROVE  ReportsSpec => []WalkIsComplete
<1>1. AF!Spec => []AF!WalkIsComplete
  BY WalksAreComplete
<1>2. FM!Spec => [](FM!OneJobPerFile /\ FM!WalkLeavesNone)
  BY EveryFileHasAJob
<1>3. ~(part = "af") /\ [UNCHANGED part]_part => ~(part = "af")'
  OBVIOUS
<1>4. ~(part = "fm") /\ [UNCHANGED part]_part => ~(part = "fm")'
  OBVIOUS
<1> QED
  BY <1>1, <1>2, <1>3, <1>4, PTL DEF ReportsSpec, WalkIsComplete

-----------------------------------------------------------------------------
(* The dashboard's refresh cache.                                          *)

Loads == [by : Requests, read : Nat, down : BOOLEAN]

CacheType ==
  /\ source \in Nat /\ last \in [v : Nat, at : Nat, down : BOOLEAN]
  /\ loads \in SUBSET Loads
  /\ served \in Nat /\ most \in Nat /\ now \in Nat /\ rcFaults \in 0 .. MaxLoadFaults

\* One load at a time, and it reads nothing older than the entry it replaces.
CacheInv ==
  RC!Refresh =>
    /\ \A l, m \in loads : l = m
    /\ \A l \in loads : l.read = 0 \/ (last.v <= l.read /\ l.read <= source)
    /\ served = most /\ most <= last.v /\ last.v <= source
    /\ lastErr.on \/ last.down \/ (\E l \in loads : l.down) => rcFaults < MaxLoadFaults

LEMMA MaxOfTwo ==
  ASSUME NEW a \in Nat, NEW b \in Nat
  PROVE  /\ RC!Max({a, b}) \in Nat
         /\ a <= b => RC!Max({a, b}) = b
<1>1. \E x \in {a, b} : \A y \in {a, b} : x >= y
  OBVIOUS
<1>2. RC!Max({a, b}) \in {a, b} /\ \A y \in {a, b} : RC!Max({a, b}) >= y
  BY <1>1 DEF RC!Max
<1> QED
  BY <1>2

\* What a request is answered.
LEMMA Returned ==
  ASSUME CacheType, NEW r, NEW v \in Nat, RC!Return(r, v)
  PROVE  /\ served' \in Nat /\ most' \in Nat
         /\ served = most /\ most <= v => served' = most' /\ most' = v
         /\ v = 0 => served' = served
         /\ v = 0 => most' = most
<1>1. served' = (IF v = 0 THEN served ELSE v) /\ most' = RC!Max({most, v})
  BY DEF RC!Return
<1>2. RC!Max({most, v}) \in Nat /\ (most <= v => RC!Max({most, v}) = v)
  BY MaxOfTwo DEF CacheType
<1>3. v = 0 => RC!Max({most, v}) = most
  <2>1. most \in Nat /\ {most, v} = {v, most} /\ 0 <= most
    BY DEF CacheType
  <2>2. v <= most => RC!Max({v, most}) = most
    BY <2>1, MaxOfTwo
  <2> QED
    BY <2>1, <2>2
<1> QED
  BY <1>1, <1>2, <1>3 DEF CacheType

LEMMA LoadTyped ==
  ASSUME NEW r \in Requests
  PROVE  RC!Load(r) \in Loads /\ RC!Load(r).read = 0 /\ ~RC!Load(r).down
BY DEF RC!Load, Loads

LEMMA CacheTyped ==
  ASSUME MaxLoadFaults \in Nat
  PROVE  /\ RC!Init => CacheType
         /\ CacheType /\ [RC!Next]_(RC!vars) => CacheType'
<1>1. RC!Init => CacheType
  BY DEF RC!Init, RC!NoEntry, CacheType
<1> SUFFICES ASSUME CacheType, [RC!Next]_(RC!vars) PROVE CacheType'
  BY <1>1
<1>2. ASSUME NEW r \in Requests, RC!Get(r) \/ RC!Woken(r) \/ RC!Probe(r) PROVE CacheType'
  <2>1. UNCHANGED <<source, last, now, rcFaults>> /\ (loads' = loads \/ loads' = loads \cup {RC!Load(r)}
                                                 \/ loads' = {RC!Load(r)})
    BY <1>2 DEF RC!Get, RC!Woken, RC!Probe, RC!clock
  <2>2. RC!Return(r, last.v) \/ RC!Return(r, 0) \/ UNCHANGED <<served, most>>
    BY <1>2 DEF RC!Get, RC!Woken, RC!Probe
  <2>3. served' \in Nat /\ most' \in Nat
    BY <2>2, Returned DEF CacheType
  <2> QED
    BY <2>1, <2>3, LoadTyped DEF CacheType
<1>3. ASSUME NEW r \in Requests, RC!Cancel(r) PROVE CacheType'
  <2>1. PICK ended \in SUBSET loads :
           loads' = (loads \ ended) \cup {[l EXCEPT !.read = source, !.down = TRUE] : l \in ended}
    BY <1>3 DEF RC!Cancel
  <2>2. \A l \in Loads : [l EXCEPT !.read = source, !.down = TRUE] \in Loads
    BY DEF CacheType, Loads
  <2>3. loads' \in SUBSET Loads
    BY <2>1, <2>2 DEF CacheType
  <2> QED
    BY <1>3, <2>3 DEF RC!Cancel, CacheType
<1>4. ASSUME NEW l \in loads, RC!Read(l) PROVE CacheType'
  <2>1. UNCHANGED <<source, last, served, most, now>> /\ rcFaults' \in 0 .. MaxLoadFaults
    BY <1>4 DEF RC!Read, RC!clock, CacheType
  <2>2. \/ loads' = (loads \ {l}) \cup {[l EXCEPT !.read = source]}
        \/ loads' = (loads \ {l}) \cup {[l EXCEPT !.read = source, !.down = TRUE]}
    BY <1>4 DEF RC!Read
  <2>3. [l EXCEPT !.read = source] \in Loads /\ [l EXCEPT !.read = source, !.down = TRUE] \in Loads
    BY DEF CacheType, Loads
  <2> QED
    BY <2>1, <2>2, <2>3 DEF CacheType
<1>5. ASSUME NEW l \in loads, RC!Stored(l) PROVE CacheType'
  BY <1>5 DEF RC!Stored, RC!clock, CacheType, Loads
<1>6. ASSUME NEW l \in loads, RC!Fetched(l) PROVE CacheType'
  <2>1. served' \in Nat /\ most' \in Nat
    BY <1>6, Returned DEF RC!Fetched, CacheType, Loads
  <2> QED
    BY <1>6, <2>1 DEF RC!Fetched, RC!clock, CacheType, Loads
<1>7. CASE RC!Change \/ RC!Tick \/ UNCHANGED RC!vars
  BY <1>7 DEF RC!Change, RC!Tick, RC!vars, RC!clock, CacheType
<1> QED
  BY <1>2, <1>3, <1>4, <1>5, <1>6, <1>7 DEF RC!Next

LEMMA CacheKept ==
  ASSUME MaxLoadFaults \in Nat
  PROVE  /\ RC!Init => CacheInv
         /\ CacheType /\ CacheInv /\ [RC!Next]_(RC!vars) => CacheInv'
<1>1. RC!Init => CacheInv
  BY DEF RC!Init, RC!NoEntry, RC!NoError, CacheInv
<1> SUFFICES ASSUME CacheType, CacheInv, [RC!Next]_(RC!vars), RC!Refresh' PROVE CacheInv'
  BY <1>1 DEF CacheInv
<1>2. rcKind' = rcKind
  BY DEF RC!Next, RC!vars, RC!Get, RC!Woken, RC!Probe, RC!Cancel, RC!Read, RC!Stored, RC!Fetched,
         RC!Change, RC!Tick
<1>3. RC!Refresh
  BY <1>2 DEF RC!Refresh
<1>4. /\ \A l, m \in loads : l = m
      /\ \A l \in loads : l.read = 0 \/ (last.v <= l.read /\ l.read <= source)
      /\ served = most /\ most <= last.v /\ last.v <= source
      /\ lastErr.on \/ last.down \/ (\E l \in loads : l.down) => rcFaults < MaxLoadFaults
  BY <1>3 DEF CacheInv
<1>5. ASSUME NEW r \in Requests, RC!Get(r) \/ RC!Woken(r) PROVE CacheInv'
  <2>1. /\ UNCHANGED <<source, last, lastErr, rcFaults>>
        /\ loads' = loads \/ (loads = {} /\ loads' = {RC!Load(r)})
    BY <1>5 DEF RC!Get, RC!Woken, RC!clock, RC!CanRefresh
  <2>2. RC!Return(r, last.v) \/ RC!Return(r, 0) \/ UNCHANGED <<served, most>>
    BY <1>5 DEF RC!Get, RC!Woken
  <2>3. served' = most' /\ most' <= last.v
    BY <1>4, <2>2, Returned DEF CacheType
  <2>4. RC!Load(r).read = 0 /\ ~RC!Load(r).down
    BY LoadTyped
  <2> QED
    BY <1>4, <2>1, <2>3, <2>4 DEF CacheInv
<1>6. ASSUME NEW r \in Requests, RC!Cancel(r) PROVE CacheInv'
  <2>1. UNCHANGED <<source, last, lastErr, rcFaults, served, most>>
    BY <1>6 DEF RC!Cancel
  <2>2. loads' = loads
    BY <1>3, <1>6 DEF RC!Cancel, RC!EndsWith
  <2> QED
    BY <1>4, <2>1, <2>2 DEF CacheInv
<1>7. ASSUME NEW l \in loads, RC!Read(l) PROVE CacheInv'
  <2>1. UNCHANGED <<source, last, lastErr, served, most>>
    BY <1>7 DEF RC!Read
  <2>2. PICK m : /\ loads' = (loads \ {l}) \cup {m} /\ m.read = source
                 /\ m.down => l.down \/ rcFaults' < MaxLoadFaults
    <3>1. l \in Loads /\ rcFaults \in 0 .. MaxLoadFaults
      BY DEF CacheType
    <3>2. CASE loads' = (loads \ {l}) \cup {[l EXCEPT !.read = source]}
      <4>1. [l EXCEPT !.read = source].read = source /\ [l EXCEPT !.read = source].down = l.down
        BY <3>1 DEF Loads
      <4> QED
        BY <3>2, <4>1
    <3>3. CASE /\ loads' = (loads \ {l}) \cup {[l EXCEPT !.read = source, !.down = TRUE]}
               /\ rcFaults > 0 /\ rcFaults' = rcFaults - 1
      <4>1. [l EXCEPT !.read = source, !.down = TRUE].read = source
        BY <3>1 DEF Loads
      <4>2. rcFaults' < MaxLoadFaults
        BY <3>1, <3>3
      <4> QED
        BY <3>3, <4>1, <4>2
    <3> QED
      BY <1>7, <3>2, <3>3 DEF RC!Read
  <2>3. loads' = {m}
    BY <1>4, <2>2
  <2>4. rcFaults' <= rcFaults /\ rcFaults \in Nat /\ rcFaults' \in Nat
    BY <1>7 DEF RC!Read, RC!clock, CacheType
  <2> QED
    BY <1>4, <2>1, <2>2, <2>3, <2>4 DEF CacheInv, CacheType
<1>8. ASSUME NEW l \in loads, RC!Stored(l) PROVE CacheInv'
  <2>1. /\ UNCHANGED <<source, served, most, rcFaults>>
        /\ loads' = loads \ {l} /\ l.read # 0 /\ l \in Loads
        /\ \/ lastErr'.on /\ last' = last /\ l.down
           \/ last' = [v |-> l.read, at |-> now, down |-> l.down] /\ ~lastErr'.on
    BY <1>8 DEF RC!Stored, RC!clock, RC!Keeps, RC!NoError, CacheType
  <2>2. loads' = {}
    BY <1>4, <2>1
  <2>3. last'.v \in {last.v, l.read} /\ last.v \in Nat /\ source \in Nat /\ most \in Nat
    BY <2>1 DEF CacheType, Loads
  <2>4. most <= last'.v /\ last'.v <= source
    BY <1>4, <2>1, <2>3 DEF Loads
  <2>5. lastErr'.on \/ last'.down => rcFaults < MaxLoadFaults
    BY <1>4, <2>1
  <2> QED
    BY <1>4, <2>1, <2>2, <2>4, <2>5 DEF CacheInv
<1>9. CASE RC!Change
  BY <1>4, <1>9 DEF RC!Change, RC!clock, CacheInv, CacheType, Loads
<1>10. CASE RC!Tick \/ UNCHANGED RC!vars
  BY <1>4, <1>10 DEF RC!Tick, RC!vars, RC!clock, CacheInv
<1> QED
  BY <1>3, <1>5, <1>6, <1>7, <1>8, <1>9, <1>10 DEF RC!Next, RC!Probe, RC!Fetched

\* NeverBack and CancelHurtsNobody: whoever asks, joins, waits or goes away, a
\* page never goes back to an older value than one it has shown, and it shows
\* an error, or a gateway as down, only when a load of the cache itself failed
\* (refreshCache.get and refresh).
THEOREM PagesGoForward ==
  ASSUME MaxLoadFaults \in Nat
  PROVE  RC!Spec => [](RC!NeverBack /\ RC!CancelHurtsNobody)
<1>1. CacheInv => RC!NeverBack /\ RC!CancelHurtsNobody
  BY DEF CacheInv, RC!NeverBack, RC!CancelHurtsNobody
<1> QED
  BY <1>1, CacheTyped, CacheKept, PTL DEF RC!Spec

-----------------------------------------------------------------------------
(* The pipeline bar.                                                       *)

\* The queries count tracks.
BarConstants == BarInputs \subseteq [1 .. 5 -> Nat]

\* The widths never pass the row's while points are handed out, and never fall
\* below it once the small segments are raised.
BarInv ==
  /\ pbCount \in [1 .. 5 -> Nat] /\ pct \in [1 .. 5 -> Nat] /\ pbNext \in 1 .. 5
  /\ pbDoing = "truncate" => \A s \in 1 .. 5 : pct[s] = 0
  /\ pbDoing = "handout" =>
       /\ PB!Total(pct) <= 100
       /\ \A s \in 1 .. 5 : pbCount[s] = 0 => pct[s] = 0
       /\ \E s \in 1 .. 5 : pbCount[s] > 0 /\ pct[s] > 0
  /\ pbDoing \in {"reclaim", "drawn"} /\ PB!Shown # {} =>
       /\ PB!Total(pct) >= 100
       /\ \A s \in 1 .. 5 : IF pbCount[s] > 0 THEN pct[s] >= 2 ELSE pct[s] = 0
  /\ pbDoing = "drawn" /\ PB!Shown # {} => PB!Total(pct) = 100

\* A whole percent is not more than its share, and less than a point below it.
LEMMA Percent ==
  ASSUME NEW c \in Nat, NEW t \in Nat, t > 0
  PROVE  LET q == (c * 100) \div t IN q \in Nat /\ q * t <= c * 100 /\ c * 100 < q * t + t
OBVIOUS

LEMMA Shares ==
  ASSUME NEW a \in Nat, NEW b \in Nat, NEW c \in Nat, NEW d \in Nat, NEW e \in Nat, NEW t \in Nat, t > 0,
         NEW n \in Nat, a * t + b * t + c * t + d * t + e * t <= n * t
  PROVE  a + b + c + d + e <= n
OBVIOUS

LEMMA Truncated ==
  ASSUME BarInv, PB!Truncate
  PROVE  BarInv'
<1> DEFINE T == PB!Total(pbCount)
           q == [s \in 1 .. 5 |-> (pbCount[s] * 100) \div T]
<1>1. pct' = q /\ pbDoing' = "handout" /\ UNCHANGED <<pbCount, pbNext>> /\ T > 0
  BY DEF PB!Truncate, PB!Segments
<1>2. T \in Nat /\ T = pbCount[1] + pbCount[2] + pbCount[3] + pbCount[4] + pbCount[5]
  BY DEF BarInv, PB!Total
<1> HIDE DEF T
<1>3. ASSUME NEW s \in 1 .. 5
      PROVE q[s] \in Nat /\ q[s] * T <= pbCount[s] * 100 /\ pbCount[s] * 100 < q[s] * T + T
  <2>1. pbCount[s] \in Nat
    BY DEF BarInv
  <2> QED
    BY <1>1, <1>2, <2>1, Percent
<1>4. q \in [1 .. 5 -> Nat]
  BY <1>3
<1> HIDE DEF q
<1>5. PB!Total(q) <= 100
  <2>1. q[1] * T + q[2] * T + q[3] * T + q[4] * T + q[5] * T <= 100 * T
    BY <1>2, <1>3 DEF BarInv
  <2>2. q[1] + q[2] + q[3] + q[4] + q[5] <= 100
    BY <1>1, <1>2, <1>4, <2>1, Shares
  <2> QED
    BY <2>2 DEF PB!Total
<1>6. ASSUME NEW s \in 1 .. 5, pbCount[s] = 0 PROVE q[s] = 0
  <2>1. q[s] * T <= 0 /\ q[s] \in Nat
    BY <1>3, <1>6
  <2> QED
    BY <1>1, <1>2, <2>1
<1>7. \E s \in 1 .. 5 : pbCount[s] > 0 /\ q[s] > 0
  <2>1. SUFFICES ASSUME \A s \in 1 .. 5 : q[s] = 0 PROVE FALSE
    BY <1>4, <1>6 DEF BarInv
  <2>2. ASSUME NEW s \in 1 .. 5 PROVE pbCount[s] * 100 < T
    <3>1. pbCount[s] * 100 < q[s] * T + T
      BY <1>3
    <3>2. q[s] * T = 0
      BY <1>2, <2>1
    <3> QED
      BY <1>2, <3>1, <3>2
  <2> QED
    BY <1>1, <1>2, <2>2 DEF BarInv
<1>8. PB!Total(pct)' = PB!Total(q)
  BY <1>1 DEF PB!Total
<1> QED
  BY <1>1, <1>4, <1>5, <1>6, <1>7, <1>8 DEF BarInv

LEMMA HandedOut ==
  ASSUME BarInv, PB!HandOut
  PROVE  BarInv'
<1>1. /\ pbDoing = "handout" /\ pbDoing' = pbDoing /\ pbCount' = pbCount
      /\ PB!Total(pct) < 100 /\ pbNext' = (pbNext % 5) + 1
  BY DEF PB!HandOut, PB!Remainder, BarInv, PB!Total
<1>2. pbNext' \in 1 .. 5
  BY <1>1 DEF BarInv
<1>3. CASE pct' = pct
  BY <1>1, <1>2, <1>3 DEF BarInv, PB!Total
<1>4. CASE pbNext \in PB!Shown /\ pct' = [pct EXCEPT ![pbNext] = @ + 1]
  <2>1. pct' \in [1 .. 5 -> Nat] /\ pbCount[pbNext] > 0
        /\ \A s \in 1 .. 5 : pct'[s] = IF s = pbNext THEN pct[s] + 1 ELSE pct[s]
    BY <1>4 DEF BarInv, PB!Shown
  <2>2. PB!Total(pct)' = PB!Total(pct) + 1
    BY <2>1 DEF BarInv, PB!Total
  <2>3. PB!Total(pct)' <= 100
    BY <1>1, <2>2 DEF BarInv, PB!Total
  <2>4. \A s \in 1 .. 5 : pbCount[s] = 0 => pct'[s] = 0
    BY <1>1, <2>1 DEF BarInv
  <2>5. \E s \in 1 .. 5 : pbCount[s] > 0 /\ pct'[s] > 0
    BY <1>1, <2>1 DEF BarInv
  <2> QED
    BY <1>1, <1>2, <2>1, <2>3, <2>4, <2>5 DEF BarInv
<1> QED
  BY <1>3, <1>4 DEF PB!HandOut

LEMMA Raised ==
  ASSUME BarInv, PB!Raise
  PROVE  BarInv'
<1>1. /\ pbDoing = "handout" /\ pbDoing' = "reclaim" /\ UNCHANGED <<pbCount, pbNext>>
      /\ PB!Total(pct) >= 100
  BY DEF PB!Raise, PB!Remainder, BarInv, PB!Total
<1>2. /\ pct' \in [1 .. 5 -> Nat]
      /\ \A s \in 1 .. 5 : pct'[s] = IF pbCount[s] > 0 /\ pct[s] < 2 THEN 2 ELSE pct[s]
  BY DEF PB!Raise, PB!Floored, PB!MinPct, PB!Segments, PB!Shown, BarInv
<1>3. \A s \in 1 .. 5 : pct'[s] >= pct[s]
  BY <1>2 DEF BarInv
<1>4. PB!Total(pct)' >= 100
  BY <1>1, <1>2, <1>3 DEF BarInv, PB!Total
<1>5. \A s \in 1 .. 5 : IF pbCount[s] > 0 THEN pct'[s] >= 2 ELSE pct'[s] = 0
  BY <1>1, <1>2 DEF BarInv
<1> QED
  BY <1>1, <1>2, <1>4, <1>5 DEF BarInv

LEMMA Reclaimed ==
  ASSUME BarInv, PB!Reclaim
  PROVE  BarInv'
<1>1. PICK s \in PB!Reducible : pct' = [pct EXCEPT ![s] = @ - 1]
  BY DEF PB!Reclaim
<1>2. s \in 1 .. 5 /\ pbCount[s] > 0 /\ pct[s] > 2
  BY <1>1 DEF PB!Reducible, PB!Shown, PB!Segments, PB!MinPct
<1>3. /\ pbDoing = "reclaim" /\ UNCHANGED <<pbCount, pbNext, pbDoing>> /\ PB!Total(pct) > 100
  BY DEF PB!Reclaim, PB!Surplus, BarInv, PB!Total
<1>4. /\ pct' \in [1 .. 5 -> Nat]
      /\ \A u \in 1 .. 5 : pct'[u] = IF u = s THEN pct[u] - 1 ELSE pct[u]
  BY <1>1, <1>2 DEF BarInv
<1>5. PB!Total(pct)' = PB!Total(pct) - 1
  BY <1>2, <1>4 DEF BarInv, PB!Total
<1>6. PB!Total(pct)' >= 100
  BY <1>3, <1>5 DEF BarInv, PB!Total
<1>7. PB!Shown # {}
  BY <1>1 DEF PB!Reducible
<1>8. \A u \in 1 .. 5 : IF pbCount[u] > 0 THEN pct'[u] >= 2 ELSE pct'[u] = 0
  BY <1>2, <1>3, <1>4, <1>7 DEF BarInv
<1> QED
  BY <1>3, <1>4, <1>6, <1>8 DEF BarInv

\* A surplus with nothing to give back a point would be a row of floors, which
\* is not a tenth of the width.
LEMMA Drawn ==
  ASSUME BarInv, PB!Draw
  PROVE  BarInv'
<1>1. pbDoing = "reclaim" /\ pbDoing' = "drawn" /\ UNCHANGED <<pbCount, pct, pbNext>>
  BY DEF PB!Draw
<1>2. PB!Shown' = PB!Shown /\ PB!Total(pct)' = PB!Total(pct)
  BY <1>1 DEF PB!Shown, PB!Total
<1>3. ASSUME PB!Shown # {} PROVE PB!Total(pct) = 100
  <2>1. CASE PB!Surplus <= 0
    BY <1>1, <1>3, <2>1 DEF BarInv, PB!Surplus, PB!Total
  <2>2. CASE PB!Reducible = {}
    <3>1. \A s \in 1 .. 5 : pct[s] <= 2
      BY <1>1, <1>3, <2>2 DEF BarInv, PB!Reducible, PB!Shown, PB!Segments, PB!MinPct
    <3>2. PB!Total(pct) <= 10
      BY <3>1 DEF BarInv, PB!Total
    <3> QED
      BY <1>1, <1>3, <3>2 DEF BarInv, PB!Total
  <2> QED
    BY <2>1, <2>2 DEF PB!Draw
<1> QED
  BY <1>1, <1>2, <1>3 DEF BarInv

LEMMA BarKept == ASSUME BarInv, [PB!Next]_PB!vars PROVE BarInv'
<1>1. CASE UNCHANGED PB!vars
  BY <1>1 DEF PB!vars, BarInv, PB!Total, PB!Shown
<1>2. CASE PB!Empty
  <2>1. PB!Total(pbCount) = 0 /\ pbDoing' = "drawn" /\ UNCHANGED <<pbCount, pct, pbNext>>
    BY <1>2 DEF PB!Empty
  <2>2. PB!Shown' = {}
    BY <2>1 DEF BarInv, PB!Total, PB!Shown, PB!Segments
  <2> QED
    BY <2>1, <2>2 DEF BarInv
<1> QED
  BY <1>1, <1>2, Truncated, HandedOut, Raised, Reclaimed, Drawn DEF PB!Next

\* Whatever the counts, the row of a drawn bar fills its width and no stage with
\* a track is too narrow to be seen (internal/mcp/bar.go computePipelineBar).
THEOREM BarsAreWhole ==
  ASSUME BarConstants
  PROVE  PB!Spec => []PB!BarIsWhole
<1>1. PB!Init => BarInv
  BY DEF PB!Init, BarInv, BarConstants, PB!Segments
<1>2. BarInv /\ [PB!Next]_PB!vars => BarInv'
  BY BarKept
<1>3. BarInv => PB!BarIsWhole
  BY DEF BarInv, PB!BarIsWhole, PB!Shown, PB!Segments, PB!MinPct
<1> QED
  BY <1>1, <1>2, <1>3, PTL DEF PB!Spec

-----------------------------------------------------------------------------
(* The server cards.                                                       *)

Probes == {"none", "offline", "ready", "held", "stopped"}

\* What a page read is lists, and the latest beat or run of them is bounded.
ListsRead(p) ==
  /\ \E S : p.servers \in Seq(S) /\ p.runners \in Seq(S) /\ p.hosts \in Seq(S)
  /\ \A k \in DOMAIN p.servers : p.servers[k].probe \in Probes
  /\ \E top \in Nat : /\ \A r \in DOMAIN p.runners : p.runners[r].beat \in 0 .. top
                      /\ \A h \in DOMAIN p.hosts : p.hosts[h].finished \in 0 .. top

CardConstants == \A p \in CardPages : ListsRead(p)

\* The cards made so far, with what they take: no runner and no host twice.
CardsApart ==
  /\ \A k \in DOMAIN cards : /\ cards[k].runner \in scLive \cup {0} /\ cards[k].host \in scUsed \cup {0}
                             /\ cards[k].probe \in Probes
  /\ \A j, k \in DOMAIN cards : cards[j].runner = cards[k].runner /\ cards[k].runner # 0 => j = k
  /\ \A j, k \in DOMAIN cards : cards[j].host = cards[k].host /\ cards[k].host # 0 => j = k

\* And nothing taken without its card.
CardsKept ==
  /\ \A r \in scLive : \E k \in DOMAIN cards : cards[k].runner = r
  /\ \A h \in scUsed : SC!Recent(h) => \E k \in DOMAIN cards : h \in cards[k].counted

\* What the loops have been over.
LoopsDone ==
  /\ scDoing \in {"servers", "runners", "hosts", "health", "shown"} /\ scI \in Nat \ {0}
  /\ scDoing = "runners" => \A r \in SC!Runners : r < scI => r \in scLive
  /\ scDoing \in {"hosts", "health", "shown"} => SC!Runners \subseteq scLive
  /\ scDoing = "hosts" => \A h \in SC!Hosts : h < scI => h \in scUsed
  /\ scDoing \in {"health", "shown"} => SC!Hosts \subseteq scUsed

CardLists ==
  /\ ListsRead(scPage) /\ (\E S : cards \in Seq(S))
  /\ scLive \subseteq SC!Runners /\ scUsed \subseteq SC!Hosts

CardInv ==
  /\ CardLists /\ CardsApart /\ CardsKept /\ LoopsDone
  /\ scDoing = "shown" => health = SC!Judged

\* The places of a list.
LEMMA ListPlaces ==
  ASSUME NEW p, ListsRead(p)
  PROVE  /\ Len(p.servers) \in Nat /\ DOMAIN p.servers = 1 .. Len(p.servers)
         /\ Len(p.runners) \in Nat /\ DOMAIN p.runners = 1 .. Len(p.runners)
         /\ Len(p.hosts) \in Nat /\ DOMAIN p.hosts = 1 .. Len(p.hosts)
BY DEF ListsRead

\* The latest of some is one of them.
LEMMA LatestIsOne ==
  ASSUME NEW n \in Nat, NEW S \in SUBSET (1 .. n), NEW top \in Nat, NEW f, \A s \in S : f[s] \in 0 .. top
  PROVE  SC!Latest(S, f) \in S \cup {0} /\ (S # {} => SC!Latest(S, f) \in S)
<1>0. \A s \in S : f[s] \in Int /\ s \in Nat
  OBVIOUS
<1>1. CASE S = {}
  BY <1>1 DEF SC!Latest
<1>2. CASE S # {}
  <2> DEFINE ages == {top - f[s] : s \in S}
  <2>1. ages \in SUBSET Nat /\ ages # {}
    BY <1>2
  <2>2. PICK m \in ages : \A x \in ages : m <= x
    <3> HIDE DEF ages
    <3> QED
      BY <2>1, Least
  <2>3. PICK t \in S : m = top - f[t]
    OBVIOUS
  <2>4. \A s \in S : f[s] <= f[t]
    <3>1. ASSUME NEW s \in S PROVE f[s] <= f[t]
      <4>1. top - f[s] \in ages
        OBVIOUS
      <4>2. top - f[t] <= top - f[s]
        BY <2>2, <2>3, <4>1
      <4>3. f[s] \in Int /\ f[t] \in Int
        BY <1>0
      <4> QED
        BY <4>2, <4>3
    <3> QED
      BY <3>1
  <2> DEFINE Best == {s \in S : f[s] = f[t]}
  <2>5. Best \in SUBSET Nat /\ Best # {}
    <3>1. t \in Best /\ Best \subseteq S
      OBVIOUS
    <3> QED
      BY <1>0, <3>1
  <2>6. PICK b \in Best : \A s \in Best : b <= s
    <3> HIDE DEF Best
    <3> QED
      BY <2>5, Least
  <2>7. b \in S /\ \A u \in S : f[u] < f[b] \/ (f[u] = f[b] /\ b <= u)
    <3>1. ASSUME NEW u \in S PROVE f[u] < f[b] \/ (f[u] = f[b] /\ b <= u)
      <4>1. f[b] = f[t] /\ f[u] <= f[t] /\ f[u] \in Int /\ f[t] \in Int
        BY <1>0, <2>4
      <4>2. f[u] = f[t] => b <= u
        BY <2>6
      <4> QED
        BY <4>1, <4>2
    <3> QED
      BY <3>1
  <2> QED
    BY <1>2, <2>7 DEF SC!Latest
<1> QED
  BY <1>1, <1>2

LEMMA PickedFromLists ==
  ASSUME ListsRead(scPage)
  PROVE  /\ 0 \notin SC!Runners /\ 0 \notin SC!Hosts /\ SC!Runners \subseteq Nat /\ SC!Hosts \subseteq Nat
         /\ \A S \in SUBSET SC!Runners : SC!Freshest(S) \in S \cup {0}
         /\ \A S \in SUBSET SC!Hosts : SC!LastOf(S) \in S \cup {0} /\ (S # {} => SC!LastOf(S) \in S)
<1>1. /\ Len(scPage.runners) \in Nat /\ SC!Runners = 1 .. Len(scPage.runners)
      /\ Len(scPage.hosts) \in Nat /\ SC!Hosts = 1 .. Len(scPage.hosts)
  BY ListPlaces DEF SC!Runners, SC!Hosts
<1>2. PICK top \in Nat : /\ \A r \in SC!Runners : scPage.runners[r].beat \in 0 .. top
                         /\ \A h \in SC!Hosts : scPage.hosts[h].finished \in 0 .. top
  BY DEF ListsRead, SC!Runners, SC!Hosts
<1>3. ASSUME NEW S \in SUBSET SC!Runners PROVE SC!Freshest(S) \in S \cup {0}
  <2> DEFINE f == [r \in S |-> scPage.runners[r].beat]
  <2>1. \A s \in S : f[s] \in 0 .. top
    BY <1>2
  <2> HIDE DEF f
  <2>2. SC!Latest(S, f) \in S \cup {0}
    BY <1>1, <2>1, LatestIsOne
  <2> QED
    BY <2>2 DEF f, SC!Freshest
<1>4. ASSUME NEW S \in SUBSET SC!Hosts PROVE SC!LastOf(S) \in S \cup {0} /\ (S # {} => SC!LastOf(S) \in S)
  <2> DEFINE f == [h \in S |-> scPage.hosts[h].finished]
  <2>1. \A s \in S : f[s] \in 0 .. top
    BY <1>2
  <2> HIDE DEF f
  <2>2. SC!Latest(S, f) \in S \cup {0} /\ (S # {} => SC!Latest(S, f) \in S)
    BY <1>1, <2>1, LatestIsOne
  <2> QED
    BY <2>2 DEF f, SC!LastOf
<1> QED
  BY <1>1, <1>3, <1>4

\* A list with one more card.
LEMMA OneMore ==
  ASSUME NEW S, NEW s \in Seq(S), NEW c
  PROVE  /\ Append(s, c) \in Seq(S \cup {c}) /\ Len(s) \in Nat
         /\ DOMAIN s = 1 .. Len(s) /\ DOMAIN Append(s, c) = 1 .. Len(s) + 1
         /\ Append(s, c)[Len(s) + 1] = c /\ \A k \in 1 .. Len(s) : Append(s, c)[k] = s[k]
<1>1. s \in Seq(S \cup {c})
  OBVIOUS
<1> QED
  BY <1>1

\* A card for a runner and a host nobody took.
LEMMA CardMade ==
  ASSUME CardLists, CardsApart, CardsKept, scPage' = scPage,
         NEW c, cards' = Append(cards, c),
         c.runner \in (SC!Runners \ scLive) \cup {0}, c.host \in (SC!Hosts \ scUsed) \cup {0}, c.probe \in Probes,
         scLive' = scLive \cup ({c.runner} \ {0}),
         scUsed \subseteq scUsed', scUsed' \subseteq SC!Hosts, c.host \in scUsed' \cup {0},
         \A h \in scUsed' \ scUsed : SC!Recent(h) => h \in c.counted
  PROVE  CardLists' /\ CardsApart' /\ CardsKept'
<1> DEFINE n == Len(cards)
<1>1. PICK S : cards \in Seq(S)
  BY DEF CardLists
<1>2. /\ cards' \in Seq(S \cup {c}) /\ n \in Nat /\ DOMAIN cards = 1 .. n /\ DOMAIN cards' = 1 .. n + 1
      /\ cards'[n + 1] = c /\ \A k \in 1 .. n : cards'[k] = cards[k]
  BY <1>1, OneMore
<1> HIDE DEF n
<1>3. DOMAIN cards' = DOMAIN cards \cup {n + 1} /\ n + 1 \notin DOMAIN cards
      /\ \A k \in DOMAIN cards : cards'[k] = cards[k]
  BY <1>2
<1>4. /\ SC!Runners' = SC!Runners /\ SC!Hosts' = SC!Hosts /\ \A h : SC!Recent(h)' <=> SC!Recent(h)
      /\ ListsRead(scPage)'
  BY DEF SC!Runners, SC!Hosts, SC!Recent, ListsRead, CardLists
<1>5. CardLists'
  BY <1>2, <1>4 DEF CardLists
<1>6. CardsApart'
  <2>1. \A k \in DOMAIN cards' : /\ cards'[k].runner \in scLive' \cup {0} /\ cards'[k].host \in scUsed' \cup {0}
                                 /\ cards'[k].probe \in Probes
    BY <1>2, <1>3 DEF CardsApart
  <2>2. \A k \in DOMAIN cards : /\ cards[k].runner = 0 \/ cards[k].runner # c.runner
                                /\ cards[k].host = 0 \/ cards[k].host # c.host
    BY DEF CardsApart
  <2>3. \A j, k \in DOMAIN cards' : cards'[j].runner = cards'[k].runner /\ cards'[k].runner # 0 => j = k
    BY <1>2, <1>3, <2>2 DEF CardsApart
  <2>4. \A j, k \in DOMAIN cards' : cards'[j].host = cards'[k].host /\ cards'[k].host # 0 => j = k
    BY <1>2, <1>3, <2>2 DEF CardsApart
  <2> QED
    BY <2>1, <2>3, <2>4 DEF CardsApart
<1>7. CardsKept'
  <2>1. \A r \in scLive' : \E k \in DOMAIN cards' : cards'[k].runner = r
    BY <1>2, <1>3 DEF CardsKept
  <2>2. \A h \in scUsed' : SC!Recent(h) => \E k \in DOMAIN cards' : h \in cards'[k].counted
    BY <1>2, <1>3 DEF CardsKept
  <2> QED
    BY <1>4, <2>1, <2>2 DEF CardsKept
<1> QED
  BY <1>5, <1>6, <1>7

LEMMA ServerCarded ==
  ASSUME CardInv, SC!Server
  PROVE  CardInv'
<1> DEFINE s       == scPage.servers[scI]
           runners == {r \in SC!Runners \ scLive : s.token \in NameHolds[scPage.runners[r].name]}
           runner  == SC!Freshest(runners)
           hosts   == {h \in SC!Hosts \ scUsed : s.token \in NameHolds[scPage.hosts[h].name]}
           c       == SC!Card(TRUE, runner, hosts, s.probe)
<1>1. /\ scDoing = "servers" /\ scDoing' = scDoing /\ scI <= Len(scPage.servers) /\ scI' = scI + 1
      /\ scPage' = scPage
      /\ scLive' = scLive \cup ({runner} \ {0}) /\ scUsed' = scUsed \cup hosts /\ cards' = Append(cards, c)
  BY DEF SC!Server
<1>2. CardLists /\ CardsApart /\ CardsKept /\ ListsRead(scPage) /\ scI \in Nat \ {0}
  BY DEF CardInv, CardLists, LoopsDone
<1>3. s.probe \in Probes
  BY <1>1, <1>2, ListPlaces DEF ListsRead
<1>4. runner \in (SC!Runners \ scLive) \cup {0}
  <2>1. runners \in SUBSET SC!Runners
    OBVIOUS
  <2>2. runner \in runners \cup {0}
    <3> HIDE DEF runners
    <3> QED
      BY <1>2, <2>1, PickedFromLists
  <2> QED
    BY <2>2
<1>5. SC!LastOf(hosts) \in hosts \cup {0} /\ hosts \subseteq SC!Hosts \ scUsed
  <2>1. hosts \in SUBSET SC!Hosts /\ hosts \subseteq SC!Hosts \ scUsed
    OBVIOUS
  <2> HIDE DEF hosts
  <2> QED
    BY <1>2, <2>1, PickedFromLists
<1> HIDE DEF hosts, runner, runners, s
<1>6. c.runner = runner /\ c.host = SC!LastOf(hosts) /\ c.counted = hosts /\ c.probe = s.probe
  BY DEF SC!Card
<1> HIDE DEF c
<1>7. CardLists' /\ CardsApart' /\ CardsKept'
  <2>1. scUsed \subseteq scUsed' /\ scUsed' \subseteq SC!Hosts /\ c.host \in scUsed' \cup {0}
    BY <1>1, <1>2, <1>5, <1>6 DEF CardLists
  <2>2. \A h \in scUsed' \ scUsed : SC!Recent(h) => h \in c.counted
    BY <1>1, <1>6
  <2>3. c.host \in (SC!Hosts \ scUsed) \cup {0}
    BY <1>5, <1>6
  <2>4. scLive' = scLive \cup ({c.runner} \ {0}) /\ c.runner \in (SC!Runners \ scLive) \cup {0} /\ c.probe \in Probes
    BY <1>1, <1>3, <1>4, <1>6
  <2> QED
    BY <1>1, <1>2, <2>1, <2>2, <2>3, <2>4, CardMade
<1>8. LoopsDone' /\ scDoing' # "shown"
  BY <1>1, <1>2 DEF LoopsDone
<1> QED
  BY <1>7, <1>8 DEF CardInv

LEMMA RunnerCarded ==
  ASSUME CardInv, SC!Runner
  PROVE  CardInv'
<1> DEFINE hosts == {h \in SC!Hosts \ scUsed : scPage.hosts[h].name \in NameHolds[scPage.runners[scI].name]}
           c     == SC!Card(FALSE, scI, hosts, "none")
<1>1. /\ scDoing = "runners" /\ scDoing' = scDoing /\ scI \in SC!Runners /\ scI' = scI + 1
      /\ scPage' = scPage
  BY DEF SC!Runner
<1>2. CardLists /\ CardsApart /\ CardsKept /\ LoopsDone /\ ListsRead(scPage) /\ scI \in Nat \ {0}
  BY DEF CardInv, CardLists, LoopsDone
<1>3. SC!Runners' = SC!Runners /\ SC!Hosts' = SC!Hosts /\ \A h : SC!Recent(h)' <=> SC!Recent(h)
  BY <1>1 DEF SC!Runners, SC!Hosts, SC!Recent
<1>4. /\ CardLists' /\ CardsApart' /\ CardsKept' /\ scI \in scLive' /\ scLive \subseteq scLive'
  <2>1. CASE scI \in scLive
    <3>1. UNCHANGED <<scLive, scUsed, cards>>
      BY <2>1 DEF SC!Runner
    <3> QED
      BY <1>1, <1>2, <1>3, <2>1, <3>1 DEF CardLists, CardsApart, CardsKept, ListsRead
  <2>2. CASE scI \notin scLive
    <3>1. /\ scLive' = scLive \cup {scI} /\ scUsed' = scUsed \cup ({SC!LastOf(hosts)} \ {0})
          /\ cards' = Append(cards, c)
      BY <2>2 DEF SC!Runner
    <3>2. SC!LastOf(hosts) \in hosts \cup {0} /\ hosts \subseteq SC!Hosts \ scUsed
      <4>1. hosts \in SUBSET SC!Hosts /\ hosts \subseteq SC!Hosts \ scUsed
        OBVIOUS
      <4> HIDE DEF hosts
      <4> QED
        BY <1>2, <4>1, PickedFromLists
    <3> HIDE DEF hosts
    <3>3. c.runner = scI /\ c.host = SC!LastOf(hosts) /\ c.counted = hosts /\ c.probe = "none"
      BY DEF SC!Card
    <3> HIDE DEF c
    <3>4. scUsed \subseteq scUsed' /\ scUsed' \subseteq SC!Hosts /\ c.host \in scUsed' \cup {0}
      BY <1>2, <3>1, <3>2, <3>3 DEF CardLists
    <3>5. \A h \in scUsed' \ scUsed : SC!Recent(h) => h \in c.counted
      BY <3>1, <3>2, <3>3
    <3>6. c.host \in (SC!Hosts \ scUsed) \cup {0}
      BY <3>2, <3>3
    <3>7. scLive' = scLive \cup ({c.runner} \ {0}) /\ c.runner \in (SC!Runners \ scLive) \cup {0} /\ c.probe \in Probes
      BY <1>1, <1>2, <2>2, <3>1, <3>3 DEF Probes
    <3>8. CardLists' /\ CardsApart' /\ CardsKept'
      BY <1>1, <1>2, <3>1, <3>4, <3>5, <3>6, <3>7, CardMade
    <3> QED
      BY <3>1, <3>8
  <2> QED
    BY <2>1, <2>2
<1>5. LoopsDone' /\ scDoing' # "shown"
  <2>1. \A r \in SC!Runners : r < scI + 1 => r \in scLive'
    <3>1. SC!Runners \subseteq Nat
      BY <1>2, PickedFromLists
    <3>2. ASSUME NEW r \in SC!Runners, r < scI + 1 PROVE r < scI \/ r = scI
      BY <1>2, <3>1, <3>2
    <3> QED
      BY <1>1, <1>2, <1>4, <3>2 DEF LoopsDone
  <2> QED
    BY <1>1, <1>2, <1>3, <2>1 DEF LoopsDone
<1> QED
  BY <1>4, <1>5 DEF CardInv

LEMMA HostCarded ==
  ASSUME CardInv, SC!Host
  PROVE  CardInv'
<1> DEFINE c == SC!Card(FALSE, 0, {scI}, "none")
<1>1. /\ scDoing = "hosts" /\ scDoing' = scDoing /\ scI \in SC!Hosts /\ scI' = scI + 1
      /\ scPage' = scPage /\ scLive' = scLive /\ scUsed' = scUsed \cup {scI}
      /\ cards' = IF scI \notin scUsed /\ SC!Recent(scI) THEN Append(cards, c) ELSE cards
  BY DEF SC!Host
<1>2. CardLists /\ CardsApart /\ CardsKept /\ LoopsDone /\ ListsRead(scPage) /\ scI \in Nat \ {0}
  BY DEF CardInv, CardLists, LoopsDone
<1>3. SC!Runners' = SC!Runners /\ SC!Hosts' = SC!Hosts /\ \A h : SC!Recent(h)' <=> SC!Recent(h)
  BY <1>1 DEF SC!Runners, SC!Hosts, SC!Recent
<1>4. /\ CardLists' /\ CardsApart' /\ CardsKept'
  <2>1. CASE scI \notin scUsed /\ SC!Recent(scI)
    <3>1. SC!LastOf({scI}) = scI
      BY <1>1, <1>2, PickedFromLists
    <3>2. c.runner = 0 /\ c.host = scI /\ c.counted = {scI} /\ c.probe = "none"
      BY <3>1 DEF SC!Card
    <3> HIDE DEF c
    <3>3. /\ scUsed \subseteq scUsed' /\ scUsed' \subseteq SC!Hosts /\ c.host \in scUsed' \cup {0}
          /\ \A h \in scUsed' \ scUsed : SC!Recent(h) => h \in c.counted
      BY <1>1, <1>2, <3>2 DEF CardLists
    <3>4. /\ scLive' = scLive \cup ({c.runner} \ {0}) /\ c.runner \in (SC!Runners \ scLive) \cup {0}
          /\ c.probe \in Probes /\ c.host \in (SC!Hosts \ scUsed) \cup {0} /\ cards' = Append(cards, c)
      BY <1>1, <2>1, <3>2 DEF Probes
    <3> QED
      BY <1>1, <1>2, <3>3, <3>4, CardMade
  <2>2. CASE ~(scI \notin scUsed /\ SC!Recent(scI))
    <3>1. cards' = cards
      BY <1>1, <2>2
    <3>2. ListsRead(scPage)' /\ CardLists'
      BY <1>1, <1>2, <1>3, <3>1 DEF CardLists, ListsRead
    <3>3. CardsApart'
      BY <1>1, <1>2, <3>1 DEF CardsApart
    <3>4. \A h \in scUsed' : SC!Recent(h) => \E k \in DOMAIN cards' : h \in cards'[k].counted
      BY <1>1, <1>2, <2>2, <3>1 DEF CardsKept
    <3>5. CardsKept'
      BY <1>1, <1>2, <1>3, <3>1, <3>4 DEF CardsKept
    <3> QED
      BY <3>2, <3>3, <3>5
  <2> QED
    BY <2>1, <2>2
<1>5. LoopsDone' /\ scDoing' # "shown"
  <2>1. \A h \in SC!Hosts : h < scI + 1 => h \in scUsed'
    <3>1. SC!Hosts \subseteq Nat
      BY <1>2, PickedFromLists
    <3>2. ASSUME NEW h \in SC!Hosts, h < scI + 1 PROVE h < scI \/ h = scI
      BY <1>2, <3>1, <3>2
    <3> QED
      BY <1>1, <1>2, <3>2 DEF LoopsDone
  <2> QED
    BY <1>1, <1>2, <1>3, <2>1 DEF LoopsDone
<1> QED
  BY <1>4, <1>5 DEF CardInv

LEMMA LoopTurns ==
  ASSUME CardInv, SC!NextLoop
  PROVE  CardInv'
<1>1. UNCHANGED <<scPage, scLive, scUsed, cards, health>>
  BY DEF SC!NextLoop
<1>2. SC!Runners' = SC!Runners /\ SC!Hosts' = SC!Hosts /\ \A h : SC!Recent(h)' <=> SC!Recent(h)
  BY <1>1 DEF SC!Runners, SC!Hosts, SC!Recent
<1>3. CardLists' /\ CardsApart' /\ CardsKept'
  BY <1>1, <1>2 DEF CardInv, CardLists, CardsApart, CardsKept, ListsRead
<1>4. /\ Len(scPage.runners) \in Nat /\ SC!Runners = 1 .. Len(scPage.runners)
      /\ Len(scPage.hosts) \in Nat /\ SC!Hosts = 1 .. Len(scPage.hosts)
  BY ListPlaces DEF SC!Runners, SC!Hosts, CardInv, CardLists
<1>5. scI \in Nat /\ LoopsDone
  BY DEF CardInv, LoopsDone
<1>6. CASE SC!Turn("servers", Len(scPage.servers), "runners")
  <2>1. scDoing' = "runners" /\ scI' = 1
    BY <1>6 DEF SC!Turn
  <2>2. \A r \in SC!Runners : ~(r < 1)
    BY <1>4
  <2> QED
    BY <1>2, <1>3, <2>1, <2>2 DEF CardInv, LoopsDone
<1>7. CASE SC!Turn("runners", Len(scPage.runners), "hosts")
  <2>1. scDoing = "runners" /\ scDoing' = "hosts" /\ scI' = 1 /\ scI > Len(scPage.runners)
    BY <1>7 DEF SC!Turn
  <2>2. \A h \in SC!Hosts : ~(h < 1)
    BY <1>4
  <2>3. \A r \in SC!Runners : r < scI
    BY <1>4, <1>5, <2>1
  <2>4. SC!Runners \subseteq scLive
    BY <1>5, <2>1, <2>3 DEF LoopsDone
  <2> QED
    BY <1>1, <1>2, <1>3, <2>1, <2>2, <2>4 DEF CardInv, LoopsDone
<1>8. CASE SC!Turn("hosts", Len(scPage.hosts), "health")
  <2>1. scDoing = "hosts" /\ scDoing' = "health" /\ scI' = 1 /\ scI > Len(scPage.hosts)
    BY <1>8 DEF SC!Turn
  <2>2. \A h \in SC!Hosts : h < scI
    BY <1>4, <1>5, <2>1
  <2>3. SC!Hosts \subseteq scUsed
    BY <1>5, <2>1, <2>2 DEF LoopsDone
  <2> QED
    BY <1>1, <1>2, <1>3, <1>5, <2>1, <2>3 DEF CardInv, LoopsDone
<1> QED
  BY <1>6, <1>7, <1>8 DEF SC!NextLoop

\* The health is of the cards and of what the page read.
LEMMA SameHealth ==
  ASSUME UNCHANGED <<scPage, cards>>
  PROVE  SC!Judged' = SC!Judged
<1>1. \A s : SC!In(s)' = SC!In(s)
  BY DEF SC!In, SC!State
<1>2. SC!Probed' = SC!Probed
  BY DEF SC!Probed
<1>3. SC!Busy' = SC!Busy /\ SC!AllAway' = SC!AllAway
  BY <1>1, <1>2 DEF SC!Busy, SC!AllAway
<1>4. SC!Stopped' = SC!Stopped /\ SC!Held' = SC!Held
  BY <1>3 DEF SC!Stopped, SC!Held
<1>5. SC!AwayHealth' = SC!AwayHealth
  BY <1>4 DEF SC!AwayHealth
<1> QED
  BY <1>1, <1>2, <1>3, <1>5 DEF SC!Judged

LEMMA HealthJudged ==
  ASSUME CardInv, SC!Health
  PROVE  CardInv'
<1>1. UNCHANGED <<scPage, scLive, scUsed, cards, scI>> /\ scDoing = "health" /\ scDoing' = "shown"
      /\ health' = SC!Judged
  BY DEF SC!Health
<1>2. SC!Runners' = SC!Runners /\ SC!Hosts' = SC!Hosts /\ \A h : SC!Recent(h)' <=> SC!Recent(h)
  BY <1>1 DEF SC!Runners, SC!Hosts, SC!Recent
<1>3. CardLists' /\ CardsApart' /\ CardsKept'
  BY <1>1, <1>2 DEF CardInv, CardLists, CardsApart, CardsKept, ListsRead
<1>4. LoopsDone'
  BY <1>1, <1>2 DEF CardInv, LoopsDone
<1> QED
  BY <1>1, <1>3, <1>4, SameHealth DEF CardInv

\* What a card's state says of it.
LEMMA StateSays ==
  ASSUME NEW c, c.probe \in Probes
  PROVE  /\ SC!State(c) = "transcribing" <=> c.runner # 0 /\ scPage.runners[c.runner].beat > 0
         /\ SC!State(c) = "stalled" <=> c.runner # 0 /\ ~(scPage.runners[c.runner].beat > 0)
         /\ SC!State(c) = "busy" => c.probe \in {"held", "stopped"}
BY DEF SC!State, Probes

LEMMA HealthIsTrue ==
  ASSUME CardInv, scDoing = "shown"
  PROVE  SC!HealthIsHonest
<1>1. /\ health = SC!Judged /\ SC!Runners \subseteq scLive /\ scLive \subseteq SC!Runners /\ 0 \notin SC!Runners
      /\ \A r \in SC!Runners : scPage.runners[r].beat \in Nat
  <2>1. 0 \notin SC!Runners
    BY PickedFromLists DEF CardInv, CardLists
  <2>2. \A r \in SC!Runners : scPage.runners[r].beat \in Nat
    BY DEF CardInv, CardLists, ListsRead, SC!Runners
  <2> QED
    BY <2>1, <2>2 DEF CardInv, LoopsDone, CardLists
<1>2. \A k \in DOMAIN cards : cards[k].probe \in Probes /\ cards[k].runner \in SC!Runners \cup {0}
  BY <1>1 DEF CardInv, CardsApart
<1>3. \A r \in SC!Runners : \E k \in DOMAIN cards : cards[k].runner = r
  BY <1>1 DEF CardInv, CardsKept
<1>4. SC!In("transcribing") # {} <=> \E r \in SC!Runners : scPage.runners[r].beat > 0
  BY <1>1, <1>2, <1>3, StateSays DEF SC!In
<1>5. SC!In("stalled") # {} <=> \E r \in SC!Runners : ~(scPage.runners[r].beat > 0)
  BY <1>1, <1>2, <1>3, StateSays DEF SC!In
<1>6. \A S \in SUBSET DOMAIN cards : S # {} => SC!First(S) \in S
  <2>1. DOMAIN cards \subseteq Nat
    BY DEF CardInv, CardLists
  <2>2. ASSUME NEW S \in SUBSET DOMAIN cards, S # {} PROVE SC!First(S) \in S
    <3>1. \E n \in S : \A m \in S : n <= m
      BY <2>1, <2>2, Least
    <3> QED
      BY <3>1 DEF SC!First
  <2> QED
    BY <2>2
<1>7. \A s, S : SC!Says(s, S).is = s /\ SC!Says(s, S).of = SC!First(S) /\ SC!Plain(s).is = s
  BY DEF SC!Says, SC!Plain
<1>8. ASSUME SC!AllAway
      PROVE  /\ SC!AwayHealth.is \in {"idle", "degraded"}
             /\ cards[SC!AwayHealth.of].probe \in {"held", "stopped"}
  <2>1. SC!Busy # {} /\ SC!Busy \subseteq DOMAIN cards /\ \A k \in SC!Busy : cards[k].probe \in {"held", "stopped"}
    BY <1>2, <1>8, StateSays DEF SC!AllAway, SC!Busy, SC!In
  <2>2. CASE SC!Stopped # {}
    <3>1. SC!First(SC!Stopped) \in SC!Stopped
      BY <1>6, <2>1, <2>2 DEF SC!Stopped
    <3>2. cards[SC!First(SC!Stopped)].probe = "stopped"
      BY <3>1 DEF SC!Stopped
    <3>3. SC!AwayHealth \in {SC!Says("idle", SC!Stopped), SC!Says("degraded", SC!Stopped)}
      BY <2>2 DEF SC!AwayHealth
    <3> QED
      BY <1>7, <3>2, <3>3
  <2>3. CASE SC!Stopped = {}
    <3>1. SC!Held # {} /\ SC!Held \subseteq DOMAIN cards
      BY <2>1, <2>3 DEF SC!Held, SC!Stopped
    <3>2. SC!First(SC!Held) \in SC!Held
      BY <1>6, <3>1
    <3>3. cards[SC!First(SC!Held)].probe = "held"
      BY <3>2 DEF SC!Held
    <3>4. SC!AwayHealth \in {SC!Says("idle", SC!Held), SC!Says("degraded", SC!Held)}
      BY <2>3 DEF SC!AwayHealth
    <3> QED
      BY <1>7, <3>3, <3>4
  <2> QED
    BY <2>2, <2>3
<1>9. /\ health.is = "failing" <=> SC!In("transcribing") = {} /\ SC!In("stalled") # {}
      /\ health.is = "degraded" => cards[health.of].probe \in {"held", "stopped"}
  <2>1. CASE SC!In("transcribing") # {} \/ SC!In("stalled") # {} \/ SC!In("ready") # {}
    BY <1>1, <1>7, <2>1 DEF SC!Judged
  <2>2. CASE SC!In("transcribing") = {} /\ SC!In("stalled") = {} /\ SC!In("ready") = {}
    <3>1. CASE SC!AllAway
      BY <1>1, <1>8, <2>2, <3>1 DEF SC!Judged
    <3>2. CASE ~SC!AllAway
      BY <1>1, <1>7, <2>2, <3>2 DEF SC!Judged
    <3> QED
      BY <3>1, <3>2
  <2> QED
    BY <2>1, <2>2
<1>10. \A r \in SC!Runners : scPage.runners[r].beat > 0 \/ scPage.runners[r].beat = 0
  BY <1>1
<1>11. health.is = "failing" <=> SC!Runners # {} /\ \A r \in SC!Runners : scPage.runners[r].beat = 0
  BY <1>1, <1>4, <1>5, <1>9, <1>10
<1> QED
  BY <1>9, <1>11 DEF SC!HealthIsHonest

\* The instance counts as this module does.
LEMMA CardCount ==
  ASSUME NEW S PROVE SC!Cardinality(S) = Cardinality(S)
  BY DEF SC!Cardinality, Cardinality

LEMMA OneCardEach ==
  ASSUME CardInv, scDoing = "shown"
  PROVE  SC!NoneLostNoneTwice
<1>1. SC!Runners \subseteq scLive /\ SC!Hosts \subseteq scUsed /\ 0 \notin SC!Runners /\ 0 \notin SC!Hosts
  <2>1. 0 \notin SC!Runners /\ 0 \notin SC!Hosts
    BY PickedFromLists DEF CardInv, CardLists
  <2> QED
    BY <2>1 DEF CardInv, LoopsDone
<1>2. ASSUME NEW r \in SC!Runners PROVE SC!Cardinality({k \in DOMAIN cards : cards[k].runner = r}) = 1
  <2> DEFINE S == {k \in DOMAIN cards : cards[k].runner = r}
  <2>1. \E k : S = {k}
    <3>1. PICK k \in DOMAIN cards : cards[k].runner = r
      BY <1>1, <1>2 DEF CardInv, CardsKept
    <3>2. \A j \in DOMAIN cards : cards[j].runner = r => j = k
      BY <1>1, <1>2, <3>1 DEF CardInv, CardsApart
    <3>3. S = {k}
      BY <3>1, <3>2
    <3> QED
      BY <3>3
  <2> HIDE DEF S
  <2>2. SC!Cardinality(S) = 1
    BY <2>1, CardCount, FS_Singleton
  <2> QED
    BY <2>2 DEF S
<1>3. ASSUME NEW h \in SC!Hosts PROVE SC!Cardinality({k \in DOMAIN cards : cards[k].host = h}) <= 1
  <2> DEFINE S == {k \in DOMAIN cards : cards[k].host = h}
  <2>1. S = {} \/ \E k : S = {k}
    BY <1>1, <1>3 DEF CardInv, CardsApart
  <2> HIDE DEF S
  <2>2. SC!Cardinality(S) \in {0, 1}
    BY <2>1, CardCount, FS_Singleton, FS_EmptySet
  <2>3. SC!Cardinality(S) <= 1
    BY <2>2
  <2> QED
    BY <2>3 DEF S
<1>4. \A h \in SC!Hosts : SC!Recent(h) => \E k \in DOMAIN cards : h \in cards[k].counted
  BY <1>1 DEF CardInv, CardsKept
<1> QED
  BY <1>2, <1>3, <1>4 DEF SC!NoneLostNoneTwice

LEMMA CardsInductive == ASSUME CardInv, [SC!Next]_SC!vars PROVE CardInv'
<1>1. ASSUME UNCHANGED SC!vars PROVE CardInv'
  <2>1. UNCHANGED <<scPage, scDoing, scI, scLive, scUsed, cards, health>>
    BY <1>1 DEF SC!vars
  <2>2. SC!Runners' = SC!Runners /\ SC!Hosts' = SC!Hosts /\ \A h : SC!Recent(h)' <=> SC!Recent(h)
    BY <2>1 DEF SC!Runners, SC!Hosts, SC!Recent
  <2>3. CardLists' /\ CardsApart' /\ CardsKept'
    BY <2>1, <2>2 DEF CardInv, CardLists, CardsApart, CardsKept, ListsRead
  <2>4. LoopsDone'
    BY <2>1, <2>2 DEF CardInv, LoopsDone
  <2> QED
    BY <2>1, <2>3, <2>4, SameHealth DEF CardInv
<1> QED
  BY <1>1, ServerCarded, RunnerCarded, HostCarded, LoopTurns, HealthJudged DEF SC!Next

\* However the servers, the runners and the hosts of past runs are called, each
\* runner has one card, no host has two and none that ran of late has none, and
\* the role is called failing just when every runner has stalled
\* (internal/mcp/servers.go buildServerViews, internal/mcp/models.go asrHealth).
THEOREM CardsAreTrue ==
  ASSUME CardConstants
  PROVE  SC!Spec => [](SC!NoneLostNoneTwice /\ SC!HealthIsHonest)
<1>1. SC!Init => CardInv
  <2> SUFFICES ASSUME SC!Init PROVE CardInv
    OBVIOUS
  <2>1. /\ scPage \in CardPages /\ scDoing = "servers" /\ scI = 1
        /\ scLive = {} /\ scUsed = {} /\ cards = <<>>
    BY DEF SC!Init
  <2>2. CardLists
    <3>1. cards \in Seq({})
      BY <2>1
    <3> QED
      BY <2>1, <3>1 DEF CardLists, CardConstants
  <2>3. CardsApart /\ CardsKept
    BY <2>1 DEF CardsApart, CardsKept
  <2> QED
    BY <2>1, <2>2, <2>3 DEF CardInv, LoopsDone
<1>2. CardInv /\ [SC!Next]_SC!vars => CardInv'
  BY CardsInductive
<1>3. CardInv => SC!NoneLostNoneTwice /\ SC!HealthIsHonest
  BY OneCardEach, HealthIsTrue DEF SC!NoneLostNoneTwice, SC!HealthIsHonest
<1> QED
  BY <1>1, <1>2, <1>3, PTL DEF SC!Spec

-----------------------------------------------------------------------------
(* What the pages show, together.                                          *)

\* No entry goes back, no page is shown as safe that is not, no bar is too wide
\* and no runner is missing from the cards, for every fleet, library and queue
\* (internal/mcp).
THEOREM EveryPageIsTrue ==
  ASSUME IsFiniteSet(PageTracks), MaxLoadFaults \in Nat, BarConstants, CardConstants
  PROVE  ReportsSpec => []PagesAreTrue
<1>1. RC!Spec => [](RC!NeverBack /\ RC!CancelHurtsNobody)
  BY PagesGoForward
<1>2. (SP!Spec => []SP!SafeIsSearchable) /\ (SP!Spec => []SP!SafeIsJudged)
  BY SafeMeansSearchable, SafeMeansJudged
<1>3. PB!Spec => []PB!BarIsWhole
  BY BarsAreWhole
<1>4. SC!Spec => [](SC!NoneLostNoneTwice /\ SC!HealthIsHonest)
  BY CardsAreTrue
<1>5. ~(part = "rc") /\ [UNCHANGED part]_part => ~(part = "rc")'
  OBVIOUS
<1>6. ~(part = "sp") /\ [UNCHANGED part]_part => ~(part = "sp")'
  OBVIOUS
<1>7. ~(part = "pb") /\ [UNCHANGED part]_part => ~(part = "pb")'
  OBVIOUS
<1>8. ~(part = "sc") /\ [UNCHANGED part]_part => ~(part = "sc")'
  OBVIOUS
<1> QED
  BY <1>1, <1>2, <1>3, <1>4, <1>5, <1>6, <1>7, <1>8, PTL DEF ReportsSpec, PagesAreTrue

-----------------------------------------------------------------------------
(* The labels.                                                             *)

\* A label file says one item after another.
LabelConstants == \E S : LabelFiles \subseteq Seq(S)

\* An import is a record of six fields.
ImportRec(where, items, match, target, resolved, fresh) ==
  [at |-> where, items |-> items, match |-> match, target |-> target, resolved |-> resolved, fresh |-> fresh]
ImportShaped(w) == w = ImportRec(w.at, w.items, w.match, w.target, w.resolved, w.fresh)

\* What a step makes of it.
Parsed(items, match) == [LB!Idle EXCEPT !.at = "targets", !.items = items, !.match = match]
WithItems(w, where, x)    == [w EXCEPT !.at = where, !.items = x]
WithTarget(w, where, x)   == [w EXCEPT !.at = where, !.target = x]
WithResolved(w, where, x) == [w EXCEPT !.at = where, !.resolved = x]
WithFresh(w, where, x)    == [w EXCEPT !.at = where, !.fresh = x]

LEMMA ImportFields ==
  ASSUME NEW where, NEW items, NEW match, NEW target, NEW resolved, NEW fresh
  PROVE  LET w == ImportRec(where, items, match, target, resolved, fresh)
         IN /\ ImportShaped(w) /\ w.at = where /\ w.items = items /\ w.match = match
            /\ w.target = target /\ w.resolved = resolved /\ w.fresh = fresh
BY DEF ImportShaped, ImportRec

LEMMA ImportsAfter ==
  /\ ImportShaped(LB!Idle) /\ LB!Idle.at = "idle"
  /\ \A x, y : LET w == Parsed(x, y) IN ImportShaped(w) /\ w.at = "targets" /\ w.items = x
  /\ \A w : ImportShaped(w) =>
       /\ \A x : LET v == WithTarget(w, "findings", x) IN ImportShaped(v) /\ v.at = "findings" /\ v.items = w.items /\ v.target = x
       /\ \A x : LET v == WithResolved(w, "dedupe", x) IN ImportShaped(v) /\ v.at = "dedupe" /\ v.items = w.items /\ v.resolved = x
       /\ \A x : LET v == WithFresh(w, "insert", x) IN ImportShaped(v) /\ v.at = "insert" /\ v.items = w.items /\ v.fresh = x
<1>1. ASSUME NEW w, ImportShaped(w), NEW where, NEW x
      PROVE  /\ WithItems(w, where, x) = ImportRec(where, x, w.match, w.target, w.resolved, w.fresh)
             /\ WithTarget(w, where, x) = ImportRec(where, w.items, w.match, x, w.resolved, w.fresh)
             /\ WithResolved(w, where, x) = ImportRec(where, w.items, w.match, w.target, x, w.fresh)
             /\ WithFresh(w, where, x) = ImportRec(where, w.items, w.match, w.target, w.resolved, x)
  <2> DEFINE items == w.items match == w.match target == w.target resolved == w.resolved fresh == w.fresh was == w.at
             u == [w EXCEPT !.at = where]
  <2>1. w = [at |-> was, items |-> items, match |-> match, target |-> target, resolved |-> resolved, fresh |-> fresh]
    BY <1>1 DEF ImportShaped, ImportRec
  <2> HIDE DEF items, match, target, resolved, fresh, was
  <2>2. u = [at |-> where, items |-> items, match |-> match, target |-> target, resolved |-> resolved, fresh |-> fresh]
    BY <2>1
  <2>3. /\ WithItems(w, where, x) = [u EXCEPT !.items = x]
        /\ WithTarget(w, where, x) = [u EXCEPT !.target = x]
        /\ WithResolved(w, where, x) = [u EXCEPT !.resolved = x]
        /\ WithFresh(w, where, x) = [u EXCEPT !.fresh = x]
    BY DEF WithItems, WithTarget, WithResolved, WithFresh
  <2> HIDE DEF u
  <2>4. /\ [u EXCEPT !.items = x] = ImportRec(where, x, match, target, resolved, fresh)
        /\ [u EXCEPT !.target = x] = ImportRec(where, items, match, x, resolved, fresh)
        /\ [u EXCEPT !.resolved = x] = ImportRec(where, items, match, target, x, fresh)
        /\ [u EXCEPT !.fresh = x] = ImportRec(where, items, match, target, resolved, x)
    BY <2>2 DEF ImportRec
  <2> QED
    BY <2>3, <2>4 DEF items, match, target, resolved, fresh
<1>2. ImportShaped(LB!Idle) /\ LB!Idle.at = "idle"
  BY DEF LB!Idle, ImportShaped, ImportRec
<1>3. ASSUME NEW x, NEW y
      PROVE  LET w == Parsed(x, y) IN ImportShaped(w) /\ w.at = "targets" /\ w.items = x
  <2> DEFINE o == LB!Idle
             v == WithItems(o, "targets", x)
  <2>0. ImportShaped(o)
    BY <1>2
  <2>2. Parsed(x, y) = [v EXCEPT !.match = y]
    BY DEF Parsed, WithItems
  <2> HIDE DEF o
  <2>1. v = ImportRec("targets", x, o.match, o.target, o.resolved, o.fresh)
    BY <1>1, <2>0
  <2> HIDE DEF v
  <2>3. Parsed(x, y) = ImportRec("targets", x, y, o.target, o.resolved, o.fresh)
    BY <2>1, <2>2 DEF ImportRec
  <2> QED
    BY <2>3, ImportFields
<1>4. ASSUME NEW w, ImportShaped(w), NEW x
      PROVE  /\ LET v == WithTarget(w, "findings", x) IN ImportShaped(v) /\ v.at = "findings" /\ v.items = w.items /\ v.target = x
             /\ LET v == WithResolved(w, "dedupe", x) IN ImportShaped(v) /\ v.at = "dedupe" /\ v.items = w.items /\ v.resolved = x
             /\ LET v == WithFresh(w, "insert", x) IN ImportShaped(v) /\ v.at = "insert" /\ v.items = w.items /\ v.fresh = x
  <2>1. /\ WithTarget(w, "findings", x) = ImportRec("findings", w.items, w.match, x, w.resolved, w.fresh)
        /\ WithResolved(w, "dedupe", x) = ImportRec("dedupe", w.items, w.match, w.target, x, w.fresh)
        /\ WithFresh(w, "insert", x) = ImportRec("insert", w.items, w.match, w.target, w.resolved, x)
    BY <1>1, <1>4
  <2> QED
    BY <2>1, ImportFields
<1> QED
  BY <1>2, <1>3, <1>4

\* What a label says of the revision it is on was so then, and stays so.
Grounded(r) ==
  /\ r.by = "finding" => \E f \in findings : f.sha = r.sha /\ f.fix = r.fix
  /\ r.by = "hash" => /\ r.sha \in seen
                      /\ r.fix \in Spans[r.sha] \/ \E f \in findings : f.sha = r.sha
  /\ r.by = "chunk" => r.sha \in seen /\ r.fix \in Spans[r.sha]

RevisionsOK ==
  /\ lbCurrent \in seen \cup {NoSha}
  /\ \A f \in findings : f.sha \in seen \cup {NoSha}

InOneRun(s) == \E n \in Nat : DOMAIN s = 1 .. n

\* What an import holds: a snapshot that was so, items that are grounded, and,
\* once it is to write, one for each target, each of which changes the latest
\* row of its target.
ImportOK(w) ==
  /\ ImportShaped(w) /\ w.at \in {"idle", "targets", "findings", "dedupe", "insert"}
  /\ w.at # "idle" => w.items \in LabelFiles
  /\ w.at = "findings" => w.target.current \in seen \cup {NoSha} /\ w.target.named \subseteq findings
  /\ w.at = "dedupe" => /\ w.resolved \in Seq({w.resolved[k] : k \in DOMAIN w.resolved})
                        /\ \A k \in DOMAIN w.resolved : Grounded(w.resolved[k].r)
  /\ w.at = "insert" =>
       /\ w.fresh \in Seq({w.fresh[k] : k \in DOMAIN w.fresh})
       /\ \A k \in DOMAIN w.fresh :
            /\ Grounded(w.fresh[k].r)
            /\ ~LB!LatestIs(LB!Target(w.fresh[k].r), w.fresh[k].item.verdict)
            /\ \A j \in DOMAIN w.fresh : LB!Target(w.fresh[j].r) = LB!Target(w.fresh[k].r) => j = k

ImportsOK ==
  /\ imp = [i \in Importers |-> imp[i]]
  /\ \A i \in Importers : \A w : w = imp[i] => ImportOK(w)
  /\ \A i, j \in Importers : imp[i].at # "idle" /\ imp[j].at # "idle" => i = j

LabelsOK ==
  /\ lbLog \in Seq({lbLog[k] : k \in DOMAIN lbLog})
  /\ LB!NeverGuessed /\ LB!NoRepeat

LabelInv == RevisionsOK /\ ImportsOK /\ LabelsOK

\* A function on 1 .. m is a sequence of length m.
LEMMA RunIsSequence ==
  ASSUME NEW m \in Nat, NEW s, s = [k \in 1 .. m |-> s[k]]
  PROVE  s \in Seq({s[k] : k \in DOMAIN s}) /\ Len(s) = m /\ DOMAIN s = 1 .. m
<1>1. s \in [1 .. m -> {s[k] : k \in DOMAIN s}]
  OBVIOUS
<1> QED
  BY <1>1

\* Places taken in order are a sequence without repeats.
LEMMA PlacesInOrder ==
  ASSUME NEW n \in Nat, NEW K \in SUBSET (1 .. n), NEW ks \in LB!InOrder(K, n)
  PROVE  \E m \in Nat : /\ ks \in [1 .. m -> K] /\ DOMAIN ks = 1 .. m
                        /\ \A j, k \in 1 .. m : ks[j] = ks[k] => j = k
<1>1. PICK m \in 0 .. n : ks \in [1 .. m -> K] /\ \A j, k \in DOMAIN ks : j < k => ks[j] < ks[k]
  BY DEF LB!InOrder
<1>2. m \in Nat /\ DOMAIN ks = 1 .. m
  BY <1>1
<1>3. ASSUME NEW j \in 1 .. m, NEW k \in 1 .. m, ks[j] = ks[k] PROVE j = k
  <2>0. K \subseteq Int /\ ks[j] \in K /\ ks[k] \in K
    <3>1. 1 .. n \subseteq Int
      OBVIOUS
    <3>2. ks \in [1 .. m -> K]
      BY <1>1
    <3> QED
      BY <3>1, <3>2, <1>3
  <2>1. ks[j] \in Int /\ ks[k] \in Int
    BY <2>0
  <2>2. j \in Int /\ k \in Int /\ ~(j < k) /\ ~(k < j)
    BY <1>1, <1>2, <1>3, <2>1
  <2> QED
    BY <2>2
<1> QED
  BY <1>1, <1>2, <1>3

\* What an item is tied to is a revision the chunk had, on which its fix was
\* proposed or its span stands.
LEMMA ResolvedIsGrounded ==
  ASSUME RevisionsOK, NEW item, NEW t, t.current \in seen \cup {NoSha}, t.named \subseteq findings,
         NEW on, on \subseteq findings, NEW match, NEW r \in LB!Resolve(item, t, on, match)
  PROVE  Grounded(r)
<1>1. ASSUME NEW sha, NEW fix, NEW by, NEW fid, r = LB!Resolution(sha, fix, by, fid)
      PROVE  r.sha = sha /\ r.fix = fix /\ r.by = by
  BY <1>1 DEF LB!Resolution
<1>2. ASSUME NEW f \in findings, r \in LB!ByFinding(item, f) PROVE Grounded(r)
  <2>1. r = LB!Resolution(f.sha, f.fix, "finding", f.id)
    BY <1>2 DEF LB!ByFinding
  <2> QED
    BY <1>1, <2>1 DEF Grounded
<1>3. ASSUME item.sha # NoSha, r \in LB!ByHash(item, t.current, on) PROVE Grounded(r)
  <2>1. r = LB!Resolution(item.sha, item.fix, "hash", 0)
    BY <1>3 DEF LB!ByHash
  <2>2. r.sha = item.sha /\ r.fix = item.fix /\ r.by = "hash"
    BY <1>1, <2>1
  <2>3. CASE t.current = item.sha /\ LB!SpanOK(item, t.current)
    BY <1>3, <2>2, <2>3 DEF Grounded, LB!SpanOK
  <2>4. CASE \E f \in on : f.sha = item.sha
    BY <1>3, <2>2, <2>4 DEF Grounded, RevisionsOK
  <2> QED
    BY <1>3, <2>3, <2>4 DEF LB!ByHash
<1>4. ASSUME r \in LB!BySameFix(item, t.current, on) PROVE Grounded(r)
  <2>1. \E fid : r = LB!Resolution(t.current, item.fix, "finding", fid)
    BY <1>4 DEF LB!BySameFix
  <2>2. r.sha = t.current /\ r.fix = item.fix /\ r.by = "finding"
    BY <1>1, <2>1
  <2>3. LB!AtCurrent(LB!SameFix(item, on), t.current) # {}
    BY <1>4 DEF LB!BySameFix
  <2>4. \E f \in findings : f.sha = t.current /\ f.fix = item.fix
    BY <2>3 DEF LB!AtCurrent, LB!SameFix
  <2> QED
    BY <2>2, <2>4 DEF Grounded
<1>5. ASSUME r \in LB!ByChunk(item, t.current, match) PROVE Grounded(r)
  <2>1. r = LB!Resolution(t.current, item.fix, "chunk", 0) /\ t.current # NoSha /\ LB!SpanOK(item, t.current)
    BY <1>5 DEF LB!ByChunk
  <2>2. r.sha = t.current /\ r.fix = item.fix /\ r.by = "chunk"
    BY <1>1, <2>1
  <2> QED
    BY <2>1, <2>2 DEF Grounded, LB!SpanOK
<1>6. \/ \E f \in t.named : r \in LB!ByFinding(item, f)
      \/ item.sha # NoSha /\ r \in LB!ByHash(item, t.current, on)
      \/ r \in LB!BySameFix(item, t.current, on)
      \/ r \in LB!ByChunk(item, t.current, match)
  BY DEF LB!Resolve
<1> QED
  BY <1>2, <1>3, <1>4, <1>5, <1>6

\* What is grounded stays so; what is latest does while nothing is written.
LEMMA GroundStays ==
  ASSUME seen \subseteq seen', findings \subseteq findings'
  PROVE  \A r : Grounded(r) => Grounded(r)'
BY DEF Grounded

LEMMA LatestStays ==
  ASSUME lbLog' = lbLog
  PROVE  /\ \A x, v : LB!LatestIs(x, v)' <=> LB!LatestIs(x, v)
         /\ \A r : LB!Target(r)' = LB!Target(r)
BY DEF LB!LatestIs, LB!RowsOf, LB!Target

LEMMA ImportStays ==
  ASSUME seen \subseteq seen', findings \subseteq findings', lbLog' = lbLog, NEW w, ImportOK(w)
  PROVE  ImportOK(w)'
BY GroundStays, LatestStays DEF ImportOK, ImportShaped

LEMMA LabelsStay ==
  ASSUME seen \subseteq seen', findings \subseteq findings', lbLog' = lbLog, LabelsOK
  PROVE  LabelsOK'
<1>1. \A k \in DOMAIN lbLog : Grounded(lbLog[k])
  BY DEF LabelsOK, LB!NeverGuessed, Grounded
<1>2. \A k \in DOMAIN lbLog' : Grounded(lbLog[k])'
  BY <1>1, GroundStays
<1>3. LB!NeverGuessed'
  BY <1>2 DEF LB!NeverGuessed, Grounded
<1> QED
  BY <1>3 DEF LabelsOK, LB!NoRepeat

\* A step of one import that leaves the labels as they are.
LEMMA ImportMoves ==
  ASSUME ImportsOK, LabelsOK, RevisionsOK, UNCHANGED <<lbCurrent, seen, findings, lbLog>>,
         NEW i \in Importers, NEW v, ImportOK(v), imp' = [imp EXCEPT ![i] = v],
         (\A j \in Importers : imp[j].at = "idle") \/ imp[i].at # "idle" \/ v.at = "idle"
  PROVE  LabelInv'
<1>1. imp' = [j \in Importers |-> imp'[j]] /\ imp'[i] = v
      /\ \A j \in Importers : j # i => imp'[j] = imp[j]
  BY DEF ImportsOK
<1>2. ASSUME NEW j \in Importers, NEW w, w = imp'[j] PROVE ImportOK(w)'
  <2>1. ImportOK(w)
    BY <1>1, <1>2 DEF ImportsOK
  <2> QED
    BY <2>1, ImportStays
<1>3. \A j, k \in Importers : imp'[j].at # "idle" /\ imp'[k].at # "idle" => j = k
  BY <1>1 DEF ImportsOK
<1>4. ImportsOK'
  BY <1>1, <1>2, <1>3 DEF ImportsOK
<1> QED
  BY <1>4, LabelsStay DEF LabelInv, RevisionsOK

LEMMA ImportBegins ==
  ASSUME LabelInv, NEW i \in Importers, LB!Begin(i)
  PROVE  LabelInv'
<1>1. PICK items \in LabelFiles, match \in BOOLEAN : imp' = [imp EXCEPT ![i] = Parsed(items, match)]
  BY DEF LB!Begin, Parsed
<1>2. ImportOK(Parsed(items, match))
  BY ImportsAfter DEF ImportOK
<1>3. \A j \in Importers : imp[j].at = "idle"
  BY DEF LB!Begin, LB!LockFree
<1>4. UNCHANGED <<lbCurrent, seen, findings, lbLog>>
  BY DEF LB!Begin, LB!world
<1> QED
  BY <1>1, <1>2, <1>3, <1>4, ImportMoves DEF LabelInv

LEMMA ImportEnds ==
  ASSUME LabelInv, NEW i \in Importers, LB!Rollback(i)
  PROVE  LabelInv'
<1>1. ImportOK(LB!Idle) /\ LB!Idle.at = "idle"
  BY ImportsAfter DEF ImportOK
<1>2. imp' = [imp EXCEPT ![i] = LB!Idle] /\ UNCHANGED <<lbCurrent, seen, findings, lbLog>>
  BY DEF LB!Rollback, LB!world
<1> QED
  BY <1>1, <1>2, ImportMoves DEF LabelInv

LEMMA TargetsRead ==
  ASSUME LabelInv, NEW i \in Importers, LB!ReadTargets(i)
  PROVE  LabelInv'
<1> DEFINE w == imp[i]
           x == [current |-> lbCurrent, named |-> findings]
           v == WithTarget(w, "findings", x)
<1>1. ImportOK(w) /\ w.at = "targets"
  BY DEF LabelInv, ImportsOK, LB!ReadTargets
<1>2. imp' = [imp EXCEPT ![i] = v] /\ UNCHANGED <<lbCurrent, seen, findings, lbLog>>
  BY DEF LB!ReadTargets, LB!world, LabelInv, ImportsOK, WithTarget
<1>3. x.current = lbCurrent /\ x.named = findings
  OBVIOUS
<1> HIDE DEF x
<1>4. ImportShaped(v) /\ v.at = "findings" /\ v.items = w.items /\ v.target = x
  BY <1>1, ImportsAfter DEF ImportOK
<1> HIDE DEF v
<1>5. ImportOK(v)
  BY <1>1, <1>3, <1>4 DEF ImportOK, LabelInv, RevisionsOK
<1> QED
  BY <1>1, <1>2, <1>5, ImportMoves DEF LabelInv

\* One item of those that are tied.
Tied(r, item) == [r |-> r, item |-> item]

LEMMA FindingsRead ==
  ASSUME LabelConstants, LabelInv, NEW i \in Importers, LB!ReadFindings(i)
  PROVE  LabelInv'
<1> DEFINE w == imp[i]
           items == w.items
           on == {f \in findings : f.sha # NoSha}
           rs == [k \in DOMAIN items |-> LB!Resolve(items[k], w.target, on, w.match)]
           K == {k \in DOMAIN rs : rs[k] # {}}
<1>1. ImportOK(w) /\ w.at = "findings"
  BY DEF LabelInv, ImportsOK, LB!ReadFindings
<1>2. Len(items) \in Nat /\ DOMAIN items = 1 .. Len(items)
  BY <1>1 DEF ImportOK, LabelConstants
<1>3. PICK ks \in LB!InOrder(K, Len(items)) :
        imp' = [imp EXCEPT ![i].at = "dedupe",
                  ![i].resolved = [n \in DOMAIN ks |-> [r |-> CHOOSE r \in rs[ks[n]] : TRUE, item |-> items[ks[n]]]]]
  BY DEF LB!ReadFindings
<1>4. PICK m \in Nat : ks \in [1 .. m -> K] /\ DOMAIN ks = 1 .. m
  <2>1. K \in SUBSET (1 .. Len(items))
    BY <1>2
  <2> HIDE DEF K
  <2> QED
    BY <1>2, <1>3, <2>1, PlacesInOrder
<1> DEFINE x == [n \in DOMAIN ks |-> Tied(CHOOSE r \in rs[ks[n]] : TRUE, items[ks[n]])]
           v == WithResolved(w, "dedupe", x)
<1>5. imp' = [imp EXCEPT ![i] = v]
  BY <1>3 DEF LabelInv, ImportsOK, WithResolved, Tied
<1>6. ASSUME NEW n \in DOMAIN x PROVE Grounded(x[n].r)
  <2> DEFINE k == ks[n] r == CHOOSE r \in rs[k] : TRUE
  <2>1. k \in DOMAIN items /\ rs[k] # {}
    BY <1>4, <1>6
  <2>2. r \in LB!Resolve(items[k], w.target, on, w.match)
    BY <2>1
  <2>3. Grounded(r)
    BY <1>1, <2>2, ResolvedIsGrounded DEF ImportOK, LabelInv
  <2>4. x[n].r = r
    BY <1>6 DEF Tied
  <2> QED
    BY <2>3, <2>4
<1>7. x \in Seq({x[k] : k \in DOMAIN x})
  <2>1. x = [k \in 1 .. m |-> x[k]]
    BY <1>4
  <2> HIDE DEF x
  <2> QED
    BY <2>1, RunIsSequence
<1> HIDE DEF x
<1>8. ImportShaped(v) /\ v.at = "dedupe" /\ v.items = items /\ v.resolved = x
  BY <1>1, ImportsAfter DEF ImportOK
<1> HIDE DEF v
<1>9. ImportOK(v)
  BY <1>1, <1>6, <1>7, <1>8 DEF ImportOK
<1>10. UNCHANGED <<lbCurrent, seen, findings, lbLog>>
  BY DEF LB!ReadFindings, LB!world
<1> QED
  BY <1>1, <1>5, <1>9, <1>10, ImportMoves DEF LabelInv

LEMMA RepeatsDropped ==
  ASSUME LabelInv, NEW i \in Importers, LB!Dedupe(i)
  PROVE  LabelInv'
<1> DEFINE w == imp[i]
           rs == w.resolved
           T(k) == LB!Target(rs[k].r)
           Leads(k) == \A j \in 1 .. k-1 : T(j) # T(k)
           K == {k \in DOMAIN rs : Leads(k) /\ ~LB!Conflicting(rs, T(k)) /\ ~LB!LatestIs(T(k), rs[k].item.verdict)}
<1>1. ImportOK(w) /\ w.at = "dedupe"
  BY DEF LabelInv, ImportsOK, LB!Dedupe
<1>2. /\ Len(rs) \in Nat /\ DOMAIN rs = 1 .. Len(rs)
      /\ \A k \in DOMAIN rs : Grounded(rs[k].r)
  BY <1>1 DEF ImportOK
<1>3. PICK ks \in LB!InOrder(K, Len(rs)) :
        imp' = [imp EXCEPT ![i].at = "insert", ![i].fresh = [n \in DOMAIN ks |-> rs[ks[n]]]]
  BY DEF LB!Dedupe
<1>4. PICK m \in Nat : ks \in [1 .. m -> K] /\ DOMAIN ks = 1 .. m /\ \A j, k \in 1 .. m : ks[j] = ks[k] => j = k
  BY <1>2, <1>3, PlacesInOrder
<1> DEFINE x == [n \in DOMAIN ks |-> rs[ks[n]]]
           v == WithFresh(w, "insert", x)
<1>5. imp' = [imp EXCEPT ![i] = v]
  BY <1>3 DEF LabelInv, ImportsOK, WithFresh
<1>6. \A j, k \in K : T(j) = T(k) => j = k
  <2>0. \A k \in K : k \in 1 .. Len(rs) /\ k \in Int /\ 1 <= k /\ Leads(k)
    BY <1>2
  <2> HIDE DEF K
  <2>1. ASSUME NEW j \in K, NEW k \in K, T(j) = T(k), j < k PROVE FALSE
    <3>1. j \in 1 .. k-1 /\ Leads(k)
      BY <2>0, <2>1
    <3> QED
      BY <2>1, <3>1
  <2>2. ASSUME NEW j \in K, NEW k \in K, T(j) = T(k) PROVE j = k
    <3>1. j \in Int /\ k \in Int
      BY <2>0
    <3>2. ~(j < k) /\ ~(k < j)
      BY <2>1, <2>2
    <3> QED
      BY <3>1, <3>2
  <2> QED
    BY <2>2
<1>7. ASSUME NEW n \in DOMAIN x
      PROVE  /\ Grounded(x[n].r) /\ ~LB!LatestIs(LB!Target(x[n].r), x[n].item.verdict)
             /\ \A j \in DOMAIN x : LB!Target(x[j].r) = LB!Target(x[n].r) => j = n
  <2>1. \A j \in DOMAIN x : j \in 1 .. m /\ ks[j] \in K /\ x[j] = rs[ks[j]]
    BY <1>4
  <2> HIDE DEF x
  <2>2. Grounded(x[n].r) /\ ~LB!LatestIs(LB!Target(x[n].r), x[n].item.verdict)
    BY <1>2, <1>7, <2>1
  <2>3. ASSUME NEW j \in DOMAIN x, LB!Target(x[j].r) = LB!Target(x[n].r) PROVE j = n
    <3>1. T(ks[j]) = T(ks[n])
      BY <1>7, <2>1, <2>3
    <3>2. ks[j] = ks[n]
      BY <1>6, <1>7, <2>1, <3>1
    <3> QED
      BY <1>4, <1>7, <2>1, <3>2
  <2> QED
    BY <2>2, <2>3
<1>8. x \in Seq({x[k] : k \in DOMAIN x})
  <2>1. x = [k \in 1 .. m |-> x[k]]
    BY <1>4
  <2> HIDE DEF x
  <2> QED
    BY <2>1, RunIsSequence
<1> HIDE DEF x
<1>9. ImportShaped(v) /\ v.at = "insert" /\ v.items = w.items /\ v.fresh = x
  BY <1>1, ImportsAfter DEF ImportOK
<1> HIDE DEF v
<1>10. ImportOK(v)
  BY <1>1, <1>7, <1>8, <1>9 DEF ImportOK
<1>11. UNCHANGED <<lbCurrent, seen, findings, lbLog>>
  BY DEF LB!Dedupe, LB!world
<1> QED
  BY <1>1, <1>5, <1>10, <1>11, ImportMoves DEF LabelInv

\* What is written after what is there.
LEMMA WrittenAfter ==
  ASSUME NEW S, NEW T, NEW s \in Seq(S), NEW t \in Seq(T)
  PROVE  /\ Len(s) \in Nat /\ Len(t) \in Nat /\ DOMAIN s = 1 .. Len(s) /\ DOMAIN t = 1 .. Len(t)
         /\ s \o t = [k \in 1 .. Len(s) + Len(t) |-> (s \o t)[k]]
         /\ \A k \in 1 .. Len(s) + Len(t) : (s \o t)[k] = IF k <= Len(s) THEN s[k] ELSE t[k - Len(s)]
<1>1. s \in Seq(S \cup T) /\ t \in Seq(S \cup T)
  OBVIOUS
<1>2. s \o t \in Seq(S \cup T) /\ Len(s \o t) = Len(s) + Len(t)
  BY <1>1
<1>3. \A k \in 1 .. Len(s) + Len(t) : (s \o t)[k] = IF k <= Len(s) THEN s[k] ELSE t[k - Len(s)]
  BY <1>1
<1>4. Len(s) \in Nat /\ Len(t) \in Nat /\ DOMAIN s = 1 .. Len(s) /\ DOMAIN t = 1 .. Len(t)
  OBVIOUS
<1> DEFINE u == s \o t
<1>5. u = [k \in 1 .. Len(u) |-> u[k]]
  <2>1. u \in Seq(S \cup T)
    BY <1>2
  <2> HIDE DEF u
  <2> QED
    BY <2>1
<1>6. u = [k \in 1 .. Len(s) + Len(t) |-> u[k]]
  BY <1>2, <1>5
<1> QED
  BY <1>3, <1>4, <1>6

\* A row is about what its item was tied to, and says what its item says.
LEMMA RowSays ==
  ASSUME NEW x, NEW n
  PROVE  LET r == LB!Row(x, n)
         IN r.target = LB!Target(x.r) /\ r.sha = x.r.sha /\ r.fix = x.r.fix /\ r.by = x.r.by /\ r.verdict = x.item.verdict
BY DEF LB!Row

LEMMA ImportCommits ==
  ASSUME LabelInv, NEW i \in Importers, LB!Commit(i)
  PROVE  LabelInv'
<1> DEFINE w == imp[i]
           fresh == w.fresh
           L == Len(lbLog)
           N == Len(fresh)
           new == [n \in DOMAIN fresh |-> LB!Row(fresh[n], L + n)]
<1>1. ImportOK(w) /\ w.at = "insert"
  BY DEF LabelInv, ImportsOK, LB!Commit
<1>2. N \in Nat /\ DOMAIN fresh = 1 .. N
  BY <1>1 DEF ImportOK
<1>3. new \in Seq({new[n] : n \in DOMAIN new}) /\ Len(new) = N /\ \A n \in 1 .. N : new[n] = LB!Row(fresh[n], L + n)
  <2>1. new = [n \in 1 .. N |-> new[n]] /\ \A n \in 1 .. N : new[n] = LB!Row(fresh[n], L + n)
    BY <1>2
  <2> HIDE DEF new
  <2> QED
    BY <1>2, <2>1, RunIsSequence
<1>4. lbLog' = lbLog \o new
  BY DEF LB!Commit
<1>5. lbLog \in Seq({lbLog[k] : k \in DOMAIN lbLog})
  BY DEF LabelInv, LabelsOK
<1> HIDE DEF new
<1>6. /\ L \in Nat /\ DOMAIN lbLog = 1 .. L
      /\ lbLog' = [k \in 1 .. L + N |-> lbLog'[k]]
      /\ \A k \in 1 .. L + N : lbLog'[k] = IF k <= L THEN lbLog[k] ELSE new[k - L]
  <2> DEFINE u == lbLog \o new
  <2>1. /\ L \in Nat /\ DOMAIN lbLog = 1 .. L
        /\ u = [k \in 1 .. L + Len(new) |-> u[k]]
        /\ \A k \in 1 .. L + Len(new) : u[k] = IF k <= L THEN lbLog[k] ELSE new[k - L]
    <3> DEFINE S == {lbLog[k] : k \in DOMAIN lbLog}
               T == {new[n] : n \in DOMAIN new}
    <3>1. lbLog \in Seq(S) /\ new \in Seq(T)
      BY <1>3, <1>5
    <3> HIDE DEF S, T
    <3> QED
      BY <3>1, WrittenAfter
  <2>2. lbLog' = u /\ Len(new) = N
    BY <1>3, <1>4
  <2> HIDE DEF u
  <2> QED
    BY <2>1, <2>2
<1>7. lbLog' \in Seq({lbLog'[k] : k \in DOMAIN lbLog'}) /\ DOMAIN lbLog' = 1 .. L + N
  <2>1. L + N \in Nat
    BY <1>2, <1>6
  <2> QED
    BY <1>6, <2>1, RunIsSequence
<1>8. ASSUME NEW k \in 1 .. L + N
      PROVE  \/ k \in 1 .. L /\ lbLog'[k] = lbLog[k]
             \/ k - L \in 1 .. N /\ k > L /\ lbLog'[k] = LB!Row(fresh[k - L], L + (k - L))
  <2>1. k \in Int /\ 1 <= k /\ k <= L + N
    BY <1>2, <1>6
  <2>2. CASE k <= L
    BY <1>6, <2>1, <2>2
  <2>3. CASE k > L
    <3>1. k - L \in 1 .. N
      BY <1>2, <1>6, <2>1, <2>3
    <3> QED
      BY <1>3, <1>6, <2>1, <2>3, <3>1
  <2> QED
    BY <1>6, <2>1, <2>2, <2>3
<1>9. UNCHANGED <<lbCurrent, seen, findings>>
  BY DEF LB!Commit, LB!world
<1>10. ASSUME NEW n \in 1 .. N
       PROVE  /\ Grounded(fresh[n].r) /\ ~LB!LatestIs(LB!Target(fresh[n].r), fresh[n].item.verdict)
              /\ \A j \in 1 .. N : LB!Target(fresh[j].r) = LB!Target(fresh[n].r) => j = n
  BY <1>1, <1>2 DEF ImportOK
<1>11. LB!NeverGuessed'
  <2>1. ASSUME NEW k \in 1 .. L + N, NEW r, r = lbLog'[k] PROVE Grounded(r)
    <3>1. CASE k \in 1 .. L /\ lbLog'[k] = lbLog[k]
      BY <1>6, <2>1, <3>1 DEF LabelInv, LabelsOK, LB!NeverGuessed, Grounded
    <3>2. CASE k - L \in 1 .. N /\ lbLog'[k] = LB!Row(fresh[k - L], L + (k - L))
      <4>1. Grounded(fresh[k - L].r)
        BY <1>10, <3>2
      <4>2. r.sha = fresh[k - L].r.sha /\ r.fix = fresh[k - L].r.fix /\ r.by = fresh[k - L].r.by
        BY <2>1, <3>2, RowSays
      <4> QED
        BY <4>1, <4>2 DEF Grounded
    <3> QED
      BY <1>8, <3>1, <3>2
  <2>2. ASSUME NEW r, Grounded(r) PROVE Grounded(r)'
    BY <1>9, <2>2, GroundStays
  <2> QED
    BY <1>7, <2>1, <2>2 DEF LB!NeverGuessed, Grounded
<1>12. ASSUME NEW k \in 1 .. L + N, NEW j \in 1 .. (k-1), lbLog'[j].target = lbLog'[k].target,
              \A q \in (j+1) .. (k-1) : lbLog'[q].target # lbLog'[k].target
       PROVE  lbLog'[j].verdict # lbLog'[k].verdict
  <2>1. k \in Int /\ j \in Int /\ 1 <= j /\ j < k /\ k <= L + N /\ j \in 1 .. L + N
    BY <1>2, <1>6, <1>12
  <2>2. CASE k \in 1 .. L
    <3>1. lbLog'[k] = lbLog[k] /\ lbLog'[j] = lbLog[j] /\ \A q \in (j+1) .. (k-1) : lbLog'[q] = lbLog[q]
      BY <1>2, <1>6, <2>1, <2>2
    <3>2. /\ k \in DOMAIN lbLog /\ lbLog[j].target = lbLog[k].target
          /\ \A q \in (j+1) .. (k-1) : lbLog[q].target # lbLog[k].target
      BY <1>6, <1>12, <2>2, <3>1
    <3>3. lbLog[j].verdict # lbLog[k].verdict
      BY <1>12, <3>2 DEF LabelInv, LabelsOK, LB!NoRepeat
    <3> QED
      BY <3>1, <3>3
  <2>3. CASE k - L \in 1 .. N /\ k > L
    <3> DEFINE f == fresh[k - L]
    <3>1. lbLog'[k].target = LB!Target(f.r) /\ lbLog'[k].verdict = f.item.verdict
      <4>1. ~(k \in 1 .. L) /\ k \in 1 .. L + N
        BY <1>6, <2>1, <2>3
      <4>2. lbLog'[k] = LB!Row(f, L + (k - L))
        BY <1>8, <4>1
      <4> QED
        BY <4>2, RowSays
    <3>2. CASE j > L
      <4>1. j - L \in 1 .. N /\ lbLog'[j] = LB!Row(fresh[j - L], L + (j - L))
        BY <1>6, <1>8, <2>1, <3>2
      <4>2. lbLog'[j].target = LB!Target(fresh[j - L].r)
        BY <4>1, RowSays
      <4>3. j - L = k - L
        BY <1>10, <1>12, <2>3, <3>1, <4>1, <4>2
      <4> QED
        BY <1>6, <2>1, <4>3
    <3>3. CASE j <= L
      <4>1. j \in DOMAIN lbLog /\ lbLog'[j] = lbLog[j]
        BY <1>6, <2>1, <3>3
      <4>2. ASSUME NEW q \in LB!RowsOf(LB!Target(f.r)) PROVE q <= j
        <5>1. q \in 1 .. L /\ lbLog[q].target = LB!Target(f.r) /\ q \in Int
          BY <1>6, <4>2 DEF LB!RowsOf
        <5>2. lbLog'[q] = lbLog[q]
          BY <1>2, <1>6, <5>1
        <5>3. ~(q \in (j+1) .. (k-1))
          BY <1>12, <3>1, <5>1, <5>2
        <5> QED
          BY <1>6, <2>1, <2>3, <5>1, <5>3
      <4>3. j \in LB!RowsOf(LB!Target(f.r))
        BY <1>12, <3>1, <4>1 DEF LB!RowsOf
      <4>4. ~LB!LatestIs(LB!Target(f.r), f.item.verdict)
        BY <1>10, <2>3
      <4>5. lbLog[j].verdict # f.item.verdict
        BY <4>2, <4>3, <4>4 DEF LB!LatestIs
      <4> QED
        BY <3>1, <4>1, <4>5
    <3> QED
      BY <1>6, <2>1, <3>2, <3>3
  <2> QED
    BY <1>8, <2>2, <2>3
<1>13. LB!NoRepeat'
  BY <1>7, <1>12 DEF LB!NoRepeat
<1>14. /\ imp' = [q \in Importers |-> imp'[q]] /\ \A q \in Importers : imp'[q].at = "idle"
       /\ \A q \in Importers : imp'[q] = imp[q] \/ imp'[q] = LB!Idle
  BY <1>1, ImportsAfter DEF LB!Commit, LabelInv, ImportsOK
<1>15. ASSUME NEW q \in Importers, NEW v, v = imp'[q] PROVE ImportOK(v)'
  <2>0. ImportOK(imp[q])
    BY <1>15 DEF LabelInv, ImportsOK
  <2>1. ImportShaped(v) /\ v.at = "idle"
    BY <1>14, <1>15, <2>0, ImportsAfter DEF ImportOK
  <2> QED
    BY <2>1 DEF ImportOK, ImportShaped
<1>16. ImportsOK'
  BY <1>14, <1>15 DEF ImportsOK
<1> QED
  BY <1>7, <1>9, <1>11, <1>13, <1>16 DEF LabelInv, LabelsOK, RevisionsOK

\* The chunk is judged or rebuilt.
LEMMA ChunkMoves ==
  ASSUME LabelInv, LB!Rechunk \/ \E fix \in Fixes, hashed \in BOOLEAN : LB!Judged(fix, hashed)
  PROVE  LabelInv'
<1>1. lbLog' = lbLog /\ imp' = imp
  BY DEF LB!Rechunk, LB!Judged
<1>2. seen \subseteq seen' /\ findings \subseteq findings'
  BY DEF LB!Rechunk, LB!Judged
<1>3. RevisionsOK'
  <2>1. CASE LB!Rechunk
    BY <2>1 DEF LB!Rechunk, LabelInv, RevisionsOK
  <2>2. ASSUME NEW fix \in Fixes, NEW hashed \in BOOLEAN, LB!Judged(fix, hashed) PROVE RevisionsOK'
    <3> DEFINE n == [id |-> LB!Cardinality(findings) + 1, sha |-> IF hashed THEN lbCurrent ELSE NoSha, fix |-> fix]
    <3>1. n.sha \in {lbCurrent, NoSha}
      OBVIOUS
    <3>2. findings' = findings \cup {n} /\ UNCHANGED <<lbCurrent, seen>>
      BY <2>2 DEF LB!Judged
    <3> HIDE DEF n
    <3> QED
      BY <3>1, <3>2 DEF LabelInv, RevisionsOK
  <2> QED
    BY <2>1, <2>2
<1>4. ASSUME NEW i \in Importers, NEW w, w = imp'[i] PROVE ImportOK(w)'
  <2>1. ImportOK(w)
    BY <1>1, <1>4 DEF LabelInv, ImportsOK
  <2> QED
    BY <1>1, <1>2, <2>1, ImportStays
<1>5. ImportsOK'
  BY <1>1, <1>4 DEF LabelInv, ImportsOK
<1> QED
  BY <1>1, <1>2, <1>3, <1>5, LabelsStay DEF LabelInv

LEMMA LabelsKept ==
  ASSUME LabelConstants, LabelInv, [LB!Next]_LB!vars
  PROVE  LabelInv'
<1>1. CASE UNCHANGED LB!vars
  <2>1. UNCHANGED <<lbCurrent, seen, findings, lbLog, imp>>
    BY <1>1 DEF LB!vars
  <2>2. ASSUME NEW i \in Importers, NEW w, w = imp'[i] PROVE ImportOK(w)'
    <3>1. ImportOK(w)
      BY <2>1, <2>2 DEF LabelInv, ImportsOK
    <3> QED
      BY <2>1, <3>1, ImportStays
  <2>3. ImportsOK'
    BY <2>1, <2>2 DEF LabelInv, ImportsOK
  <2> QED
    BY <2>1, <2>3, LabelsStay DEF LabelInv, RevisionsOK
<1>2. CASE LB!Next
  BY <1>2, ImportBegins, TargetsRead, FindingsRead, RepeatsDropped, ImportCommits, ImportEnds, ChunkMoves DEF LB!Next
<1> QED
  BY <1>1, <1>2

LEMMA LabelsBegin == ASSUME LB!Init PROVE LabelInv
<1>1. RevisionsOK /\ lbLog = <<>> /\ imp = [i \in Importers |-> LB!Idle]
  BY DEF LB!Init, RevisionsOK
<1>2. LabelsOK
  BY <1>1 DEF LabelsOK, LB!NeverGuessed, LB!NoRepeat
<1>3. ASSUME NEW i \in Importers, NEW w, w = imp[i] PROVE ImportOK(w) /\ w.at = "idle"
  <2>1. w = LB!Idle
    BY <1>1, <1>3
  <2> QED
    BY <2>1, ImportsAfter DEF ImportOK
<1>4. ImportsOK
  BY <1>1, <1>3 DEF ImportsOK
<1> QED
  BY <1>1, <1>2, <1>4 DEF LabelInv

\* However many imports, findings and rebuilds there are, and in whatever order,
\* a stored label is about a revision the chunk had and on which its fix was
\* proposed or stands, and each row changes the verdict its target had
\* (internal/db/labels.go).
THEOREM LabelsStayTrue ==
  ASSUME LabelConstants
  PROVE  ReportsSpec => []LabelsAreSound
<1>1. LB!Init => LabelInv
  BY LabelsBegin
<1>2. LabelInv /\ [LB!Next]_LB!vars => LabelInv'
  BY LabelsKept
<1>3. LabelInv => LB!LabelsAreSound
  BY DEF LabelInv, LabelsOK, LB!LabelsAreSound
<1>4. LB!Spec => []LB!LabelsAreSound
  BY <1>1, <1>2, <1>3, PTL DEF LB!Spec
<1>5. ~(part = "lb") /\ [UNCHANGED part]_part => ~(part = "lb")'
  OBVIOUS
<1> QED
  BY <1>4, <1>5, PTL DEF ReportsSpec, LabelsAreSound

-----------------------------------------------------------------------------
(* The votes of the second ASR models.                                     *)

\* Findings are numbered from 1 and read by the page; the pilots of a scene are
\* numbered below its clock.
PilotConstants ==
  /\ HeldFindings \subseteq Nat \ {0} /\ VotePage \in Nat \ {0} /\ "rung" \notin VoteRuns
  /\ \A scene \in PilotScenes :
       /\ DOMAIN scene.pilots \subseteq 1 .. 100
       /\ \A i \in DOMAIN scene.pilots : scene.pilots[i][3] \in {"full", "findings"}

\* The records of the module by their fields.
FindingRec(stands, sha, log) == [state |-> stands, sha |-> sha, log |-> log]
VotesRec(pc, m, yes, limit, todo, after, size, page, n) ==
  [pc |-> pc, model |-> m, yes |-> yes, limit |-> limit, todo |-> todo, after |-> after,
   size |-> size, page |-> page, n |-> n]
RungRec(pc, yes, limit, after, page, read, n, wrote) ==
  [pc |-> pc, yes |-> yes, limit |-> limit, after |-> after, page |-> page, read |-> read, n |-> n, wrote |-> wrote]
VotesShaped(v) == v = VotesRec(v.pc, v.model, v.yes, v.limit, v.todo, v.after, v.size, v.page, v.n)
RungShaped(g)  == g = RungRec(g.pc, g.yes, g.limit, g.after, g.page, g.read, g.n, g.wrote)

\* What a step makes of a vote run.
VotesBegin(m, yes, limit, todo) ==
  [PV!NoRun EXCEPT !.pc = "track", !.model = m, !.yes = yes, !.limit = limit, !.todo = todo]
VotesFail          == [PV!NoRun EXCEPT !.pc = "failed"]
VotesEnd(v)        == [v EXCEPT !.pc = "done"]
VotesSkip(v, todo) == [v EXCEPT !.todo = todo]
VotesOpen(v)       == [v EXCEPT !.pc = "page", !.after = 0]
VotesLeave(v, todo)         == [v EXCEPT !.pc = "track", !.todo = todo]
VotesRead(v, size, n, page) == [v EXCEPT !.pc = "write", !.size = size, !.n = n, !.page = page]
VotesClose(v, todo)         == [v EXCEPT !.pc = "track", !.todo = todo, !.page = {}]
VotesTurn(v, after)         == [v EXCEPT !.pc = "page", !.after = after, !.page = {}]

LEMMA VotesFields ==
  ASSUME NEW pc, NEW m, NEW yes, NEW limit, NEW todo, NEW after, NEW size, NEW page, NEW n,
         NEW v, v = VotesRec(pc, m, yes, limit, todo, after, size, page, n)
  PROVE  /\ VotesShaped(v) /\ v.pc = pc /\ v.model = m /\ v.yes = yes /\ v.limit = limit /\ v.todo = todo
         /\ v.after = after /\ v.size = size /\ v.page = page /\ v.n = n
BY DEF VotesShaped, VotesRec

LEMMA VotesAfter ==
  ASSUME NEW v, VotesShaped(v), NEW x, NEW y, NEW z
  PROVE  /\ VotesEnd(v) = VotesRec("done", v.model, v.yes, v.limit, v.todo, v.after, v.size, v.page, v.n)
         /\ VotesSkip(v, x) = VotesRec(v.pc, v.model, v.yes, v.limit, x, v.after, v.size, v.page, v.n)
         /\ VotesOpen(v) = VotesRec("page", v.model, v.yes, v.limit, v.todo, 0, v.size, v.page, v.n)
         /\ VotesLeave(v, x) = VotesRec("track", v.model, v.yes, v.limit, x, v.after, v.size, v.page, v.n)
         /\ VotesRead(v, x, y, z) = VotesRec("write", v.model, v.yes, v.limit, v.todo, v.after, x, z, y)
         /\ VotesClose(v, x) = VotesRec("track", v.model, v.yes, v.limit, x, v.after, v.size, {}, v.n)
         /\ VotesTurn(v, x) = VotesRec("page", v.model, v.yes, v.limit, v.todo, x, v.size, {}, v.n)
<1> DEFINE was == v.pc m == v.model yes == v.yes limit == v.limit todo == v.todo after == v.after
           size == v.size page == v.page n == v.n
<1>1. v = [pc |-> was, model |-> m, yes |-> yes, limit |-> limit, todo |-> todo, after |-> after,
           size |-> size, page |-> page, n |-> n]
  BY DEF VotesShaped, VotesRec
<1> HIDE DEF was, m, yes, limit, todo, after, size, page, n
<1>2. /\ VotesEnd(v) = VotesRec("done", m, yes, limit, todo, after, size, page, n)
      /\ VotesSkip(v, x) = VotesRec(was, m, yes, limit, x, after, size, page, n)
  BY <1>1 DEF VotesEnd, VotesSkip, VotesRec
<1> DEFINE t1 == [v EXCEPT !.pc = "track"]
           t2 == [t1 EXCEPT !.todo = x]
           p1 == [v EXCEPT !.pc = "page"]
           p2 == [p1 EXCEPT !.after = x]
           w1 == [v EXCEPT !.pc = "write"]
           w2 == [w1 EXCEPT !.size = x]
           w3 == [w2 EXCEPT !.n = y]
<1>3. /\ VotesLeave(v, x) = t2 /\ VotesClose(v, x) = [t2 EXCEPT !.page = {}]
      /\ VotesOpen(v) = [p1 EXCEPT !.after = 0] /\ VotesTurn(v, x) = [p2 EXCEPT !.page = {}]
      /\ VotesRead(v, x, y, z) = [w3 EXCEPT !.page = z]
  BY DEF VotesOpen, VotesLeave, VotesClose, VotesTurn, VotesRead
<1>4. /\ t1 = VotesRec("track", m, yes, limit, todo, after, size, page, n)
      /\ p1 = VotesRec("page", m, yes, limit, todo, after, size, page, n)
      /\ w1 = VotesRec("write", m, yes, limit, todo, after, size, page, n)
  BY <1>1 DEF VotesRec
<1> HIDE DEF t1, p1, w1
<1>5. /\ t2 = VotesRec("track", m, yes, limit, x, after, size, page, n)
      /\ p2 = VotesRec("page", m, yes, limit, todo, x, size, page, n)
      /\ w2 = VotesRec("write", m, yes, limit, todo, after, x, page, n)
      /\ [p1 EXCEPT !.after = 0] = VotesRec("page", m, yes, limit, todo, 0, size, page, n)
  BY <1>4 DEF VotesRec
<1> HIDE DEF t2, p2, w2
<1>6. /\ w3 = VotesRec("write", m, yes, limit, todo, after, x, page, y)
      /\ [t2 EXCEPT !.page = {}] = VotesRec("track", m, yes, limit, x, after, size, {}, n)
      /\ [p2 EXCEPT !.page = {}] = VotesRec("page", m, yes, limit, todo, x, size, {}, n)
  BY <1>5 DEF VotesRec
<1> HIDE DEF w3
<1>7. [w3 EXCEPT !.page = z] = VotesRec("write", m, yes, limit, todo, after, x, z, y)
  BY <1>6 DEF VotesRec
<1> QED
  BY <1>2, <1>3, <1>5, <1>6, <1>7 DEF was, m, yes, limit, todo, after, size, page, n

\* Runs as they begin.
LEMMA VotesStart ==
  ASSUME NEW m, NEW yes, NEW limit, NEW todo
  PROVE  /\ VotesShaped(PV!NoRun) /\ PV!NoRun.pc = "idle" /\ PV!NoRun.page = {}
         /\ VotesShaped(VotesFail) /\ VotesFail.pc = "failed" /\ VotesFail.page = {}
         /\ VotesBegin(m, yes, limit, todo) = VotesRec("track", m, yes, limit, todo, 0, 0, {}, 0)
<1>1. PV!NoRun = VotesRec("idle", "none", FALSE, 0, {}, 0, 0, {}, 0)
  BY DEF PV!NoRun, VotesRec
<1> DEFINE o == PV!NoRun
           no == FALSE nil == {} none == 0
           b1 == [o EXCEPT !.pc = "track"]
           b2 == [b1 EXCEPT !.model = m]
           b3 == [b2 EXCEPT !.yes = yes]
           b4 == [b3 EXCEPT !.limit = limit]
<1>2. VotesBegin(m, yes, limit, todo) = [b4 EXCEPT !.todo = todo] /\ VotesFail = [o EXCEPT !.pc = "failed"]
  BY DEF VotesBegin, VotesFail
<1>0. o = VotesRec("idle", "none", FALSE, 0, {}, 0, 0, {}, 0)
  BY <1>1
<1>8. o = VotesRec("idle", "none", no, none, nil, none, none, nil, none)
  BY <1>0
<1> HIDE DEF o, no, nil, none
<1>3. /\ b1 = VotesRec("track", "none", no, none, nil, none, none, nil, none)
      /\ VotesFail = VotesRec("failed", "none", no, none, nil, none, none, nil, none)
  BY <1>8, <1>2 DEF VotesRec
<1> HIDE DEF b1
<1>4. b2 = VotesRec("track", m, no, none, nil, none, none, nil, none)
  BY <1>3 DEF VotesRec
<1> HIDE DEF b2
<1>5. b3 = VotesRec("track", m, yes, none, nil, none, none, nil, none)
  BY <1>4 DEF VotesRec
<1> HIDE DEF b3
<1>6. b4 = VotesRec("track", m, yes, limit, nil, none, none, nil, none)
  BY <1>5 DEF VotesRec
<1> HIDE DEF b4
<1>7. [b4 EXCEPT !.todo = todo] = VotesRec("track", m, yes, limit, todo, none, none, nil, none)
  BY <1>6 DEF VotesRec
<1> DEFINE f == VotesFail
<1>9. f = VotesRec("failed", "none", no, none, nil, none, none, nil, none)
  BY <1>3
<1> HIDE DEF f
<1>10. VotesShaped(o) /\ o.pc = "idle" /\ o.page = nil /\ VotesShaped(f) /\ f.pc = "failed" /\ f.page = nil
  BY <1>8, <1>9, VotesFields
<1>11. VotesBegin(m, yes, limit, todo) = VotesRec("track", m, yes, limit, todo, none, none, nil, none)
  BY <1>2, <1>7
<1>12. VotesShaped(o) /\ o.pc = "idle" /\ o.page = {} /\ VotesShaped(f) /\ f.pc = "failed" /\ f.page = {}
  BY <1>10 DEF nil
<1>13. VotesBegin(m, yes, limit, todo) = VotesRec("track", m, yes, limit, todo, 0, 0, {}, 0)
  BY <1>11 DEF nil, none
<1> HIDE DEF nil, none
<1> QED
  BY <1>12, <1>13 DEF o, f

\* A page of a keyset: it is full where it leaves something out, and all it
\* leaves out comes after it.
LEMMA Greatest ==
  ASSUME NEW S \in SUBSET Nat, S # {}, NEW top \in Nat, \A n \in S : n <= top
  PROVE  \E n \in S : \A m \in S : m <= n
<1> DEFINE T == {top - n : n \in S}
<1>1. \A n \in S : top - n \in Nat
  OBVIOUS
<1>2. T \in SUBSET Nat /\ T # {}
  BY <1>1
<1>3. PICK t \in T : \A u \in T : t <= u
  <2> HIDE DEF T
  <2> QED
    BY <1>2, Least
<1>4. PICK n \in S : t = top - n
  OBVIOUS
<1>5. \A m \in S : top - n <= top - m
  BY <1>3, <1>4
<1> QED
  BY <1>4, <1>5

LEMMA PilotCount == \A S : PV!Cardinality(S) = Cardinality(S)
BY DEF PV!Cardinality, Cardinality

LEMMA PageOfKeyset ==
  ASSUME NEW S \in SUBSET Nat, NEW size \in Nat \ {0}, NEW page, page = PV!FirstOf(S, size)
  PROVE  /\ page \subseteq S /\ (S # {} => page # {})
         /\ \A f \in S \ page : /\ \A g \in page : g < f
                                /\ IsFiniteSet(page) /\ Cardinality(page) >= size
<1> DEFINE Upto(x) == {g \in S : g <= x}
<1>0. page = {f \in S : Cardinality(Upto(f)) <= size}
  BY PilotCount DEF PV!FirstOf
<1>1. \A x \in S : Upto(x) \in SUBSET Nat /\ IsFiniteSet(Upto(x)) /\ Cardinality(Upto(x)) \in Nat
  <2> TAKE x \in S
  <2>1. Upto(x) \in SUBSET Nat /\ x \in Nat /\ \A g \in Upto(x) : g <= x
    OBVIOUS
  <2> HIDE DEF Upto
  <2> QED
    BY <2>1, FS_BoundedSetOfNaturals, FS_CardinalityType
<1>2. \A x, y \in S : x <= y => Cardinality(Upto(x)) <= Cardinality(Upto(y))
  <2> TAKE x, y \in S
  <2> HAVE x <= y
  <2>1. x \in Nat /\ y \in Nat /\ \A g \in S : g \in Nat
    OBVIOUS
  <2>3. \A g \in Upto(x) : g \in Upto(y)
    BY <2>1
  <2> HIDE DEF Upto
  <2>4. Upto(x) \in SUBSET Upto(y)
    BY <2>3
  <2> QED
    BY <1>1, <2>4, FS_Subset
<1>3. ASSUME S # {} PROVE page # {}
  <2>1. PICK n \in S : \A m \in S : n <= m
    BY <1>3, Least
  <2>4. n \in Upto(n)
    BY <2>1
  <2>5. ASSUME NEW g \in Upto(n) PROVE g = n
    <3>1. g \in S /\ g <= n /\ g \in Nat /\ n \in Nat
      OBVIOUS
    <3>2. n <= g
      BY <2>1, <3>1
    <3> QED
      BY <3>1, <3>2
  <2>2. Upto(n) = {n}
    <3> HIDE DEF Upto
    <3> QED
      BY <2>4, <2>5
  <2>3. Cardinality(Upto(n)) = 1
    <3> HIDE DEF Upto
    <3> QED
      BY <2>2, FS_Singleton
  <2> HIDE DEF Upto
  <2> QED
    BY <1>0, <2>3
<1>4. ASSUME NEW f \in S \ page, NEW g \in page PROVE g < f
  <2>1. Cardinality(Upto(g)) <= size /\ ~(Cardinality(Upto(f)) <= size) /\ g \in S
    BY <1>0
  <2> HIDE DEF Upto
  <2>2. ~(f <= g)
    BY <1>1, <1>2, <2>1
  <2> QED
    BY <2>1, <2>2
<1>5. ASSUME NEW f \in S \ page PROVE IsFiniteSet(page) /\ Cardinality(page) >= size
  <2>9. \A g \in page : g \in Nat /\ g < f
    <3> HIDE DEF Upto
    <3> QED
      BY <1>0, <1>4
  <2>1. page \in SUBSET Nat /\ f \in Nat /\ \A g \in page : g <= f
    BY <2>9
  <2>2. IsFiniteSet(page) /\ Cardinality(page) \in Nat
    BY <2>1, FS_BoundedSetOfNaturals, FS_CardinalityType
  <2>3. S \ page \in SUBSET Nat /\ S \ page # {}
    OBVIOUS
  <2>4. PICK n \in S \ page : \A m \in S \ page : n <= m
    BY <2>3, Least
  <2> DEFINE U == Upto(n) \ {n}
  <2>10. ASSUME NEW m \in U PROVE m \in page
    <3>1. m \in S /\ m <= n /\ m # n /\ m \in Nat /\ n \in Nat
      OBVIOUS
    <3>2. ~(n <= m)
      BY <3>1
    <3> QED
      BY <2>4, <3>1, <3>2
  <2>5. U \in SUBSET page
    BY <2>10
  <2>6. n \in Upto(n) /\ ~(Cardinality(Upto(n)) <= size)
    BY <1>0, <2>4
  <2> HIDE DEF Upto
  <2>7. IsFiniteSet(U) /\ Cardinality(U) = Cardinality(Upto(n)) - 1
    BY <1>1, <2>6, FS_RemoveElement
  <2> HIDE DEF U
  <2>8. Cardinality(U) <= Cardinality(page)
    BY <2>2, <2>5, FS_Subset
  <2> QED
    BY <1>1, <2>2, <2>6, <2>7, <2>8
<1>6. page \subseteq S
  BY <1>0
<1> QED
  BY <1>3, <1>4, <1>5, <1>6

\* What is kept of a page is one thing for each finding of it.
LEMMA PageKept ==
  ASSUME NEW page, IsFiniteSet(page), NEW items, NEW item \in [page -> items],
         items = {item[f] : f \in page}, \A f \in page : item[f].f = f
  PROVE  Cardinality(page) <= Cardinality(items) /\ Cardinality(page) \in Nat /\ Cardinality(items) \in Nat
<1>1. item \in Surjection(page, items)
  BY DEF Surjection
<1>2. IsFiniteSet(items)
  BY <1>1, FS_Surjection
<1> DEFINE of == [i \in items |-> i.f]
<1>3. of \in Surjection(items, page)
  BY DEF Surjection
<1> HIDE DEF of
<1> QED
  BY <1>2, <1>3, FS_Surjection, FS_CardinalityType

-----------------------------------------------------------------------------
(* What holds of pilots, votes and findings.                               *)

NextOf(S) == CHOOSE p \in S : \A q \in S : p.track <= q.track

PilotsOK ==
  /\ pvClock \in Nat
  /\ \A p \in pilots : p.id \in Nat /\ p.id <= pvClock /\ p.scope \in {"full", "findings"}
  /\ \A p, q \in pilots : p.id = q.id => p = q

\* A vote is by a pilot of its finding's track.
VotesOK ==
  \A k \in DOMAIN votes :
    /\ k \in HeldFindings \X Nat
    /\ \E p \in pilots : p.id = k[2] /\ p.track = TrackOf[k[1]]
    /\ votes[k].at \in Nat /\ votes[k].at <= pvClock
    /\ votes[k].vote = "unmappable" \/ votes[k].sha = votes[k].of

TextsOK ==
  /\ fin = [f \in HeldFindings |-> FindingRec(fin[f].state, fin[f].sha, fin[f].log)]
  /\ pvText \in [HeldFindings -> Nat]
  /\ \A f \in HeldFindings : fin[f].sha \in Nat /\ fin[f].sha <= pvText[f]
  /\ steady \in [VoteRuns \cup {"rung"} -> SUBSET HeldFindings]

\* The transcript a run takes of a track is one of its model's.
LEMMA BestIsOne ==
  ASSUME PilotsOK, NEW m, NEW t, \E p \in pilots : p.track = t /\ p.model = m
  PROVE  PV!Best(m, t) \in pilots /\ PV!Best(m, t).track = t /\ PV!Best(m, t).model = m
<1> DEFINE S == {p \in pilots : p.track = t /\ p.model = m}
           F == {p \in S : p.scope = "full"}
           B(p) == \A q \in S : IF p.scope = q.scope THEN p.id >= q.id ELSE p.scope = "full"
<1>1. ASSUME NEW T \in SUBSET S, T # {} PROVE \E p \in T : \A q \in T : p.id >= q.id
  <2> DEFINE I == {p.id : p \in T}
  <2>1. I \in SUBSET Nat /\ I # {} /\ (\A n \in I : n <= pvClock) /\ pvClock \in Nat
    BY <1>1 DEF PilotsOK
  <2>2. PICK n \in I : \A m2 \in I : m2 <= n
    <3> HIDE DEF I
    <3> QED
      BY <2>1, Greatest
  <2>3. PICK p \in T : n = p.id
    OBVIOUS
  <2>4. \A q \in T : q.id <= p.id
    BY <2>2, <2>3
  <2> QED
    BY <2>1, <2>3, <2>4
<1>2. \E p \in S : B(p)
  <2>1. CASE F # {}
    <3>1. PICK p \in F : \A q \in F : p.id >= q.id
      BY <1>1, <2>1
    <3> QED
      BY <3>1
  <2>2. CASE F = {}
    <3>1. PICK p \in S : \A q \in S : p.id >= q.id
      BY <1>1
    <3>2. \A q \in S : q.scope = "findings"
      BY <2>2 DEF PilotsOK
    <3> QED
      BY <3>1, <3>2
  <2> QED
    BY <2>1, <2>2
<1>3. PV!Best(m, t) = CHOOSE p \in S : B(p)
  BY DEF PV!Best
<1>4. PV!Best(m, t) \in S
  <2> HIDE DEF S, B
  <2> QED
    BY <1>2, <1>3
<1> QED
  BY <1>4

\* A pilot transcript is known by its number.
LEMMA PilotIsOne ==
  ASSUME PilotsOK, NEW k, NEW p \in pilots, p.id = k[2]
  PROVE  PV!PilotOf(k) = p
BY DEF PilotsOK, PV!PilotOf

LEMMA CountedAre ==
  ASSUME PilotsOK, VotesOK, NEW f, NEW k
  PROVE  k \in PV!Counted(f) <=>
           /\ k \in DOMAIN votes /\ k[1] = f /\ votes[k].sha = fin[f].sha
           /\ \E p \in pilots : p.id = k[2] /\ p.model \in PilotModels
<1>1. ASSUME k \in DOMAIN votes
      PROVE  (\E p \in pilots : p.id = k[2] /\ p.model \in PilotModels) <=> PV!PilotOf(k).model \in PilotModels
  <2>1. PICK p \in pilots : p.id = k[2]
    BY <1>1 DEF VotesOK
  <2>2. PV!PilotOf(k) = p
    BY <2>1, PilotIsOne
  <2>3. \A q \in pilots : q.id = k[2] => q = p
    BY <2>1 DEF PilotsOK
  <2> QED
    BY <2>1, <2>2, <2>3
<1> QED
  BY <1>1 DEF PV!Counted, PV!OfItsText

LEMMA TopOf ==
  ASSUME NEW S \in SUBSET Nat, S # {}, NEW top \in Nat, \A n \in S : n < top
  PROVE  PV!Max(S) \in S /\ \A n \in S : n <= PV!Max(S)
<1>1. \A n \in S : n <= top
  OBVIOUS
<1>2. PICK n \in S : \A m \in S : m <= n
  BY <1>1, Greatest
<1>3. \A m \in S : n >= m
  BY <1>2
<1>4. PV!Max(S) \in S /\ \A m \in S : PV!Max(S) >= m
  BY <1>3 DEF PV!Max
<1> QED
  BY <1>4

-----------------------------------------------------------------------------
(* What the audio-vote command sees of a finding.                          *)

Before(x, y) == votes[x].at > votes[y].at \/ (votes[x].at = votes[y].at /\ x[2] >= y[2])
SaidBy(f, m) == {k \in PV!Counted(f) : PV!PilotOf(k).model = m}
NewestOf(S)  == CHOOSE x \in S : \A y \in S : Before(x, y)

LEMMA CurrentSays ==
  ASSUME NEW f, NEW m
  PROVE  /\ PV!Current(f, m) = IF SaidBy(f, m) = {} THEN [vote |-> "none", of |-> 0]
              ELSE [vote |-> votes[NewestOf(SaidBy(f, m))].vote, of |-> votes[NewestOf(SaidBy(f, m))].of]
         /\ PV!Current(f, m)' = IF SaidBy(f, m)' = {} THEN [vote |-> "none", of |-> 0]
              ELSE [vote |-> votes'[NewestOf(SaidBy(f, m))'].vote, of |-> votes'[NewestOf(SaidBy(f, m))'].of]
BY DEF PV!Current, SaidBy, NewestOf, Before

LEMMA NewestIsOne ==
  ASSUME PilotsOK, VotesOK, NEW S \in SUBSET DOMAIN votes, S # {}
  PROVE  NewestOf(S) \in S
<1> DEFINE A == {votes[k].at : k \in S}
<1>1. A \in SUBSET Nat /\ A # {} /\ (\A n \in A : n <= pvClock) /\ pvClock \in Nat
  BY DEF VotesOK, PilotsOK
<1>2. PICK a \in A : \A n \in A : n <= a
  <2> HIDE DEF A
  <2> QED
    BY <1>1, Greatest
<1> DEFINE T == {k \in S : votes[k].at = a}
           I == {k[2] : k \in T}
<1>3. I \in SUBSET Nat /\ I # {} /\ \A n \in I : n <= pvClock
  <2>1. T # {}
    OBVIOUS
  <2>2. \A k \in T : k[2] \in Nat /\ \E p \in pilots : p.id = k[2]
    BY DEF VotesOK
  <2>3. \A k \in T : k[2] <= pvClock
    BY <2>2 DEF PilotsOK
  <2> QED
    BY <2>1, <2>2, <2>3
<1>4. PICK i \in I : \A n \in I : n <= i
  <2> HIDE DEF I
  <2> QED
    BY <1>1, <1>3, Greatest
<1>5. PICK x \in T : x[2] = i
  OBVIOUS
<1>6. ASSUME NEW y \in S PROVE Before(x, y)
  <2>1. votes[y].at \in A /\ votes[x].at = a /\ x \in S
    BY <1>5
  <2>2. votes[y].at <= a /\ votes[y].at \in Nat /\ a \in Nat
    BY <1>1, <1>2, <2>1
  <2>3. CASE votes[y].at = a
    <3>1. y[2] \in I
      BY <2>3
    <3>2. y[2] <= i /\ y[2] \in Nat /\ i \in Nat
      BY <1>3, <1>4, <3>1
    <3> QED
      BY <1>5, <2>1, <2>3, <3>2 DEF Before
  <2> QED
    BY <2>1, <2>2, <2>3 DEF Before
<1>7. x \in S
  BY <1>5
<1> QED
  BY <1>6, <1>7 DEF NewestOf

\* A vote that was heard is of the text recorded with its finding.
LEMMA HeardIsOfIt ==
  ASSUME PilotsOK, VotesOK, NEW f, NEW m,
         PV!Current(f, m).vote \in {"heard_original", "heard_replacement"}
  PROVE  PV!Current(f, m).of = fin[f].sha
<1> DEFINE S == SaidBy(f, m)
           n == NewestOf(S)
<1>1. PV!Current(f, m) = IF S = {} THEN [vote |-> "none", of |-> 0] ELSE [vote |-> votes[n].vote, of |-> votes[n].of]
  BY CurrentSays
<1>2. S # {}
  BY <1>1
<1>3. S \in SUBSET DOMAIN votes
  BY DEF SaidBy, PV!Counted
<1>4. n \in S
  <2> HIDE DEF S
  <2> QED
    BY <1>2, <1>3, NewestIsOne
<1>5. n \in DOMAIN votes /\ votes[n].sha = fin[f].sha
  BY <1>4 DEF SaidBy, PV!Counted, PV!OfItsText
<1> HIDE DEF n, S
<1>6. votes[n].vote # "unmappable" /\ PV!Current(f, m).of = votes[n].of
  BY <1>1, <1>2
<1> QED
  BY <1>5, <1>6 DEF VotesOK

Agreed(f) == PV!Evaluate([f |-> f, hold |-> PV!Latest(f)], [m \in PilotModels |-> PV!Current(f, m)])

LEMMA EvaluateSame ==
  ASSUME NEW i, NEW j, i.f = j.f, i.hold = j.hold, NEW heard
  PROVE  PV!Evaluate(i, heard) = PV!Evaluate(j, heard)
BY DEF PV!Evaluate

LEMMA EvaluateSays ==
  ASSUME NEW i, NEW heard
  PROVE  /\ PV!Evaluate(i, heard) \in {"hold", "reject", "apply"}
         /\ PV!Evaluate(i, heard) = "reject" => \A m \in PilotModels : heard[m].vote = "heard_original"
         /\ PV!Evaluate(i, heard) = "apply" => i.hold.liftable /\ \A m \in PilotModels : heard[m].vote = "heard_replacement"
BY DEF PV!Evaluate

-----------------------------------------------------------------------------
(* What a step leaves of a finding.                                        *)

\* Nothing about the finding changes, nor its track's pilots and its votes.
SameFor(f) ==
  /\ fin'[f] = fin[f] /\ pvText'[f] = pvText[f]
  /\ \A p : p.track = TrackOf[f] => (p \in pilots' <=> p \in pilots)
  /\ \A k : k[1] = f => /\ k \in DOMAIN votes' <=> k \in DOMAIN votes
                        /\ k \in DOMAIN votes => votes'[k] = votes[k]

\* Its votes on the recorded text stay votes on it.
KeptFor(f) ==
  /\ fin'[f] = fin[f]
  /\ \A p : p.track = TrackOf[f] => (p \in pilots => p \in pilots')
  /\ \A k : k[1] = f /\ k \in DOMAIN votes /\ votes[k].sha = fin[f].sha =>
       k \in DOMAIN votes' /\ votes'[k].sha = fin[f].sha

LEMMA SameIsKept == ASSUME NEW f, SameFor(f) PROVE KeptFor(f)
BY DEF SameFor, KeptFor

LEMMA SameSeen ==
  ASSUME PilotsOK, VotesOK, PilotsOK', VotesOK', NEW f \in HeldFindings, SameFor(f)
  PROVE  /\ PV!Held(f)' = PV!Held(f) /\ PV!Latest(f)' = PV!Latest(f)
         /\ PV!Counted(f)' = PV!Counted(f) /\ Agreed(f)' = Agreed(f)
<1>1. PV!Latest(f)' = PV!Latest(f) /\ PV!Held(f)' = PV!Held(f)
  BY DEF SameFor, PV!Latest, PV!Held
<1>2. ASSUME NEW k, k[1] = f, k \in DOMAIN votes
      PROVE  PV!PilotOf(k)' = PV!PilotOf(k) /\ \E p \in pilots : p = PV!PilotOf(k)
  <2>1. PICK p \in pilots : p.id = k[2] /\ p.track = TrackOf[f]
    BY <1>2 DEF VotesOK
  <2>2. p \in pilots'
    BY <2>1 DEF SameFor
  <2>3. PV!PilotOf(k) = p /\ PV!PilotOf(k)' = p
    BY <2>1, <2>2 DEF PilotsOK, PV!PilotOf
  <2> QED
    BY <2>3
<1>3. ASSUME NEW k PROVE k \in PV!Counted(f)' <=> k \in PV!Counted(f)
  <2>1. CASE k[1] = f
    <3>1. /\ k \in DOMAIN votes' <=> k \in DOMAIN votes
          /\ k \in DOMAIN votes => votes'[k] = votes[k]
          /\ fin'[f] = fin[f]
      BY <2>1 DEF SameFor
    <3>2. CASE k \in DOMAIN votes
      BY <1>2, <2>1, <3>1, <3>2 DEF PV!Counted, PV!OfItsText
    <3> QED
      BY <3>1, <3>2 DEF PV!Counted
  <2> QED
    BY <2>1 DEF PV!Counted
<1>4. PV!Counted(f)' = PV!Counted(f)
  BY <1>3 DEF PV!Counted
<1>5. ASSUME NEW m PROVE PV!Current(f, m)' = PV!Current(f, m)
  <2>1. SaidBy(f, m)' = SaidBy(f, m)
    <3>1. \A k \in PV!Counted(f) : PV!PilotOf(k)' = PV!PilotOf(k)
      BY <1>2 DEF PV!Counted
    <3>2. SaidBy(f, m)' = {k \in PV!Counted(f)' : PV!PilotOf(k)'.model = m}
      BY DEF SaidBy
    <3> QED
      BY <1>4, <3>1, <3>2 DEF SaidBy
  <2>2. \A k \in SaidBy(f, m) : k[1] = f /\ k \in DOMAIN votes /\ votes'[k] = votes[k]
    BY DEF SaidBy, PV!Counted, SameFor
  <2> DEFINE S == SaidBy(f, m)
  <2>3. NewestOf(S)' = (CHOOSE x \in S' : \A y \in S' : Before(x, y)')
    BY DEF NewestOf
  <2>4. \A x, y \in S : Before(x, y)' <=> Before(x, y)
    BY <2>2 DEF Before
  <2>5. S' = S
    BY <2>1
  <2> HIDE DEF S
  <2>6. NewestOf(S)' = NewestOf(S)
    BY <2>3, <2>4, <2>5 DEF NewestOf
  <2>7. S # {} => NewestOf(S) \in S
    <3>1. S \in SUBSET DOMAIN votes
      BY DEF S, SaidBy, PV!Counted
    <3> QED
      BY <3>1, NewestIsOne
  <2>8. CASE S = {}
    BY <2>5, <2>8, CurrentSays DEF S
  <2>9. CASE S # {}
    <3>1. votes'[NewestOf(S)] = votes[NewestOf(S)]
      BY <2>2, <2>7, <2>9 DEF S
    <3>2. PV!Current(f, m) = [vote |-> votes[NewestOf(S)].vote, of |-> votes[NewestOf(S)].of]
      BY <2>9, CurrentSays DEF S
    <3>3. PV!Current(f, m)' = [vote |-> votes'[NewestOf(S)'].vote, of |-> votes'[NewestOf(S)'].of]
      BY <2>5, <2>9, CurrentSays DEF S
    <3> QED
      BY <2>6, <3>1, <3>2, <3>3
  <2> QED
    BY <2>8, <2>9
<1>6. Agreed(f)' = PV!Evaluate([f |-> f, hold |-> PV!Latest(f)'], [m \in PilotModels |-> PV!Current(f, m)'])
  BY DEF Agreed, PV!Evaluate
<1>7. [m \in PilotModels |-> PV!Current(f, m)'] = [m \in PilotModels |-> PV!Current(f, m)]
  BY <1>5
<1> QED
  BY <1>1, <1>4, <1>6, <1>7 DEF Agreed

-----------------------------------------------------------------------------
(* What holds of a vote run: a finding that stood through it has a vote on *)
(* its text by a pilot of the run's model, or is still ahead of the run.   *)

HasVoted(f, m) ==
  \E p \in pilots :
    /\ p.track = TrackOf[f] /\ p.model = m /\ m \in PilotModels
    /\ <<f, p.id>> \in DOMAIN votes /\ votes[<<f, p.id>>].sha = fin[f].sha

AheadOf(v, f) ==
  \E p \in v.todo :
    /\ p \in pilots /\ p.track = TrackOf[f] /\ p.model = v.model
    /\ \/ v.pc = "track" \/ p # NextOf(v.todo)
       \/ v.pc = "page" /\ f > v.after
       \/ v.pc = "write" /\ \E x \in v.page : x.f = f
       \/ /\ v.pc = "write" /\ ~(Cardinality(v.page) < v.size) /\ v.page # {}
          /\ \A x \in v.page : x.f < f

Standing(v, f) ==
  /\ v.yes /\ v.limit = 0 /\ v.model \in PilotModels /\ PV!Held(f)
  /\ HasVoted(f, v.model) \/ (v.pc # "done" /\ AheadOf(v, f))
  /\ \A x \in v.page : x.f = f => x.sha = fin[f].sha

RunStands(v, c) ==
  v.pc \in {"track", "page", "write", "done"} => \A f \in steady[c] : Standing(v, f)

\* What a run has read of a page, whoever moved since.
RunSound(v) ==
  /\ VotesShaped(v)
  /\ v.pc # "write" => v.page = {}
  /\ \A x \in v.page : /\ x.f \in HeldFindings /\ TrackOf[x.f] = NextOf(v.todo).track
                       /\ x.vote = "unmappable" \/ x.sha = x.of
  /\ \A x, y \in v.page : x.f = y.f => x = y

RunsOK ==
  /\ pvRun = [r \in VoteRuns |-> pvRun[r]]
  /\ \A r \in VoteRuns : RunSound(pvRun[r]) /\ RunStands(pvRun[r], r)

LEMMA HasVotedKept ==
  ASSUME NEW f, NEW m, HasVoted(f, m), KeptFor(f)
  PROVE  HasVoted(f, m)'
<1>1. PICK p \in pilots :
        /\ p.track = TrackOf[f] /\ p.model = m /\ m \in PilotModels
        /\ <<f, p.id>> \in DOMAIN votes /\ votes[<<f, p.id>>].sha = fin[f].sha
  BY DEF HasVoted
<1>2. p \in pilots' /\ <<f, p.id>> \in DOMAIN votes' /\ votes'[<<f, p.id>>].sha = fin'[f].sha
  BY <1>1 DEF KeptFor
<1> QED
  BY <1>1, <1>2 DEF HasVoted

LEMMA AheadKept ==
  ASSUME NEW v, NEW f, AheadOf(v, f), KeptFor(f)
  PROVE  AheadOf(v, f)'
BY DEF AheadOf, KeptFor

LEMMA StandingKept ==
  ASSUME NEW v, NEW f, Standing(v, f), KeptFor(f)
  PROVE  Standing(v, f)'
<1>1. PV!Held(f)' = PV!Held(f) /\ fin'[f] = fin[f]
  BY DEF KeptFor, PV!Held, PV!Latest
<1> QED
  BY <1>1, HasVotedKept, AheadKept DEF Standing

\* A run others move beside.
LEMMA RunKept ==
  ASSUME NEW v, NEW c, RunStands(v, c), steady'[c] \subseteq steady[c], \A f \in steady'[c] : KeptFor(f)
  PROVE  RunStands(v, c)'
<1> SUFFICES ASSUME v.pc \in {"track", "page", "write", "done"}, NEW f \in steady'[c]
             PROVE  Standing(v, f)'
  BY DEF RunStands
<1> QED
  BY StandingKept DEF RunStands

\* And one that ends has voted on all that stood.
LEMMA StoodIsVoted ==
  ASSUME PilotsOK, VotesOK, RunsOK
  PROVE  PV!EveryHeldFindingVoted
<1> SUFFICES ASSUME NEW r \in VoteRuns, pvRun[r].pc = "done", NEW f \in steady[r]
             PROVE  \E k \in PV!Counted(f) : PV!PilotOf(k).model = pvRun[r].model
  BY DEF PV!EveryHeldFindingVoted
<1>1. HasVoted(f, pvRun[r].model)
  BY DEF RunsOK, RunStands, Standing
<1>2. PICK p \in pilots :
        /\ p.model = pvRun[r].model /\ p.model \in PilotModels
        /\ <<f, p.id>> \in DOMAIN votes /\ votes[<<f, p.id>>].sha = fin[f].sha
  BY <1>1 DEF HasVoted
<1> DEFINE k == <<f, p.id>>
<1>3. k[1] = f /\ k[2] = p.id
  OBVIOUS
<1> HIDE DEF k
<1>4. PV!PilotOf(k) = p
  BY <1>3, PilotIsOne
<1>5. k \in PV!Counted(f)
  BY <1>2, <1>3, <1>4 DEF k, PV!Counted, PV!OfItsText
<1> QED
  BY <1>2, <1>4, <1>5

-----------------------------------------------------------------------------
(* What holds of the audio-vote command: a finding that stood through it   *)
(* and that all models agree on has been decided, or is still ahead of it. *)

ItemOK(i) == /\ i.f \in HeldFindings /\ i.sha \in Nat
             /\ i.sha = fin[i.f].sha \/ i.sha < pvText[i.f]

ReadOK(i) ==
  /\ i.f \in HeldFindings /\ i.sha \in Nat /\ i.out \in {"hold", "reject", "apply"}
  /\ i.out # "hold" =>
       /\ \A m \in PilotModels : i.heard[m].vote = (IF i.out = "apply" THEN "heard_replacement" ELSE "heard_original")
       /\ (\A m \in PilotModels : i.heard[m].of = i.sha) \/ i.sha < pvText[i.f]
       /\ i.out = "apply" => i.hold.liftable

WroteOK(w) ==
  /\ \A m \in PilotModels : /\ w.i.heard[m].of = w.text
                            /\ w.i.heard[m].vote = (IF w.i.out = "apply" THEN "heard_replacement" ELSE "heard_original")
  /\ w.before = w.i.hold
  /\ w.i.out = "apply" => w.before.liftable

RungSound(g) ==
  /\ RungShaped(g)
  /\ \A i \in g.page : ItemOK(i)
  /\ \A i \in g.read : ReadOK(i)
  /\ \A w \in g.wrote : WroteOK(w)

AheadOfRung(g, f) ==
  \/ g.pc # "done" /\ f > g.after
  \/ g.pc = "votes" /\ \E i \in g.page : i.f = f /\ i.sha = fin[f].sha /\ i.hold = PV!Latest(f)
  \/ g.pc = "write" /\ \E i \in g.read : i.f = f /\ i.sha = fin[f].sha /\ i.hold = PV!Latest(f) /\ i.out = Agreed(f)

RungDue(g, f) ==
  /\ g.yes /\ g.limit = 0
  /\ PV!Held(f) => PV!Counted(f) # {}
  /\ PV!Held(f) /\ pvText[f] = fin[f].sha => Agreed(f) = "hold" \/ AheadOfRung(g, f)

RungStands(g) == g.pc # "idle" => \A f \in steady["rung"] : RungDue(g, f)

RungOK == RungSound(rung) /\ RungStands(rung)

\* A chunk's texts are numbered as they come, and a re-anchored finding has the
\* latest.
TextsGrow ==
  \A f \in HeldFindings :
    /\ pvText[f] <= pvText'[f] /\ pvText[f] \in Nat /\ pvText'[f] \in Nat
    /\ fin[f].sha \in Nat /\ (fin'[f].sha = fin[f].sha \/ fin[f].sha < pvText'[f])

LEMMA ItemsKept ==
  ASSUME NEW g, RungSound(g), TextsGrow
  PROVE  RungSound(g)'
<1>1. ASSUME NEW i, ItemOK(i) PROVE ItemOK(i)'
  BY <1>1 DEF ItemOK, TextsGrow
<1>2. ASSUME NEW i, ReadOK(i) PROVE ReadOK(i)'
  <2>1. i.f \in HeldFindings /\ i.sha \in Nat /\ (i.sha < pvText[i.f] => i.sha < pvText'[i.f])
    BY <1>2 DEF ReadOK, TextsGrow
  <2> QED
    BY <1>2, <2>1 DEF ReadOK
<1>3. ASSUME NEW w, WroteOK(w) PROVE WroteOK(w)'
  BY <1>3 DEF WroteOK
<1> QED
  BY <1>1, <1>2, <1>3 DEF RungSound, RungShaped

LEMMA RungKept ==
  ASSUME PilotsOK, VotesOK, PilotsOK', VotesOK', NEW g, RungStands(g), steady["rung"] \subseteq HeldFindings,
         steady'["rung"] \subseteq steady["rung"], \A f \in steady'["rung"] : SameFor(f)
  PROVE  RungStands(g)'
<1> SUFFICES ASSUME g.pc # "idle", NEW f \in steady'["rung"] PROVE RungDue(g, f)'
  BY DEF RungStands
<1>1. RungDue(g, f) /\ SameFor(f) /\ f \in HeldFindings
  BY DEF RungStands
<1>2. /\ PV!Held(f)' = PV!Held(f) /\ PV!Latest(f)' = PV!Latest(f)
      /\ PV!Counted(f)' = PV!Counted(f) /\ Agreed(f)' = Agreed(f)
  BY <1>1, SameSeen
<1>3. fin'[f] = fin[f] /\ pvText'[f] = pvText[f]
  BY <1>1 DEF SameFor
<1>4. AheadOfRung(g, f) => AheadOfRung(g, f)'
  BY <1>2, <1>3 DEF AheadOfRung
<1> QED
  BY <1>1, <1>2, <1>3, <1>4 DEF RungDue

LEMMA DecidedWasHeard ==
  ASSUME RungOK PROVE PV!DecidedAsHeard
BY DEF RungOK, RungSound, WroteOK, PV!DecidedAsHeard

LEMMA AgreedIsActedOn ==
  ASSUME RungOK, steady["rung"] \subseteq HeldFindings PROVE PV!EveryAgreementActedOn
<1> SUFFICES ASSUME rung.pc = "done", NEW f \in steady["rung"], PV!Held(f), pvText[f] = fin[f].sha
             PROVE  Agreed(f) = "hold"
  BY DEF PV!EveryAgreementActedOn, Agreed
<1>1. RungDue(rung, f)
  BY DEF RungOK, RungStands
<1>2. ~AheadOfRung(rung, f)
  BY DEF AheadOfRung
<1> QED
  BY <1>1, <1>2 DEF RungDue

-----------------------------------------------------------------------------
(* What each step writes.                                                  *)

RungBegin(yes, limit)       == [PV!NoRung EXCEPT !.pc = "work", !.yes = yes, !.limit = limit]
RungEnd(g)                  == [g EXCEPT !.pc = "done"]
RungPage(g, after, n, page) == [g EXCEPT !.pc = "votes", !.after = after, !.n = n, !.page = page]
RungHeard(g, pc, read)      == [g EXCEPT !.pc = pc, !.page = {}, !.read = read]
RungWrote(g, wrote)         == [g EXCEPT !.pc = "work", !.read = {}, !.wrote = wrote]

LEMMA RungFields ==
  ASSUME NEW pc, NEW yes, NEW limit, NEW after, NEW page, NEW read, NEW n, NEW wrote,
         NEW g, g = RungRec(pc, yes, limit, after, page, read, n, wrote)
  PROVE  /\ RungShaped(g) /\ g.pc = pc /\ g.yes = yes /\ g.limit = limit /\ g.after = after
         /\ g.page = page /\ g.read = read /\ g.n = n /\ g.wrote = wrote
BY DEF RungShaped, RungRec

LEMMA RungAfter ==
  ASSUME NEW g, RungShaped(g), NEW x, NEW y, NEW z
  PROVE  /\ RungEnd(g) = RungRec("done", g.yes, g.limit, g.after, g.page, g.read, g.n, g.wrote)
         /\ RungPage(g, x, y, z) = RungRec("votes", g.yes, g.limit, x, z, g.read, y, g.wrote)
         /\ RungHeard(g, x, y) = RungRec(x, g.yes, g.limit, g.after, {}, y, g.n, g.wrote)
         /\ RungWrote(g, x) = RungRec("work", g.yes, g.limit, g.after, g.page, {}, g.n, x)
<1> DEFINE was == g.pc yes == g.yes limit == g.limit after == g.after page == g.page
           read == g.read n == g.n wrote == g.wrote nil == {}
<1>1. g = [pc |-> was, yes |-> yes, limit |-> limit, after |-> after, page |-> page, read |-> read, n |-> n,
           wrote |-> wrote]
  BY DEF RungShaped, RungRec
<1> DEFINE p1 == [g EXCEPT !.pc = "votes"]
           p2 == [p1 EXCEPT !.after = x]
           p3 == [p2 EXCEPT !.n = y]
           h1 == [g EXCEPT !.pc = x]
           h2 == [h1 EXCEPT !.page = nil]
           w1 == [g EXCEPT !.pc = "work"]
           w2 == [w1 EXCEPT !.read = nil]
<1>2. /\ RungPage(g, x, y, z) = [p3 EXCEPT !.page = z]
      /\ RungHeard(g, x, y) = [h2 EXCEPT !.read = y]
      /\ RungWrote(g, x) = [w2 EXCEPT !.wrote = x]
  BY DEF RungPage, RungHeard, RungWrote
<1> HIDE DEF was, yes, limit, after, page, read, n, wrote, nil
<1>3. RungEnd(g) = RungRec("done", yes, limit, after, page, read, n, wrote)
  BY <1>1 DEF RungEnd, RungRec
<1>4. /\ p1 = RungRec("votes", yes, limit, after, page, read, n, wrote)
      /\ h1 = RungRec(x, yes, limit, after, page, read, n, wrote)
      /\ w1 = RungRec("work", yes, limit, after, page, read, n, wrote)
  BY <1>1 DEF RungRec
<1> HIDE DEF p1, h1, w1
<1>5. /\ p2 = RungRec("votes", yes, limit, x, page, read, n, wrote)
      /\ h2 = RungRec(x, yes, limit, after, nil, read, n, wrote)
      /\ w2 = RungRec("work", yes, limit, after, page, nil, n, wrote)
  BY <1>4 DEF RungRec
<1> HIDE DEF p2, h2, w2
<1>6. /\ p3 = RungRec("votes", yes, limit, x, page, read, y, wrote)
      /\ [h2 EXCEPT !.read = y] = RungRec(x, yes, limit, after, nil, y, n, wrote)
      /\ [w2 EXCEPT !.wrote = x] = RungRec("work", yes, limit, after, page, nil, n, x)
  BY <1>5 DEF RungRec
<1> HIDE DEF p3
<1>7. [p3 EXCEPT !.page = z] = RungRec("votes", yes, limit, x, z, read, y, wrote)
  BY <1>6 DEF RungRec
<1> QED
  BY <1>2, <1>3, <1>6, <1>7 DEF was, yes, limit, after, page, read, n, wrote, nil

LEMMA RungStart ==
  ASSUME NEW yes, NEW limit
  PROVE  /\ RungShaped(PV!NoRung) /\ PV!NoRung.pc = "idle" /\ PV!NoRung.page = {} /\ PV!NoRung.read = {}
         /\ PV!NoRung.wrote = {}
         /\ RungBegin(yes, limit) = RungRec("work", yes, limit, 0, {}, {}, 0, {})
<1> DEFINE o == PV!NoRung
           no == FALSE nil == {} none == 0
           b1 == [o EXCEPT !.pc = "work"]
           b2 == [b1 EXCEPT !.yes = yes]
<1>1. o = RungRec("idle", no, none, none, nil, nil, none, nil)
  BY DEF PV!NoRung, RungRec
<1>2. RungBegin(yes, limit) = [b2 EXCEPT !.limit = limit]
  BY DEF RungBegin
<1> HIDE DEF o, no, nil, none
<1>4. b1 = RungRec("work", no, none, none, nil, nil, none, nil)
  BY <1>1 DEF RungRec
<1> HIDE DEF b1
<1>5. b2 = RungRec("work", yes, none, none, nil, nil, none, nil)
  BY <1>4 DEF RungRec
<1> HIDE DEF b2
<1>6. [b2 EXCEPT !.limit = limit] = RungRec("work", yes, limit, none, nil, nil, none, nil)
  BY <1>5 DEF RungRec
<1>7. RungShaped(o) /\ o.pc = "idle" /\ o.page = nil /\ o.read = nil /\ o.wrote = nil
  BY <1>1, RungFields
<1>8. RungBegin(yes, limit) = RungRec("work", yes, limit, none, nil, nil, none, nil)
  BY <1>2, <1>6
<1>9. RungBegin(yes, limit) = RungRec("work", yes, limit, 0, {}, {}, 0, {})
  BY <1>8 DEF nil, none
<1> QED
  BY <1>7, <1>9 DEF o, nil

FindingState(x, s)     == [x EXCEPT !.state = s]
FindingHash(x, n)      == [x EXCEPT !.sha = n]
FindingWrote(x, s, l)  == [x EXCEPT !.state = s, !.log = l]

LEMMA FindingFields ==
  ASSUME NEW a, NEW b, NEW c, NEW x, x = FindingRec(a, b, c)
  PROVE  x.state = a /\ x.sha = b /\ x.log = c
BY DEF FindingRec

LEMMA FindingAfter ==
  ASSUME NEW x, x = FindingRec(x.state, x.sha, x.log), NEW s, NEW l
  PROVE  /\ FindingState(x, s) = FindingRec(s, x.sha, x.log)
         /\ FindingHash(x, s) = FindingRec(x.state, s, x.log)
         /\ FindingWrote(x, s, l) = FindingRec(s, x.sha, l)
<1> DEFINE a == x.state b == x.sha c == x.log y == [x EXCEPT !.state = s]
<1>0. x = FindingRec(a, b, c)
  OBVIOUS
<1>2. FindingWrote(x, s, l) = [y EXCEPT !.log = l] /\ FindingState(x, s) = y
  BY DEF FindingWrote, FindingState
<1> HIDE DEF a, b, c
<1>1. y = FindingRec(s, b, c) /\ FindingHash(x, s) = FindingRec(a, s, c)
  BY <1>0 DEF FindingRec, FindingHash
<1> HIDE DEF y
<1>3. [y EXCEPT !.log = l] = FindingRec(s, b, l)
  BY <1>1 DEF FindingRec
<1> QED
  BY <1>1, <1>2, <1>3 DEF a, b, c

\* A finding's texts and hash after a step, whatever else it wrote.
LEMMA TextsStay ==
  ASSUME TextsOK, pvText' = pvText, DOMAIN fin' = HeldFindings, fin' = [f \in HeldFindings |-> fin'[f]],
         \A f \in HeldFindings : \E s, l : fin'[f] = FindingRec(s, fin[f].sha, l),
         steady' \in [VoteRuns \cup {"rung"} -> SUBSET HeldFindings]
  PROVE  TextsOK' /\ TextsGrow
<1>1. ASSUME NEW f \in HeldFindings
      PROVE  fin'[f].sha = fin[f].sha /\ fin'[f] = FindingRec(fin'[f].state, fin'[f].sha, fin'[f].log)
  <2>1. PICK s, l : fin'[f] = FindingRec(s, fin[f].sha, l)
    OBVIOUS
  <2>2. fin'[f].state = s /\ fin'[f].sha = fin[f].sha /\ fin'[f].log = l
    BY <2>1, FindingFields
  <2> QED
    BY <2>1, <2>2
<1>2. fin' = [f \in HeldFindings |-> FindingRec(fin'[f].state, fin'[f].sha, fin'[f].log)]
  <2>1. \A f \in HeldFindings : fin'[f] = FindingRec(fin'[f].state, fin'[f].sha, fin'[f].log)
    BY <1>1
  <2> QED
    BY <2>1
<1>3. \A f \in HeldFindings : pvText[f] \in Nat /\ pvText[f] <= pvText[f]
  BY DEF TextsOK
<1> QED
  BY <1>1, <1>2, <1>3 DEF TextsOK, TextsGrow

\* The clock moves, and pilots and votes stay.
LEMMA VotesStay ==
  ASSUME PilotsOK, VotesOK, pilots' = pilots, votes' = votes, pvClock' \in {pvClock, pvClock + 1}
  PROVE  PilotsOK' /\ VotesOK'
<1>1. pvClock' \in Nat /\ pvClock \in Nat /\ pvClock <= pvClock'
  BY DEF PilotsOK
<1>2. PilotsOK'
  BY <1>1 DEF PilotsOK
<1>3. ASSUME NEW k \in DOMAIN votes PROVE votes[k].at <= pvClock'
  <2>1. votes[k].at \in Nat /\ votes[k].at <= pvClock
    BY <1>3 DEF VotesOK
  <2> QED
    BY <1>1, <2>1
<1> QED
  BY <1>2, <1>3 DEF VotesOK

-----------------------------------------------------------------------------
(* Everybody else moves.                                                   *)

PilotInv == PilotsOK /\ VotesOK /\ TextsOK /\ RunsOK /\ RungOK

LEMMA OthersMove ==
  ASSUME PilotConstants, PilotInv, PilotsOK', VotesOK', TextsOK', TextsGrow, pvRun' = pvRun, rung' = rung,
         NEW fs, PV!Disturb(fs), \A f \in HeldFindings \ fs : SameFor(f)
  PROVE  PilotInv'
<1>1. steady \in [VoteRuns \cup {"rung"} -> SUBSET HeldFindings]
  BY DEF PilotInv, TextsOK
<1>2. ASSUME NEW c \in VoteRuns \cup {"rung"}
      PROVE  /\ steady[c] \subseteq HeldFindings /\ steady'[c] \subseteq steady[c]
             /\ \A f \in steady'[c] : SameFor(f)
  BY <1>1 DEF PV!Disturb
<1>3. ASSUME NEW r \in VoteRuns, NEW v, v = pvRun'[r] PROVE RunSound(v)' /\ RunStands(v, r)'
  <2>1. RunSound(v) /\ RunStands(v, r)
    BY <1>3 DEF PilotInv, RunsOK
  <2>2. \A f \in steady'[r] : KeptFor(f)
    BY <1>2, SameIsKept
  <2>3. RunStands(v, r)'
    BY <1>2, <2>1, <2>2, RunKept
  <2> QED
    BY <2>1, <2>3 DEF RunSound, VotesShaped
<1>4. RunsOK'
  BY <1>3 DEF RunsOK, PilotInv
<1>5. ASSUME NEW g, g = rung' PROVE RungSound(g)' /\ RungStands(g)'
  <2>1. RungSound(g) /\ RungStands(g)
    BY <1>5 DEF PilotInv, RungOK
  <2> QED
    BY <1>2, <2>1, ItemsKept, RungKept DEF PilotInv
<1>6. RungOK'
  BY <1>5 DEF RungOK
<1> QED
  BY <1>4, <1>6 DEF PilotInv

\* A finding is decided, or is its own again.
LEMMA FindingMoves ==
  ASSUME PilotConstants, PilotInv, NEW f \in HeldFindings, NEW s, NEW l,
         fin' = [fin EXCEPT ![f] = FindingRec(s, fin[f].sha, l)], pvClock' \in {pvClock, pvClock + 1},
         UNCHANGED <<pilots, votes, pvText, pvRun, rung>>, PV!Disturb({f})
  PROVE  PilotInv'
<1>1. PilotsOK' /\ VotesOK'
  BY VotesStay DEF PilotInv
<1>2. fin = [g \in HeldFindings |-> FindingRec(fin[g].state, fin[g].sha, fin[g].log)]
  BY DEF PilotInv, TextsOK
<1>3. DOMAIN fin' = HeldFindings /\ fin' = [g \in HeldFindings |-> fin'[g]]
  BY <1>2
<1>4. \A g \in HeldFindings : IF g = f THEN fin'[g] = FindingRec(s, fin[f].sha, l) ELSE fin'[g] = fin[g]
  BY <1>2
<1>5. \A g \in HeldFindings : \E t, m : fin'[g] = FindingRec(t, fin[g].sha, m)
  <2>1. \A g \in HeldFindings : fin[g] = FindingRec(fin[g].state, fin[g].sha, fin[g].log)
    BY <1>2
  <2> QED
    BY <1>4, <2>1
<1>6. steady' \in [VoteRuns \cup {"rung"} -> SUBSET HeldFindings]
  BY DEF PV!Disturb, PilotInv, TextsOK
<1>7. TextsOK' /\ TextsGrow
  BY <1>3, <1>5, <1>6, TextsStay DEF PilotInv
<1>8. \A g \in HeldFindings \ {f} : SameFor(g)
  BY <1>4 DEF SameFor
<1> QED
  BY <1>1, <1>7, <1>8, OthersMove

LEMMA FindingDecided ==
  ASSUME PilotConstants, PilotInv, NEW f \in HeldFindings, PV!Decide(f) \/ PV!Revoke(f)
  PROVE  PilotInv'
<1>1. fin = [g \in HeldFindings |-> FindingRec(fin[g].state, fin[g].sha, fin[g].log)]
  BY DEF PilotInv, TextsOK
<1>2. fin[f] = FindingRec(fin[f].state, fin[f].sha, fin[f].log)
  BY <1>1
<1>3. ASSUME NEW s, NEW l PROVE [fin EXCEPT ![f].state = s, ![f].log = l] = [fin EXCEPT ![f] = FindingRec(s, fin[f].sha, l)]
  <2> DEFINE x == [fin[f] EXCEPT !.state = s]
             y == [fin EXCEPT ![f] = x]
             z == [x EXCEPT !.log = l]
  <2>1. [fin EXCEPT ![f].state = s, ![f].log = l] = [y EXCEPT ![f] = [y[f] EXCEPT !.log = l]]
    OBVIOUS
  <2>2. z = FindingRec(s, fin[f].sha, l)
    <3>1. z = FindingWrote(fin[f], s, l)
      BY DEF FindingWrote
    <3> HIDE DEF z
    <3> QED
      BY <1>2, <3>1, FindingAfter
  <2>3. y[f] = x
    BY <1>1
  <2>4. [y[f] EXCEPT !.log = l] = z
    BY <2>3
  <2> HIDE DEF x, z
  <2>5. [y EXCEPT ![f] = z] = [fin EXCEPT ![f] = z]
    BY <1>1
  <2> QED
    BY <2>1, <2>2, <2>4, <2>5
<1>4. CASE PV!Decide(f)
  <2>1. PICK s, l : fin' = [fin EXCEPT ![f].state = s, ![f].log = l]
    BY <1>4 DEF PV!Decide
  <2>2. fin' = [fin EXCEPT ![f] = FindingRec(s, fin[f].sha, l)]
    BY <1>3, <2>1
  <2> QED
    BY <1>4, <2>2, FindingMoves DEF PV!Decide, PV!Elsewhere
<1>5. CASE PV!Revoke(f)
  <2>1. PICK s, l : fin' = [fin EXCEPT ![f].state = s, ![f].log = l]
    BY <1>5 DEF PV!Revoke
  <2>2. fin' = [fin EXCEPT ![f] = FindingRec(s, fin[f].sha, l)]
    BY <1>3, <2>1
  <2> QED
    BY <1>5, <2>2, FindingMoves DEF PV!Revoke, PV!Elsewhere
<1> QED
  BY <1>4, <1>5

\* A chunk is cut anew, or a finding re-anchored in it.
LEMMA TextMoves ==
  ASSUME PilotConstants, PilotInv, NEW f \in HeldFindings, PV!Rechunk(f) \/ PV!ReanchorFinding(f)
  PROVE  PilotInv'
<1>1. /\ UNCHANGED <<pilots, votes, pvClock, pvRun, rung>> /\ PV!Disturb({f})
      /\ \/ pvText' = [pvText EXCEPT ![f] = @ + 1] /\ fin' = fin
         \/ pvText' = pvText /\ fin' = [fin EXCEPT ![f].sha = pvText[f]] /\ fin[f].sha # pvText[f]
  BY DEF PV!Rechunk, PV!ReanchorFinding, PV!Elsewhere
<1>2. PilotsOK' /\ VotesOK'
  BY <1>1, VotesStay DEF PilotInv
<1>3. /\ fin = [g \in HeldFindings |-> FindingRec(fin[g].state, fin[g].sha, fin[g].log)]
      /\ pvText \in [HeldFindings -> Nat] /\ \A g \in HeldFindings : fin[g].sha \in Nat /\ fin[g].sha <= pvText[g]
      /\ steady \in [VoteRuns \cup {"rung"} -> SUBSET HeldFindings]
  BY DEF PilotInv, TextsOK
<1>4. steady' \in [VoteRuns \cup {"rung"} -> SUBSET HeldFindings]
  BY <1>1, <1>3 DEF PV!Disturb
<1>5. \A g \in HeldFindings \ {f} : SameFor(g)
  BY <1>1, <1>3 DEF SameFor
<1>6. TextsOK' /\ TextsGrow
  <2>1. CASE pvText' = [pvText EXCEPT ![f] = @ + 1] /\ fin' = fin
    <3>1. /\ pvText' \in [HeldFindings -> Nat]
          /\ \A g \in HeldFindings : pvText[g] \in Nat /\ pvText'[g] \in Nat /\ pvText[g] <= pvText'[g]
      <4>1. pvText \in [HeldFindings -> Nat]
        BY <1>3
      <4> QED
        BY <2>1, <4>1
    <3>2. \A g \in HeldFindings : fin[g].sha <= pvText'[g]
      BY <1>3, <3>1
    <3> QED
      BY <1>3, <1>4, <2>1, <3>1, <3>2 DEF TextsOK, TextsGrow
  <2>2. CASE pvText' = pvText /\ fin' = [fin EXCEPT ![f].sha = pvText[f]] /\ fin[f].sha # pvText[f]
    <3> DEFINE x == [fin[f] EXCEPT !.sha = pvText[f]]
    <3>1. x = FindingRec(fin[f].state, pvText[f], fin[f].log)
      <4>1. fin[f] = FindingRec(fin[f].state, fin[f].sha, fin[f].log)
        BY <1>3
      <4>2. x = FindingHash(fin[f], pvText[f])
        BY DEF FindingHash
      <4> HIDE DEF x
      <4> QED
        BY <4>1, <4>2, FindingAfter
    <3>2. fin' = [fin EXCEPT ![f] = x]
      BY <2>2
    <3> HIDE DEF x
    <3>3. fin' = [g \in HeldFindings |-> IF g = f THEN x ELSE fin[g]]
      BY <1>3, <3>2
    <3>4. x.state = fin[f].state /\ x.sha = pvText[f] /\ x.log = fin[f].log
      BY <3>1, FindingFields
    <3>5. \A g \in HeldFindings : fin'[g] = FindingRec(fin'[g].state, fin'[g].sha, fin'[g].log)
      <4>1. \A g \in HeldFindings : fin[g] = FindingRec(fin[g].state, fin[g].sha, fin[g].log)
        BY <1>3
      <4> QED
        BY <3>1, <3>3, <3>4, <4>1
    <3>6. fin' = [g \in HeldFindings |-> FindingRec(fin'[g].state, fin'[g].sha, fin'[g].log)]
      BY <3>3, <3>5
    <3>7. ASSUME NEW g \in HeldFindings
          PROVE  /\ pvText[g] \in Nat /\ pvText[g] <= pvText[g] /\ fin'[g].sha \in Nat /\ fin'[g].sha <= pvText[g]
                 /\ fin'[g].sha = fin[g].sha \/ fin[g].sha < pvText[g]
      <4>1. pvText[g] \in Nat /\ fin[g].sha \in Nat /\ fin[g].sha <= pvText[g]
        BY <1>3
      <4>2. CASE g = f
        BY <2>2, <3>3, <3>4, <4>1, <4>2
      <4>3. CASE g # f
        BY <3>3, <4>1, <4>3
      <4> QED
        BY <4>2, <4>3
    <3> QED
      BY <1>3, <1>4, <2>2, <3>6, <3>7 DEF TextsOK, TextsGrow
  <2> QED
    BY <1>1, <2>1, <2>2
<1> QED
  BY <1>1, <1>2, <1>5, <1>6, OthersMove

\* Pilot transcripts of a track go, and their votes with them; one may come.
LEMMA PilotsGo ==
  ASSUME PilotsOK, VotesOK, NEW t, NEW gone \in SUBSET pilots, \A p \in gone : p.track = t, NEW more,
         \A p \in more : p.track = t /\ p.scope \in {"full", "findings"} /\ p.id = pvClock + 1 /\ pvClock' = pvClock + 1,
         \A p, q \in more : p = q,
         pvClock' \in {pvClock, pvClock + 1}, pilots' = (pilots \ gone) \cup more,
         votes' = PV!WithoutPilots(PV!IdsOf(gone))
  PROVE  /\ PilotsOK' /\ VotesOK'
         /\ \A f \in HeldFindings : TrackOf[f] # t /\ fin'[f] = fin[f] /\ pvText'[f] = pvText[f] => SameFor(f)
<1>1. pvClock \in Nat /\ pvClock' \in Nat /\ pvClock <= pvClock'
  BY DEF PilotsOK
<1>2. \A p \in pilots : p.id \in Nat /\ p.id <= pvClock' /\ p.scope \in {"full", "findings"}
  BY <1>1 DEF PilotsOK
<1>3. \A p \in pilots, q \in more : p.id # q.id
  BY <1>1 DEF PilotsOK
<1>4. PilotsOK'
  <2>1. \A p \in pilots' : p.id \in Nat /\ p.id <= pvClock' /\ p.scope \in {"full", "findings"}
    BY <1>1, <1>2
  <2>2. \A p, q \in pilots : p.id = q.id => p = q
    BY DEF PilotsOK
  <2>3. \A p, q \in pilots' : p.id = q.id => p = q
    BY <1>3, <2>2
  <2> QED
    BY <1>1, <2>1, <2>3 DEF PilotsOK
<1>5. /\ \A k : k \in DOMAIN votes' <=> k \in DOMAIN votes /\ \A p \in gone : p.id # k[2]
      /\ \A k \in DOMAIN votes' : votes'[k] = votes[k]
  BY DEF PV!WithoutPilots, PV!IdsOf
<1>6. ASSUME NEW k \in DOMAIN votes'
      PROVE  /\ k \in HeldFindings \X Nat
             /\ \E p \in pilots' : p.id = k[2] /\ p.track = TrackOf[k[1]]
             /\ votes'[k].at \in Nat /\ votes'[k].at <= pvClock'
             /\ votes'[k].vote = "unmappable" \/ votes'[k].sha = votes'[k].of
  <2>1. k \in DOMAIN votes /\ votes'[k] = votes[k] /\ \A p \in gone : p.id # k[2]
    BY <1>5
  <2>2. /\ k \in HeldFindings \X Nat
        /\ votes[k].at \in Nat /\ votes[k].at <= pvClock
        /\ votes[k].vote = "unmappable" \/ votes[k].sha = votes[k].of
    BY <2>1 DEF VotesOK
  <2>3. PICK p \in pilots : p.id = k[2] /\ p.track = TrackOf[k[1]]
    BY <2>1 DEF VotesOK
  <2>4. p \in pilots'
    BY <2>1, <2>3
  <2>5. votes[k].at <= pvClock'
    BY <1>1, <2>2
  <2> QED
    BY <2>1, <2>2, <2>3, <2>4, <2>5
<1>7. VotesOK'
  BY <1>6 DEF VotesOK
<1>8. ASSUME NEW f \in HeldFindings, TrackOf[f] # t, fin'[f] = fin[f], pvText'[f] = pvText[f]
      PROVE  SameFor(f)
  <2>1. \A p : p.track = TrackOf[f] => (p \in pilots' <=> p \in pilots)
    BY <1>8
  <2>2. ASSUME NEW k, k[1] = f, k \in DOMAIN votes PROVE k \in DOMAIN votes'
    <3>1. PICK p \in pilots : p.id = k[2] /\ p.track = TrackOf[f]
      BY <2>2 DEF VotesOK
    <3>2. \A q \in gone : q.id # k[2]
      BY <1>8, <3>1 DEF PilotsOK
    <3> QED
      BY <1>5, <2>2, <3>2
  <2> QED
    BY <1>5, <1>8, <2>1, <2>2 DEF SameFor
<1> QED
  BY <1>4, <1>7, <1>8

LEMMA PilotComes ==
  ASSUME PilotConstants, PilotInv, NEW t, NEW m, NEW s \in {"full", "findings"}, PV!Pilot(t, m, s)
  PROVE  PilotInv'
<1> DEFINE gone == {p \in pilots : p.track = t /\ p.model = m /\ p.scope = s}
           new  == [id |-> pvClock + 1, track |-> t, model |-> m, scope |-> s]
           more == {new}
           fs   == {f \in HeldFindings : TrackOf[f] = t}
<1>1. /\ pilots' = (pilots \ gone) \cup more /\ votes' = PV!WithoutPilots(PV!IdsOf(gone)) /\ pvClock' = pvClock + 1
      /\ PV!Disturb(fs) /\ UNCHANGED <<fin, pvText, pvRun, rung>>
  BY DEF PV!Pilot, PV!Elsewhere
<1>2. /\ \A p \in more : p.track = t /\ p.scope \in {"full", "findings"} /\ p.id = pvClock + 1
      /\ \A p, q \in more : p = q
      /\ \A p \in gone : p.track = t
  OBVIOUS
<1>3. gone \in SUBSET pilots
  OBVIOUS
<1> HIDE DEF gone, more
<1>4. /\ PilotsOK' /\ VotesOK'
      /\ \A f \in HeldFindings : TrackOf[f] # t /\ fin'[f] = fin[f] /\ pvText'[f] = pvText[f] => SameFor(f)
  BY <1>1, <1>2, <1>3, PilotsGo DEF PilotInv
<1>5. \A f \in HeldFindings \ fs : SameFor(f)
  BY <1>1, <1>4
<1>6. TextsOK' /\ TextsGrow
  <2>1. steady' \in [VoteRuns \cup {"rung"} -> SUBSET HeldFindings]
    BY <1>1 DEF PV!Disturb, PilotInv, TextsOK
  <2>2. \A f \in HeldFindings : pvText[f] \in Nat /\ pvText[f] <= pvText[f] /\ fin[f].sha \in Nat
    BY DEF PilotInv, TextsOK
  <2> QED
    BY <1>1, <2>1, <2>2 DEF PilotInv, TextsOK, TextsGrow
<1> HIDE DEF fs
<1> QED
  BY <1>1, <1>4, <1>5, <1>6, OthersMove

LEMMA TrackRequeued ==
  ASSUME PilotConstants, PilotInv, NEW t, PV!Requeue(t)
  PROVE  PilotInv'
<1> DEFINE gone == {p \in pilots : p.track = t}
           fs   == {f \in HeldFindings : TrackOf[f] = t}
<1>1. /\ pilots' = pilots \ gone /\ votes' = PV!WithoutPilots(PV!IdsOf(gone)) /\ pvClock' = pvClock
      /\ fin' = [f \in HeldFindings |-> IF TrackOf[f] = t THEN [fin[f] EXCEPT !.state = "superseded"] ELSE fin[f]]
      /\ PV!Disturb(fs) /\ UNCHANGED <<pvText, pvRun, rung>>
  BY DEF PV!Requeue, PV!Elsewhere
<1>2. (\A p \in gone : p.track = t) /\ gone \in SUBSET pilots
  OBVIOUS
<1>10. PICK more : more = {}
  OBVIOUS
<1>11. /\ pilots' = (pilots \ gone) \cup more /\ pvClock' \in {pvClock, pvClock + 1}
       /\ \A p \in more : p.track = t /\ p.scope \in {"full", "findings"} /\ p.id = pvClock + 1 /\ pvClock' = pvClock + 1
       /\ \A p, q \in more : p = q
  BY <1>1, <1>10
<1> HIDE DEF gone
<1>3. /\ PilotsOK' /\ VotesOK'
      /\ \A f \in HeldFindings : TrackOf[f] # t /\ fin'[f] = fin[f] /\ pvText'[f] = pvText[f] => SameFor(f)
  BY <1>1, <1>2, <1>11, PilotsGo DEF PilotInv
<1>4. \A f \in HeldFindings \ fs : SameFor(f)
  BY <1>1, <1>3
<1>5. \A f \in HeldFindings : \E s, l : fin'[f] = FindingRec(s, fin[f].sha, l)
  <2> TAKE f \in HeldFindings
  <2>1. fin[f] = FindingRec(fin[f].state, fin[f].sha, fin[f].log)
    BY DEF PilotInv, TextsOK
  <2>2. [fin[f] EXCEPT !.state = "superseded"] = FindingRec("superseded", fin[f].sha, fin[f].log)
    BY <2>1, FindingAfter DEF FindingState
  <2> QED
    BY <1>1, <2>1, <2>2
<1>6. steady' \in [VoteRuns \cup {"rung"} -> SUBSET HeldFindings]
  BY <1>1 DEF PV!Disturb, PilotInv, TextsOK
<1>7. DOMAIN fin' = HeldFindings /\ fin' = [f \in HeldFindings |-> fin'[f]]
  BY <1>1
<1>8. TextsOK' /\ TextsGrow
  BY <1>1, <1>5, <1>6, <1>7, TextsStay DEF PilotInv
<1> HIDE DEF fs
<1> QED
  BY <1>1, <1>3, <1>4, <1>8, OthersMove

-----------------------------------------------------------------------------
(* A vote run moves.                                                       *)

\* It reads.
LEMMA RunGoes ==
  ASSUME PilotConstants, PilotInv, UNCHANGED <<pilots, votes, fin, pvText, rung, pvClock>>,
         NEW r \in VoteRuns, NEW v, pvRun' = [pvRun EXCEPT ![r] = v], RunSound(v),
         steady' \in [VoteRuns \cup {"rung"} -> SUBSET HeldFindings],
         \A c \in VoteRuns \cup {"rung"} : c # r => steady'[c] = steady[c],
         v.pc \in {"track", "page", "write", "done"} => \A f \in steady'[r] : Standing(v, f)
  PROVE  PilotInv'
<1>1. \A f : SameFor(f) /\ KeptFor(f)
  BY DEF SameFor, KeptFor
<1>2. PilotsOK' /\ VotesOK'
  BY VotesStay DEF PilotInv
<1>3. TextsOK' /\ TextsGrow
  <2>1. \A f \in HeldFindings : pvText[f] \in Nat /\ pvText[f] <= pvText[f] /\ fin[f].sha \in Nat
    BY DEF PilotInv, TextsOK
  <2> QED
    BY <2>1 DEF PilotInv, TextsOK, TextsGrow
<1>4. ASSUME NEW q \in VoteRuns, NEW w, w = pvRun'[q] PROVE RunSound(w)' /\ RunStands(w, q)'
  <2>1. CASE q = r
    <3>1. w = v
      BY <1>4, <2>1 DEF PilotInv, RunsOK
    <3>2. ASSUME v.pc \in {"track", "page", "write", "done"}, NEW f \in steady'[r] PROVE Standing(v, f)'
      BY <1>1, <3>2, StandingKept
    <3> QED
      BY <2>1, <3>1, <3>2 DEF RunSound, VotesShaped, RunStands
  <2>2. CASE q # r
    <3>1. w = pvRun[q] /\ steady'[q] = steady[q]
      BY <1>4, <2>2 DEF PilotInv, RunsOK
    <3>2. RunSound(w) /\ RunStands(w, q)
      BY <3>1 DEF PilotInv, RunsOK
    <3>3. RunStands(w, q)'
      BY <1>1, <3>1, <3>2, RunKept
    <3> QED
      BY <3>2, <3>3 DEF RunSound, VotesShaped
  <2> QED
    BY <2>1, <2>2
<1>5. pvRun' = [q \in VoteRuns |-> pvRun'[q]]
  BY DEF PilotInv, RunsOK
<1>6. RunsOK'
  BY <1>4, <1>5 DEF RunsOK
<1>7. ASSUME NEW g, g = rung' PROVE RungSound(g)' /\ RungStands(g)'
  <2>1. RungSound(g) /\ RungStands(g)
    BY <1>7 DEF PilotInv, RungOK
  <2>2. steady'["rung"] = steady["rung"] /\ steady["rung"] \subseteq HeldFindings
    BY DEF PilotConstants, PilotInv, TextsOK
  <2> QED
    BY <1>1, <1>2, <1>3, <2>1, <2>2, ItemsKept, RungKept DEF PilotInv
<1>8. RungOK'
  BY <1>7 DEF RungOK
<1> QED
  BY <1>2, <1>3, <1>6, <1>8 DEF PilotInv

LEMMA VotesBegun ==
  ASSUME PilotConstants, PilotInv, NEW r \in VoteRuns, PV!StartVotes(r)
  PROVE  PilotInv'
<1> DEFINE Made(m, yes, ts) ==
      /\ m \in PilotModels /\ yes \in BOOLEAN
      /\ ts = {t \in PV!Tracks : \E p \in pilots : p.track = t /\ p.model = m}
      /\ pvRun' = [pvRun EXCEPT ![r] = VotesBegin(m, yes, pvLeft.limit, {PV!Best(m, t) : t \in ts})]
      /\ steady' = [steady EXCEPT ![r] =
           IF yes /\ pvLeft.limit = 0 THEN {f \in HeldFindings : PV!Held(f) /\ TrackOf[f] \in ts} ELSE {}]
<1>1. PICK m, yes, ts : Made(m, yes, ts)
  <2>1. PICK m \in PilotModels, yes \in BOOLEAN :
          LET ts == {t \in PV!Tracks : \E p \in pilots : p.track = t /\ p.model = m}
          IN /\ pvRun' = [pvRun EXCEPT ![r] = [PV!NoRun EXCEPT !.pc = "track", !.model = m, !.yes = yes,
                  !.limit = pvLeft.limit, !.todo = {PV!Best(m, t) : t \in ts}]]
             /\ steady' = [steady EXCEPT ![r] =
                  IF yes /\ pvLeft.limit = 0 THEN {f \in HeldFindings : PV!Held(f) /\ TrackOf[f] \in ts} ELSE {}]
    BY DEF PV!StartVotes
  <2> DEFINE ts == {t \in PV!Tracks : \E p \in pilots : p.track = t /\ p.model = m}
             todo == {PV!Best(m, t) : t \in ts}
  <2>2. /\ pvRun' = [pvRun EXCEPT ![r] = VotesBegin(m, yes, pvLeft.limit, todo)]
        /\ steady' = [steady EXCEPT ![r] =
             IF yes /\ pvLeft.limit = 0 THEN {f \in HeldFindings : PV!Held(f) /\ TrackOf[f] \in ts} ELSE {}]
    BY <2>1, Zenon DEF VotesBegin
  <2>3. PICK s : s = ts
    OBVIOUS
  <2>4. todo = {PV!Best(m, t) : t \in s}
    BY <2>3
  <2> HIDE DEF ts, todo
  <2>5. /\ pvRun' = [pvRun EXCEPT ![r] = VotesBegin(m, yes, pvLeft.limit, {PV!Best(m, t) : t \in s})]
        /\ steady' = [steady EXCEPT ![r] =
             IF yes /\ pvLeft.limit = 0 THEN {f \in HeldFindings : PV!Held(f) /\ TrackOf[f] \in s} ELSE {}]
    BY <2>2, <2>3, <2>4
  <2>6. /\ m \in PilotModels /\ yes \in BOOLEAN
        /\ s = {t \in PV!Tracks : \E p \in pilots : p.track = t /\ p.model = m}
    BY <2>1, <2>3 DEF ts
  <2>7. Made(m, yes, s)
    BY <2>5, <2>6
  <2> HIDE DEF Made
  <2> QED
    BY <2>7, Zenon
<1>2. UNCHANGED <<pilots, votes, fin, pvText, rung, pvClock>>
  BY DEF PV!StartVotes
<1>3. PICK v, todo, limit : /\ v = VotesBegin(m, yes, limit, todo) /\ limit = pvLeft.limit
                            /\ todo = {PV!Best(m, t) : t \in ts}
  OBVIOUS
<1>4. /\ VotesShaped(v) /\ v.pc = "track" /\ v.model = m /\ v.yes = yes /\ v.limit = limit /\ v.todo = todo
      /\ v.page = {}
  BY <1>3, VotesStart, VotesFields
<1>5. RunSound(v)
  BY <1>4 DEF RunSound
<1>6. /\ steady' \in [VoteRuns \cup {"rung"} -> SUBSET HeldFindings]
      /\ \A c \in VoteRuns \cup {"rung"} : c # r => steady'[c] = steady[c]
      /\ \A f \in steady'[r] : f \in HeldFindings /\ yes /\ limit = 0 /\ PV!Held(f) /\ TrackOf[f] \in ts
  BY <1>1, <1>3 DEF PilotInv, TextsOK
<1>7. ASSUME NEW f \in steady'[r] PROVE Standing(v, f)
  <2> DEFINE p == PV!Best(m, TrackOf[f])
  <2>1. \E q \in pilots : q.track = TrackOf[f] /\ q.model = m
    BY <1>1, <1>6, <1>7
  <2>2. p \in pilots /\ p.track = TrackOf[f] /\ p.model = m
    BY <2>1, BestIsOne DEF PilotInv
  <2>3. p \in todo
    BY <1>3, <1>6, <1>7
  <2> HIDE DEF p
  <2>4. AheadOf(v, f)
    BY <1>4, <2>2, <2>3 DEF AheadOf
  <2> QED
    BY <1>1, <1>4, <1>6, <1>7, <2>4 DEF Standing
<1>8. pvRun' = [pvRun EXCEPT ![r] = v]
  BY <1>1, <1>3
<1> QED
  BY <1>2, <1>5, <1>6, <1>7, <1>8, RunGoes

LEMMA TrackOpened ==
  ASSUME PilotConstants, PilotInv, NEW r \in VoteRuns, PV!OpenTrack(r)
  PROVE  PilotInv'
<1>1. PICK u : u = pvRun[r]
  OBVIOUS
<1> DEFINE p == NextOf(u.todo)
<1>2. PV!Turn(r) = p
  BY <1>1 DEF PV!Turn, NextOf
<1>3. /\ u.pc = "track" /\ UNCHANGED <<pilots, votes, fin, pvText, rung, pvClock, steady>>
      /\ pvRun' = [pvRun EXCEPT ![r] =
           IF u.todo = {} \/ (u.limit > 0 /\ u.n >= u.limit) THEN VotesEnd(u)
           ELSE IF p \notin pilots THEN VotesSkip(u, u.todo \ {p})
           ELSE VotesOpen(u)]
  <2>1. /\ pvRun[r].pc = "track" /\ UNCHANGED <<pilots, votes, fin, pvText, rung, pvClock, steady>>
        /\ pvRun' = [pvRun EXCEPT ![r] =
             IF pvRun[r].todo = {} \/ (pvRun[r].limit > 0 /\ pvRun[r].n >= pvRun[r].limit) THEN VotesEnd(pvRun[r])
             ELSE IF PV!Turn(r) \notin pilots THEN VotesSkip(pvRun[r], pvRun[r].todo \ {PV!Turn(r)})
             ELSE VotesOpen(pvRun[r])]
    BY Zenon DEF PV!OpenTrack, VotesEnd, VotesSkip, VotesOpen
  <2> HIDE DEF p
  <2> QED
    BY <1>1, <1>2, <2>1
<1>4. RunSound(u) /\ (\A f \in steady[r] : Standing(u, f)) /\ u.page = {} /\ VotesShaped(u)
  BY <1>1, <1>3 DEF PilotInv, RunsOK, RunSound, RunStands
<1> HIDE DEF p
<1>5. PICK v :
        /\ pvRun' = [pvRun EXCEPT ![r] = v] /\ VotesShaped(v) /\ v.page = {}
        /\ v.model = u.model /\ v.yes = u.yes /\ v.limit = u.limit
        /\ \/ v.pc = "done" /\ (u.todo = {} \/ u.limit > 0)
           \/ v.pc = "track" /\ v.todo = u.todo \ {p} /\ p \notin pilots
           \/ v.pc = "page" /\ v.todo = u.todo /\ v.after = 0
  <2>1. CASE u.todo = {} \/ (u.limit > 0 /\ u.n >= u.limit)
    <3> DEFINE v == VotesEnd(u)
    <3>1. v = VotesRec("done", u.model, u.yes, u.limit, u.todo, u.after, u.size, u.page, u.n)
      BY <1>4, VotesAfter
    <3> HIDE DEF v
    <3>2. VotesShaped(v) /\ v.pc = "done" /\ v.page = {} /\ v.model = u.model /\ v.yes = u.yes /\ v.limit = u.limit
      BY <1>4, <3>1, VotesFields
    <3>3. pvRun' = [pvRun EXCEPT ![r] = v]
      BY <1>3, <2>1 DEF v
    <3> QED
      BY <2>1, <3>2, <3>3
  <2>2. CASE ~(u.todo = {} \/ (u.limit > 0 /\ u.n >= u.limit)) /\ p \notin pilots
    <3> DEFINE t == u.todo \ {p}
               v == VotesSkip(u, t)
    <3>1. v = VotesRec("track", u.model, u.yes, u.limit, t, u.after, u.size, u.page, u.n)
      BY <1>3, <1>4, VotesAfter
    <3>3. pvRun' = [pvRun EXCEPT ![r] = v]
      BY <1>3, <2>2
    <3> HIDE DEF v, t
    <3>2. /\ VotesShaped(v) /\ v.pc = "track" /\ v.page = {} /\ v.model = u.model /\ v.yes = u.yes /\ v.limit = u.limit
          /\ v.todo = t
      BY <1>4, <3>1, VotesFields
    <3> QED
      BY <2>2, <3>2, <3>3 DEF t
  <2>3. CASE ~(u.todo = {} \/ (u.limit > 0 /\ u.n >= u.limit)) /\ p \in pilots
    <3> DEFINE v == VotesOpen(u)
    <3>1. v = VotesRec("page", u.model, u.yes, u.limit, u.todo, 0, u.size, u.page, u.n)
      BY <1>4, VotesAfter
    <3>3. pvRun' = [pvRun EXCEPT ![r] = v]
      BY <1>3, <2>3
    <3> HIDE DEF v
    <3>2. /\ VotesShaped(v) /\ v.pc = "page" /\ v.page = {} /\ v.model = u.model /\ v.yes = u.yes /\ v.limit = u.limit
          /\ v.todo = u.todo /\ v.after = 0
      BY <1>4, <3>1, VotesFields
    <3> QED
      BY <3>2, <3>3
  <2> QED
    BY <2>1, <2>2, <2>3
<1>6. RunSound(v)
  BY <1>5 DEF RunSound
<1>7. ASSUME NEW f \in steady[r] PROVE Standing(v, f)
  <2>1. Standing(u, f) /\ u.limit = 0
    BY <1>4 DEF Standing
  <2>2. f \in Nat /\ f > 0
    BY DEF PilotConstants, PilotInv, TextsOK
  <2>3. AheadOf(u, f) => v.pc # "done" /\ AheadOf(v, f)
    <3> SUFFICES ASSUME AheadOf(u, f) PROVE v.pc # "done" /\ AheadOf(v, f)
      OBVIOUS
    <3>1. PICK q \in u.todo : q \in pilots /\ q.track = TrackOf[f] /\ q.model = u.model
      BY DEF AheadOf
    <3> QED
      BY <1>5, <2>1, <2>2, <3>1 DEF AheadOf
  <2> QED
    BY <1>5, <2>1, <2>3 DEF Standing
<1>8. steady' \in [VoteRuns \cup {"rung"} -> SUBSET HeldFindings] /\ steady' = steady
  BY <1>3 DEF PilotInv, TextsOK
<1> QED
  BY <1>3, <1>5, <1>6, <1>7, <1>8, RunGoes

LEMMA PageTaken ==
  ASSUME PilotConstants, PilotInv, NEW r \in VoteRuns, PV!ReadPage(r)
  PROVE  PilotInv'
<1>1. PICK u, p : u = pvRun[r] /\ p = NextOf(u.todo)
  OBVIOUS
<1>2. PV!Turn(r) = p
  BY <1>1 DEF PV!Turn, NextOf
<1>3. PICK size : size = IF u.limit = 0 THEN VotePage ELSE PV!Min({VotePage, u.limit - u.n})
  OBVIOUS
<1> DEFINE S == {f \in HeldFindings : f > u.after /\ TrackOf[f] = p.track /\ PV!Held(f)}
           page == PV!FirstOf(S, size)
           item == [f \in page |-> [f |-> f, sha |-> fin[f].sha, vote |-> PV!VoteOn(p, f), of |-> pvText[f]]]
           items == {item[f] : f \in page}
<1>4. items = {[f |-> f, sha |-> fin[f].sha, vote |-> PV!VoteOn(p, f), of |-> pvText[f]] : f \in page}
  OBVIOUS
<1>5. /\ u.pc = "page" /\ UNCHANGED <<pilots, votes, fin, pvText, rung, pvClock, steady>>
      /\ pvRun' = [pvRun EXCEPT ![r] =
           IF size <= 0 THEN VotesLeave(u, u.todo \ {p})
           ELSE VotesRead(u, size, u.n + PV!Cardinality(page), items)]
  <2> DEFINE q  == PV!Turn(r)
             o  == pvRun[r]
             z  == IF o.limit = 0 THEN VotePage ELSE PV!Min({VotePage, o.limit - o.n})
             pg == PV!FirstOf({f \in HeldFindings : f > o.after /\ TrackOf[f] = q.track /\ PV!Held(f)}, z)
             is == {[f |-> f, sha |-> fin[f].sha, vote |-> PV!VoteOn(q, f), of |-> pvText[f]] : f \in pg}
  <2>1. /\ o.pc = "page" /\ UNCHANGED <<pilots, votes, fin, pvText, rung, pvClock, steady>>
        /\ pvRun' = [pvRun EXCEPT ![r] =
             IF z <= 0 THEN VotesLeave(o, o.todo \ {q}) ELSE VotesRead(o, z, o.n + PV!Cardinality(pg), is)]
    BY Zenon DEF PV!ReadPage, VotesLeave, VotesRead
  <2>2. q = p /\ o = u
    BY <1>1, <1>2
  <2> HIDE DEF q, o
  <2>3. z = size
    BY <1>3, <2>2
  <2> HIDE DEF z
  <2>4. pg = page
    BY <2>2, <2>3
  <2> HIDE DEF pg, page, item
  <2>5. is = items
    BY <1>4, <2>2, <2>4
  <2> HIDE DEF is, items
  <2> QED
    BY <2>1, <2>2, <2>3, <2>4, <2>5
<1>6. RunSound(u) /\ (\A f \in steady[r] : Standing(u, f)) /\ u.page = {} /\ VotesShaped(u)
  BY <1>1, <1>5 DEF PilotInv, RunsOK, RunSound, RunStands
<1>7. S \in SUBSET Nat /\ page \subseteq S
  BY DEF PilotConstants, PV!FirstOf
<1>8. /\ \A x \in items : /\ x.f \in S /\ x.f \in page /\ x.sha = fin[x.f].sha
                          /\ x.vote = "unmappable" \/ x.sha = x.of
      /\ \A x, y \in items : x.f = y.f => x = y
      /\ \A f \in page : item[f] \in items /\ item[f].f = f
  <2>1. \A f \in page : item[f].f = f /\ item[f].sha = fin[f].sha /\ item[f].vote = PV!VoteOn(p, f) /\ item[f].of = pvText[f]
    <3> HIDE DEF page
    <3> QED
      OBVIOUS
  <2>2. \A f \in page : item[f].vote = "unmappable" \/ item[f].sha = item[f].of
    <3> HIDE DEF page, item
    <3> QED
      BY <2>1 DEF PV!VoteOn
  <2> HIDE DEF page, item, S
  <2>3. ASSUME NEW x \in items
        PROVE  /\ x.f \in S /\ x.f \in page /\ x = item[x.f] /\ x.sha = fin[x.f].sha
               /\ x.vote = "unmappable" \/ x.sha = x.of
    <3>1. PICK f \in page : x = item[f]
      BY <2>3
    <3>2. x.f = f
      BY <2>1, <3>1
    <3> QED
      BY <1>7, <2>1, <2>2, <3>1, <3>2
  <2>4. \A f \in page : item[f] \in items
    OBVIOUS
  <2> HIDE DEF items
  <2> QED
    BY <2>1, <2>3, <2>4
<1>9. item \in [page -> items]
  <2> HIDE DEF page
  <2> QED
    OBVIOUS
<1> DEFINE n == u.n + PV!Cardinality(page)
<1> HIDE DEF page, items, item, n
<1>10. CASE size <= 0
  <2> DEFINE t == u.todo \ {p}
             v == VotesLeave(u, t)
  <2>1. v = VotesRec("track", u.model, u.yes, u.limit, t, u.after, u.size, u.page, u.n)
    BY <1>6, VotesAfter
  <2>2. pvRun' = [pvRun EXCEPT ![r] = v]
    BY <1>5, <1>10
  <2> HIDE DEF v, t
  <2>3. VotesShaped(v) /\ v.page = {}
    BY <1>6, <2>1, VotesFields
  <2>4. RunSound(v)
    BY <2>3 DEF RunSound
  <2>5. \A f \in steady[r] : FALSE
    <3>1. u.limit = 0 => size = VotePage /\ VotePage > 0
      BY <1>3 DEF PilotConstants
    <3> QED
      BY <1>6, <1>10, <3>1 DEF Standing, PilotConstants
  <2>6. steady' \in [VoteRuns \cup {"rung"} -> SUBSET HeldFindings] /\ steady' = steady
    BY <1>5 DEF PilotInv, TextsOK
  <2> QED
    BY <1>5, <2>2, <2>4, <2>5, <2>6, RunGoes
<1>11. CASE ~(size <= 0)
  <2> DEFINE v == VotesRead(u, size, n, items)
  <2>1. v = VotesRec("write", u.model, u.yes, u.limit, u.todo, u.after, size, items, n)
    BY <1>6, VotesAfter
  <2>2. pvRun' = [pvRun EXCEPT ![r] = v]
    BY <1>5, <1>11 DEF n
  <2> HIDE DEF v
  <2>3. /\ VotesShaped(v) /\ v.pc = "write" /\ v.model = u.model /\ v.yes = u.yes /\ v.limit = u.limit
        /\ v.todo = u.todo /\ v.size = size /\ v.page = items
    BY <2>1, VotesFields
  <2>4. RunSound(v)
    <3>1. \A x \in items : x.f \in HeldFindings /\ TrackOf[x.f] = NextOf(u.todo).track
      BY <1>1, <1>8
    <3> QED
      BY <1>8, <2>3, <3>1 DEF RunSound
  <2>5. ASSUME NEW f \in steady[r] PROVE Standing(v, f)
    <3>1. Standing(u, f) /\ u.limit = 0 /\ f \in HeldFindings /\ PV!Held(f) /\ f \in Nat
      BY <1>6 DEF Standing, PilotInv, TextsOK, PilotConstants
    <3>2. size \in Nat \ {0}
      BY <1>3, <3>1 DEF PilotConstants
    <3>3. AheadOf(u, f) => AheadOf(v, f)
      <4> SUFFICES ASSUME AheadOf(u, f) PROVE AheadOf(v, f)
        OBVIOUS
      <4>1. PICK q \in u.todo : /\ q \in pilots /\ q.track = TrackOf[f] /\ q.model = u.model
                                /\ q # p \/ f > u.after
        BY <1>1, <1>5 DEF AheadOf
      <4>2. CASE q # p
        BY <1>1, <2>3, <4>1, <4>2 DEF AheadOf
      <4>3. CASE q = p
        <5>1. f \in S
          BY <3>1, <4>1, <4>3
        <5>2. CASE f \in page
          <6>1. \E x \in v.page : x.f = f
            BY <1>8, <2>3, <5>2
          <6> QED
            BY <2>3, <4>1, <6>1 DEF AheadOf
        <5>3. CASE f \notin page
          <6> HIDE DEF S
          <6>1. /\ page # {} /\ (\A g \in page : g < f) /\ IsFiniteSet(page) /\ Cardinality(page) >= size
            BY <1>7, <3>2, <5>1, <5>3, PageOfKeyset DEF page
          <6>2. /\ Cardinality(page) <= Cardinality(items) /\ Cardinality(page) \in Nat /\ Cardinality(items) \in Nat
            <7>1. items = {item[g] : g \in page}
              BY DEF items
            <7>2. PICK at, held, its : at = item /\ held = page /\ its = items
              OBVIOUS
            <7>3. /\ IsFiniteSet(held) /\ at \in [held -> its] /\ its = {at[g] : g \in held}
                  /\ \A g \in held : at[g].f = g
              BY <1>8, <1>9, <6>1, <7>1, <7>2
            <7>4. Cardinality(held) <= Cardinality(its) /\ Cardinality(held) \in Nat /\ Cardinality(its) \in Nat
              BY <7>3, PageKept
            <7> QED
              BY <7>2, <7>4
          <6>3. ~(Cardinality(items) < size)
            BY <3>2, <6>1, <6>2
          <6>4. items # {} /\ \A x \in items : x.f < f
            BY <1>8, <6>1
          <6> QED
            BY <2>3, <4>1, <6>3, <6>4 DEF AheadOf
        <5> QED
          BY <5>2, <5>3
      <4> QED
        BY <4>2, <4>3
    <3>4. \A x \in v.page : x.f = f => x.sha = fin[f].sha
      BY <1>8, <2>3
    <3> QED
      BY <1>5, <2>3, <3>1, <3>3, <3>4 DEF Standing
  <2>6. steady' \in [VoteRuns \cup {"rung"} -> SUBSET HeldFindings] /\ steady' = steady
    BY <1>5 DEF PilotInv, TextsOK
  <2> QED
    BY <1>5, <2>2, <2>4, <2>5, <2>6, RunGoes
<1> QED
  BY <1>10, <1>11

\* What a page of votes does to findings: those it read as they are now keep
\* their votes on the recorded text.
LEMMA VotesPut ==
  ASSUME PilotInv, NEW page, NEW p \in pilots, NEW put,
         \A x \in page : /\ x.f \in HeldFindings /\ TrackOf[x.f] = p.track
                         /\ x.vote = "unmappable" \/ x.sha = x.of,
         \A x, y \in page : x.f = y.f => x = y,
         put = [k \in {<<x.f, p.id>> : x \in page} |->
                  LET x == CHOOSE x \in page : x.f = k[1]
                  IN [sha |-> x.sha, vote |-> x.vote, of |-> x.of, at |-> pvClock + 1]],
         pilots' = pilots, fin' = fin, pvText' = pvText, pvClock' = pvClock + 1, votes' = PV!Upsert(votes, put)
  PROVE  /\ PilotsOK' /\ VotesOK'
         /\ \A x \in page : <<x.f, p.id>> \in DOMAIN votes' /\ votes'[<<x.f, p.id>>].sha = x.sha
         /\ \A f : (\A x \in page : x.f = f => x.sha = fin[f].sha) => KeptFor(f)
         /\ \A f : (\A x \in page : x.f # f) => SameFor(f)
<1>1. /\ DOMAIN put = {<<x.f, p.id>> : x \in page}
      /\ \A x \in page : put[<<x.f, p.id>>] = [sha |-> x.sha, vote |-> x.vote, of |-> x.of, at |-> pvClock + 1]
  <2>1. ASSUME NEW x \in page PROVE (CHOOSE y \in page : y.f = x.f) = x
    OBVIOUS
  <2>2. ASSUME NEW x \in page
        PROVE  put[<<x.f, p.id>>] = [sha |-> x.sha, vote |-> x.vote, of |-> x.of, at |-> pvClock + 1]
    <3> DEFINE k == <<x.f, p.id>>
    <3>1. k[1] = x.f /\ k \in {<<y.f, p.id>> : y \in page}
      OBVIOUS
    <3> HIDE DEF k
    <3>2. (CHOOSE y \in page : y.f = k[1]) = x
      BY <2>1, <3>1
    <3>3. put[k] = [sha |-> x.sha, vote |-> x.vote, of |-> x.of, at |-> pvClock + 1]
      BY <3>1, <3>2
    <3> QED
      BY <3>3 DEF k
  <2> QED
    BY <2>2
<1>2. /\ DOMAIN votes' = DOMAIN put \cup DOMAIN votes
      /\ \A k \in DOMAIN votes' : votes'[k] = IF k \in DOMAIN put THEN put[k] ELSE votes[k]
  BY <1>1 DEF PV!Upsert
<1>3. /\ p.id \in Nat /\ pvClock \in Nat /\ pvClock' \in Nat /\ pvClock <= pvClock' /\ pvClock' <= pvClock'
      /\ \A q \in pilots : q.id \in Nat /\ q.id <= pvClock
  BY DEF PilotInv, PilotsOK
<1>4. PilotsOK'
  BY <1>3 DEF PilotInv, PilotsOK
<1>5. ASSUME NEW k \in DOMAIN votes'
      PROVE  /\ k \in HeldFindings \X Nat
             /\ \E q \in pilots' : q.id = k[2] /\ q.track = TrackOf[k[1]]
             /\ votes'[k].at \in Nat /\ votes'[k].at <= pvClock'
             /\ votes'[k].vote = "unmappable" \/ votes'[k].sha = votes'[k].of
  <2>1. CASE k \in DOMAIN put
    <3>1. PICK x \in page : k = <<x.f, p.id>>
      BY <1>1, <2>1
    <3>2. votes'[k] = [sha |-> x.sha, vote |-> x.vote, of |-> x.of, at |-> pvClock + 1]
      <4>1. votes'[k] = put[k]
        BY <1>2, <2>1
      <4> QED
        BY <1>1, <3>1, <4>1
    <3>3. votes'[k].at = pvClock' /\ votes'[k].vote = x.vote /\ votes'[k].sha = x.sha /\ votes'[k].of = x.of
      BY <3>2
    <3>4. k \in HeldFindings \X Nat /\ k[1] = x.f /\ k[2] = p.id
      BY <1>3, <3>1
    <3> QED
      BY <1>3, <3>3, <3>4
  <2>2. CASE k \notin DOMAIN put
    <3>1. k \in DOMAIN votes /\ votes'[k] = votes[k]
      BY <1>2, <2>2
    <3>2. /\ k \in HeldFindings \X Nat
          /\ \E q \in pilots : q.id = k[2] /\ q.track = TrackOf[k[1]]
          /\ votes[k].at \in Nat /\ votes[k].at <= pvClock
          /\ votes[k].vote = "unmappable" \/ votes[k].sha = votes[k].of
      BY <3>1 DEF PilotInv, VotesOK
    <3>3. votes[k].at <= pvClock'
      BY <1>3, <3>2
    <3>4. \E q \in pilots' : q.id = k[2] /\ q.track = TrackOf[k[1]]
      BY <3>2
    <3>5. votes[k].at \in Nat /\ (votes[k].vote = "unmappable" \/ votes[k].sha = votes[k].of) /\ k \in HeldFindings \X Nat
      BY <3>2
    <3> QED
      BY <3>1, <3>3, <3>4, <3>5
  <2> QED
    BY <2>1, <2>2
<1>6. VotesOK'
  BY <1>5 DEF VotesOK
<1>7. ASSUME NEW x \in page PROVE <<x.f, p.id>> \in DOMAIN votes' /\ votes'[<<x.f, p.id>>].sha = x.sha
  <2> DEFINE k == <<x.f, p.id>>
  <2>1. k \in DOMAIN put /\ put[k] = [sha |-> x.sha, vote |-> x.vote, of |-> x.of, at |-> pvClock + 1]
    BY <1>1
  <2> HIDE DEF k
  <2>2. k \in DOMAIN votes' /\ votes'[k] = put[k]
    BY <1>2, <2>1
  <2>3. votes'[k].sha = x.sha
    BY <2>1, <2>2
  <2> QED
    BY <2>2, <2>3 DEF k
<1>8. ASSUME NEW f, \A x \in page : x.f = f => x.sha = fin[f].sha PROVE KeptFor(f)
  <2>1. ASSUME NEW k, k[1] = f, k \in DOMAIN votes, votes[k].sha = fin[f].sha
        PROVE  k \in DOMAIN votes' /\ votes'[k].sha = fin[f].sha
    <3>1. CASE k \in DOMAIN put
      <4>1. PICK x \in page : k = <<x.f, p.id>>
        BY <1>1, <3>1
      <4>2. x.f = f
        BY <2>1, <4>1
      <4> QED
        BY <1>7, <1>8, <4>1, <4>2
    <3>2. CASE k \notin DOMAIN put
      BY <1>2, <2>1, <3>2
    <3> QED
      BY <3>1, <3>2
  <2> QED
    BY <2>1 DEF KeptFor
<1>9. ASSUME NEW f, \A x \in page : x.f # f PROVE SameFor(f)
  <2>1. ASSUME NEW k, k[1] = f PROVE k \notin DOMAIN put
    <3> SUFFICES ASSUME k \in DOMAIN put PROVE FALSE
      OBVIOUS
    <3>1. PICK x \in page : k = <<x.f, p.id>>
      BY <1>1
    <3> QED
      BY <1>9, <2>1, <3>1
  <2> QED
    BY <1>2, <2>1 DEF SameFor
<1> QED
  BY <1>4, <1>6, <1>7, <1>8, <1>9

LEMMA PageWritten ==
  ASSUME PilotConstants, PilotInv, NEW r \in VoteRuns, PV!WritePage(r)
  PROVE  PilotInv'
<1>1. PICK u, p, page : u = pvRun[r] /\ p = NextOf(u.todo) /\ page = u.page
  OBVIOUS
<1>2. PV!Turn(r) = p
  BY <1>1 DEF PV!Turn, NextOf
<1> DEFINE writes == u.yes /\ page # {}
           fails  == writes /\ p \notin pilots
           stale  == {x \in page : x.sha # fin[x.f].sha}
           put    == [k \in {<<x.f, p.id>> : x \in page} |->
                        LET x == CHOOSE x \in page : x.f = k[1]
                        IN [sha |-> x.sha, vote |-> x.vote, of |-> x.of, at |-> pvClock + 1]]
           t      == u.todo \ {p}
           top    == PV!Max({x.f : x \in page})
<1>3. /\ u.pc = "write" /\ UNCHANGED <<pilots, fin, pvText, rung>>
      /\ pvRun' = [pvRun EXCEPT ![r] = IF fails THEN VotesFail
                     ELSE IF PV!Cardinality(page) < u.size THEN VotesClose(u, t) ELSE VotesTurn(u, top)]
      /\ votes' = IF writes /\ ~fails THEN PV!Upsert(votes, put) ELSE votes
      /\ pvClock' = IF writes /\ ~fails THEN pvClock + 1 ELSE pvClock
      /\ steady' = [c \in DOMAIN steady |->
           IF ~writes \/ fails \/ c = r THEN steady[c]
           ELSE steady[c] \ {x.f : x \in IF c = "rung" THEN page ELSE stale}]
  <2> DEFINE q   == PV!Turn(r)
             o   == pvRun[r]
             pg  == o.page
             ws  == o.yes /\ pg # {}
             fl  == ws /\ q \notin pilots
             st  == {x \in pg : x.sha # fin[x.f].sha}
             pt  == [k \in {<<x.f, q.id>> : x \in pg} |->
                       LET x == CHOOSE x \in pg : x.f = k[1]
                       IN [sha |-> x.sha, vote |-> x.vote, of |-> x.of, at |-> pvClock + 1]]
  <2>1. /\ o.pc = "write" /\ UNCHANGED <<pilots, fin, pvText, rung>>
        /\ pvRun' = [pvRun EXCEPT ![r] = IF fl THEN VotesFail
                       ELSE IF PV!Cardinality(pg) < o.size THEN VotesClose(o, o.todo \ {q})
                       ELSE VotesTurn(o, PV!Max({x.f : x \in pg}))]
        /\ votes' = IF ws /\ ~fl THEN PV!Upsert(votes, pt) ELSE votes
        /\ pvClock' = IF ws /\ ~fl THEN pvClock + 1 ELSE pvClock
        /\ steady' = [c \in DOMAIN steady |->
             IF ~ws \/ fl \/ c = r THEN steady[c]
             ELSE steady[c] \ {x.f : x \in IF c = "rung" THEN pg ELSE st}]
    BY Zenon DEF PV!WritePage, VotesFail, VotesClose, VotesTurn
  <2>2. q = p /\ o = u /\ pg = page
    BY <1>1, <1>2
  <2> HIDE DEF q, o, pg
  <2>3. (ws <=> writes) /\ (fl <=> fails)
    BY <2>2
  <2>4. st = stale
    BY <2>2
  <2>5. pt = put
    BY <2>2
  <2>6. top = PV!Max({x.f : x \in pg}) /\ t = o.todo \ {q}
    BY <2>2
  <2> HIDE DEF ws, fl, st, pt, put, stale, top, t, writes, fails
  <2> QED
    BY <2>1, <2>2, <2>3, <2>4, <2>5, <2>6
<1>4. /\ RunSound(u) /\ (\A f \in steady[r] : Standing(u, f)) /\ VotesShaped(u)
      /\ \A x \in page : /\ x.f \in HeldFindings /\ TrackOf[x.f] = p.track
                         /\ x.vote = "unmappable" \/ x.sha = x.of
      /\ \A x, y \in page : x.f = y.f => x = y
  BY <1>1, <1>3 DEF PilotInv, RunsOK, RunSound, RunStands
<1> HIDE DEF put, stale, t, top
<1>5. /\ steady \in [VoteRuns \cup {"rung"} -> SUBSET HeldFindings]
      /\ steady' \in [VoteRuns \cup {"rung"} -> SUBSET HeldFindings]
      /\ \A c \in VoteRuns \cup {"rung"} : steady'[c] \subseteq steady[c] /\ steady[c] \subseteq HeldFindings
  BY <1>3 DEF PilotInv, TextsOK
<1>6. /\ PilotsOK' /\ VotesOK'
      /\ writes /\ ~fails => \A x \in page : <<x.f, p.id>> \in DOMAIN votes' /\ votes'[<<x.f, p.id>>].sha = x.sha
      /\ \A c \in VoteRuns : \A f \in steady'[c] : KeptFor(f)
      /\ \A f \in steady'["rung"] : SameFor(f)
  <2>1. CASE writes /\ ~fails
    <3>1. p \in pilots /\ votes' = PV!Upsert(votes, put) /\ pvClock' = pvClock + 1
      BY <1>3, <2>1
    <3>2. /\ PilotsOK' /\ VotesOK'
          /\ \A x \in page : <<x.f, p.id>> \in DOMAIN votes' /\ votes'[<<x.f, p.id>>].sha = x.sha
          /\ \A f : (\A x \in page : x.f = f => x.sha = fin[f].sha) => KeptFor(f)
          /\ \A f : (\A x \in page : x.f # f) => SameFor(f)
      BY <1>3, <1>4, <3>1, VotesPut DEF put
    <3>3. ASSUME NEW c \in VoteRuns, NEW f \in steady'[c], NEW x \in page, x.f = f PROVE x.sha = fin[f].sha
      <4>1. CASE c = r
        BY <1>1, <1>4, <1>5, <3>3, <4>1 DEF Standing
      <4>2. CASE c # r
        <5>1. c # "rung" /\ c \in DOMAIN steady
          BY <1>5 DEF PilotConstants
        <5>2. steady'[c] = steady[c] \ {y.f : y \in stale}
          BY <1>3, <2>1, <4>2, <5>1
        <5> QED
          BY <3>3, <5>2 DEF stale
      <4> QED
        BY <4>1, <4>2
    <3>4. ASSUME NEW f \in steady'["rung"], NEW x \in page PROVE x.f # f
      <4>1. "rung" # r /\ "rung" \in DOMAIN steady
        BY <1>5 DEF PilotConstants
      <4>2. steady'["rung"] = steady["rung"] \ {y.f : y \in page}
        BY <1>3, <2>1, <4>1
      <4> QED
        BY <3>4, <4>2
    <3> QED
      BY <3>2, <3>3, <3>4
  <2>2. CASE ~(writes /\ ~fails)
    <3>1. votes' = votes /\ pvClock' = pvClock /\ UNCHANGED <<pilots, fin, pvText>>
      BY <1>3, <2>2
    <3>2. PilotsOK' /\ VotesOK'
      BY <3>1, VotesStay DEF PilotInv
    <3>3. \A f : SameFor(f) /\ KeptFor(f)
      BY <3>1 DEF SameFor, KeptFor
    <3> QED
      BY <2>2, <3>2, <3>3
  <2> QED
    BY <2>1, <2>2
<1>7. TextsOK' /\ TextsGrow
  <2>1. \A f \in HeldFindings : pvText[f] \in Nat /\ pvText[f] <= pvText[f] /\ fin[f].sha \in Nat
    BY DEF PilotInv, TextsOK
  <2> QED
    BY <1>3, <1>5, <2>1 DEF PilotInv, TextsOK, TextsGrow
<1>8. PICK v :
        /\ pvRun' = [pvRun EXCEPT ![r] = v] /\ VotesShaped(v) /\ v.page = {} /\ v.pc # "write"
        /\ \/ fails /\ v.pc = "failed"
           \/ /\ ~fails /\ v.model = u.model /\ v.yes = u.yes /\ v.limit = u.limit
              /\ \/ v.pc = "track" /\ v.todo = t /\ Cardinality(page) < u.size
                 \/ v.pc = "page" /\ v.todo = u.todo /\ v.after = top /\ ~(Cardinality(page) < u.size)
  <2>0. PV!Cardinality(page) = Cardinality(page)
    BY PilotCount
  <2>1. CASE fails
    <3> DEFINE v == VotesFail
    <3>2. pvRun' = [pvRun EXCEPT ![r] = v]
      BY <1>3, <2>1
    <3> HIDE DEF v
    <3>3. VotesShaped(v) /\ v.pc = "failed" /\ v.page = {}
      BY VotesStart DEF v
    <3> QED
      BY <2>1, <3>2, <3>3
  <2>2. CASE ~fails /\ Cardinality(page) < u.size
    <3> DEFINE v == VotesClose(u, t)
    <3>1. v = VotesRec("track", u.model, u.yes, u.limit, t, u.after, u.size, {}, u.n)
      BY <1>4, VotesAfter
    <3>2. pvRun' = [pvRun EXCEPT ![r] = v]
      BY <1>3, <2>0, <2>2
    <3> HIDE DEF v
    <3>3. /\ VotesShaped(v) /\ v.pc = "track" /\ v.page = {} /\ v.model = u.model /\ v.yes = u.yes
          /\ v.limit = u.limit /\ v.todo = t
      BY <3>1, VotesFields
    <3> QED
      BY <2>2, <3>2, <3>3
  <2>3. CASE ~fails /\ ~(Cardinality(page) < u.size)
    <3> DEFINE v == VotesTurn(u, top)
    <3>1. v = VotesRec("page", u.model, u.yes, u.limit, u.todo, top, u.size, {}, u.n)
      BY <1>4, VotesAfter
    <3>2. pvRun' = [pvRun EXCEPT ![r] = v]
      BY <1>3, <2>0, <2>3
    <3> HIDE DEF v
    <3>3. /\ VotesShaped(v) /\ v.pc = "page" /\ v.page = {} /\ v.model = u.model /\ v.yes = u.yes
          /\ v.limit = u.limit /\ v.todo = u.todo /\ v.after = top
      BY <3>1, VotesFields
    <3> QED
      BY <2>3, <3>2, <3>3
  <2> QED
    BY <2>1, <2>2, <2>3
<1>9. ASSUME NEW f \in steady'[r], v.pc \in {"track", "page", "done"} PROVE Standing(v, f)'
  <2>1. /\ Standing(u, f) /\ KeptFor(f) /\ f \in HeldFindings /\ f \in Nat
        /\ v.model = u.model /\ v.yes = u.yes /\ v.limit = u.limit /\ v.pc # "done"
    BY <1>4, <1>5, <1>6, <1>8, <1>9 DEF PilotConstants
  <2>2. /\ u.yes /\ u.limit = 0 /\ u.model \in PilotModels /\ PV!Held(f)
        /\ \A x \in page : x.f = f => x.sha = fin[f].sha
    BY <1>1, <2>1 DEF Standing
  <2>3. PV!Held(f)'
    BY <2>1, <2>2 DEF KeptFor, PV!Held, PV!Latest
  <2>4. CASE HasVoted(f, u.model)
    <3>1. HasVoted(f, u.model)'
      <4>1. ASSUME NEW m, HasVoted(f, m) PROVE HasVoted(f, m)'
        BY <2>1, <4>1, HasVotedKept
      <4> QED
        BY <2>4, <4>1
    <3> QED
      BY <1>8, <2>1, <2>2, <2>3, <3>1 DEF Standing
  <2>5. CASE AheadOf(u, f)
    <3>1. PICK q \in u.todo :
            /\ q \in pilots /\ q.track = TrackOf[f] /\ q.model = u.model
            /\ \/ q # p
               \/ \E x \in page : x.f = f
               \/ ~(Cardinality(page) < u.size) /\ page # {} /\ \A x \in page : x.f < f
      BY <1>1, <1>3, <2>5 DEF AheadOf
    <3>2. CASE q # p
      <4>1. q \in pilots' /\ q \in v.todo /\ (v.pc = "page" => q # NextOf(v.todo))
        BY <1>1, <1>3, <1>8, <1>9, <3>1, <3>2 DEF t
      <4>2. AheadOf(v, f)'
        BY <1>8, <1>9, <2>1, <3>1, <4>1 DEF AheadOf
      <4> QED
        BY <1>8, <2>1, <2>2, <2>3, <4>2 DEF Standing
    <3>3. CASE q = p /\ \E x \in page : x.f = f
      <4>1. PICK x \in page : x.f = f
        BY <3>3
      <4>2. writes /\ ~fails
        BY <1>8, <1>9, <2>2, <4>1
      <4>3. <<f, p.id>> \in DOMAIN votes' /\ votes'[<<f, p.id>>].sha = fin'[f].sha
        BY <1>3, <1>6, <2>2, <4>1, <4>2
      <4>4. p \in pilots' /\ p.track = TrackOf[f] /\ p.model = u.model
        BY <1>3, <3>1, <3>3
      <4>5. HasVoted(f, v.model)'
        BY <2>1, <2>2, <4>3, <4>4 DEF HasVoted
      <4> QED
        BY <1>8, <2>1, <2>2, <2>3, <4>5 DEF Standing
    <3>4. CASE q = p /\ ~(Cardinality(page) < u.size) /\ page # {} /\ \A x \in page : x.f < f
      <4> DEFINE F == {x.f : x \in page}
      <4>1. F \in SUBSET Nat /\ F # {} /\ \A n \in F : n < f
        <5>1. \A x \in page : x.f \in Nat /\ x.f < f
          BY <1>4, <3>4 DEF PilotConstants
        <5>2. \E x \in page : x.f \in F
          BY <3>4
        <5> QED
          BY <5>1, <5>2
      <4>2. top \in F
        <5> HIDE DEF F
        <5>1. PV!Max(F) \in F
          BY <2>1, <4>1, TopOf
        <5> QED
          BY <5>1 DEF top, F
      <4>3. f > top
        <5>1. top \in Nat /\ top < f
          BY <4>1, <4>2
        <5> QED
          BY <2>1, <5>1
      <4>4. AheadOf(v, f)'
        BY <1>3, <1>8, <1>9, <2>1, <3>1, <3>4, <4>3 DEF AheadOf
      <4> QED
        BY <1>8, <2>1, <2>2, <2>3, <4>4 DEF Standing
    <3> QED
      BY <3>1, <3>2, <3>3, <3>4
  <2> QED
    BY <2>1, <2>4, <2>5 DEF Standing
<1>10. RunSound(v)
  BY <1>8 DEF RunSound
<1>11. ASSUME NEW q \in VoteRuns, NEW w, w = pvRun'[q] PROVE RunSound(w)' /\ RunStands(w, q)'
  <2>1. CASE q = r
    <3>1. w = v
      BY <1>8, <1>11, <2>1 DEF PilotInv, RunsOK
    <3> QED
      BY <1>8, <1>9, <1>10, <2>1, <3>1 DEF RunSound, VotesShaped, RunStands
  <2>2. CASE q # r
    <3>1. w = pvRun[q]
      BY <1>8, <1>11, <2>2 DEF PilotInv, RunsOK
    <3>2. RunSound(w) /\ RunStands(w, q)
      BY <3>1 DEF PilotInv, RunsOK
    <3>3. RunStands(w, q)'
      BY <1>5, <1>6, <3>2, RunKept
    <3> QED
      BY <3>2, <3>3 DEF RunSound, VotesShaped
  <2> QED
    BY <2>1, <2>2
<1>12. pvRun' = [q \in VoteRuns |-> pvRun'[q]]
  BY <1>8 DEF PilotInv, RunsOK
<1>13. RunsOK'
  BY <1>11, <1>12 DEF RunsOK
<1>14. ASSUME NEW g, g = rung' PROVE RungSound(g)' /\ RungStands(g)'
  <2>1. RungSound(g) /\ RungStands(g)
    BY <1>3, <1>14 DEF PilotInv, RungOK
  <2> QED
    BY <1>5, <1>6, <1>7, <2>1, ItemsKept, RungKept DEF PilotInv
<1>15. RungOK'
  BY <1>14 DEF RungOK
<1> QED
  BY <1>6, <1>7, <1>13, <1>15 DEF PilotInv

-----------------------------------------------------------------------------
(* The audio-vote command moves.                                           *)

\* It reads.
LEMMA RungGoes ==
  ASSUME PilotConstants, PilotInv, UNCHANGED <<pilots, votes, fin, pvText, pvRun, pvClock>>,
         NEW g, rung' = g, RungSound(g),
         steady' \in [VoteRuns \cup {"rung"} -> SUBSET HeldFindings],
         \A c \in VoteRuns : steady'[c] = steady[c],
         g.pc # "idle" => \A f \in steady'["rung"] : RungDue(g, f)
  PROVE  PilotInv'
<1>1. \A f : SameFor(f) /\ KeptFor(f)
  BY DEF SameFor, KeptFor
<1>2. PilotsOK' /\ VotesOK'
  BY VotesStay DEF PilotInv
<1>3. TextsOK' /\ TextsGrow
  <2>1. \A f \in HeldFindings : pvText[f] \in Nat /\ pvText[f] <= pvText[f] /\ fin[f].sha \in Nat
    BY DEF PilotInv, TextsOK
  <2> QED
    BY <2>1 DEF PilotInv, TextsOK, TextsGrow
<1>4. ASSUME NEW q \in VoteRuns, NEW w, w = pvRun'[q] PROVE RunSound(w)' /\ RunStands(w, q)'
  <2>1. RunSound(w) /\ RunStands(w, q)
    BY <1>4 DEF PilotInv, RunsOK
  <2>2. RunStands(w, q)'
    BY <1>1, <2>1, RunKept
  <2> QED
    BY <2>1, <2>2 DEF RunSound, VotesShaped
<1>5. RunsOK'
  BY <1>4 DEF RunsOK, PilotInv
<1>6. ASSUME g.pc # "idle", NEW f \in steady'["rung"] PROVE RungDue(g, f)'
  <2>1. RungDue(g, f) /\ f \in HeldFindings
    BY <1>6
  <2>2. /\ PV!Held(f)' = PV!Held(f) /\ PV!Latest(f)' = PV!Latest(f)
        /\ PV!Counted(f)' = PV!Counted(f) /\ Agreed(f)' = Agreed(f)
    BY <1>1, <1>2, <2>1, SameSeen DEF PilotInv
  <2>3. AheadOfRung(g, f) => AheadOfRung(g, f)'
    BY <2>2 DEF AheadOfRung
  <2> QED
    BY <2>1, <2>2, <2>3 DEF RungDue
<1>7. RungSound(g)'
  BY <1>3, ItemsKept
<1>8. RungStands(g)'
  BY <1>6 DEF RungStands
<1>9. RungOK'
  BY <1>7, <1>8 DEF RungOK
<1> QED
  BY <1>2, <1>3, <1>5, <1>9 DEF PilotInv

LEMMA RungBegun ==
  ASSUME PilotConstants, PilotInv, PV!StartRung
  PROVE  PilotInv'
<1>1. PICK yes, limit : yes = pvLeft.yes /\ limit = pvLeft.limit
  OBVIOUS
<1>2. PICK g : g = RungBegin(yes, limit)
  OBVIOUS
<1>3. /\ UNCHANGED <<pilots, votes, fin, pvText, pvRun, pvClock>> /\ rung' = g
      /\ steady' = [steady EXCEPT !["rung"] = IF yes /\ limit = 0 THEN PV!Work ELSE {}]
  BY <1>1, <1>2 DEF PV!StartRung, RungBegin
<1>4. /\ RungShaped(g) /\ g.pc = "work" /\ g.yes = yes /\ g.limit = limit /\ g.after = 0
      /\ g.page = {} /\ g.read = {} /\ g.wrote = {}
  BY <1>2, RungStart, RungFields
<1>5. RungSound(g)
  BY <1>4 DEF RungSound
<1>6. PV!Work \subseteq HeldFindings
  BY DEF PV!Work
<1>7. /\ steady' \in [VoteRuns \cup {"rung"} -> SUBSET HeldFindings]
      /\ \A c \in VoteRuns : steady'[c] = steady[c]
      /\ \A f \in steady'["rung"] : yes /\ limit = 0 /\ f \in PV!Work
  <2>1. steady \in [VoteRuns \cup {"rung"} -> SUBSET HeldFindings] /\ "rung" \notin VoteRuns
    BY DEF PilotConstants, PilotInv, TextsOK
  <2> QED
    BY <1>3, <1>6, <2>1
<1>8. ASSUME NEW f \in steady'["rung"] PROVE RungDue(g, f)
  <2>1. yes /\ limit = 0 /\ PV!Counted(f) # {} /\ f \in HeldFindings
    BY <1>7 DEF PV!Work
  <2>2. f > 0
    BY <2>1 DEF PilotConstants
  <2> QED
    BY <1>4, <2>1, <2>2 DEF RungDue, AheadOfRung
<1> QED
  BY <1>3, <1>5, <1>7, <1>8, RungGoes

LEMMA WorkRead ==
  ASSUME PilotConstants, PilotInv, PV!ReadWork
  PROVE  PilotInv'
<1>1. PICK g, size : g = rung /\ size = IF g.limit = 0 THEN VotePage ELSE PV!Min({VotePage, g.limit - g.n})
  OBVIOUS
<1> DEFINE S == {f \in PV!Work : f > g.after}
           page == PV!FirstOf(S, size)
           items == {[f |-> f, sha |-> fin[f].sha, hold |-> PV!Latest(f)] : f \in page}
           n == g.n + PV!Cardinality(page)
           top == PV!Max(page)
<1>2. /\ g.pc = "work" /\ UNCHANGED <<pilots, votes, fin, pvText, pvRun, pvClock, steady>>
      /\ rung' = IF size <= 0 \/ page = {} THEN RungEnd(g) ELSE RungPage(g, top, n, items)
  BY <1>1 DEF PV!ReadWork, PV!Pages, RungEnd, RungPage
<1>3. RungSound(g) /\ RungShaped(g) /\ \A f \in steady["rung"] : RungDue(g, f)
  BY <1>1, <1>2 DEF PilotInv, RungOK, RungSound, RungStands
<1>4. S \in SUBSET Nat /\ page \subseteq S /\ S \subseteq HeldFindings
  BY DEF PilotConstants, PV!FirstOf, PV!Work
<1>5. /\ \A i \in items : i.f \in page /\ i.sha = fin[i.f].sha /\ i.hold = PV!Latest(i.f)
      /\ \A f \in page : \E i \in items : i.f = f
  <2> HIDE DEF page
  <2>1. \A f \in page : [f |-> f, sha |-> fin[f].sha, hold |-> PV!Latest(f)] \in items
    OBVIOUS
  <2>2. ASSUME NEW i \in items PROVE i.f \in page /\ i.sha = fin[i.f].sha /\ i.hold = PV!Latest(i.f)
    <3>1. PICK f \in page : i = [f |-> f, sha |-> fin[f].sha, hold |-> PV!Latest(f)]
      BY <2>2
    <3>2. i.f = f /\ i.sha = fin[f].sha /\ i.hold = PV!Latest(f)
      BY <3>1
    <3> QED
      BY <3>2
  <2>3. ASSUME NEW f \in page PROVE \E i \in items : i.f = f
    <3> DEFINE i == [f |-> f, sha |-> fin[f].sha, hold |-> PV!Latest(f)]
    <3>1. i \in items
      BY <2>1
    <3>2. i.f = f
      OBVIOUS
    <3> QED
      BY <3>1, <3>2
  <2> QED
    BY <2>2, <2>3
<1>6. steady' = steady /\ steady \in [VoteRuns \cup {"rung"} -> SUBSET HeldFindings]
  BY <1>2 DEF PilotInv, TextsOK
<1> HIDE DEF page, items, n, top
<1>7. CASE size <= 0 \/ page = {}
  <2> DEFINE h == RungEnd(g)
  <2>1. h = RungRec("done", g.yes, g.limit, g.after, g.page, g.read, g.n, g.wrote)
    BY <1>3, RungAfter
  <2>2. rung' = h
    BY <1>2, <1>7
  <2> HIDE DEF h
  <2>3. /\ RungShaped(h) /\ h.pc = "done" /\ h.yes = g.yes /\ h.limit = g.limit /\ h.page = g.page /\ h.read = g.read
        /\ h.wrote = g.wrote
    BY <2>1, RungFields
  <2>4. RungSound(h)
    BY <1>3, <2>3 DEF RungSound
  <2>5. ASSUME NEW f \in steady["rung"] PROVE RungDue(h, f)
    <3>1. RungDue(g, f) /\ f \in HeldFindings
      BY <1>3, <1>6
    <3>2. ASSUME PV!Held(f), pvText[f] = fin[f].sha PROVE Agreed(f) = "hold"
      <4>1. Agreed(f) = "hold" \/ f > g.after
        BY <1>2, <3>1, <3>2 DEF RungDue, AheadOfRung
      <4>2. CASE f > g.after
        <5>1. f \in S
          BY <3>1, <3>2, <4>2 DEF RungDue, PV!Work
        <5>2. size \in Nat \ {0}
          BY <1>1, <3>1 DEF RungDue, PilotConstants
        <5>3. page # {}
          <6> HIDE DEF S
          <6> QED
            BY <1>4, <5>1, <5>2, PageOfKeyset DEF page
        <5> QED
          BY <1>7, <5>2, <5>3
      <4> QED
        BY <4>1, <4>2
    <3> QED
      BY <2>3, <3>1, <3>2 DEF RungDue
  <2> QED
    BY <1>2, <1>6, <2>2, <2>4, <2>5, RungGoes
<1>8. CASE ~(size <= 0 \/ page = {})
  <2> DEFINE h == RungPage(g, top, n, items)
  <2>1. h = RungRec("votes", g.yes, g.limit, top, items, g.read, n, g.wrote)
    BY <1>3, RungAfter
  <2>2. rung' = h
    BY <1>2, <1>8
  <2> HIDE DEF h
  <2>3. /\ RungShaped(h) /\ h.pc = "votes" /\ h.yes = g.yes /\ h.limit = g.limit /\ h.page = items /\ h.read = g.read
        /\ h.after = top /\ h.wrote = g.wrote
    BY <2>1, RungFields
  <2>4. RungSound(h)
    <3>1. \A i \in items : ItemOK(i)
      BY <1>4, <1>5 DEF ItemOK, PilotInv, TextsOK
    <3> QED
      BY <1>3, <2>3, <3>1 DEF RungSound
  <2>5. ASSUME NEW f \in steady["rung"] PROVE RungDue(h, f)
    <3>1. RungDue(g, f) /\ f \in HeldFindings /\ f \in Nat
      BY <1>3, <1>6 DEF PilotConstants
    <3>2. ASSUME PV!Held(f), pvText[f] = fin[f].sha, f > g.after PROVE AheadOfRung(h, f)
      <4>1. f \in S
        BY <3>1, <3>2 DEF RungDue, PV!Work
      <4>2. size \in Nat \ {0}
        BY <1>1, <3>1 DEF RungDue, PilotConstants
      <4>3. CASE f \in page
        <5>1. \E i \in items : i.f = f /\ i.sha = fin[f].sha /\ i.hold = PV!Latest(f)
          BY <1>5, <4>3
        <5> QED
          BY <2>3, <5>1 DEF AheadOfRung
      <4>4. CASE f \notin page
        <5> HIDE DEF S
        <5>1. page # {} /\ \A g2 \in page : g2 < f
          BY <1>4, <4>1, <4>2, <4>4, PageOfKeyset DEF page
        <5>2. page \in SUBSET Nat
          BY <1>4
        <5>3. top \in page
          BY <3>1, <5>1, <5>2, TopOf DEF top
        <5>4. f > top
          BY <3>1, <5>1, <5>2, <5>3
        <5> QED
          BY <2>3, <5>4 DEF AheadOfRung
      <4> QED
        BY <4>3, <4>4
    <3> QED
      BY <1>2, <2>3, <3>1, <3>2 DEF RungDue, AheadOfRung
  <2> QED
    BY <1>2, <1>6, <2>2, <2>4, <2>5, RungGoes
<1> QED
  BY <1>7, <1>8

LEMMA VotesHeard ==
  ASSUME PilotConstants, PilotInv, PV!ReadVotes
  PROVE  PilotInv'
<1>1. PICK g, pc : g = rung /\ pc = IF g.yes THEN "write" ELSE "work"
  OBVIOUS
<1> DEFINE Heard(i) == [m \in PilotModels |-> PV!Current(i.f, m)]
           Read(i)  == [f |-> i.f, sha |-> i.sha, hold |-> i.hold, heard |-> Heard(i), out |-> PV!Evaluate(i, Heard(i))]
           read     == {Read(i) : i \in g.page}
           h        == RungHeard(g, pc, read)
<1>2. g.pc = "votes" /\ UNCHANGED <<pilots, votes, fin, pvText, pvRun, pvClock, steady>> /\ rung' = h
  BY <1>1 DEF PV!ReadVotes, RungHeard
<1>3. RungSound(g) /\ RungShaped(g) /\ \A f \in steady["rung"] : RungDue(g, f)
  BY <1>1, <1>2 DEF PilotInv, RungOK, RungSound, RungStands
<1>4. ASSUME NEW i \in g.page
      PROVE  /\ Read(i).f = i.f /\ Read(i).sha = i.sha /\ Read(i).hold = i.hold
             /\ Read(i).heard = Heard(i) /\ Read(i).out = PV!Evaluate(i, Heard(i))
  <2> HIDE DEF Heard
  <2> QED
    OBVIOUS
<1>5. steady' = steady /\ steady \in [VoteRuns \cup {"rung"} -> SUBSET HeldFindings]
  BY <1>2 DEF PilotInv, TextsOK
<1>6. ASSUME NEW i \in g.page PROVE ReadOK(Read(i))
  <2>1. ItemOK(i)
    BY <1>3 DEF RungSound
  <2>2. \A m \in PilotModels : Heard(i)[m] = PV!Current(i.f, m)
    OBVIOUS
  <2> DEFINE out == PV!Evaluate(i, Heard(i))
             x   == Read(i)
  <2> HIDE DEF Heard
  <2>3. /\ out \in {"hold", "reject", "apply"}
        /\ out = "reject" => \A m \in PilotModels : Heard(i)[m].vote = "heard_original"
        /\ out = "apply" => i.hold.liftable /\ \A m \in PilotModels : Heard(i)[m].vote = "heard_replacement"
    BY EvaluateSays
  <2>4. x.f = i.f /\ x.sha = i.sha /\ x.hold = i.hold /\ x.heard = Heard(i) /\ x.out = out
    BY <1>4
  <2> HIDE DEF out, x, Read
  <2>5. ASSUME out # "hold", NEW m \in PilotModels PROVE Heard(i)[m].of = fin[i.f].sha
    <3>1. PV!Current(i.f, m).vote \in {"heard_original", "heard_replacement"}
      BY <2>2, <2>3, <2>5
    <3> QED
      BY <2>2, <3>1, HeardIsOfIt DEF PilotInv
  <2>6. ReadOK(x)
    BY <2>1, <2>3, <2>4, <2>5 DEF ReadOK, ItemOK
  <2> QED
    BY <2>6 DEF x
<1>7. ASSUME NEW f \in steady["rung"], NEW i \in g.page, i.f = f, i.hold = PV!Latest(f)
      PROVE  Read(i).out = Agreed(f)
  <2> DEFINE j == [f |-> f, hold |-> PV!Latest(f)]
  <2>1. j.f = i.f /\ j.hold = i.hold
    BY <1>7
  <2>2. Agreed(f) = PV!Evaluate(j, Heard(i))
    BY <1>7 DEF Agreed
  <2> HIDE DEF j, Heard
  <2>3. PV!Evaluate(j, Heard(i)) = PV!Evaluate(i, Heard(i))
    BY <2>1, EvaluateSame
  <2> QED
    BY <1>4, <2>2, <2>3
<1> HIDE DEF Read, Heard
<1>8. h = RungRec(pc, g.yes, g.limit, g.after, {}, read, g.n, g.wrote)
  <2> HIDE DEF read
  <2> QED
    BY <1>3, RungAfter DEF h
<1> HIDE DEF h
<1>9. /\ RungShaped(h) /\ h.pc = pc /\ h.yes = g.yes /\ h.limit = g.limit /\ h.page = {} /\ h.read = read
      /\ h.after = g.after /\ h.wrote = g.wrote
  <2> HIDE DEF read
  <2> QED
    BY <1>8, RungFields
<1>10. RungSound(h)
  BY <1>3, <1>6, <1>9 DEF RungSound
<1>11. ASSUME NEW f \in steady["rung"] PROVE RungDue(h, f)
  <2>1. RungDue(g, f)
    BY <1>3
  <2>2. AheadOfRung(g, f) => AheadOfRung(h, f)
    <3>1. h.pc = "write"
      BY <1>1, <1>9, <2>1 DEF RungDue
    <3>2. CASE f > g.after
      BY <1>9, <3>1, <3>2 DEF AheadOfRung
    <3>3. ASSUME NEW i \in g.page, i.f = f, i.sha = fin[f].sha, i.hold = PV!Latest(f) PROVE AheadOfRung(h, f)
      <4>1. Read(i) \in h.read /\ Read(i).f = f /\ Read(i).sha = fin[f].sha /\ Read(i).hold = PV!Latest(f)
        BY <1>4, <1>9, <3>3
      <4>2. Read(i).out = Agreed(f)
        BY <1>7, <3>3
      <4> QED
        BY <3>1, <4>1, <4>2 DEF AheadOfRung
    <3> QED
      BY <1>2, <3>2, <3>3 DEF AheadOfRung
  <2> QED
    BY <1>9, <2>1, <2>2 DEF RungDue
<1> HIDE DEF read
<1> QED
  BY <1>2, <1>5, <1>10, <1>11, RungGoes

LEMMA DecisionsWritten ==
  ASSUME PilotConstants, PilotInv, PV!WriteDecisions
  PROVE  PilotInv'
<1>1. PICK g : g = rung
  OBVIOUS
<1> DEFINE out == {i \in g.read : i.out # "hold" /\ PV!StillHeld(i) /\ i.sha = pvText[i.f]}
           Of(f) == CHOOSE i \in out : i.f = f
           fs == {i.f : i \in out}
           State(f) == IF Of(f).out = "apply" THEN "accepted" ELSE "rejected"
           Log(f) == Append(fin[f].log, PV!Decision(pvClock + 1, Of(f).out, FALSE, "rung"))
           Decided(f) == [fin[f] EXCEPT !.state = State(f), !.log = Log(f)]
           wrote == g.wrote \cup {[i |-> i, text |-> pvText[i.f], before |-> PV!Latest(i.f)] : i \in out}
<1>0. PICK h : h = RungWrote(g, wrote)
  OBVIOUS
<1>2. /\ g.pc = "write" /\ UNCHANGED <<pilots, votes, pvText, pvRun>> /\ pvClock' = pvClock + 1 /\ rung' = h
      /\ fin' = [f \in HeldFindings |-> IF f \notin fs THEN fin[f]
                   ELSE Decided(f)]
      /\ steady' = [c \in DOMAIN steady |-> IF c = "rung" THEN steady[c] ELSE steady[c] \ fs]
  <2> DEFINE o == {i \in rung.read : i.out # "hold" /\ PV!StillHeld(i) /\ i.sha = pvText[i.f]}
             As(f) == CHOOSE i \in o : i.f = f
             D(f) == [fin[f] EXCEPT !.state = IF As(f).out = "apply" THEN "accepted" ELSE "rejected",
                        !.log = Append(@, PV!Decision(pvClock + 1, As(f).out, FALSE, "rung"))]
  <2>1. /\ rung.pc = "write" /\ UNCHANGED <<pilots, votes, pvText, pvRun>> /\ pvClock' = pvClock + 1
        /\ rung' = RungWrote(rung, rung.wrote \cup
             {[i |-> i, text |-> pvText[i.f], before |-> PV!Latest(i.f)] : i \in o})
        /\ fin' = [f \in HeldFindings |-> IF f \notin {i.f : i \in o} THEN fin[f] ELSE D(f)]
        /\ steady' = [c \in DOMAIN steady |-> IF c = "rung" THEN steady[c] ELSE steady[c] \ {i.f : i \in o}]
    BY Zenon DEF PV!WriteDecisions, RungWrote
  <2>2. rung = g /\ o = out
    BY <1>1
  <2> HIDE DEF o, out
  <2>3. rung' = h /\ {i.f : i \in o} = fs
    BY <1>0, <2>1, <2>2
  <2>4. \A f : As(f) = Of(f)
    BY <2>2
  <2> HIDE DEF As, Of
  <2>5. \A f : D(f) = Decided(f)
    BY <2>4, Zenon
  <2> HIDE DEF fs, Decided, D
  <2> QED
    BY <2>1, <2>2, <2>3, <2>5
<1> HIDE DEF Decided
<1>3. RungSound(g) /\ RungShaped(g) /\ \A f \in steady["rung"] : RungDue(g, f)
  BY <1>1, <1>2 DEF PilotInv, RungOK, RungSound, RungStands
<1>4. \A f : State(f) \in {"accepted", "rejected"}
  OBVIOUS
<1>5. \A i \in out : /\ i \in g.read /\ i.out # "hold" /\ i.sha = pvText[i.f]
                     /\ fin[i.f].state = "proposed" /\ PV!Latest(i.f) = i.hold
  BY DEF PV!StillHeld
<1>6. \A i \in g.read : i.out # "hold" /\ PV!StillHeld(i) /\ i.sha = pvText[i.f] => i.f \in fs
  OBVIOUS
<1>7. ASSUME NEW w \in wrote PROVE WroteOK(w)
  <2>1. CASE w \in g.wrote
    BY <1>3, <2>1 DEF RungSound
  <2>2. ASSUME NEW i \in out, w = [i |-> i, text |-> pvText[i.f], before |-> PV!Latest(i.f)] PROVE WroteOK(w)
    <3>1. w.i = i /\ w.text = pvText[i.f] /\ w.before = PV!Latest(i.f)
      BY <2>2
    <3> HIDE DEF out
    <3>2. ReadOK(i) /\ i.out # "hold" /\ i.sha = pvText[i.f] /\ PV!Latest(i.f) = i.hold
      BY <1>3, <1>5 DEF RungSound
    <3>3. i.f \in HeldFindings /\ ~(i.sha < pvText[i.f])
      BY <3>2 DEF ReadOK
    <3> QED
      BY <3>1, <3>2, <3>3 DEF WroteOK, ReadOK
  <2> QED
    BY <2>1, <2>2
<1> HIDE DEF out, State, Log, wrote
<1>8. ASSUME NEW f \in HeldFindings
      PROVE  /\ f \notin fs => fin'[f] = fin[f]
             /\ f \in fs => fin'[f] = FindingRec(State(f), fin[f].sha, Log(f))
             /\ fin[f] = FindingRec(fin[f].state, fin[f].sha, fin[f].log)
  <2>1. fin[f] = FindingRec(fin[f].state, fin[f].sha, fin[f].log)
    BY DEF PilotInv, TextsOK
  <2>2. Decided(f) = FindingRec(State(f), fin[f].sha, Log(f))
    <3>1. FindingWrote(fin[f], State(f), Log(f)) = FindingRec(State(f), fin[f].sha, Log(f))
      BY <2>1, FindingAfter
    <3> QED
      BY <3>1 DEF FindingWrote, Decided
  <2> HIDE DEF fs
  <2> QED
    BY <1>2, <2>1, <2>2
<1> HIDE DEF fs
<1>9. PilotsOK' /\ VotesOK'
  BY <1>2, VotesStay DEF PilotInv
<1>10. /\ steady \in [VoteRuns \cup {"rung"} -> SUBSET HeldFindings]
       /\ steady' \in [VoteRuns \cup {"rung"} -> SUBSET HeldFindings]
       /\ \A c \in VoteRuns : steady'[c] = steady[c] \ fs
       /\ steady'["rung"] = steady["rung"]
  BY <1>2 DEF PilotInv, TextsOK, PilotConstants
<1>11. TextsOK' /\ TextsGrow
  <2>1. DOMAIN fin' = HeldFindings /\ fin' = [f \in HeldFindings |-> fin'[f]]
    BY <1>2
  <2>2. \A f \in HeldFindings : \E s, l : fin'[f] = FindingRec(s, fin[f].sha, l)
    BY <1>8
  <2> QED
    BY <1>2, <1>10, <2>1, <2>2, TextsStay DEF PilotInv
<1>12. \A f \in HeldFindings : f \notin fs => SameFor(f) /\ KeptFor(f)
  BY <1>2, <1>8 DEF SameFor, KeptFor
<1>13. ASSUME NEW q \in VoteRuns, NEW w, w = pvRun'[q] PROVE RunSound(w)' /\ RunStands(w, q)'
  <2>1. RunSound(w) /\ RunStands(w, q)
    BY <1>2, <1>13 DEF PilotInv, RunsOK
  <2>2. steady'[q] \subseteq steady[q] /\ \A f \in steady'[q] : KeptFor(f)
    BY <1>10, <1>12
  <2>3. RunStands(w, q)'
    BY <2>1, <2>2, RunKept
  <2> QED
    BY <2>1, <2>3 DEF RunSound, VotesShaped
<1>14. RunsOK'
  BY <1>2, <1>13 DEF RunsOK, PilotInv
<1>15. h = RungRec("work", g.yes, g.limit, g.after, g.page, {}, g.n, wrote)
  BY <1>0, <1>3, RungAfter
<1>16. /\ RungShaped(h) /\ h.pc = "work" /\ h.yes = g.yes /\ h.limit = g.limit /\ h.page = g.page /\ h.read = {}
       /\ h.after = g.after /\ h.wrote = wrote
  BY <1>15, RungFields
<1>17. RungSound(h)
  BY <1>3, <1>7, <1>16 DEF RungSound
<1>18. ASSUME NEW f \in steady["rung"] PROVE RungDue(h, f)'
  <2>1. RungDue(g, f) /\ f \in HeldFindings
    BY <1>3, <1>10
  <2>2. f \in fs => ~PV!Held(f)'
    <3>1. f \in fs => fin'[f].state \in {"accepted", "rejected"}
      BY <1>4, <1>8, <2>1, FindingFields
    <3> QED
      BY <3>1 DEF PV!Held
  <2>3. CASE f \in fs
    BY <1>16, <2>1, <2>2, <2>3 DEF RungDue
  <2>4. CASE f \notin fs
    <3>1. SameFor(f) /\ fin'[f] = fin[f]
      BY <1>12, <2>1, <2>4 DEF SameFor
    <3>2. /\ PV!Held(f)' = PV!Held(f) /\ PV!Latest(f)' = PV!Latest(f)
          /\ PV!Counted(f)' = PV!Counted(f) /\ Agreed(f)' = Agreed(f)
      BY <1>9, <2>1, <3>1, SameSeen DEF PilotInv
    <3>3. ASSUME PV!Held(f), pvText[f] = fin[f].sha, Agreed(f) # "hold" PROVE f > g.after
      <4>1. AheadOfRung(g, f)
        BY <2>1, <3>3 DEF RungDue
      <4>2. ASSUME NEW i \in g.read, i.f = f, i.sha = fin[f].sha, i.hold = PV!Latest(f), i.out = Agreed(f)
            PROVE  FALSE
        <5>1. PV!StillHeld(i)
          BY <3>3, <4>2 DEF PV!StillHeld, PV!Held
        <5> QED
          BY <1>6, <2>4, <3>3, <4>2, <5>1
      <4> QED
        BY <1>2, <4>1, <4>2 DEF AheadOfRung
    <3>4. PV!Held(f)' /\ pvText'[f] = fin'[f].sha => Agreed(f)' = "hold" \/ AheadOfRung(h, f)'
      <4>1. f > g.after => AheadOfRung(h, f)'
        BY <1>16 DEF AheadOfRung
      <4> QED
        BY <1>2, <3>1, <3>2, <3>3, <4>1
    <3> QED
      BY <1>16, <2>1, <3>2, <3>4 DEF RungDue
  <2> QED
    BY <2>3, <2>4
<1>19. ASSUME NEW k, k = rung' PROVE RungSound(k)' /\ RungStands(k)'
  <2>1. k = h
    BY <1>2, <1>19
  <2>2. RungSound(k)
    BY <1>17, <2>1
  <2>3. RungSound(k)'
    BY <1>11, <2>2, ItemsKept
  <2>4. ASSUME NEW f \in steady'["rung"] PROVE RungDue(k, f)'
    BY <1>10, <1>18, <2>1, <2>4
  <2> QED
    BY <2>3, <2>4 DEF RungStands
<1>20. RungOK'
  BY <1>19 DEF RungOK
<1> QED
  BY <1>9, <1>11, <1>14, <1>20 DEF PilotInv

-----------------------------------------------------------------------------
LEMMA PilotsKept ==
  ASSUME PilotConstants, PilotInv, [PV!Next]_PV!vars
  PROVE  PilotInv'
<1>1. CASE UNCHANGED PV!vars
  <2>1. UNCHANGED <<pilots, votes, fin, pvText, pvRun, rung, pvClock, steady>>
    BY <1>1 DEF PV!vars
  <2>2. PICK g : g = rung
    OBVIOUS
  <2>3. RungSound(g) /\ (g.pc # "idle" => \A f \in steady["rung"] : RungDue(g, f))
    BY <2>2 DEF PilotInv, RungOK, RungStands
  <2>4. steady' \in [VoteRuns \cup {"rung"} -> SUBSET HeldFindings] /\ steady' = steady
    BY <2>1 DEF PilotInv, TextsOK
  <2> QED
    BY <2>1, <2>2, <2>3, <2>4, RungGoes
<1>2. CASE PV!Next
  BY <1>2, VotesBegun, TrackOpened, PageTaken, PageWritten, RungBegun, WorkRead, VotesHeard, DecisionsWritten,
     FindingDecided, TextMoves, TrackRequeued, PilotComes DEF PV!Next
<1> QED
  BY <1>1, <1>2

LEMMA PilotsBegin == ASSUME PilotConstants, PV!Init PROVE PilotInv
<1>1. PICK scene \in PilotScenes : scene = pvLeft
  BY DEF PV!Init
<1>2. /\ DOMAIN scene.pilots \subseteq 1 .. 100
      /\ \A i \in DOMAIN scene.pilots : scene.pilots[i][3] \in {"full", "findings"}
  BY DEF PilotConstants
<1> DEFINE Made(i) == [id |-> i, track |-> scene.pilots[i][1], model |-> scene.pilots[i][2], scope |-> scene.pilots[i][3]]
<1>3. pvClock = 100 /\ pilots = {Made(i) : i \in DOMAIN scene.pilots}
  BY <1>1 DEF PV!Init
<1>4. PilotsOK
  <2>1. \A i \in DOMAIN scene.pilots : i \in Nat /\ i <= 100
    BY <1>2
  <2> QED
    BY <1>2, <1>3, <2>1 DEF PilotsOK
<1>5. /\ fin = [f \in HeldFindings |-> [state |-> "proposed", sha |-> 1,
                                        log |-> << PV!Decision(f, "hold", pvLeft.holds[f], "decide") >>]]
      /\ pvText = [f \in HeldFindings |-> 1]
      /\ steady = [c \in VoteRuns \cup {"rung"} |-> {}]
  BY DEF PV!Init
<1>6. TextsOK
  <2>1. ASSUME NEW f \in HeldFindings
        PROVE  fin[f] = FindingRec(fin[f].state, fin[f].sha, fin[f].log) /\ fin[f].sha = 1
    <3> DEFINE log == << PV!Decision(f, "hold", pvLeft.holds[f], "decide") >>
    <3>1. fin[f] = [state |-> "proposed", sha |-> 1, log |-> log]
      BY <1>5
    <3> HIDE DEF log
    <3> QED
      BY <3>1 DEF FindingRec
  <2>2. fin = [f \in HeldFindings |-> fin[f]]
    BY <1>5
  <2>3. fin = [f \in HeldFindings |-> FindingRec(fin[f].state, fin[f].sha, fin[f].log)]
    BY <2>1, <2>2
  <2> QED
    BY <1>5, <2>1, <2>3 DEF TextsOK
<1>7. VotesOK
  <2> DEFINE D == {x \in HeldFindings \X DOMAIN scene.pilots : scene.voted /\ TrackOf[x[1]] = scene.pilots[x[2]][1]}
             By(k) == CHOOSE p \in pilots : p.id = k[2]
  <2>1. votes = [k \in D |-> [sha |-> 1, of |-> 1, at |-> 0, vote |-> PV!VoteOn(By(k), k[1])]]
    BY <1>1 DEF PV!Init
  <2>2. ASSUME NEW k \in DOMAIN votes
        PROVE  /\ k \in HeldFindings \X Nat
               /\ \E p \in pilots : p.id = k[2] /\ p.track = TrackOf[k[1]]
               /\ votes[k].at \in Nat /\ votes[k].at <= pvClock
               /\ votes[k].vote = "unmappable" \/ votes[k].sha = votes[k].of
    <3>1. k \in D /\ votes[k].at = 0 /\ votes[k].sha = 1 /\ votes[k].of = 1
      <4> HIDE DEF D, By
      <4> QED
        BY <2>1
    <3>2. k \in HeldFindings \X DOMAIN scene.pilots /\ TrackOf[k[1]] = scene.pilots[k[2]][1]
      BY <3>1
    <3>3. k[2] \in DOMAIN scene.pilots /\ k[2] \in Nat /\ k \in HeldFindings \X Nat
      BY <1>2, <3>2
    <3>4. Made(k[2]) \in pilots /\ Made(k[2]).id = k[2] /\ Made(k[2]).track = TrackOf[k[1]]
      BY <1>3, <3>2, <3>3
    <3> HIDE DEF Made
    <3> QED
      BY <1>3, <3>1, <3>3, <3>4
  <2> QED
    BY <2>2 DEF VotesOK
<1>8. ASSUME NEW r \in VoteRuns, NEW v, v = pvRun[r] PROVE RunSound(v) /\ RunStands(v, r)
  <2>2. VotesShaped(v) /\ v.pc = "idle" /\ v.page = {}
    BY <1>8, VotesStart DEF PV!Init
  <2> QED
    BY <2>2 DEF RunSound, RunStands
<1>9. RunsOK
  BY <1>8 DEF RunsOK, PV!Init
<1>10. RungOK
  <2>2. RungShaped(rung) /\ rung.pc = "idle" /\ rung.page = {} /\ rung.read = {} /\ rung.wrote = {}
    BY RungStart DEF PV!Init
  <2> QED
    BY <2>2 DEF RungOK, RungSound, RungStands
<1> QED
  BY <1>4, <1>6, <1>7, <1>9, <1>10 DEF PilotInv

LEMMA PilotsAreHeard ==
  ASSUME PilotInv
  PROVE  PV!DecidedAsHeard /\ PV!VoteNamesItsText /\ PV!EveryHeldFindingVoted /\ PV!EveryAgreementActedOn
<1>1. steady["rung"] \subseteq HeldFindings
  BY DEF PilotInv, TextsOK
<1>2. PV!VoteNamesItsText
  BY DEF PilotInv, VotesOK, PV!VoteNamesItsText
<1> QED
  BY <1>1, <1>2, DecidedWasHeard, StoodIsVoted, AgreedIsActedOn DEF PilotInv

\* However many vote runs there are, and whatever is decided, cut anew, transcribed
\* again or requeued meanwhile: what the audio-vote command decides was heard by
\* every model in the text the fix goes into, a vote names its text, and neither a
\* vote run nor the command leaves out a finding that stood through it
\* (cmd/asrpilot/vote.go runVote, internal/decide/audiovote.go).
THEOREM EveryVoteIsHeard ==
  ASSUME PilotConstants
  PROVE  ReportsSpec => []VotesAreHeard
<1>1. PV!Init => PilotInv
  BY PilotsBegin
<1>2. PilotInv /\ [PV!Next]_PV!vars => PilotInv'
  BY PilotsKept
<1>3. PilotInv => PV!DecidedAsHeard /\ PV!VoteNamesItsText /\ PV!EveryHeldFindingVoted /\ PV!EveryAgreementActedOn
  BY PilotsAreHeard
<1>4. PV!Spec => [](PV!DecidedAsHeard /\ PV!VoteNamesItsText /\ PV!EveryHeldFindingVoted /\ PV!EveryAgreementActedOn)
  BY <1>1, <1>2, <1>3, PTL DEF PV!Spec
<1>5. ~(part = "pv") /\ [UNCHANGED part]_part => ~(part = "pv")'
  OBVIOUS
<1> QED
  BY <1>4, <1>5, PTL DEF ReportsSpec, VotesAreHeard

=============================================================================
