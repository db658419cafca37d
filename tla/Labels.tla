-------------------------------- MODULE Labels --------------------------------
(***************************************************************************)
(* Labels on proposed fixes (internal/db/labels.go): an append-only log that *)
(* imports write in one transaction each, under an advisory lock of their    *)
(* (set, labeler).  An item names a finding, or a chunk and a fix, and is    *)
(* tied to the revision of the chunk it is about, or refused with a reason;  *)
(* meanwhile rebuilds replace the chunk and judges record findings.         *)
(*                                                                         *)
(* One (set, labeler), one chunk.  A revision of its text is a member of     *)
(* Shas; a label and its reason are one verdict.                           *)
(***************************************************************************)
EXTENDS Naturals, Sequences, FiniteSets

CONSTANTS
  Importers, Shas, Fixes, Verdicts,
  Spans,      \* the fixes whose span (and context) is in a revision's text
  Files,      \* what label files say: sequences of items
  Dates,      \* when a label says it was made; 0: it does not
  NoSha,
  MaxImports, MaxFindings     \* bounds

VARIABLES
  current,    \* the chunk's revision, or NoSha: re-chunked away
  seen,       \* every revision it had (history)
  findings,   \* recorded against the chunk id, live or archived
  log,        \* finding_labels, by id
  imp,        \* the imports: where each is, and what it holds
  imports

vars == <<current, seen, findings, log, imp, imports>>
world == <<current, seen, findings>>

Idle == [at |-> "idle", items |-> <<>>, match |-> FALSE, target |-> <<>>,
         resolved |-> <<>>, fresh |-> <<>>]

Init ==
  /\ current \in Shas /\ seen = {current} /\ findings = {}
  /\ log = <<>> /\ imp = [i \in Importers |-> Idle] /\ imports = 0

-----------------------------------------------------------------------------
(* resolveLabel: at most one resolution.  t is what the database held for    *)
(* the item, on the findings on its chunk.                                  *)

Resolution(sha, fix, by, fid) == [sha |-> sha, fix |-> fix, by |-> by, fid |-> fid]

\* The finding the item names must not contradict what the item says.
ByFinding(it, f) ==
  IF it.fix \in {f.fix, "none"} /\ it.sha \in {f.sha, NoSha}
  THEN {Resolution(f.sha, f.fix, "finding", f.id)} ELSE {}

SpanOK(it, sha) == it.fix \in Spans[sha]

\* A hash is the current revision's, or one that a finding recorded.
ByHash(it, cur, on) ==
  IF \/ cur = it.sha /\ SpanOK(it, cur)
     \/ cur # it.sha /\ \E f \in on : f.sha = it.sha
  THEN {Resolution(it.sha, it.fix, "hash", 0)} ELSE {}

SameFix(it, on) == {f \in on : f.fix = it.fix}

\* Mutant: findings that saw an older revision count.
AnyRevision(same, cur) == same

AtCurrent(same, cur) == {f \in same : f.sha = cur}

\* No hash: the revision the findings that propose this fix recorded, which
\* must be the current one; the finding itself when there is just one.
BySameFix(it, cur, on) ==
  LET here == AtCurrent(SameFix(it, on), cur) IN
  IF cur # NoSha /\ here # {} /\ SpanOK(it, cur)
  THEN {Resolution(cur, it.fix, "finding",
                   IF Cardinality(here) = 1 THEN (CHOOSE f \in here : TRUE).id ELSE 0)}
  ELSE {}

\* Opt-in: the current text contains the span.
ByChunk(it, cur, match) ==
  IF cur # NoSha /\ match /\ SpanOK(it, cur)
  THEN {Resolution(cur, it.fix, "chunk", 0)} ELSE {}

Resolve(it, t, on, match) ==
  IF \E f \in t.named : f.id = it.fid THEN ByFinding(it, CHOOSE f \in t.named : f.id = it.fid)
  ELSE IF ~it.chunk \/ it.fix = "none" THEN {}
  ELSE IF it.sha # NoSha THEN ByHash(it, t.current, on)
  ELSE IF SameFix(it, on) # {} THEN BySameFix(it, t.current, on)
  ELSE ByChunk(it, t.current, match)

\* finding_correction_key, else the finding's own id.
Target(r) == IF r.sha = NoSha THEN <<"finding", r.fid>> ELSE <<r.sha, r.fix>>

-----------------------------------------------------------------------------
(* ImportLabels.                                                           *)

\* Mutant: no lock.
Unlocked(i) == TRUE

\* pg_advisory_xact_lock: held until the transaction ends.
LockFree(i) == \A j \in Importers : imp[j].at = "idle"

Begin(i) ==
  /\ imp[i].at = "idle" /\ imports < MaxImports /\ LockFree(i)
  /\ \E items \in Files, match \in BOOLEAN :
       imp' = [imp EXCEPT ![i] = [Idle EXCEPT !.at = "targets", !.items = items, !.match = match]]
  /\ imports' = imports + 1
  /\ UNCHANGED <<world, log>>

\* labelTargetsSQL: the named findings and the chunk, one snapshot.
ReadTargets(i) ==
  /\ imp[i].at = "targets"
  /\ imp' = [imp EXCEPT ![i].at = "findings",
                        ![i].target = [current |-> current, named |-> findings]]
  /\ UNCHANGED <<world, log, imports>>

\* The places K of a sequence of n items, in their order.
InOrder(K, n) ==
  {ks \in UNION {[1 .. m -> K] : m \in 0 .. n} :
     /\ \A j, k \in DOMAIN ks : j < k => ks[j] < ks[k]
     /\ \A x \in K : \E k \in DOMAIN ks : ks[k] = x}

\* labelChunkFindingsSQL, a later snapshot, and resolveLabels.
ReadFindings(i) ==
  LET on == {f \in findings : f.sha # NoSha}
      items == imp[i].items
      rs == [k \in DOMAIN items |-> Resolve(items[k], imp[i].target, on, imp[i].match)] IN
  /\ imp[i].at = "findings"
  /\ \E ks \in InOrder({k \in DOMAIN rs : rs[k] # {}}, Len(items)) :
       imp' = [imp EXCEPT ![i].at = "dedupe",
                 ![i].resolved = [n \in DOMAIN ks |-> [r |-> CHOOSE r \in rs[ks[n]] : TRUE, item |-> items[ks[n]]]]]
  /\ UNCHANGED <<world, log, imports>>

RowsOf(target) == {k \in DOMAIN log : log[k].target = target}

\* labelLatestSQL: by id.
LatestIs(target, verdict) ==
  \E k \in RowsOf(target) : log[k].verdict = verdict /\ \A j \in RowsOf(target) : j <= k

\* Items of one import that disagree are all refused.
Conflicting(rs, target) ==
  \E k, j \in DOMAIN rs : /\ Target(rs[k].r) = target /\ Target(rs[j].r) = target
                          /\ rs[k].item.verdict # rs[j].item.verdict

\* dedupeLabels: the first item of each target that changes the latest row.
Dedupe(i) ==
  LET rs == imp[i].resolved
      first(k) == \A j \in 1 .. k-1 : Target(rs[j].r) # Target(rs[k].r)
      fresh(k) == /\ first(k) /\ ~Conflicting(rs, Target(rs[k].r))
                  /\ ~LatestIs(Target(rs[k].r), rs[k].item.verdict)
  IN
  /\ imp[i].at = "dedupe"
  /\ \E ks \in InOrder({k \in DOMAIN rs : fresh(k)}, Len(rs)) :
       imp' = [imp EXCEPT ![i].at = "insert", ![i].fresh = [n \in DOMAIN ks |-> rs[ks[n]]]]
  /\ UNCHANGED <<world, log, imports>>

\* A label without a date was made now, after every dated one.
Row(x, n) ==
  [target |-> Target(x.r), sha |-> x.r.sha, fix |-> x.r.fix, by |-> x.r.by, fid |-> x.r.fid,
   verdict |-> x.item.verdict,
   at |-> IF x.item.at = 0 THEN Cardinality(Dates) + n ELSE x.item.at]

\* insertLabels and the commit.
Commit(i) ==
  /\ imp[i].at = "insert"
  /\ log' = log \o [n \in DOMAIN imp[i].fresh |-> Row(imp[i].fresh[n], Len(log) + n)]
  /\ imp' = [imp EXCEPT ![i] = Idle]
  /\ UNCHANGED <<world, imports>>

\* A dry run ends, or a statement fails: nothing is written.
Rollback(i) ==
  /\ imp[i].at # "idle" /\ imp' = [imp EXCEPT ![i] = Idle]
  /\ UNCHANGED <<world, log, imports>>

-----------------------------------------------------------------------------
(* Meanwhile.                                                              *)

\* A judge records a finding on the current text; the first ones, before
\* findings carried a hash, have none.
Judged(fix, hashed) ==
  /\ current # NoSha /\ Cardinality(findings) < MaxFindings
  /\ findings' = findings \cup
       {[id |-> Cardinality(findings) + 1, sha |-> IF hashed THEN current ELSE NoSha, fix |-> fix]}
  /\ UNCHANGED <<current, seen, log, imp, imports>>

\* A rebuild: other text under the same chunk id, or the chunk is gone.
Rechunk ==
  /\ \E s \in (Shas \ seen) \cup {NoSha} :
       s # current /\ current' = s /\ seen' = seen \cup ({s} \ {NoSha})
  /\ UNCHANGED <<findings, log, imp, imports>>

Next ==
  \/ \E i \in Importers :
       \/ Begin(i) \/ ReadTargets(i) \/ ReadFindings(i) \/ Dedupe(i) \/ Commit(i) \/ Rollback(i)
  \/ \E fix \in Fixes, hashed \in BOOLEAN : Judged(fix, hashed)
  \/ Rechunk

Spec == Init /\ [][Next]_vars

-----------------------------------------------------------------------------
(* Properties.                                                             *)

\* "Items that cannot be tied to a chunk revision are reported, never guessed":
\* a stored label is about a revision the chunk had, one on which its fix was
\* proposed or its span stands.
NeverGuessed ==
  \A k \in DOMAIN log : LET r == log[k] IN
    /\ r.by = "finding" => \E f \in findings : f.sha = r.sha /\ f.fix = r.fix
    /\ r.by = "hash" => /\ r.sha \in seen
                        /\ r.fix \in Spans[r.sha] \/ \E f \in findings : f.sha = r.sha
    /\ r.by = "chunk" => r.sha \in seen /\ r.fix \in Spans[r.sha]

\* Imports of one set and labeler at once repeat nothing: each row changes the
\* verdict its target had.
NoRepeat ==
  \A k \in DOMAIN log : \A j \in 1..(k-1) :
    log[j].target = log[k].target /\ (\A m \in (j+1)..(k-1) : log[m].target # log[k].target)
      => log[j].verdict # log[k].verdict

\* Both, of every label that is stored.
LabelsAreSound == NeverGuessed /\ NoRepeat

\* The label in force (migration 14): the newest by date, then by id.
InForce(rows, target) ==
  LET ks == {k \in DOMAIN rows : rows[k].target = target}
      k == CHOOSE k \in ks : \A j \in ks \ {k} :
             \/ rows[j].at < rows[k].at
             \/ rows[j].at = rows[k].at /\ j < k IN
  rows[k].verdict

\* "Skipped repeat the label in force": an undated item that is all its import
\* says is in force once the import commits, written or skipped.
ImportedIsInForce ==
  \A i \in Importers : Commit(i) /\ Len(imp[i].items) = 1 =>
    \A k \in DOMAIN imp[i].resolved : LET x == imp[i].resolved[k] IN
      x.item.at = 0 => InForce(log', Target(x.r)) = x.item.verdict

ImportedStands == [][ImportedIsInForce]_vars
=============================================================================
