------------------------------- MODULE RungZero -------------------------------
(***************************************************************************)
(* What one finding goes through before a decision of it is written: the     *)
(* checks of rung 0 on its words (internal/decide/rung0.go), the evidence of *)
(* its book's catalogue record (evidence.go), the question to the model and  *)
(* the rule that turns the answer into a decision (shouldapply.go).          *)
(*                                                                         *)
(* A text is a sequence of words.  What phonetics says is data: Reading, how *)
(* a word is read aloud, Value, of a numeral, and Alike, which is any: rung 0*)
(* may find any two unequal hunks to sound alike or not.                    *)
(***************************************************************************)
EXTENDS Integers, Sequences, FiniteSets

CONSTANTS
  Edits,      \* [target, o, r, type, breaks, name, record]: a finding and its chunk
  Reading, Value, Letters, Inflects,
  Stop,       \* words that carry no evidence
  Policies,   \* [apply, reject, lowercase, floor, evidence]
  MaxTokens, MaxHunk, MaxChanged, MaxRepeat, MaxInserted   \* rung 0's limits

VARIABLES edit, policy, verdict, evidence, decision

vars == <<edit, policy, verdict, evidence, decision>>

Substitutions == {"proper_noun", "word", "number"}
Capped == {"dropped", "number"}

Init ==
  /\ edit \in Edits
  /\ policy \in Policies
  /\ verdict = "-" /\ evidence = "-" /\ decision = "-"

Least(S) == CHOOSE n \in S : \A m \in S : n <= m
Larger(a, b) == IF a > b THEN a ELSE b
Cut(s, i, j) == SubSeq(s, i + 1, j)       \* s[i:j]

RECURSIVE Joined(_, _)
Joined(f, s) == IF s = <<>> THEN <<>> ELSE f[Head(s)] \o Joined(f, Tail(s))

SameReading(a, b) == Joined(Reading, a) = Joined(Reading, b)

Numerals(s) == SelectSeq(s, LAMBDA w : Value[w] # 0)
Values(s) == LET n == Numerals(s) IN [k \in DOMAIN n |-> Value[n[k]]]

-----------------------------------------------------------------------------
(* diffHunks: the edit distance of a and b, and the walk back through it.    *)

Step(a, b, i, j) == IF a[i] = b[j] THEN 0 ELSE 1

\* Mutant: the distance does without the case of a word taken out.
NoDeletion(a, b, i, above) ==
  LET cell[j \in 0 .. Len(b)] ==
        IF j = 0 THEN i ELSE Least({above[j - 1] + Step(a, b, i, j), cell[j - 1] + 1})
  IN [j \in 0 .. Len(b) |-> cell[j]]

NextRow(a, b, i, above) ==
  LET cell[j \in 0 .. Len(b)] ==
        IF j = 0 THEN i
        ELSE Least({above[j - 1] + Step(a, b, i, j), above[j] + 1, cell[j - 1] + 1})
  IN [j \in 0 .. Len(b) |-> cell[j]]

RECURSIVE RowsTo(_, _, _)
RowsTo(a, b, i) ==
  IF i = 0 THEN <<[j \in 0 .. Len(b) |-> j]>>
  ELSE LET rows == RowsTo(a, b, i - 1) IN Append(rows, NextRow(a, b, i, rows[i]))

Keeps(a, b, rows, i, j) ==
  i > 0 /\ j > 0 /\ a[i] = b[j] /\ rows[i + 1][j] = rows[i][j - 1]

\* The kept pairs, in order: ties keep a word first, then substitute.
RECURSIVE KeptTo(_, _, _, _, _)
KeptTo(a, b, rows, i, j) ==
  IF i = 0 /\ j = 0 THEN <<>>
  ELSE IF Keeps(a, b, rows, i, j)
       THEN Append(KeptTo(a, b, rows, i - 1, j - 1), <<i, j>>)
  ELSE IF i > 0 /\ j > 0 /\ rows[i + 1][j] = rows[i][j - 1] + 1
       THEN KeptTo(a, b, rows, i - 1, j - 1)
  ELSE IF i > 0 /\ rows[i + 1][j] = rows[i][j] + 1 THEN KeptTo(a, b, rows, i - 1, j)
  ELSE KeptTo(a, b, rows, i, j - 1)

\* The gaps between kept pairs that change anything: a[oi:oj] became b[ri:rj].
Hunks(a, b) ==
  LET kept == <<<<0, 0>>>> \o KeptTo(a, b, RowsTo(a, b, Len(a)), Len(a), Len(b))
                \o <<<<Len(a) + 1, Len(b) + 1>>>>
      gap(k) == [oi |-> kept[k][1], oj |-> kept[k + 1][1] - 1,
                 ri |-> kept[k][2], rj |-> kept[k + 1][2] - 1]
  IN {h \in {gap(k) : k \in 1 .. Len(kept) - 1} : h.oj > h.oi \/ h.rj > h.ri}

Old(e, h) == Cut(e.o, h.oi, h.oj)
New(e, h) == Cut(e.r, h.ri, h.rj)
Size(h) == Larger(h.oj - h.oi, h.rj - h.ri)

RECURSIVE Total(_)
Total(hs) == IF hs = {} THEN 0 ELSE LET h == CHOOSE x \in hs : TRUE IN Size(h) + Total(hs \ {h})

-----------------------------------------------------------------------------
(* The checks.  Each is the reason it fails for, or "pass".                 *)

Long(e) == Len(e.o) > MaxTokens \/ Len(e.r) > MaxTokens

\* Nothing spoken changes.
Cosmetic(e) ==
  IF Long(e) THEN e.o = e.r
  ELSE \A h \in Hunks(e.o, e.r) :
         Old(e, h) # <<>> /\ New(e, h) # <<>> /\ SameReading(Old(e, h), New(e, h))

Single(e, h) == Len(Old(e, h)) = 1 /\ Len(New(e, h)) = 1

\* What a hunk fails for before its sound is compared; "reads": it reads the same.
HunkRule(e, h) ==
  LET o == Old(e, h)
      r == New(e, h)
  IN IF o = <<>> \/ r = <<>> THEN "not_sound_alike"
     ELSE IF e.type # "number" /\ Size(h) > MaxHunk THEN "not_sound_alike"
     ELSE IF SameReading(o, r) THEN "reads"
     ELSE IF Values(o) # <<>> /\ Values(r) # <<>> /\ Values(o) # Values(r) THEN "not_sound_alike"
     ELSE IF Single(e, h) /\ o[1] \in Letters /\ r[1] \in Letters THEN "letter_swap"
     ELSE IF Single(e, h) /\ e.type # "proper_noun" /\ ~e.name /\ {o[1], r[1]} \in Inflects
          THEN "inflection_only"
     ELSE "sound"

First(hs) == CHOOSE h \in hs : \A g \in hs : h.oi < g.oi \/ (h.oi = g.oi /\ h.ri <= g.ri)

\* Hunks in order; alike: those whose sound passes.
RECURSIVE HunksPass(_, _, _)
HunksPass(e, hs, alike) ==
  IF hs = {} THEN "pass"
  ELSE LET h    == First(hs)
           rule == HunkRule(e, h)
       IN IF rule = "reads" \/ (rule = "sound" /\ h \in alike)
          THEN HunksPass(e, hs \ {h}, alike)
          ELSE IF rule = "sound" THEN "not_sound_alike" ELSE rule

CheckSubstitution(e, alike) ==
  LET hs == Hunks(e.o, e.r) IN
  IF Long(e) THEN "not_sound_alike"
  ELSE IF HunksPass(e, hs, alike) # "pass" THEN HunksPass(e, hs, alike)
  ELSE IF Total(hs) > MaxChanged /\ e.type # "number" THEN "too_many_changes"
  ELSE IF hs = {} THEN "changes_no_word"
  ELSE "pass"

IsRun(s, size) == \A j \in size + 1 .. Len(s) : s[j] = s[j - size]

\* Mutant: the words between the copies are not looked at.
BreakIgnored(e, i, j) == FALSE

\* Sentence punctuation after one of the words i to j - 1.
BreakBetween(e, i, j) == e.breaks \cap (i .. j - 1) # {}

\* findCollapse: a unit of `size` words from word i + 1, its k copies made one.
Collapses(e, size, i) ==
  LET removed == Len(e.o) - Len(e.r)
      k       == removed \div size + 1
  IN /\ removed % size = 0 /\ i + k * size <= Len(e.o)
     /\ IsRun(Cut(e.o, i, i + k * size), size)
     /\ Cut(e.o, 0, i + size) \o Cut(e.o, i + k * size, Len(e.o)) = e.r
     /\ ~BreakBetween(e, i + size, i + k * size)

CheckRepeat(e) ==
  IF /\ Len(e.o) > Len(e.r)
     /\ \E size \in 1 .. MaxRepeat, i \in 0 .. Len(e.o) :
          size <= Len(e.o) - Len(e.r) /\ Collapses(e, size, i)
  THEN "pass" ELSE "not_exact_repeat"

\* subsequenceExtras: how many words of `sub` a greedy walk of `full` meets.
RECURSIVE Met(_, _)
Met(sub, full) ==
  IF sub = <<>> \/ full = <<>> THEN 0
  ELSE IF Head(full) = Head(sub) THEN 1 + Met(Tail(sub), Tail(full)) ELSE Met(sub, Tail(full))

CheckInsertion(e) ==
  IF /\ e.o # <<>> /\ Len(e.r) - Len(e.o) \in 1 .. MaxInserted
     /\ Met(e.o, e.r) = Len(e.o)
  THEN "pass" ELSE "bad_insertion"

Check(e, alike) ==
  IF e.target # "found" THEN e.target
  ELSE IF e.r = <<>> THEN "empty_correction"
  ELSE IF Cosmetic(e) THEN "cosmetic_only"
  ELSE IF e.type \in Substitutions THEN CheckSubstitution(e, alike)
  ELSE IF e.type = "repeat" THEN CheckRepeat(e)
  ELSE IF e.type = "dropped" THEN CheckInsertion(e)
  ELSE "unsupported_issue_type"

-----------------------------------------------------------------------------
(* What a judge's answer is dropped for before it is a row: eval's own copy   *)
(* of the alignment and of the cosmetic test, and the shapes it refuses.      *)

PreHunks(e) == Hunks(e.o, e.r)
PreCosmetic(e) == Cosmetic(e)

IsSubsequence(sub, full) == Met(sub, full) = Len(sub)

SubstitutionReason(e) ==
  \/ Long(e)
  \/ \E h \in PreHunks(e) :
       \/ Old(e, h) = <<>> \/ New(e, h) = <<>>
       \/ e.type # "number" /\ Size(h) > MaxHunk

Prefiltered(e) ==
  \/ e.type \notin Substitutions \cup {"repeat", "dropped"}
  \/ e.target \in {"anchor_missing", "not_word_bounded"}
  \/ e.type = "repeat" /\ (Len(e.r) >= Len(e.o) \/ ~IsSubsequence(e.r, e.o))
  \/ /\ e.type = "dropped"
     /\ e.o = <<>> \/ Len(e.r) - Len(e.o) \notin 1 .. MaxInserted \/ ~IsSubsequence(e.o, e.r)
  \/ e.type \in Substitutions /\ SubstitutionReason(e)

\* parseFindings, then prefilter.
DroppedAtOnce(e) == e.o = <<>> \/ e.r = <<>> \/ PreCosmetic(e) \/ Prefiltered(e)

-----------------------------------------------------------------------------
(* The evidence: the words the correction introduces, in one line of the     *)
(* book's catalogue record.                                                *)

Prefix(a, b) ==
  CHOOSE n \in 0 .. Len(a) :
    /\ n <= Len(b) /\ Cut(a, 0, n) = Cut(b, 0, n)
    /\ n < Len(a) /\ n < Len(b) => a[n + 1] # b[n + 1]

\* Mutant: the common end is counted without regard to the common beginning.
SuffixOfAll(a, b) ==
  CHOOSE n \in 0 .. Len(a) :
    /\ n <= Len(b) /\ Cut(a, Len(a) - n, Len(a)) = Cut(b, Len(b) - n, Len(b))
    /\ (n < Len(a) /\ n < Len(b)) => a[Len(a) - n] # b[Len(b) - n]

\* The common end of what the common beginning leaves.
Suffix(a, b) ==
  LET p == Prefix(a, b) IN
  CHOOSE n \in 0 .. Len(a) - p :
    /\ n <= Len(b) - p /\ Cut(a, Len(a) - n, Len(a)) = Cut(b, Len(b) - n, Len(b))
    /\ (n < Len(a) - p /\ n < Len(b) - p) => a[Len(a) - n] # b[Len(b) - n]

NewTokens(a, b) ==
  LET p == Prefix(a, b)
      s == Suffix(a, b)
  IN IF Len(b) - s <= p THEN <<>> ELSE Cut(b, p, Len(b) - s)

Carries(s) == \E k \in DOMAIN s : s[k] \notin Stop

Occurs(run, s) == \E i \in 0 .. Len(s) - Len(run) : Cut(s, i, i + Len(run)) = run

TextEvidence(e) ==
  LET added == NewTokens(e.o, e.r) IN
  IF e.type = "repeat" THEN "exact_repeat"
  ELSE IF Carries(added) /\ \E line \in e.record : Occurs(added, line) THEN "asin_verbatim"
  ELSE "none"

-----------------------------------------------------------------------------
(* The rule.  p is a step of a scale; -1: no usable answer.                 *)

Decide(q, p, ev, type, upper) ==
  IF p = -1 THEN "unavailable"
  ELSE IF p >= q.apply
  THEN IF type \in Capped THEN "type_capped"
       ELSE IF ev = "none" THEN "no_evidence"
       ELSE IF ev \notin q.evidence THEN "evidence_excluded"
       ELSE "apply"
  ELSE IF p <= q.reject
  THEN IF q.lowercase /\ upper /\ p >= q.floor THEN "capitalised" ELSE "reject"
  ELSE "uncertain"

\* Rung 0 of the finding; a failure is a reject, with no model asked.
RungZero ==
  /\ verdict = "-"
  /\ \E alike \in SUBSET Hunks(edit.o, edit.r) : verdict' = Check(edit, alike)
  /\ evidence' = IF verdict' = "pass" THEN TextEvidence(edit) ELSE "none"
  /\ decision' = IF verdict' = "pass" THEN "-" ELSE "reject"
  /\ UNCHANGED <<edit, policy>>

\* Evaluate: the model is asked; a call that fails, a reply of another model and an
\* answer that does not decode are no answer.
Evaluate ==
  /\ verdict = "pass" /\ decision \in {"-", "unavailable"}
  /\ \E p \in -1 .. 4 : decision' = Decide(policy, p, evidence, edit.type, edit.name)
  /\ decision' # decision
  /\ UNCHANGED <<edit, policy, verdict, evidence>>

Next == RungZero \/ Evaluate

Spec == Init /\ [][Next]_vars

-----------------------------------------------------------------------------
(* The properties, each against a definition without the algorithm.         *)

Checked == verdict # "-" /\ edit.target = "found" /\ edit.r # <<>>

\* Ways to keep words of a in b, in order.
Alignments(a, b) ==
  {K \in SUBSET {<<i, j>> \in (DOMAIN a) \X (DOMAIN b) : a[i] = b[j]} :
     \A x, y \in K : x = y \/ (x[1] < y[1] /\ x[2] < y[2]) \/ (y[1] < x[1] /\ y[2] < x[2])}

\* What an alignment changes, a gap at a time: the longer side of each.
RECURSIVE Cost(_, _, _)
Cost(K, n, m) ==
  IF K = {} THEN Larger(n, m)
  ELSE LET x == CHOOSE y \in K : \A z \in K : z[1] <= y[1]
       IN Larger(n - x[1], m - x[2]) + Cost(K \ {x}, x[1] - 1, x[2] - 1)

\* The words an edit is said to change are as few as any alignment has, so a fix is
\* never refused as a rewrite for the way its words were aligned.
FewestChanges ==
  Checked /\ edit.type \in Substitutions =>
    Total(Hunks(edit.o, edit.r)) =
      Least({Cost(K, Len(edit.o), Len(edit.r)) : K \in Alignments(edit.o, edit.r)})

RECURSIVE Copies(_, _)
Copies(s, k) == IF k = 0 THEN <<>> ELSE s \o Copies(s, k - 1)

\* A repeated_text fix passes if and only if it takes adjacent copies of up to
\* MaxRepeat words out of what was said, and no sentence ends among what it takes.
RepeatIsExact ==
  Checked /\ edit.type = "repeat" /\ verdict # "cosmetic_only" =>
    (verdict = "pass" <=>
       \E i \in 0 .. Len(edit.o), size \in 1 .. MaxRepeat, k \in 2 .. Len(edit.o) :
         /\ i + k * size <= Len(edit.o)
         /\ LET unit == Cut(edit.o, i, i + size)
                rest == Cut(edit.o, i + k * size, Len(edit.o))
            IN /\ edit.o = Cut(edit.o, 0, i) \o Copies(unit, k) \o rest
               /\ edit.r = Cut(edit.o, 0, i) \o unit \o rest
               /\ edit.breaks \cap (i + size .. i + k * size - 1) = {})

\* A dropped_word fix passes if and only if the original's words are all there, in
\* order, among a few more.
InsertsOnly ==
  Checked /\ edit.type = "dropped" /\ verdict # "cosmetic_only" =>
    (verdict = "pass" <=>
       /\ edit.o # <<>> /\ Len(edit.r) - Len(edit.o) \in 1 .. MaxInserted
       /\ \E K \in SUBSET (DOMAIN edit.r) :
            /\ Cardinality(K) = Len(edit.o)
            /\ \A k \in K : edit.r[k] = edit.o[Cardinality({x \in K : x <= k})])

\* What the judge step drops at once, rung 0 would have refused however it sounds.
NeverStricter == verdict = "pass" => ~DroppedAtOnce(edit)

\* The words said to be new are all that is new: with them in place of what they
\* replace, the original is the replacement; and "this changes no word" is not
\* reached, as the code says.
NewIsAllThatIsNew ==
  Checked =>
    /\ verdict # "changes_no_word"
    /\ LET added == NewTokens(edit.o, edit.r)
           p     == Prefix(edit.o, edit.r)
       IN \E n \in p .. Len(edit.o) :
            edit.r = Cut(edit.o, 0, p) \o added \o Cut(edit.o, n, Len(edit.o))
=============================================================================
