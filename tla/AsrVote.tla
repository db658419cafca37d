------------------------------ MODULE AsrVote ------------------------------
(***************************************************************************)
(* What a second ASR model heard at a held finding's span                  *)
(* (internal/asrpilot): the span is placed in the production words, the    *)
(* pilot's words of the same time are aligned with them (a Myers diff),    *)
(* and what lies between the agreed words either side of the span is       *)
(* compared with the two readings.                                         *)
(*                                                                         *)
(* A word is a model value; Norm, Case and Letters say how it compares.    *)
(* A production word lasts one unit of time, the k-th from k-1 to k.  Spans*)
(* are of whole words here.                                                *)
(***************************************************************************)
EXTENDS Integers, FiniteSetsExt, SequencesExt

CONSTANTS
  Inputs,     \* what is voted on: a track, a finding and a pilot
  Norm,       \* word -> its normal form
  Case,       \* word -> it without punctuation, case kept
  Letters,    \* normal form -> its letters
  Variants,   \* pairs of normal forms that are spellings of one word
  TimedPad,   \* context read each side of the span
  SegmentPad, \* slack in picking segments
  MaxTokens,  \* most tokens a side
  MaxEdits    \* most edits between the two

VARIABLES
  input,      \* what is voted on
  vote        \* the vote, once there is one

vars == <<input, vote>>

NoVote == [is |-> "none"]
Unmappable(why) == [is |-> "unmappable", why |-> why]

Map(f, q)   == [i \in DOMAIN q |-> f[q[i]]]
Words(segs) == FlattenSeq([i \in DOMAIN segs |-> segs[i].words])
At(q, i, n) == SubSeq(q, i, i + n - 1)

-----------------------------------------------------------------------------
(* The alignment: a shortest edit script, by the furthest each diagonal is  *)
(* reached with d edits.                                                    *)

\* From x on diagonal k along equal words.
Slide(a, b, x, k) ==
  Max({t \in x .. Max({x, Len(a)}) :
          \A i \in x + 1 .. t : i - k \in DOMAIN b /\ a[i] = b[i - k]})

\* Mutant: ties go the other way on the way back.
LeftFirst(prev, d, k) == k # d /\ (k = -d \/ prev[k - 1] <= prev[k + 1])

\* Whether the furthest path to k comes down, from k + 1.
Down(prev, d, k) == k = -d \/ (k # d /\ prev[k - 1] < prev[k + 1])

Reached(a, b, v) == \E k \in DOMAIN v : v[k] >= Len(a) /\ v[k] - k >= Len(b)

\* diffMatches, forward: the furthest after no edit, after one, and so on
\* until the ends are reached.
Furthest(a, b) ==
  LET Step(prev, d) ==
        [k \in {j \in -d .. d : (j + d) % 2 = 0} |->
           Slide(a, b, IF Down(prev, d, k) THEN prev[k + 1] ELSE prev[k - 1] + 1, k)]
  IN FoldLeft(LAMBDA f, d : IF Reached(a, b, f[Len(f)]) THEN f ELSE Append(f, Step(f[d], d)),
              << [k \in {0} |-> Slide(a, b, 0, 0)] >>, [d \in 1 .. Len(a) + Len(b) |-> d])

Edits(a, b) == Len(Furthest(a, b)) - 1

\* diffMatches, back: the pairs matched on the path found, from <<n, m>>.
Back(f, n, m) ==
  LET Diagonal(x, y, px, py) == {<<x - i, y - i>> : i \in 0 .. Min({x - px, y - py}) - 1}
      Undo(s, d) ==
        LET k  == s.x - s.y
            pk == IF Down(f[d], d, k) THEN k + 1 ELSE k - 1
            px == f[d][pk]
        IN [x |-> px, y |-> px - pk, m |-> s.m \cup Diagonal(s.x, s.y, px, px - pk)]
      s0 == FoldLeft(Undo, [x |-> n, y |-> m, m |-> {}], Reverse([d \in 1 .. Len(f) - 1 |-> d]))
  IN s0.m \cup Diagonal(s0.x, s0.y, 0, 0)

Matches(a, b) == Back(Furthest(a, b), Len(a), Len(b))

\* An unmatched run, from i0 and j0 up to i1 and j1: word by word, what is
\* longer before the others in a leading run and after them elsewhere.
Run(i0, i1, j0, j1) ==
  LET la == i1 - i0
      lb == j1 - j0
      n  == Max({la, lb})
      Shift(l) == IF i0 = 0 /\ j0 = 0 THEN n - l ELSE 0
      Of(from, l, c) == IF c - Shift(l) \in 1 .. l THEN from + c - Shift(l) ELSE 0
  IN [c \in 1 .. n |-> <<Of(i0, la, c), Of(j0, lb, c)>>]

\* Align: the columns, of an index a side or 0 for a gap; q has the matches in
\* order, and n and m are the lengths.
Columns(q, n, m) ==
  LET P(k) == IF k = 0 THEN <<0, 0>> ELSE q[k]
      last == P(Len(q))
  IN FlattenSeq([k \in DOMAIN q |-> Append(Run(P(k - 1)[1], q[k][1] - 1, P(k - 1)[2], q[k][2] - 1), q[k])])
       \o Run(last[1], n, last[2], m)

Align(a, b) ==
  Columns(SetToSortSeq(Matches(a, b), LAMBDA p, r : p[1] < r[1]), Len(a), Len(b))

-----------------------------------------------------------------------------
(* Where the span is.                                                       *)

Occurrences(chunk, o) == {i \in 1 .. Len(chunk) - Len(o) + 1 : At(chunk, i, Len(o)) = o}

\* Mutant: of several occurrences the first is taken.
FirstOccurrence(chunk, o, offset) == IF Occurrences(chunk, o) = {} THEN 0 ELSE Min(Occurrences(chunk, o))

\* locateSpan: where the judge said, if it is there, else the only occurrence.
Locate(chunk, o, offset) ==
  LET S == Occurrences(chunk, o)
  IN IF offset \in S THEN offset ELSE IF Cardinality(S) = 1 THEN CHOOSE i \in S : TRUE ELSE 0

Before(segs, s) == Len(Words(SubSeq(segs, 1, s - 1)))

\* spanTokens: whole segments, from the one at the chunk's start, must read as
\* the chunk does.
Reproduces(in) ==
  \E hi \in in.seg - 1 .. Len(in.segs) : Words(SubSeq(in.segs, in.seg, hi)) = in.chunk

TimedWords(in) ==
  FlattenSeq([i \in DOMAIN in.segs |-> [k \in DOMAIN in.segs[i].words |-> in.segs[i].timed]])

-----------------------------------------------------------------------------
(* What was heard there.  Pilot segments are [words, from, to]; a word is   *)
(* given its time, or one evenly within its segment.                        *)

PilotWord(seg, s, k) ==
  LET n == Len(seg.words)
  IN [word |-> seg.words[k], seg |-> s,
      twice |-> 2 * seg.from + ((seg.to - seg.from) * (2 * k - 1)) \div n,  \* twice its midpoint
      from |-> seg.from + ((seg.to - seg.from) * (k - 1)) \div n,
      to   |-> seg.from + ((seg.to - seg.from) * k) \div n]

PilotWords(pilot) ==
  FlattenSeq([s \in DOMAIN pilot.segs |->
                [k \in DOMAIN pilot.segs[s].words |-> PilotWord(pilot.segs[s], s, k)]])

\* The pilot's segments at the span, and the words considered.
Overlapping(pilot, t0, t1, pad) ==
  {s \in DOMAIN pilot.segs : pilot.segs[s].to > t0 - pad /\ pilot.segs[s].from < t1 + pad}

Window(pilot, t0, t1) ==
  LET S == Overlapping(pilot, t0, t1, SegmentPad)
  IN IF pilot.timed THEN <<t0 - TimedPad, t1 + TimedPad>>
     ELSE <<pilot.segs[Min(S)].from, pilot.segs[Max(S)].to>>

Candidates(pilot, t0, t1) ==
  LET S == Overlapping(pilot, t0, t1, SegmentPad)
      w == Window(pilot, t0, t1)
  IN SelectSeq(PilotWords(pilot),
       LAMBDA t : IF pilot.timed THEN t.to > w[1] /\ t.from < w[2]
                  ELSE t.seg \in Min(S) .. Max(S))

\* Agreed words of one side of the span.
Anchors(cols, pn, qn, side(_)) ==
  {k \in DOMAIN cols : /\ cols[k][1] # 0 /\ cols[k][2] # 0 /\ side(cols[k][1])
                       /\ pn[cols[k][1]] = qn[cols[k][2]]}

\* Mutant: a side without an agreed word ends at the span's own columns.
SpanOnly(cols, a, b, pn, qn) ==
  LET left  == Anchors(cols, pn, qn, LAMBDA i : i < a)
      right == Anchors(cols, pn, qn, LAMBDA i : i > b)
  IN [lo |-> IF left # {} THEN Max(left) ELSE Min({k \in DOMAIN cols : cols[k][1] >= a}) - 1,
      hi |-> IF right # {} THEN Min(right) ELSE Max({k \in DOMAIN cols : cols[k][1] \in 1 .. b}) + 1,
      anchored |-> left # {} \/ right # {}]

\* gap: the columns strictly between the anchors, the last agreed word before
\* production's a-th and the first after its b-th; a side without one ends at
\* the span's own columns and the pilot's next to them.
Gap(cols, a, b, pn, qn) ==
  LET left  == Anchors(cols, pn, qn, LAMBDA i : i < a)
      right == Anchors(cols, pn, qn, LAMBDA i : i > b)
      Outer(K) == {k \in K : cols[k][1] # 0}
      from  == Min({k \in DOMAIN cols : cols[k][1] >= a})
      to    == Max({k \in DOMAIN cols : cols[k][1] \in 1 .. b})
  IN [lo |-> IF left # {} THEN Max(left) ELSE Max({0} \cup Outer(1 .. from - 1)),
      hi |-> IF right # {} THEN Min(right) ELSE Min({Len(cols) + 1} \cup Outer(to + 1 .. Len(cols))),
      anchored |-> left # {} \/ right # {}]

\* What the gap's columns hold, or the words of the time of an unanchored one.
Within(cand, cols, g, t0, t1, timed) ==
  IF ~g.anchored /\ timed
  THEN SelectSeq(cand, LAMBDA t : t.twice >= 2 * t0 /\ t.twice <= 2 * t1)
  ELSE LET heard == SelectSeq(SubSeq(cols, g.lo + 1, g.hi - 1), LAMBDA c : c[2] # 0)
       IN [i \in DOMAIN heard |-> cand[heard[i][2]]]

\* heard, of the span first .. last of the production words.
Heard(prod, first, last, pilot) ==
  LET t0   == first - 1
      t1   == last
      w    == Window(pilot, t0, t1)
      cand == Candidates(pilot, t0, t1)
      wlo  == Min({i \in 1 .. first : i = first \/ \A j \in i .. first - 1 : j > w[1]})
      whi  == Max({i \in last .. Len(prod) : i = last \/ \A j \in last + 1 .. i : j - 1 < w[2]})
      pn   == Map(Norm, SubSeq(prod, wlo, whi))
      qn   == [i \in DOMAIN cand |-> Norm[cand[i].word]]
      cols == Align(pn, qn)
      g    == Gap(cols, first - wlo + 1, last - wlo + 1, pn, qn)
      said == Within(cand, cols, g, t0, t1, pilot.timed)
  IN CASE Overlapping(pilot, t0, t1, IF pilot.timed THEN 0 ELSE SegmentPad) = {} -> Unmappable("no coverage")
       [] Max({Len(pn), Len(qn)}) > MaxTokens -> Unmappable("window too large")
       [] cand = <<>> -> [is |-> "heard", words |-> <<>>, anchored |-> FALSE]
       [] Edits(pn, qn) > MaxEdits -> Unmappable("align too different")
       [] OTHER -> [is |-> "heard", words |-> [i \in DOMAIN said |-> said[i].word],
                    anchored |-> g.anchored]

-----------------------------------------------------------------------------
(* Which reading that is.                                                   *)

\* levenshteinBuf, row by row: a cell is reached from the row above, and then
\* along its own row.
Levenshtein(a, b) ==
  LET Row(row, x) ==
        LET Above(i) == IF i = 0 THEN row[1] + 1
                        ELSE IF x = b[i] THEN row[i] ELSE 1 + Min({row[i], row[i + 1]})
        IN [j \in DOMAIN row |-> Min({Above(i) + j - 1 - i : i \in 0 .. j - 1})]
  IN Last(FoldLeft(Row, [j \in 1 .. Len(b) + 1 |-> j - 1], a))

Compact(q) == FlattenSeq(Map(Letters, q))

\* Similarity, in tenths of a percent.
Similarity(a, b) ==
  LET n == Max({Len(a), Len(b)}) IN IF n = 0 THEN 1000 ELSE 1000 - (1000 * Levenshtein(a, b)) \div n

\* simVote: near one reading, and clearly nearer to it than to the other.
SimVote(h, o, r) ==
  LET sr == Similarity(h, r)
      so == Similarity(h, o)
  IN CASE sr >= 800 /\ sr - so >= 100 -> "heard_replacement"
       [] so >= 800 /\ so - sr >= 100 -> "heard_original"
       [] OTHER -> "neither"

\* sharedEnds: the words that all three begin and end with.
SharedStart(a, b, c) ==
  Max({n \in 0 .. Min({Len(a), Len(b), Len(c)}) : At(a, 1, n) = At(b, 1, n) /\ At(a, 1, n) = At(c, 1, n)})
SharedEnd(a, b, c, pre) ==
  LET E(q, n) == SubSeq(q, Len(q) - n + 1, Len(q))
  IN Max({n \in 0 .. Min({Len(a), Len(b), Len(c)}) - pre : E(a, n) = E(b, n) /\ E(a, n) = E(c, n)})

\* The similarity vote must hold on the whole and on what differs.
NearVote(h, o, r) ==
  LET whole == SimVote(Compact(h), Compact(o), Compact(r))
      pre == SharedStart(o, r, h)
      suf == SharedEnd(o, r, h, pre)
      Core(q) == SubSeq(q, pre + 1, Len(q) - suf)
  IN CASE pre + suf = 0 -> whole
       [] Core(o) = <<>> \/ Core(r) = <<>> -> "neither"
       [] OTHER -> IF SimVote(Compact(Core(h)), Compact(Core(o)), Compact(Core(r))) = whole
                   THEN whole ELSE "neither"

\* spellingVariant.
Variant(o, r) ==
  /\ o # r /\ Len(o) = Len(r)
  /\ \A i \in DOMAIN o : o[i] = r[i] \/ {o[i], r[i]} \in Variants

\* decideVote: readings that differ in case or punctuation only are told apart
\* as written, by a pilot that writes case.
DecideStyle(h, o, r, cased) ==
  LET form == IF Map(Case, o) = Map(Case, r) THEN [w \in DOMAIN Case |-> w] ELSE Case
      said == Map(form, h)
  IN CASE ~cased -> "unmappable"
       [] said = <<>> -> "neither"
       [] said = Map(form, r) -> "heard_replacement"
       [] said = Map(form, o) -> "heard_original"
       [] OTHER -> "neither"

DecideWords(h, o, r) ==
  LET ch == Compact(h)
      co == Compact(o)
      cr == Compact(r)
  IN CASE h = <<>> -> "neither"
       [] h = r -> "heard_replacement"
       [] h = o -> "heard_original"
       [] cr # co /\ ch = cr -> "heard_replacement"
       [] cr # co /\ ch = co -> "heard_original"
       [] OTHER -> NearVote(h, o, r)

SameWords(in) == Map(Norm, in.original) = Map(Norm, in.replacement)
StyleOnly(in) == SameWords(in) \/ Variant(Map(Norm, in.original), Map(Norm, in.replacement))
Decide(in, heard) ==
  IF SameWords(in) THEN DecideStyle(heard, in.original, in.replacement, in.pilot.cased)
  ELSE DecideWords(Map(Norm, heard), Map(Norm, in.original), Map(Norm, in.replacement))

\* A reading is heard only next to an agreed word and at known times.
Cap(v, anchored, timed) ==
  IF v \in {"heard_replacement", "heard_original"} /\ ~(anchored /\ timed) THEN "neither" ELSE v

\* Vote: what h, heard at the span, says, unless the span was refused.
Judged(in, first, h) ==
  LET timed == \A k \in first .. first + Len(in.original) - 1 : TimedWords(in)[k]
      v     == Cap(Decide(in, h.words), h.anchored, timed)
  IN CASE h.is = "unmappable" -> h
       [] v = "unmappable" -> Unmappable("case only, uncased pilot")
       [] OTHER -> [is |-> IF StyleOnly(in) THEN "style_only" ELSE v, style |-> v,
                    words |-> h.words, at |-> first]

Vote(in) ==
  LET i     == Locate(in.chunk, in.original, in.offset)
      first == Before(in.segs, in.seg) + i
      last  == first + Len(in.original) - 1
  IN CASE ~in.found -> Unmappable("chunk missing")
       [] ~in.same -> Unmappable("chunk changed")
       [] i = 0 -> Unmappable("anchor")
       [] ~Reproduces(in) -> Unmappable("segments do not reproduce chunk")
       [] OTHER -> Judged(in, first, Heard(Words(in.segs), first, last, in.pilot))

Init == input \in Inputs /\ vote = NoVote
Next == vote = NoVote /\ vote' = Vote(input) /\ UNCHANGED input
Spec == Init /\ [][Next]_vars

-----------------------------------------------------------------------------
(* Properties.                                                              *)

Voted == vote # NoVote /\ vote.is # "unmappable"
Prod  == Words(input.segs)
Said  == Words(input.pilot.segs)

Subsequences(q) == {Map(q, SetToSortSeq(I, <)) : I \in SUBSET DOMAIN q}
Longest(a, b)   == Max({Len(q) : q \in Subsequences(a) \cap Subsequences(b)})

\* The alignment matches as many words as any does, and holds every word of
\* both sides once and in order.
AlignsBest ==
  LET p == Map(Norm, Prod)
      q == Map(Norm, Said)
      cols == Align(p, q)
      Side(s) == SelectSeq([k \in DOMAIN cols |-> cols[k][s]], LAMBDA i : i # 0)
  IN vote # NoVote =>
       /\ Side(1) = [i \in DOMAIN p |-> i] /\ Side(2) = [i \in DOMAIN q |-> i]
       /\ Longest(p, q) =
            Cardinality({k \in DOMAIN cols : /\ cols[k][1] # 0 /\ cols[k][2] # 0
                                             /\ p[cols[k][1]] = q[cols[k][2]]})

\* The track with the finding's correction in place.
Corrected ==
  SubSeq(Prod, 1, vote.at - 1) \o input.replacement
    \o SubSeq(Prod, vote.at + Len(input.original), Len(Prod))

\* No word of a reading is written outside the span.
Unrepeated ==
  \A k \in DOMAIN Prod : k \in vote.at .. vote.at + Len(input.original) - 1
                           \/ Norm[Prod[k]] \notin Range(Map(Norm, input.original \o input.replacement))

\* One segment of the whole track: its words are placed by the alignment only.
WholeTrack ==
  LET S == input.pilot.segs
  IN ~input.pilot.timed /\ Len(S) = 1 /\ S[1].from = 0 /\ S[1].to = Len(Prod)

\* A pilot that wrote what production wrote is heard for the original, however
\* the words around the span repeat it, and one that wrote the corrected text
\* for the correction, where the readings are not repeated; and never the other
\* way round, at whatever times its words are.
HearsWhatWasSaid ==
  LET Ends == WholeTrack /\ Len(Prod) > Len(input.original)
                /\ \A k \in DOMAIN TimedWords(input) : TimedWords(input)[k]
  IN Voted =>
       /\ Said = Prod => vote.style \in {"heard_original"} \cup (IF Ends THEN {} ELSE {"neither"})
       /\ Said = Corrected /\ Unrepeated =>
            vote.style \in {"heard_replacement"} \cup (IF Ends /\ input.replacement # <<>> THEN {} ELSE {"neither"})

\* A vote for a reading is by words nearer to it, in what the readings differ
\* in, than to the other; and of a place that is not a guess.
HeardIsNearer ==
  LET h == Map(Norm, vote.words)
      o == Map(Norm, input.original)
      r == Map(Norm, input.replacement)
      pre == SharedStart(o, r, h)
      Core(q) == Compact(SubSeq(q, pre + 1, Len(q) - SharedEnd(o, r, h, pre)))
  IN Voted =>
       /\ vote.is = "heard_replacement" => Levenshtein(Core(h), Core(r)) < Levenshtein(Core(h), Core(o))
       /\ vote.is = "heard_original" => Levenshtein(Core(h), Core(o)) < Levenshtein(Core(h), Core(r))
       /\ At(Words(input.segs), vote.at, Len(input.original)) = input.original
       /\ vote.at = Before(input.segs, input.seg) + input.offset
            \/ Cardinality(Occurrences(input.chunk, input.original)) = 1

=============================================================================
