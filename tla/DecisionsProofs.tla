-------------------------- MODULE DecisionsProofs --------------------------
(***************************************************************************)
(* What Decisions promises, for any findings, fixes, recipes, processes and*)
(* bounds.                                                                 *)
(*                                                                         *)
(* The first lemmas are about the pure part of a run (internal/decide): what*)
(* a conflict's ranking keeps, and that what a plan applies clashes neither*)
(* with itself nor with what it was made against.  The invariant then says *)
(* what is still true of a plan and of an undo's list when they are acted  *)
(* on, whatever was written since they were read.                          *)
(***************************************************************************)
EXTENDS Decisions, FiniteSetTheorems, WellFoundedInduction, TLAPS

-----------------------------------------------------------------------------
(* Ranking a conflict.                                                     *)

\* A set of numbers has a least one.
LEMMA Smallest ==
  ASSUME NEW S \in SUBSET Nat, S # {}
  PROVE  \E n \in S : \A m \in S : n <= m
<1> DEFINE R == {ss \in Nat \X Nat : ss[1] < ss[2]}
<1>1. IsWellFoundedOn(R, Nat)
  BY NatLessThanWellFounded DEF OpToRel
<1>2. \A m, n \in Nat : m < n => <<m, n>> \in R
  OBVIOUS
<1> HIDE DEF R
<1>3. PICK n \in S : \A m \in S : ~(<<m, n>> \in R)
  BY <1>1, WFMin
<1>4. \A m \in S : m \in Nat /\ n \in Nat /\ ~(m < n)
  BY <1>2, <1>3
<1> QED
  BY <1>4

LEMMA ClashIsMutual == ASSUME NEW f, NEW g PROVE Clash(f, g) <=> Clash(g, f)
<1>1. {FixOf[f], FixOf[g]} = {FixOf[g], FixOf[f]}
  OBVIOUS
<1> QED
  BY <1>1 DEF Clash

\* The ranking (RankConflicts) keeps a set: whatever it leaves out clashes with
\* a better one it keeps, and what it keeps does not.
LEMMA KeptIsRanked ==
  ASSUME NEW S, NEW rank, NEW top \in Nat, \A f \in S : rank[f] \in Nat /\ rank[f] < top
  PROVE  /\ Kept(S, rank) \subseteq S
         /\ \A f \in S : f \in Kept(S, rank)
              <=> ~\E g \in Kept(S, rank) : rank[g] < rank[f] /\ Clash(f, g)
<1> DEFINE Beaten(f, K) == \E g \in K : rank[g] < rank[f] /\ Clash(f, g)
           Upto(n, K) == /\ \A f \in K : rank[f] < n
                         /\ \A f \in S : rank[f] < n => (f \in K <=> ~Beaten(f, K))
           Open == {n \in Nat : ~\E K \in SUBSET S : Upto(n, K)}
<1>1. Open = {}
  <2> SUFFICES ASSUME Open # {} PROVE FALSE
    OBVIOUS
  <2>1. PICK n \in Open : \A m \in Open : n <= m
    BY Smallest
  <2>2. n # 0
    <3>1. \A f \in S : ~(rank[f] < 0)
      OBVIOUS
    <3>2. \A f \in S : rank[f] < 0 => (f \in {} <=> ~Beaten(f, {}))
      BY <3>1
    <3>3. \A f \in {} : rank[f] < 0
      OBVIOUS
    <3>4. Upto(0, {})
      BY <3>2, <3>3, Zenon
    <3>5. {} \in SUBSET S
      OBVIOUS
    <3> HIDE DEF Upto
    <3> QED
      BY <3>4, <3>5
  <2>3. PICK K \in SUBSET S : Upto(n - 1, K)
    BY <2>1, <2>2
  <2> DEFINE M == K \cup {f \in S : rank[f] = n - 1 /\ ~Beaten(f, K)}
  <2>4. \A f \in S : rank[f] < n => (Beaten(f, M) <=> Beaten(f, K))
    BY <2>1, <2>3
  <2>5. n \in Nat /\ n - 1 \in Nat /\ \A f \in S : rank[f] < n <=> rank[f] < n - 1 \/ rank[f] = n - 1
    BY <2>1, <2>2
  <2>6. \A f \in M : rank[f] < n
    BY <2>3, <2>5
  <2>7. \A f \in S : rank[f] < n => (f \in M <=> ~Beaten(f, K))
    BY <2>3, <2>5
  <2>8. Upto(n, M) /\ M \in SUBSET S
    BY <2>3, <2>4, <2>6, <2>7
  <2> QED
    BY <2>1, <2>8
<1>2. PICK K \in SUBSET S : Upto(top, K)
  BY <1>1
<1>3. \A f \in S : f \in K <=> ~\E g \in K : rank[g] < rank[f] /\ Clash(f, g)
  BY <1>2
<1> QED
  BY <1>3 DEF Kept

\* Of two fixes to the same text the ranking keeps one.
LEMMA KeptApart ==
  ASSUME NEW S, NEW rank, NEW top \in Nat, \A f \in S : rank[f] \in Nat /\ rank[f] < top,
         \A f, g \in S : rank[f] = rank[g] => f = g,
         NEW a \in Kept(S, rank), NEW b \in Kept(S, rank)
  PROVE  ~Clash(a, b)
<1>1. a \in S /\ b \in S
  BY KeptIsRanked
<1>2. CASE rank[a] < rank[b]
  BY <1>1, <1>2, KeptIsRanked, ClashIsMutual
<1>3. CASE rank[b] < rank[a]
  BY <1>1, <1>3, KeptIsRanked
<1>4. CASE rank[a] = rank[b]
  BY <1>1, <1>4 DEF Clash
<1> QED
  BY <1>1, <1>2, <1>3, <1>4

\* Two things make a set of more than one.
LEMMA TwoAreMany ==
  ASSUME NEW S, IsFiniteSet(S), NEW a \in S, NEW b \in S, a # b
  PROVE  Cardinality(S) > 1
<1> DEFINE T == {a} \cup {b}
<1>1. IsFiniteSet({a}) /\ Cardinality({a}) = 1
  BY FS_Singleton
<1>2. b \notin {a}
  OBVIOUS
<1>3. Cardinality(T) = Cardinality({a}) + 1
  BY <1>1, <1>2, FS_AddElement
<1>4. T \in SUBSET S
  OBVIOUS
<1> HIDE DEF T
<1>5. Cardinality(T) = 2
  BY <1>1, <1>3
<1>6. Cardinality(S) \in Nat /\ Cardinality(T) <= Cardinality(S)
  BY <1>4, FS_Subset, FS_CardinalityType
<1> QED
  BY <1>5, <1>6

\* What a conflict's decision applies is kept by its ranking, every member
\* having been answered (resolveConflicts).
LEMMA AppliedIsKept ==
  ASSUME NEW r, NEW S, IsFiniteSet(S), NEW ans, NEW rank, NEW f \in S,
         Resolved(r, S, ans, rank, f).outcome = "apply"
  PROVE  f \in Kept({g \in S : ans[g] # "reject"}, rank) /\ ans[f] = "apply"
<1> DEFINE K == Kept({g \in S : ans[g] # "reject"}, rank)
           w == WinnerOver(K, rank, f)
<1> HIDE DEF K, w
<1>1. Resolved(r, S, ans, rank, f) =
        IF ans[f] = "none" \/ (Cardinality(S) > 1 /\ ans[f] = "apply" /\ \E g \in S : ans[g] = "none")
          THEN Event(r, "hold", "jev_unavailable", 0, FALSE)
        ELSE IF ans[f] = "reject" \/ f \in K \/ \E g \in S : ans[g] = "none"
          THEN Event(r, ans[f], "p", 0, FALSE)
        ELSE IF ans[w] = "apply" THEN Event(r, "reject", "overlap_dup", w, FALSE)
        ELSE Event(r, "hold", "overlap_pending", w, FALSE)
  BY DEF Resolved, K, w
<1>2. /\ Event(r, "hold", "jev_unavailable", 0, FALSE).outcome # "apply"
      /\ Event(r, "reject", "overlap_dup", w, FALSE).outcome # "apply"
      /\ Event(r, "hold", "overlap_pending", w, FALSE).outcome # "apply"
      /\ Event(r, ans[f], "p", 0, FALSE).outcome = ans[f]
  BY DEF Event
<1>3. /\ ans[f] # "none"
      /\ ~(Cardinality(S) > 1 /\ ans[f] = "apply" /\ \E g \in S : ans[g] = "none")
  BY <1>1, <1>2
<1>4. /\ ans[f] = "reject" \/ f \in K \/ \E g \in S : ans[g] = "none"
      /\ ans[f] = "apply"
  <2>1. ans[f] = "reject" \/ f \in K \/ \E g \in S : ans[g] = "none"
    BY <1>1, <1>2, <1>3
  <2>2. Resolved(r, S, ans, rank, f) = Event(r, ans[f], "p", 0, FALSE)
    BY <1>1, <1>3, <2>1
  <2> QED
    BY <1>2, <2>1, <2>2
<1>5. ~\E g \in S : ans[g] = "none"
  BY <1>3, <1>4, TwoAreMany
<1> QED
  BY <1>4, <1>5 DEF K

-----------------------------------------------------------------------------
(* What a page is decided with (planChunk).                                *)

LEMMA ReachedIsBetween ==
  ASSUME NEW S \in SUBSET Findings, NEW E, NEW T \in SUBSET Findings, S \subseteq T,
         \A e \in E : e \cap T = {} \/ e \subseteq T
  PROVE  S \subseteq Reached(S, E) /\ Reached(S, E) \subseteq T
BY DEF Reached

LEMMA ReachedGoesOn ==
  ASSUME NEW S, NEW E, NEW a \in Reached(S, E), NEW b \in Findings, {a, b} \in E
  PROVE  b \in Reached(S, E)
<1>1. \A T \in SUBSET Findings :
        S \subseteq T /\ (\A e \in E : e \cap T = {} \/ e \subseteq T) => b \in T
  <2> TAKE T \in SUBSET Findings
  <2> HAVE S \subseteq T /\ (\A e \in E : e \cap T = {} \/ e \subseteq T)
  <2>1. a \in T
    BY DEF Reached
  <2>2. {a, b} \cap T = {} \/ {a, b} \subseteq T
    OBVIOUS
  <2> QED
    BY <2>1, <2>2
<1> QED
  BY <1>1 DEF Reached

\* A conflict has the same set whichever of its members it is looked up by.
LEMMA ReachedAlike ==
  ASSUME NEW E, NEW a \in Findings, NEW b \in Findings, {a, b} \in E
  PROVE  Reached({a}, E) = Reached({b}, E) /\ b \in Reached({a}, E)
<1>1. \A T \in SUBSET Findings :
        (\A e \in E : e \cap T = {} \/ e \subseteq T) => ({a} \subseteq T <=> {b} \subseteq T)
  <2> TAKE T \in SUBSET Findings
  <2> HAVE \A e \in E : e \cap T = {} \/ e \subseteq T
  <2>1. {a, b} \cap T = {} \/ {a, b} \subseteq T
    OBVIOUS
  <2> QED
    BY <2>1
<1>2. Reached({a}, E) = Reached({b}, E)
  BY <1>1 DEF Reached
<1>3. b \in Reached({b}, E)
  BY DEF Reached
<1> QED
  BY <1>2, <1>3

\* A proposed finding has a representative, among the findings of its fix.
LEMMA RepIsAMember ==
  ASSUME NEW r, NEW f \in Findings, State(f) = "proposed"
  PROVE  Rep(r, f) \in Members(f)
<1> DEFINE M == Members(f)
           T == [g \in M |-> Tier(r, g)]
<1>1. M \subseteq Findings /\ f \in M
  BY DEF Members
<1>2. \A g \in M : T[g] \in 0 .. 7
  <2>1. \A a, b, c \in BOOLEAN :
          (IF a THEN 4 ELSE 0) + (IF b THEN 2 ELSE 0) + (IF c THEN 1 ELSE 0) \in 0 .. 7
    OBVIOUS
  <2> QED
    BY <2>1 DEF Tier
<1>3. Findings \subseteq Nat
  BY FindingsAreNumbered
<1>4. Rep(r, f) = CHOOSE g \in DOMAIN T : \A h \in DOMAIN T : T[g] > T[h] \/ (T[g] = T[h] /\ g <= h)
  BY DEF Rep
<1>5. DOMAIN T = M
  OBVIOUS
<1> HIDE DEF M, T
<1> DEFINE Ranks == {n \in Nat : \E g \in M : n = 7 - T[g]}
<1>6. PICK n \in Ranks : \A m \in Ranks : n <= m
  <2>1. 7 - T[f] \in Ranks
    BY <1>1, <1>2
  <2> QED
    BY <2>1, Smallest
<1> DEFINE Best == {g \in M : n = 7 - T[g]}
<1>7. Best # {} /\ Best \in SUBSET Nat
  BY <1>1, <1>3, <1>6
<1>8. \A g \in Best, h \in M : T[g] > T[h] \/ (T[g] = T[h] /\ h \in Best)
  <2> SUFFICES ASSUME NEW g \in Best, NEW h \in M PROVE T[g] > T[h] \/ (T[g] = T[h] /\ h \in Best)
    OBVIOUS
  <2>1. T[g] \in 0 .. 7 /\ T[h] \in 0 .. 7 /\ n = 7 - T[g]
    BY <1>2
  <2>2. 7 - T[h] \in Ranks
    BY <2>1
  <2>3. n <= 7 - T[h]
    BY <1>6, <2>2
  <2> HIDE DEF Ranks
  <2> QED
    BY <2>1, <2>3
<1> HIDE DEF Best
<1>9. PICK g \in Best : \A h \in Best : g <= h
  BY <1>7, Smallest
<1>10. g \in M /\ \A h \in M : T[g] > T[h] \/ (T[g] = T[h] /\ g <= h)
  BY <1>8, <1>9 DEF Best
<1> QED
  BY <1>4, <1>5, <1>10 DEF M

\* What passes is no duplicate and clashes with no fix that is in; what is asked
\* about passes; and each has its conflict among what is asked about.
LEMMA GroupingFacts ==
  ASSUME NEW r, NEW page \in SUBSET Findings, NEW g, g = Grouping(r, page)
  PROVE  /\ g.dups = Duplicates(r)
         /\ g.passing \subseteq Findings
         /\ \A f \in g.passing : f \notin g.dups /\ ~Blocked(f)
         /\ g.asked \subseteq g.passing
         /\ \A f \in page : f \in g.passing => f \in g.asked
         /\ \A a, b \in g.passing : Clash(a, b) => b \in g.against[a]
         /\ \A f \in g.asked : f \in g.set[f] /\ g.set[f] \subseteq g.asked
         /\ \A a, b \in g.asked : Clash(a, b) => g.set[a] = g.set[b] /\ b \in g.set[a]
<1> DEFINE dups == Duplicates(r)
           passing == Passing(page, dups)
           against == [f \in Findings |-> {h \in passing : f \in passing /\ Clash(f, h)}]
           links == {{f, Rep(r, f)} : f \in dups} \cup UNION {{{f, h} : h \in against[f]} : f \in passing}
           touched == Reached(page, links)
           asked == {f \in passing : f \in page \/ (f \in touched /\ against[f] # {})}
           edges == UNION {{{f, h} : h \in against[f]} : f \in asked}
           sets == [f \in asked |-> Reached({f}, edges)]
<1>1. g = [dups |-> dups, passing |-> passing, against |-> against, touched |-> touched,
           asked |-> asked, set |-> sets]
  BY DEF Grouping
<1> HIDE DEF dups
<1>2. passing \subseteq Findings /\ \A f \in passing : f \notin dups /\ ~Blocked(f)
  BY DEF Passing
<1> HIDE DEF passing
<1>3. /\ \A a, b \in passing : Clash(a, b) => b \in against[a]
      /\ \A a \in Findings : against[a] \subseteq passing
      /\ \A a \in passing : \A b \in against[a] : Clash(a, b)
  BY <1>2
<1>4. asked \subseteq passing
  OBVIOUS
<1>5. \A f, h \in passing : h \in against[f] => {f, h} \in links
  BY <1>2
<1>6. \A f \in passing, h \in passing : f \in asked /\ h \in against[f] => h \in asked
  <2> SUFFICES ASSUME NEW f \in asked, NEW h \in passing, h \in against[f] PROVE h \in asked
    BY <1>4
  <2>1. f \in touched
    <3>1. CASE f \in page
      BY <3>1 DEF Reached
    <3> QED
      BY <3>1
  <2>2. h \in touched
    <3> HIDE DEF links, against, asked
    <3> QED
      BY <1>2, <1>4, <1>5, <2>1, ReachedGoesOn
  <2>3. f \in against[h]
    BY <1>2, <1>3, <1>4, ClashIsMutual
  <2> QED
    BY <2>2, <2>3
<1> HIDE DEF against, touched, asked, links
<1>7. \A a, b \in asked : Clash(a, b) => {a, b} \in edges
  BY <1>3, <1>4
<1>8. \A e \in edges : e \cap asked = {} \/ e \subseteq asked
  BY <1>2, <1>3, <1>4, <1>6
<1> HIDE DEF edges
<1>9. \A f \in asked : f \in Reached({f}, edges) /\ Reached({f}, edges) \subseteq asked
  BY <1>2, <1>4, <1>8, ReachedIsBetween
<1>10. \A a, b \in asked : Clash(a, b) =>
         Reached({a}, edges) = Reached({b}, edges) /\ b \in Reached({a}, edges)
  BY <1>2, <1>4, <1>7, ReachedAlike
<1>11. \A f \in page : f \in passing => f \in asked
  BY DEF asked
<1> QED
  BY <1>1, <1>2, <1>3, <1>4, <1>9, <1>10, <1>11 DEF dups

Applies(i) == i.e.outcome = "apply"

\* What a plan applies clashes neither with a fix it saw in nor with itself, and
\* its duplicates name a finding.
Sound(items, seen) ==
  /\ \A i \in items : i.f \in Findings /\ (i.e.outcome = "duplicate" => i.e.about \in Findings)
  /\ \A i \in items : Applies(i) => \A g \in seen : ~Clash(i.f, g)
  /\ \A i, j \in items : Applies(i) /\ Applies(j) => ~Clash(i.f, j.f)

\* Of what the model was asked about.
LEMMA AskedIsSound ==
  ASSUME NEW r, NEW page \in SUBSET Findings, NEW g, g = Grouping(r, page),
         NEW ans \in [g.asked -> {"apply", "hold", "reject", "none"}],
         NEW rank \in [g.asked -> 1 .. Cardinality(g.asked)], IsInjective(rank)
  PROVE  Sound({Item(f, DecisionOn(r, g, ans, rank, f)) : f \in page \cup (g.touched \cap g.dups)}, Overlay)
<1> DEFINE D(f) == DecisionOn(r, g, ans, rank, f)
           Of(f) == {h \in g.set[f] : ans[h] # "reject"}
           planned == page \cup (g.touched \cap g.dups)
<1>1. /\ g.dups = Duplicates(r)
      /\ g.passing \subseteq Findings
      /\ \A f \in g.passing : f \notin g.dups /\ ~Blocked(f)
      /\ g.asked \subseteq g.passing
      /\ \A f \in page : f \in g.passing => f \in g.asked
      /\ \A f \in g.asked : f \in g.set[f] /\ g.set[f] \subseteq g.asked
      /\ \A a, b \in g.asked : Clash(a, b) => g.set[a] = g.set[b] /\ b \in g.set[a]
  BY GroupingFacts
<1>2. \A f \in g.dups : f \in Findings /\ State(f) = "proposed"
  BY <1>1 DEF Duplicates
<1>3. \A f \in planned : f \in Findings
  BY <1>2
<1>4. /\ \A f \in g.dups : D(f) = Event(r, "duplicate", "duplicate", Rep(r, f), FALSE)
      /\ \A f : f \notin g.dups /\ f \notin g.passing => D(f) = Event(r, "reject", "rung0", 0, FALSE)
      /\ \A f \in g.passing : D(f) = Resolved(r, g.set[f], ans, rank, f)
  BY <1>1 DEF DecisionOn
<1>5. \A f \in planned : D(f).outcome = "duplicate" => D(f).about \in Findings
  <2> SUFFICES ASSUME NEW f \in planned, D(f).outcome = "duplicate" PROVE D(f).about \in Findings
    OBVIOUS
  <2>1. CASE f \in g.dups
    <3>1. D(f).about = Rep(r, f)
      BY <1>4, <2>1 DEF Event
    <3>2. Rep(r, f) \in Findings
      BY <1>2, <2>1, RepIsAMember DEF Members
    <3> QED
      BY <3>1, <3>2
  <2>2. CASE f \notin g.dups /\ f \notin g.passing
    BY <1>4, <2>2 DEF Event
  <2>3. CASE f \notin g.dups /\ f \in g.passing
    <3>1. f \in g.asked /\ ans[f] # "duplicate"
      BY <1>1, <2>3
    <3>2. Resolved(r, g.set[f], ans, rank, f).outcome # "duplicate"
      BY <3>1 DEF Resolved, Event
    <3> QED
      BY <1>4, <2>3, <3>2
  <2> QED
    BY <2>1, <2>2, <2>3
<1>6. \A f \in planned : D(f).outcome = "apply" => f \in g.asked /\ f \in Kept(Of(f), rank)
  <2> SUFFICES ASSUME NEW f \in planned, D(f).outcome = "apply"
               PROVE  f \in g.asked /\ f \in Kept(Of(f), rank)
    OBVIOUS
  <2>1. f \notin g.dups /\ f \in g.passing
    BY <1>4 DEF Event
  <2>2. f \in g.asked
    BY <1>1, <2>1
  <2>3. Resolved(r, g.set[f], ans, rank, f).outcome = "apply"
    BY <1>4, <2>1
  <2>4. f \in g.set[f] /\ g.set[f] \in SUBSET Findings
    BY <1>1, <2>2
  <2>5. IsFiniteSet(g.set[f])
    BY <2>4, FS_Subset, FindingsAreNumbered
  <2> QED
    BY <2>2, <2>3, <2>4, <2>5, AppliedIsKept
<1>7. PICK top \in Nat : \A f \in g.asked : rank[f] \in Nat /\ rank[f] < top
  <2>1. g.asked \in SUBSET Findings
    BY <1>1
  <2>2. Cardinality(g.asked) \in Nat
    BY <2>1, FS_Subset, FS_CardinalityType, FindingsAreNumbered
  <2>3. Cardinality(g.asked) + 1 \in Nat
        /\ \A f \in g.asked : rank[f] \in Nat /\ rank[f] < Cardinality(g.asked) + 1
    BY <2>2
  <2> QED
    BY <2>3
<1>8. \A a, b \in planned : D(a).outcome = "apply" /\ D(b).outcome = "apply" => ~Clash(a, b)
  <2> SUFFICES ASSUME NEW a \in planned, NEW b \in planned,
                      D(a).outcome = "apply", D(b).outcome = "apply", Clash(a, b)
               PROVE  FALSE
    OBVIOUS
  <2>1. a \in g.asked /\ b \in g.asked /\ a \in Kept(Of(a), rank) /\ b \in Kept(Of(b), rank)
    BY <1>6
  <2>2. Of(a) = Of(b)
    BY <1>1, <2>1
  <2>3. \A f \in Of(a) : rank[f] \in Nat /\ rank[f] < top
    BY <1>1, <1>7, <2>1
  <2>4. \A f, h \in Of(a) : rank[f] = rank[h] => f = h
    BY <1>1, <2>1 DEF IsInjective
  <2> HIDE DEF Of
  <2> QED
    BY <2>1, <2>2, <2>3, <2>4, KeptApart
<1>9. \A f \in planned : D(f).outcome = "apply" => \A h \in Overlay : ~Clash(f, h)
  BY <1>1, <1>6 DEF Blocked
<1> HIDE DEF D, planned
<1>10. \A f : Item(f, D(f)).f = f /\ Item(f, D(f)).e = D(f)
  BY DEF Item
<1>11. Sound({Item(f, D(f)) : f \in planned}, Overlay)
  BY <1>3, <1>5, <1>8, <1>9, <1>10 DEF Sound, Applies
<1> QED
  BY <1>11 DEF D, planned

\* Of what the audio-vote rung heard.
LEMMA HeardIsSound ==
  ASSUME NEW r, NEW page \in SUBSET Findings, NEW g, g = Grouping(r, page), NEW heard
  PROVE  Sound({i \in {Item(f, AudioDecision(r, g, heard[f], f)) : f \in page} : i.e # NoEvent}, Overlay)
<1> DEFINE D(f) == AudioDecision(r, g, heard[f], f)
<1>1. /\ g.passing \subseteq Findings
      /\ \A f \in g.passing : f \notin g.dups /\ ~Blocked(f)
      /\ \A a, b \in g.passing : Clash(a, b) => b \in g.against[a]
  BY GroupingFacts
<1>2. \A f \in page : D(f).outcome # "duplicate"
  BY DEF AudioDecision, Event, NoEvent
<1>3. \A f \in page : D(f).outcome = "apply" =>
        f \in g.passing /\ Latest(f).reason = "p" /\ \A h \in g.against[f] : LostTo(h, f)
  BY DEF AudioDecision, Event, NoEvent
<1>4. \A a, b \in page : D(a).outcome = "apply" /\ D(b).outcome = "apply" => ~Clash(a, b)
  BY <1>1, <1>3 DEF LostTo
<1>5. \A f \in page : D(f).outcome = "apply" => \A h \in Overlay : ~Clash(f, h)
  BY <1>1, <1>3 DEF Blocked
<1> HIDE DEF D
<1>6. \A f : Item(f, D(f)).f = f /\ Item(f, D(f)).e = D(f)
  BY DEF Item
<1>7. Sound({i \in {Item(f, D(f)) : f \in page} : i.e # NoEvent}, Overlay)
  BY <1>2, <1>4, <1>5, <1>6 DEF Sound, Applies
<1> QED
  BY <1>7 DEF D

-----------------------------------------------------------------------------
(* The invariant.                                                          *)

\* Every finding has its fields, and a duplicate is a decide run's.
FinOK ==
  /\ DOMAIN fin = Findings
  /\ \A f \in Findings :
       /\ DOMAIN fin[f] = {"state", "by", "of"}
       /\ State(f) = "duplicate" => fin[f].by.who = "jev" /\ fin[f].of \in Findings

RunOK ==
  /\ DOMAIN run = Runners
  /\ \A p \in Runners : DOMAIN run[p] = DOMAIN Idle /\ Sound(run[p].plan, run[p].seen)

\* But for what someone wrote since: what an undo listed is as it was listed or
\* undone, what it has done is undone, and what it must undo is listed.
UndoOK ==
  /\ DOMAIN undo = DOMAIN NoUndo
  /\ undo.on =>
       /\ undo.scope \subseteq Findings
       /\ \A c \in undo.cands :
            /\ c.f \in Findings
            /\ \/ c.f \in undo.since
               \/ fin[c.f].by.who = "undo"
               \/ State(c.f) = c.state /\ fin[c.f].by.who = "jev"
       /\ \A f \in undo.done : f \in Findings /\ (f \in undo.since \/ fin[f].by.who = "undo")
       /\ \A d \in Candidates(undo.recipes, undo.scope) :
            d.f \in undo.since \/ \E c \in undo.cands : c.f = d.f

Inv == FinOK /\ RunOK /\ UndoOK /\ OneFixPerText

\* What a person's decision and a duplicate may see of a step.
PersonStep ==
  \A f \in Findings : fin[f].by = Person /\ State(f) \in Undoable /\ fin'[f].by.who \in {"jev", "undo"} =>
    f \in undo.since \/ RejectedWith(f) # {}
FollowStep ==
  \A f \in Findings : LeftBehind(f)' /\ ~LeftBehind(f) => State(fin'[f].of) = "duplicate"

\* A writer other than the undo writes W.
Written(W) ==
  /\ W \subseteq Findings
  /\ DOMAIN fin' = Findings
  /\ \A f \in Findings : f \notin W => fin'[f] = fin[f]
  /\ \A f \in W : fin'[f] = fin[f] \/
       /\ DOMAIN fin'[f] = {"state", "by", "of"}
       /\ fin'[f].by.who # "undo" \/ fin'[f].state \notin {"rejected", "reverted"}
       /\ fin'[f].state = "duplicate" =>
            fin'[f].by.who = "jev" /\ fin'[f].of \in Findings /\ State(fin'[f].of) \in Live
       /\ fin[f].by = Person /\ State(f) \in Undoable => fin'[f].by.who \notin {"jev", "undo"}
  /\ Since(W)

LEMMA WrittenKeeps ==
  ASSUME FinOK, UndoOK, NEW W, Written(W)
  PROVE  FinOK' /\ UndoOK' /\ PersonStep /\ FollowStep
<1>1. FinOK'
  BY DEF FinOK, Written, State
<1>2. UndoOK'
  <2>1. CASE ~undo.on
    BY <2>1 DEF UndoOK, Written, Since
  <2>2. CASE undo.on
    <3>1. /\ undo' = [undo EXCEPT !.since = undo.since \cup W]
          /\ \A f \in Findings : f \notin W => fin'[f] = fin[f]
      BY <2>2 DEF Written, Since
    <3>2. /\ DOMAIN undo' = DOMAIN NoUndo /\ undo'.on /\ undo'.scope = undo.scope
          /\ undo'.cands = undo.cands /\ undo'.done = undo.done /\ undo'.recipes = undo.recipes
          /\ undo'.since = undo.since \cup W
      BY <2>2, <3>1 DEF UndoOK, NoUndo
    <3>3. \A d \in Candidates(undo.recipes, undo.scope)' :
            d.f \in W \/ d \in Candidates(undo.recipes, undo.scope)
      BY <2>2, <3>1, <3>2 DEF Candidates, State, UndoOK
    <3> QED
      BY <2>2, <3>1, <3>2, <3>3 DEF UndoOK, State
  <2> QED
    BY <2>1, <2>2
<1>3. PersonStep
  <2>1. Person.who = "person"
    BY DEF Person
  <2> QED
    BY <2>1 DEF PersonStep, Written
<1>4. FollowStep
  <2> SUFFICES ASSUME NEW f \in Findings, LeftBehind(f)', ~LeftBehind(f) PROVE FALSE
    BY DEF FollowStep
  <2> DEFINE h == fin'[f].of
  <2>1. /\ fin'[f].state = "duplicate" /\ fin'[h].state \in {"rejected", "reverted"}
        /\ fin'[h].by.who = "undo"
    BY DEF LeftBehind, State
  <2>2. h \in Findings
    BY <1>1, <2>1 DEF FinOK, State
  <2>3. fin'[h] = fin[h]
    BY <2>1, <2>2 DEF Written
  <2>4. CASE fin'[f] = fin[f]
    BY <2>1, <2>3, <2>4 DEF LeftBehind, State
  <2>5. CASE fin'[f] # fin[f]
    BY <2>1, <2>3, <2>5 DEF Written, State, Live
  <2> QED
    BY <2>4, <2>5
<1> QED
  BY <1>1, <1>2, <1>3, <1>4

-----------------------------------------------------------------------------
(* A run.                                                                  *)

LEMMA PlanKeeps ==
  ASSUME RunOK, NEW p \in Runners, Plan(p)
  PROVE  RunOK' /\ UNCHANGED <<fin, log, undo, unseen>>
<1> DEFINE r == run[p].recipe
           Work == {f \in Findings : f > run[p].after /\ InWork(r, f)}
<1>1. PICK last \in Work :
        LET page == {f \in Work : f <= last}
            g == Grouping(r, page)
            Planned(items) == run' = [run EXCEPT ![p].pc = "fresh", ![p].after = last,
                                        ![p].seen = Overlay, ![p].plan = items]
        IN \/ \E ans \in [g.asked -> {"apply", "hold", "reject", "none"}],
                 rank \in {b \in [g.asked -> 1 .. Cardinality(g.asked)] : IsInjective(b)} :
                   Planned({Item(f, DecisionOn(r, g, ans, rank, f)) :
                                f \in page \cup (g.touched \cap g.dups)})
           \/ \E heard \in [page -> {"replacement", "original", "split"}] :
                  Planned({i \in {Item(f, AudioDecision(r, g, heard[f], f)) : f \in page} :
                             i.e # NoEvent})
  BY ZenonT(60) DEF Plan
<1> DEFINE page == {f \in Work : f <= last}
           g == Grouping(r, page)
           Planned(items) == run' = [run EXCEPT ![p].pc = "fresh", ![p].after = last,
                                       ![p].seen = Overlay, ![p].plan = items]
<1>2. page \in SUBSET Findings
  OBVIOUS
<1>3. \E items : Planned(items) /\ Sound(items, Overlay)
  <2>1. CASE \E ans \in [g.asked -> {"apply", "hold", "reject", "none"}],
                rank \in {b \in [g.asked -> 1 .. Cardinality(g.asked)] : IsInjective(b)} :
                  Planned({Item(f, DecisionOn(r, g, ans, rank, f)) : f \in page \cup (g.touched \cap g.dups)})
    <3>1. PICK ans \in [g.asked -> {"apply", "hold", "reject", "none"}],
               rank \in {b \in [g.asked -> 1 .. Cardinality(g.asked)] : IsInjective(b)} :
                 Planned({Item(f, DecisionOn(r, g, ans, rank, f)) : f \in page \cup (g.touched \cap g.dups)})
      BY <2>1
    <3> HIDE DEF r, page, g, Planned
    <3>2. rank \in [g.asked -> 1 .. Cardinality(g.asked)] /\ IsInjective(rank)
      OBVIOUS
    <3>3. g = Grouping(r, page)
      BY DEF g
    <3> QED
      BY <1>2, <3>1, <3>2, <3>3, AskedIsSound
  <2>2. CASE \E heard \in [page -> {"replacement", "original", "split"}] :
                  Planned({i \in {Item(f, AudioDecision(r, g, heard[f], f)) : f \in page} : i.e # NoEvent})
    <3>1. PICK heard \in [page -> {"replacement", "original", "split"}] :
                  Planned({i \in {Item(f, AudioDecision(r, g, heard[f], f)) : f \in page} : i.e # NoEvent})
      BY <2>2
    <3> HIDE DEF r, page, g, Planned
    <3>2. g = Grouping(r, page)
      BY DEF g
    <3> QED
      BY <1>2, <3>1, <3>2, HeardIsSound
  <2> QED
    BY <1>1, <2>1, <2>2
<1> HIDE DEF page, g
<1>4. PICK items : Planned(items) /\ Sound(items, Overlay)
  BY <1>3
<1>5. RunOK'
  BY <1>4 DEF RunOK, Idle
<1> QED
  BY <1>5 DEF Plan

\* With no fix newly in, no two newly clash.
LEMMA NoneNewlyIn ==
  ASSUME OneFixPerText, Overlay' \subseteq Overlay, unseen \subseteq unseen'
  PROVE  OneFixPerText'
BY DEF OneFixPerText, Clash

LEMMA FreshKeeps ==
  ASSUME Inv, NEW p \in Runners, WriteFresh(p)
  PROVE  Inv' /\ PersonStep /\ FollowStep
<1> DEFINE r == run[p].recipe
           fresh == {i \in run[p].plan : i.from = "proposed"}
           items == Capped(fresh, run[p].room)
<1>1. PICK skipped :
        LET out == {i \in items : Writable(p, i, skipped)}
            accepted == {i.f : i \in {j \in out : j.e.outcome = "apply"}}
            On(f) == Conditional((CHOOSE i \in out : i.f = f).e, accepted)
            written == {i.f : i \in out}
        IN /\ fin' = [f \in Findings |-> IF f \in written THEN Moved(r, On(f), f) ELSE fin[f]]
           /\ unseen' = unseen \cup Pairs(accepted, Overlay \ run[p].seen)
           /\ Since(written)
           /\ run' = [run EXCEPT ![p].pc = "recheck",
                        ![p].capped = Cardinality(items) < Cardinality(fresh),
                        ![p].room = @ - Cardinality(accepted)]
  BY DEF WriteFresh
<1> DEFINE out == {i \in items : Writable(p, i, skipped)}
           accepted == {i.f : i \in {j \in out : j.e.outcome = "apply"}}
           Of(f) == CHOOSE i \in out : i.f = f
           E(f) == Conditional(Of(f).e, accepted)
           written == {i.f : i \in out}
<1>2. /\ fin' = [f \in Findings |-> IF f \in written THEN Moved(r, E(f), f) ELSE fin[f]]
      /\ unseen' = unseen \cup Pairs(accepted, Overlay \ run[p].seen)
      /\ Since(written)
  BY <1>1
<1>3. RunOK'
  <2>1. PICK capped, room : run' = [run EXCEPT ![p].pc = "recheck", ![p].capped = capped, ![p].room = room]
    BY <1>1
  <2> QED
    BY <2>1 DEF Inv, RunOK, Idle
<1>4. /\ Sound(run[p].plan, run[p].seen)
      /\ out \subseteq run[p].plan
      /\ \A i \in out : State(i.f) = "proposed" /\ (i.e.outcome = "duplicate" => RepIsLive(i))
  BY DEF Inv, RunOK, Capped, Writable
<1> HIDE DEF out
<1>5. \A f \in written : Of(f) \in out /\ Of(f).f = f
  OBVIOUS
<1>6. \A f \in written : /\ f \in Findings /\ State(f) = "proposed"
                         /\ E(f).outcome = "apply" => f \in accepted
                         /\ E(f).outcome = "duplicate" =>
                              E(f).about \in Findings /\ State(E(f).about) \in Live
  <2> SUFFICES ASSUME NEW f \in written
               PROVE  /\ f \in Findings /\ State(f) = "proposed"
                      /\ E(f).outcome = "apply" => f \in accepted
                      /\ E(f).outcome = "duplicate" =>
                           E(f).about \in Findings /\ State(E(f).about) \in Live
    BY Zenon
  <2> DEFINE i == Of(f)
  <2>1. i \in out /\ i.f = f /\ i \in run[p].plan
    BY <1>4, <1>5
  <2> HIDE DEF Of, i
  <2>2. f \in Findings /\ State(f) = "proposed"
    BY <1>4, <2>1 DEF Sound
  <2>3. Conditional(i.e, accepted) = i.e \/ Conditional(i.e, accepted).outcome \notin {"apply", "duplicate"}
    BY DEF Conditional
  <2>4. i.e.outcome = "apply" => f \in accepted
    BY <2>1
  <2>5. i.e.outcome = "duplicate" => i.e.about \in Findings /\ State(i.e.about) \in Live
    BY <1>4, <2>1 DEF Sound, RepIsLive
  <2>6. E(f) = Conditional(i.e, accepted)
    BY DEF i
  <2> HIDE DEF E, accepted
  <2> QED
    BY <2>2, <2>3, <2>4, <2>5, <2>6
<1>7. \A a \in accepted : a \in Findings /\ \E i \in run[p].plan : i.f = a /\ Applies(i)
  BY <1>4 DEF Sound, Applies
<1> HIDE DEF E, accepted, written
<1>8. \A f \in written : \/ fin'[f] = fin[f]
                         \/ fin'[f] = [state |-> "accepted", by |-> Jev(r), of |-> 0] /\ f \in accepted
                         \/ fin'[f] = [state |-> "rejected", by |-> Jev(r), of |-> 0]
                         \/ /\ fin'[f] = [state |-> "duplicate", by |-> Jev(r), of |-> E(f).about]
                            /\ E(f).about \in Findings /\ State(E(f).about) \in Live
  BY <1>2, <1>6 DEF Moved
<1>9. Written(written)
  <2>1. written \subseteq Findings /\ DOMAIN fin' = Findings
        /\ \A f \in Findings : f \notin written => fin'[f] = fin[f]
    BY <1>2, <1>6
  <2>2. \A f \in written : State(f) \notin Undoable
    BY <1>6 DEF Undoable
  <2>3. Jev(r).who = "jev"
    BY DEF Jev
  <2> HIDE DEF r
  <2>4. \A f \in written : fin'[f] = fin[f] \/
         /\ DOMAIN fin'[f] = {"state", "by", "of"}
         /\ fin'[f].by.who # "undo" \/ fin'[f].state \notin {"rejected", "reverted"}
         /\ fin'[f].state = "duplicate" =>
              fin'[f].by.who = "jev" /\ fin'[f].of \in Findings /\ State(fin'[f].of) \in Live
         /\ fin[f].by = Person /\ State(f) \in Undoable => fin'[f].by.who \notin {"jev", "undo"}
    <3> SUFFICES ASSUME NEW f \in written, fin'[f] # fin[f]
                 PROVE  /\ DOMAIN fin'[f] = {"state", "by", "of"}
                        /\ fin'[f].by.who = "jev"
                        /\ fin'[f].state # "reverted"
                        /\ fin'[f].state = "duplicate" =>
                             fin'[f].of \in Findings /\ State(fin'[f].of) \in Live
      BY <2>2
    <3> DEFINE a == E(f).about
    <3>1. \/ fin'[f] = [state |-> "accepted", by |-> Jev(r), of |-> 0]
          \/ fin'[f] = [state |-> "rejected", by |-> Jev(r), of |-> 0]
          \/ /\ fin'[f] = [state |-> "duplicate", by |-> Jev(r), of |-> a]
             /\ a \in Findings /\ State(a) \in Live
      BY <1>8
    <3> HIDE DEF a
    <3> QED
      BY <2>3, <3>1
  <2> QED
    BY <1>2, <2>1, <2>4 DEF Written
<1>10. OneFixPerText'
  <2>1. \A f \in Overlay' : f \in Overlay \/ f \in accepted
    <3> SUFFICES ASSUME NEW f \in Findings, fin'[f].state \in InText, f \notin accepted PROVE f \in Overlay
      BY DEF Overlay, State
    <3> DEFINE e == E(f)
               by == Jev(r)
    <3>1. CASE f \notin written
      BY <1>2, <3>1 DEF Overlay, State
    <3>2. CASE f \in written
      <4>1. \/ fin'[f] = fin[f]
            \/ fin'[f] = [state |-> "rejected", by |-> by, of |-> 0]
            \/ fin'[f] = [state |-> "duplicate", by |-> by, of |-> e.about]
        BY <1>8, <3>2
      <4> HIDE DEF e, by
      <4>2. fin'[f] = fin[f]
        BY <4>1 DEF InText
      <4> QED
        BY <4>2 DEF Overlay, State
    <3> QED
      BY <3>1, <3>2
  <2>2. \A f \in accepted, g \in Overlay : Clash(f, g) => {f, g} \in unseen'
    <3> SUFFICES ASSUME NEW f \in accepted, NEW g \in Overlay, Clash(f, g) PROVE {f, g} \in unseen'
      OBVIOUS
    <3>1. g \notin run[p].seen
      BY <1>4, <1>7 DEF Sound
    <3> QED
      BY <1>2, <3>1 DEF Pairs
  <2>3. \A f, g \in accepted : ~Clash(f, g)
    BY <1>4, <1>7 DEF Sound
  <2>4. \A f, g \in Overlay' : Clash(f, g) => {f, g} \in unseen'
    <3> SUFFICES ASSUME NEW f \in Overlay', NEW g \in Overlay', Clash(f, g) PROVE {f, g} \in unseen'
      OBVIOUS
    <3>1. CASE f \in Overlay /\ g \in Overlay
      BY <1>2, <3>1 DEF Inv, OneFixPerText
    <3>2. CASE f \in accepted /\ g \in Overlay
      BY <2>2, <3>2
    <3>3. CASE f \in Overlay /\ g \in accepted
      <4>1. {g, f} = {f, g} /\ Clash(g, f)
        BY ClashIsMutual
      <4> QED
        BY <2>2, <3>3, <4>1
    <3>4. CASE f \in accepted /\ g \in accepted
      BY <2>3, <3>4
    <3> QED
      BY <2>1, <3>1, <3>2, <3>3, <3>4
  <2> QED
    BY <2>4 DEF OneFixPerText, Clash
<1> QED
  BY <1>3, <1>9, <1>10, WrittenKeeps DEF Inv

LEMMA RecheckKeeps ==
  ASSUME Inv, NEW p \in Runners, WriteRecheck(p)
  PROVE  Inv' /\ PersonStep /\ FollowStep
<1> DEFINE r == run[p].recipe
           items == {i \in run[p].plan : i.from # "proposed"}
<1>1. PICK skipped :
        LET out == {i \in items : i.f \notin skipped /\ State(i.f) \in InText /\ OtherRecipes(r, i.f)}
            On(f) == Conditional((CHOOSE i \in out : i.f = f).e, {})
            written == {i.f : i \in out}
        IN /\ fin' = [f \in Findings |->
                        IF f \in written /\ On(f).outcome = "reject"
                        THEN [state |-> IF State(f) = "accepted" THEN "rejected" ELSE "reverted",
                              by |-> Jev(r), of |-> 0]
                        ELSE fin[f]]
           /\ Since(written)
  BY DEF WriteRecheck
<1> DEFINE out == {i \in items : i.f \notin skipped /\ State(i.f) \in InText /\ OtherRecipes(r, i.f)}
           written == {i.f : i \in out}
<1>2. \A f \in Findings : fin'[f] = fin[f] \/
        /\ f \in written
        /\ \E s \in {"rejected", "reverted"} : fin'[f] = [state |-> s, by |-> Jev(r), of |-> 0]
  BY <1>1
<1>3. DOMAIN fin' = Findings /\ Since(written)
  BY <1>1
<1>4. \A f \in written : f \in Findings /\ fin[f].by.who = "jev" /\ State(f) \in InText
  BY DEF Inv, RunOK, Sound, OtherRecipes
<1> HIDE DEF out, written
<1>5. Written(written)
  <2>1. Jev(r).who = "jev" /\ Person.who = "person"
    BY DEF Jev, Person
  <2> HIDE DEF r
  <2> QED
    BY <1>2, <1>3, <1>4, <2>1 DEF Written
<1>6. Overlay' \subseteq Overlay
  <2>1. \A f \in Findings : fin'[f].state \in InText => fin'[f] = fin[f]
    <3> HIDE DEF r
    <3>1. \A f \in Findings : fin'[f] = fin[f] \/ fin'[f].state \in {"rejected", "reverted"}
      BY <1>2
    <3> QED
      BY <3>1 DEF InText
  <2> QED
    BY <2>1 DEF Overlay, State
<1>7. RunOK'
  <2>1. run' = [run EXCEPT ![p] = [run[p] EXCEPT !.pc = "plan", !.plan = {}, !.seen = {}]]
    BY DEF WriteRecheck
  <2>2. Sound({}, {})
    BY DEF Sound
  <2> QED
    BY <2>1, <2>2 DEF Inv, RunOK, Idle
<1>8. unseen' = unseen
  BY DEF WriteRecheck
<1> QED
  BY <1>5, <1>6, <1>7, <1>8, WrittenKeeps, NoneNewlyIn DEF Inv

-----------------------------------------------------------------------------
(* A reviewer, and the rebuild.                                            *)

LEMMA ReviewKeeps ==
  ASSUME Inv, NEW f \in Findings, NEW to \in {"accepted", "rejected", "reverted", "proposed"},
         Review(f, to)
  PROVE  Inv' /\ PersonStep /\ FollowStep
<1>1. /\ fin' = [fin EXCEPT ![f].state = to, ![f].by = IF to = "proposed" THEN fin[f].by ELSE Person]
      /\ unseen' = IF to = "accepted" THEN unseen \cup Pairs({f}, Overlay) ELSE unseen
      /\ Since({f}) /\ <<State(f), to>> \in ReviewMoves /\ run' = run
  BY DEF Review
<1>2. DOMAIN fin = Findings /\ DOMAIN fin[f] = {"state", "by", "of"}
  BY DEF Inv, FinOK
<1>3. /\ DOMAIN fin' = Findings
      /\ \A g \in Findings : g # f => fin'[g] = fin[g]
      /\ DOMAIN fin'[f] = {"state", "by", "of"} /\ fin'[f].state = to
      /\ to # "proposed" => fin'[f].by = Person
      /\ to = "proposed" => fin'[f].by = fin[f].by
  BY <1>1, <1>2
<1>4. Person.who = "person"
  BY DEF Person
<1>5. Written({f})
  BY <1>1, <1>3, <1>4 DEF Written
<1>6. RunOK'
  BY <1>1 DEF Inv, RunOK
<1>7. OneFixPerText'
  <2>1. \A g \in Overlay' : g \in Overlay \/ (g = f /\ to = "accepted")
    BY <1>3 DEF Overlay, State, InText
  <2>2. \A g, h \in Overlay' : Clash(g, h) => {g, h} \in unseen'
    <3> SUFFICES ASSUME NEW g \in Overlay', NEW h \in Overlay', Clash(g, h) PROVE {g, h} \in unseen'
      OBVIOUS
    <3>1. CASE g \in Overlay /\ h \in Overlay
      BY <1>1, <3>1 DEF Inv, OneFixPerText
    <3>2. CASE g = f /\ to = "accepted" /\ h \in Overlay
      BY <1>1, <3>2 DEF Pairs
    <3>3. CASE h = f /\ to = "accepted" /\ g \in Overlay
      <4>1. {g, h} = {h, g}
        OBVIOUS
      <4> QED
        BY <1>1, <3>3, <4>1 DEF Pairs
    <3>4. CASE g = f /\ h = f
      BY <3>4 DEF Clash
    <3> QED
      BY <2>1, <3>1, <3>2, <3>3, <3>4
  <2> QED
    BY <2>2 DEF OneFixPerText, Clash
<1> QED
  BY <1>5, <1>6, <1>7, WrittenKeeps DEF Inv

LEMMA RebuildKeeps ==
  ASSUME Inv, Rebuild
  PROVE  Inv' /\ PersonStep /\ FollowStep
<1> DEFINE Replayed(f) == IF \E g \in Overlay : Clash(f, g) THEN "stale" ELSE "applied"
           W == {f \in Findings : fin'[f] # fin[f]}
<1>1. /\ fin' = [f \in Findings |-> IF f \in Overlay THEN [fin[f] EXCEPT !.state = Replayed(f)]
                                    ELSE fin[f]]
      /\ Since(W) /\ run' = run /\ unseen' = unseen
  BY DEF Rebuild
<1>2. \A f \in Findings : DOMAIN fin[f] = {"state", "by", "of"}
  BY DEF Inv, FinOK
<1>3. \A f \in Findings : f \in Overlay =>
        /\ DOMAIN fin'[f] = {"state", "by", "of"} /\ fin'[f].state \in {"stale", "applied"}
        /\ fin'[f].by = fin[f].by
  BY <1>1, <1>2
<1>4. \A f \in W : f \in Overlay
  BY <1>1
<1>5. Written(W)
  <2>1. Person.who = "person"
    BY DEF Person
  <2>2. DOMAIN fin' = Findings
    BY <1>1
  <2> QED
    BY <1>1, <1>3, <1>4, <2>1, <2>2 DEF Written
<1>6. Overlay' \subseteq Overlay
  BY <1>1 DEF Overlay, State
<1>7. RunOK'
  BY <1>1 DEF Inv, RunOK
<1> QED
  BY <1>1, <1>5, <1>6, <1>7, WrittenKeeps, NoneNewlyIn DEF Inv

-----------------------------------------------------------------------------
(* The undo.                                                               *)

LEMMA StartUndoKeeps ==
  ASSUME Inv, StartUndo
  PROVE  UndoOK'
<1>1. PICK sc \in {<<{r}, Findings>> : r \in Recipes} \cup {<<Recipes, {f}>> : f \in Findings} :
        undo' = [on |-> TRUE, recipes |-> sc[1], scope |-> sc[2], cands |-> Candidates(sc[1], sc[2]),
                 done |-> {}, since |-> {}]
  BY DEF StartUndo
<1>2. sc[2] \subseteq Findings
  OBVIOUS
<1>3. \A c \in Candidates(sc[1], sc[2]) :
        c.f \in Findings /\ State(c.f) = c.state /\ fin[c.f].by.who = "jev"
  BY <1>2 DEF Candidates
<1>4. fin' = fin
  BY DEF StartUndo
<1>5. /\ DOMAIN undo' = DOMAIN NoUndo /\ undo'.on /\ undo'.scope = sc[2] /\ undo'.recipes = sc[1]
      /\ undo'.cands = Candidates(sc[1], sc[2]) /\ undo'.done = {} /\ undo'.since = {}
  BY <1>1 DEF NoUndo
<1> HIDE DEF NoUndo
<1>6. Candidates(undo.recipes, undo.scope)' = Candidates(sc[1], sc[2])
  BY <1>4, <1>5 DEF Candidates, State
<1> QED
  BY <1>2, <1>3, <1>4, <1>5, <1>6 DEF UndoOK, State

\* A batch moves findings by name of the undo, and no duplicate stays behind
\* what it takes out.
LEMMA BatchKeeps ==
  ASSUME Inv, UndoBatch
  PROVE  Inv' /\ PersonStep /\ FollowStep
<1> DEFINE Ids(cs) == {c.f : c \in cs}
           To(state, r) == [state |-> state, by |-> Undo(r), of |-> 0]
<1>1. PICK last \in undo.cands :
        LET batch == {c \in undo.cands : Before(c, last)}
            moved == {c \in batch : c.state # "duplicate" /\ State(c.f) = c.state}
            RecipeOf(f) == (CHOOSE c \in batch : c.f = f).recipe
            outs == Ids({c \in moved : c.state \in InText})
            ins  == Ids(moved) \ outs
            rejected == FollowersOf(outs)
            listed   == Listed(batch) \ (undo.done \cup rejected)
            restored == {f \in Findings \ ins : RejectedWith(f) \cap ins # {}
                           /\ State(f) = (IF f \in outs THEN "accepted" ELSE "rejected")}
            released == listed \cup FollowersOf(ins) \cup restored
            Leads(f) == (IF State(f) = "duplicate" THEN {fin[f].of} ELSE RejectedWith(f)) \cap ins
        IN /\ fin' = [f \in Findings |->
                        IF f \in released
                          THEN To("proposed", RecipeOf(IF Leads(f) = {} THEN f ELSE CHOOSE g \in Leads(f) : TRUE))
                        ELSE IF f \in rejected THEN To("rejected", RecipeOf(fin[f].of))
                        ELSE IF f \in Ids(moved) THEN To(UndoneState(State(f)), RecipeOf(f))
                        ELSE fin[f]]
           /\ undo' = [undo EXCEPT !.cands = @ \ batch,
                                   !.done = @ \cup rejected \cup released]
  BY DEF UndoBatch
<1> DEFINE batch == {c \in undo.cands : Before(c, last)}
           moved == {c \in batch : c.state # "duplicate" /\ State(c.f) = c.state}
           RecipeOf(f) == (CHOOSE c \in batch : c.f = f).recipe
           outs == Ids({c \in moved : c.state \in InText})
           ins  == Ids(moved) \ outs
           rejected == FollowersOf(outs)
           listed   == Listed(batch) \ (undo.done \cup rejected)
           restored == {f \in Findings \ ins : RejectedWith(f) \cap ins # {}
                          /\ State(f) = (IF f \in outs THEN "accepted" ELSE "rejected")}
           released == listed \cup FollowersOf(ins) \cup restored
           Leads(f) == (IF State(f) = "duplicate" THEN {fin[f].of} ELSE RejectedWith(f)) \cap ins
           Ours(f) == RecipeOf(IF Leads(f) = {} THEN f ELSE CHOOSE g \in Leads(f) : TRUE)
<1>2. fin' = [f \in Findings |->
                IF f \in released THEN To("proposed", Ours(f))
                ELSE IF f \in rejected THEN To("rejected", RecipeOf(fin[f].of))
                ELSE IF f \in Ids(moved) THEN To(UndoneState(State(f)), RecipeOf(f))
                ELSE fin[f]]
  BY <1>1
<1>3. undo' = [undo EXCEPT !.cands = undo.cands \ batch,
                           !.done = undo.done \cup rejected \cup released]
  BY <1>1
<1>4. undo.on /\ run' = run /\ unseen' = unseen
  BY DEF UndoBatch
<1>5. /\ DOMAIN undo = DOMAIN NoUndo /\ undo.scope \subseteq Findings
      /\ \A c \in undo.cands :
           /\ c.f \in Findings
           /\ \/ c.f \in undo.since
              \/ fin[c.f].by.who = "undo"
              \/ State(c.f) = c.state /\ fin[c.f].by.who = "jev"
      /\ \A f \in undo.done : f \in Findings /\ (f \in undo.since \/ fin[f].by.who = "undo")
      /\ \A d \in Candidates(undo.recipes, undo.scope) :
           d.f \in undo.since \/ \E c \in undo.cands : c.f = d.f
  BY <1>4 DEF Inv, UndoOK
<1>6. \A f \in Findings : /\ DOMAIN fin[f] = {"state", "by", "of"}
                          /\ State(f) = "duplicate" => fin[f].by.who = "jev" /\ fin[f].of \in Findings
  BY DEF Inv, FinOK
<1>7. /\ rejected \subseteq Findings /\ \A f \in rejected : State(f) = "duplicate"
      /\ released \subseteq Findings
      /\ \A f \in released : State(f) = "duplicate" \/ RejectedWith(f) # {}
  BY <1>5 DEF FollowersOf, Listed
<1>8. /\ undo'.on /\ DOMAIN undo' = DOMAIN NoUndo
      /\ undo'.scope = undo.scope /\ undo'.recipes = undo.recipes /\ undo'.since = undo.since
      /\ undo'.cands = undo.cands \ batch /\ undo'.done = undo.done \cup rejected \cup released
  BY <1>3, <1>4, <1>5 DEF NoUndo
\* What the batch lists and finds as it was listed is moved, or was already.
<1>9. \A c \in batch : State(c.f) = c.state =>
        c.f \in released \/ c.f \in rejected \/ c.f \in Ids(moved) \/ c.f \in undo.done
  BY DEF Listed
\* A follower of what goes out is rejected with it.
<1>10. \A f \in Findings : State(f) = "duplicate" /\ fin[f].of \in outs => f \in rejected
  BY DEF FollowersOf
<1>11. \A f \in Ids(moved) : /\ \E c \in undo.cands : c.f = f
                             /\ State(f) \in InText => f \in outs
  OBVIOUS
<1> HIDE DEF To, moved, batch, RecipeOf, outs, rejected, released, Ours, Ids
<1>12. \A s, r : /\ DOMAIN To(s, r) = {"state", "by", "of"} /\ To(s, r).state = s
                 /\ To(s, r).by.who = "undo"
  BY DEF To, Undo
<1>13. \A f \in Findings : UndoneState(State(f)) \in {"proposed", "rejected", "reverted"}
                           /\ (UndoneState(State(f)) # "proposed" => State(f) \in InText)
  BY DEF UndoneState, InText
<1>14. \A f \in Findings :
         /\ f \in released => fin'[f] = To("proposed", Ours(f))
         /\ f \in rejected /\ f \notin released => fin'[f] = To("rejected", RecipeOf(fin[f].of))
         /\ f \in Ids(moved) /\ f \notin rejected /\ f \notin released =>
              fin'[f] = To(UndoneState(State(f)), RecipeOf(f))
         /\ f \notin released /\ f \notin rejected /\ f \notin Ids(moved) => fin'[f] = fin[f]
  BY <1>2
<1>15. \A f \in Findings :
         /\ f \in released \/ f \in rejected \/ f \in Ids(moved) => fin'[f].by.who = "undo"
         /\ fin'[f] = fin[f] \/
              /\ DOMAIN fin'[f] = {"state", "by", "of"} /\ fin'[f].by.who = "undo"
              /\ fin'[f].state \in {"proposed", "rejected", "reverted"}
         /\ f \in rejected => fin'[f].state # "duplicate"
         /\ fin'[f] # fin[f] /\ fin'[f].state # "proposed" => f \in rejected \/ State(f) \in InText
  <2> SUFFICES ASSUME NEW f \in Findings
               PROVE  /\ f \in released \/ f \in rejected \/ f \in Ids(moved) => fin'[f].by.who = "undo"
                      /\ fin'[f] = fin[f] \/
                           /\ DOMAIN fin'[f] = {"state", "by", "of"} /\ fin'[f].by.who = "undo"
                           /\ fin'[f].state \in {"proposed", "rejected", "reverted"}
                      /\ f \in rejected => fin'[f].state # "duplicate"
                      /\ fin'[f] # fin[f] /\ fin'[f].state # "proposed" =>
                           f \in rejected \/ State(f) \in InText
    OBVIOUS
  <2>1. CASE f \in released
    BY <1>12, <1>14, <2>1
  <2>2. CASE f \in rejected /\ f \notin released
    BY <1>12, <1>14, <2>2
  <2>3. CASE f \in Ids(moved) /\ f \notin rejected /\ f \notin released
    BY <1>12, <1>13, <1>14, <2>3
  <2>4. CASE f \notin released /\ f \notin rejected /\ f \notin Ids(moved)
    BY <1>14, <2>4
  <2> QED
    BY <2>1, <2>2, <2>3, <2>4
<1>16. DOMAIN fin' = Findings
  BY <1>2
<1>17. FinOK'
  BY <1>6, <1>15, <1>16 DEF FinOK, State
<1>18. UndoOK'
  <2>1. \A d \in Candidates(undo.recipes, undo.scope)' :
          /\ d.f \in Findings /\ fin[d.f].by.who = "jev" /\ fin'[d.f] = fin[d.f]
          /\ d \in Candidates(undo.recipes, undo.scope)
    <3> SUFFICES ASSUME NEW f \in undo.scope, fin'[f].by.who = "jev",
                        fin'[f].by.recipe \in undo.recipes, fin'[f].state \in Undoable
                 PROVE  fin'[f] = fin[f]
      BY <1>5, <1>8 DEF Candidates, State
    <3> QED
      BY <1>5, <1>15
  <2>2. \A d \in Candidates(undo.recipes, undo.scope)' :
          d.f \in undo.since \/ \E c \in undo.cands \ batch : c.f = d.f
    <3> SUFFICES ASSUME NEW d \in Candidates(undo.recipes, undo.scope)', d.f \notin undo.since,
                        NEW c \in undo.cands, c.f = d.f, c \in batch
                 PROVE  FALSE
      BY <1>5, <2>1
    <3>1. fin[c.f].by.who = "jev" /\ fin'[c.f].by.who = "jev" /\ c.f \in Findings
      BY <2>1
    <3>2. State(c.f) = c.state
      BY <1>5, <3>1
    <3>3. c.f \in released \/ c.f \in rejected \/ c.f \in Ids(moved) \/ c.f \in undo.done
      BY <1>9, <3>2
    <3> QED
      BY <1>5, <1>15, <3>1, <3>3
  <2>3. \A c \in undo.cands \ batch :
          /\ c.f \in Findings
          /\ \/ c.f \in undo.since
             \/ fin'[c.f].by.who = "undo"
             \/ fin'[c.f].state = c.state /\ fin'[c.f].by.who = "jev"
    BY <1>5, <1>15 DEF State
  <2>4. \A f \in undo.done \cup rejected \cup released :
          f \in Findings /\ (f \in undo.since \/ fin'[f].by.who = "undo")
    BY <1>5, <1>7, <1>15
  <2> QED
    BY <1>5, <1>8, <2>2, <2>3, <2>4 DEF UndoOK, State
<1>19. PersonStep
  <2> SUFFICES ASSUME NEW f \in Findings, fin[f].by = Person, fin'[f].by.who \in {"jev", "undo"},
                      f \notin undo.since, RejectedWith(f) = {}
               PROVE  FALSE
    BY DEF PersonStep
  <2>1. fin[f].by.who = "person"
    BY DEF Person
  <2>2. State(f) # "duplicate"
    BY <1>6, <2>1
  <2>3. f \notin Ids(moved)
    BY <1>5, <1>11, <2>1
  <2>4. fin'[f] = fin[f]
    BY <1>7, <1>14, <2>2, <2>3
  <2> QED
    BY <2>1, <2>4
<1>20. FollowStep
  <2> SUFFICES ASSUME NEW f \in Findings, LeftBehind(f)', ~LeftBehind(f), State(fin'[f].of) # "duplicate"
               PROVE  FALSE
    BY DEF FollowStep
  <2> DEFINE h == fin'[f].of
  <2>1. /\ fin'[f].state = "duplicate" /\ fin'[h].state \in {"rejected", "reverted"}
        /\ fin'[h].by.who = "undo"
    BY DEF LeftBehind, State
  <2>2. h \in Findings
    BY <1>17, <2>1 DEF FinOK, State
  <2>3. fin'[f] = fin[f] /\ f \notin rejected
    BY <1>15, <2>1
  <2>4. fin'[h] # fin[h]
    BY <2>1, <2>3 DEF LeftBehind, State
  <2>5. h \in Ids(moved) /\ h \notin rejected
    BY <1>7, <1>12, <1>14, <2>1, <2>2, <2>4
  <2>6. State(h) \in InText
    BY <1>15, <2>1, <2>2, <2>4, <2>5
  <2> QED
    BY <1>10, <1>11, <2>1, <2>3, <2>5, <2>6 DEF State
<1>21. Overlay' \subseteq Overlay
  <2>1. \A f \in Findings : fin'[f].state \in InText => fin'[f] = fin[f]
    BY <1>15 DEF InText
  <2> QED
    BY <2>1 DEF Overlay, State
<1>22. RunOK'
  BY <1>4 DEF Inv, RunOK
<1> QED
  BY <1>4, <1>17, <1>18, <1>19, <1>20, <1>21, <1>22, NoneNewlyIn DEF Inv

-----------------------------------------------------------------------------
(* The specification.                                                      *)

LEMMA InitInv == Init => Inv
<1> SUFFICES ASSUME Init PROVE Inv
  OBVIOUS
<1>1. FinOK /\ OneFixPerText
  BY DEF Init, FinOK, OneFixPerText, Overlay, State, InText
<1>2. RunOK
  BY DEF Init, RunOK, Sound, Idle
<1>3. UndoOK
  BY DEF Init, UndoOK, NoUndo
<1> QED
  BY <1>1, <1>2, <1>3 DEF Inv

\* A step that writes no finding.
LEMMA QuietKeeps ==
  ASSUME Inv, fin' = fin, unseen' = unseen, RunOK', UndoOK'
  PROVE  Inv' /\ PersonStep /\ FollowStep
<1>1. FinOK' /\ OneFixPerText'
  BY DEF Inv, FinOK, OneFixPerText, Overlay, State, Clash
<1>2. PersonStep
  BY DEF PersonStep, Person
<1>3. FollowStep
  BY DEF FollowStep, LeftBehind, State
<1> QED
  BY <1>1, <1>2, <1>3 DEF Inv

LEMMA SameUndo ==
  ASSUME UndoOK, fin' = fin, undo' = undo
  PROVE  UndoOK'
<1>1. Candidates(undo.recipes, undo.scope)' = Candidates(undo.recipes, undo.scope)
  BY DEF Candidates, State
<1> QED
  BY <1>1 DEF UndoOK, State

LEMMA NextKeeps ==
  ASSUME Inv, [Next]_vars
  PROVE  Inv' /\ PersonStep /\ FollowStep
<1>1. ASSUME NEW p \in Runners, Start(p)
      PROVE  Inv' /\ PersonStep /\ FollowStep
  <2>1. PICK r \in Recipes :
          run' = [run EXCEPT ![p] = [Idle EXCEPT !.pc = "plan", !.recipe = r, !.room = left.cap]]
    BY <1>1 DEF Start
  <2>2. RunOK'
    BY <2>1 DEF Inv, RunOK, Idle, Sound
  <2> QED
    BY <1>1, <2>2, QuietKeeps, SameUndo DEF Start, Inv
<1>2. ASSUME NEW p \in Runners, Finish(p) \/ Stop(p)
      PROVE  Inv' /\ PersonStep /\ FollowStep
  <2>1. run' = [run EXCEPT ![p] = Idle] /\ UNCHANGED <<fin, undo, unseen>>
    BY <1>2 DEF Finish, Stop, Stops
  <2>2. RunOK'
    BY <2>1 DEF Inv, RunOK, Idle, Sound
  <2> QED
    BY <2>1, <2>2, QuietKeeps, SameUndo DEF Inv
<1>3. ASSUME NEW p \in Runners, Plan(p)
      PROVE  Inv' /\ PersonStep /\ FollowStep
  <2>1. RunOK' /\ UNCHANGED <<fin, undo, unseen>>
    BY <1>3, PlanKeeps DEF Inv
  <2> QED
    BY <2>1, QuietKeeps, SameUndo DEF Inv
<1>4. CASE StartUndo
  <2>1. UndoOK' /\ UNCHANGED <<fin, run, unseen>>
    BY <1>4, StartUndoKeeps DEF StartUndo
  <2> QED
    BY <2>1, QuietKeeps DEF Inv, RunOK
<1>5. CASE EndUndo \/ UndoStops
  <2>1. undo' = NoUndo /\ UNCHANGED <<fin, run, unseen>>
    BY <1>5 DEF EndUndo, UndoStops
  <2>2. UndoOK'
    BY <2>1 DEF UndoOK, NoUndo
  <2> QED
    BY <2>1, <2>2, QuietKeeps DEF Inv, RunOK
<1>6. CASE UNCHANGED vars
  BY <1>6, QuietKeeps, SameUndo DEF vars, Inv, RunOK
<1> QED
  BY <1>1, <1>2, <1>3, <1>4, <1>5, <1>6, FreshKeeps, RecheckKeeps, BatchKeeps, ReviewKeeps, RebuildKeeps
     DEF Next, Run

\* What the undo has nothing left to move but what was written since.
LEMMA EndTakesAll ==
  ASSUME Inv, EndUndo
  PROVE  \A c \in Candidates(undo.recipes, undo.scope) : c.f \in undo.since
BY DEF Inv, UndoOK, EndUndo

THEOREM InvAlways == Spec => []Inv
<1>1. Inv /\ [Next]_vars => Inv'
  BY NextKeeps
<1> QED
  BY InitInv, <1>1, PTL DEF Spec

\* Two fixes to the same text are never both in, but for one that went in while
\* the other's run was between its reading and its writing, or that a person
\* accepted over it (planChunk, ApplyDecisions), whatever runs, undoes and
\* rebuilds together.
THEOREM OneFixStands == Spec => []OneFixPerText
<1>1. Inv => OneFixPerText
  BY DEF Inv
<1> QED
  BY InvAlways, <1>1, PTL

\* No step leaves a duplicate behind a representative an undo took out
\* (moveFollowersTx, lockRepresentativesSQL), unless that one had become a
\* duplicate itself.
THEOREM DuplicatesAreTaken == Spec => DuplicatesFollow
<1>1. Inv /\ [Next]_vars =>
        [\A f \in Findings : LeftBehind(f)' /\ ~LeftBehind(f) => State(fin'[f].of) = "duplicate"]_vars
  BY NextKeeps DEF FollowStep
<1> QED
  BY InvAlways, <1>1, PTL DEF DuplicatesFollow, Spec

\* No machine changes what a person decided (the states the writes ask for),
\* but an undo from what it listed before, or by what an earlier undo wrote.
THEOREM PersonsStand == Spec => PersonStands
<1>1. Inv /\ [Next]_vars =>
        [\A f \in Findings : fin[f].by = Person /\ State(f) \in Undoable /\ fin'[f].by.who \in {"jev", "undo"} =>
           f \in undo.since \/ RejectedWith(f) # {}]_vars
  BY NextKeeps DEF PersonStep
<1> QED
  BY InvAlways, <1>1, PTL DEF PersonStands, Spec

\* An undo that reaches its end (RevertDecisions) has taken back everything it
\* was to, in whatever batches, but what someone decided since it was listed.
THEOREM UndosComplete == Spec => UndoIsComplete
<1>1. Inv /\ [Next]_vars =>
        [EndUndo => \A c \in Candidates(undo.recipes, undo.scope) : c.f \in undo.since]_vars
  BY EndTakesAll
<1> QED
  BY InvAlways, <1>1, PTL DEF UndoIsComplete, Spec

=============================================================================
