----------------------------- MODULE OneSpelling -----------------------------
(***************************************************************************)
(* "One spelling per book": the pass of a decide run that keeps a book from  *)
(* being corrected to two spellings of one name (internal/decide/spelling.go *)
(* over internal/spelling).  A run reads the book's live findings once, at   *)
(* first use, decides page after page with that model of the book, and       *)
(* leaves out of its contradictions what it has itself rejected; meanwhile   *)
(* judges record findings, other runs and people decide, the audio-vote rung *)
(* lifts holds and the worker replays what was accepted.                     *)
(*                                                                         *)
(* One book.  A finding is the number of its id, which orders the pages; its *)
(* pair of spellings, and what the model answers to it, are the scene's.     *)
(***************************************************************************)
EXTENDS Naturals, Sequences, FiniteSets

CONSTANTS
  Scenes,     \* [runs: runs at once, pair: finding -> <<original, target>>, over: the book is over a read
              \*  cap, late: findings recorded later, pilots: model -> spelling -> count]
  KeyOf,      \* a spelling's phonetic key
  Answers,    \* what should_apply may say of a finding
  MinPilot, PageSize,
  MaxFaults, MaxReviews       \* bounds

VARIABLES
  scene,
  answer,     \* the model's, kept by the function-call cache; "-": not asked yet
  state,      \* patch_state; "none": not recorded yet
  held,       \* the reason it is held for under the recipe; "-": undecided
  sight,      \* who decided it: a person, or a run that knew so much of it
  run,
  faults, reviews

vars == <<scene, answer, state, held, sight, run, faults, reviews>>

Runs == scene.runs
Findings == DOMAIN scene.pair
Original(f) == scene.pair[f][1]
Target(f) == scene.pair[f][2]

Liftable == {"uncertain", "no_evidence"}
Live == {"proposed", "accepted", "applied"}

NoBook == [loaded |-> FALSE, members |-> {}, applied |-> {}]
Idle == [at |-> "load", after |-> 0, page |-> {}, out |-> <<>>, dead |-> {}, book |-> NoBook]

Init ==
  /\ scene \in Scenes
  /\ answer = [f \in Findings |-> "-"]
  /\ state = [f \in Findings |-> IF f \in scene.late THEN "none" ELSE "proposed"]
  /\ held = [f \in Findings |-> "-"]
  /\ sight = [f \in Findings |-> "-"]
  /\ run = [r \in Runs |-> Idle]
  /\ faults = 0 /\ reviews = 0

-----------------------------------------------------------------------------
(* The book: its findings grouped by the keys of their two spellings.       *)

KeysOf(f) == {KeyOf[Original(f)], KeyOf[Target(f)]}

\* The union-find's classes: the keys that findings of the book connect, the least
\* set with k that holds both keys of a finding or neither.
Joined(members, k) ==
  LET Keys == {k} \cup UNION {KeysOf(f) : f \in members}
      Closed == {C \in SUBSET Keys : \A f \in members : KeysOf(f) \cap C # {} => KeysOf(f) \subseteq C}
  IN {j \in Keys : \A C \in Closed : k \in C => j \in C}

Group(members, k) == {f \in members : KeyOf[Original(f)] \in Joined(members, k)}

\* Lookup: both spellings of f are of one group, be it among its members or not.
Grouped(members, f) ==
  /\ Group(members, KeyOf[Original(f)]) # {}
  /\ KeyOf[Target(f)] \in Joined(members, KeyOf[Original(f)])

Spellings(group) == {Original(f) : f \in group} \cup {Target(f) : f \in group}

InPilot(m, s) == scene.pilots[m][s] > 0

\* The only spelling of the group that two pilot models have often enough, when
\* no other one occurs in any of them.
ByPilots(group) ==
  {s \in Spellings(group) :
     /\ Cardinality({m \in DOMAIN scene.pilots : scene.pilots[m][s] >= MinPilot}) >= 2
     /\ \A o \in Spellings(group) \ {s}, m \in DOMAIN scene.pilots : ~InPilot(m, o)}

Applied(book, group) == group \cap book.applied

\* The established spelling, if any: what was applied, else what the pilots hear.
Strong(book, group) ==
  LET targets == {Target(f) : f \in Applied(book, group)} IN
  CASE Cardinality(targets) = 1 -> targets
    [] targets = {} -> ByPilots(group)
    [] OTHER -> {}

PromotedFrom(book, group, f) ==
  \E g \in Applied(book, group) : scene.pair[g] = scene.pair[f]

\* Mutant: a finding that no page has come to yet does not count.
Asked(group, dead) == {f \in group \ dead : answer[f] # "-"}

\* Effective: the members that this run has not rejected itself.
Counted(group, dead) == group \ dead

Contradictory(group) ==
  \/ \E f, g \in group : Target(f) # Target(g)
  \/ \E f, g \in group : Original(f) = Target(g) /\ Target(f) = Original(g)

-----------------------------------------------------------------------------
(* A run: pages of the work list, asked, passed and written.                *)

Undecided(f) == state[f] = "proposed" /\ held[f] = "-"

Todo(r) == {f \in Findings : f > run[r].after /\ Undecided(f)}

Page(todo) == {f \in todo : Cardinality({g \in todo : g < f}) < PageSize}

\* DecideWork and evaluateAll: the next page is asked; a call may bring no answer.
\* With no work left the run ends.
Load(r) ==
  /\ run[r].at = "load"
  /\ UNCHANGED <<scene, state, held, sight, reviews>>
  /\ IF Todo(r) = {}
     THEN run[r] # Idle /\ run' = [run EXCEPT ![r] = Idle] /\ UNCHANGED <<answer, faults>>
     ELSE \E said \in [Page(Todo(r)) -> Answers \cup {"unavailable"}] :
            LET lost == {f \in Page(Todo(r)) : said[f] = "unavailable"} IN
            /\ \A f \in DOMAIN said \ lost : answer[f] \in {"-", said[f]}
            /\ faults + Cardinality(lost) <= MaxFaults
            /\ faults' = faults + Cardinality(lost)
            /\ answer' = [f \in Findings |-> IF f \in DOMAIN said \ lost THEN said[f] ELSE answer[f]]
            /\ run' = [run EXCEPT ![r].at = "pass", ![r].page = DOMAIN said, ![r].out = said]

Eligible(out) == {f \in DOMAIN out : out[f] = "apply" \/ out[f] \in Liftable}

\* The run's rejects of this page and of those before leave its contradictions.
Rejects(r) == {f \in run[r].page : run[r].out[f] = "reject"}

Dead(r) == run[r].dead \cup Rejects(r)

\* Mutant: what is accepted and not replayed yet is not counted.
NotAccepted(f) == state[f] \in {"proposed", "applied"}

IsLive(f) == state[f] \in Live

\* The book is read once per run, when a page first needs it; over a cap it is
\* skipped for the run.
BookOf(r) ==
  IF run[r].book.loaded \/ Eligible(run[r].out) = {} THEN run[r].book
  ELSE LET live == IF scene.over THEN {} ELSE {f \in Findings : IsLive(f)}
       IN [loaded |-> TRUE, members |-> live, applied |-> {f \in live : state[f] = "applied"}]

\* applySpelling, for one eligible finding.
Relabel(book, dead, f, out) ==
  LET group  == Group(book.members, KeyOf[Original(f)])
      strong == Strong(book, group)
  IN
  CASE ~Grouped(book.members, f) -> out
    [] Grouped(book.members, f) /\ Target(f) \in strong ->
         IF out = "no_evidence" /\ PromotedFrom(book, group, f) THEN "apply" ELSE out
    [] Grouped(book.members, f) /\ strong # {} /\ Target(f) \notin strong -> "off_established"
    [] Grouped(book.members, f) /\ strong = {} ->
         IF Contradictory(Counted(group, dead)) THEN "conflict" ELSE out

\* spellingPass.run: over the page's eligible items.
Pass(r) ==
  /\ run[r].at = "pass"
  /\ LET book == BookOf(r)
         out == run[r].out
     IN run' = [run EXCEPT ![r].at = "write", ![r].dead = Dead(r), ![r].book = book,
          ![r].out = [f \in DOMAIN out |->
             IF f \in Eligible(out) THEN Relabel(book, Dead(r), f, out[f]) ELSE out[f]]]
  /\ UNCHANGED <<scene, answer, state, held, sight, faults, reviews>>

\* What its run knew of the finding (history): a spelling that leads its group, the
\* group alone, or not even that.
Sight(book, f) ==
  CASE f \notin book.members -> "unknown"
    [] f \in book.members /\ Strong(book, Group(book.members, KeyOf[Original(f)])) # {} -> "led"
    [] OTHER -> "alone"

\* Each decision is written if the finding is still proposed and undecided; a hold
\* for want of an answer is not recorded as one.
Write(r) ==
  /\ run[r].at = "write"
  /\ LET out == run[r].out
         open == {f \in run[r].page : Undecided(f)}
     IN /\ state' = [f \in Findings |->
             IF f \in open /\ out[f] = "apply" THEN "accepted"
             ELSE IF f \in open /\ out[f] = "reject" THEN "rejected" ELSE state[f]]
        /\ held' = [f \in Findings |->
             IF f \in open /\ out[f] \notin {"apply", "reject", "unavailable"} THEN out[f] ELSE held[f]]
        /\ sight' = [f \in Findings |->
             IF f \in open THEN Sight(run[r].book, f) ELSE sight[f]]
        /\ run' = [run EXCEPT ![r].at = "load", ![r].page = {}, ![r].out = <<>>,
             ![r].after = CHOOSE f \in run[r].page : \A g \in run[r].page : g <= f]
  /\ UNCHANGED <<scene, answer, faults, reviews>>

\* The process dies, or a read fails and the run with it.
Stop(r) ==
  /\ run[r] # Idle /\ faults < MaxFaults
  /\ run' = [run EXCEPT ![r] = Idle]
  /\ faults' = faults + 1
  /\ UNCHANGED <<scene, answer, state, held, sight, reviews>>

-----------------------------------------------------------------------------
(* The others.                                                             *)

Judged(f) ==
  /\ state[f] = "none"
  /\ state' = [state EXCEPT ![f] = "proposed"]
  /\ UNCHANGED <<scene, answer, held, sight, run, faults, reviews>>

\* The audio-vote rung lifts a hold of a liftable reason; it does not look at spellings.
AudioLift(f) ==
  /\ state[f] = "proposed" /\ held[f] \in Liftable
  /\ state' = [state EXCEPT ![f] = "accepted"]
  /\ UNCHANGED <<scene, answer, held, sight, run, faults, reviews>>

Review(f) ==
  /\ state[f] = "proposed" /\ reviews < MaxReviews /\ reviews' = reviews + 1
  /\ \E s \in {"accepted", "rejected"} : state' = [state EXCEPT ![f] = s]
  /\ sight' = [sight EXCEPT ![f] = "person"]
  /\ UNCHANGED <<scene, answer, held, run, faults>>

Replay(f) ==
  /\ state[f] = "accepted"
  /\ state' = [state EXCEPT ![f] = "applied"]
  /\ UNCHANGED <<scene, answer, held, sight, run, faults, reviews>>

Next ==
  \/ \E r \in Runs : Load(r) \/ Pass(r) \/ Write(r) \/ Stop(r)
  \/ \E f \in Findings : Judged(f) \/ AudioLift(f) \/ Review(f) \/ Replay(f)

Spec == Init /\ [][Next]_vars

-----------------------------------------------------------------------------
(* The properties.                                                         *)

Standing == {f \in Findings : state[f] \in {"accepted", "applied"}}

\* Two fixes that sound alike and stand do not spell one name twice, unless one of
\* them was a person's decision, followed an established spelling, or was recorded
\* after its run had read the book.
OnceSpelt ==
  \A f, g \in {h \in Standing : sight[h] = "alone"} :
    KeysOf(f) \cap KeysOf(g) # {} => Target(f) = Target(g)

\* What one page over everything would apply.
AtOnce(r) ==
  LET book == run[r].book
      dead == {f \in book.members : answer[f] = "reject"}
  IN {f \in book.members :
        LET group == Group(book.members, KeyOf[Original(f)])
            strong == Strong(book, group)
        IN IF strong # {} THEN Target(f) \in strong
           ELSE ~Contradictory(group \ dead)}

\* A paged run applies nothing that a single page over the same book would hold.
PagedAppliesNoMore ==
  \A r \in Runs : run[r].at = "write" =>
    \A f \in run[r].page \cap run[r].book.members :
      run[r].out[f] = "apply" => f \in AtOnce(r)

\* What the pass keeps of a book: it is spelt once, at any page size.
BookSpeltOnce == OnceSpelt /\ PagedAppliesNoMore

\* Every spelling that stands, whenever its finding was recorded: refuted by a
\* finding recorded during a run.
SpeltAlike ==
  \A f, g \in {h \in Standing : sight[h] # "person"} :
    KeysOf(f) \cap KeysOf(g) # {} /\ ~scene.over => Target(f) = Target(g)
=============================================================================
