---------------------------- MODULE ServerCards -----------------------------
(***************************************************************************)
(* The runner cards of the Servers page and the health of the ASR role: the *)
(* ASR_SERVERS entries, the runners that hold a claim and the hosts of past *)
(* runs have no key in common and are joined by name                        *)
(* (internal/mcp/servers.go buildServerViews, internal/mcp/models.go        *)
(* asrHealth, internal/db/db.go GetServerObservation).                      *)
(***************************************************************************)
EXTENDS Naturals, Sequences, FiniteSets

CONSTANTS
  Pages,    \* what the pages to explore read
  Holds     \* Holds[name]: the names that are substrings of it

VARIABLES
  page,   \* [servers, runners, hosts, waits, phase]
  doing,  \* the loop
  i,      \* where it is
  live,   \* runners that have a card
  used,   \* hosts that are taken
  cards,  \* the cards made
  health  \* of the ASR role

vars == <<page, doing, i, live, used, cards, health>>

Runners == DOMAIN page.runners  \* [name, beat], beat 0 when it is stale
Hosts   == DOMAIN page.hosts    \* [name, finished], 0 never, 1 long ago

Init ==
  /\ page \in Pages
  /\ doing = "servers" /\ i = 1
  /\ live = {} /\ used = {} /\ cards = <<>> /\ health = "none"

-----------------------------------------------------------------------------

\* The greatest by f, the first of equals; 0 for none.
Latest(S, f) ==
  IF S = {} THEN 0
  ELSE CHOOSE s \in S : \A u \in S : f[u] < f[s] \/ (f[u] = f[s] /\ s <= u)

Freshest(S) == Latest(S, [r \in S |-> page.runners[r].beat])
LastOf(S)   == Latest(S, [h \in S |-> page.hosts[h].finished])

\* counted: the hosts whose jobs the card adds up.
Card(listed, runner, hosts, probe) ==
  [listed |-> listed, runner |-> runner, host |-> LastOf(hosts), counted |-> hosts, probe |-> probe]

\* Mutant: the probe before the claim.
ProbeFirst(c) ==
  CASE c.probe \in {"offline", "ready"} -> c.probe
    [] c.probe \in {"held", "stopped"}  -> "busy"
    [] c.probe = "none" /\ c.runner # 0 ->
         IF page.runners[c.runner].beat > 0 THEN "transcribing" ELSE "stalled"
    [] c.probe = "none" /\ c.runner = 0 -> IF c.host # 0 THEN "idle" ELSE "not_seen"

\* What a card says, its claim first, then the probe, then its past.
State(c) ==
  CASE c.runner # 0 -> IF page.runners[c.runner].beat > 0 THEN "transcribing" ELSE "stalled"
    [] c.runner = 0 /\ c.probe \in {"offline", "ready"} -> c.probe
    [] c.runner = 0 /\ c.probe \in {"held", "stopped"}  -> "busy"
    [] c.runner = 0 /\ c.probe = "none" -> IF c.host # 0 THEN "idle" ELSE "not_seen"

\* A server of the list takes the freshest runner of its name and every host.
Server ==
  /\ doing = "servers" /\ i <= Len(page.servers)
  /\ LET s       == page.servers[i]
         runner  == Freshest({r \in Runners \ live : s.token \in Holds[page.runners[r].name]})
         hosts   == {h \in Hosts \ used : s.token \in Holds[page.hosts[h].name]}
     IN /\ live' = live \cup ({runner} \ {0})
        /\ used' = used \cup hosts
        /\ cards' = Append(cards, Card(TRUE, runner, hosts, s.probe))
  /\ i' = i + 1 /\ UNCHANGED <<page, doing, health>>

\* A runner no server took: it adds up every host its name holds and takes one.
Runner ==
  /\ doing = "runners" /\ i \in Runners
  /\ IF i \in live THEN UNCHANGED <<live, used, cards>>
     ELSE LET hosts == {h \in Hosts \ used : page.hosts[h].name \in Holds[page.runners[i].name]}
          IN /\ live' = live \cup {i}
             /\ used' = used \cup ({LastOf(hosts)} \ {0})
             /\ cards' = Append(cards, Card(FALSE, i, hosts, "none"))
  /\ i' = i + 1 /\ UNCHANGED <<page, doing, health>>

Recent(h) == page.hosts[h].finished > 1

\* A host nobody took, if it has transcribed within runnerHistoryWindow.
Host ==
  /\ doing = "hosts" /\ i \in Hosts
  /\ used' = used \cup {i}
  /\ cards' = IF i \notin used /\ Recent(i) THEN Append(cards, Card(FALSE, 0, {i}, "none")) ELSE cards
  /\ i' = i + 1 /\ UNCHANGED <<page, doing, live, health>>

Turn(from, size, to) == doing = from /\ i > size /\ doing' = to /\ i' = 1

NextLoop ==
  /\ \/ Turn("servers", Len(page.servers), "runners")
     \/ Turn("runners", Len(page.runners), "hosts")
     \/ Turn("hosts", Len(page.hosts), "health")
  /\ UNCHANGED <<page, live, used, cards, health>>

-----------------------------------------------------------------------------
(* The health of the role; the first card that says so names it.           *)

In(state) == {k \in DOMAIN cards : State(cards[k]) = state}
First(S)  == CHOOSE k \in S : \A u \in S : k <= u

Probed  == {k \in DOMAIN cards : cards[k].probe # "none"}
Busy    == In("busy") \cap Probed
Stopped == {k \in Busy : cards[k].probe = "stopped"}
Held    == {k \in Busy : cards[k].probe = "held"}
\* Every server with a probe is busy or out of reach, and one is busy.
AllAway == Busy # {} /\ Busy \cup (In("offline") \cap Probed) = Probed

Says(what, S) == [is |-> what, of |-> First(S)]
Plain(what)   == [is |-> what, of |-> 0]

AwayHealth ==
  CASE Stopped # {} /\ page.phase = "analyze" -> Says("idle", Stopped)
    [] Stopped # {} /\ page.phase # "analyze" -> Says("degraded", Stopped)
    [] Stopped = {} /\ ~page.waits            -> Says("idle", Held)
    [] Stopped = {} /\ page.waits             -> Says("degraded", Held)

\* Of the runners, when they could be read; page.waits unless the queue could be
\* read and has nothing pending.
Judged ==
  IF In("transcribing") # {} THEN Says("healthy", In("transcribing"))
  ELSE IF In("stalled") # {} THEN Says("failing", In("stalled"))
  ELSE IF In("ready") # {} THEN Says("healthy", In("ready"))
  ELSE IF AllAway THEN AwayHealth
  ELSE IF Probed # {} /\ In("offline") \cap Probed = Probed THEN Plain("down")
  ELSE IF In("idle") # {} THEN Says("idle", In("idle"))
  ELSE IF cards = <<>> THEN Plain("not_configured")
  ELSE Plain("unknown")

Health ==
  /\ doing = "health" /\ doing' = "shown"
  /\ health' = Judged
  /\ UNCHANGED <<page, i, live, used, cards>>

Next == Server \/ Runner \/ Host \/ NextLoop \/ Health

Spec == Init /\ [][Next]_vars

-----------------------------------------------------------------------------
(* Properties.                                                             *)

\* A runner that holds a claim has exactly one card, and a host that has
\* transcribed of late is counted on one at least and is the host of one at
\* most, though the three lists overlap and one name may hold another
\* (buildServerViews).
NoneLostNoneTwice ==
  doing = "shown" =>
    /\ \A r \in Runners : Cardinality({k \in DOMAIN cards : cards[k].runner = r}) = 1
    /\ \A h \in Hosts :
         /\ Recent(h) => \E k \in DOMAIN cards : h \in cards[k].counted
         /\ Cardinality({k \in DOMAIN cards : cards[k].host = h}) <= 1

\* The role is failing when a runner has stalled and none transcribes, however
\* the cards were joined and whatever the probes say, and it never names a
\* server as held that is not (asrHealth).
HealthIsHonest ==
  doing = "shown" =>
    /\ health.is = "failing" <=>
         /\ Runners # {}
         /\ \A r \in Runners : page.runners[r].beat = 0
    /\ health.of # 0 /\ health.is = "degraded" => cards[health.of].probe \in {"held", "stopped"}

\* No host's jobs are counted on two cards.  Refuted: a runner that is not in
\* ASR_SERVERS adds up every host its name holds and takes only the latest.
CountedOnce ==
  doing = "shown" =>
    \A h \in Hosts : Cardinality({k \in DOMAIN cards : h \in cards[k].counted}) <= 1
=============================================================================
