---------------------------- MODULE RefreshCache ----------------------------
(***************************************************************************)
(* How the dashboard caches what is slow to read (internal/mcp).  A          *)
(* refreshCache serves a stale value and refreshes it in the background, one *)
(* load at a time: it holds the models page's aggregates ("db", whose loads *)
(* fail) and the gateways' status ("gateway", where a failure is a value).  *)
(* The GPU and endpoint probers ("probe") have the older form: each request *)
(* that finds no fresh entry fetches one itself, on its own context.        *)
(*                                                                         *)
(* The source is a version that only grows; what a load brings is the       *)
(* version it read.                                                        *)
(***************************************************************************)
EXTENDS Naturals, FiniteSetsExt

CONSTANTS
  Requests,
  Kinds,
  Ttl, RetryAfter, FirstRetryAfter,
  MaxTime, MaxVersion, MaxGets, MaxFaults   \* bounds

VARIABLES
  kind,
  source,   \* what a load reads now
  last,     \* the entry: version, when it was stored
  lastErr,  \* of the last refresh, and when another may start
  loads,    \* loads under way: who runs it, what it has read
  at,       \* the requests
  served, most,  \* the version last returned; the latest returned (history)
  now, gets, faults

vars == <<kind, source, last, lastErr, loads, at, served, most, now, gets, faults>>
clock == <<now, gets, faults>>

NoEntry == [v |-> 0, at |-> 0, down |-> FALSE]
NoError == [on |-> FALSE, retryAt |-> 0]

Init ==
  /\ kind \in Kinds /\ source = 1
  /\ last = NoEntry /\ lastErr = NoError /\ loads = {}
  /\ at = [r \in Requests |-> "idle"]
  /\ served = 0 /\ most = 0
  /\ now = 0 /\ gets = 0 /\ faults = MaxFaults

Have    == last # NoEntry
Refresh == kind # "probe"

-----------------------------------------------------------------------------
(* Requests.                                                               *)

Return(r, v) ==
  /\ at' = [at EXCEPT ![r] = "idle"]
  /\ served' = IF v = 0 THEN served ELSE v
  /\ most' = Max({most, v})

\* Mutant: a second refresh may start while one is under way.
CanStart == ~lastErr.on \/ now >= lastErr.retryAt

\* One refresh at a time, and none for a while after one that failed.
CanRefresh == loads = {} /\ (~lastErr.on \/ now >= lastErr.retryAt)

Stale == now - last.at >= Ttl

\* A load, of the cache itself or of the request that fetches.
Load(r) == [by |-> r, read |-> 0, down |-> FALSE]

\* refreshCache.get: a value is returned whatever its age; without one the
\* request starts or joins the first load and waits.
Get(r) ==
  /\ Refresh /\ at[r] = "idle" /\ gets < MaxGets /\ gets' = gets + 1
  /\ \/ /\ Have
        /\ loads' = IF CanRefresh /\ Stale THEN loads \cup {Load(r)} ELSE loads
        /\ Return(r, last.v)
     \/ /\ ~Have /\ loads = {} /\ ~CanRefresh
        /\ Return(r, 0) /\ UNCHANGED loads
     \/ /\ ~Have /\ (loads # {} \/ CanRefresh)
        /\ loads' = IF loads = {} THEN {Load(r)} ELSE loads
        /\ at' = [at EXCEPT ![r] = "wait"] /\ UNCHANGED <<served, most>>
  /\ UNCHANGED <<kind, source, last, lastErr, now, faults>>

\* done is closed: the waiting request reads the outcome.
Woken(r) ==
  /\ Refresh /\ at[r] = "wait" /\ (Have \/ loads = {})
  /\ Return(r, last.v)
  /\ UNCHANGED <<kind, source, last, lastErr, loads, clock>>

\* Probe: a fresh entry is returned, else the request fetches.
Probe(r) ==
  /\ ~Refresh /\ at[r] = "idle" /\ gets < MaxGets /\ gets' = gets + 1
  /\ \/ Have /\ ~Stale /\ Return(r, last.v) /\ UNCHANGED loads
     \/ /\ ~Have \/ Stale
        /\ loads' = loads \cup {Load(r)}
        /\ at' = [at EXCEPT ![r] = "fetch"] /\ UNCHANGED <<served, most>>
  /\ UNCHANGED <<kind, source, last, lastErr, now, faults>>

\* Mutant: a load runs on the context of the request that started it.
OnRequest(l) == TRUE

\* Whose context ends a load: a refresh has its own.
EndsWith(l) == ~Refresh

\* The viewer goes away.
Cancel(r) ==
  /\ at[r] \in {"wait", "fetch"}
  /\ at' = [at EXCEPT ![r] = IF @ = "wait" THEN "idle" ELSE "gone"]
  /\ LET ended == {l \in loads : l.by = r /\ EndsWith(l) /\ l.read = 0} IN
     loads' = (loads \ ended) \cup {[l EXCEPT !.read = source, !.down = TRUE] : l \in ended}
  /\ UNCHANGED <<kind, source, last, lastErr, served, most, now, gets, faults>>

-----------------------------------------------------------------------------
(* Loads.                                                                  *)

\* The query or the GET answers; or it fails, panics or times out.
Read(l) ==
  /\ l.read = 0
  /\ \/ loads' = (loads \ {l}) \cup {[l EXCEPT !.read = source]} /\ UNCHANGED clock
     \/ /\ faults > 0 /\ faults' = faults - 1
        /\ loads' = (loads \ {l}) \cup {[l EXCEPT !.read = source, !.down = TRUE]}
        /\ UNCHANGED <<now, gets>>
  /\ UNCHANGED <<kind, source, last, lastErr, at, served, most>>

\* What a failed load leaves: an error beside the last good value, or a value
\* that says so.
Keeps(l) == l.down /\ kind = "db"

\* refresh: the outcome is stored.
Stored(l) ==
  /\ Refresh /\ l.read # 0 /\ loads' = loads \ {l}
  /\ IF Keeps(l)
     THEN /\ lastErr' = [on |-> TRUE, retryAt |-> now + IF Have THEN RetryAfter ELSE FirstRetryAfter]
          /\ UNCHANGED last
     ELSE last' = [v |-> l.read, at |-> now, down |-> l.down] /\ lastErr' = NoError
  /\ UNCHANGED <<kind, source, at, served, most, clock>>

\* A prober's fetch is stored by its request, cancelled or not.
Fetched(l) ==
  /\ ~Refresh /\ l.read # 0 /\ loads' = loads \ {l}
  /\ last' = [v |-> l.read, at |-> now, down |-> l.down]
  /\ Return(l.by, l.read)
  /\ UNCHANGED <<kind, source, lastErr, clock>>

-----------------------------------------------------------------------------
Change ==
  /\ source < MaxVersion /\ source' = source + 1
  /\ UNCHANGED <<kind, last, lastErr, loads, at, served, most, clock>>

Tick ==
  /\ now < MaxTime /\ now' = now + 1
  /\ UNCHANGED <<kind, source, last, lastErr, loads, at, served, most, gets, faults>>

Next ==
  \/ \E r \in Requests : Get(r) \/ Woken(r) \/ Probe(r) \/ Cancel(r)
  \/ \E l \in loads : Read(l) \/ Stored(l) \/ Fetched(l)
  \/ Change \/ Tick

Spec == Init /\ [][Next]_vars

-----------------------------------------------------------------------------
(* Properties.                                                             *)

\* A page never goes back to an older value than one it has shown, whoever
\* asked, waited or went away.
NeverBack == Refresh => served = most

\* One viewer closing a tab is not a failure for the others: the cache holds an
\* error, or a status that says "down", only if a load of its own failed.
CancelHurtsNobody == Refresh /\ (lastErr.on \/ last.down) => faults < MaxFaults

\* What NeverBack says, of the probers too: two requests fetch at once and the
\* slower one stores the older answer as fresh.
ProbesNeverBack == served = most

\* What CancelHurtsNobody says, of the probers too.
ProbesSurviveCancel == last.down => faults < MaxFaults
=============================================================================
