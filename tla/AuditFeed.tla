------------------------------ MODULE AuditFeed -------------------------------
(***************************************************************************)
(* The audit trail as its readers page through it: GET /api/v1/audit and     *)
(* `earmark audit` (internal/db/audit.go, internal/mcp/audit.go, cmd/audit). *)
(* A writer takes its row's id from the sequence when it inserts and commits *)
(* later, so rows appear out of the order of their ids.  A page is the       *)
(* matching rows after (or, newest first, before) a cursor.                 *)
(***************************************************************************)
EXTENDS Naturals, FiniteSets, FiniteSetsExt

CONSTANTS
  Readers, Tags,
  MaxInflight,     \* audit reads at once in one process
  PageLimit, MaxRows      \* bounds

VARIABLES
  rows,       \* of the table: id, tag, and where its transaction is
  reader,     \* the walks: direction, filter, cursor, what was returned
  inflight    \* auditInflight

vars == <<rows, reader, inflight>>

None == [at |-> "new", desc |-> FALSE, tags |-> {}, cursor |-> 0, got |-> {}, twice |-> FALSE,
         owed |-> {}]

Init == rows = {} /\ reader = [r \in Readers |-> None] /\ inflight = 0

Committed == {x \in rows : x.at = "committed"}

-----------------------------------------------------------------------------
Insert(tag) ==
  /\ Cardinality(rows) < MaxRows
  /\ rows' = rows \cup {[id |-> Cardinality(rows) + 1, tag |-> tag, at |-> "open"]}
  /\ UNCHANGED <<reader, inflight>>

End(x, how) ==
  /\ x.at = "open" /\ rows' = (rows \ {x}) \cup {[x EXCEPT !.at = how]}
  /\ UNCHANGED <<reader, inflight>>

-----------------------------------------------------------------------------
Matching(r) == {x \in Committed : x.tag \in reader[r].tags}

\* Mutant: a walk counts every row against its limit, matching or not.
Unfiltered(r) == Committed

\* The rows a statement's WHERE keeps.
Candidates(r) == Matching(r)

\* AuditAfter(0), AuditNewest.
First(desc) == IF desc THEN MaxRows + 1 ELSE 0

\* parseAuditQuery, ParseOptions: a walk names its direction and its filter.
Begin(r, desc, tags) ==
  /\ reader[r].at = "new"
  /\ reader' = [reader EXCEPT ![r] = [None EXCEPT !.at = "asks", !.desc = desc, !.tags = tags,
                  !.cursor = First(desc), !.owed = {x.id : x \in {y \in Committed : y.tag \in tags}}]]
  /\ UNCHANGED <<rows, inflight>>

Admitted(n) == n <= MaxInflight

\* handleAPIAudit: counted first; over the limit is a 429, counted off again.
Enter(r) ==
  /\ reader[r].at = "asks" /\ inflight' = inflight + 1
  /\ reader' = [reader EXCEPT ![r].at = IF Admitted(inflight + 1) THEN "reads" ELSE "refused"]
  /\ UNCHANGED rows

Refused(r) ==
  /\ reader[r].at = "refused" /\ inflight' = inflight - 1
  /\ reader' = [reader EXCEPT ![r].at = "asks"]
  /\ UNCHANGED rows

\* buildQuery: the first rows past the cursor, up to the limit.
Page(r) ==
  LET past == {x \in Candidates(r) :
                 IF reader[r].desc THEN x.id < reader[r].cursor ELSE x.id > reader[r].cursor}
      ahead(x) == {y \in past : IF reader[r].desc THEN y.id > x.id ELSE y.id < x.id} IN
  {x \in past : Cardinality(ahead(x)) < PageLimit}

\* readAudit: next is the last row's id; a short page is the end.
Read(r) ==
  LET page == {x.id : x \in Page(r) \cap Matching(r)} IN
  /\ reader[r].at = "reads" /\ inflight' = inflight - 1
  /\ reader' = [reader EXCEPT
       ![r].at = IF Cardinality(page) < PageLimit THEN "end" ELSE "asks",
       ![r].cursor = IF page = {} THEN @ ELSE IF reader[r].desc THEN Min(page) ELSE Max(page),
       ![r].got = @ \cup page,
       ![r].twice = @ \/ reader[r].got \cap page # {}]
  /\ UNCHANGED rows

\* The statement times out (503) or the client goes away: it asks again from
\* the same cursor.
Failed(r) ==
  /\ reader[r].at = "reads" /\ inflight' = inflight - 1
  /\ reader' = [reader EXCEPT ![r].at = "asks"]
  /\ UNCHANGED rows

\* A consumer that tails asks on from its cursor.
Tail(r) ==
  /\ reader[r].at = "end" /\ ~reader[r].desc
  /\ reader' = [reader EXCEPT ![r].at = "asks"]
  /\ UNCHANGED <<rows, inflight>>

Next ==
  \/ \E tag \in Tags : Insert(tag)
  \/ \E x \in rows, how \in {"committed", "aborted"} : End(x, how)
  \/ \E r \in Readers :
       \/ \E desc \in BOOLEAN, tags \in {{t} : t \in Tags} \cup {Tags} : Begin(r, desc, tags)
       \/ Enter(r) \/ Refused(r) \/ Read(r) \/ Failed(r) \/ Tail(r)

Spec == Init /\ [][Next]_vars

-----------------------------------------------------------------------------
(* Properties.                                                             *)

\* A walk to its end, newest or oldest first, returns every matching row that
\* was committed when it began, and no row twice, whatever commits, fails or is
\* refused meanwhile.
WalkIsComplete ==
  \A r \in Readers : /\ ~reader[r].twice
                     /\ reader[r].at = "end" => reader[r].owed \subseteq reader[r].got

\* What a tail would need: at its end, all that is committed was returned. A
\* row that commits behind the cursor refutes it (CONTRACT 2.12.2 says so).
TailMissesNothing ==
  \A r \in Readers : reader[r].at = "end" /\ ~reader[r].desc /\ (\A x \in rows : x.at # "open") =>
    \A x \in Matching(r) : \A y \in reader[r].got : x.id < y => x.id \in reader[r].got
=============================================================================
