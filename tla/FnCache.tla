------------------------------ MODULE FnCache ------------------------------
(***************************************************************************)
(* The log and cache of model calls (fn_calls), for one input asked about  *)
(* by several callers at once: a pure function (internal/fn Invoke, used   *)
(* by scan and should_apply) or the judge of one chunk (internal/eval      *)
(* JudgeChunkWithBook), which retries and never loses a paid call's row.   *)
(*                                                                         *)
(* The two look up, call and insert in separate steps, and differ in what  *)
(* they do when another caller's answer has taken the cache slot.  The     *)
(* judge's key contains the model it expects to answer; the function's     *)
(* contains only the alias asked for, so its expected model can change     *)
(* under one key.                                                          *)
(***************************************************************************)
EXTENDS Naturals, FiniteSets

CONSTANTS
  Callers,     \* concurrent callers
  Models,      \* models that may answer
  Kinds,       \* the kinds of caller to explore: "fn", "judge"
  Retries,     \* further attempts of a judge
  MaxCalls,    \* invocations in a behaviour (bound)
  MaxFaults,   \* lost writes, unreadable rows, stops and deaths (bound)
  MaxChanges   \* changes of the expected model (bound)

VARIABLES
  kind,      \* what the callers are
  expected,  \* the model that should answer, as configured now
  rows,      \* the fn_calls rows of the input
  made,      \* rows made
  paid,      \* replies the endpoint has sent
  at,        \* where each caller is, and what it holds
  begun,     \* invocations begun
  dropped,   \* answers of functions that found the slot taken
  kept,      \* keys and models whose usable answer was logged or dropped
  faults, changes  \* what is left of the bounds

table == <<rows, made>>
vars  == <<kind, expected, table, paid, at, begun, dropped, kept, faults, changes>>

\* No reply; and a caller that has not asked.
NoReply == [n |-> 0, model |-> "any", usable |-> FALSE]
Idle == [pc |-> "idle", expects |-> "any", attempt |-> 0, answered |-> 0, error |-> "none",
         reply |-> NoReply, id |-> 0]

Init ==
  /\ kind \in Kinds /\ expected \in Models
  /\ rows = {} /\ made = 0 /\ paid = 0
  /\ at = [c \in Callers |-> Idle]
  /\ begun = 0 /\ dropped = 0 /\ kept = {}
  /\ faults = MaxFaults /\ changes = MaxChanges

Fault == faults > 0 /\ faults' = faults - 1
Ended == {"idle", "served", "failed"}

-----------------------------------------------------------------------------
(* Rows.                                                                   *)

\* The expected model is part of the judge's input, and not of a function's key.
Key(c) == IF kind = "judge" THEN at[c].expects ELSE "any"

\* The partial unique index: one successful row, not itself a hit, of a key.
InSlot(r, key) == r.key = key /\ r.error = "none" /\ ~r.hit
SlotFree(key)  == \A r \in rows : ~InSlot(r, key)

\* Mutant: whatever is in the slot is served.
SlotServed(r, key, model) == InSlot(r, key)

\* LookupFnCache: the slot's row, if the expected model answered it.
Servable(r, key, model) == InSlot(r, key) /\ r.reply.model = model

\* Mutant: an id of the sequence is skipped.
SkippedId == made + 2

NextId == made + 1

\* InsertFnCall.
Insert(c, error, hit, from) ==
  /\ made' = made + 1
  /\ rows' = rows \cup {[id |-> NextId, key |-> Key(c), error |-> error, hit |-> hit,
                         from |-> from, reply |-> at[c].reply]}

-----------------------------------------------------------------------------
(* A caller.                                                               *)

Begin(c) ==
  /\ at[c].pc \in Ended /\ begun < MaxCalls
  /\ begun' = begun + 1
  /\ at' = [at EXCEPT ![c] = [Idle EXCEPT !.pc = "lookup", !.expects = expected]]
  /\ UNCHANGED <<kind, expected, table, paid, dropped, kept, faults, changes>>

\* A lookup that fails ends the call; the judge asks again when it cannot
\* read what it found.
Lookup(c) ==
  /\ at[c].pc = "lookup"
  /\ \/ \E r \in rows :
          /\ Servable(r, Key(c), at[c].expects)
          /\ \/ /\ at' = [at EXCEPT ![c].pc = "hit", ![c].reply = r.reply, ![c].id = r.id]
                /\ UNCHANGED faults
             \/ kind = "judge" /\ Fault /\ at' = [at EXCEPT ![c].pc = "call"]
     \/ /\ \A r \in rows : ~Servable(r, Key(c), at[c].expects)
        /\ at' = [at EXCEPT ![c].pc = "call"]
        /\ UNCHANGED faults
     \/ Fault /\ at' = [at EXCEPT ![c].pc = "failed"]
  /\ UNCHANGED <<kind, expected, table, paid, begun, dropped, kept, changes>>

\* serveCached: a hit is logged as a row of its own.  A function returns that
\* row, or an error when it is lost; the judge returns the row served.
LogHit(c) ==
  /\ at[c].pc = "hit"
  /\ \/ /\ Insert(c, "none", TRUE, at[c].id)
        /\ at' = [at EXCEPT ![c].pc = "served",
                            ![c].id = IF kind = "fn" THEN made + 1 ELSE @]
        /\ UNCHANGED faults
     \/ /\ Fault /\ UNCHANGED table
        /\ at' = [at EXCEPT ![c].pc = IF kind = "fn" THEN "failed" ELSE "served"]
  /\ UNCHANGED <<kind, expected, paid, begun, dropped, kept, changes>>

\* Mutant: an answer is an answer.
NotChecked(c, m, usable) == "none"

\* The class a reply is logged under: the checks of systemone and of the judge,
\* then the model that answered.
ErrorOf(c, m, usable) ==
  IF ~usable THEN "invalid" ELSE IF m # at[c].expects THEN "fallback" ELSE "none"

\* The endpoint answers, with any model, usably or not (or its reply is lost
\* half-way: paid for all the same).  Which model gave an unusable reply is of
\* no consequence.
Answered(c, m, usable) ==
  /\ at[c].pc = "call"
  /\ ~usable => m = at[c].expects
  /\ paid' = paid + 1
  /\ \E error \in IF usable THEN {ErrorOf(c, m, usable)} ELSE {ErrorOf(c, m, usable), "body"} :
       at' = [at EXCEPT ![c].pc = "log", ![c].answered = @ + 1, ![c].error = error,
                        ![c].reply = [n |-> paid + 1, model |-> m, usable |-> usable]]
  /\ UNCHANGED <<kind, expected, table, begun, dropped, kept, faults, changes>>

\* It does not: overloaded or out of reach, or it refuses the request.
Unanswered(c, error) ==
  /\ at[c].pc = "call"
  /\ at' = [at EXCEPT ![c].pc = "log", ![c].error = error, ![c].reply = NoReply]
  /\ UNCHANGED <<kind, expected, table, paid, begun, dropped, kept, faults, changes>>

\* Mutant: what may have been paid for is asked for again.
RetryAll(c) == kind = "judge" /\ at[c].error \notin {"none", "taken", "fallback"}
               /\ at[c].attempt < Retries

\* retryDelay: only what was never answered.
Retryable(c) == kind = "judge" /\ at[c].error = "transient" /\ at[c].attempt < Retries

\* What the caller does with what it has logged.
AfterLog(c) ==
  IF at[c].error \in {"none", "taken", "fallback"} THEN "served"
  ELSE IF Retryable(c) THEN "wait" ELSE "failed"

\* Mutant: the judge too gives up its row.
DropAlways(c) == TRUE

\* Whose answer is dropped when the slot is taken.
DropsLoser(c) == kind = "fn"

\* Mutant: the loser points at the winner's row.
WinnersRow(c) == IF at[c].error = "none" /\ ~SlotFree(Key(c))
                 THEN (CHOOSE r \in rows : InSlot(r, Key(c))).id ELSE 0

\* The row a dropped or unlogged call points at.
NoRow(c) == 0

\* callModel and logCall: the attempt's row.  When another caller's row has the
\* slot, a function returns its answer without a row and the judge logs it
\* outside the slot.  A lost insert costs the function its answer, and the
\* judge only the row.
Log(c) ==
  LET taken == at[c].error = "none" /\ ~SlotFree(Key(c))
  IN
  /\ at[c].pc = "log"
  /\ \/ /\ ~taken /\ Insert(c, at[c].error, FALSE, 0)
        /\ at' = [at EXCEPT ![c].pc = AfterLog(c), ![c].id = made + 1]
        /\ UNCHANGED <<dropped, faults>>
     \/ /\ taken /\ DropsLoser(c)
        /\ at' = [at EXCEPT ![c].pc = "served", ![c].id = NoRow(c)]
        /\ dropped' = dropped + IF kind = "fn" THEN 1 ELSE 0
        /\ UNCHANGED <<table, faults>>
     \/ /\ taken /\ ~DropsLoser(c)
        /\ at' = [at EXCEPT ![c].error = "taken"]
        /\ UNCHANGED <<table, dropped, faults>>
     \/ /\ Fault /\ UNCHANGED <<table, dropped>>
        /\ at' = [at EXCEPT ![c].pc = IF kind = "fn" THEN "failed" ELSE AfterLog(c),
                            ![c].id = NoRow(c)]
  /\ kept' = IF at[c].error = "none" /\ faults' = faults
             THEN kept \cup {<<Key(c), at[c].expects>>} ELSE kept
  /\ UNCHANGED <<kind, expected, paid, begun, changes>>

\* The judge asks again after its wait, unless it is stopped.
Retry(c) ==
  /\ at[c].pc = "wait"
  /\ \/ at' = [at EXCEPT ![c].pc = "call", ![c].attempt = @ + 1] /\ UNCHANGED faults
     \/ Fault /\ at' = [at EXCEPT ![c].pc = "failed"]
  /\ UNCHANGED <<kind, expected, table, paid, begun, dropped, kept, changes>>

\* The caller's process dies.
Die(c) ==
  /\ at[c].pc \notin Ended /\ Fault
  /\ at' = [at EXCEPT ![c] = Idle]
  /\ UNCHANGED <<kind, expected, table, paid, begun, dropped, kept, changes>>

\* The model pinned to the step is changed, the alias asked for is not.
Repin(m) ==
  /\ changes > 0 /\ m # expected
  /\ changes' = changes - 1 /\ expected' = m
  /\ UNCHANGED <<kind, table, paid, at, begun, dropped, kept, faults>>

-----------------------------------------------------------------------------
Invoke(c) ==
  \/ Lookup(c) \/ LogHit(c) \/ Log(c) \/ Retry(c)
  \/ \E m \in Models, usable \in BOOLEAN : Answered(c, m, usable)
  \/ \E error \in {"transient", "status"} : Unanswered(c, error)

Next ==
  \/ \E c \in Callers : Begin(c) \/ Invoke(c) \/ Die(c)
  \/ \E m \in Models : Repin(m)

Spec == Init /\ [][Next]_vars

-----------------------------------------------------------------------------
(* Properties.                                                             *)

ReplyType == [n : Nat, model : Models \cup {"any"}, usable : BOOLEAN]
ErrorType == {"none", "invalid", "body", "fallback", "transient", "status", "taken"}

TypeOK ==
  /\ kind \in Kinds /\ expected \in Models
  /\ rows \subseteq [id : 1 .. made, key : Models \cup {"any"}, error : ErrorType,
                     hit : BOOLEAN, from : 0 .. made, reply : ReplyType]
  /\ made \in Nat /\ paid \in Nat /\ begun \in Nat /\ dropped \in Nat
  /\ at \in [Callers -> [pc : Ended \cup {"lookup", "hit", "call", "log", "wait"},
                         expects : Models \cup {"any"}, attempt : Nat, answered : Nat,
                         error : ErrorType, reply : ReplyType, id : 0 .. made]]
  /\ kept \subseteq (Models \cup {"any"}) \X (Models \cup {"any"})
  /\ faults \in Nat /\ changes \in Nat

\* An answer handed out is one the caller can use, and by the model it expects,
\* unless it is marked as a fallback's (LookupFnCache, Meta.Fallback).
ServedByExpected ==
  \A c \in Callers : at[c].pc = "served" =>
    at[c].reply.usable /\ (at[c].reply.model = at[c].expects \/ at[c].error = "fallback")

\* The row a result names holds the answer it came with, whoever won the slot
\* (insertFnCall, setFnCall).
AnswerIsAttributed ==
  \A c \in Callers : at[c].pc = "served" /\ at[c].id # 0 =>
    \E r \in rows : r.id = at[c].id /\ r.reply = at[c].reply

InFlight == {c \in Callers : at[c].pc = "log" /\ at[c].reply.n # 0}
Logged   == {r \in rows : ~r.hit /\ r.reply.n # 0}

\* Every reply paid for has its row, except for a lost write, a death, or a
\* function's answer that found the slot taken (logCall).
PaidIsLogged ==
  paid <= Cardinality(Logged) + Cardinality(InFlight) + dropped + (MaxFaults - faults)

\* One invocation pays for one reply at most (retryDelay).
PaidOnce == \A c \in Callers : at[c].answered <= 1

\* A usable answer of the expected model that was logged, or dropped because the
\* slot was taken, serves the next caller, as long as no model was repinned
\* under a function's key (fn_calls_cache_key_idx).
AnswersAreKept ==
  (kind = "judge" \/ changes = MaxChanges) =>
    \A k \in kept : \E r \in rows : Servable(r, k[1], k[2])

\* The same without the exception.
KeptForEveryone == \A k \in kept : \E r \in rows : Servable(r, k[1], k[2])
=============================================================================
