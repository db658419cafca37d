--------------------------- MODULE ModelSettings ---------------------------
(***************************************************************************)
(* Which model a step runs on (docs/CONTRACT.md §2.20): the deployment's    *)
(* env registry, the model_settings row `earmark models set` writes over    *)
(* it, and a run's own --endpoint/--model over both (internal/config       *)
(* stepsettings.go), as the worker's cycle, a search process's watch and   *)
(* an ad-hoc run apply them.                                               *)
(*                                                                         *)
(* A step without an endpoint, and the EVAL_CHAT_* judge, are left out:    *)
(* every env here binds every step.                                        *)
(***************************************************************************)
EXTENDS Naturals, FiniteSets, SequencesExt

CONSTANTS
  Envs,       \* deployments: each binds endpoints to steps, with the steps' pins
  Settable,   \* the settings an operator may write
  Overrides,  \* the --endpoint/--model of a run ("" is not given)
  Unfit,      \* embed models whose vectors the column cannot hold
  Operators,
  Bounds      \* what a behaviour may use up: rows written, failed reads and
              \* probes, redeployments, ad-hoc runs

Steps   == {"decide", "embed", "propose", "scan"}
TypeFor == [decide |-> "systemone", embed |-> "embeddings", propose |-> "chat", scan |-> "systemone"]

VARIABLES
  env,      \* the deployment
  rows,     \* model_settings
  history,  \* model_setting_events, by step
  cli,      \* the operators' commands
  worker,   \* the worker: what it read, applied and runs with
  search,   \* a search process's embedder
  run,      \* an ad-hoc run's config
  current,  \* current_recipes
  left      \* what is left of the bounds

vars == <<env, rows, history, cli, worker, search, run, current, left>>

NoRow == [step |-> "none", ep |-> "none", model |-> "none", pin |-> "none", policy |-> "none"]

-----------------------------------------------------------------------------
(* Configs.  An endpoint's id is <<the registered id, the step it was       *)
(* synthesized for, or "none">>.                                           *)

Registered(e) == {[id |-> <<r.id, "none">>, model |-> r.model] : r \in e.endpoints}

\* LoadConfig.
Base(e) == [eps |-> Registered(e), role |-> [s \in Steps |-> <<e.role[s], "none">>], pin |-> e.pin,
            policy |-> e.policy, src |-> [s \in Steps |-> "env"], psrc |-> [s \in Steps |-> "env"]]

Bound(c, s) == CHOOSE ep \in c.eps : ep.id = c.role[s]
OwnModel(e, id) == (CHOOSE r \in e.endpoints : r.id = id).model

\* ValidateStepSetting.
Valid(e, set) == \E r \in e.endpoints : r.id = set.ep /\ r.type = TypeFor[set.step]

IsEnvBinding(e, set) ==
  LET b == Bound(Base(e), set.step) IN b.id[1] = set.ep /\ b.model = set.model

\* Mutant: the pin stays whatever the model becomes.
KeptPin(e, c, set) == IF set.pin # "none" THEN set.pin ELSE c.pin[set.step]

\* The pin a setting that moves the step, or pins it, leaves.
NewPin(e, c, set) == IF set.pin = "none" /\ IsEnvBinding(e, set) THEN e.pin[set.step] ELSE set.pin

\* Mutant: the registered endpoint goes, not the one synthesized for the step.
DropsTheBase(c, cur) == IF cur.id[2] = "none" THEN c.eps ELSE {ep \in c.eps : ep.id # <<cur.id[1], "none">>}

\* What a step had synthesized for it is replaced.
Without(c, cur) == IF cur.id[2] = "none" THEN c.eps ELSE c.eps \ {cur}

\* applyStepSetting and applyPolicyParams.
ApplySetting(e, c, set, source) ==
  LET s     == set.step
      cur   == Bound(c, s)
      same  == set.pin = "none" /\ cur.model = set.model /\ cur.id[1] = set.ep
      own   == OwnModel(e, set.ep)
      ep    == [id |-> <<set.ep, IF own = set.model THEN "none" ELSE s>>, model |-> set.model]
      moved == [c EXCEPT !.eps = Without(c, cur) \cup {ep}, !.role[s] = ep.id,
                         !.pin[s] = NewPin(e, c, set),
                         !.policy[s] = IF set.pin = "none" /\ IsEnvBinding(e, set) THEN e.policy[s] ELSE "none",
                         !.psrc[s] = IF set.pin = "none" /\ IsEnvBinding(e, set) THEN "env" ELSE source]
      n     == [(IF same THEN c ELSE moved) EXCEPT !.src[s] = source]
  IN IF set.policy = "none" THEN n ELSE [n EXCEPT !.policy[s] = set.policy, !.psrc[s] = source]

\* One step's row laid over a config.
WithRow(e, rs, steps, c, s) ==
  IF s \in steps /\ rs[s] # NoRow /\ Valid(e, rs[s]) THEN ApplySetting(e, c, rs[s], "db") ELSE c

\* WithValidStepSettings over the rows of some steps, in their order;
\* WithStepSettings is this where all of them are valid.
WithRows(e, rs, steps) ==
  LET c1 == WithRow(e, rs, steps, Base(e), "decide")
      c2 == WithRow(e, rs, steps, c1, "embed")
      c3 == WithRow(e, rs, steps, c2, "propose") IN
  WithRow(e, rs, steps, c3, "scan")
AllValid(e, rs, steps) == \A s \in steps : rs[s] # NoRow => Valid(e, rs[s])

\* What a step is run with: its endpoint, model and pin are its recipe.
Binding(c, s) == [ep |-> Bound(c, s).id[1], model |-> Bound(c, s).model, pin |-> c.pin[s]]

\* OverrideSetting.
Override(e, c, s, ov) ==
  LET cur == Bound(c, s)
      ep  == IF ov.ep = "" THEN cur.id[1] ELSE ov.ep
  IN [step |-> s, ep |-> ep, pin |-> "none", policy |-> "none",
      model |-> IF ov.model # "" THEN ov.model
                ELSE IF ep = cur.id[1] THEN cur.model ELSE OwnModel(e, ep)]

-----------------------------------------------------------------------------

NoCommand == [pc |-> "idle", set |-> NoRow, seen |-> NoRow]
NoRun     == [on |-> FALSE, e |-> CHOOSE e \in Envs : TRUE, step |-> "none", ov |-> [ep |-> "", model |-> ""],
              read |-> NoRow, got |-> NoRow]
Unread    == [s \in Steps |-> NoRow]

\* NewWorker and New: a process starts on its env config.
WorkerOn(e) == [pc |-> "start", e |-> e, read |-> Unread, fresh |-> FALSE, active |-> {},
                judge |-> Binding(Base(e), "propose"), emb |-> Binding(Base(e), "embed")]
SearchOn(e) == [e |-> e, emb |-> Binding(Base(e), "embed"), error |-> FALSE]

Init ==
  /\ env \in Envs /\ rows = Unread
  /\ history = [s \in Steps |-> <<>>]
  /\ cli = [o \in Operators |-> NoCommand]
  /\ worker = WorkerOn(env) /\ search = SearchOn(env) /\ run = NoRun
  /\ current = [s \in Steps |-> NoRow]
  /\ left \in Bounds

Spend(what) == left[what] > 0 /\ left' = [left EXCEPT ![what] = @ - 1]

-----------------------------------------------------------------------------
(* `earmark models set` and `unset`.                                       *)

\* Set, up to the write: validated against the env, an embed model probed
\* unless --no-probe.
StartSet(o) ==
  /\ cli[o].pc = "idle" /\ Spend("changes")
  /\ \E set \in Settable :
       /\ Valid(env, set)
       /\ cli' = [cli EXCEPT ![o] = [pc |-> "set", set |-> set, seen |-> rows[set.step]]]
  /\ UNCHANGED <<env, rows, history, worker, search, run, current>>

\* Mutant: the old value is the one read before the lock.
AsSeen(o, s) == cli[o].seen

\* lockAndReadSetting.
LockedRow(o, s) == rows[s]

\* SetModelSetting.
WriteSet(o) ==
  LET set == cli[o].set
      old == LockedRow(o, set.step)
  IN
  /\ cli[o].pc = "set"
  /\ IF old = set THEN UNCHANGED <<rows, history>>
     ELSE /\ rows' = [rows EXCEPT ![set.step] = set]
          /\ history' = [history EXCEPT ![set.step] = Append(@, [old |-> old, new |-> set])]
  /\ cli' = [cli EXCEPT ![o] = NoCommand]
  /\ UNCHANGED <<env, worker, search, run, current, left>>

\* UnsetModelSetting.
Unset(o) ==
  /\ cli[o].pc = "idle" /\ Spend("changes")
  /\ \E s \in Steps :
       /\ rows[s] # NoRow
       /\ rows' = [rows EXCEPT ![s] = NoRow]
       /\ history' = [history EXCEPT ![s] = Append(@, [old |-> rows[s], new |-> NoRow])]
  /\ UNCHANGED <<env, cli, worker, search, run, current>>

-----------------------------------------------------------------------------
(* The worker's cycle: cycleConfig, applyConfig, applyEmbed.               *)

WorkerSteps == {"embed", "propose"}

\* Mutant: a step whose row is unset keeps the row's recipe.
RegistersRows(e, rs, step) ==
  IF rs[step] # NoRow /\ Valid(e, rs[step]) THEN Binding(WithRows(e, rs, Steps), step) ELSE current[step]

\* currentRecipes.register: of every step whose row is valid.
Registers(e, rs, step) ==
  IF rs[step] = NoRow \/ Valid(e, rs[step]) THEN Binding(WithRows(e, rs, Steps), step) ELSE current[step]

\* registerFromDB, at startup: best effort.
Starts ==
  /\ worker.pc = "start"
  /\ worker' = [worker EXCEPT !.pc = "idle"]
  /\ \/ current' = [s \in Steps |-> Registers(worker.e, rows, s)] /\ UNCHANGED left
     \/ Spend("faults") /\ UNCHANGED current
  /\ UNCHANGED <<env, rows, history, cli, search, run>>

\* The rows are read; unreadable, the last applied settings are kept.
ReadRows ==
  /\ worker.pc = "idle"
  /\ worker' = [worker EXCEPT !.pc = "apply", !.read = rows, !.fresh = TRUE]
  /\ current' = [s \in Steps |-> Registers(worker.e, rows, s)]
  /\ UNCHANGED <<env, rows, history, cli, search, run, left>>

CannotRead ==
  /\ worker.pc = "idle" /\ Spend("faults")
  /\ worker' = IF worker.active # {} THEN [worker EXCEPT !.pc = "work", !.fresh = FALSE] ELSE worker
  /\ UNCHANGED <<env, rows, history, cli, search, run, current>>

\* Mutant: a step is the same step as long as its model is.
SameModel(b, c) == b.model = c.model

\* judgeKey and embedConfigKey: everything a setting can change.
SameJudge(b, c) == b = c
SameEmbedder(b, c) == b = c

\* Mutant: a new embedder is not probed.
NeverProbed(b) == TRUE

\* embedProbe.
Fits(b) == b.model \notin Unfit

\* An invalid row idles the cycle; the judge is switched before the embedder
\* is probed, and a refused embedder idles the cycle too.
Apply ==
  LET c     == WithRows(worker.e, worker.read, WorkerSteps)
      judge == Binding(c, "propose")
      emb   == Binding(c, "embed")
      switched == [worker EXCEPT !.judge = IF SameJudge(@, judge) THEN @ ELSE judge]
  IN
  /\ worker.pc = "apply"
  /\ \/ /\ ~AllValid(worker.e, worker.read, WorkerSteps)
        /\ worker' = [worker EXCEPT !.pc = "idle"] /\ UNCHANGED left
     \/ /\ AllValid(worker.e, worker.read, WorkerSteps)
        /\ SameEmbedder(emb, worker.emb) \/ Fits(emb)
        /\ worker' = [switched EXCEPT !.pc = "work", !.emb = IF SameEmbedder(emb, @) THEN @ ELSE emb,
                                    !.active = {[judge |-> judge, emb |-> emb]}]
        /\ UNCHANGED left
     \/ /\ AllValid(worker.e, worker.read, WorkerSteps)
        /\ ~SameEmbedder(emb, worker.emb)
        /\ IF Fits(emb) THEN Spend("faults") ELSE UNCHANGED left
        /\ worker' = [switched EXCEPT !.pc = "idle"]
  /\ UNCHANGED <<env, rows, history, cli, search, run, current>>

\* The cycle's transcripts are judged and embedded.
Work ==
  /\ worker.pc = "work" /\ worker' = [worker EXCEPT !.pc = "idle"]
  /\ UNCHANGED <<env, rows, history, cli, search, run, current, left>>

-----------------------------------------------------------------------------
(* A search process: ApplyEmbedSettings, every 30 s.                       *)

Watch ==
  LET emb == Binding(WithRows(search.e, rows, {"embed"}), "embed") IN
  /\ \/ /\ ~AllValid(search.e, rows, {"embed"})
        /\ search' = [search EXCEPT !.error = TRUE] /\ UNCHANGED left
     \/ /\ AllValid(search.e, rows, {"embed"})
        /\ SameEmbedder(emb, search.emb) /\ UNCHANGED <<search, left>>
     \/ /\ AllValid(search.e, rows, {"embed"})
        /\ ~SameEmbedder(emb, search.emb) /\ Fits(emb)
        /\ search' = [search EXCEPT !.emb = emb, !.error = FALSE] /\ UNCHANGED left
     \/ /\ AllValid(search.e, rows, {"embed"})
        /\ ~SameEmbedder(emb, search.emb) /\ ~Fits(emb)
        /\ search' = [search EXCEPT !.error = TRUE] /\ UNCHANGED left
  /\ UNCHANGED <<env, rows, history, cli, worker, run, current>>

\* The rows cannot be read, or the probe fails.
WatchFails ==
  /\ Spend("faults") /\ search' = [search EXCEPT !.error = TRUE]
  /\ UNCHANGED <<env, rows, history, cli, worker, run, current>>

-----------------------------------------------------------------------------
(* An ad-hoc run: ResolveStep.                                             *)

Resolve ==
  /\ ~run.on /\ Spend("runs")
  /\ \E s \in Steps, ov \in Overrides :
       LET c   == WithRows(env, rows, {s})
           set == Override(env, c, s, ov)
       IN /\ AllValid(env, rows, {s})
          /\ ov.ep = "" \/ \E r \in env.endpoints : r.id = ov.ep /\ r.type = TypeFor[s]
          /\ LET n == IF ov.ep = "" /\ ov.model = "" THEN c ELSE ApplySetting(env, c, set, "override")
             IN run' = [on |-> TRUE, e |-> env, step |-> s, ov |-> ov, read |-> rows[s],
                        got |-> Binding(n, s)]
  /\ UNCHANGED <<env, rows, history, cli, worker, search, current>>

EndRun ==
  /\ run.on /\ run' = NoRun
  /\ UNCHANGED <<env, rows, history, cli, worker, search, current, left>>

-----------------------------------------------------------------------------
(* A deployment, rolled out process by process.                            *)

Redeploy ==
  /\ Spend("deploys") /\ env' \in Envs \ {env}
  /\ UNCHANGED <<rows, history, cli, worker, search, run, current>>

RestartWorker ==
  /\ worker.e # env /\ worker' = WorkerOn(env)
  /\ UNCHANGED <<env, rows, history, cli, search, run, current, left>>

RestartSearch ==
  /\ search.e # env /\ search' = SearchOn(env)
  /\ UNCHANGED <<env, rows, history, cli, worker, run, current, left>>

Cycle == Starts \/ ReadRows \/ CannotRead \/ Apply \/ Work

Next ==
  \/ \E o \in Operators : StartSet(o) \/ WriteSet(o) \/ Unset(o)
  \/ Cycle \/ Watch \/ WatchFails \/ Resolve \/ EndRun
  \/ Redeploy \/ RestartWorker \/ RestartSearch

Spec == Init /\ [][Next]_vars

\* The worker's loop and the watch's ticker never stop, and a deployment is
\* rolled out.
FairSpec ==
  /\ Spec /\ WF_vars(Cycle) /\ WF_vars(Watch) /\ WF_vars(RestartWorker) /\ WF_vars(RestartSearch)
  /\ \A o \in Operators : WF_vars(WriteSet(o))

-----------------------------------------------------------------------------
(* Properties.                                                             *)

Bindings == [ep : STRING, model : STRING, pin : STRING]

TypeOK ==
  /\ env \in Envs /\ worker.e \in Envs /\ search.e \in Envs
  /\ \A s \in Steps : rows[s] = NoRow \/ rows[s] \in {r \in Settable : r.step = s}
  /\ worker.pc \in {"start", "idle", "apply", "work"} /\ Cardinality(worker.active) <= 1
  /\ \A s \in Steps : current[s] = NoRow \/ current[s] \in Bindings
  /\ worker.judge \in Bindings /\ worker.emb \in Bindings /\ search.emb \in Bindings

\* What the contract says a row means: its step runs on the endpoint and model
\* it names, and on the pin written for them, whatever the other steps' rows.
Want(e, s, row) ==
  IF row = NoRow \/ ~Valid(e, row) THEN Binding(Base(e), s)
  ELSE [ep |-> row.ep, model |-> row.model,
        pin |-> IF row.pin = "none" /\ IsEnvBinding(e, row) THEN e.pin[s] ELSE row.pin]

\* A row moves its own step, and no step that shares its endpoint.
StepsApart ==
  \A e \in {env, worker.e}, s \in Steps : Binding(WithRows(e, rows, Steps), s) = Want(e, s, rows[s])

\* A cycle that read the rows judges and embeds with what they name.
WorkerRunsAsSet ==
  worker.pc = "work" /\ worker.fresh =>
    /\ worker.judge = Want(worker.e, "propose", worker.read["propose"])
    /\ worker.emb = Want(worker.e, "embed", worker.read["embed"])

\* A run has the endpoint and model it was asked for, else those set, and no
\* pin that was written for another model.
RunsAsAsked ==
  run.on =>
    LET set == Want(run.e, run.step, run.read) got == run.got IN
    /\ got.ep = (IF run.ov.ep = "" THEN set.ep ELSE run.ov.ep)
    /\ got.model = (IF run.ov.model # "" THEN run.ov.model
                    ELSE IF got.ep = set.ep THEN set.model ELSE OwnModel(run.e, got.ep))
    /\ got.pin # "none" => got \in {set, Binding(Base(run.e), run.step)}

\* What is recorded is what happened: every event starts from what the one
\* before it left, and the last one left the row.
HistoryIsAChain ==
  \A s \in Steps : LET h == history[s] IN
    /\ \A i \in 1 .. Len(h) : h[i].old = (IF i = 1 THEN NoRow ELSE h[i - 1].new) /\ h[i].old # h[i].new
    /\ rows[s] = (IF h = <<>> THEN NoRow ELSE Last(h).new)

\* Nothing is embedded or searched with vectors the column cannot hold.
NeverUnfit == {worker.emb.model, search.emb.model} \cap Unfit = {}

\* Once the rows stay as they are, search and the worker follow every row
\* that can be applied, and the current recipes are the ones run.
Applies(e, s) == (rows[s] = NoRow \/ Valid(e, rows[s])) /\ (s = "embed" => rows[s].model \notin Unfit)
SearchFollows == <>[](Applies(search.e, "embed") => search.emb = Want(search.e, "embed", rows["embed"]))
WorkerFollows == <>[]((\A s \in WorkerSteps : Applies(worker.e, s)) =>
                        worker.judge = Want(worker.e, "propose", rows["propose"])
                        /\ worker.emb = Want(worker.e, "embed", rows["embed"]))
CurrentFollows == <>[](\A s \in Steps : Applies(worker.e, s) => current[s] = Want(worker.e, s, rows[s]))

\* EmbedSettingError says of its error: '"" when it is' on the effective embed
\* setting.
EmbedErrorIsCurrent == <>[](Applies(search.e, "embed") => ~search.error)

\* cycleConfig says: "Within the cycle every transcript is judged and embedded
\* with this one config".
OneConfig ==
  worker.pc = "work" => worker.active = {[judge |-> worker.judge, emb |-> worker.emb]}
=============================================================================
