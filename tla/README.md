# TLA+ models of MITuna

This directory holds TLA+ models of the job-processing parts of MITuna, their TLC
configurations, and TLAPS proofs about the core pipeline. `PROJECT.json` lists:

- every component, run, mutant and finding;
- the source lines each definition models (`map`);
- the hazards of the code and the properties that cover them.

## The system

MITuna tunes MIOpen and rocMLIR kernels. Its shared state is the job table of a
tuning session: one row per (config, solver) pair, with a `state`, a `retries`
count and a `fin_step`. These processes act on it:

- **load_job** (`tuna/miopen/subcmd/load_job.py`) inserts job rows in state `new`.
  Several loaders may run at once.
- **MIOpen drivers** (`go_fish` → `MIOpen.tune`; `miopen_lib.py`) claim rows with
  `SELECT ... FOR UPDATE SKIP LOCKED`. For each claimed row a driver then:
  1. marks it with the step's `_start` state;
  2. builds one celery context per row (`build_context`);
  3. enqueues it (`celery_enqueue_call`).

  Celery workers run fin. The result handlers (`process_compile_results`,
  `process_eval_results`) write the next state from the context's snapshot of
  the row (`set_job_state` → `gen_update_query`).
- **The composer** (`compose_worker_list`, `launch_worker`) covers the non-celery
  steps (applicability update, solver update, restart). It starts worker
  processes per machine.
- **rocMLIR workers** (`rocmlir_worker.py`) poll the job table themselves. Each
  claims a row, runs `tuningRunner.py` under a three-attempt tenacity loop, and
  stores the result through `session_retry`.
- **analyze_fdb** compares find-db files. Its `--only_fastest` filter prunes each
  entry's solutions.

## Modules

| Module | Models | State | Actions |
|---|---|---|---|
| `MIOpenTuning` | claim, dispatch, celery, result handlers | `state`, `retries`, `lock` (row locks of open claim transactions), `pc`/`batch` per driver, `tasks` (queue), `results`, `kernels`, `fails` (history), `redeliveries` | `Select`, `Abort`, `Commit`, `Dispatch`, `SerializeFail`, `EnqueueFail`, `Run`, `RunRedelivered`, `ProcessCompileResults`, `ProcessEvalResults` (including an exception that escapes it, under `EvalCanRaise`) |
| `JobLifecycle` | the job state machine of spec section 4.2: what the pipeline promises about a row | `st`, `tries` | `Claim`, `CompileDone`, `EvalDone` |
| `MIOpenTuningProofs` | TLAPS proofs about `MIOpenTuning` | | |
| `MIOpenTuningRefinement` | TLAPS proof that `MIOpenTuning` implements `JobLifecycle`, and of `TerminalStable` through it | | |
| `RocMLIRWorker` | `RocMLIRWorker.step`, `run_cmd`, `process_result`, `session_retry` | `jstate`, `holder`, `wpc`, `attempt`, `rows` | `Claim`, `RunFails`, `RunRaises`, `RunSucceeds` |
| `RocMLIRWorkerProofs` | TLAPS proofs of `WTypeOK`, `ExclusiveClaim` and `ResultRowFinal` through the inductive invariant `WInv` | | |
| `LoadJob` | `add_jobs` | `jobRows` (rows per pair), `lpc`, `preEx`, `todo`, `counts`, `added` (history) | `ReadExisting`, `BulkCommit`, `AddOne`, `FinishOne` |
| `LoadJobProofs` | TLAPS proofs of `CountsExact` and `LoadedExactlyOnce` through `LInv` | | |
| `MIOpenArgs` | `MIOpen.parse_args`, `check_fin_args`, `setup_arg_parser`, `args_check` | none: the command lines and which of them the parser accepts (`ParseOK`) | |
| `WorkerPool` | go_fish `main`, `MIOpen.run`, `has_tunable_operation`, `compose_worker_list`, `launch_worker`, `do_fin_work`, composed with `MIOpenArgs` | the command line `args`, machine inputs, loop indices, `created`/`started`/`joined` per machine, `finWork`, `sessions`, `result` | `GoFish`, `Run`, `NextMachine`, `Launch`, `LaunchDone`, `Finish`, `Join` |
| `WorkerPoolProofs` | TLAPS proofs of `SessionValidated` through `PInv`, and of `ApplicabilityCap` through `CapInv` | | |
| `FastestFind` | the only_fastest loop of `build_find_groups` | an input list and what is kept | none: a pure function checked against its reference |

`MCMIOpenTuning`, `MCRocMLIRWorker`, `MCLoadJob` and `MCWorkerPool` give the
constants small values.

### How the models abstract the code

**MIOpenTuning.**
- **Data:** a row is a model value. Its config matters only for the claim order
  and for validity. A fin result is `ok`, `fail` or `empty`. The store errors a
  handler can meet are `contention` (OperationalError/IntegrityError) or `data`
  (DataError).
- **Claim:** the claim query's filter, order and LIMIT are `Eligible`, `KeyLeq`
  and `BatchSize`. The row lock is `lock`, held from `Select` to `Commit`/`Abort`.
- **From the spec:** the driver loop (`get_jobs`, `tune`) and the celery worker
  are not under `src/`. They are modelled from spec sections 4.1-4.5 and marked
  `spec_modelled` in the map.
- **Result handlers:** each handler is one action with the whole try/except. The
  UPDATE writes retries as snapshot + 1 and waits for a row lock held by a
  claim.

**RocMLIRWorker.**
- A claim takes the first `new` row in config order.
- `Raise` is tenacity:
  - an exception re-runs the attempt, keeping the state the attempt wrote;
  - after the third attempt, step()'s broad handler sets `error`.
- `SessionRetry` gives the three ways `process_result` can end: stored, returned
  False, or raised.
- The parsed output is abstracted to those outcomes.

**LoadJob.** A pair is a model value. What the store rejects is `Rejected`: a
pair that already has a row, when the table has its unique key.

**JobLifecycle.** The abstract specification. A row's state and retries, and
nothing of who claims it or how results travel. `Claim(o, S)` marks a set of
rows at once, each in a source state of step `o`, naming `o` in its fin_step
and under the claim bound. `CompileDone` and `EvalDone` move a row out of its
`_start` marker. An eval revert adds one retry, and only while the result stays
under `MAX_ERRORED_JOB_RETRIES`. `MIOpenTuning` instantiates it as
`JL == INSTANCE JobLifecycle WITH st <- state, tries <- retries, ...`, and
`JobLifecycleRefined == JL!JSpec` is a property of `pipeline_safety`.

**MIOpenArgs.** A command line is a record: the option of the mutually
exclusive group, the fin step, the subcommand, the flags (restart, shutdown),
whether `--session_id` and `--label` were given, a bad `--blacklist`, `gpu_lim`,
and whether there was no argument at all. `ParseOK` is the conjunction of every
check of `parse_args` that ends go_fish:
- sys.exit on a bare call;
- CustomError on list_solvers;
- `check_fin_args`, `check_blacklist` and `args_check`;
- the session id for `update_applicability` and for session fin steps.

`HasFin` keeps a detail of the code: under the `load_job` subcommand,
`fin_steps` is never split. `has_fin` then iterates the characters of the
string and is false.

**WorkerPool.**
- go_fish parses the command line inside `has_tunable_operation`. A rejected
  one ends the run (`result = "error"`). A celery fin step or
  `--shutdown_workers` goes to `tune()`, the loop `MIOpenTuning` models (stage
  `tune`), except under `load_job`. Any other command goes to `run()`.
  `add_tables` and the subcommands return `None` there. The rest compose the
  worker list, and go_fish joins the workers in it.
- The mode of the composer is derived from the command line, as the code reads
  it:
  - `restart_machine` overrides the option of the group;
  - an eval step is a fin step whose name contains `eval`;
  - `check_status`, `init_session` and `execute_cmd` are branches of
    `launch_worker`.
- GPUs, process slots and the applicability row count are chosen when `run()`
  loads the machines. Each is chosen only where the code reads it.
- The `(len_rows + 99) / 100` true division is modelled exactly:
  `n * 100 > len_rows + 99`.

**FastestFind.** A kernel time is a number of tenths of a millisecond. Its text
is the decimal string. Python's string `>` is modelled character by character.
The sort key's `float()` shows that `kernel_time` is text.

## Runs

| Run | Result | What it shows |
|---|---|---|
| `pipeline_safety` | pass, ~100k states | With 3 drivers (1 compile, 2 eval), 3 rows, claim_num 2, an invalid config, a failing `apply_async` and exceptions escaping the eval handler: no row is owned twice (`ExclusiveOwnership`), every snapshot a handler applies is current (`SnapshotsCurrent`), `IInv` holds, terminal states stay put (`TerminalStable`), and the pipeline implements the abstract job state machine (`JobLifecycleRefined`). |
| `pipeline_liveness` | pass | Under fairness, and with one duplicate celery delivery, every row reaches `evaluated`/`errored` (or `compiled` for compile-only rows), provided no row is stranded: every config valid, `apply_async` working and no exception escaping the eval handler (see Fairness). |
| `pipeline_redelivery_regress` | violation of `TerminalStable` | A compile task delivered twice: one failed result sets the row errored, and the other writes compiled over it (`miopen_lib.py:746`). |
| `pipeline_retry_ceiling` | violation of `RetryCeilingAsSpecified` | Three eval failures end with retries 2, not 3. |
| `pipeline_transient_error` | violation of `ErroredOnlyOnJobFailure` | DB contention errors a job. |
| `pipeline_empty_compile` | violation of `CompiledHasKernels` | An empty fin_json makes a row compiled. |
| `rocmlir` | pass | Two workers, every command and parse outcome: no two workers share a row (`ExclusiveClaim`), a job whose result row was stored stays completed with no worker on it (`ResultRowFinal`), and under fairness every job ends completed or error and released (`JobsResolved`). |
| `rocmlir_parse_failure` | violation of `CompletedIsFinal` | A parse exception re-runs a completed job and ends it in error. |
| `load_job` | pass | 3 loaders, overlapping pairs, one preloaded row: the count returned is the rows inserted, and every pair has one row; the inductive invariant `LInv` holds. |
| `composer` | pass, ~12k states | Over every command line (accepted or rejected) and every machine input: the applicability cap is `min(slots, ceil(rows/100))` at rows 0, 99, 100 and 101 (`ApplicabilityCap`), no fin step or applicability update reaches `tune()` or the machine loop without a session id (`SessionValidated`), and the launch loop's invariant `CapInv` holds: each machine before the current one has started exactly its `worker_ids`. |
| `composer_eval_workers` | violation | Eval workers are constructed but never started. |
| `only_fastest` | violation | The string comparison keeps 10.0 beside 9.5. |

Every property of a passing run has a mutant in `PROJECT.json`: a plausible bug
in the mapped code, which TLC shows the property catches. For example:

- SKIP LOCKED dropped → `ExclusiveOwnership`;
- the claim committed without marking → `SnapshotsCurrent`;
- a claim of a row in any state → `ResultRowFinal`;
- the +99 dropped from `proc_lim` → `ApplicabilityCap`;
- no counts reset in the fallback → `CountsExact`;
- the eval step also claiming `evaluated` rows → `JobLifecycleRefined`;
- `has_tunable_operation` without its `load_job` test → `SessionValidated`.
  A `load_job` command with a celery step and no session then reaches `tune()`.

**Bounds.**
- Three rows and two or three drivers are enough to produce every case here:
  - two drivers racing for the same rows;
  - a batch cut by claim_num;
  - two solvers of one config;
  - an invalid config in a batch.
- `MaxJobRetries = 3` lets the eval retry path run to its ceiling.
- The composer's row counts 0, 99, 100 and 101 straddle both boundaries of the
  ceiling division.
- The composer's fin steps cover each case the code tells apart:
  - a celery compile step and a celery eval step;
  - a non-celery eval step (`find_eval`);
  - a session step that is neither (`get_applicability`);
  - an unknown name.
  The subcommands are `load_job` and one other.

**Deadlock.** All cfgs set `CHECK_DEADLOCK FALSE`, because each system really
stops:
- the pipeline once every row is finished, or when no row is claimable;
- a rocMLIR worker with nothing to claim sleeps and polls again, a stutter;
- `add_jobs` and `compose_worker_list` return.

**Fairness.**
- `pipeline_liveness` assumes:
  - weak fairness of each driver's claim and dispatch, and of each worker and
    handler step: the processes loop forever;
  - strong fairness of `Commit`: a claim transaction that keeps aborting
    eventually commits.
- It runs without `EnqueueFail`, invalid configs or an exception escaping
  the eval handler (`EvalCanRaise = FALSE`). Each of these strands a row in
  its `_start` state for good, so `EventuallyFinished` holds only without
  them:
  - `EnqueueFail` and the invalid config leave a whole batch in `_start`
    (`miopen_lib.py:569`, `:699`). Spec section 4.5 keeps such a row there
    until an operator recovers it.
  - `process_eval_results` catches only OperationalError and IntegrityError
    (`miopen_lib.py:809`). A DataError from the store escapes, and so does
    the UnboundLocalError of a fin_json with neither result key
    (`status` at line 789). Either leaves the row in `eval_start`. Spec
    section 4.2 wants a data error to move the job toward errored. With
    `EvalCanRaise = TRUE` in `MCMIOpenTuning_liveness.cfg`, TLC finds
    `EventuallyFinished` violated, both rows left in `eval_start`. The
    safety run keeps the path on and shows it does no other harm.
- `rocmlir` assumes weak fairness of each worker's steps: `step()` is a
  `while True` loop.
- Worker processes dying is not modelled, because no code of the worker
  reclaims a running row.

### Further behaviours the models exhibit

These are not the subject of a run of their own. They are recorded in
`PROJECT.json` as hazards.

- A failed eval of a row claimed in state `new` reverts it to `compiled`.
  `orig_state` is hard-coded (`miopen_lib.py:766`), and the eval step also
  fetches `new` rows. With only eval drivers, `CompiledHasKernels` fails the
  same way as in `pipeline_empty_compile`.
- `LoadedExactlyOnce` rests on the job table's unique key. The key is not under
  `src/`. With `UniqueKey = FALSE`, two loaders with a stale `pre_ex` insert the
  same pair twice.
- `compose_worker_list` can return `None` after it has started applicability
  workers on earlier machines (`miopen_lib.py:370`).
- `init_session` adds a session on every machine the loop reaches
  (`miopen_lib.py:328`), so `sessions` ends at the number of machines.
- `--restart` is not in the option group. It overrides the option: the machines
  are restarted and nothing else runs.

## Proofs (checked by tlapm)

### `MIOpenTuningProofs` and `MIOpenTuningRefinement`

The proofs assume `ConstantsAssumption`, for all values of the constants.

- `TypeCorrect`: `Spec => []TypeOK`.
- `OwnershipInvariant`: `Spec => []IInv`, under `MaxRedeliver = 0`.
- `ExclusiveOwnershipHolds` and `SnapshotsCurrentHolds`: follow from it through
  the lemma `IInv => ExclusiveOwnership /\ SnapshotsCurrent`.

`ExclusiveOwnership` alone is not inductive: a step of a driver in the middle of
a claim could seem to break it. `IInv` adds four things:
- `LockedClaims`: an open claim's rows are locked by it and read at their
  current retries;
- `LocksOfClaims`: every lock belongs to an open claim holding that row;
- `CommittedClaims`: a committed, not yet dispatched claim's rows carry its
  `set_state`;
- `SingleHolder`: the batches, the queue and the results hold each row at most
  once.

With these, each action preserves the whole (one lemma per action):
- `Select` takes only unlocked rows in a fetch state, and no held row is in one.
- `Commit` moves rows out of every fetch state.
- The handlers release a row before anyone can claim it again.

`MaxRedeliver = 0` is needed because a redelivered task really does break
single holding (run `pipeline_redelivery_regress`).

**Refinement (`MIOpenTuningRefinement`).**
- `Refinement`: `Spec => JobLifecycleRefined`, under `MaxRedeliver = 0`. The
  proof follows the usual pattern:
  - `Init` maps to `JL!JInit`;
  - under `IInv /\ ClaimsFiltered`, every step of `Next` is a step of
    `JL!JNext` on `<<state, retries>>`, or leaves both unchanged
    (`RefinementStep`).

  The step lemma has one case per action:
  - `Commit(d)` is `JL!Claim(StepOf[d], rows locked by d)`.
    - `LocksOfClaims` names the context of each locked row.
    - `LockedClaims` puts the row in a fetch state at its snapshot's retries.
    - `ClaimsFiltered` gives the fin step and the claim bound.
  - Each handler is `CompileDone`/`EvalDone`: `SnapshotsCurrent` puts the row
    in its `_start` state at the snapshot's retries. An exception escaping
    the eval handler changes neither column, a stutter.
  - Every other action leaves `state` and `retries` alone.
- `ClaimsFilteredInvariant`: an open claim's rows name the driver's step and
  were under the claim bound. It is inductive with `TypeOK` alone, because
  only `Select` opens a claim.
- `TerminalStableHolds`: `Spec => TerminalStable`, an action property, under
  `MaxRedeliver = 0`. No step of `JL!JNext` leaves `evaluated` or `errored`
  (`JLTerminalStep`): a claim takes only rows in a source state, a handler
  only a row in its `_start` marker. `RefinementStep` makes every pipeline
  step such a step. Run `pipeline_redelivery_regress` shows the hypothesis is
  needed.

### `RocMLIRWorkerProofs`

From `WorkerAssumption`, for any sets of workers and jobs and any claim order:
- `ExclusiveClaimHolds`: `WSpec => [](WTypeOK /\ ExclusiveClaim)`;
- `WTypeCorrect`: `WSpec => []WTypeOK`;
- `ResultRowFinalHolds`: `WSpec => []ResultRowFinal`.

Both rest on `WorkerInvariant` (`WSpec => []WInv`), which no run checks on
its own: it was checked by TLC before it was proved, and adds nothing a
reader needs beyond the two invariants it implies.

`ExclusiveClaim` is not inductive alone: a claim by a worker that still held
a row, or by a dead worker, would break it. `WInv` adds that a worker is idle
exactly when it holds no row, and that no worker is dead: `step()` catches
the exception tenacity re-raises after the third attempt. Then:
- `Claim` gives a new row, which nobody holds, to an empty-handed worker;
- the end of `step()` lets go of the worker's own row only;
- a retried attempt keeps the row running or completed.

`ResultRowFinal` is proved inductive together with `WInv`. The row a worker
is attempting has no result row yet (lemma `HeldNotStored`), because a
stored row has no holder. So a retry, a failure or the broad except writes
only to rows without a result. `get_job` claims only `new` rows, and a stored
row is `completed`. The one step that inserts a result row releases its job
as `completed` in the same step.
This is where the retry hazard of `rocmlir_parse_failure` stops: a job can
leave `completed` (`CompletedIsFinal` fails) only when no result was stored.

### `LoadJobProofs`

From `LoadJobAssumption` (which includes that the session's pairs are a
finite set, as a query result is), for any number of loaders:
- `LoaderInvariant`: `LSpec => []LInv`;
- `CountsExactHolds`: `LSpec => []CountsExact`;
- `LoadedExactlyOnceHolds`: `LSpec => []LoadedExactlyOnce`, under `UniqueKey`.

`CountsExact` and `LoadedExactlyOnce` speak only of returned loaders. `LInv`
says what holds at every point of `add_jobs`:
- `counts` equals the rows inserted so far, and is 0 before the first commit;
- with the unique key, no pair has two rows;
- every pair in `pre_ex`, every pair the one-by-one pass has gone through,
  and every pair of a returned loader has a row.

Rows are never deleted, so the last item survives other loaders' steps.
`UniqueKey` is needed: without it, two loaders that read `pre_ex` before
either commits insert the same pair twice (TLC finds this with
`UniqueKey = FALSE`).

### `WorkerPoolProofs`

For every command line and any number of machines, GPUs, slots and configs:
- `SessionValidatedHolds`: `PSpec => []SessionValidated`, through the
  inductive invariant `PInv` (`PoolInvariant`).

`PInv` carries parse_args' verdict (`ParseOK`) into every stage past the
parse. It also carries `run()`'s subcommand test into the machine loop and
`has_tunable_operation` into the tuning loop.
`SessionValidated` then follows from `has_fin`: a celery step outside
`load_job` is a session step (lemma `TuneHasSession`).

- `CapInvariant`: `PSpec => []CapInv`;
- `ApplicabilityCapHolds`: `PSpec => []ApplicabilityCap`.

`ApplicabilityCap` speaks only of the returned list. `CapInv` states where
the launch loop is: machines before `mi` have started exactly `WorkerIds(m)`,
machine `mi` has started `gi` of them while launching, and later machines
none. At `done` with a list, `mi` is past the last machine. Each action keeps
`CapInv` (one lemma per action). `WorkerIds` depends only on the command
line, the machine's slots and the row count, and no launch changes those
(`WorkerIdsUnchanged`).

The pop loop is modelled by where it stops: `Popped(n)` is the unique `k`
in `0..n` at which the loop's condition `k * 100 > len_rows + 99` fails,
while it holds for every larger length, which the loop has popped. This form,
unlike a recursive function, needs no induction over data. The lemma
`PoppedValue` gives its closed form `min(n, ceil(len_rows / 100))`, by the
bounds of `CeilHundred` (`CeilHundredBounds`).

**Only model-checked:**
- the liveness properties, because TLAPS does not reason about fairness or
  ENABLED;
- `TerminalStable` and `JobLifecycleRefined` with redelivery, where they
  fail or are not claimed;
- `JobsResolved` (liveness) and `CompletedIsFinal` (violated) of
  `RocMLIRWorker`;
- `FastestFind`, which uses RECURSIVE operators and so cannot sit under a
  theorem.

## Not modelled

- The yaml expansion of go_fish (`parse_yaml`, go_fish's own `parse_args`). It
  is file handling that runs each yaml entry as one command line. Also the
  options that only reach fin (arch, num_cu, docker_name, ...), and a
  `--fin_steps` with several steps, which `check_fin_args` rejects before any
  state changes.
- The MIOpen `Session` table (`tuna.miopen.db.session`, not under `src/`):
  `init_session` is counted as calls (`sessions`).
- The example library's loader: a single insert.
- Database set-up (`connect_db`, `create_tables`) and the metadata lists.
- The fin JSON contents and the find-db/kernel-cache writes, which are reduced to
  `kernels`.
- The rocMLIR output parser, reduced to its outcomes.

## Next steps

- A liveness counterpart of `JobLifecycle` (every claimed row leaves its
  marker), checked through the refinement.
- A property for a worker process that dies holding a row
  (`rocmlir_worker.py:129`), if the code ever reclaims such rows.
