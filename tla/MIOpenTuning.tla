---------------------------- MODULE MIOpenTuning ----------------------------
(***************************************************************************)
(* The celery tuning pipeline of the MIOpen library (tuna/miopen/          *)
(* miopen_lib.py): driver processes started with one fin step claim job    *)
(* rows of the shared job table (SELECT ... FOR UPDATE SKIP LOCKED, then   *)
(* mark them with the step's `_start` state and commit), build one context *)
(* per claimed row and enqueue it; celery workers run each context and     *)
(* return a fin result; the result handler (process_compile_results or     *)
(* process_eval_results) applies the next state transition to the row.    *)
(*                                                                         *)
(* The job table is the only shared state.  A context carries a snapshot   *)
(* of the row taken when it was claimed (context['job']), and the result   *)
(* handler writes the row from that snapshot (gen_update_query).           *)
(***************************************************************************)
EXTENDS Naturals, FiniteSets

CONSTANTS
  Jobs,            \* the job rows of the tuning session
  Drivers,         \* go_fish processes tuning the session
  NoDriver,        \* no claim transaction holds a row lock
  StepOf,          \* the operation each driver runs (update_operation)
  ConfigOf,        \* job.config, the second key of the claim order
  FinStepsOf,      \* the operations named in a row's fin_step column
  ValidConfigs,    \* configs whose row has valid=1
  ClaimNum,        \* claim_num: rows claimed per batch
  MaxJobRetries,   \* max_job_retries of the claim filter
  MaxRedeliver,    \* bound on celery redeliveries of a task
  DispatchCanFail, \* whether apply_async may raise (queue unreachable)
  EvalCanRaise     \* whether an exception may escape process_eval_results

\* The operations of update_operation: Operation.COMPILE and Operation.EVAL.
Ops == {"compile", "eval"}

ASSUME ConstantsAssumption ==
  /\ NoDriver \notin Drivers
  /\ StepOf \in [Drivers -> Ops]
  /\ ConfigOf \in [Jobs -> Nat]
  /\ FinStepsOf \in [Jobs -> SUBSET Ops]
  /\ ClaimNum \in Nat \ {0}
  /\ MaxJobRetries \in Nat
  /\ MaxRedeliver \in Nat
  /\ DispatchCanFail \in BOOLEAN
  /\ EvalCanRaise \in BOOLEAN

\* miopen_lib.py: MAX_ERRORED_JOB_RETRIES = 3
MAX_ERRORED_JOB_RETRIES == 3

JobStates ==
  {"new", "compile_start", "compiled", "eval_start", "evaluated", "errored"}

\* What a celery worker hands back: a fin result reporting success, one
\* reporting failure, or an empty/absent fin_json.
Payloads == {"ok", "fail", "empty"}

\* Exceptions the store raises inside a result handler.
DbErrors == {"none", "contention", "data"}

\* Mutant: the eval step also claims rows that are already evaluated.
FetchStateReeval == [o \in Ops |-> IF o = "compile" THEN {"new"}
                                    ELSE {"new", "compiled", "evaluated"}]

\* update_operation: the states a step claims from, and the state it marks.
FetchState == [o \in Ops |-> IF o = "compile" THEN {"new"}
                                              ELSE {"new", "compiled"}]
SetState == [o \in Ops |-> IF o = "compile" THEN "compile_start"
                                            ELSE "eval_start"]

\* A context: the claimed row as read by the claim (job id and retries), the
\* operation, and the driver that claimed it.
Ctx == [job : Jobs, op : Ops, retries : Nat, by : Drivers]
Result == [ctx : Ctx, payload : Payloads]

VARIABLES
  state,         \* job.state of every row
  retries,       \* job.retries of every row
  lock,          \* the claim transaction holding each row lock
  pc,            \* where each driver is in its claim/dispatch loop
  batch,         \* the contexts of a driver's current claim
  tasks,         \* contexts enqueued on the celery queue
  results,       \* fin results waiting for the result handler
  kernels,       \* rows whose compile results are in the store
  fails,         \* history: failed fin results applied to each row
  redeliveries   \* celery redeliveries so far

vars == <<state, retries, lock, pc, batch, tasks, results, kernels, fails,
          redeliveries>>

-----------------------------------------------------------------------------
(* Claim protocol: get_job_objs + compose_work_objs build the filter, the  *)
(* order and the row lock; get_jobs marks the rows and commits.            *)

\* Mutant: FOR UPDATE SKIP LOCKED left out of the claim query.
EligibleNoSkipLocked(d) ==
  {j \in Jobs : /\ retries[j] < MaxJobRetries
                /\ state[j] \in FetchState[StepOf[d]]
                /\ StepOf[d] \in FinStepsOf[j]}

\* Mutant: the `state in (...)` condition left out of the claim query.
EligibleNoStateFilter(d) ==
  {j \in Jobs : /\ retries[j] < MaxJobRetries
                /\ StepOf[d] \in FinStepsOf[j]
                /\ lock[j] = NoDriver}

\* The rows a claim of driver d may return: session, valid=1 and label are
\* the same for every row of the model; retries below the filter's bound,
\* state in the step's fetch states, fin_step naming the step, and not
\* locked by another claim (SKIP LOCKED).
Eligible(d) ==
  {j \in Jobs : /\ retries[j] < MaxJobRetries
                /\ state[j] \in FetchState[StepOf[d]]
                /\ StepOf[d] \in FinStepsOf[j]
                /\ lock[j] = NoDriver}

\* ORDER BY retries, config ASC
KeyLeq(j, k) ==
  \/ retries[j] < retries[k]
  \/ (retries[j] = retries[k] /\ ConfigOf[j] <= ConfigOf[k])

\* LIMIT claim_num
BatchSize(n) == IF n < ClaimNum THEN n ELSE ClaimNum

\* Mutant: build_context stores the config where the job belongs.
CtxOfSwapped(d, j) ==
  [job |-> ConfigOf[j], op |-> StepOf[d], retries |-> retries[j], by |-> d]

CtxOf(d, j) == [job |-> j, op |-> StepOf[d], retries |-> retries[j], by |-> d]

\* The locking SELECT of a claim: the first claim_num eligible rows in key
\* order are read and locked until the claim transaction ends.
Select(d) ==
  /\ pc[d] = "idle"
  /\ \E sel \in SUBSET Eligible(d) :
       /\ sel # {}
       /\ Cardinality(sel) = BatchSize(Cardinality(Eligible(d)))
       /\ \A j \in sel, k \in Eligible(d) \ sel : KeyLeq(j, k)
       /\ lock' = [j \in Jobs |-> IF j \in sel THEN d ELSE lock[j]]
       /\ batch' = [batch EXCEPT ![d] = {CtxOf(d, j) : j \in sel}]
  /\ pc' = [pc EXCEPT ![d] = "locked"]
  /\ UNCHANGED <<state, retries, tasks, results, kernels, fails, redeliveries>>

\* The store fails inside the claim transaction: it is rolled back, the
\* locks are released and no row was claimed.
Abort(d) ==
  /\ pc[d] = "locked"
  /\ lock' = [j \in Jobs |-> IF lock[j] = d THEN NoDriver ELSE lock[j]]
  /\ batch' = [batch EXCEPT ![d] = {}]
  /\ pc' = [pc EXCEPT ![d] = "idle"]
  /\ UNCHANGED <<state, retries, tasks, results, kernels, fails, redeliveries>>

\* Mutant: the claim commits without marking the rows (no_update).
CommitNoUpdate(d) ==
  /\ pc[d] = "locked"
  /\ lock' = [j \in Jobs |-> IF lock[j] = d THEN NoDriver ELSE lock[j]]
  /\ pc' = [pc EXCEPT ![d] = "dispatch"]
  /\ UNCHANGED <<state, retries, batch, tasks, results, kernels, fails,
                 redeliveries>>

\* The claim marks every selected row with the step's set_state and
\* commits, which releases the row locks.
Commit(d) ==
  /\ pc[d] = "locked"
  /\ state' = [j \in Jobs |-> IF lock[j] = d THEN SetState[StepOf[d]]
                                             ELSE state[j]]
  /\ lock' = [j \in Jobs |-> IF lock[j] = d THEN NoDriver ELSE lock[j]]
  /\ pc' = [pc EXCEPT ![d] = "dispatch"]
  /\ UNCHANGED <<retries, batch, tasks, results, kernels, fails, redeliveries>>

-----------------------------------------------------------------------------
(* Context builder and dispatcher: serialize_jobs, build_context and      *)
(* celery_enqueue_call for each context of the batch.                      *)

\* compose_work_objs_fin reads the configs with valid=1 and indexes them by
\* id; a row whose config is not valid raises KeyError in cfg_map.
BatchSerializable(d) == \A c \in batch[d] : ConfigOf[c.job] \in ValidConfigs

Dispatch(d) ==
  /\ pc[d] = "dispatch"
  /\ BatchSerializable(d)
  /\ tasks' = tasks \cup batch[d]
  /\ batch' = [batch EXCEPT ![d] = {}]
  /\ pc' = [pc EXCEPT ![d] = "idle"]
  /\ UNCHANGED <<state, retries, lock, results, kernels, fails, redeliveries>>

\* The KeyError of cfg_map escapes the driver: no context of the batch is
\* enqueued and the claimed rows stay in their `_start` state.
SerializeFail(d) ==
  /\ pc[d] = "dispatch"
  /\ ~BatchSerializable(d)
  /\ batch' = [batch EXCEPT ![d] = {}]
  /\ pc' = [pc EXCEPT ![d] = "stopped"]
  /\ UNCHANGED <<state, retries, lock, tasks, results, kernels, fails,
                 redeliveries>>

\* apply_async raises part way through the batch: the contexts enqueued
\* before it stay on the queue, the rest of the rows stay in `_start`.
EnqueueFail(d) ==
  /\ DispatchCanFail
  /\ pc[d] = "dispatch"
  /\ BatchSerializable(d)
  /\ \E sent \in SUBSET batch[d] :
       /\ sent # batch[d]
       /\ tasks' = tasks \cup sent
  /\ batch' = [batch EXCEPT ![d] = {}]
  /\ pc' = [pc EXCEPT ![d] = "stopped"]
  /\ UNCHANGED <<state, retries, lock, results, kernels, fails, redeliveries>>

-----------------------------------------------------------------------------
(* Celery workers: a worker takes a context off the queue, runs fin on it *)
(* and returns the fin result; delivery is at least once.                  *)

Run(c, p) ==
  /\ c \in tasks
  /\ tasks' = tasks \ {c}
  /\ results' = results \cup {[ctx |-> c, payload |-> p]}
  /\ UNCHANGED <<state, retries, lock, pc, batch, kernels, fails,
                 redeliveries>>

\* The task is delivered again after it ran: it stays on the queue.
RunRedelivered(c, p) ==
  /\ c \in tasks
  /\ redeliveries < MaxRedeliver
  /\ redeliveries' = redeliveries + 1
  /\ results' = results \cup {[ctx |-> c, payload |-> p]}
  /\ UNCHANGED <<state, retries, lock, pc, batch, tasks, kernels, fails>>

-----------------------------------------------------------------------------
(* Result handlers.  set_job_state writes the row by id from the context's *)
(* snapshot (gen_update_query), so the written retries is the snapshot's  *)
(* plus one, whatever the row holds now.  The UPDATE waits for a row lock *)
(* held by a claim transaction.                                            *)

\* Does fin_json carry a result (`if fin_json:`)?
Parsed(r) == r.payload # "empty"

\* process_compile_results: a failed result, or any store error raised while
\* process_fdb_w_kernels writes the results, sets errored; otherwise, an
\* empty fin_json included, the row becomes compiled.
ProcessCompileResults(r) ==
  LET j == r.ctx.job IN
  /\ r \in results
  /\ r.ctx.op = "compile"
  /\ lock[j] = NoDriver
  /\ \E err \in IF Parsed(r) THEN DbErrors ELSE {"none"} :
       /\ state' = [state EXCEPT ![j] =
                      IF err # "none" \/ r.payload = "fail" THEN "errored"
                                                           ELSE "compiled"]
       /\ kernels' = IF err = "none" /\ r.payload = "ok"
                       THEN kernels \cup {j} ELSE kernels
       /\ fails' = IF (r.payload = "fail" /\ err = "none") \/ err = "data"
                     THEN [fails EXCEPT ![j] = @ + 1] ELSE fails
  /\ results' = results \ {r}
  /\ UNCHANGED <<retries, lock, pc, batch, tasks, redeliveries>>

\* Mutant: the retry ceiling compared against MAX_ERRORED_JOB_RETRIES
\* instead of MAX_ERRORED_JOB_RETRIES - 1.
ProcessEvalResultsLateCeiling(r) ==
  LET j == r.ctx.job
      failed == ~Parsed(r) \/ r.payload = "fail"
  IN
  /\ r \in results
  /\ r.ctx.op = "eval"
  /\ lock[j] = NoDriver
  /\ \/ /\ failed
        /\ r.ctx.retries >= MAX_ERRORED_JOB_RETRIES
        /\ state' = [state EXCEPT ![j] = "errored"]
        /\ fails' = [fails EXCEPT ![j] = @ + 1]
        /\ UNCHANGED retries
     \/ /\ failed
        /\ r.ctx.retries < MAX_ERRORED_JOB_RETRIES
        /\ state' = [state EXCEPT ![j] = "compiled"]
        /\ retries' = [retries EXCEPT ![j] = r.ctx.retries + 1]
        /\ fails' = [fails EXCEPT ![j] = @ + 1]
     \/ /\ ~failed
        /\ state' = [state EXCEPT ![j] = "evaluated"]
        /\ UNCHANGED <<retries, fails>>
     \/ /\ Parsed(r)
        /\ state' = [state EXCEPT ![j] = "errored"]
        /\ UNCHANGED <<retries, fails>>
     \/ /\ EvalCanRaise
        /\ Parsed(r)
        /\ UNCHANGED <<state, retries, fails>>
  /\ results' = results \ {r}
  /\ UNCHANGED <<lock, pc, batch, tasks, kernels, redeliveries>>

\* process_eval_results: an empty or failed result sends the row back to
\* 'compiled' with retries + 1, or to errored once the snapshot's retries
\* reach MAX_ERRORED_JOB_RETRIES - 1; a good one makes it evaluated and
\* cleans its cache rows.  An OperationalError/IntegrityError anywhere in
\* the try block is rolled back and the row set to errored.  Any other
\* exception escapes the handler with nothing committed and the row left in
\* eval_start: a DataError from the store (the except clause does not name
\* it), or a fin_json with neither result key, where get_fin_result(status)
\* reads status before any assignment (UnboundLocalError).
ProcessEvalResults(r) ==
  LET j == r.ctx.job
      failed == ~Parsed(r) \/ r.payload = "fail"
  IN
  /\ r \in results
  /\ r.ctx.op = "eval"
  /\ lock[j] = NoDriver
  /\ \/ /\ failed
        /\ r.ctx.retries >= MAX_ERRORED_JOB_RETRIES - 1
        /\ state' = [state EXCEPT ![j] = "errored"]
        /\ fails' = [fails EXCEPT ![j] = @ + 1]
        /\ UNCHANGED retries
     \/ /\ failed
        /\ r.ctx.retries < MAX_ERRORED_JOB_RETRIES - 1
        /\ state' = [state EXCEPT ![j] = "compiled"]
        /\ retries' = [retries EXCEPT ![j] = r.ctx.retries + 1]
        /\ fails' = [fails EXCEPT ![j] = @ + 1]
     \/ /\ ~failed
        /\ state' = [state EXCEPT ![j] = "evaluated"]
        /\ UNCHANGED <<retries, fails>>
     \/ /\ Parsed(r)
        /\ state' = [state EXCEPT ![j] = "errored"]
        /\ UNCHANGED <<retries, fails>>
     \/ /\ EvalCanRaise
        /\ Parsed(r)
        /\ UNCHANGED <<state, retries, fails>>
  /\ results' = results \ {r}
  /\ UNCHANGED <<lock, pc, batch, tasks, kernels, redeliveries>>

-----------------------------------------------------------------------------

\* Jobs are loaded by load_job in state new with retries 0.
Init ==
  /\ state = [j \in Jobs |-> "new"]
  /\ retries = [j \in Jobs |-> 0]
  /\ lock = [j \in Jobs |-> NoDriver]
  /\ pc = [d \in Drivers |-> "idle"]
  /\ batch = [d \in Drivers |-> {}]
  /\ tasks = {}
  /\ results = {}
  /\ kernels = {}
  /\ fails = [j \in Jobs |-> 0]
  /\ redeliveries = 0

Next ==
  \/ \E d \in Drivers :
       \/ Select(d) \/ Abort(d) \/ Commit(d)
       \/ Dispatch(d) \/ SerializeFail(d) \/ EnqueueFail(d)
  \/ \E c \in tasks, p \in Payloads : Run(c, p) \/ RunRedelivered(c, p)
  \/ \E r \in results : ProcessCompileResults(r) \/ ProcessEvalResults(r)

Spec == Init /\ [][Next]_vars

-----------------------------------------------------------------------------
(* Properties                                                              *)

\* The contexts that own a row: those of open or committed claims not yet
\* enqueued, those on the queue, and those whose result awaits the handler.
Held == (UNION {batch[d] : d \in Drivers}) \cup tasks \cup {r.ctx : r \in results}

\* The rows, the drivers and the queue hold values of their types.
TypeOK ==
  /\ state \in [Jobs -> JobStates]
  /\ retries \in [Jobs -> Nat]
  /\ lock \in [Jobs -> Drivers \cup {NoDriver}]
  /\ pc \in [Drivers -> {"idle", "locked", "dispatch", "stopped"}]
  /\ batch \in [Drivers -> SUBSET Ctx]
  /\ tasks \subseteq Ctx
  /\ results \subseteq Result
  /\ kernels \subseteq Jobs
  /\ fails \in [Jobs -> Nat]
  /\ redeliveries \in 0..MaxRedeliver

\* No double claim (SKIP LOCKED plus the `_start` marking): however the
\* claims of the drivers and the result handler interleave, a row is owned
\* by at most one claim at a time, from its SELECT until its result has
\* been applied.
ExclusiveOwnership ==
  \A c1, c2 \in Held : c1.job = c2.job => c1 = c2

\* The snapshot a result handler acts on is current: a context on the queue
\* or awaiting its handler was claimed at the row's present retries and the
\* row is still in the state its claim marked.  process_eval_results decides
\* between 'compiled' and 'errored', and writes retries, from that snapshot.
SnapshotsCurrent ==
  \A c \in tasks \cup {r.ctx : r \in results} :
    /\ state[c.job] = SetState[c.op]
    /\ retries[c.job] = c.retries

\* The inductive strengthening of ExclusiveOwnership and SnapshotsCurrent
\* that the proofs rest on.  Each driver holds row locks exactly for the
\* rows of its open claim, which it read at their current retries in a
\* fetch state; a committed claim's rows carry its set_state; every row has
\* at most one holder among the claims, the queue and the results.
LockedClaims ==
  \A d \in Drivers : pc[d] = "locked" =>
    \A c \in batch[d] : /\ lock[c.job] = d
                        /\ c.by = d
                        /\ c.op = StepOf[d]
                        /\ retries[c.job] = c.retries
                        /\ state[c.job] \in FetchState[c.op]

LocksOfClaims ==
  \A j \in Jobs : lock[j] # NoDriver =>
    /\ pc[lock[j]] = "locked"
    /\ \E c \in batch[lock[j]] : c.job = j

CommittedClaims ==
  \A d \in Drivers :
    /\ pc[d] = "dispatch" =>
         \A c \in batch[d] : /\ state[c.job] = SetState[c.op]
                             /\ retries[c.job] = c.retries
    /\ pc[d] \in {"idle", "stopped"} => batch[d] = {}

SingleHolder ==
  /\ \A d1, d2 \in Drivers : \A c1 \in batch[d1], c2 \in batch[d2] :
       c1.job = c2.job => d1 = d2 /\ c1 = c2
  /\ \A d \in Drivers : \A c1 \in batch[d], c2 \in tasks : c1.job # c2.job
  /\ \A d \in Drivers : \A c \in batch[d], r \in results : c.job # r.ctx.job
  /\ \A c \in tasks, r \in results : c.job # r.ctx.job
  /\ \A c1, c2 \in tasks : c1.job = c2.job => c1 = c2
  /\ \A r1, r2 \in results : r1.ctx.job = r2.ctx.job => r1 = r2

IInv ==
  /\ TypeOK
  /\ LockedClaims
  /\ LocksOfClaims
  /\ CommittedClaims
  /\ SingleHolder
  /\ SnapshotsCurrent

\* The claim filter's other conditions hold of an open claim's rows: their
\* fin_step names the driver's step and their retries were under the bound.
ClaimsFiltered ==
  \A d \in Drivers : pc[d] = "locked" =>
    \A c \in batch[d] : /\ StepOf[d] \in FinStepsOf[c.job]
                        /\ c.retries < MaxJobRetries

\* The abstract job state machine of the tuning steps, seen through the
\* rows' state and retries columns.
JL == INSTANCE JobLifecycle WITH st <- state, tries <- retries,
                                 RetryCeiling <- MAX_ERRORED_JOB_RETRIES

\* The pipeline implements the job state machine of spec section 4.2: every
\* commit of a claim marks only rows the claim filter admits, and every
\* result handler moves a row out of the marker its claim set, raising
\* retries only on an eval revert that stays under MAX_ERRORED_JOB_RETRIES.
\* Holds however drivers, workers and handlers interleave, as long as no
\* fin result is delivered twice.
JobLifecycleRefined == JL!JSpec

\* evaluated and errored are terminal: no claim and no result handler
\* changes a row once it has reached one of them.
TerminalStable ==
  [][\A j \in Jobs : state[j] \in {"evaluated", "errored"} =>
                       state'[j] = state[j]]_vars

\* The states in which a row's work is finished: errored, or the success
\* state of the last operation its fin_step names.
Finished(j) ==
  IF "eval" \in FinStepsOf[j] THEN {"evaluated", "errored"}
                              ELSE {"compiled", "errored"}

\* Every job row is eventually finished when the drivers keep claiming, the
\* workers keep running the queue and the handler keeps applying results.
EventuallyFinished ==
  \A j \in Jobs : <>(state[j] \in Finished(j))

\* Spec section 8: a job that fails evaluation three times ends errored with
\* retries = 3.
RetryCeilingAsSpecified ==
  \A j \in Jobs : fails[j] >= MAX_ERRORED_JOB_RETRIES =>
                    state[j] = "errored" /\ retries[j] = MAX_ERRORED_JOB_RETRIES

\* Spec sections 4.2 and 4.5: only a job-level failure (a failed fin result
\* or a data error) makes a row errored; a transient store error is rolled
\* back and leaves the row to a later claim.
ErroredOnlyOnJobFailure ==
  \A j \in Jobs : state[j] = "errored" => fails[j] > 0

\* A row in state compiled has its compile results (kernels, find-db rows)
\* in the store: 'compiled' is only reached through a successful compile.
CompiledHasKernels ==
  \A j \in Jobs : state[j] = "compiled" => j \in kernels

\* The contexts a claim can build: retries stay below the claim filter's bound.
FairCtx == [job : Jobs, op : Ops, retries : 0..MaxJobRetries, by : Drivers]

\* Fairness: the drivers keep claiming and dispatching (a claim transaction
\* that keeps failing eventually commits), the workers keep taking tasks and
\* the handler keeps applying results.
Fairness ==
  /\ \A d \in Drivers : /\ WF_vars(Select(d))
                        /\ SF_vars(Commit(d))
                        /\ WF_vars(Dispatch(d))
  /\ \A c \in FairCtx : WF_vars(\E p \in Payloads : Run(c, p))
  /\ \A c \in FairCtx, p \in Payloads :
       WF_vars(ProcessCompileResults([ctx |-> c, payload |-> p])
               \/ ProcessEvalResults([ctx |-> c, payload |-> p]))

FairSpec == Spec /\ Fairness

=============================================================================
