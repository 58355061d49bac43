----------------------------- MODULE WorkerPool -----------------------------
(***************************************************************************)
(* The worker-pool composer of the MIOpen library (miopen_lib.py,          *)
(* compose_worker_list, launch_worker and do_fin_work): for each machine   *)
(* in turn it works out the worker ids (the available GPUs for an eval     *)
(* step, capped by gpu_lim, the process slots otherwise, cut down to       *)
(* ceil(configs / 100) for an applicability update), then launches a       *)
(* worker per id or runs the one solver update.  One run of the composer  *)
(* is a sequential loop.  The command line (MIOpenArgs) is chosen in the   *)
(* initial state; the machines' GPUs and slots and the number of configs  *)
(* are read when run() loads the machines.                                 *)
(***************************************************************************)
EXTENDS Naturals, Sequences, MIOpenArgs

CONSTANTS
  NumMachines,  \* machines returned by load_machines
  MaxIds,       \* most GPUs or process slots on one machine
  RowCounts     \* numbers of configs the applicability query may return

ASSUME PoolAssumption ==
  /\ NumMachines \in Nat \ {0}
  /\ MaxIds \in Nat
  /\ RowCounts \subseteq Nat
  /\ GpuLims \subseteq Nat
  /\ EvalNamed \subseteq FinStepVals

Machines == 1..NumMachines

VARIABLES
  args,       \* the command line of this run
  rowCount,   \* len(cfg_rows) of the applicability query
  gpus,       \* machine.get_avail_gpus() per machine
  procs,      \* get_num_procs(machine) per machine
  mi,         \* the machine the loop is at
  ids,        \* len(worker_ids) for the current machine
  gi,         \* the worker id the inner loop is at
  stage,      \* "start", "run", "machine", "launch", "done", "tune" or "exit"
  created,    \* workers constructed per machine
  started,    \* workers started per machine
  finWork,    \* do_fin_work calls
  restarted,  \* machines sent restart_server
  result,     \* what run() returns ("list" or "none"), or "error"
  joined,     \* workers go_fish has joined per machine
  sessions    \* sessions added by init_session

pvars == <<args, rowCount, gpus, procs, mi, ids, gi, stage, created, started,
           finWork, restarted, result, joined, sessions>>

\* What compose_worker_list and launch_worker read of the command line.
Restart == args.restart
EvalStep == args.op = "fin_steps" /\ args.step \in EvalNamed
Applicability == args.op = "update_applicability"
Solvers == args.op = "update_solvers"

-----------------------------------------------------------------------------

\* Mutant: the cap computed without the +99 (the floor of configs / 100).
PoppedFloor(n) ==
  CHOOSE k \in 0..n : /\ ~(k * 100 > rowCount)
                      /\ \A i \in (k + 1)..n : i * 100 > rowCount

\* `while len(worker_ids) > proc_lim: worker_ids.pop()` with
\* proc_lim = (len_rows + 99) / 100, a true division: an id list of length
\* n is popped while n > (len_rows + 99) / 100, that is while
\* 100 * n > len_rows + 99.  The loop leaves the length at which this
\* condition first fails counting down from n, every longer one having been
\* popped; exactly one length qualifies.
Popped(n) ==
  CHOOSE k \in 0..n : /\ ~(k * 100 > rowCount + 99)
                      /\ \A i \in (k + 1)..n : i * 100 > rowCount + 99

\* The worker ids of machine m.
WorkerIds(m) ==
  LET base == IF EvalStep
                THEN IF args.gpuLim > 0 /\ args.gpuLim < gpus[m]
                       THEN args.gpuLim ELSE gpus[m]
                ELSE procs[m]
  IN IF Applicability THEN Popped(base) ELSE base

\* do_fin_work: one FinClass runs get_solvers; it always returns True.
DoFinWork == finWork' = finWork + 1

\* One turn of the machine loop, up to the inner loop over worker ids.
NextMachine ==
  /\ stage = "machine"
  /\ mi <= NumMachines
  /\ \/ /\ Restart
        /\ restarted' = restarted \cup {mi}
        /\ mi' = mi + 1
        /\ UNCHANGED <<ids, gi, stage, finWork, result>>
     \/ /\ ~Restart
        /\ WorkerIds(mi) = 0
        /\ stage' = "done"
        /\ result' = "none"
        /\ UNCHANGED <<mi, ids, gi, finWork, restarted>>
     \/ /\ ~Restart /\ Solvers
        /\ WorkerIds(mi) > 0
        /\ finWork = 0
        /\ DoFinWork
        /\ stage' = "done"
        /\ result' = "list"
        /\ UNCHANGED <<mi, ids, gi, restarted>>
     \/ /\ ~Restart /\ ~Solvers
        /\ WorkerIds(mi) > 0
        /\ ids' = WorkerIds(mi)
        /\ gi' = 0
        /\ stage' = "launch"
        /\ UNCHANGED <<mi, finWork, restarted, result>>
  /\ UNCHANGED <<args, rowCount, gpus, procs, created, started, joined,
                 sessions>>

\* launch_worker for the worker id gi.  An applicability worker is started
\* and the loop goes on.  Any other worker is only constructed: with
\* check_status the loop goes on to the next id only when the status check
\* failed; init_session adds a session, execute_cmd runs the command on the
\* machine, and the loop breaks to the next machine.
Launch ==
  /\ stage = "launch"
  /\ gi < ids
  /\ created' = [created EXCEPT ![mi] = @ + 1]
  /\ \/ /\ Applicability
        /\ started' = [started EXCEPT ![mi] = @ + 1]
        /\ gi' = gi + 1
        /\ UNCHANGED <<mi, stage, sessions>>
     \/ /\ ~Applicability
        /\ args.op = "check_status"
        /\ gi' = gi + 1
        /\ UNCHANGED <<mi, stage, started, sessions>>
     \/ /\ ~Applicability
        /\ sessions' = IF args.op = "init_session" THEN sessions + 1
                                                   ELSE sessions
        /\ stage' = "machine"
        /\ mi' = mi + 1
        /\ UNCHANGED <<gi, started>>
  /\ UNCHANGED <<args, rowCount, gpus, procs, ids, finWork, restarted, result,
                 joined>>

\* Mutant: the inner loop ends one id early (range(len(worker_ids) - 1)).
LaunchDoneEarly ==
  /\ stage = "launch"
  /\ gi + 1 = ids
  /\ stage' = "machine"
  /\ mi' = mi + 1
  /\ UNCHANGED <<args, rowCount, gpus, procs, ids, gi, created, started,
                 finWork, restarted, result, joined, sessions>>

\* The inner loop has gone through every worker id.
LaunchDone ==
  /\ stage = "launch"
  /\ gi = ids
  /\ stage' = "machine"
  /\ mi' = mi + 1
  /\ UNCHANGED <<args, rowCount, gpus, procs, ids, gi, created, started,
                 finWork, restarted, result, joined, sessions>>

\* The machine loop is over: compose_worker_list returns worker_lst.
Finish ==
  /\ stage = "machine"
  /\ mi > NumMachines
  /\ stage' = "done"
  /\ result' = "list"
  /\ UNCHANGED <<args, rowCount, gpus, procs, mi, ids, gi, created, started,
                 finWork, restarted, joined, sessions>>

\* Mutant: has_tunable_operation without its load_job test.
HasTunableOperationNoLoadJob ==
  \/ args.shutdown
  \/ args.op = "fin_steps" /\ args.step \in CelerySteps

\* has_tunable_operation: never under the load_job subcommand; true for
\* shutdown_workers and for a celery fin step.
HasTunableOperation ==
  /\ args.sub # "load_job"
  /\ \/ args.shutdown
     \/ args.op = "fin_steps" /\ args.step \in CelerySteps

\* go_fish main: has_tunable_operation parses the command line first; a
\* rejected one ends go_fish.  A tunable operation goes to the celery
\* tuning loop (tune, modelled by MIOpenTuning); any other calls run().
GoFish ==
  /\ stage = "start"
  /\ \/ /\ ~ParseOK(args)
        /\ stage' = "exit"
        /\ result' = "error"
     \/ /\ ParseOK(args)
        /\ stage' = IF HasTunableOperation THEN "tune" ELSE "run"
        /\ UNCHANGED result
  /\ UNCHANGED <<args, rowCount, gpus, procs, mi, ids, gi, created, started,
                 finWork, restarted, joined, sessions>>

\* run(): add_tables and the subcommands return None; every other operation
\* loads the machines and returns compose_worker_list's result.  The loop
\* asks each machine for its GPUs (an eval step) or its process slots, and
\* an applicability update for its configs.
Run ==
  /\ stage = "run"
  /\ \/ /\ args.op = "add_tables" \/ args.sub # "none"
        /\ stage' = "done"
        /\ result' = "none"
        /\ UNCHANGED <<rowCount, gpus, procs>>
     \/ /\ args.op # "add_tables" /\ args.sub = "none"
        /\ stage' = "machine"
        /\ gpus' \in IF EvalStep THEN [Machines -> 0..MaxIds]
                                 ELSE {[m \in Machines |-> 0]}
        /\ procs' \in IF EvalStep THEN {[m \in Machines |-> 0]}
                                  ELSE [Machines -> 0..MaxIds]
        /\ rowCount' \in IF Applicability THEN RowCounts ELSE {0}
        /\ UNCHANGED result
  /\ UNCHANGED <<args, mi, ids, gi, created, started, finWork, restarted,
                 joined, sessions>>

\* go_fish main after run(): on None it goes on to the next yaml file;
\* otherwise it joins every worker of the list (the started ones).
Join ==
  /\ stage = "done"
  /\ stage' = "exit"
  /\ joined' = IF result = "list" THEN started ELSE joined
  /\ UNCHANGED <<args, rowCount, gpus, procs, mi, ids, gi, created, started,
                 finWork, restarted, result, sessions>>

PInit ==
  /\ args \in CmdLines
  /\ rowCount = 0
  /\ gpus = [m \in Machines |-> 0]
  /\ procs = [m \in Machines |-> 0]
  /\ mi = 1
  /\ ids = 0
  /\ gi = 0
  /\ stage = "start"
  /\ created = [m \in Machines |-> 0]
  /\ started = [m \in Machines |-> 0]
  /\ finWork = 0
  /\ restarted = {}
  /\ result = "list"
  /\ joined = [m \in Machines |-> 0]
  /\ sessions = 0

PNext == GoFish \/ Run \/ NextMachine \/ Launch \/ LaunchDone \/ Finish \/ Join

PSpec == PInit /\ [][PNext]_pvars

-----------------------------------------------------------------------------
(* Properties                                                              *)

\* ceil(n / 100), the least k with 100 * k >= n.
CeilHundred(n) == (n + 99) \div 100

MinOf(a, b) == IF a <= b THEN a ELSE b

\* Spec section 4.3: an applicability update starts, on every machine,
\* ceil(pending configs / 100) workers or one per slot, whichever is fewer,
\* including at the boundaries (no config, exactly 100, 101); machines sent
\* a restart contribute none.
ApplicabilityCap ==
  (stage = "done" /\ result = "list" /\ Applicability /\ ~Restart) =>
    \A m \in Machines : started[m] = MinOf(procs[m], CeilHundred(rowCount))

\* Spec section 6: the core is handed an already validated configuration.
\* Whatever the command line, a fin step reaches the celery tuning loop,
\* and an applicability update or a session fin step reaches the machine
\* loop, only when --session_id was given.  It rests on parse_args' has_fin
\* check together with has_tunable_operation's load_job test.
SessionValidated ==
  /\ stage = "tune" /\ ~args.shutdown => args.session
  /\ stage \in {"machine", "launch"}
     /\ (Applicability \/ (args.op = "fin_steps" /\ args.step \in FinSessionSteps))
     => args.session

\* The inductive form of SessionValidated: every stage past go_fish's parse
\* holds a command line parse_args let through; the machine loop is reached
\* only without a subcommand, and the tuning loop only for a tunable
\* operation.
PInv ==
  /\ stage \in {"run", "machine", "launch", "done"} => ParseOK(args)
  /\ stage \in {"machine", "launch"} => args.sub = "none"
  /\ stage = "tune" => ParseOK(args) /\ HasTunableOperation

\* The inductive form of ApplicabilityCap: the machine loop has started,
\* on every machine it has left behind, a worker per id the pop loop kept,
\* on the machine it is at one per id the inner loop has gone through, and
\* none on the machines ahead; a list is returned only after the last one.
CapInv ==
  /\ args \in CmdLines
  /\ mi \in 1..(NumMachines + 1)
  /\ gpus \in [Machines -> Nat] /\ procs \in [Machines -> Nat]
  /\ rowCount \in Nat /\ started \in [Machines -> Nat]
  /\ gi \in Nat /\ ids \in Nat
  /\ stage \in {"start", "run"} =>
       mi = 1 /\ result = "list" /\ started = [m \in Machines |-> 0]
  /\ stage \in {"machine", "launch"} => result = "list"
  /\ stage = "launch" => mi \in Machines /\ gi <= ids /\ ids = WorkerIds(mi)
  /\ Applicability /\ ~Restart /\ stage \in {"machine", "launch", "done"}
     /\ result = "list" =>
       \A m \in Machines :
         started[m] = IF m < mi THEN WorkerIds(m)
                      ELSE IF m = mi /\ stage = "launch" THEN gi ELSE 0
  /\ Applicability /\ ~Restart /\ stage = "done" /\ result = "list" =>
       mi = NumMachines + 1

\* Spec section 4.3: an eval step gets one worker per available GPU of each
\* machine, capped by gpu_lim.
EvalWorkerPerGpu ==
  (stage = "done" /\ result = "list" /\ EvalStep /\ ~Restart) =>
    \A m \in Machines :
      started[m] = IF args.gpuLim > 0 THEN MinOf(gpus[m], args.gpuLim)
                                      ELSE gpus[m]

=============================================================================
