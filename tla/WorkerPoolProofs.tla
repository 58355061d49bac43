--------------------------- MODULE WorkerPoolProofs ---------------------------
(***************************************************************************)
(* Proofs about go_fish and the worker-pool composer, for every command   *)
(* line, any number of machines and any GPU, slot and config counts.      *)
(* SessionValidated speaks of the tuning loop and the machine loop; it is *)
(* not inductive because it says nothing of the stages that lead there.   *)
(* PInv carries parse_args' verdict and run()'s subcommand test along the *)
(* stages and is proved inductive.  ApplicabilityCap speaks of the list   *)
(* compose_worker_list returns; CapInv says how many workers the launch   *)
(* loop has started on every machine so far, and the closed form of the  *)
(* pop loop (PoppedValue) gives the cap.                                    *)
(***************************************************************************)
EXTENDS WorkerPool, TLAPS

\* The initial state satisfies the inductive invariant.
LEMMA InitPInv == PInit => PInv
BY DEF PInit, PInv

\* go_fish: a command line goes past the parse only when parse_args lets
\* it through, and to the tuning loop only for a tunable operation.
LEMMA GoFishPInv == PInv /\ GoFish => PInv'
<1> SUFFICES ASSUME PInv, GoFish PROVE PInv'
  OBVIOUS
<1>1. UNCHANGED <<args, finWork>>
  BY DEF GoFish
<1>2. CASE ~ParseOK(args) /\ stage' = "exit"
  BY <1>1, <1>2 DEF PInv
<1>3. CASE ParseOK(args) /\ HasTunableOperation
  <2>1. stage' = "tune"
    BY <1>3 DEF GoFish
  <2>. QED
    BY <1>1, <1>3, <2>1 DEF PInv, ParseOK, CheckFinArgs, ArgsCheck, HasFin,
                            HasTunableOperation
<1>4. CASE ParseOK(args) /\ ~HasTunableOperation
  <2>1. stage' = "run"
    BY <1>4 DEF GoFish
  <2>. QED
    BY <1>1, <1>4, <2>1 DEF PInv, ParseOK, CheckFinArgs, ArgsCheck, HasFin
<1>. QED
  BY <1>2, <1>3, <1>4 DEF GoFish

\* run(): the machine loop is entered only without a subcommand.
LEMMA RunPInv == PInv /\ Run => PInv'
BY DEF Run, PInv

\* One turn of the machine loop: the solver update runs only when it has
\* not run yet, and then the loop ends.
LEMMA NextMachinePInv == PInv /\ NextMachine => PInv'
BY DEF NextMachine, DoFinWork, PInv

\* The inner loop, its end, the end of the machine loop and the join keep
\* the command line and the solver-update count.
LEMMA LoopPInv == PInv /\ (Launch \/ LaunchDone \/ Finish \/ Join) => PInv'
BY DEF Launch, LaunchDone, Finish, Join, PInv

\* Every step of go_fish keeps the inductive invariant.
LEMMA NextPInv == PInv /\ [PNext]_pvars => PInv'
<1> SUFFICES ASSUME PInv, [PNext]_pvars PROVE PInv'
  OBVIOUS
<1>1. CASE UNCHANGED pvars
  BY <1>1 DEF pvars, PInv, ParseOK, HasTunableOperation
<1>2. CASE PNext
  BY <1>2, GoFishPInv, RunPInv, NextMachinePInv, LoopPInv DEF PNext
<1>. QED
  BY <1>1, <1>2

\* The inductive invariant holds in every reachable state.
THEOREM PoolInvariant == PSpec => []PInv
BY InitPInv, NextPInv, PTL DEF PSpec

\* A command line that reaches the tuning loop without shutdown_workers
\* names a celery fin step outside load_job: has_fin held, so parse_args
\* required a session id.
LEMMA TuneHasSession ==
  ASSUME NEW a, ParseOK(a),
         a.sub # "load_job",
         \/ a.shutdown
         \/ a.op = "fin_steps" /\ a.step \in CelerySteps,
         ~a.shutdown
  PROVE  a.session
<1>1. a.op = "fin_steps" /\ a.step \in CelerySteps
  OBVIOUS
<1>2. HasFin(a)
  BY <1>1 DEF HasFin, FinSessionSteps
<1>. QED
  BY <1>2 DEF ParseOK

\* SessionValidated, checked by the composer run, holds for every command
\* line: go_fish hands the tuning loop a fin step, and the machine loop an
\* applicability update or a session fin step, only with --session_id,
\* through parse_args' has_fin check and has_tunable_operation's load_job
\* test together.
THEOREM SessionValidatedHolds == PSpec => []SessionValidated
<1>1. PInv => SessionValidated
  <2> SUFFICES ASSUME PInv PROVE SessionValidated
    OBVIOUS
  <2>1. stage = "tune" /\ ~args.shutdown => args.session
    BY TuneHasSession DEF PInv, HasTunableOperation
  <2>2. stage \in {"machine", "launch"}
        /\ (Applicability \/ (args.op = "fin_steps"
                              /\ args.step \in FinSessionSteps))
        => args.session
    BY DEF PInv, ParseOK, HasFin, Applicability
  <2>. QED
    BY <2>1, <2>2 DEF SessionValidated
<1>. QED
  BY <1>1, PoolInvariant, PTL

-----------------------------------------------------------------------------
(* The applicability cap                                                   *)

USE PoolAssumption

\* (len_rows + 99) // 100 brackets len_rows + 99 between two multiples of
\* 100.
LEMMA CeilHundredBounds ==
  ASSUME NEW r \in Nat
  PROVE  /\ CeilHundred(r) \in Nat
         /\ CeilHundred(r) * 100 <= r + 99
         /\ r + 99 < CeilHundred(r) * 100 + 100
BY DEF CeilHundred

\* The pop loop leaves min(n, ceil(len_rows / 100)) ids of n: that length
\* fails the loop condition, every longer one up to n satisfies it, and no
\* other length does both.
LEMMA PoppedValue ==
  ASSUME rowCount \in Nat, NEW n \in Nat
  PROVE  Popped(n) = MinOf(n, CeilHundred(rowCount))
<1> DEFINE c == CeilHundred(rowCount)
           k0 == MinOf(n, c)
           Stops(k) == /\ ~(k * 100 > rowCount + 99)
                       /\ \A i \in (k + 1)..n : i * 100 > rowCount + 99
<1>1. c \in Nat /\ c * 100 <= rowCount + 99 /\ rowCount + 99 < c * 100 + 100
  BY CeilHundredBounds
<1>2. k0 \in 0..n /\ Stops(k0)
  BY <1>1 DEF MinOf
<1>3. ASSUME NEW k \in 0..n, Stops(k) PROVE k = k0
  <2>1. k <= c
    BY <1>1, <1>3
  <2>2. ~(k < k0)
    <3> SUFFICES ASSUME k < k0 PROVE FALSE
      OBVIOUS
    <3>1. k + 1 \in (k + 1)..n /\ k + 1 <= c
      BY <1>1 DEF MinOf
    <3>2. (k + 1) * 100 > rowCount + 99
      BY <1>3, <3>1
    <3>. QED
      BY <1>1, <3>1, <3>2
  <2>. QED
    BY <1>1, <2>1, <2>2 DEF MinOf
<1>4. Popped(n) = CHOOSE k \in 0..n : Stops(k)
  BY DEF Popped
<1>. QED
  BY <1>2, <1>3, <1>4

\* Steps that keep the command line and the machine inputs keep every
\* machine's worker ids.
LEMMA WorkerIdsUnchanged ==
  ASSUME NEW m, UNCHANGED <<args, gpus, procs, rowCount>>
  PROVE  WorkerIds(m)' = WorkerIds(m)
BY DEF WorkerIds, Popped, EvalStep, Applicability

\* The pop loop leaves a list no longer than it was.
LEMMA PoppedRange ==
  ASSUME rowCount \in Nat, NEW n \in Nat
  PROVE  Popped(n) \in 0..n
<1>1. CeilHundred(rowCount) \in Nat
  BY CeilHundredBounds
<1>. QED
  BY <1>1, PoppedValue DEF MinOf

\* The number of worker ids of a machine is a natural number.
LEMMA WorkerIdsNat ==
  ASSUME CapInv, NEW m \in Machines
  PROVE  WorkerIds(m) \in Nat
<1> DEFINE base == IF EvalStep
                     THEN IF args.gpuLim > 0 /\ args.gpuLim < gpus[m]
                            THEN args.gpuLim ELSE gpus[m]
                     ELSE procs[m]
<1>1. args.gpuLim \in Nat
  BY PoolAssumption DEF CapInv, CmdLines
<1>2. base \in Nat
  BY <1>1 DEF CapInv
<1>3. Popped(base) \in Nat
  BY <1>2, PoppedRange DEF CapInv
<1>. QED
  BY <1>2, <1>3 DEF WorkerIds

\* The initial state satisfies the launch-loop invariant.
LEMMA InitCapInv == PInit => CapInv
BY PoolAssumption DEF PInit, CapInv, Machines

\* go_fish's parse leaves the loop untouched.
LEMMA GoFishCapInv == CapInv /\ GoFish => CapInv'
BY DEF GoFish, CapInv

\* run() enters the machine loop at the first machine with nothing started,
\* with the machines' GPUs and slots and the configs' count read.
LEMMA RunCapInv == CapInv /\ Run => CapInv'
<1> SUFFICES ASSUME CapInv, Run PROVE CapInv'
  OBVIOUS
<1>1. CASE args.op = "add_tables" \/ args.sub # "none"
  BY <1>1 DEF Run, CapInv
<1>2. CASE args.op # "add_tables" /\ args.sub = "none"
  <2>1. stage' = "machine" /\ result' = "list"
    BY <1>2 DEF Run, CapInv
  <2>2. gpus' \in [Machines -> Nat] /\ procs' \in [Machines -> Nat]
    <3>1. [Machines -> 0..MaxIds] \subseteq [Machines -> Nat]
      BY PoolAssumption
    <3>2. [m \in Machines |-> 0] \in [Machines -> Nat]
      OBVIOUS
    <3>. QED
      BY <1>2, <3>1, <3>2 DEF Run
  <2>3. rowCount' \in Nat
    <3>1. rowCount' \in IF Applicability THEN RowCounts ELSE {0}
      BY <1>2 DEF Run
    <3>. QED
      BY <3>1, PoolAssumption
  <2>4. stage = "run" /\ UNCHANGED <<args, mi, ids, gi, started>>
    BY DEF Run
  <2>. QED
    BY <2>1, <2>2, <2>3, <2>4 DEF CapInv, Machines
<1>. QED
  BY <1>1, <1>2

\* One turn of the machine loop: a restarted machine is passed over, a
\* machine with no ids ends the loop with None, the solver update ends it
\* with the list (never under an applicability update), and any other
\* machine enters the inner loop at its first id with nothing started.
LEMMA NextMachineCapInv == CapInv /\ NextMachine => CapInv'
<1> SUFFICES ASSUME CapInv, NextMachine PROVE CapInv'
  OBVIOUS
<1>1. stage = "machine" /\ mi \in Machines
  BY DEF NextMachine, CapInv, Machines
<1>2. UNCHANGED <<args, rowCount, gpus, procs, started>>
  BY DEF NextMachine
<1>3. \A m \in Machines : WorkerIds(m)' = WorkerIds(m)
  BY <1>2, WorkerIdsUnchanged
<1>4. CASE /\ Restart
           /\ mi' = mi + 1
           /\ UNCHANGED <<ids, gi, stage, finWork, result>>
  BY <1>1, <1>2, <1>4 DEF CapInv, Machines, Restart
<1>5. CASE /\ ~Restart /\ WorkerIds(mi) = 0
           /\ stage' = "done" /\ result' = "none"
           /\ UNCHANGED <<mi, ids, gi, finWork, restarted>>
  BY <1>1, <1>2, <1>5 DEF CapInv
<1>6. CASE /\ ~Restart /\ Solvers /\ WorkerIds(mi) > 0
           /\ finWork = 0 /\ DoFinWork
           /\ stage' = "done" /\ result' = "list"
           /\ UNCHANGED <<mi, ids, gi, restarted>>
  <2>1. ~Applicability
    BY <1>6 DEF Solvers, Applicability
  <2>. QED
    BY <1>1, <1>2, <1>6, <2>1 DEF CapInv, Applicability, Restart
<1>7. CASE /\ ~Restart /\ ~Solvers /\ WorkerIds(mi) > 0
           /\ ids' = WorkerIds(mi) /\ gi' = 0 /\ stage' = "launch"
           /\ UNCHANGED <<mi, finWork, restarted, result>>
  <2>1. WorkerIds(mi) \in Nat
    BY <1>1, WorkerIdsNat
  <2>2. ids' \in Nat /\ gi' <= ids' /\ ids' = WorkerIds(mi)'
    BY <1>1, <1>3, <1>7, <2>1
  <2>3. (Applicability /\ ~Restart /\ result = "list" =>
          \A m \in Machines :
            started[m] = IF m < mi THEN WorkerIds(m)
                         ELSE IF m = mi /\ stage = "launch" THEN gi ELSE 0)'
    BY <1>1, <1>2, <1>3, <1>7 DEF CapInv, Applicability, Restart
  <2>. QED
    BY <1>1, <1>2, <1>7, <2>2, <2>3 DEF CapInv
<1>. QED
  BY <1>4, <1>5, <1>6, <1>7 DEF NextMachine

\* One id of the inner loop: an applicability worker is started and the
\* loop goes on; any other worker leaves the applicability count alone.
LEMMA LaunchCapInv == CapInv /\ Launch => CapInv'
<1> SUFFICES ASSUME CapInv, Launch PROVE CapInv'
  OBVIOUS
<1>1. stage = "launch" /\ mi \in Machines /\ gi < ids /\ ids = WorkerIds(mi)
  BY DEF Launch, CapInv
<1>2. UNCHANGED <<args, rowCount, gpus, procs, ids, result>>
  BY DEF Launch
<1>3. \A m \in Machines : WorkerIds(m)' = WorkerIds(m)
  BY <1>2, WorkerIdsUnchanged
<1>4. CASE /\ Applicability
           /\ started' = [started EXCEPT ![mi] = @ + 1]
           /\ gi' = gi + 1
           /\ UNCHANGED <<mi, stage, sessions>>
  <2>1. started' \in [Machines -> Nat] /\ gi' \in Nat /\ gi' <= ids
    BY <1>1, <1>4 DEF CapInv
  <2>2. (Applicability /\ ~Restart /\ result = "list" =>
          \A m \in Machines :
            started[m] = IF m < mi THEN WorkerIds(m)
                         ELSE IF m = mi /\ stage = "launch" THEN gi ELSE 0)'
    BY <1>1, <1>2, <1>3, <1>4 DEF CapInv, Applicability, Restart
  <2>. QED
    BY <1>1, <1>2, <1>3, <1>4, <2>1, <2>2 DEF CapInv
<1>5. CASE /\ ~Applicability /\ args.op = "check_status"
           /\ gi' = gi + 1
           /\ UNCHANGED <<mi, stage, started, sessions>>
  BY <1>1, <1>2, <1>3, <1>5 DEF CapInv, Applicability
<1>6. CASE /\ ~Applicability
           /\ stage' = "machine" /\ mi' = mi + 1
           /\ UNCHANGED <<gi, started>>
  BY <1>1, <1>2, <1>6 DEF CapInv, Applicability, Machines
<1>. QED
  BY <1>4, <1>5, <1>6 DEF Launch

\* The inner loop is over: every id of the machine has its worker, and the
\* loop moves to the next machine.
LEMMA LaunchDoneCapInv == CapInv /\ LaunchDone => CapInv'
<1> SUFFICES ASSUME CapInv, LaunchDone PROVE CapInv'
  OBVIOUS
<1>1. stage = "launch" /\ mi \in Machines /\ gi = ids /\ ids = WorkerIds(mi)
  BY DEF LaunchDone, CapInv
<1>2. UNCHANGED <<args, rowCount, gpus, procs, ids, gi, started, result>>
      /\ stage' = "machine" /\ mi' = mi + 1
  BY DEF LaunchDone
<1>3. \A m \in Machines : WorkerIds(m)' = WorkerIds(m)
  BY <1>2, WorkerIdsUnchanged
<1>. QED
  BY <1>1, <1>2, <1>3 DEF CapInv, Machines, Applicability, Restart

\* The machine loop ends after the last machine, and the join changes no
\* count the invariant speaks of.
LEMMA FinishJoinCapInv == CapInv /\ (Finish \/ Join) => CapInv'
<1> SUFFICES ASSUME CapInv, Finish \/ Join PROVE CapInv'
  OBVIOUS
<1>1. CASE Finish
  <2>1. stage = "machine" /\ mi = NumMachines + 1
    BY <1>1 DEF Finish, CapInv, Machines
  <2>2. UNCHANGED <<args, rowCount, gpus, procs, mi, ids, gi, started>>
        /\ stage' = "done" /\ result' = "list"
    BY <1>1 DEF Finish
  <2>3. \A m \in Machines : WorkerIds(m)' = WorkerIds(m)
    BY <2>2, WorkerIdsUnchanged
  <2>. QED
    BY <2>1, <2>2, <2>3 DEF CapInv, Machines, Applicability, Restart
<1>2. CASE Join
  BY <1>2 DEF Join, CapInv
<1>. QED
  BY <1>1, <1>2

\* Every step of go_fish keeps the launch-loop invariant.
LEMMA NextCapInv == CapInv /\ [PNext]_pvars => CapInv'
<1> SUFFICES ASSUME CapInv, [PNext]_pvars PROVE CapInv'
  OBVIOUS
<1>1. CASE UNCHANGED pvars
  <2>1. \A m \in Machines : WorkerIds(m)' = WorkerIds(m)
    BY <1>1, WorkerIdsUnchanged DEF pvars
  <2>. QED
    BY <1>1, <2>1 DEF pvars, CapInv, Applicability, Restart
<1>2. CASE PNext
  BY <1>2, GoFishCapInv, RunCapInv, NextMachineCapInv, LaunchCapInv,
     LaunchDoneCapInv, FinishJoinCapInv DEF PNext
<1>. QED
  BY <1>1, <1>2

\* The launch-loop invariant, checked by the composer run, holds in every
\* reachable state.
THEOREM CapInvariant == PSpec => []CapInv
BY InitCapInv, NextCapInv, PTL DEF PSpec

\* ApplicabilityCap, checked by the composer run at 0, 99, 100 and 101
\* configs: for any number of machines, slots and configs, when
\* compose_worker_list returns its list for an applicability update without
\* a restart, every machine has started min(slots, ceil(configs / 100))
\* workers.
THEOREM ApplicabilityCapHolds == PSpec => []ApplicabilityCap
<1>1. CapInv => ApplicabilityCap
  <2> SUFFICES ASSUME CapInv, stage = "done", result = "list",
                      Applicability, ~Restart, NEW m \in Machines
               PROVE  started[m] = MinOf(procs[m], CeilHundred(rowCount))
    BY DEF ApplicabilityCap
  <2>1. mi = NumMachines + 1 /\ m < mi
    BY DEF CapInv, Machines
  <2>2. started[m] = WorkerIds(m)
    BY <2>1 DEF CapInv
  <2>3. WorkerIds(m) = Popped(procs[m])
    BY DEF WorkerIds, EvalStep, Applicability
  <2>. QED
    BY <2>2, <2>3, PoppedValue DEF CapInv
<1>. QED
  BY <1>1, CapInvariant, PTL

=============================================================================
