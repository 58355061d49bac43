----------------------- MODULE MIOpenTuningRefinement -----------------------
(***************************************************************************)
(* The MIOpen tuning pipeline implements the abstract job state machine   *)
(* (JobLifecycle) under the mapping st <- state, tries <- retries: the    *)
(* drivers, row locks, queue and result handlers of MIOpenTuning only     *)
(* ever change a row the way the state machine allows.  The retry ceiling *)
(* of the pipeline then follows from that of the state machine.           *)
(***************************************************************************)
EXTENDS MIOpenTuningProofs

USE ConstantsAssumption

-----------------------------------------------------------------------------
(* The claim filter's conditions on open claims                            *)

LEMMA InitClaimsFiltered == Init => ClaimsFiltered
BY DEF Init, ClaimsFiltered

\* Only Select gives a driver an open claim, and it builds the claim from
\* rows the filter admits; every other step leaves an open claim alone or
\* closes it.
LEMMA NextClaimsFiltered ==
  TypeOK /\ ClaimsFiltered /\ [Next]_vars => ClaimsFiltered'
<1> SUFFICES ASSUME TypeOK, ClaimsFiltered, [Next]_vars
             PROVE  ClaimsFiltered'
  OBVIOUS
<1>1. ASSUME NEW d \in Drivers, Select(d)
      PROVE  ClaimsFiltered'
  <2>1. PICK sel \in SUBSET Eligible(d) :
          batch' = [batch EXCEPT ![d] = {CtxOf(d, j) : j \in sel}]
    BY <1>1 DEF Select
  <2>2. \A c \in batch'[d] : /\ StepOf[d] \in FinStepsOf[c.job]
                             /\ c.retries < MaxJobRetries
    BY <2>1 DEF TypeOK, Eligible, CtxOf
  <2>3. \A d2 \in Drivers \ {d} : pc'[d2] = pc[d2] /\ batch'[d2] = batch[d2]
    BY <1>1, <2>1 DEF Select, TypeOK
  <2>4. QED
    BY <2>2, <2>3 DEF ClaimsFiltered
<1>2. ASSUME NEW d \in Drivers,
             \/ Abort(d) \/ Commit(d)
             \/ Dispatch(d) \/ SerializeFail(d) \/ EnqueueFail(d)
      PROVE  ClaimsFiltered'
  <2>1. pc'[d] # "locked"
    BY <1>2 DEF Abort, Commit, Dispatch, SerializeFail, EnqueueFail, TypeOK
  <2>2. \A d2 \in Drivers \ {d} : pc'[d2] = pc[d2] /\ batch'[d2] = batch[d2]
    BY <1>2 DEF Abort, Commit, Dispatch, SerializeFail, EnqueueFail, TypeOK
  <2>3. QED
    BY <2>1, <2>2 DEF ClaimsFiltered
<1>3. CASE \E c \in tasks, p \in Payloads : Run(c, p) \/ RunRedelivered(c, p)
  BY <1>3 DEF Run, RunRedelivered, ClaimsFiltered
<1>4. CASE \E r \in results : ProcessCompileResults(r) \/ ProcessEvalResults(r)
  BY <1>4 DEF ProcessCompileResults, ProcessEvalResults, ClaimsFiltered
<1>5. CASE UNCHANGED vars
  BY <1>5 DEF vars, ClaimsFiltered
<1>6. QED
  BY <1>1, <1>2, <1>3, <1>4, <1>5 DEF Next

\* An open claim's rows passed the claim filter, in every reachable state.
THEOREM ClaimsFilteredInvariant == Spec => [](TypeOK /\ ClaimsFiltered)
BY InitTypeOK, InitClaimsFiltered, NextTypeOK, NextClaimsFiltered, PTL
   DEF Spec

-----------------------------------------------------------------------------
(* Refinement of the job state machine                                     *)

\* The claim filter of update_operation is the source set of the state
\* machine, and the marker a claim commits is the state machine's.
LEMMA StatesOfSteps ==
  /\ JL!Steps = Ops
  /\ \A o \in Ops : FetchState[o] = JL!Source[o] /\ SetState[o] = JL!Marker[o]
BY DEF Ops, FetchState, SetState, JL!Steps, JL!Source, JL!Marker

\* Commit marks exactly the rows its claim locked, and each of them is one
\* the abstract claim of the driver's step may take.
LEMMA CommitRefines ==
  ASSUME IInv, ClaimsFiltered, NEW d \in Drivers, Commit(d)
  PROVE  JL!Claim(StepOf[d], {j \in Jobs : lock[j] = d})
<1> DEFINE S == {j \in Jobs : lock[j] = d}
<1>1. ASSUME NEW j \in S PROVE JL!Claimable(StepOf[d], j)
  <2>1. pc[d] = "locked"
    BY DEF Commit
  <2>2. PICK c \in batch[d] : c.job = j
    BY <2>1 DEF IInv, LocksOfClaims
  <2>3. /\ state[j] \in FetchState[StepOf[d]]
        /\ retries[j] = c.retries
    BY <2>1, <2>2 DEF IInv, LockedClaims
  <2>4. StepOf[d] \in FinStepsOf[j] /\ c.retries < MaxJobRetries
    BY <2>1, <2>2 DEF ClaimsFiltered
  <2>5. QED
    BY <2>3, <2>4, StatesOfSteps DEF JL!Claimable
<1>2. state' = [j \in Jobs |-> IF j \in S THEN JL!Marker[StepOf[d]]
                                          ELSE state[j]]
  BY StatesOfSteps DEF Commit
<1>3. QED
  BY <1>1, <1>2 DEF Commit, JL!Claim

\* A compile handler moves its row, which is in compile_start, to compiled
\* or errored and leaves retries alone.
LEMMA CompileRefines ==
  ASSUME IInv, NEW r \in results, ProcessCompileResults(r)
  PROVE  JL!CompileDone(r.ctx.job)
<1>1. r.ctx \in tasks \cup {rr.ctx : rr \in results}
  OBVIOUS
<1>2. state[r.ctx.job] = SetState[r.ctx.op]
  BY <1>1 DEF IInv, SnapshotsCurrent
<1>3. state[r.ctx.job] = "compile_start"
  BY <1>2 DEF ProcessCompileResults, SetState, Ops
<1>4. \E s \in {"compiled", "errored"} : state' = [state EXCEPT ![r.ctx.job] = s]
  BY DEF ProcessCompileResults
<1>5. QED
  BY <1>3, <1>4 DEF ProcessCompileResults, JL!CompileDone

\* An eval handler moves its row, which is in eval_start at the retries of
\* its snapshot, to evaluated or errored, or back to compiled with one more
\* retry when the snapshot is under MAX_ERRORED_JOB_RETRIES - 1; an
\* exception that escapes it leaves the row as it was.
LEMMA EvalRefines ==
  ASSUME IInv, NEW r \in results, ProcessEvalResults(r)
  PROVE  JL!EvalDone(r.ctx.job) \/ UNCHANGED <<state, retries>>
<1> DEFINE j == r.ctx.job
<1>1. /\ state[j] = "eval_start"
      /\ retries[j] = r.ctx.retries
      /\ j \in Jobs
      /\ retries \in [Jobs -> Nat]
  BY DEF ProcessEvalResults, IInv, SnapshotsCurrent, SetState, TypeOK,
         Result, Ctx
<1>2. QED
  BY <1>1 DEF ProcessEvalResults, JL!EvalDone, MAX_ERRORED_JOB_RETRIES

\* Every step of the pipeline is a step of the job state machine on the
\* state and retries columns, or leaves both alone.
LEMMA RefinementStep ==
  ASSUME MaxRedeliver = 0
  PROVE  IInv /\ ClaimsFiltered /\ [Next]_vars => [JL!JNext]_<<state, retries>>
<1> SUFFICES ASSUME IInv, ClaimsFiltered, [Next]_vars
             PROVE  [JL!JNext]_<<state, retries>>
  OBVIOUS
<1>1. ASSUME NEW d \in Drivers, Commit(d) PROVE JL!JNext
  <2>1. StepOf[d] \in JL!Steps /\ {j \in Jobs : lock[j] = d} \in SUBSET Jobs
    BY StatesOfSteps
  <2>2. QED
    BY <1>1, <2>1, CommitRefines DEF JL!JNext
<1>2. ASSUME NEW d \in Drivers,
             \/ Select(d) \/ Abort(d)
             \/ Dispatch(d) \/ SerializeFail(d) \/ EnqueueFail(d)
      PROVE  UNCHANGED <<state, retries>>
  BY <1>2 DEF Select, Abort, Dispatch, SerializeFail, EnqueueFail
<1>3. CASE \E c \in tasks, p \in Payloads : Run(c, p) \/ RunRedelivered(c, p)
  BY <1>3 DEF Run, RunRedelivered
<1>4. ASSUME NEW r \in results, ProcessCompileResults(r) \/ ProcessEvalResults(r)
      PROVE  [JL!JNext]_<<state, retries>>
  <2>1. r.ctx.job \in Jobs
    BY DEF IInv, TypeOK, Result, Ctx
  <2>2. QED
    BY <1>4, <2>1, CompileRefines, EvalRefines DEF JL!JNext
<1>5. CASE UNCHANGED vars
  BY <1>5 DEF vars
<1>6. QED
  BY <1>1, <1>2, <1>3, <1>4, <1>5 DEF Next

\* Without redelivery, the pipeline implements the job state machine of
\* spec section 4.2 (run pipeline_safety checks the same property on three
\* rows and three drivers).
THEOREM Refinement ==
  ASSUME MaxRedeliver = 0
  PROVE  Spec => JobLifecycleRefined
<1>1. Init => JL!JInit
  BY DEF Init, JL!JInit
<1>2. Spec => [](IInv /\ ClaimsFiltered)
  BY OwnershipInvariant, ClaimsFilteredInvariant, PTL
<1>3. QED
  BY <1>1, <1>2, RefinementStep, PTL DEF Spec, JobLifecycleRefined, JL!JSpec, JL!jvars

-----------------------------------------------------------------------------
(* Terminal states                                                         *)

\* No step of the state machine leaves evaluated or errored: a claim takes
\* only rows in a source state, and a result handler only a row in its
\* _start marker.
LEMMA JLTerminalStep ==
  ASSUME DOMAIN state = Jobs, [JL!JNext]_<<state, retries>>
  PROVE  \A j \in Jobs : state[j] \in {"evaluated", "errored"} =>
                         state'[j] = state[j]
<1> SUFFICES ASSUME NEW j \in Jobs, state[j] \in {"evaluated", "errored"}
             PROVE  state'[j] = state[j]
  OBVIOUS
<1>1. ASSUME NEW o \in JL!Steps, NEW S \in SUBSET Jobs, JL!Claim(o, S)
      PROVE  state'[j] = state[j]
  <2>1. j \notin S
    BY <1>1 DEF JL!Claim, JL!Claimable, JL!Source, JL!Steps
  <2>. QED
    BY <1>1, <2>1 DEF JL!Claim
<1>2. ASSUME NEW k \in Jobs, JL!CompileDone(k) \/ JL!EvalDone(k)
      PROVE  state'[j] = state[j]
  <2>1. k # j
    BY <1>2 DEF JL!CompileDone, JL!EvalDone
  <2>. QED
    BY <1>2, <2>1 DEF JL!CompileDone, JL!EvalDone
<1>3. CASE UNCHANGED <<state, retries>>
  BY <1>3
<1>. QED
  BY <1>1, <1>2, <1>3 DEF JL!JNext

\* TerminalStable, checked by pipeline_safety, holds for every number of
\* rows and drivers when no fin result is delivered twice: once a row is
\* evaluated or errored, no claim of update_operation and no result
\* handler changes its state again (pipeline_redelivery_regress shows a
\* redelivered eval result doing so).  It follows from the refinement.
THEOREM TerminalStableHolds ==
  ASSUME MaxRedeliver = 0
  PROVE  Spec => TerminalStable
<1>1. Spec => [](IInv /\ ClaimsFiltered)
  BY OwnershipInvariant, ClaimsFilteredInvariant, PTL
<1>2. IInv /\ ClaimsFiltered /\ [Next]_vars =>
        [\A j \in Jobs : state[j] \in {"evaluated", "errored"} =>
                         state'[j] = state[j]]_vars
  <2>1. IInv => DOMAIN state = Jobs
    BY DEF IInv, TypeOK
  <2>. QED
    BY <2>1, RefinementStep, JLTerminalStep
<1>. QED
  BY <1>1, <1>2, PTL DEF Spec, TerminalStable

=============================================================================
