------------------------- MODULE MIOpenTuningProofs -------------------------
(***************************************************************************)
(* Proofs about the MIOpen tuning pipeline, for every set of jobs and      *)
(* drivers, every batch size and every retry bound.                        *)
(***************************************************************************)
EXTENDS MIOpenTuning, TLAPS

USE ConstantsAssumption

-----------------------------------------------------------------------------
(* Type correctness                                                        *)

LEMMA InitTypeOK == Init => TypeOK
BY DEF Init, TypeOK, JobStates

\* A claim reads and locks rows, building contexts of type Ctx.
LEMMA SelectTypeOK ==
  ASSUME TypeOK, NEW d \in Drivers, Select(d)
  PROVE  TypeOK'
<1>1. PICK sel \in SUBSET Eligible(d) :
        /\ lock' = [j \in Jobs |-> IF j \in sel THEN d ELSE lock[j]]
        /\ batch' = [batch EXCEPT ![d] = {CtxOf(d, j) : j \in sel}]
  BY DEF Select
<1>2. sel \subseteq Jobs
  BY DEF Eligible
<1>3. \A j \in sel : CtxOf(d, j) \in Ctx
  BY <1>2 DEF TypeOK, CtxOf, Ctx
<1>4. batch' \in [Drivers -> SUBSET Ctx]
  BY <1>1, <1>3 DEF TypeOK
<1>5. lock' \in [Jobs -> Drivers \cup {NoDriver}]
  BY <1>1 DEF TypeOK
<1>6. QED
  BY <1>4, <1>5 DEF Select, TypeOK

LEMMA AbortTypeOK ==
  ASSUME TypeOK, NEW d \in Drivers, Abort(d)
  PROVE  TypeOK'
BY DEF Abort, TypeOK

LEMMA CommitTypeOK ==
  ASSUME TypeOK, NEW d \in Drivers, Commit(d)
  PROVE  TypeOK'
<1>1. SetState[StepOf[d]] \in JobStates
  BY DEF SetState, JobStates
<1>2. QED
  BY <1>1 DEF Commit, TypeOK

LEMMA DispatchTypeOK ==
  ASSUME TypeOK, NEW d \in Drivers,
         Dispatch(d) \/ SerializeFail(d) \/ EnqueueFail(d)
  PROVE  TypeOK'
BY DEF Dispatch, SerializeFail, EnqueueFail, TypeOK

LEMMA RunTypeOK ==
  ASSUME TypeOK, NEW c \in tasks, NEW p \in Payloads,
         Run(c, p) \/ RunRedelivered(c, p)
  PROVE  TypeOK'
<1>1. [ctx |-> c, payload |-> p] \in Result
  BY DEF TypeOK, Result
<1>2. QED
  BY <1>1 DEF Run, RunRedelivered, TypeOK

\* The result handlers write one row, named by a context of type Ctx.
LEMMA ProcessTypeOK ==
  ASSUME TypeOK, NEW r \in results,
         ProcessCompileResults(r) \/ ProcessEvalResults(r)
  PROVE  TypeOK'
<1>1. /\ r.ctx.job \in Jobs
      /\ r.ctx.retries \in Nat
  BY DEF TypeOK, Result, Ctx
<1>2. CASE ProcessCompileResults(r)
  BY <1>1, <1>2 DEF ProcessCompileResults, TypeOK, JobStates
<1>3. CASE ProcessEvalResults(r)
  BY <1>1, <1>3 DEF ProcessEvalResults, TypeOK, JobStates
<1>4. QED
  BY <1>2, <1>3

LEMMA NextTypeOK == TypeOK /\ [Next]_vars => TypeOK'
<1> SUFFICES ASSUME TypeOK, [Next]_vars PROVE TypeOK'
  OBVIOUS
<1>1. CASE \E d \in Drivers :
             \/ Select(d) \/ Abort(d) \/ Commit(d)
             \/ Dispatch(d) \/ SerializeFail(d) \/ EnqueueFail(d)
  BY <1>1, SelectTypeOK, AbortTypeOK, CommitTypeOK, DispatchTypeOK
<1>2. CASE \E c \in tasks, p \in Payloads : Run(c, p) \/ RunRedelivered(c, p)
  BY <1>2, RunTypeOK
<1>3. CASE \E r \in results : ProcessCompileResults(r) \/ ProcessEvalResults(r)
  BY <1>3, ProcessTypeOK
<1>4. CASE UNCHANGED vars
  BY <1>4 DEF vars, TypeOK
<1>5. QED
  BY <1>1, <1>2, <1>3, <1>4 DEF Next

\* The type invariant holds in every reachable state.
THEOREM TypeCorrect == Spec => []TypeOK
BY InitTypeOK, NextTypeOK, PTL DEF Spec


-----------------------------------------------------------------------------
(* Exclusive ownership and current snapshots                               *)

\* The states a claim marks are none of the states a claim reads from.
LEMMA SetStateNotFetched ==
  \A o1, o2 \in Ops : SetState[o1] \notin FetchState[o2]
BY DEF SetState, FetchState, Ops

LEMMA InitIInv == Init => IInv
BY InitTypeOK DEF Init, IInv, LockedClaims, LocksOfClaims, CommittedClaims,
                  SingleHolder, SnapshotsCurrent

\* A result handler writes only the row its context names, which no claim
\* transaction has locked, and consumes its result.
LEMMA ProcessFrame ==
  ASSUME TypeOK, NEW r \in results,
         ProcessCompileResults(r) \/ ProcessEvalResults(r)
  PROVE  /\ lock[r.ctx.job] = NoDriver
         /\ results' = results \ {r}
         /\ UNCHANGED <<lock, pc, batch, tasks>>
         /\ \A k \in Jobs : k # r.ctx.job =>
              state'[k] = state[k] /\ retries'[k] = retries[k]
<1>1. r.ctx.job \in Jobs
  BY DEF TypeOK, Result, Ctx
<1>2. CASE ProcessCompileResults(r)
  BY <1>1, <1>2 DEF ProcessCompileResults, TypeOK
<1>3. CASE ProcessEvalResults(r)
  BY <1>1, <1>3 DEF ProcessEvalResults, TypeOK
<1>4. QED
  BY <1>2, <1>3


\* A claim's SELECT returns rows that nobody holds: they are unlocked and in
\* a fetch state, while every committed or enqueued context's row is in a
\* set_state.
LEMMA SelectIInv ==
  ASSUME IInv, NEW d \in Drivers, Select(d)
  PROVE  IInv'
<1>1. PICK sel \in SUBSET Eligible(d) :
        /\ lock' = [j \in Jobs |-> IF j \in sel THEN d ELSE lock[j]]
        /\ batch' = [batch EXCEPT ![d] = {CtxOf(d, j) : j \in sel}]
  BY DEF Select
<1>2. /\ pc[d] = "idle"
      /\ pc' = [pc EXCEPT ![d] = "locked"]
      /\ UNCHANGED <<state, retries, tasks, results>>
  BY DEF Select
<1>3. batch[d] = {}
  BY <1>2 DEF IInv, CommittedClaims
<1>4. \A j \in sel : /\ j \in Jobs
                     /\ lock[j] = NoDriver
                     /\ state[j] \in FetchState[StepOf[d]]
  BY DEF Eligible
<1>5. TypeOK'
  BY SelectTypeOK DEF IInv
<1>6. \A j \in sel, d2 \in Drivers : \A c \in batch[d2] : c.job # j
  <2> SUFFICES ASSUME NEW j \in sel, NEW d2 \in Drivers, NEW c \in batch[d2],
                      c.job = j
               PROVE  FALSE
    OBVIOUS
  <2>1. c.op \in Ops /\ StepOf[d] \in Ops
    BY ConstantsAssumption DEF IInv, TypeOK, Ctx
  <2>2. CASE pc[d2] = "locked"
    BY <1>4, <2>2, ConstantsAssumption DEF IInv, LockedClaims
  <2>3. CASE pc[d2] = "dispatch"
    BY <1>4, <2>1, <2>3, SetStateNotFetched DEF IInv, CommittedClaims
  <2>4. QED
    BY <2>2, <2>3 DEF IInv, TypeOK, CommittedClaims
<1>7. \A j \in sel, c \in tasks \cup {r.ctx : r \in results} : c.job # j
  <2> SUFFICES ASSUME NEW j \in sel, NEW c \in tasks \cup {r.ctx : r \in results},
                      c.job = j
               PROVE  FALSE
    OBVIOUS
  <2>1. c.op \in Ops /\ StepOf[d] \in Ops
    BY ConstantsAssumption DEF IInv, TypeOK, Ctx, Result
  <2>2. QED
    BY <1>4, <2>1, SetStateNotFetched DEF IInv, SnapshotsCurrent
<1>8. LockedClaims'
  <2> SUFFICES ASSUME NEW d2 \in Drivers, pc'[d2] = "locked",
                      NEW c \in batch'[d2]
               PROVE  /\ lock'[c.job] = d2
                      /\ c.by = d2
                      /\ c.op = StepOf[d2]
                      /\ retries'[c.job] = c.retries
                      /\ state'[c.job] \in FetchState[c.op]
    BY DEF LockedClaims
  <2>1. CASE d2 = d
    <3>1. PICK j \in sel : c = CtxOf(d, j)
      BY <1>1, <2>1 DEF IInv, TypeOK
    <3>2. QED
      BY <1>1, <1>2, <1>4, <2>1, <3>1 DEF CtxOf
  <2>2. CASE d2 # d
    <3>1. pc[d2] = "locked" /\ c \in batch[d2]
      BY <1>1, <1>2, <2>2 DEF IInv, TypeOK
    <3>2. c.job \in Jobs /\ lock[c.job] = d2
      BY <3>1 DEF IInv, TypeOK, Ctx, LockedClaims
    <3>3. c.job \notin sel
      BY <1>4, <3>2, ConstantsAssumption
    <3>4. QED
      BY <1>1, <1>2, <3>1, <3>2, <3>3 DEF IInv, LockedClaims
  <2>3. QED
    BY <2>1, <2>2
<1>9. LocksOfClaims'
  <2> SUFFICES ASSUME NEW j \in Jobs, lock'[j] # NoDriver
               PROVE  /\ pc'[lock'[j]] = "locked"
                      /\ \E c \in batch'[lock'[j]] : c.job = j
    BY DEF LocksOfClaims
  <2>1. CASE j \in sel
    <3>1. lock'[j] = d /\ CtxOf(d, j) \in batch'[d]
      BY <1>1, <2>1 DEF IInv, TypeOK
    <3>2. QED
      BY <1>2, <3>1 DEF IInv, TypeOK, CtxOf
  <2>2. CASE j \notin sel
    <3>1. lock'[j] = lock[j] /\ lock[j] # NoDriver
      BY <1>1, <2>2
    <3>2. pc[lock[j]] = "locked" /\ lock[j] \in Drivers
      BY <3>1 DEF IInv, LocksOfClaims, TypeOK
    <3>3. lock[j] # d
      BY <1>2, <3>2
    <3>4. QED
      BY <1>1, <1>2, <3>1, <3>2, <3>3 DEF IInv, LocksOfClaims, TypeOK
  <2>3. QED
    BY <2>1, <2>2
<1>10. CommittedClaims'
  BY <1>1, <1>2 DEF IInv, TypeOK, CommittedClaims
<1>11. SingleHolder'
  <2>1. \A c \in batch'[d] : \E j \in sel : c = CtxOf(d, j)
    BY <1>1 DEF IInv, TypeOK
  <2>2. \A d2 \in Drivers \ {d} : batch'[d2] = batch[d2]
    BY <1>1 DEF IInv, TypeOK
  <2>3. \A j \in sel : CtxOf(d, j).job = j
    BY DEF CtxOf
  <2>4. QED
    BY <1>2, <1>6, <1>7, <2>1, <2>2, <2>3 DEF IInv, SingleHolder
<1>12. SnapshotsCurrent'
  BY <1>2 DEF IInv, SnapshotsCurrent
<1>13. QED
  BY <1>5, <1>8, <1>9, <1>10, <1>11, <1>12 DEF IInv


\* A rolled-back claim releases exactly its own locks and forgets its batch.
LEMMA AbortIInv ==
  ASSUME IInv, NEW d \in Drivers, Abort(d)
  PROVE  IInv'
<1>1. /\ pc[d] = "locked"
      /\ lock' = [j \in Jobs |-> IF lock[j] = d THEN NoDriver ELSE lock[j]]
      /\ batch' = [batch EXCEPT ![d] = {}]
      /\ pc' = [pc EXCEPT ![d] = "idle"]
      /\ UNCHANGED <<state, retries, tasks, results>>
  BY DEF Abort
<1>2. TypeOK'
  BY AbortTypeOK DEF IInv
<1>3. LockedClaims'
  <2> SUFFICES ASSUME NEW d2 \in Drivers, pc'[d2] = "locked",
                      NEW c \in batch'[d2]
               PROVE  /\ lock'[c.job] = d2
                      /\ c.by = d2
                      /\ c.op = StepOf[d2]
                      /\ retries'[c.job] = c.retries
                      /\ state'[c.job] \in FetchState[c.op]
    BY DEF LockedClaims
  <2>1. d2 # d /\ pc[d2] = "locked" /\ c \in batch[d2]
    BY <1>1 DEF IInv, TypeOK
  <2>2. c.job \in Jobs
    BY <2>1 DEF IInv, TypeOK, Ctx
  <2>3. QED
    BY <1>1, <2>1, <2>2 DEF IInv, LockedClaims
<1>4. LocksOfClaims'
  <2> SUFFICES ASSUME NEW j \in Jobs, lock'[j] # NoDriver
               PROVE  /\ pc'[lock'[j]] = "locked"
                      /\ \E c \in batch'[lock'[j]] : c.job = j
    BY DEF LocksOfClaims
  <2>1. lock[j] # d /\ lock[j] # NoDriver /\ lock'[j] = lock[j]
    BY <1>1
  <2>2. lock[j] \in Drivers
    BY <2>1 DEF IInv, TypeOK
  <2>3. QED
    BY <1>1, <2>1, <2>2 DEF IInv, LocksOfClaims, TypeOK
<1>5. CommittedClaims'
  BY <1>1 DEF IInv, TypeOK, CommittedClaims
<1>6. SingleHolder'
  <2>1. \A d2 \in Drivers : batch'[d2] \subseteq batch[d2]
    BY <1>1 DEF IInv, TypeOK
  <2>2. QED
    BY <1>1, <2>1 DEF IInv, SingleHolder
<1>7. SnapshotsCurrent'
  BY <1>1 DEF IInv, SnapshotsCurrent
<1>8. QED
  BY <1>2, <1>3, <1>4, <1>5, <1>6, <1>7 DEF IInv

\* The claim transaction's commit marks exactly the rows of its own batch:
\* the rows it locks are the rows of its contexts, and no other holder has
\* one of them.
LEMMA CommitIInv ==
  ASSUME IInv, NEW d \in Drivers, Commit(d)
  PROVE  IInv'
<1>1. /\ pc[d] = "locked"
      /\ state' = [j \in Jobs |-> IF lock[j] = d THEN SetState[StepOf[d]]
                                                 ELSE state[j]]
      /\ lock' = [j \in Jobs |-> IF lock[j] = d THEN NoDriver ELSE lock[j]]
      /\ pc' = [pc EXCEPT ![d] = "dispatch"]
      /\ UNCHANGED <<retries, batch, tasks, results>>
  BY DEF Commit
<1>2. TypeOK'
  BY CommitTypeOK DEF IInv
\* A row locked by d belongs to a context of d's batch, so to no other holder.
<1>3. ASSUME NEW j \in Jobs, lock[j] = d
      PROVE  /\ \A d2 \in Drivers \ {d} : \A c \in batch[d2] : c.job # j
             /\ \A c \in tasks \cup {r.ctx : r \in results} : c.job # j
  <2>1. PICK c0 \in batch[d] : c0.job = j
    BY <1>3 DEF IInv, LocksOfClaims
  <2>2. QED
    BY <2>1 DEF IInv, SingleHolder
<1>4. LockedClaims'
  <2> SUFFICES ASSUME NEW d2 \in Drivers, pc'[d2] = "locked",
                      NEW c \in batch'[d2]
               PROVE  /\ lock'[c.job] = d2
                      /\ c.by = d2
                      /\ c.op = StepOf[d2]
                      /\ retries'[c.job] = c.retries
                      /\ state'[c.job] \in FetchState[c.op]
    BY DEF LockedClaims
  <2>1. d2 # d /\ pc[d2] = "locked" /\ c \in batch[d2]
    BY <1>1 DEF IInv, TypeOK
  <2>2. c.job \in Jobs /\ lock[c.job] = d2
    BY <2>1 DEF IInv, TypeOK, Ctx, LockedClaims
  <2>3. QED
    BY <1>1, <2>1, <2>2 DEF IInv, LockedClaims
<1>5. LocksOfClaims'
  <2> SUFFICES ASSUME NEW j \in Jobs, lock'[j] # NoDriver
               PROVE  /\ pc'[lock'[j]] = "locked"
                      /\ \E c \in batch'[lock'[j]] : c.job = j
    BY DEF LocksOfClaims
  <2>1. lock[j] # d /\ lock[j] # NoDriver /\ lock'[j] = lock[j]
    BY <1>1
  <2>2. lock[j] \in Drivers
    BY <2>1 DEF IInv, TypeOK
  <2>3. QED
    BY <1>1, <2>1, <2>2 DEF IInv, LocksOfClaims, TypeOK
<1>6. CommittedClaims'
  <2> SUFFICES ASSUME NEW d2 \in Drivers
               PROVE  /\ pc'[d2] = "dispatch" =>
                           \A c \in batch'[d2] :
                             /\ state'[c.job] = SetState[c.op]
                             /\ retries'[c.job] = c.retries
                      /\ pc'[d2] \in {"idle", "stopped"} => batch'[d2] = {}
    BY DEF CommittedClaims
  <2>1. ASSUME NEW c \in batch[d]
        PROVE  state'[c.job] = SetState[c.op] /\ retries'[c.job] = c.retries
    <3>1. c.job \in Jobs /\ lock[c.job] = d /\ c.op = StepOf[d]
          /\ retries[c.job] = c.retries
      BY <1>1 DEF IInv, TypeOK, Ctx, LockedClaims
    <3>2. QED
      BY <1>1, <3>1
  <2>2. ASSUME d2 # d, pc[d2] = "dispatch", NEW c \in batch[d2]
        PROVE  state'[c.job] = SetState[c.op] /\ retries'[c.job] = c.retries
    <3>1. c.job \in Jobs
      BY DEF IInv, TypeOK, Ctx
    <3>2. lock[c.job] # d
      BY <1>3, <2>2, <3>1
    <3>3. QED
      BY <1>1, <2>2, <3>1, <3>2 DEF IInv, CommittedClaims
  <2>3. QED
    BY <1>1, <2>1, <2>2 DEF IInv, TypeOK, CommittedClaims
<1>7. SingleHolder'
  BY <1>1 DEF IInv, SingleHolder
<1>8. SnapshotsCurrent'
  <2> SUFFICES ASSUME NEW c \in tasks \cup {r.ctx : r \in results}
               PROVE  state'[c.job] = SetState[c.op] /\ retries'[c.job] = c.retries
    BY <1>1 DEF SnapshotsCurrent
  <2>1. c.job \in Jobs
    BY DEF IInv, TypeOK, Ctx, Result
  <2>2. lock[c.job] # d
    BY <1>3, <2>1
  <2>3. QED
    BY <1>1, <2>1, <2>2 DEF IInv, SnapshotsCurrent
<1>9. QED
  BY <1>2, <1>4, <1>5, <1>6, <1>7, <1>8 DEF IInv


\* Dispatching a committed batch, whole or in part, moves its contexts to
\* the queue with their snapshots still current; the driver keeps none.
LEMMA DispatchIInv ==
  ASSUME IInv, NEW d \in Drivers,
         Dispatch(d) \/ SerializeFail(d) \/ EnqueueFail(d)
  PROVE  IInv'
<1>1. PICK sent \in SUBSET batch[d] :
        /\ pc[d] = "dispatch"
        /\ tasks' = tasks \cup sent
        /\ batch' = [batch EXCEPT ![d] = {}]
        /\ pc' = [pc EXCEPT ![d] = IF pc'[d] = "idle" THEN "idle"
                                                      ELSE "stopped"]
        /\ pc'[d] \in {"idle", "stopped"}
        /\ UNCHANGED <<state, retries, lock, results>>
  <2>1. CASE Dispatch(d)
    <3>1. batch[d] \in SUBSET batch[d]
      OBVIOUS
    <3>2. QED
      BY <2>1, <3>1 DEF Dispatch, IInv, TypeOK
  <2>2. CASE SerializeFail(d)
    <3>1. {} \in SUBSET batch[d]
      OBVIOUS
    <3>2. QED
      BY <2>2, <3>1 DEF SerializeFail, IInv, TypeOK
  <2>3. CASE EnqueueFail(d)
    BY <2>3 DEF EnqueueFail, IInv, TypeOK
  <2>4. QED
    BY <2>1, <2>2, <2>3
<1>2. TypeOK'
  BY DispatchTypeOK DEF IInv
<1>3. \A d2 \in Drivers \ {d} : batch'[d2] = batch[d2] /\ pc'[d2] = pc[d2]
  BY <1>1 DEF IInv, TypeOK
<1>4. LockedClaims'
  BY <1>1, <1>3 DEF IInv, TypeOK, LockedClaims
<1>5. LocksOfClaims'
  <2> SUFFICES ASSUME NEW j \in Jobs, lock'[j] # NoDriver
               PROVE  /\ pc'[lock'[j]] = "locked"
                      /\ \E c \in batch'[lock'[j]] : c.job = j
    BY DEF LocksOfClaims
  <2>1. lock[j] \in Drivers /\ pc[lock[j]] = "locked" /\ lock'[j] = lock[j]
    BY <1>1 DEF IInv, TypeOK, LocksOfClaims
  <2>2. lock[j] # d
    BY <1>1, <2>1
  <2>3. QED
    BY <1>3, <2>1, <2>2 DEF IInv, LocksOfClaims
<1>6. CommittedClaims'
  BY <1>1, <1>3 DEF IInv, TypeOK, CommittedClaims
<1>7. SingleHolder'
  <2>1. \A c \in sent, d2 \in Drivers \ {d} : \A c2 \in batch[d2] : c.job # c2.job
    BY DEF IInv, SingleHolder
  <2>2. \A c1, c2 \in batch[d] : c1.job = c2.job => c1 = c2
    BY DEF IInv, SingleHolder
  <2>3. \A d2 \in Drivers : batch'[d2] \subseteq batch[d2]
    BY <1>1 DEF IInv, TypeOK
  <2>4. \A d1, d2 \in Drivers : \A c1 \in batch'[d1], c2 \in batch'[d2] :
          c1.job = c2.job => d1 = d2 /\ c1 = c2
    BY <2>3 DEF IInv, SingleHolder
  <2>5. \A d2 \in Drivers : \A c1 \in batch'[d2], c2 \in tasks' : c1.job # c2.job
    BY <1>1, <1>3, <2>1 DEF IInv, TypeOK, SingleHolder
  <2>6. \A d2 \in Drivers : \A c \in batch'[d2], r \in results' : c.job # r.ctx.job
    BY <1>1, <2>3 DEF IInv, SingleHolder
  <2>7. \A c \in tasks', r \in results' : c.job # r.ctx.job
    BY <1>1 DEF IInv, SingleHolder
  <2>8. \A c1, c2 \in tasks' : c1.job = c2.job => c1 = c2
    BY <1>1, <2>2 DEF IInv, SingleHolder
  <2>9. \A r1, r2 \in results' : r1.ctx.job = r2.ctx.job => r1 = r2
    BY <1>1 DEF IInv, SingleHolder
  <2>10. QED
    BY <2>4, <2>5, <2>6, <2>7, <2>8, <2>9 DEF SingleHolder
<1>8. SnapshotsCurrent'
  BY <1>1 DEF IInv, CommittedClaims, SnapshotsCurrent
<1>9. QED
  BY <1>2, <1>4, <1>5, <1>6, <1>7, <1>8 DEF IInv


\* A worker consumes its task and hands back a result for the same context.
LEMMA RunIInv ==
  ASSUME IInv, NEW c \in tasks, NEW p \in Payloads, Run(c, p)
  PROVE  IInv'
<1> DEFINE r0 == [ctx |-> c, payload |-> p]
<1>1. /\ tasks' = tasks \ {c}
      /\ results' = results \cup {r0}
      /\ UNCHANGED <<state, retries, lock, pc, batch>>
  BY DEF Run
<1>2. TypeOK'
  BY RunTypeOK DEF IInv
<1>3. \A c2 \in tasks \ {c} : c2.job # c.job
  BY DEF IInv, SingleHolder
<1>4. SingleHolder'
  <2>1. \A d \in Drivers : \A c1 \in batch'[d], r \in results' : c1.job # r.ctx.job
    BY <1>1 DEF IInv, SingleHolder
  <2>2. \A c1 \in tasks', r \in results' : c1.job # r.ctx.job
    BY <1>1, <1>3 DEF IInv, SingleHolder
  <2>3. \A r1, r2 \in results' : r1.ctx.job = r2.ctx.job => r1 = r2
    BY <1>1 DEF IInv, SingleHolder
  <2>4. QED
    BY <1>1, <2>1, <2>2, <2>3 DEF IInv, SingleHolder
<1>5. QED
  BY <1>1, <1>2, <1>4 DEF IInv, LockedClaims, LocksOfClaims, CommittedClaims,
                          SnapshotsCurrent

\* A result handler writes the one row its result names; the invariant
\* tells that no claim, task or other result holds that row.
LEMMA ProcessIInv ==
  ASSUME IInv, NEW r \in results,
         ProcessCompileResults(r) \/ ProcessEvalResults(r)
  PROVE  IInv'
<1> DEFINE j == r.ctx.job
<1>1. /\ lock[j] = NoDriver
      /\ results' = results \ {r}
      /\ UNCHANGED <<lock, pc, batch, tasks>>
      /\ \A k \in Jobs : k # j => state'[k] = state[k] /\ retries'[k] = retries[k]
  BY ProcessFrame DEF IInv
<1>2. TypeOK'
  BY ProcessTypeOK DEF IInv
<1>3. /\ \A d \in Drivers : \A c \in batch[d] : c.job \in Jobs /\ c.job # j
      /\ \A c \in tasks : c.job \in Jobs /\ c.job # j
      /\ \A r2 \in results \ {r} : r2.ctx.job \in Jobs /\ r2.ctx.job # j
  BY DEF IInv, TypeOK, SingleHolder, Ctx, Result
<1>4. LockedClaims'
  BY <1>1, <1>3 DEF IInv, LockedClaims
<1>5. LocksOfClaims'
  BY <1>1 DEF IInv, LocksOfClaims
<1>6. CommittedClaims'
  BY <1>1, <1>3 DEF IInv, CommittedClaims
<1>7. SingleHolder'
  BY <1>1 DEF IInv, SingleHolder
<1>8. SnapshotsCurrent'
  BY <1>1, <1>3 DEF IInv, SnapshotsCurrent
<1>9. QED
  BY <1>2, <1>4, <1>5, <1>6, <1>7, <1>8 DEF IInv

\* Without redelivery, every step of the pipeline preserves the invariant.
LEMMA NextIInv ==
  ASSUME MaxRedeliver = 0
  PROVE  IInv /\ [Next]_vars => IInv'
<1> SUFFICES ASSUME IInv, [Next]_vars PROVE IInv'
  OBVIOUS
<1>1. CASE \E d \in Drivers :
             \/ Select(d) \/ Abort(d) \/ Commit(d)
             \/ Dispatch(d) \/ SerializeFail(d) \/ EnqueueFail(d)
  BY <1>1, SelectIInv, AbortIInv, CommitIInv, DispatchIInv
<1>2. CASE \E c \in tasks, p \in Payloads : Run(c, p) \/ RunRedelivered(c, p)
  <2>1. \A c \in tasks, p \in Payloads : ~RunRedelivered(c, p)
    BY DEF IInv, TypeOK, RunRedelivered
  <2>2. QED
    BY <1>2, <2>1, RunIInv
<1>3. CASE \E r \in results : ProcessCompileResults(r) \/ ProcessEvalResults(r)
  BY <1>3, ProcessIInv
<1>4. CASE UNCHANGED vars
  BY <1>4 DEF vars, IInv, TypeOK, LockedClaims, LocksOfClaims,
              CommittedClaims, SingleHolder, SnapshotsCurrent
<1>5. QED
  BY <1>1, <1>2, <1>3, <1>4 DEF Next

\* When celery delivers every task once, the claim protocol's invariant
\* holds in every reachable state.
THEOREM OwnershipInvariant ==
  ASSUME MaxRedeliver = 0
  PROVE  Spec => []IInv
BY InitIInv, NextIInv, PTL DEF Spec

\* The invariant gives the two properties the runs check: a row has one
\* owner, and the snapshot a result handler writes from is current.
LEMMA IInvOwnership == IInv => ExclusiveOwnership /\ SnapshotsCurrent
<1> SUFFICES ASSUME IInv PROVE ExclusiveOwnership /\ SnapshotsCurrent
  OBVIOUS
<1>1. ExclusiveOwnership
  <2> SUFFICES ASSUME NEW c1 \in Held, NEW c2 \in Held, c1.job = c2.job
               PROVE  c1 = c2
    BY DEF ExclusiveOwnership
  <2> DEFINE InBatch(c) == \E d \in Drivers : c \in batch[d]
              InResults(c) == \E r \in results : c = r.ctx
  <2>1. InBatch(c1) \/ c1 \in tasks \/ InResults(c1)
    BY DEF Held, InBatch, InResults
  <2>2. InBatch(c2) \/ c2 \in tasks \/ InResults(c2)
    BY DEF Held, InBatch, InResults
  <2>3. CASE InBatch(c1)
    <3>1. CASE InBatch(c2)
      BY <2>3, <3>1 DEF IInv, SingleHolder, InBatch, InResults
    <3>2. CASE c2 \in tasks
      BY <2>3, <3>2 DEF IInv, SingleHolder, InBatch, InResults
    <3>3. CASE InResults(c2)
      BY <2>3, <3>3 DEF IInv, SingleHolder, InBatch, InResults
    <3>4. QED
      BY <2>2, <3>1, <3>2, <3>3
  <2>4. CASE c1 \in tasks
    <3>1. CASE InBatch(c2)
      BY <2>4, <3>1 DEF IInv, SingleHolder, InBatch, InResults
    <3>2. CASE c2 \in tasks
      BY <2>4, <3>2 DEF IInv, SingleHolder, InBatch, InResults
    <3>3. CASE InResults(c2)
      BY <2>4, <3>3 DEF IInv, SingleHolder, InBatch, InResults
    <3>4. QED
      BY <2>2, <3>1, <3>2, <3>3
  <2>5. CASE InResults(c1)
    <3>1. CASE InBatch(c2)
      BY <2>5, <3>1 DEF IInv, SingleHolder, InBatch, InResults
    <3>2. CASE c2 \in tasks
      BY <2>5, <3>2 DEF IInv, SingleHolder, InBatch, InResults
    <3>3. CASE InResults(c2)
      BY <2>5, <3>3 DEF IInv, SingleHolder, InBatch, InResults
    <3>4. QED
      BY <2>2, <3>1, <3>2, <3>3
  <2>6. QED
    BY <2>1, <2>3, <2>4, <2>5
<1>2. QED
  BY <1>1 DEF IInv

\* No double claim: without redelivery, however drivers, workers and the
\* result handler interleave, each row is owned by at most one context.
THEOREM ExclusiveOwnershipHolds ==
  ASSUME MaxRedeliver = 0
  PROVE  Spec => []ExclusiveOwnership
BY OwnershipInvariant, IInvOwnership, PTL

\* Without redelivery, the snapshot every result handler writes from is the
\* row's current state and retries.
THEOREM SnapshotsCurrentHolds ==
  ASSUME MaxRedeliver = 0
  PROVE  Spec => []SnapshotsCurrent
BY OwnershipInvariant, IInvOwnership, PTL

=============================================================================
