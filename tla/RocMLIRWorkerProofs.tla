------------------------- MODULE RocMLIRWorkerProofs -------------------------
(***************************************************************************)
(* Proofs about the rocMLIR worker loop, for any sets of jobs and workers  *)
(* and any claim order.  The main result is ExclusiveClaim: no two         *)
(* workers hold the same row, and a held row stays running, or completed  *)
(* while a raised attempt is retried.  ExclusiveClaim alone is not        *)
(* inductive: a claim by a worker that still held a job, or by a dead one, *)
(* would break it.  WInv adds that a worker is idle exactly when it holds *)
(* no job and that no worker dies, and is proved inductive.                *)
(***************************************************************************)
EXTENDS RocMLIRWorker, TLAPS

USE WorkerAssumption

\* The initial state satisfies the inductive invariant.
LEMMA InitWInv == WInit => WInv
BY DEF WInit, WInv, WTypeOK, ExclusiveClaim, JobStates, STOP_AFTER_ATTEMPT

\* A claim takes the first new row for a worker with empty hands.
LEMMA ClaimWInv ==
  ASSUME WInv, NEW w \in Workers, Claim(w)
  PROVE  WInv'
<1> PICK j \in Jobs :
      /\ jstate[j] = "new"
      /\ jstate' = [jstate EXCEPT ![j] = "running"]
      /\ holder' = [holder EXCEPT ![w] = j]
  BY DEF Claim
<1>1. holder[w] = NoJob
  BY DEF Claim, WInv
<1>2. \A v \in Workers : holder[v] # j
  BY DEF WInv, ExclusiveClaim
<1>3. WTypeOK'
  BY DEF Claim, WInv, WTypeOK, JobStates, STOP_AFTER_ATTEMPT
<1>4. ExclusiveClaim'
  BY <1>1, <1>2, WorkerAssumption DEF Claim, WInv, WTypeOK, ExclusiveClaim
<1>5. (\A v \in Workers : /\ wpc[v] # "dead"
                          /\ (holder[v] = NoJob <=> wpc[v] = "idle"))'
  BY WorkerAssumption DEF Claim, WInv, WTypeOK
<1>. QED
  BY <1>3, <1>4, <1>5 DEF WInv

\* The end of step() for worker w: its row takes outcome s and it goes back
\* to polling.
LEMMA ReleaseWInv ==
  ASSUME WInv, NEW w \in Workers, wpc[w] = "attempt",
         NEW s \in JobStates, Release(w, s), UNCHANGED rows
  PROVE  WInv'
<1>1. holder[w] \in Jobs
  BY DEF WInv, WTypeOK
<1>2. \A v \in Workers : v # w => holder[v] # holder[w]
  BY <1>1, WorkerAssumption DEF WInv, ExclusiveClaim
<1>3. WTypeOK'
  BY <1>1 DEF Release, WInv, WTypeOK, STOP_AFTER_ATTEMPT
<1>4. ExclusiveClaim'
  BY <1>1, <1>2 DEF Release, WInv, WTypeOK, ExclusiveClaim
<1>5. (\A v \in Workers : /\ wpc[v] # "dead"
                          /\ (holder[v] = NoJob <=> wpc[v] = "idle"))'
  BY <1>1 DEF Release, WInv, WTypeOK
<1>. QED
  BY <1>3, <1>4, <1>5 DEF WInv

\* A raised attempt: retried with the row in a state a held row may have,
\* or, after the third attempt, handed to step()'s handler.
LEMMA RaiseWInv ==
  ASSUME WInv, NEW w \in Workers, wpc[w] = "attempt",
         NEW s \in {"running", "completed"}, Raise(w, s), UNCHANGED rows
  PROVE  WInv'
<1>1. holder[w] \in Jobs
  BY DEF WInv, WTypeOK
<1>2. CASE attempt[w] = STOP_AFTER_ATTEMPT /\ Release(w, "error")
  BY <1>2, ReleaseWInv DEF JobStates
<1>3. CASE /\ attempt[w] < STOP_AFTER_ATTEMPT
           /\ jstate' = [jstate EXCEPT ![holder[w]] = s]
           /\ attempt' = [attempt EXCEPT ![w] = @ + 1]
           /\ UNCHANGED <<holder, wpc>>
  <2>1. WTypeOK'
    BY <1>1, <1>3 DEF WInv, WTypeOK, JobStates, STOP_AFTER_ATTEMPT
  <2>2. ExclusiveClaim'
    BY <1>1, <1>3 DEF WInv, WTypeOK, ExclusiveClaim
  <2>3. (\A v \in Workers : /\ wpc[v] # "dead"
                            /\ (holder[v] = NoJob <=> wpc[v] = "idle"))'
    BY <1>3 DEF WInv
  <2>. QED
    BY <2>1, <2>2, <2>3 DEF WInv
<1>. QED
  BY <1>2, <1>3 DEF Raise

\* Every step of a worker keeps the inductive invariant.
LEMMA NextWInv == WInv /\ [WNext]_wvars => WInv'
<1> SUFFICES ASSUME WInv, [WNext]_wvars PROVE WInv'
  OBVIOUS
<1>1. CASE UNCHANGED wvars
  BY <1>1 DEF wvars, WInv, WTypeOK, ExclusiveClaim
<1>2. ASSUME NEW w \in Workers, wpc[w] = "attempt"
      PROVE  jstate[holder[w]] \in {"running", "completed"}
  BY <1>2 DEF WInv, WTypeOK, ExclusiveClaim
<1>3. ASSUME NEW w \in Workers, Claim(w) PROVE WInv'
  BY <1>3, ClaimWInv
<1>4. ASSUME NEW w \in Workers, RunFails(w) PROVE WInv'
  BY <1>4, ReleaseWInv DEF RunFails, JobStates
<1>5. ASSUME NEW w \in Workers, RunRaises(w) PROVE WInv'
  BY <1>2, <1>5, RaiseWInv DEF RunRaises
<1>6. ASSUME NEW w \in Workers, RunSucceeds(w) PROVE WInv'
  <2>1. wpc[w] = "attempt"
    BY <1>6 DEF RunSucceeds
  <2>. PICK out \in ParseOutcomes :
         \/ /\ SessionRetry(out) = "stored"
            /\ Release(w, "completed")
            /\ rows' = rows \cup {holder[w]}
         \/ /\ SessionRetry(out) = "returned"
            /\ Release(w, "completed")
            /\ UNCHANGED rows
         \/ /\ SessionRetry(out) = "raised"
            /\ Raise(w, "completed")
            /\ UNCHANGED rows
    BY <1>6 DEF RunSucceeds
  <2>2. holder[w] \in Jobs
    BY <2>1 DEF WInv, WTypeOK
  <2>3. CASE Release(w, "completed") /\ rows' = rows \cup {holder[w]}
    \* The result row is one more job in the results table.
    <3>3. WTypeOK'
      BY <2>1, <2>2, <2>3 DEF Release, WInv, WTypeOK, JobStates,
                              STOP_AFTER_ATTEMPT
    <3>4. ExclusiveClaim'
      BY <2>2, <2>3, WorkerAssumption DEF Release, WInv, WTypeOK,
                                           ExclusiveClaim
    <3>5. (\A v \in Workers : /\ wpc[v] # "dead"
                              /\ (holder[v] = NoJob <=> wpc[v] = "idle"))'
      BY <2>2, <2>3 DEF Release, WInv, WTypeOK
    <3>. QED
      BY <3>3, <3>4, <3>5 DEF WInv
  <2>4. CASE Release(w, "completed") /\ UNCHANGED rows
    BY <2>1, <2>4, ReleaseWInv DEF JobStates
  <2>5. CASE Raise(w, "completed") /\ UNCHANGED rows
    BY <2>1, <2>5, RaiseWInv
  <2>. QED
    BY <2>3, <2>4, <2>5
<1>. QED
  BY <1>1, <1>3, <1>4, <1>5, <1>6 DEF WNext

\* ExclusiveClaim, checked by the rocmlir run on two workers and three
\* rows, holds for any number of workers and rows: however get_job's
\* claims and step()'s releases interleave, a row has at most one worker,
\* and the row a worker holds is running, or completed between attempts.
THEOREM ExclusiveClaimHolds == WSpec => [](WTypeOK /\ ExclusiveClaim)
<1>1. WInit => WInv
  BY InitWInv
<1>2. WInv /\ [WNext]_wvars => WInv'
  BY NextWInv
<1>3. WInv => WTypeOK /\ ExclusiveClaim
  BY DEF WInv
<1>. QED
  BY <1>1, <1>2, <1>3, PTL DEF WSpec

\* The strengthened invariant WInv, checked by the rocmlir run, holds in
\* every reachable state: no worker process ends while holding a row.
THEOREM WorkerInvariant == WSpec => []WInv
BY InitWInv, NextWInv, PTL DEF WSpec

\* WTypeOK, checked by the rocmlir run: every job row's state is one of
\* JobEnum's, every worker holds a job or none and is in at most its third
\* tenacity attempt, and the results table holds rows of the session's
\* jobs only.
THEOREM WTypeCorrect == WSpec => []WTypeOK
<1>1. WInv => WTypeOK
  BY DEF WInv
<1>. QED
  BY <1>1, WorkerInvariant, PTL

-----------------------------------------------------------------------------
(* Stored results are final.                                               *)

\* The row a worker is attempting has no result row yet.
LEMMA HeldNotStored ==
  ASSUME WInv, ResultRowFinal, NEW w \in Workers, wpc[w] = "attempt"
  PROVE  holder[w] \in Jobs \ rows
BY DEF WInv, WTypeOK, ResultRowFinal

\* The end of step() for a row without a result row leaves every stored
\* result alone.
LEMMA ReleaseResultRowFinal ==
  ASSUME WInv, ResultRowFinal, NEW w \in Workers, wpc[w] = "attempt",
         NEW s \in JobStates, Release(w, s), UNCHANGED rows
  PROVE  ResultRowFinal'
<1>1. holder[w] \in Jobs \ rows
  BY HeldNotStored
<1>. QED
  BY <1>1 DEF Release, ResultRowFinal, WInv, WTypeOK

\* A raised attempt writes only the state of the row the worker holds.
LEMMA RaiseResultRowFinal ==
  ASSUME WInv, ResultRowFinal, NEW w \in Workers, wpc[w] = "attempt",
         NEW s \in JobStates, Raise(w, s), UNCHANGED rows
  PROVE  ResultRowFinal'
<1>1. holder[w] \in Jobs \ rows
  BY HeldNotStored
<1>2. CASE attempt[w] = STOP_AFTER_ATTEMPT /\ Release(w, "error")
  BY <1>2, ReleaseResultRowFinal DEF JobStates
<1>3. CASE /\ attempt[w] < STOP_AFTER_ATTEMPT
           /\ jstate' = [jstate EXCEPT ![holder[w]] = s]
           /\ UNCHANGED holder
  BY <1>1, <1>3 DEF ResultRowFinal, WInv, WTypeOK
<1>. QED
  BY <1>2, <1>3 DEF Raise

\* Every step keeps stored results final: get_job claims only new rows,
\* and the result row is inserted as its job is released completed.
LEMMA NextResultRowFinal ==
  WInv /\ ResultRowFinal /\ [WNext]_wvars => ResultRowFinal'
<1> SUFFICES ASSUME WInv, ResultRowFinal, [WNext]_wvars
             PROVE  ResultRowFinal'
  OBVIOUS
<1>1. CASE UNCHANGED wvars
  BY <1>1 DEF wvars, ResultRowFinal
<1>2. ASSUME NEW w \in Workers, Claim(w) PROVE ResultRowFinal'
  <2> PICK j \in Jobs :
        /\ jstate[j] = "new"
        /\ jstate' = [jstate EXCEPT ![j] = "running"]
        /\ holder' = [holder EXCEPT ![w] = j]
    BY <1>2 DEF Claim
  <2>1. j \notin rows
    BY DEF ResultRowFinal
  <2>. QED
    BY <2>1, <1>2 DEF Claim, ResultRowFinal, WInv, WTypeOK
<1>3. ASSUME NEW w \in Workers, RunFails(w) PROVE ResultRowFinal'
  BY <1>3, ReleaseResultRowFinal DEF RunFails, JobStates
<1>4. ASSUME NEW w \in Workers, RunRaises(w) PROVE ResultRowFinal'
  <2>1. jstate[holder[w]] \in JobStates
    BY <1>4 DEF RunRaises, WInv, WTypeOK
  <2>. QED
    BY <1>4, <2>1, RaiseResultRowFinal DEF RunRaises
<1>5. ASSUME NEW w \in Workers, RunSucceeds(w) PROVE ResultRowFinal'
  <2>1. wpc[w] = "attempt"
    BY <1>5 DEF RunSucceeds
  <2>. PICK out \in ParseOutcomes :
         \/ /\ SessionRetry(out) = "stored"
            /\ Release(w, "completed")
            /\ rows' = rows \cup {holder[w]}
         \/ /\ SessionRetry(out) = "returned"
            /\ Release(w, "completed")
            /\ UNCHANGED rows
         \/ /\ SessionRetry(out) = "raised"
            /\ Raise(w, "completed")
            /\ UNCHANGED rows
    BY <1>5 DEF RunSucceeds
  <2>2. holder[w] \in Jobs \ rows
    BY <2>1, HeldNotStored
  <2>3. CASE Release(w, "completed") /\ rows' = rows \cup {holder[w]}
    \* The new result row's job is released completed; the worker lets go
    \* of it and no other worker holds it.
    <3>1. \A v \in Workers : v # w => holder[v] # holder[w]
      BY <2>2, WorkerAssumption DEF WInv, ExclusiveClaim
    <3>. QED
      BY <2>2, <2>3, <3>1, WorkerAssumption
         DEF Release, ResultRowFinal, WInv, WTypeOK
  <2>4. CASE Release(w, "completed") /\ UNCHANGED rows
    BY <2>1, <2>4, ReleaseResultRowFinal DEF JobStates
  <2>5. CASE Raise(w, "completed") /\ UNCHANGED rows
    BY <2>1, <2>5, RaiseResultRowFinal DEF JobStates
  <2>. QED
    BY <2>3, <2>4, <2>5
<1>. QED
  BY <1>1, <1>2, <1>3, <1>4, <1>5 DEF WNext

\* ResultRowFinal, checked by the rocmlir run, holds for any number of
\* workers and rows and any parse outcomes: a job whose result row
\* session_retry committed is never claimed, retried or marked again.
THEOREM ResultRowFinalHolds == WSpec => []ResultRowFinal
<1>1. WInit => WInv /\ ResultRowFinal
  BY InitWInv DEF WInit, ResultRowFinal
<1>2. WInv /\ ResultRowFinal /\ [WNext]_wvars => (WInv /\ ResultRowFinal)'
  BY NextWInv, NextResultRowFinal
<1>. QED
  BY <1>1, <1>2, PTL DEF WSpec

=============================================================================
