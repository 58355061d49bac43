---------------------------- MODULE JobLifecycle ----------------------------
(***************************************************************************)
(* What the job table promises about a row of a tuning session, whoever   *)
(* claims it and however the workers interleave: the job state machine of *)
(* the MIOpen tuning steps.  A claim moves a set of eligible rows at once *)
(* from the step's source states to its `_start` marker; ingesting a      *)
(* result moves a row out of the marker to the phase's success state or   *)
(* to errored, and an eval failure may send it back to compiled with one  *)
(* more retry, never up to the retry ceiling.                              *)
(*                                                                         *)
(* Nothing here says who claims, how results travel or in which order     *)
(* they arrive: MIOpenTuning adds the drivers, the row locks, the queue   *)
(* and the handlers, and is shown to implement this specification.        *)
(***************************************************************************)
EXTENDS Naturals

CONSTANTS
  Jobs,          \* the job rows of the session
  FinStepsOf,    \* the operations named in a row's fin_step column
  MaxJobRetries, \* the claim filter's bound on retries
  RetryCeiling   \* MAX_ERRORED_JOB_RETRIES of the eval result handler

VARIABLES
  st,     \* job.state of every row
  tries   \* job.retries of every row

jvars == <<st, tries>>

\* The operations of update_operation.
Steps == {"compile", "eval"}

\* The states a step claims rows from, and the marker it sets.
Source == [o \in Steps |-> IF o = "compile" THEN {"new"}
                                            ELSE {"new", "compiled"}]
Marker == [o \in Steps |-> IF o = "compile" THEN "compile_start"
                                            ELSE "eval_start"]

\* A row a claim of step o may take: in a source state of o, with o among
\* its fin steps and its retries under the claim filter's bound.
Claimable(o, j) ==
  /\ st[j] \in Source[o]
  /\ o \in FinStepsOf[j]
  /\ tries[j] < MaxJobRetries

\* A claim of step o marks a set of claimable rows, all in one commit.
Claim(o, S) ==
  /\ \A j \in S : Claimable(o, j)
  /\ st' = [j \in Jobs |-> IF j \in S THEN Marker[o] ELSE st[j]]
  /\ UNCHANGED tries

\* A compile result is ingested: the row is compiled or errored.
CompileDone(j) ==
  /\ st[j] = "compile_start"
  /\ \E s \in {"compiled", "errored"} : st' = [st EXCEPT ![j] = s]
  /\ UNCHANGED tries

\* An eval result is ingested: the row is evaluated or errored, or, after
\* a failure, goes back to compiled with one more retry when that retry
\* stays under the ceiling.
EvalDone(j) ==
  /\ st[j] = "eval_start"
  /\ \/ /\ \E s \in {"evaluated", "errored"} : st' = [st EXCEPT ![j] = s]
        /\ UNCHANGED tries
     \/ /\ tries[j] + 1 < RetryCeiling
        /\ st' = [st EXCEPT ![j] = "compiled"]
        /\ tries' = [tries EXCEPT ![j] = @ + 1]

\* Rows are loaded in state new with no retries.
JInit ==
  /\ st = [j \in Jobs |-> "new"]
  /\ tries = [j \in Jobs |-> 0]

JNext ==
  \/ \E o \in Steps, S \in SUBSET Jobs : Claim(o, S)
  \/ \E j \in Jobs : CompileDone(j) \/ EvalDone(j)

JSpec == JInit /\ [][JNext]_jvars

=============================================================================
