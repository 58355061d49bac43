--------------------------- MODULE RocMLIRWorker ---------------------------
(***************************************************************************)
(* The poll loop of the rocMLIR tuning worker (tuna/rocmlir/               *)
(* rocmlir_worker.py, RocMLIRWorker.step): each worker claims one job row  *)
(* in state new and marks it running (get_job), runs the tuning command    *)
(* inside a tenacity loop of three attempts, records the outcome in the    *)
(* row's state, and on success parses the output and inserts a result row *)
(* through session_retry.                                                  *)
(*                                                                         *)
(* The command's output and the parsed fields are abstracted to the        *)
(* outcome they lead to; the result table is the set of jobs that have a   *)
(* row in it (its unique key is (config, session), one per job).           *)
(***************************************************************************)
EXTENDS Naturals, FiniteSets

CONSTANTS
  Jobs,            \* the job rows of the session
  Workers,         \* worker processes polling the job table
  NoJob,           \* a worker that holds no job
  ConfigOf,        \* job.config, the claim order
  ParseOutcomes    \* what update_result_table can do with a good output

ASSUME WorkerAssumption ==
  /\ NoJob \notin Jobs
  /\ ConfigOf \in [Jobs -> Nat]
  /\ ParseOutcomes \subseteq {"row", "bad", "dberror", "raise"}

\* tenacity: stop_after_attempt(3)
STOP_AFTER_ATTEMPT == 3

\* rocmlir_tables.JobEnum
JobStates == {"new", "running", "completed", "error"}

VARIABLES
  jstate,     \* job.state of every row
  holder,     \* the job each worker is working on
  wpc,        \* where each worker is: polling or in an attempt
  attempt,    \* the tenacity attempt a worker is in
  rows        \* jobs with a row in the results table

wvars == <<jstate, holder, wpc, attempt, rows>>

-----------------------------------------------------------------------------

\* Mutant: the claim query without its state condition.
ClaimAnyState(w) ==
  /\ wpc[w] = "idle"
  /\ \E j \in Jobs :
       /\ jstate' = [jstate EXCEPT ![j] = "running"]
       /\ holder' = [holder EXCEPT ![w] = j]
  /\ wpc' = [wpc EXCEPT ![w] = "attempt"]
  /\ attempt' = [attempt EXCEPT ![w] = 1]
  /\ UNCHANGED rows

\* get_job("new", "running"): the locking claim of one row in state new,
\* first in config order, marked running and committed; step() then sets
\* 'running' again.  With no row to claim the worker sleeps and polls again.
Claim(w) ==
  /\ wpc[w] = "idle"
  /\ \E j \in Jobs :
       /\ jstate[j] = "new"
       /\ \A k \in Jobs : jstate[k] = "new" => ConfigOf[j] <= ConfigOf[k]
       /\ jstate' = [jstate EXCEPT ![j] = "running"]
       /\ holder' = [holder EXCEPT ![w] = j]
  /\ wpc' = [wpc EXCEPT ![w] = "attempt"]
  /\ attempt' = [attempt EXCEPT ![w] = 1]
  /\ UNCHANGED rows

\* The end of step(): the tenacity loop ended, the worker polls again.
Release(w, s) ==
  /\ jstate' = [jstate EXCEPT ![holder[w]] = s]
  /\ holder' = [holder EXCEPT ![w] = NoJob]
  /\ wpc' = [wpc EXCEPT ![w] = "idle"]
  /\ attempt' = [attempt EXCEPT ![w] = 0]

\* Mutant: step() without its broad except: the re-raised exception of
\* the third attempt ends the worker process with the row still claimed.
RaiseUncaught(w, s) ==
  \/ /\ attempt[w] < STOP_AFTER_ATTEMPT
     /\ jstate' = [jstate EXCEPT ![holder[w]] = s]
     /\ attempt' = [attempt EXCEPT ![w] = @ + 1]
     /\ UNCHANGED <<holder, wpc>>
  \/ /\ attempt[w] = STOP_AFTER_ATTEMPT
     /\ wpc' = [wpc EXCEPT ![w] = "dead"]
     /\ UNCHANGED <<jstate, holder, attempt>>

\* Mutant: the attempt bound compared with <= (a fourth attempt).
RaiseOffByOne(w, s) ==
  \/ /\ attempt[w] <= STOP_AFTER_ATTEMPT
     /\ jstate' = [jstate EXCEPT ![holder[w]] = s]
     /\ attempt' = [attempt EXCEPT ![w] = @ + 1]
     /\ UNCHANGED <<holder, wpc>>
  \/ /\ attempt[w] > STOP_AFTER_ATTEMPT
     /\ Release(w, "error")

\* An exception escapes the attempt: tenacity runs the attempt again, or
\* after the third one re-raises it to step()'s handler, which sets 'error'.
\* The row keeps whatever state the failed attempt wrote.
Raise(w, s) ==
  \/ /\ attempt[w] < STOP_AFTER_ATTEMPT
     /\ jstate' = [jstate EXCEPT ![holder[w]] = s]
     /\ attempt' = [attempt EXCEPT ![w] = @ + 1]
     /\ UNCHANGED <<holder, wpc>>
  \/ /\ attempt[w] = STOP_AFTER_ATTEMPT
     /\ Release(w, "error")

\* run_cmd raises ValueError (several configs match), or the command exits
\* non-zero: the row is set 'error' and the attempt ends normally.
RunFails(w) ==
  /\ wpc[w] = "attempt"
  /\ Release(w, "error")
  /\ UNCHANGED rows

\* run_cmd raises another exception (no tuningRunner.py, no config row,
\* the command cannot be started).
RunRaises(w) ==
  /\ wpc[w] = "attempt"
  /\ Raise(w, jstate[holder[w]])
  /\ UNCHANGED rows

\* process_result: session_retry calls update_result_table.  An
\* OperationalError is rolled back and retried, and after the last retry
\* session_retry returns False.  An IntegrityError also returns False.  Bad
\* data returns True before the insert.  Any other exception, such as one
\* from parse, is not caught and propagates to the tenacity attempt.
SessionRetry(out) ==
  CASE out = "row"               -> "stored"
    [] out \in {"bad", "dberror"} -> "returned"
    [] out = "raise"             -> "raised"

\* The command succeeds: the row is set 'completed' and process_result runs.
\* The parse outcome decides whether a result row is inserted and committed,
\* process_result returns without one, or the exception ends the attempt.
RunSucceeds(w) ==
  LET j == holder[w] IN
  /\ wpc[w] = "attempt"
  /\ \E out \in ParseOutcomes :
       \/ /\ SessionRetry(out) = "stored"
          /\ Release(w, "completed")
          /\ rows' = rows \cup {j}
       \/ /\ SessionRetry(out) = "returned"
          /\ Release(w, "completed")
          /\ UNCHANGED rows
       \/ /\ SessionRetry(out) = "raised"
          /\ Raise(w, "completed")
          /\ UNCHANGED rows

WInit ==
  /\ jstate = [j \in Jobs |-> "new"]
  /\ holder = [w \in Workers |-> NoJob]
  /\ wpc = [w \in Workers |-> "idle"]
  /\ attempt = [w \in Workers |-> 0]
  /\ rows = {}

WNext ==
  \E w \in Workers :
    \/ Claim(w) \/ RunFails(w) \/ RunRaises(w) \/ RunSucceeds(w)

WSpec == WInit /\ [][WNext]_wvars

\* The worker processes keep stepping.
WFairSpec ==
  /\ WSpec
  /\ \A w \in Workers : WF_wvars(Claim(w) \/ RunFails(w) \/ RunRaises(w)
                                 \/ RunSucceeds(w))

-----------------------------------------------------------------------------
(* Properties                                                              *)

WTypeOK ==
  /\ jstate \in [Jobs -> JobStates]
  /\ holder \in [Workers -> Jobs \cup {NoJob}]
  /\ wpc \in [Workers -> {"idle", "attempt", "dead"}]
  /\ attempt \in [Workers -> 0..STOP_AFTER_ATTEMPT]
  /\ rows \subseteq Jobs

\* One worker per job: however the workers' claims interleave, no two
\* workers work on the same row, and the row a worker holds stays running,
\* or completed while a raised attempt is retried, until it lets go of it.
ExclusiveClaim ==
  /\ \A u, v \in Workers : holder[u] = holder[v] /\ holder[u] # NoJob => u = v
  /\ \A w \in Workers :
       holder[w] # NoJob => jstate[holder[w]] \in {"running", "completed"}

\* The inductive form of ExclusiveClaim: a worker is idle exactly when it
\* holds no job, and no worker ever dies (step() catches every exception
\* tenacity re-raises), so every claim is made by a worker with empty hands
\* of a row nobody holds.
WInv ==
  /\ WTypeOK
  /\ ExclusiveClaim
  /\ \A w \in Workers : /\ wpc[w] # "dead"
                       /\ (holder[w] = NoJob <=> wpc[w] = "idle")

\* A stored result is final: once update_result_table has committed a
\* job's result row, the job stays completed and no worker holds it again.
\* A retried attempt or another worker's claim never runs a job whose
\* result is already in the table, or marks it error or running.
ResultRowFinal ==
  \A j \in rows : /\ jstate[j] = "completed"
                  /\ \A w \in Workers : holder[w] # j

\* Every job is eventually done with, its outcome recorded as completed or
\* error and no worker on it: step() never leaves a claimed job unresolved,
\* whatever the command and the parse do.
JobsResolved ==
  \A j \in Jobs :
    <>(jstate[j] \in {"completed", "error"} /\ \A w \in Workers : holder[w] # j)

\* Spec section 4.6: a parse failure after a successful run is tolerated:
\* the job remains completed and is not run again.
CompletedIsFinal ==
  [][\A j \in Jobs : jstate[j] = "completed" => jstate'[j] = "completed"]_wvars

=============================================================================
