------------------------------ MODULE LoadJob ------------------------------
(***************************************************************************)
(* Job loading (tuna/miopen/subcmd/load_job.py, add_jobs): each load_job   *)
(* process reads the (config, solver) pairs already in the job table for   *)
(* its session and fin_step (pre_ex), adds a job row for every applicable  *)
(* pair not in pre_ex and commits them at once; when that commit fails     *)
(* with an IntegrityError it rolls back, resets its count and adds the     *)
(* jobs again one by one, each in its own commit, skipping the ones that   *)
(* fail.  Several load_job processes may run against the same session.     *)
(*                                                                         *)
(* A pair is a model value; the job table is the number of rows per pair. *)
(***************************************************************************)
EXTENDS Naturals, FiniteSets

CONSTANTS
  Loaders,     \* concurrent load_job processes
  Pairs,       \* the (config, solver) pairs of the session (a query result)
  PairsOf,     \* each loader's applicable pairs (compose_query of its args)
  Preloaded,   \* pairs with a job row before the loaders start
  UniqueKey    \* whether the job table has a unique key over the pair

ASSUME LoadJobAssumption ==
  /\ IsFiniteSet(Pairs)
  /\ PairsOf \in [Loaders -> SUBSET Pairs]
  /\ Preloaded \subseteq Pairs
  /\ UniqueKey \in BOOLEAN

VARIABLES
  jobRows,   \* job rows per pair
  lpc,       \* where each loader is in add_jobs
  preEx,     \* each loader's pre_ex: the pairs it read as existing
  todo,      \* pairs the one-by-one loop has still to go through
  counts,    \* each loader's counts
  added      \* history: rows each loader really inserted

lvars == <<jobRows, lpc, preEx, todo, counts, added>>

-----------------------------------------------------------------------------

\* The store rejects a row whose pair already has one (IntegrityError).
Rejected(p) == UniqueKey /\ jobRows[p] > 0

\* The job query of add_jobs builds pre_ex from the rows of the session.
ReadExisting(l) ==
  /\ lpc[l] = "start"
  /\ preEx' = [preEx EXCEPT ![l] = {p \in Pairs : jobRows[p] > 0}]
  /\ lpc' = [lpc EXCEPT ![l] = "bulk"]
  /\ UNCHANGED <<jobRows, todo, counts, added>>

\* Mutant: the fallback breaks out instead of retrying one by one.
BulkCommitNoFallback(l) ==
  LET new == PairsOf[l] \ preEx[l] IN
  /\ lpc[l] = "bulk"
  /\ IF \E p \in new : Rejected(p)
       THEN /\ counts' = [counts EXCEPT ![l] = 0]
            /\ UNCHANGED <<jobRows, todo, added>>
       ELSE /\ jobRows' = [p \in Pairs |-> IF p \in new THEN jobRows[p] + 1
                                                       ELSE jobRows[p]]
            /\ counts' = [counts EXCEPT ![l] = Cardinality(new)]
            /\ added' = [added EXCEPT ![l] = Cardinality(new)]
            /\ UNCHANGED todo
  /\ lpc' = [lpc EXCEPT ![l] = "done"]
  /\ UNCHANGED preEx

\* Mutant: the fallback does not reset counts.
BulkCommitNoReset(l) ==
  LET new == PairsOf[l] \ preEx[l] IN
  /\ lpc[l] = "bulk"
  /\ counts' = [counts EXCEPT ![l] = Cardinality(new)]
  /\ IF \E p \in new : Rejected(p)
       THEN /\ lpc' = [lpc EXCEPT ![l] = "one"]
            /\ todo' = [todo EXCEPT ![l] = PairsOf[l]]
            /\ UNCHANGED <<jobRows, added>>
       ELSE /\ jobRows' = [p \in Pairs |-> IF p \in new THEN jobRows[p] + 1
                                                       ELSE jobRows[p]]
            /\ added' = [added EXCEPT ![l] = Cardinality(new)]
            /\ lpc' = [lpc EXCEPT ![l] = "done"]
            /\ UNCHANGED todo
  /\ UNCHANGED preEx

\* The first pass (do_commit False): every pair not in pre_ex is added to
\* the session and counted, then one commit inserts them all, or fails as
\* a whole on a row rejected by the store; then counts is reset and the
\* loop starts over with do_commit True.
BulkCommit(l) ==
  LET new == PairsOf[l] \ preEx[l] IN
  /\ lpc[l] = "bulk"
  /\ IF \E p \in new : Rejected(p)
       THEN /\ counts' = [counts EXCEPT ![l] = 0]
            /\ lpc' = [lpc EXCEPT ![l] = "one"]
            /\ todo' = [todo EXCEPT ![l] = PairsOf[l]]
            /\ UNCHANGED <<jobRows, added>>
       ELSE /\ jobRows' = [p \in Pairs |-> IF p \in new THEN jobRows[p] + 1
                                                       ELSE jobRows[p]]
            /\ counts' = [counts EXCEPT ![l] = Cardinality(new)]
            /\ added' = [added EXCEPT ![l] = Cardinality(new)]
            /\ lpc' = [lpc EXCEPT ![l] = "done"]
            /\ UNCHANGED todo
  /\ UNCHANGED preEx

\* One turn of the one-by-one pass: a pair in pre_ex is skipped; otherwise
\* the job is added and committed, and counted, or rolled back on an
\* IntegrityError.  pre_ex is the one read before the first pass.
AddOne(l) ==
  /\ lpc[l] = "one"
  /\ \E p \in todo[l] :
       /\ todo' = [todo EXCEPT ![l] = @ \ {p}]
       /\ IF p \in preEx[l] \/ Rejected(p)
            THEN UNCHANGED <<jobRows, counts, added>>
            ELSE /\ jobRows' = [jobRows EXCEPT ![p] = @ + 1]
                 /\ counts' = [counts EXCEPT ![l] = @ + 1]
                 /\ added' = [added EXCEPT ![l] = @ + 1]
  /\ UNCHANGED <<lpc, preEx>>

\* The one-by-one pass is over: add_jobs returns counts.
FinishOne(l) ==
  /\ lpc[l] = "one"
  /\ todo[l] = {}
  /\ lpc' = [lpc EXCEPT ![l] = "done"]
  /\ UNCHANGED <<jobRows, preEx, todo, counts, added>>

LInit ==
  /\ jobRows = [p \in Pairs |-> IF p \in Preloaded THEN 1 ELSE 0]
  /\ lpc = [l \in Loaders |-> "start"]
  /\ preEx = [l \in Loaders |-> {}]
  /\ todo = [l \in Loaders |-> {}]
  /\ counts = [l \in Loaders |-> 0]
  /\ added = [l \in Loaders |-> 0]

LNext ==
  \E l \in Loaders :
    ReadExisting(l) \/ BulkCommit(l) \/ AddOne(l) \/ FinishOne(l)

LSpec == LInit /\ [][LNext]_lvars

-----------------------------------------------------------------------------
(* Properties                                                              *)

LTypeOK ==
  /\ jobRows \in [Pairs -> Nat]
  /\ lpc \in [Loaders -> {"start", "bulk", "one", "done"}]
  /\ preEx \in [Loaders -> SUBSET Pairs]
  /\ todo \in [Loaders -> SUBSET Pairs]
  /\ counts \in [Loaders -> Nat]
  /\ added \in [Loaders -> Nat]

AllDone == \A l \in Loaders : lpc[l] = "done"

\* "New jobs added: N" is true: however the loaders interleave and whichever
\* pass a loader ends in, the count add_jobs returns is the number of rows
\* it inserted.
CountsExact == \A l \in Loaders : lpc[l] = "done" => counts[l] = added[l]

\* Once every loader has returned, every pair applicable to one of them has
\* exactly one job row: a failed bulk commit loses no job and adds none
\* twice, whichever loader's rows it collided with.
LoadedExactlyOnce ==
  AllDone => \A p \in UNION {PairsOf[l] : l \in Loaders} : jobRows[p] = 1

\* The inductive form of CountsExact and LoadedExactlyOnce.  counts and
\* the rows really inserted agree at every point of add_jobs, not only at
\* its return, and nothing is inserted before the first commit; with the
\* unique key no pair ever has two rows; every pair a loader read into
\* pre_ex, went through in the one-by-one pass, or loaded before
\* returning has a row (rows are never deleted).
LInv ==
  /\ LTypeOK
  /\ \A l \in Loaders : counts[l] = added[l]
  /\ \A l \in Loaders : lpc[l] \in {"start", "bulk"} => added[l] = 0
  /\ UniqueKey => \A p \in Pairs : jobRows[p] <= 1
  /\ \A l \in Loaders :
       /\ lpc[l] # "start" => \A p \in preEx[l] : jobRows[p] >= 1
       /\ lpc[l] = "one" => \A p \in PairsOf[l] \ todo[l] : jobRows[p] >= 1
       /\ lpc[l] = "done" => \A p \in PairsOf[l] : jobRows[p] >= 1

=============================================================================
