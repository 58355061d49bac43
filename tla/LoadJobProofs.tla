---------------------------- MODULE LoadJobProofs ----------------------------
(***************************************************************************)
(* Proofs about add_jobs run by any number of load_job processes over any *)
(* finite set of (config, solver) pairs.  CountsExact and                  *)
(* LoadedExactlyOnce speak only of returned loaders, so neither is         *)
(* inductive: LInv states what holds at every point of add_jobs (counts   *)
(* equal to the inserts so far, no insert before the first commit, rows   *)
(* for every pair already gone through) and is proved inductive.          *)
(* LoadedExactlyOnce needs the job table's unique key: without it two     *)
(* loaders that read pre_ex before either commits insert the same pair    *)
(* twice, as TLC shows with UniqueKey = FALSE.                             *)
(***************************************************************************)
EXTENDS LoadJob, FiniteSetTheorems, TLAPS

USE LoadJobAssumption

\* What the first pass of loader l counts: a subset of the finite set of
\* pairs, so a natural number.
LEMMA NewCardinality ==
  ASSUME NEW l \in Loaders, preEx \in [Loaders -> SUBSET Pairs]
  PROVE  Cardinality(PairsOf[l] \ preEx[l]) \in Nat
<1>1. PairsOf[l] \ preEx[l] \in SUBSET Pairs
  OBVIOUS
<1>2. IsFiniteSet(PairsOf[l] \ preEx[l])
  BY <1>1, FS_Subset
<1>. QED
  BY <1>2, FS_CardinalityType

\* The initial state satisfies the inductive invariant.
LEMMA InitLInv == LInit => LInv
BY DEF LInit, LInv, LTypeOK

\* Reading pre_ex records only pairs that have a row.
LEMMA ReadExistingLInv ==
  ASSUME LInv, NEW l \in Loaders, ReadExisting(l)
  PROVE  LInv'
BY DEF ReadExisting, LInv, LTypeOK

\* The first pass: the bulk commit inserts every pair not in pre_ex into an
\* empty slot, or fails as a whole and starts the one-by-one pass.
LEMMA BulkCommitLInv ==
  ASSUME LInv, NEW l \in Loaders, BulkCommit(l)
  PROVE  LInv'
<1> DEFINE new == PairsOf[l] \ preEx[l]
<1>1. Cardinality(new) \in Nat
  BY NewCardinality DEF LInv, LTypeOK
<1>2. CASE \E p \in new : Rejected(p)
  <2>1. /\ counts' = [counts EXCEPT ![l] = 0]
        /\ lpc' = [lpc EXCEPT ![l] = "one"]
        /\ todo' = [todo EXCEPT ![l] = PairsOf[l]]
        /\ UNCHANGED <<jobRows, added, preEx>>
        /\ lpc[l] = "bulk"
    BY <1>2 DEF BulkCommit
  <2>. QED
    BY <2>1 DEF LInv, LTypeOK
<1>3. CASE ~\E p \in new : Rejected(p)
  <2>1. /\ jobRows' = [p \in Pairs |-> IF p \in new THEN jobRows[p] + 1
                                                   ELSE jobRows[p]]
        /\ counts' = [counts EXCEPT ![l] = Cardinality(new)]
        /\ added' = [added EXCEPT ![l] = Cardinality(new)]
        /\ lpc' = [lpc EXCEPT ![l] = "done"]
        /\ UNCHANGED <<todo, preEx>>
    BY <1>3 DEF BulkCommit
  <2>2. lpc[l] = "bulk"
    BY DEF BulkCommit
  <2>3. UniqueKey => \A p \in new : jobRows[p] = 0
    BY <1>3 DEF Rejected, LInv, LTypeOK
  <2>4. \A p \in Pairs : jobRows'[p] >= jobRows[p]
    BY <2>1 DEF LInv, LTypeOK
  <2>5. LTypeOK'
    BY <1>1, <2>1 DEF LInv, LTypeOK
  <2>6. (UniqueKey => \A p \in Pairs : jobRows[p] <= 1)'
    BY <2>1, <2>3 DEF LInv, LTypeOK
  <2>7. \A p \in PairsOf[l] : jobRows'[p] >= 1
    BY <2>1, <2>2 DEF LInv, LTypeOK
  <2>8. ASSUME NEW k \in Loaders
        PROVE  (/\ lpc[k] # "start" => \A p \in preEx[k] : jobRows[p] >= 1
                /\ lpc[k] = "one" => \A p \in PairsOf[k] \ todo[k] : jobRows[p] >= 1
                /\ lpc[k] = "done" => \A p \in PairsOf[k] : jobRows[p] >= 1)'
    <3>1. lpc[k] # "start" => \A p \in preEx[k] : jobRows'[p] >= 1
      <4>1. lpc[k] # "start" => \A p \in preEx[k] : p \in Pairs /\ jobRows[p] >= 1
        BY DEF LInv, LTypeOK
      <4>. QED
        BY <4>1, <2>1, <2>4 DEF LInv, LTypeOK
    <3>2. CASE k = l
      BY <3>1, <3>2, <2>1, <2>2, <2>5, <2>7 DEF LInv, LTypeOK
    <3>3. CASE k # l
      <4>1. lpc'[k] = lpc[k] /\ todo'[k] = todo[k] /\ preEx'[k] = preEx[k]
        BY <3>3, <2>1 DEF LInv, LTypeOK
      <4>2. \A p \in PairsOf[k] : p \in Pairs
        OBVIOUS
      <4>3. ASSUME lpc'[k] = "one", NEW p \in PairsOf[k] \ todo'[k]
            PROVE  jobRows'[p] >= 1
        <5>1. lpc[k] = "one" /\ p \in PairsOf[k] \ todo[k]
          BY <4>1, <4>3
        <5>2. p \in Pairs /\ jobRows[p] >= 1
          BY <5>1 DEF LInv
        <5>. QED
          BY <5>2, <2>4, <2>5 DEF LInv, LTypeOK
      <4>4. ASSUME lpc'[k] = "done", NEW p \in PairsOf[k]
            PROVE  jobRows'[p] >= 1
        <5>1. lpc[k] = "done"
          BY <4>1, <4>4
        <5>2. p \in Pairs /\ jobRows[p] >= 1
          BY <5>1, <4>2 DEF LInv
        <5>. QED
          BY <5>2, <2>4, <2>5 DEF LInv, LTypeOK
      <4>. QED
        BY <3>1, <4>1, <4>3, <4>4
    <3>. QED
      BY <3>2, <3>3
  <2>. QED
    BY <2>1, <2>5, <2>6, <2>8 DEF LInv, LTypeOK
<1>. QED
  BY <1>2, <1>3

\* One turn of the one-by-one pass: a skipped pair already has a row, an
\* inserted one gets its first row and is counted.
LEMMA AddOneLInv ==
  ASSUME LInv, NEW l \in Loaders, AddOne(l)
  PROVE  LInv'
<1>1. lpc[l] = "one" /\ UNCHANGED <<lpc, preEx>>
  BY DEF AddOne
<1> PICK p \in todo[l] :
      /\ todo' = [todo EXCEPT ![l] = @ \ {p}]
      /\ IF p \in preEx[l] \/ Rejected(p)
           THEN UNCHANGED <<jobRows, counts, added>>
           ELSE /\ jobRows' = [jobRows EXCEPT ![p] = @ + 1]
                /\ counts' = [counts EXCEPT ![l] = @ + 1]
                /\ added' = [added EXCEPT ![l] = @ + 1]
  BY DEF AddOne
<1>2. p \in Pairs
  BY DEF LInv, LTypeOK
<1>3. CASE p \in preEx[l] \/ Rejected(p)
  <2>1. jobRows[p] >= 1
    BY <1>1, <1>2, <1>3 DEF Rejected, LInv, LTypeOK
  <2>. QED
    BY <1>1, <1>3, <2>1 DEF LInv, LTypeOK
<1>4. CASE ~(p \in preEx[l] \/ Rejected(p))
  <2>1. UniqueKey => jobRows[p] = 0
    BY <1>2, <1>4 DEF Rejected, LInv, LTypeOK
  <2>. QED
    BY <1>1, <1>2, <1>4, <2>1 DEF LInv, LTypeOK
<1>. QED
  BY <1>3, <1>4

\* The one-by-one pass ends when every applicable pair has been gone
\* through.
LEMMA FinishOneLInv ==
  ASSUME LInv, NEW l \in Loaders, FinishOne(l)
  PROVE  LInv'
BY DEF FinishOne, LInv, LTypeOK

\* Every step of every loader keeps the inductive invariant.
LEMMA NextLInv == LInv /\ [LNext]_lvars => LInv'
<1> SUFFICES ASSUME LInv, [LNext]_lvars PROVE LInv'
  OBVIOUS
<1>1. CASE UNCHANGED lvars
  BY <1>1 DEF lvars, LInv, LTypeOK
<1>2. CASE LNext
  BY <1>2, ReadExistingLInv, BulkCommitLInv, AddOneLInv, FinishOneLInv
     DEF LNext
<1>. QED
  BY <1>1, <1>2

\* The inductive invariant holds in every reachable state, whatever the
\* number of loaders, their pairs and the pairs loaded before.
THEOREM LoaderInvariant == LSpec => []LInv
BY InitLInv, NextLInv, PTL DEF LSpec

\* CountsExact, checked by the load_job run on three loaders: for any
\* number of concurrent loaders, the "New jobs added" count add_jobs
\* returns is the number of rows it inserted, on either pass.
THEOREM CountsExactHolds == LSpec => []CountsExact
<1>1. LInv => CountsExact
  BY DEF LInv, CountsExact
<1>. QED
  BY <1>1, LoaderInvariant, PTL

\* LoadedExactlyOnce, checked by the load_job run: with the job table's
\* unique key, once every load_job process has returned, each pair
\* applicable to one of them has exactly one job row, however their reads
\* of pre_ex and their commits interleave.
THEOREM LoadedExactlyOnceHolds ==
  ASSUME UniqueKey
  PROVE  LSpec => []LoadedExactlyOnce
<1>1. LInv => LoadedExactlyOnce
  <2> SUFFICES ASSUME LInv, AllDone,
                      NEW p \in UNION {PairsOf[l] : l \in Loaders}
               PROVE  jobRows[p] = 1
    BY DEF LoadedExactlyOnce
  <2>1. PICK l \in Loaders : p \in PairsOf[l]
    OBVIOUS
  <2>2. jobRows[p] >= 1
    BY <2>1 DEF AllDone, LInv
  <2>. QED
    BY <2>2 DEF LInv, LTypeOK
<1>. QED
  BY <1>1, LoaderInvariant, PTL

=============================================================================
