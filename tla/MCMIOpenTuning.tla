--------------------------- MODULE MCMIOpenTuning ---------------------------
(* Small instances of MIOpenTuning for TLC: three job rows, two of them on *)
(* the same config, a compile driver and two eval drivers.                 *)
EXTENDS MIOpenTuning, TLC

CONSTANTS j1, j2, j3, c1, e1, e2

MCJobs == {j1, j2, j3}
MCJobs2 == {j1, j3}

\* j1 and j2 are two solvers of config 1, j3 is the single job of config 2.
MCConfigOf == [j \in Jobs |-> IF j = j3 THEN 2 ELSE 1]

\* Rows loaded with fin_step 'miopen_find_compile,miopen_find_eval'.
MCFinStepsBoth == [j \in Jobs |-> {"compile", "eval"}]

\* Rows loaded for the eval step only.
MCFinStepsEval == [j \in Jobs |-> {"eval"}]

MCDrivers3 == {c1, e1, e2}
MCStepOf3 == (c1 :> "compile") @@ (e1 :> "eval") @@ (e2 :> "eval")

MCDriversCE == {c1, e1}
MCStepOfCE == (c1 :> "compile") @@ (e1 :> "eval")

MCDriversC == {c1}
MCStepOfC == (c1 :> "compile")

MCDriversE == {e1}
MCStepOfE == (e1 :> "eval")

=============================================================================
