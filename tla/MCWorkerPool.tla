---------------------------- MODULE MCWorkerPool ----------------------------
EXTENDS WorkerPool, TLC

\* No config, one below and one above the 100-config boundary.
MCRowCounts == {0, 99, 100, 101}

\* A celery compile and eval step, a non-celery eval step, a session step
\* that is neither, and a name that is no fin step.
MCFinStepVals == {"miopen_find_compile", "miopen_find_eval", "find_eval",
                  "get_applicability", "not_a_step"}
MCValidFinSteps == MCFinStepVals \ {"not_a_step"}
MCEvalNamed == {"miopen_find_eval", "find_eval"}

=============================================================================
