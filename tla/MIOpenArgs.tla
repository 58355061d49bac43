----------------------------- MODULE MIOpenArgs -----------------------------
(***************************************************************************)
(* The command line of the MIOpen library (MIOpen.parse_args with the     *)
(* common arguments of parse_args.setup_arg_parser and args_check): which *)
(* command lines the parser lets through to go_fish.  A command line is   *)
(* abstracted to what the checks and the callers read: the option of the  *)
(* mutually exclusive group, the fin step named by --fin_steps, the       *)
(* subcommand, the flags, whether --session_id and --label were given,    *)
(* whether --blacklist names an unknown algorithm, and --gpu_lim.          *)
(***************************************************************************)
EXTENDS Naturals

CONSTANTS
  FinStepVals,   \* fin step names --fin_steps may carry
  ValidFinSteps, \* the members of FinStep (check_fin_args)
  EvalNamed,     \* fin steps whose name contains 'eval'
  GpuLims        \* values of --gpu_lim (0: not given)

\* The mutually exclusive group of parse_args; "none": no option of it.
GroupOps == {"none", "add_tables", "init_session", "fin_steps",
             "list_solvers", "update_solvers", "update_applicability",
             "check_status", "execute_cmd"}

\* The subcommands of run() that return None; load_job is the one that
\* has_tunable_operation and parse_args single out.
Subcommands == {"none", "load_job", "import_configs"}

\* metadata.py: MIOPEN_CELERY_STEPS.
CelerySteps == {"miopen_find_compile", "miopen_find_eval",
                "miopen_perf_compile", "miopen_perf_eval"}

\* parse_args: fin_session_steps.
FinSessionSteps == CelerySteps \cup {"get_applicability", "find_compile",
                                      "find_eval"}

\* A command line.  bare: no argument at all (len(sys.argv) == 1), so every
\* option has its default.
CmdLines ==
  {a \in [op : GroupOps, step : FinStepVals \cup {"none"}, sub : Subcommands,
          restart : BOOLEAN, shutdown : BOOLEAN, session : BOOLEAN,
          label : BOOLEAN, badBlacklist : BOOLEAN, gpuLim : GpuLims,
          bare : BOOLEAN] :
     /\ (a.op = "fin_steps") = (a.step # "none")
     /\ a.bare => /\ a.op = "none" /\ a.sub = "none" /\ a.gpuLim = 0
                  /\ ~(a.restart \/ a.shutdown \/ a.session \/ a.label
                       \/ a.badBlacklist)}

\* check_fin_args runs unless the subcommand is load_job: an unknown step
\* is a parser error.
CheckFinArgs(a) ==
  a.op = "fin_steps" /\ a.sub # "load_job" => a.step \in ValidFinSteps

\* args_check: a new session needs a label.
ArgsCheck(a) == a.op = "init_session" => a.label

\* has_fin: every element of args.fin_steps is a session step.  fin_steps
\* is split into a list only by check_fin_args; under load_job it is still
\* the string, whose elements are its characters, none of them a step.
HasFin(a) ==
  /\ a.op = "fin_steps"
  /\ a.sub # "load_job"
  /\ a.step \in FinSessionSteps

\* parse_args lets the command line through: no bare invocation (help and
\* sys.exit), no list_solvers (CustomError), a known fin step, a known
\* blacklist, args_check, and a session id for an applicability update or a
\* session fin step.  Every other outcome ends go_fish.
ParseOK(a) ==
  /\ ~a.bare
  /\ a.op # "list_solvers"
  /\ CheckFinArgs(a)
  /\ ~a.badBlacklist
  /\ ArgsCheck(a)
  /\ (a.op = "update_applicability" \/ HasFin(a)) => a.session

=============================================================================
