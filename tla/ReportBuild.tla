---------------------------- MODULE ReportBuild ----------------------------
(***************************************************************************)
(* From the outcome of a job to the report the API serves (_run_job,       *)
(* report.build, report.build_llm_summary).  A report is kept down to its  *)
(* status, its verdict, the errors it lists, and what its llm_summary      *)
(* tells the model that reads it.                                          *)
(***************************************************************************)

Terminal == {"completed", "failed", "timeout"}

Levels == {"benign", "suspicious", "malicious"}

\* Mutant: a missing observations.json is not noticed.
StatusIgnoresMissing(m, o) == CASE m = "error"   -> "failed"
                                [] m = "timeout" -> "timeout"
                                [] OTHER         -> o

\* Mutant: the worker's word is taken before run_worker's error is looked at.
StatusIgnoresError(m, o) == CASE m = "timeout" -> "timeout"
                              [] o = "none"    -> "failed"
                              [] OTHER         -> o

\* The status of a job from run_worker's metadata m and the observations o on disk.
JobStatus(m, o) == CASE m = "error"             -> "failed"
                     [] m = "timeout"           -> "timeout"
                     [] m = "ok" /\ o = "none"  -> "failed"
                     [] OTHER                   -> o

\* How a job ends: run_worker's metadata, the status in observations.json ("none" when it
\* cannot be read), whether a stage of the analysis failed (entrypoint's timed), and the level
\* the rules reach.  Observations of a worker that failed hold nothing but its error;
\* flows that fakenet saw may raise the level even then.
Outcomes == {o \in [meta : {"ok", "timeout", "error"}, obs : {"none", "failed", "completed"},
                    stageFailed : BOOLEAN, level : Levels] :
               o.stageFailed => o.obs = "completed"}

StageErrors(o) == IF o.stageFailed THEN {"stage"} ELSE {}

OrchestratorErrors(o) == IF o.meta = "error" THEN {"orchestrator"} ELSE {}

\* What llm_summary says: the level of the verdict, and the errors as "analysis gaps".
LlmSummary(level, errors) == [level |-> level, gaps |-> errors]

\* Mutant: the summary is not made again after the orchestrator's error was appended.
BuildOnce(o) ==
  [status  |-> JobStatus(o.meta, o.obs),
   level   |-> o.level,
   errors  |-> StageErrors(o) \cup OrchestratorErrors(o),
   summary |-> LlmSummary(o.level, StageErrors(o))]

\* report.build; then _run_job appends the orchestrator's error and makes the summary again.
Build(o) ==
  LET errors == StageErrors(o) \cup OrchestratorErrors(o)
  IN  [status  |-> JobStatus(o.meta, o.obs),
       level   |-> o.level,
       errors  |-> errors,
       summary |-> LlmSummary(o.level, errors)]

Reports == {Build(o) : o \in Outcomes}

Summaries == [level : Levels, gaps : SUBSET {"stage", "orchestrator"}]

\* A summary that gives its reader no reason to doubt the file.
ReadsBenign(s) == s.level = "benign" /\ s.gaps = {}
=============================================================================
