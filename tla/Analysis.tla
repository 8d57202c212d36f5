------------------------------ MODULE Analysis ------------------------------
(***************************************************************************)
(* One job from the start of its worker to the level of its report: the    *)
(* worker's run, what the orchestrator reads of it, the rules, the score.  *)
(***************************************************************************)
EXTENDS WorkerRun, Signatures, Scoring, ReportBuild

CONSTANTS MaxRuleErrors   \* bound: how many rules raise

ASSUME RulesAssumption == Findings = DOMAIN Rules /\ Severity = RuleSeverity

VARIABLES
  phase,       \* "worker", "rules" (evaluate), "weights" (score), "judged"
  asked,       \* the last rule that fired or raised
  ruleErrors,  \* the rules that raised
  meta,        \* of run_worker: "ok", "timeout"
  obs          \* the status read_observations found, "none" without the file

verdictVars == <<phase, asked, ruleErrors, meta, obs>>
vars == <<workerVars, nativeVars, unpackVars, scoreVars, fired, verdictVars>>

TypeOK ==
  /\ WorkerTypeOK /\ ScoreTypeOK
  /\ phase \in {"worker", "rules", "weights", "judged"}
  /\ asked \in 0..Len(Rules)
  /\ ruleErrors \subseteq Findings
  /\ meta \in {"ok", "timeout"}
  /\ obs \in {"none", "failed", "completed"}
  /\ phase = "judged" <=> level # "none"

Init ==
  /\ WorkerInit /\ ScoreInit
  /\ fired = {}
  /\ phase = "worker" /\ asked = 0 /\ ruleErrors = {}
  /\ meta = "ok" /\ obs = "none"

Working ==
  /\ phase = "worker"
  /\ WorkerStep
  /\ UNCHANGED <<scoreVars, fired, verdictVars>>

\* Features of the fake network's log, for a sample that ran.
NetFeatures == {"dns_queries", "http_requests", "http_body"} \cap Shown

\* run_worker removes the container; read_observations and collect_network follow.  Nothing
\* that was inside the container is there any more.
Collect ==
  /\ phase = "worker"
  /\ container \in {"exited", "killed", "overrun", "died"}
  /\ container' = "removed"
  /\ meta' = IF container \in {"killed", "overrun"} THEN "timeout" ELSE "ok"
  /\ obs' = IF output = "whole" THEN outcome ELSE "none"
  /\ \E flows \in SUBSET (IF run = "idle" THEN {} ELSE NetFeatures) :
       /\ "http_body" \in flows => "http_requests" \in flows
       /\ observed' = flows \cup IF output = "whole" THEN observed ELSE {}
  /\ errors' = IF output = "whole" THEN errors ELSE {}
  /\ phase' = "rules"
  /\ todo' = <<>> /\ fresh' = {} /\ clock' = 0 /\ outcome' = "none" /\ output' = "none"
  /\ run' = "idle" /\ alive' = {} /\ group' = {} /\ traced' = {} /\ trace' = <<>> /\ calls' = {}
  /\ timedOut' = FALSE /\ strayKill' = FALSE
  /\ layout' = (CHOOSE l \in Layouts : TRUE) /\ locked' = FALSE
  /\ unpack' = "idle" /\ stack' = <<>> /\ disk' = <<>> /\ children' = <<>> /\ cut' = {}
  /\ UNCHANGED <<sample, raised, scoreVars, fired, asked, ruleErrors>>

-----------------------------------------------------------------------------
(* evaluate and score.                                                     *)

\* The rules after the last one asked that have something to report.
Firing == {r \in Findings : r > asked /\ Fires(Rules[r], observed)}

Rest == UNCHANGED <<workerVars, nativeVars, unpackVars, meta, obs>>

\* The next rule in order of registration has something to report.
NextToReport(r) == phase = "rules" /\ r \in Firing /\ \A q \in Firing : r <= q

RuleFires ==
  \E r \in Findings :
    /\ NextToReport(r)
    /\ asked' = r
    /\ fired' = fired \cup {r}
    /\ UNCHANGED <<scoreVars, phase, ruleErrors>> /\ Rest

\* Mutant: an exception ends the loop.
RuleRaisesOut ==
  \E r \in Findings :
    /\ NextToReport(r) /\ Cardinality(ruleErrors) < MaxRuleErrors
    /\ asked' = Len(Rules)
    /\ ruleErrors' = ruleErrors \cup {r}
    /\ UNCHANGED <<scoreVars, fired, phase>> /\ Rest

\* A rule that raises leaves a RULE_ERROR, which counts for nothing.  One that raises where it
\* has nothing to report makes no other difference.
RuleRaises ==
  \E r \in Findings :
    /\ NextToReport(r) /\ Cardinality(ruleErrors) < MaxRuleErrors
    /\ asked' = r
    /\ ruleErrors' = ruleErrors \cup {r}
    /\ UNCHANGED <<scoreVars, fired, phase>> /\ Rest

Evaluated ==
  /\ phase = "rules" /\ Firing = {}
  /\ phase' = "weights"
  /\ left' = fired
  /\ UNCHANGED <<rank, remaining, level, fired, asked, ruleErrors>> /\ Rest

Weighing ==
  /\ phase = "weights" /\ Weigh
  /\ UNCHANGED <<phase, asked, ruleErrors>> /\ Rest

Judging ==
  /\ phase = "weights" /\ Judge
  /\ phase' = "judged"
  /\ UNCHANGED <<asked, ruleErrors>> /\ Rest

Verdict == RuleFires \/ RuleRaises \/ Evaluated \/ Weighing \/ Judging

Next == Working \/ Collect \/ Verdict

Spec == Init /\ [][Next]_vars

\* The worker's own Python code goes on or hangs, and every wait of the chain has a timeout:
\* those of run, execute and the reaping, and JOB_TIMEOUT, after which the container is
\* removed.  Of the sample's processes nothing is assumed.
FairSpec ==
  /\ Spec
  /\ WF_vars(/\ phase = "worker"
             /\ \/ /\ Triaged \/ Scanned \/ ToolReturns \/ NotWanted \/ Executed \/ UnpackedAll
                       \/ Conclude \/ OpenReport \/ Rename \/ Exits \/ Timeout \/ (Raises /\ run = "raised")
                   /\ UNCHANGED <<nativeVars, unpackVars>>
                \/ Unpacking /\ UNCHANGED nativeVars
             /\ UNCHANGED <<scoreVars, fired, verdictVars>>)
  /\ WF_vars(/\ phase = "worker"
             /\ Executing /\ run' \notin {run, "raised"}
             /\ UNCHANGED unpackVars
             /\ UNCHANGED <<scoreVars, fired, verdictVars>>)
  /\ WF_vars(Collect \/ Verdict)

-----------------------------------------------------------------------------
(* Properties.                                                             *)

\* A finding counts in full when it is the strongest, whatever else there is and whichever
\* other rule raised: one of 70 points is enough for "malicious" (signatures.py:713, :689).
StrongFindingConvicts ==
  phase = "judged" =>
    \A r \in Findings \ ruleErrors : Fires(Rules[r], observed) =>
      /\ Points(remaining) >= Rules[r].severity
      /\ Rules[r].severity >= 70 => level = "malicious"

\* A stage that raised is told in the errors of a completed report and so to the model that
\* reads the summary: benign without gaps means that every stage came to its end.
StageFailureTold ==
  phase = "judged" /\ JobStatus(meta, obs) = "completed" /\ raised # {} =>
    ~ReadsBenign(LlmSummary(level, errors))

Outcome == [meta |-> meta, obs |-> obs, stageFailed |-> errors # {}, level |-> level]

\* However the worker ends, the job ends in one of the ways from which the report is built: the
\* errors of its stages are on record together with an analysis that went on to its end, never
\* with one that failed, was killed or died.  So the reports that reach a caller (MailEvidence)
\* are all that a worker's run leads to.
OutcomeIsKnown == phase = "judged" => Outcome \in Outcomes

\* Whatever the sample and the tools do, the job gets its verdict.
AnalysisEnds == <>(phase = "judged")

\* "The worker writes incrementally, so partial evidence is usually still on disk"
\* (main.py:93): when JOB_TIMEOUT strikes, what the finished stages observed is there.
\* Violated.
EvidenceWrittenAsFound ==
  container \in {"killed", "overrun"} /\ observed # {} => output = "whole"
=============================================================================
