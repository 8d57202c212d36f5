--------------------------- MODULE AnalysisProofs ---------------------------
(***************************************************************************)
(* Theorems about Analysis, for all samples, layouts, limits, and weights. *)
(***************************************************************************)
EXTENDS Analysis, FiniteSetTheorems, WellFoundedInduction, TLAPS

-----------------------------------------------------------------------------
\* A set of numbers has a least one: the induction of these proofs.
LEMMA LeastMember ==
  ASSUME NEW S \in SUBSET Nat, S # {}
  PROVE  \E x \in S : \A y \in S : x <= y
<1>1. PICK x \in S : \A y \in S : <<y, x>> \notin OpToRel(<, Nat)
  BY NatLessThanWellFounded, WFMin
<1>2. \A y \in S : ~ (y < x)
  BY <1>1 DEF OpToRel
<1> QED
  BY <1>2

-----------------------------------------------------------------------------
(* What a finding leaves.                                                  *)

\* The strongest finding counts in full.
LEMMA FirstCountsInFull ==
  ASSUME NEW s \in 0..100
  PROVE  Remains(Full, s, 0) = 1000 * (100 - s)
<1>1. Decay[0] = 10000
  BY DecayAssumption DEF DecayUnit
<1>2. (100000 * s) \div 100 = 1000 * s
  OBVIOUS
<1>3. (1000 * s * 10000) \div 10000 = 1000 * s
  OBVIOUS
<1> QED
  BY <1>1, <1>2, <1>3 DEF Remains, Full, DecayUnit

\* A share of a number is not more than the number.
LEMMA ShareWithin ==
  ASSUME NEW a \in Nat, NEW n \in Nat \ {0}, NEW b \in 0..n
  PROVE  (a * b) \div n \in 0..a
<1>1. a * b \in Nat /\ a * b <= a * n
  <2>1. PICK c \in Nat : n = b + c
    <3>1. n - b \in Nat /\ n = b + (n - b)
      OBVIOUS
    <3> QED
      BY <3>1
  <2>2. a * n = a * b + a * c
    BY <2>1
  <2>3. a * c \in Nat /\ a * b \in Nat
    BY <2>1
  <2> QED
    BY <2>2, <2>3
<1> DEFINE q == (a * b) \div n
<1>2. q \in Int /\ n * q <= a * b /\ a * b < n * q + n
  BY <1>1
<1>3. q >= 0
  <2> SUFFICES ASSUME q < 0 PROVE FALSE
    BY <1>2
  <2>1. q <= -1
    BY <1>2
  <2>2. n * q <= -n
    BY <2>1, <1>2
  <2> QED
    BY <2>2, <1>1, <1>2
<1>4. q <= a
  <2> SUFFICES ASSUME q > a PROVE FALSE
    BY <1>2
  <2>1. q >= a + 1
    BY <1>2
  <2>2. n * q >= n * a + n
    BY <2>1, <1>2
  <2> QED
    BY <2>2, <1>1, <1>2
<1> QED
  BY <1>2, <1>3, <1>4

\* Weighing takes something away, and not more than there is.
LEMMA RemainsLess ==
  ASSUME NEW rem \in 0..Full, NEW s \in 0..100, NEW r \in 0..Cardinality(Findings)
  PROVE  Remains(rem, s, r) \in 0..rem
<1> DEFINE share == (rem * s) \div 100
           part  == (share * Decay[r]) \div DecayUnit
<1>1. share \in 0..rem
  <2>1. rem \in Nat /\ 100 \in Nat \ {0}
    BY DEF Full
  <2> QED
    BY <2>1, ShareWithin, Zenon
<1>2. part \in 0..share
  <2>1. Decay[r] \in 0..DecayUnit
    BY DecayAssumption, Zenon
  <2>2. share \in Nat /\ DecayUnit \in Nat \ {0}
    BY <1>1 DEF Full, DecayUnit
  <2> QED
    BY <2>1, <2>2, ShareWithin, Zenon
<1>3. Remains(rem, s, r) = rem - part
  BY DEF Remains
<1> HIDE DEF share, part
<1> QED
  BY <1>1, <1>2, <1>3 DEF Full

\* What is left of a part of Full is a part of Full.
LEMMA WithinFull ==
  ASSUME NEW x \in 0..Full, NEW y \in 0..x
  PROVE  y \in 0..Full /\ y \in Int /\ x \in Int /\ y <= x
<1>1. x \in Int /\ 0 <= x /\ x <= Full /\ Full \in Int
  BY DEF Full
<1>2. y \in Int /\ 0 <= y /\ y <= x
  BY <1>1
<1> QED
  BY <1>1, <1>2

\* A finding that is no stronger than the one that left x would have left no less.
LEMMA StrongerLeavesLess ==
  ASSUME NEW s \in 0..100, NEW w \in 0..s, NEW x \in Int, x = 1000 * (100 - s)
  PROVE  x <= 1000 * (100 - w)
OBVIOUS

\* What is left never grows.
LEMMA LeavesLess ==
  ASSUME NEW s \in 0..100, NEW x \in Int, NEW y \in Int, y <= x, x <= 1000 * (100 - s)
  PROVE  y <= 1000 * (100 - s)
OBVIOUS

\* What s points leave is worth s points.
LEMMA PointsAtLeast ==
  ASSUME NEW s \in 0..100, NEW rem \in 0..Full, rem <= 1000 * (100 - s)
  PROVE  Points(rem) \in Int /\ Points(rem) >= s
BY DEF Points, Full

-----------------------------------------------------------------------------
(* A strong finding is enough.                                             *)

\* The rules up to the last one asked have had their say, and then all of them.
Heard(r) == Fires(Rules[r], observed) => r \in fired \cup ruleErrors

\* Once a finding has been weighed, none leaves more than if it stood alone.
Outweighed ==
  \/ rank = 0 /\ left = fired /\ remaining = Full
  \/ \A f \in fired : remaining <= 1000 * (100 - Severity[f])

VerdictInv ==
  /\ phase \in {"worker", "rules", "weights", "judged"}
  /\ asked \in Nat /\ rank \in Nat /\ remaining \in 0..Full
  /\ fired \subseteq Findings /\ left \subseteq fired
  /\ phase = "worker" => asked = 0
  /\ phase \in {"worker", "rules"} => left = {} /\ rank = 0 /\ remaining = Full
  /\ phase = "rules" => \A r \in Findings : r <= asked => Heard(r)
  /\ phase \in {"weights", "judged"} =>
       /\ \A r \in Findings : Heard(r)
       /\ rank + Cardinality(left) = Cardinality(fired)
       /\ Outweighed
  /\ phase = "judged" => left = {} /\ level = LevelOf(Points(remaining))

LEMMA SeverityInRange ==
  ASSUME NEW f \in Findings
  PROVE  Severity[f] \in 0..100 /\ Severity[f] = Rules[f].severity /\ f \in Nat /\ f > 0
BY SeverityAssumption, RulesAssumption, FindingsAssumption DEF RuleSeverity

LEMMA VerdictInit == Init => VerdictInv
BY DEF Init, ScoreInit, VerdictInv, Full

\* The worker has no part in the verdict.
LEMMA WorkingKeepsVerdict == VerdictInv /\ Working => VerdictInv'
BY DEF VerdictInv, Working, scoreVars, verdictVars

LEMMA CollectKeepsVerdict == VerdictInv /\ Collect => VerdictInv'
<1> SUFFICES ASSUME VerdictInv, Collect PROVE VerdictInv'
  OBVIOUS
<1>1. /\ phase = "worker" /\ phase' = "rules"
      /\ UNCHANGED <<left, rank, remaining, level, fired, asked, ruleErrors>>
  BY DEF Collect, scoreVars
<1>2. \A r \in Findings : ~(r <= asked')
  BY <1>1, SeverityInRange DEF VerdictInv
<1> QED
  BY <1>1, <1>2 DEF VerdictInv

\* A rule that fires or raises is the first of those with something to report: those before it
\* are silent.
LEMMA RuleKeepsVerdict == VerdictInv /\ (RuleFires \/ RuleRaises) => VerdictInv'
<1> SUFFICES ASSUME VerdictInv,
                    NEW r \in Findings, NextToReport(r), asked' = r,
                    \/ fired' = fired \cup {r} /\ ruleErrors' = ruleErrors
                    \/ fired' = fired /\ ruleErrors' = ruleErrors \cup {r},
                    UNCHANGED <<scoreVars, phase>>, Rest
             PROVE  VerdictInv'
  BY DEF RuleFires, RuleRaises
<1>1. /\ phase = "rules" /\ phase' = "rules" /\ UNCHANGED <<observed, left, rank, remaining>>
  BY DEF NextToReport, scoreVars, Rest, workerVars
<1>2. \A q \in Findings : q <= r => Heard(q)'
  <2> SUFFICES ASSUME NEW q \in Findings, q <= r, Fires(Rules[q], observed), q # r
               PROVE  q \in fired \cup ruleErrors
    BY <1>1 DEF Heard, Fires
  <2>1. q \in Nat /\ r \in Nat /\ asked \in Nat
    BY SeverityInRange DEF VerdictInv
  <2>2. ~(q > asked)
    BY <2>1 DEF NextToReport, Firing
  <2> QED
    BY <1>1, <2>1, <2>2 DEF VerdictInv, Heard
<1>3. r \in Nat
  BY SeverityInRange
<1> QED
  BY <1>1, <1>2, <1>3 DEF VerdictInv

LEMMA EvaluatedKeepsVerdict == VerdictInv /\ Evaluated => VerdictInv'
<1> SUFFICES ASSUME VerdictInv, Evaluated PROVE VerdictInv'
  OBVIOUS
<1>1. /\ phase = "rules" /\ Firing = {} /\ phase' = "weights" /\ left' = fired
      /\ UNCHANGED <<rank, remaining, level, fired, asked, ruleErrors, observed>>
  BY DEF Evaluated, Rest, workerVars
<1>2. \A r \in Findings : Heard(r)'
  <2> SUFFICES ASSUME NEW r \in Findings, Fires(Rules[r], observed)
               PROVE  r \in fired \cup ruleErrors
    BY <1>1 DEF Heard, Fires
  <2>1. r \in Nat /\ asked \in Nat
    BY SeverityInRange DEF VerdictInv
  <2>2. r <= asked
    BY <1>1, <2>1 DEF Firing
  <2> QED
    BY <1>1, <2>2 DEF VerdictInv, Heard
<1>3. Cardinality(fired) \in Nat
  BY FindingsAssumption, FS_Subset, FS_CardinalityType DEF VerdictInv
<1>4. rank = 0 /\ remaining = Full
  BY <1>1 DEF VerdictInv
<1> QED
  BY <1>1, <1>2, <1>3, <1>4 DEF VerdictInv, Outweighed

LEMMA WeighingKeepsVerdict == VerdictInv /\ Weighing => VerdictInv'
<1> SUFFICES ASSUME VerdictInv, phase = "weights",
                    NEW f \in left, \A g \in left : Before(f, g),
                    remaining' = Remains(remaining, Severity[f], rank),
                    rank' = rank + 1, left' = left \ {f},
                    UNCHANGED <<fired, level, phase, asked, ruleErrors>>, Rest
             PROVE  VerdictInv'
  BY DEF Weighing, Weigh
<1>1. f \in Findings /\ f \in fired
  BY DEF VerdictInv
<1>2. /\ IsFiniteSet(left) /\ IsFiniteSet(fired)
      /\ Cardinality(left) \in Nat /\ Cardinality(fired) \in Nat
      /\ Cardinality(left \ {f}) = Cardinality(left) - 1
      /\ Cardinality(fired) <= Cardinality(Findings) /\ Cardinality(Findings) \in Nat
  BY FindingsAssumption, FS_Subset, FS_CardinalityType, FS_RemoveElement DEF VerdictInv
<1>3. rank \in 0..Cardinality(Findings) /\ rank + 1 + Cardinality(left \ {f}) = Cardinality(fired)
  <2>1. rank \in Nat /\ rank + Cardinality(left) = Cardinality(fired)
    BY DEF VerdictInv
  <2> QED
    BY <1>2, <2>1
<1>4. remaining \in 0..Full /\ Severity[f] \in 0..100 /\ remaining' \in 0..remaining
  <2>1. remaining \in 0..Full /\ Severity[f] \in 0..100
    BY <1>1, SeverityInRange DEF VerdictInv
  <2> QED
    BY <1>3, <2>1, RemainsLess, Zenon
<1>5. remaining' \in 0..Full /\ remaining' \in Int /\ remaining \in Int /\ remaining' <= remaining
  BY <1>4, WithinFull, Zenon
<1>6. \A g \in fired : remaining' <= 1000 * (100 - Severity[g])
  <2> SUFFICES ASSUME NEW g \in fired
               PROVE  remaining' <= 1000 * (100 - Severity[g])
    OBVIOUS
  <2>1. g \in Findings /\ Severity[g] \in 0..100 /\ Severity[f] \in 0..100
    BY <1>1, SeverityInRange DEF VerdictInv
  <2>2. CASE rank = 0 /\ left = fired /\ remaining = Full
    <3>1. remaining' = 1000 * (100 - Severity[f])
      BY <2>1, <2>2, FirstCountsInFull
    <3>2. Before(f, g)
      BY <2>2
    <3>3. Severity[g] \in 0..Severity[f]
      BY <2>1, <3>2 DEF Before
    <3> QED
      BY <1>5, <2>1, <3>1, <3>3, StrongerLeavesLess
  <2>3. CASE \A h \in fired : remaining <= 1000 * (100 - Severity[h])
    <3>1. remaining <= 1000 * (100 - Severity[g])
      BY <2>3
    <3> QED
      BY <1>5, <2>1, <3>1, LeavesLess
  <2> QED
    BY <2>2, <2>3 DEF VerdictInv, Outweighed
<1>7. UNCHANGED observed
  BY DEF Rest, workerVars
<1> QED
  BY <1>3, <1>5, <1>6, <1>7 DEF VerdictInv, Outweighed, Heard, Fires

LEMMA JudgingKeepsVerdict == VerdictInv /\ Judging => VerdictInv'
<1> SUFFICES ASSUME VerdictInv, Judging PROVE VerdictInv'
  OBVIOUS
<1>1. /\ phase = "weights" /\ phase' = "judged" /\ left = {} /\ level' = LevelOf(Points(remaining))
      /\ UNCHANGED <<rank, remaining, left, fired, asked, ruleErrors, observed>>
  BY DEF Judging, Judge, Rest, workerVars
<1>2. Points(remaining)' = Points(remaining) /\ Outweighed' = Outweighed
  BY <1>1 DEF Points, Outweighed
<1> QED
  BY <1>1, <1>2 DEF VerdictInv, Heard, Fires, LevelOf

LEMMA VerdictNext == VerdictInv /\ [Next]_vars => VerdictInv'
<1> SUFFICES ASSUME VerdictInv, [Next]_vars PROVE VerdictInv'
  OBVIOUS
<1>1. CASE Working
  BY <1>1, WorkingKeepsVerdict
<1>2. CASE Collect
  BY <1>2, CollectKeepsVerdict
<1>3. CASE RuleFires \/ RuleRaises
  BY <1>3, RuleKeepsVerdict
<1>4. CASE Evaluated
  BY <1>4, EvaluatedKeepsVerdict
<1>5. CASE Weighing
  BY <1>5, WeighingKeepsVerdict
<1>6. CASE Judging
  BY <1>6, JudgingKeepsVerdict
<1>7. CASE UNCHANGED vars
  BY <1>7 DEF VerdictInv, vars, scoreVars, verdictVars, workerVars, Heard, Fires, Outweighed,
              Points, LevelOf
<1> QED
  BY <1>1, <1>2, <1>3, <1>4, <1>5, <1>6, <1>7 DEF Next, Verdict

LEMMA VerdictConvicts == VerdictInv => StrongFindingConvicts
<1> SUFFICES ASSUME VerdictInv, phase = "judged",
                    NEW r \in Findings \ ruleErrors, Fires(Rules[r], observed)
             PROVE  /\ Points(remaining) >= Rules[r].severity
                    /\ Rules[r].severity >= 70 => level = "malicious"
  BY DEF StrongFindingConvicts
<1>1. r \in fired /\ left = {} /\ Outweighed /\ level = LevelOf(Points(remaining))
  BY DEF VerdictInv, Heard
<1>2. Severity[r] \in 0..100 /\ Severity[r] = Rules[r].severity /\ remaining \in 0..Full
  BY SeverityInRange DEF VerdictInv
<1>3. remaining <= 1000 * (100 - Severity[r])
  BY <1>1 DEF Outweighed
<1>4. Points(remaining) >= Severity[r] /\ Points(remaining) \in Int
  <2> DEFINE s == Severity[r]
  <2>1. s \in 0..100 /\ remaining \in 0..Full /\ remaining <= 1000 * (100 - s)
    BY <1>2, <1>3
  <2> HIDE DEF s
  <2>2. Points(remaining) \in Int /\ Points(remaining) >= s
    BY <2>1, PointsAtLeast, SMTT(30)
  <2> QED
    BY <2>2 DEF s
<1>5. Rules[r].severity >= 70 => Points(remaining) >= 70
  BY <1>2, <1>4
<1>6. Points(remaining) >= 70 => level = "malicious"
  BY <1>1 DEF LevelOf
<1> QED
  BY <1>2, <1>4, <1>5, <1>6

\* A rule that finds what it looks for gives the score at least its own severity, whatever else
\* is found and whichever other rules raise; one of 70 points or more makes the verdict
\* "malicious" (evaluate and score of signatures.py).
THEOREM OneStrongFindingSuffices == Spec => []StrongFindingConvicts
<1>1. Spec => []VerdictInv
  BY VerdictInit, VerdictNext, PTL DEF Spec
<1> QED
  BY <1>1, VerdictConvicts, PTL
-----------------------------------------------------------------------------
(* The report is renamed into place when there is nothing left to do.      *)

ReportInv ==
  /\ output \in {"none", "tmp", "whole"}
  /\ container # "removed" => (outcome # "none" => todo = <<>>)
  /\ output # "none" => outcome # "none"
  /\ container = "exited" => output = "whole"

\* The worker's steps by what they do to the report: they work on it, give up on the analysis,
\* end it, or are about the file alone.
LEMMA WorkerOnReport ==
  ASSUME WorkerStep
  PROVE  \/ todo # <<>> /\ container = "up" /\ container' = "up" /\ UNCHANGED <<outcome, output>>
         \/ Raises \/ Conclude \/ OpenReport \/ Rename \/ Exits
         \/ container # "removed" /\ container' # "exited" /\ UNCHANGED <<todo, outcome, output>>
<1>1. CASE Triaged \/ Scanned \/ ToolReturns \/ ToolDies \/ NotWanted \/ Executed \/ UnpackedAll
  BY <1>1 DEF Triaged, Scanned, ToolReturns, ToolDies, NotWanted, Executed, UnpackedAll, At
<1>2. CASE Hangs \/ Dies \/ Timeout
  BY <1>2 DEF Hangs, Dies, Timeout, MayOverrun, At
<1>3. CASE Executing \/ Unpacking
  BY <1>3 DEF Executing, Unpacking, At
<1> QED
  BY <1>1, <1>2, <1>3 DEF WorkerStep

LEMMA ReportInductive == ReportInv /\ [Next]_vars => ReportInv'
<1> SUFFICES ASSUME ReportInv, [Next]_vars PROVE ReportInv'
  OBVIOUS
<1>1. CASE Working
  <2>1. CASE OpenReport \/ Rename \/ Exits \/ Conclude
    BY <2>1 DEF OpenReport, Rename, Exits, Conclude, ReportInv
  <2>2. CASE Raises
    <3>1. container = "up" /\ todo # <<>> /\ container' = "up" /\ UNCHANGED output
      BY <2>2 DEF Raises
    <3>2. todo' = <<>> \/ UNCHANGED outcome
      BY <2>2 DEF Raises, RecordException
    <3>3. outcome = "none" /\ output = "none"
      BY <3>1 DEF ReportInv
    <3> QED
      BY <3>1, <3>2, <3>3 DEF ReportInv
  <2>3. CASE todo # <<>> /\ container = "up" /\ container' = "up" /\ UNCHANGED <<outcome, output>>
    BY <1>1, <2>3 DEF ReportInv
  <2>4. CASE container # "removed" /\ container' # "exited" /\ UNCHANGED <<todo, outcome, output>>
    BY <1>1, <2>4 DEF ReportInv
  <2> QED
    BY <1>1, <2>1, <2>2, <2>3, <2>4, WorkerOnReport DEF Working
<1>2. CASE Collect
  BY <1>2 DEF Collect, ReportInv
<1>3. CASE Verdict
  <2>1. Rest
    BY <1>3 DEF Verdict, RuleFires, RuleRaises, Evaluated, Weighing, Judging
  <2> QED
    BY <2>1 DEF Rest, workerVars, ReportInv
<1>4. CASE UNCHANGED vars
  BY <1>4 DEF vars, workerVars, ReportInv
<1> QED
  BY <1>1, <1>2, <1>3, <1>4 DEF Next

\* The orchestrator never reads half a report: what it finds is the whole of it when the worker
\* has come to its end, and the whole or nothing when it was killed or died, at whatever point;
\* and never of an analysis with a step still to do (os.replace in entrypoint.py).
THEOREM ReportIsAtomic == Spec => []EvidenceWhole
<1>1. Init => ReportInv
  BY DEF Init, WorkerInit, ReportInv
<1>2. ReportInv => EvidenceWhole
  BY DEF ReportInv, EvidenceWhole
<1> QED
  BY <1>1, <1>2, ReportInductive, PTL DEF Spec

-----------------------------------------------------------------------------
(* Every exception has its line in a completed report.                     *)

ToldInv ==
  /\ phase = "worker" => outcome = "failed" \/ errors = raised
  /\ phase # "worker" => (JobStatus(meta, obs) = "completed" => errors = raised)

\* The worker's steps by what they do to the list of errors.
LEMMA WorkerOnErrors ==
  ASSUME WorkerStep
  PROVE  \/ UNCHANGED <<errors, raised, outcome>>
         \/ Raises
         \/ outcome = "none" /\ UNCHANGED <<errors, raised>>
<1>1. CASE Triaged \/ Scanned \/ ToolReturns \/ ToolDies \/ NotWanted \/ Executed \/ UnpackedAll
  BY <1>1 DEF Triaged, Scanned, ToolReturns, ToolDies, NotWanted, Executed, UnpackedAll
<1>2. CASE OpenReport \/ Rename \/ Exits \/ Conclude
  BY <1>2 DEF OpenReport, Rename, Exits, Conclude
<1>3. CASE Hangs \/ Dies \/ Timeout
  BY <1>3 DEF Hangs, Dies, Timeout
<1>4. CASE Executing \/ Unpacking
  BY <1>4 DEF Executing, Unpacking
<1> QED
  BY <1>1, <1>2, <1>3, <1>4 DEF WorkerStep

LEMMA ToldInductive == ToldInv /\ [Next]_vars => ToldInv'
<1> SUFFICES ASSUME ToldInv, [Next]_vars PROVE ToldInv'
  OBVIOUS
<1>1. CASE Working
  <2>1. phase = "worker" /\ phase' = "worker" /\ WorkerStep
    BY <1>1 DEF Working, verdictVars
  <2>2. CASE Raises
    <3>1. \/ outcome' = "failed"
          \/ /\ errors' = errors \cup {Now.stage} /\ raised' = raised \cup {Now.stage}
             /\ UNCHANGED outcome
      BY <2>2 DEF Raises, RecordException
    <3> QED
      BY <2>1, <3>1 DEF ToldInv
  <2>3. CASE UNCHANGED <<errors, raised, outcome>>
    BY <2>1, <2>3 DEF ToldInv
  <2>4. CASE outcome = "none" /\ UNCHANGED <<errors, raised>>
    BY <2>1, <2>4 DEF ToldInv
  <2> QED
    BY <2>1, <2>2, <2>3, <2>4, WorkerOnErrors
<1>2. CASE Collect
  <2>1. /\ phase = "worker" /\ phase' = "rules" /\ UNCHANGED raised
        /\ obs' = IF output = "whole" THEN outcome ELSE "none"
        /\ errors' = IF output = "whole" THEN errors ELSE {}
        /\ meta' \in {"ok", "timeout"}
    BY <1>2 DEF Collect
  <2>2. JobStatus(meta, obs)' = "completed" => output = "whole" /\ outcome = "completed"
    BY <2>1 DEF JobStatus
  <2> QED
    BY <2>1, <2>2 DEF ToldInv
<1>3. CASE Verdict
  <2>1. phase # "worker" /\ phase' # "worker" /\ Rest
    BY <1>3 DEF Verdict, RuleFires, RuleRaises, Evaluated, Weighing, Judging, NextToReport
  <2> QED
    BY <2>1 DEF Rest, workerVars, ToldInv, JobStatus
<1>4. CASE UNCHANGED vars
  BY <1>4 DEF vars, workerVars, verdictVars, ToldInv, JobStatus
<1> QED
  BY <1>1, <1>2, <1>3, <1>4 DEF Next

\* A completed report never reads benign and without gaps when a stage raised, however many did
\* and whatever the rules made of the rest (timed in entrypoint.py, build_llm_summary).
THEOREM FailuresAreTold == Spec => []StageFailureTold
<1>1. Init => ToldInv
  BY DEF Init, WorkerInit, ToldInv
<1>2. ToldInv => StageFailureTold
  BY DEF ToldInv, StageFailureTold, ReadsBenign, LlmSummary
<1> QED
  BY <1>1, <1>2, ToldInductive, PTL DEF Spec

-----------------------------------------------------------------------------
(* The ways in which a job ends.                                           *)

OutcomeInv ==
  /\ phase = "worker" /\ outcome = "failed" => errors = {} /\ todo = <<>>
  /\ phase = "worker" => outcome \in {"none", "completed", "failed"} /\ obs = "none"
  /\ phase # "worker" /\ errors # {} => obs = "completed"
  /\ meta \in {"ok", "timeout"} /\ obs \in {"none", "failed", "completed"}

LEMMA WorkerOnOutcome ==
  ASSUME WorkerStep
  PROVE  \/ UNCHANGED <<errors, outcome>> /\ (todo # <<>> \/ UNCHANGED todo)
         \/ Raises
         \/ Conclude
<1>1. CASE Triaged \/ Scanned \/ ToolReturns \/ ToolDies \/ NotWanted \/ Executed \/ UnpackedAll
  BY <1>1 DEF Triaged, Scanned, ToolReturns, ToolDies, NotWanted, Executed, UnpackedAll, At
<1>2. CASE OpenReport \/ Rename \/ Exits
  BY <1>2 DEF OpenReport, Rename, Exits
<1>3. CASE Hangs \/ Dies \/ Timeout
  BY <1>3 DEF Hangs, Dies, Timeout
<1>4. CASE Executing \/ Unpacking
  BY <1>4 DEF Executing, Unpacking
<1> QED
  BY <1>1, <1>2, <1>3, <1>4 DEF WorkerStep

LEMMA OutcomeInductive == ReportInv /\ OutcomeInv /\ [Next]_vars => OutcomeInv'
<1> SUFFICES ASSUME ReportInv, OutcomeInv, [Next]_vars PROVE OutcomeInv'
  OBVIOUS
<1>1. CASE Working
  <2>1. phase = "worker" /\ phase' = "worker" /\ WorkerStep /\ UNCHANGED <<meta, obs>>
    BY <1>1 DEF Working, verdictVars
  <2>2. CASE Raises
    <3>1. \/ outcome' = "failed" /\ errors' = {} /\ todo' = <<>>
          \/ todo # <<>> /\ UNCHANGED outcome
      BY <2>2 DEF Raises, RecordException
    <3> QED
      BY <2>1, <3>1 DEF OutcomeInv
  <2>3. CASE UNCHANGED <<errors, outcome>> /\ (todo # <<>> \/ UNCHANGED todo)
    BY <2>1, <2>3 DEF OutcomeInv
  <2>4. CASE Conclude
    BY <2>1, <2>4 DEF Conclude, OutcomeInv
  <2> QED
    BY <2>1, <2>2, <2>3, <2>4, WorkerOnOutcome
<1>2. CASE Collect
  <2>1. /\ phase = "worker" /\ phase' = "rules" /\ container \in {"exited", "killed", "overrun", "died"}
        /\ obs' = IF output = "whole" THEN outcome ELSE "none"
        /\ errors' = IF output = "whole" THEN errors ELSE {}
        /\ meta' \in {"ok", "timeout"}
    BY <1>2 DEF Collect
  <2>2. output = "whole" => outcome # "none"
    BY <2>1 DEF ReportInv
  <2> QED
    BY <2>1, <2>2 DEF OutcomeInv
<1>3. CASE Verdict
  <2>1. phase # "worker" /\ phase' # "worker" /\ Rest
    BY <1>3 DEF Verdict, RuleFires, RuleRaises, Evaluated, Weighing, Judging, NextToReport
  <2> QED
    BY <2>1 DEF Rest, workerVars, OutcomeInv
<1>4. CASE UNCHANGED vars
  BY <1>4 DEF vars, workerVars, verdictVars, OutcomeInv
<1> QED
  BY <1>1, <1>2, <1>3, <1>4 DEF Next

\* For all samples, settings and errors, a job ends in one of the ways that the report builder
\* and the caller reckon with (read_observations in orchestrator.py, main in entrypoint.py).
THEOREM OutcomesSuffice == Spec => []OutcomeIsKnown
<1>1. Init => OutcomeInv
  BY DEF Init, WorkerInit, OutcomeInv
<1>2. Init => ReportInv
  BY DEF Init, WorkerInit, ReportInv
<1>3. VerdictInv /\ OutcomeInv => OutcomeIsKnown
  <2> SUFFICES ASSUME VerdictInv, OutcomeInv, phase = "judged" PROVE Outcome \in Outcomes
    BY DEF OutcomeIsKnown
  <2>1. level \in Levels
    BY DEF VerdictInv, LevelOf, Levels
  <2>2. meta \in {"ok", "timeout", "error"} /\ obs \in {"none", "failed", "completed"}
    BY DEF OutcomeInv
  <2>3. errors # {} => obs = "completed"
    BY DEF OutcomeInv
  <2> QED
    BY <2>1, <2>2, <2>3 DEF Outcome, Outcomes
<1> QED
  BY <1>1, <1>2, <1>3, VerdictInit, VerdictNext, ReportInductive, OutcomeInductive, PTL DEF Spec

-----------------------------------------------------------------------------
(* What outlives execute.                                                  *)

SurvivorInv ==
  /\ group \subseteq alive
  /\ run = "idle" => alive = {} /\ traced = {} /\ ~timedOut
  /\ run \in {"idle", "running", "reaping", "returned", "raised"}
  /\ ~timedOut => run \in {"idle", "running", "returned"} /\ traced = alive
  /\ timedOut => run # "running" /\ (group = {} \/ strayKill)
  /\ run = "returned" /\ ~timedOut => alive = {}

\* Once killed, the group stays empty: a child is in its parent's group.
LEMMA SampleKeepsSurvivors == SurvivorInv /\ SampleStep => SurvivorInv'
<1> SUFFICES ASSUME SurvivorInv, NEW p \in Procs,
                    \/ \E q \in Procs : Fork(p, q)
                    \/ Daemonize(p)
                    \/ Exit(p)
                    \/ \E c \in Calls : Call(p, c)
             PROVE  SurvivorInv'
  BY DEF SampleStep
<1>1. CASE \E q \in Procs : Fork(p, q)
  BY <1>1 DEF Fork, SurvivorInv
<1>2. CASE Daemonize(p)
  BY <1>2 DEF Daemonize, SurvivorInv
<1>3. CASE Exit(p)
  BY <1>3 DEF Exit, SurvivorInv
<1>4. CASE \E c \in Calls : Call(p, c)
  BY <1>4 DEF Call, SurvivorInv
<1> QED
  BY <1>1, <1>2, <1>3, <1>4

LEMMA ExecutingKeepsSurvivors == SurvivorInv /\ Executing => SurvivorInv'
<1> SUFFICES ASSUME SurvivorInv,
                    Launch \/ SampleStep \/ TraceeGone \/ BudgetExpires \/ Reaped
             PROVE  SurvivorInv'
  BY DEF Executing
<1>1. CASE Launch
  BY <1>1 DEF Launch, SurvivorInv
<1>2. CASE SampleStep
  BY <1>2, SampleKeepsSurvivors
<1>3. CASE TraceeGone
  BY <1>3 DEF TraceeGone, SurvivorInv
<1>4. CASE BudgetExpires
  BY <1>4 DEF BudgetExpires, SurvivorInv
<1>5. CASE Reaped
  BY <1>5 DEF Reaped, SurvivorInv
<1> QED
  BY <1>1, <1>2, <1>3, <1>4, <1>5

LEMMA SurvivorInductive == SurvivorInv /\ [Next]_vars => SurvivorInv'
<1> SUFFICES ASSUME SurvivorInv, [Next]_vars PROVE SurvivorInv'
  OBVIOUS
<1>1. CASE Working
  <2>1. CASE Executing
    BY <2>1, ExecutingKeepsSurvivors
  <2>2. CASE UNCHANGED nativeVars
    BY <2>2 DEF nativeVars, SurvivorInv
  <2> QED
    BY <1>1, <2>1, <2>2 DEF Working, WorkerStep
<1>2. CASE Collect
  BY <1>2 DEF Collect, SurvivorInv
<1>3. CASE Verdict
  <2>1. Rest
    BY <1>3 DEF Verdict, RuleFires, RuleRaises, Evaluated, Weighing, Judging
  <2> QED
    BY <2>1 DEF Rest, nativeVars, SurvivorInv
<1>4. CASE UNCHANGED vars
  BY <1>4 DEF vars, nativeVars, SurvivorInv
<1> QED
  BY <1>1, <1>2, <1>3, <1>4 DEF Next

\* However many processes a sample has and whatever they do, those that run on after execute has
\* returned outlasted the budget and had left the process group before the kill, unless the kill
\* itself failed (execute in behavior.py).
THEOREM GroupKillIsThorough == Spec => []OnlyDaemonsSurvive
<1>1. Init => SurvivorInv
  BY DEF Init, WorkerInit, NativeInit, SurvivorInv
<1>2. SurvivorInv => OnlyDaemonsSurvive
  BY DEF SurvivorInv, OnlyDaemonsSurvive
<1> QED
  BY <1>1, <1>2, SurvivorInductive, PTL DEF Spec
-----------------------------------------------------------------------------
(* The walk through nested archives.                                       *)

Frames == [dir : Nat \X Nat, depth : 1..MaxDepth, rest : Seq(Entries)]

Listed == [dir : Nat \X Nat, entry : Entries, depth : 1..MaxDepth]

\* Every active call of _collect_children is one level below the one that made it.
OneLevelEach(calling) == \A i \in 1..Len(calling) : calling[i].depth = Len(calling) + 1 - i

WalkInv ==
  /\ layout \in Layouts
  /\ disk \in [DOMAIN disk -> Seq(Entries)]
  /\ stack \in Seq(Frames) /\ Len(stack) <= MaxDepth /\ OneLevelEach(stack)
  /\ children \in Seq(Listed) /\ Len(children) <= ChildCap

\* What an extraction leaves in its directory and on the stack.
LEMMA ExtractWalks ==
  ASSUME NEW archive \in Archives, NEW dir \in Nat \X Nat, NEW depth \in 1..MaxDepth,
         NEW below \in Seq(Frames), NEW k \in 0..Len(layout[archive]),
         OneLevelEach(below), depth = Len(below) + 1,
         layout \in Layouts, disk \in [DOMAIN disk -> Seq(Entries)],
         Extract(archive, dir, depth, below, k)
  PROVE  /\ disk' \in [DOMAIN disk' -> Seq(Entries)]
         /\ stack' \in Seq(Frames) /\ Len(stack') <= MaxDepth /\ OneLevelEach(stack')
<1> DEFINE files == FilesIn(dir) \o SubSeq(layout[archive], 1, k)
           frame == [dir |-> dir, depth |-> depth, rest |-> files]
<1>1. layout[archive] \in Seq(Entries)
  BY LayoutsAssumption
<1>2. SubSeq(layout[archive], 1, k) \in Seq(Entries)
  BY <1>1
<1>3. FilesIn(dir) \in Seq(Entries)
  BY DEF FilesIn
<1>4. files \in Seq(Entries)
  BY <1>2, <1>3
<1>5. /\ disk' = [d \in DOMAIN disk \cup {dir} |-> IF d = dir THEN files ELSE disk[d]]
      /\ stack' = IF k > 0 THEN <<frame>> \o below ELSE below
  BY DEF Extract
<1> HIDE DEF files
<1>6. disk' \in [DOMAIN disk' -> Seq(Entries)]
  BY <1>4, <1>5
<1>7. CASE k > 0
  <2>1. frame \in Frames
    BY <1>4 DEF Frames
  <2>2. stack' = <<frame>> \o below
    BY <1>5, <1>7
  <2> HIDE DEF frame
  <2>3. /\ stack' \in Seq(Frames) /\ Len(stack') = Len(below) + 1 /\ stack'[1] = frame
        /\ \A i \in 1..Len(below) : stack'[i + 1] = below[i]
    BY <2>1, <2>2
  <2>4. \A i \in 1..Len(stack') : stack'[i].depth = Len(stack') + 1 - i
    <3> SUFFICES ASSUME NEW i \in 1..Len(stack')
                 PROVE  stack'[i].depth = Len(stack') + 1 - i
      OBVIOUS
    <3>1. CASE i = 1
      BY <2>3, <3>1 DEF frame
    <3>2. CASE i > 1
      <4>1. i - 1 \in 1..Len(below) /\ i = (i - 1) + 1
        BY <2>3, <3>2
      <4>2. stack'[i] = below[i - 1]
        BY <2>3, <4>1
      <4> QED
        BY <2>3, <4>1, <4>2 DEF OneLevelEach
    <3> QED
      BY <2>3, <3>1, <3>2
  <2> QED
    BY <1>6, <2>3, <2>4 DEF OneLevelEach
<1>8. CASE ~(k > 0)
  <2>1. stack' = below /\ Len(below) \in Nat
    BY <1>5, <1>8
  <2>2. Len(below) <= MaxDepth
    BY DepthAssumption
  <2> QED
    BY <1>6, <2>1, <2>2 DEF OneLevelEach
<1> QED
  BY <1>7, <1>8

\* The calls that are left when the file at the top is done with, or the call itself.
LEMMA TopOfWalk ==
  ASSUME WalkInv, stack # <<>>
  PROVE  /\ Top \in Frames /\ Top.depth = Len(stack)
         /\ Tail(stack) \in Seq(Frames) /\ Len(Tail(stack)) = Len(stack) - 1
         /\ OneLevelEach(Tail(stack))
         /\ Top.rest # <<>> =>
              /\ Head(Top.rest) \in Entries
              /\ WithoutFile \in Seq(Frames) /\ Len(WithoutFile) = Len(stack)
              /\ OneLevelEach(WithoutFile)
<1>1. stack \in Seq(Frames) /\ Len(stack) \in Nat /\ 1 \in 1..Len(stack)
  BY DEF WalkInv
<1>2. Top \in Frames /\ Top.depth = Len(stack)
  BY <1>1 DEF Top, WalkInv, OneLevelEach
<1>3. /\ Tail(stack) \in Seq(Frames) /\ Len(Tail(stack)) = Len(stack) - 1
      /\ \A i \in 1..Len(Tail(stack)) : Tail(stack)[i] = stack[i + 1]
  BY <1>1
<1>4. OneLevelEach(Tail(stack))
  <2> SUFFICES ASSUME NEW i \in 1..Len(Tail(stack))
               PROVE  Tail(stack)[i].depth = Len(Tail(stack)) + 1 - i
    BY DEF OneLevelEach
  <2>1. i + 1 \in 1..Len(stack) /\ Tail(stack)[i] = stack[i + 1]
    BY <1>1, <1>3
  <2>2. stack[i + 1].depth = Len(stack) + 1 - (i + 1)
    BY <2>1 DEF WalkInv, OneLevelEach
  <2> QED
    BY <1>1, <1>3, <2>1, <2>2
<1>5. ASSUME Top.rest # <<>>
      PROVE  /\ Head(Top.rest) \in Entries
             /\ WithoutFile \in Seq(Frames) /\ Len(WithoutFile) = Len(stack)
             /\ OneLevelEach(WithoutFile)
  <2>1. Top.rest \in Seq(Entries)
    BY <1>2 DEF Frames
  <2>2. Head(Top.rest) \in Entries /\ Tail(Top.rest) \in Seq(Entries)
    BY <1>5, <2>1
  <2> DEFINE frame == [Top EXCEPT !.rest = Tail(@)]
  <2>3. frame \in Frames /\ frame.depth = Top.depth
    BY <1>2, <2>2 DEF Frames
  <2> HIDE DEF frame
  <2>4. WithoutFile = <<frame>> \o Tail(stack)
    BY DEF WithoutFile, frame
  <2>5. /\ WithoutFile \in Seq(Frames) /\ Len(WithoutFile) = Len(stack)
        /\ WithoutFile[1] = frame
        /\ \A i \in 2..Len(stack) : WithoutFile[i] = stack[i]
    BY <1>1, <1>3, <2>3, <2>4
  <2>6. \A i \in 1..Len(stack) : WithoutFile[i].depth = Len(stack) + 1 - i
    <3> SUFFICES ASSUME NEW i \in 1..Len(stack)
                 PROVE  WithoutFile[i].depth = Len(stack) + 1 - i
      OBVIOUS
    <3>1. CASE i = 1
      BY <1>1, <1>2, <2>3, <2>5, <3>1
    <3>2. CASE i \in 2..Len(stack)
      <4>1. WithoutFile[i] = stack[i]
        BY <2>5, <3>2
      <4>2. stack[i].depth = Len(stack) + 1 - i
        BY DEF WalkInv, OneLevelEach
      <4> QED
        BY <4>1, <4>2
    <3> QED
      BY <1>1, <3>1, <3>2
  <2> QED
    BY <2>2, <2>5, <2>6 DEF OneLevelEach
<1> QED
  BY <1>2, <1>3, <1>4, <1>5

\* The innermost call without the file at its head.
LEMMA FileTaken ==
  ASSUME WalkInv, stack # <<>>, Top.rest # <<>>
  PROVE  /\ WithoutFile \in Seq(Frames) /\ Len(WithoutFile) = Len(stack)
         /\ WithoutFile[1].dir = Top.dir /\ WithoutFile[1].depth = Top.depth
         /\ WithoutFile[1].rest = Tail(Top.rest)
         /\ Len(WithoutFile[1].rest) = Len(Top.rest) - 1
         /\ \A i \in 2..Len(stack) : WithoutFile[i] = stack[i]
<1>1. stack \in Seq(Frames) /\ Len(stack) \in Nat /\ Len(stack) > 0
  BY DEF WalkInv
<1>2. WithoutFile \in Seq(Frames) /\ Len(WithoutFile) = Len(stack)
  BY TopOfWalk
<1>3. Top \in Frames /\ Tail(stack) \in Seq(Frames)
  BY TopOfWalk
<1>4. Top.rest \in Seq(Entries)
  BY <1>3 DEF Frames
<1>5. Len(Tail(Top.rest)) = Len(Top.rest) - 1 /\ Tail(Top.rest) \in Seq(Entries)
  BY <1>4
<1> DEFINE frame == [Top EXCEPT !.rest = Tail(@)]
<1>6. /\ frame \in Frames /\ frame.dir = Top.dir /\ frame.depth = Top.depth
      /\ frame.rest = Tail(Top.rest)
  BY <1>3, <1>5 DEF Frames
<1> HIDE DEF frame
<1>7. WithoutFile = <<frame>> \o Tail(stack)
  BY DEF WithoutFile, frame
<1>8. WithoutFile[1] = frame /\ \A i \in 2..Len(stack) : WithoutFile[i] = stack[i]
  BY <1>1, <1>3, <1>6, <1>7
<1> QED
  BY <1>2, <1>5, <1>6, <1>8

LEMMA NextChildWalks == WalkInv /\ NextChild => WalkInv'
<1> SUFFICES ASSUME WalkInv, NextChild PROVE WalkInv'
  OBVIOUS
<1> DEFINE entry == Head(Top.rest)
           child == [dir |-> Top.dir, entry |-> entry, depth |-> Top.depth]
<1>1. stack # <<>> /\ Top.rest # <<>> /\ Len(children) < ChildCap /\ layout' = layout
  BY DepthAssumption DEF NextChild, CapReached, WalkInv
<1>2. child \in Listed
  BY <1>1, TopOfWalk DEF Listed, Frames
<1>3. children' = Append(children, child)
  BY DEF NextChild
<1> HIDE DEF child
<1>4. children' \in Seq(Listed) /\ Len(children') <= ChildCap
  BY <1>1, <1>2, <1>3, DepthAssumption DEF WalkInv
<1>5. CASE stack' = WithoutFile /\ UNCHANGED disk
  <2>1. OneLevelEach(stack')
    BY <1>1, <1>5, TopOfWalk
  <2>2. stack' \in Seq(Frames) /\ Len(stack') <= MaxDepth
    BY <1>1, <1>5, TopOfWalk DEF WalkInv
  <2> QED
    BY <1>1, <1>4, <1>5, <2>1, <2>2 DEF WalkInv, OneLevelEach
<1>6. ASSUME Nested(entry), NEW k \in 0..Len(layout[entry]),
             Extract(entry, NestedDir, Top.depth + 1, WithoutFile, k)
      PROVE  WalkInv'
  <2>1. entry \in Archives /\ Top.depth < MaxDepth
    BY <1>6 DEF Nested
  <2>2. NestedDir \in Nat \X Nat /\ Top.depth + 1 \in 1..MaxDepth
    <3>1. Top.depth \in 1..MaxDepth
      BY <1>1, TopOfWalk DEF Frames
    <3>2. Len(children) \in Nat
      BY DEF WalkInv
    <3> QED
      BY <2>1, <3>1, <3>2, DepthAssumption DEF NestedDir
  <2>3. /\ WithoutFile \in Seq(Frames) /\ OneLevelEach(WithoutFile)
        /\ Top.depth + 1 = Len(WithoutFile) + 1
    BY <1>1, TopOfWalk
  <2>4. layout \in Layouts /\ disk \in [DOMAIN disk -> Seq(Entries)]
    BY DEF WalkInv
  <2> HIDE DEF entry
  <2>5. /\ disk' \in [DOMAIN disk' -> Seq(Entries)]
        /\ stack' \in Seq(Frames) /\ Len(stack') <= MaxDepth /\ OneLevelEach(stack')
    BY <1>6, <2>1, <2>2, <2>3, <2>4, ExtractWalks
  <2> QED
    BY <1>1, <1>4, <2>4, <2>5 DEF WalkInv, OneLevelEach
<1> QED
  BY <1>5, <1>6 DEF NextChild

LEMMA UnpackWalks == WalkInv /\ UnpackStep => WalkInv'
<1> SUFFICES ASSUME WalkInv, UnpackStep PROVE WalkInv'
  OBVIOUS
<1>1. CASE Refuse \/ Unpacked
  BY <1>1 DEF Refuse, Unpacked, WalkInv, OneLevelEach
<1>2. CASE Open
  <2>1. PICK k \in 0..Len(layout[Outer]) : Extract(Outer, <<0, 0>>, 1, <<>>, k)
    BY <1>2 DEF Open
  <2>2. Outer \in Archives /\ 1 \in 1..MaxDepth /\ <<0, 0>> \in Nat \X Nat
    BY EntriesAssumption, DepthAssumption
  <2>3. << >> \in Seq(Frames) /\ OneLevelEach(<< >>) /\ 1 = Len(<< >>) + 1
    BY DEF OneLevelEach
  <2>4. layout \in Layouts /\ disk \in [DOMAIN disk -> Seq(Entries)]
    BY DEF WalkInv
  <2>5. /\ disk' \in [DOMAIN disk' -> Seq(Entries)]
        /\ stack' \in Seq(Frames) /\ Len(stack') <= MaxDepth /\ OneLevelEach(stack')
    BY <2>1, <2>2, <2>3, <2>4, ExtractWalks
  <2> QED
    BY <1>2, <2>5 DEF Open, WalkInv, OneLevelEach
<1>3. CASE NextChild
  BY <1>3, NextChildWalks
<1>4. CASE Return
  <2>1. stack # <<>> /\ stack' = Tail(stack) /\ UNCHANGED <<layout, disk, children>>
    BY <1>4 DEF Return
  <2>2. stack' \in Seq(Frames) /\ Len(stack') <= MaxDepth /\ OneLevelEach(stack')
    BY <2>1, TopOfWalk, DepthAssumption DEF WalkInv
  <2> QED
    BY <2>1, <2>2 DEF WalkInv, OneLevelEach
<1> QED
  BY <1>1, <1>2, <1>3, <1>4 DEF UnpackStep

LEMMA WalkInductive == WalkInv /\ [Next]_vars => WalkInv'
<1> SUFFICES ASSUME WalkInv, [Next]_vars PROVE WalkInv'
  OBVIOUS
<1>1. CASE Working
  <2>1. CASE Unpacking
    BY <2>1, UnpackWalks DEF Unpacking
  <2>2. CASE UNCHANGED unpackVars
    BY <2>2 DEF unpackVars, WalkInv, OneLevelEach
  <2> QED
    BY <1>1, <2>1, <2>2 DEF Working, WorkerStep
<1>2. CASE Collect
  <2>1. layout' \in Layouts /\ stack' = <<>> /\ disk' = <<>> /\ children' = <<>>
    BY <1>2 DEF Collect, WalkInv
  <2> QED
    BY <2>1, DepthAssumption DEF WalkInv, OneLevelEach
<1>3. CASE Verdict
  <2>1. Rest
    BY <1>3 DEF Verdict, RuleFires, RuleRaises, Evaluated, Weighing, Judging
  <2> QED
    BY <2>1 DEF Rest, unpackVars, WalkInv, OneLevelEach
<1>4. CASE UNCHANGED vars
  BY <1>4 DEF vars, unpackVars, WalkInv, OneLevelEach
<1> QED
  BY <1>1, <1>2, <1>3, <1>4 DEF Next

\* Whatever is in an archive and however archives are nested, in themselves even, the walk is
\* never deeper than MAX_DEPTH and never lists more children than the cap
\* (_collect_children in archive.py).
THEOREM WalkIsBounded == Spec => []UnpackBounded
<1>1. Init => WalkInv
  BY DepthAssumption DEF Init, WorkerInit, UnpackInit, WalkInv, OneLevelEach
<1>2. WalkInv => UnpackBounded
  <2> SUFFICES ASSUME WalkInv PROVE UnpackBounded
    OBVIOUS
  <2>1. ASSUME NEW i \in DOMAIN children PROVE children[i].depth <= MaxDepth
    <3>1. children[i] \in Listed
      BY DEF WalkInv
    <3> QED
      BY <3>1, DepthAssumption DEF Listed
  <2> QED
    BY <2>1 DEF WalkInv, UnpackBounded
<1> QED
  BY <1>1, <1>2, WalkInductive, PTL DEF Spec
=============================================================================
