------------------------- MODULE MailEvidenceProofs -------------------------
(***************************************************************************)
(* Theorems about MailEvidence, for a mail with any number of attachments  *)
(* and any deadline.                                                       *)
(***************************************************************************)
EXTENDS MailEvidence, TLAPS

\* A report that is served is a report and is remembered, and no other follows it.
ServedIsReport ==
  /\ \A a \in Attachments : phase[a] = "done" => answer[a] \in Reports /\ served[a] = answer[a]
  /\ \A a \in Attachments : served[a] # NoReport =>
       served[a] \in Reports /\ phase[a] \in {"done", "gone"}

\* The loop has left a block behind for every attachment before the one it is at, and none
\* for the others; the service has not heard of those that are still to be sent.
Unsent(a) == a > at \/ (a = at /\ call = "submit" /\ mail = "reading")

LoopInv == /\ \A a \in Attachments : a < at <=> blocks[a] # NoBlock
           /\ \A a \in Attachments : Unsent(a) => phase[a] = "unsubmitted"

EvidenceInv == TypeOK /\ ServedIsReport /\ LoopInv /\ BlocksAreServedReports

\* The summary of a report says what the report's errors are.
LEMMA SummaryOfReport ==
  ASSUME NEW r \in Reports
  PROVE  /\ r.summary \in Summaries
         /\ r.summary.gaps = r.errors
<1>1. PICK o \in Outcomes : r = Build(o)
  BY DEF Reports
<1>2. StageErrors(o) \cup OrchestratorErrors(o) \subseteq {"stage", "orchestrator"}
  BY DEF StageErrors, OrchestratorErrors
<1>3. o.level \in Levels
  BY DEF Outcomes
<1>4. /\ r.errors = StageErrors(o) \cup OrchestratorErrors(o)
      /\ r.summary = LlmSummary(o.level, StageErrors(o) \cup OrchestratorErrors(o))
  BY <1>1 DEF Build
<1> QED
  BY <1>2, <1>3, <1>4 DEF LlmSummary, Summaries

\* A summary is neither the UNKNOWN block nor a missing one.
LEMMA SummaryIsBlock ==
  ASSUME NEW s \in Summaries
  PROVE  s # Unknown /\ s # NoBlock
BY NoneAssumption DEF Summaries, Unknown, Levels

\* The UNKNOWN block is a block.
LEMMA UnknownIsBlock == Unknown # NoBlock
BY NoneAssumption

\* Nothing has been read when the analysis starts.
LEMMA EvidenceInit == Init => EvidenceInv
BY SizeAssumption DEF Init, EvidenceInv, TypeOK, ServedIsReport, LoopInv, Unsent, BlocksAreServedReports,
   HasEvidence, Attachments, Service!BoardInit, Service!BoardTypeOK, Service!Phase

\* An attachment that gets the block it may have, while the service stands still, leaves the
\* invariant: the loop moves past it.
LEMMA ConcludeKeeps ==
  ASSUME EvidenceInv, NEW a \in Attachments, mail = "reading", at = a,
         NEW block \in Summaries \cup {Unknown}, Conclude(a, block),
         phase' \in [Attachments -> Service!Phase], answer' = answer, served' = served,
         \A b \in Attachments \ {a} : phase'[b] = phase[b],
         phase'[a] \in {phase[a], "gone"},
         block # Unknown => served[a] # NoReport /\ block = served[a].summary
  PROVE  EvidenceInv'
<1>1. /\ block # NoBlock
      /\ a \in 1..Last /\ Last \in Nat /\ MaxWait \in Nat
  BY SummaryIsBlock, UnknownIsBlock, SizeAssumption DEF Attachments
<1>2. /\ blocks \in [Attachments -> Summaries \cup {Unknown, NoBlock}]
      /\ blocks' = [blocks EXCEPT ![a] = block]
      /\ \A b \in Attachments : blocks'[b] = IF b = a THEN block ELSE blocks[b]
  BY DEF EvidenceInv, TypeOK, Conclude
<1>3. TypeOK'
  BY <1>1, <1>2 DEF EvidenceInv, TypeOK, Conclude, Service!BoardTypeOK
<1>4. ServedIsReport'
  BY DEF EvidenceInv, ServedIsReport
<1>5. LoopInv'
  BY <1>1, <1>2 DEF EvidenceInv, LoopInv, Unsent, Conclude, Attachments
<1>6. BlocksAreServedReports'
  BY <1>1, <1>2 DEF EvidenceInv, BlocksAreServedReports, HasEvidence, Conclude
<1> QED
  BY <1>3, <1>4, <1>5, <1>6 DEF EvidenceInv

\* A request without an answer ends the analysis and leaves every block as it is.
LEMMA EscapeKeeps ==
  ASSUME EvidenceInv, NEW a \in Attachments, mail = "reading", at = a, Escape(a),
         phase' \in [Attachments -> Service!Phase], answer' = answer, served' = served,
         \A b \in Attachments \ {a} : phase'[b] = phase[b],
         phase'[a] = phase[a] \/ (phase'[a] = "queued" /\ served[a] = NoReport)
  PROVE  EvidenceInv'
<1>1. TypeOK'
  BY DEF EvidenceInv, TypeOK, Escape, Service!BoardTypeOK
<1>2. ServedIsReport' /\ LoopInv'
  <2>1. ServedIsReport'
    BY DEF EvidenceInv, ServedIsReport, Escape
  <2>2. \A b \in Attachments : Unsent(b)' => Unsent(b) /\ b # a
    BY SizeAssumption DEF Unsent, Escape, Attachments
  <2>3. LoopInv'
    BY <2>2 DEF EvidenceInv, LoopInv, Escape
  <2> QED
    BY <2>1, <2>3
<1>3. blocks[a] = NoBlock
  BY SizeAssumption DEF EvidenceInv, LoopInv, Unsent, Attachments
<1>4. BlocksAreServedReports'
  BY <1>3 DEF EvidenceInv, BlocksAreServedReports, HasEvidence, Escape
<1> QED
  BY <1>1, <1>2, <1>4 DEF EvidenceInv

\* Each step of SandboxClient and of the loop around it keeps the invariant.
LEMMA ClientStepKeeps ==
  ASSUME EvidenceInv, ClientStep
  PROVE  EvidenceInv'
<1> USE DEF Calls
<1>1. ASSUME NEW a \in Attachments, Submit(a)
      PROVE  EvidenceInv'
  <2>1. blocks[a] = NoBlock
    BY <1>1, SizeAssumption DEF Submit, EvidenceInv, LoopInv, Unsent, Attachments
  <2>2. TypeOK'
    BY <1>1 DEF Submit, EvidenceInv, TypeOK, Service!BoardTypeOK, Service!Phase
  <2>3. ServedIsReport' /\ LoopInv'
    BY <1>1 DEF Submit, EvidenceInv, TypeOK, Service!BoardTypeOK, ServedIsReport, LoopInv, Unsent
  <2>4. BlocksAreServedReports'
    BY <1>1, <2>1 DEF Submit, EvidenceInv, TypeOK, Service!BoardTypeOK, BlocksAreServedReports,
       HasEvidence
  <2> QED
    BY <2>2, <2>3, <2>4 DEF EvidenceInv
<1>2. ASSUME NEW a \in Attachments, SubmitRefused(a)
      PROVE  EvidenceInv'
  <2>1. phase' \in [Attachments -> Service!Phase] /\ answer' = answer /\ served' = served
    BY <1>2 DEF SubmitRefused, EvidenceInv, TypeOK, Service!BoardTypeOK, Service!Phase
  <2>2. /\ \A b \in Attachments \ {a} : phase'[b] = phase[b]
        /\ phase'[a] \in {phase[a], "gone"}
    BY <1>2 DEF SubmitRefused, EvidenceInv, TypeOK, Service!BoardTypeOK
  <2>3. mail = "reading" /\ at = a /\ Conclude(a, Unknown)
    BY <1>2 DEF SubmitRefused
  <2> QED
    BY <2>1, <2>2, <2>3, ConcludeKeeps
<1>3. ASSUME NEW a \in Attachments, SubmitUnanswered(a)
      PROVE  EvidenceInv'
  <2>1. phase' \in [Attachments -> Service!Phase] /\ answer' = answer /\ served' = served
    BY <1>3 DEF SubmitUnanswered, EvidenceInv, TypeOK, Service!BoardTypeOK, Service!Phase
  <2>2. served[a] = NoReport
    BY <1>3 DEF SubmitUnanswered, EvidenceInv, LoopInv, Unsent, ServedIsReport
  <2>4. /\ \A b \in Attachments \ {a} : phase'[b] = phase[b]
        /\ phase'[a] = phase[a] \/ (phase'[a] = "queued" /\ served[a] = NoReport)
    BY <1>3, <2>2 DEF SubmitUnanswered, EvidenceInv, TypeOK, Service!BoardTypeOK
  <2>3. mail = "reading" /\ at = a /\ Escape(a)
    BY <1>3 DEF SubmitUnanswered
  <2> QED
    BY <2>1, <2>3, <2>4, EscapeKeeps
<1>4. ASSUME NEW a \in Attachments, PollReport(a)
      PROVE  EvidenceInv'
  <2>1. /\ phase' = phase /\ answer' = answer /\ served' = served /\ phase[a] = "done"
        /\ mail = "reading" /\ at = a /\ Conclude(a, answer[a].summary)
    BY <1>4 DEF PollReport, serviceVars
  <2>2. /\ served[a] = answer[a] /\ served[a] # NoReport
        /\ answer[a] \in Reports /\ answer[a].summary \in Summaries
    BY <2>1, SummaryOfReport, NoneAssumption DEF EvidenceInv, ServedIsReport
  <2>3. phase \in [Attachments -> Service!Phase]
    BY DEF EvidenceInv, TypeOK, Service!BoardTypeOK
  <2> QED
    BY <2>1, <2>2, <2>3, ConcludeKeeps
<1>5. ASSUME NEW a \in Attachments, PollRefused(a) \/ GiveUp(a)
      PROVE  EvidenceInv'
  <2>1. /\ phase' = phase /\ answer' = answer /\ served' = served
        /\ mail = "reading" /\ at = a /\ Conclude(a, Unknown)
    BY <1>5 DEF PollRefused, GiveUp, serviceVars
  <2>2. /\ phase \in [Attachments -> Service!Phase]
    BY DEF EvidenceInv, TypeOK, Service!BoardTypeOK
  <2> QED
    BY <2>1, <2>2, ConcludeKeeps
<1>6. ASSUME NEW a \in Attachments, PollUnanswered(a)
      PROVE  EvidenceInv'
  <2>1. /\ phase' = phase /\ answer' = answer /\ served' = served
        /\ mail = "reading" /\ at = a /\ Escape(a)
    BY <1>6 DEF PollUnanswered, serviceVars
  <2>2. phase \in [Attachments -> Service!Phase]
    BY DEF EvidenceInv, TypeOK, Service!BoardTypeOK
  <2> QED
    BY <2>1, <2>2, EscapeKeeps
<1>7. ASSUME NEW a \in Attachments, PollPending(a) \/ Sleep(a)
      PROVE  EvidenceInv'
  <2>1. UNCHANGED <<phase, answer, served, mail, at, blocks, lost>>
    BY <1>7 DEF PollPending, Sleep, serviceVars
  <2>2. call' \in {"submit", "poll", "sleep"} /\ waited' \in 0..MaxWait
    BY <1>7, SizeAssumption DEF PollPending, Sleep, EvidenceInv, TypeOK
  <2>3. call' # "submit"
    BY <1>7 DEF PollPending, Sleep
  <2>4. LoopInv'
    BY <2>1, <2>3 DEF EvidenceInv, LoopInv, Unsent
  <2> QED
    BY <2>1, <2>2, <2>4 DEF EvidenceInv, TypeOK, Service!BoardTypeOK, ServedIsReport,
       BlocksAreServedReports, HasEvidence
<1>8. CASE Ask
  <2>1. UNCHANGED <<phase, answer, served, at, call, waited, blocks, lost>> /\ mail' = "asked"
    BY <1>8 DEF Ask, serviceVars
  <2>2. \A a \in Attachments : blocks[a] # NoBlock
    BY <1>8, SizeAssumption DEF Ask, EvidenceInv, LoopInv, Attachments
  <2>3. LoopInv'
    BY <2>1 DEF EvidenceInv, LoopInv, Unsent
  <2> QED
    BY <2>1, <2>2, <2>3 DEF EvidenceInv, TypeOK, Service!BoardTypeOK, ServedIsReport,
       BlocksAreServedReports, HasEvidence
<1> QED
  BY <1>1, <1>2, <1>3, <1>4, <1>5, <1>6, <1>7, <1>8 DEF ClientStep

\* Whatever the service does within JobBoard, a report it served stays the one it serves.
LEMMA ServiceStepKeeps ==
  ASSUME EvidenceInv, NEW a \in Attachments, ServiceStep(a)
  PROVE  EvidenceInv'
<1>1. PICK p \in Service!Phase, r \in Reports \cup {NoReport} :
        /\ phase' = [phase EXCEPT ![a] = p]
        /\ answer' = [answer EXCEPT ![a] = r]
        /\ served' = [served EXCEPT ![a] = IF p = "done" THEN r ELSE @]
  BY DEF ServiceStep
<1>2. UNCHANGED <<mail, at, call, waited, blocks, lost>>
  BY DEF ServiceStep, loopVars
<1>3. /\ phase \in [Attachments -> Service!Phase]
      /\ answer \in [Attachments -> Reports \cup {NoReport}]
      /\ served \in [Attachments -> Reports \cup {NoReport}]
  BY DEF EvidenceInv, TypeOK, Service!BoardTypeOK
<1>4. \/ phase'[a] = phase[a] /\ answer'[a] = answer[a]
      \/ /\ phase'[a] = "done" => answer'[a] \in Reports /\ phase[a] \in {"running", "detached"}
         /\ phase[a] # "gone" /\ (phase[a] = "done" => phase'[a] = "gone")
  BY DEF ServiceStep, Service!Move, Service!Moves
<1>8. /\ served'[a] = IF phase'[a] = "done" THEN answer'[a] ELSE served[a]
      /\ \A b \in Attachments \ {a} : /\ phase'[b] = phase[b] /\ answer'[b] = answer[b]
                                      /\ served'[b] = served[b]
  BY <1>1, <1>3
<1>5. TypeOK'
  BY <1>1, <1>2, <1>3 DEF EvidenceInv, TypeOK, Service!BoardTypeOK
<1>6. ServedIsReport' /\ LoopInv'
  <2>1. ServedIsReport'
    BY <1>4, <1>8, NoneAssumption DEF EvidenceInv, ServedIsReport
  <2>2. phase[a] # "unsubmitted"
    BY DEF ServiceStep
  <2>3. LoopInv'
    BY <1>2, <1>8, <2>2 DEF EvidenceInv, LoopInv, Unsent
  <2> QED
    BY <2>1, <2>3
<1>7. BlocksAreServedReports'
  <2>1. ASSUME NEW b \in Attachments, served[b] # NoReport PROVE served'[b] = served[b]
    BY <1>4, <1>8, <2>1 DEF EvidenceInv, ServedIsReport
  <2>2. blocks' = blocks /\ mail' = mail
    BY <1>2
  <2> QED
    BY <2>1, <2>2 DEF EvidenceInv, BlocksAreServedReports, HasEvidence
<1> QED
  BY <1>5, <1>6, <1>7 DEF EvidenceInv

\* The invariant holds throughout, for every number of attachments and every deadline.
THEOREM EvidenceInvariant == Spec => []EvidenceInv
<1>1. EvidenceInv /\ [Next]_vars => EvidenceInv'
  <2> SUFFICES ASSUME EvidenceInv, [Next]_vars PROVE EvidenceInv'
    OBVIOUS
  <2>1. CASE ClientStep
    BY <2>1, ClientStepKeeps
  <2>2. CASE \E a \in Attachments : ServiceStep(a)
    BY <2>2, ServiceStepKeeps
  <2>3. CASE UNCHANGED vars
    BY <2>3 DEF vars, serviceVars, loopVars, EvidenceInv, TypeOK, Service!BoardTypeOK,
       ServedIsReport, LoopInv, Unsent, BlocksAreServedReports, HasEvidence
  <2> QED
    BY <2>1, <2>2, <2>3 DEF Next
<1> QED
  BY EvidenceInit, <1>1, PTL DEF Spec

\* No step of the client or of the service leaves the domains of the variables: the wait stays
\* within its deadline, and a block is a summary or one of the two marks (wait_for).
THEOREM EvidenceTypeCorrect == Spec => []TypeOK
<1>1. EvidenceInv => TypeOK
  BY DEF EvidenceInv
<1> QED
  BY EvidenceInvariant, <1>1, PTL

\* A block that is not UNKNOWN is the summary of a report the service has served, also once
\* that report is gone, and the model is asked with a block for every attachment (get_report,
\* wait_for, analyse_email).
THEOREM OnlyServedReports == Spec => []BlocksAreServedReports
<1>1. EvidenceInv => BlocksAreServedReports
  BY DEF EvidenceInv
<1> QED
  BY EvidenceInvariant, <1>1, PTL

\* An error that a report lists, be it a stage's or the orchestrator's, is told to the model
\* (_run_job makes the summary again after it has appended the latter).
THEOREM GapsAreTold == Spec => []GapsReachTheModel
<1>1. EvidenceInv => GapsReachTheModel
  <2> SUFFICES ASSUME EvidenceInv, NEW a \in Attachments, HasEvidence(a),
                      served[a].errors # {}
               PROVE  ~ReadsBenign(blocks[a])
    BY DEF GapsReachTheModel
  <2>1. served[a] \in Reports /\ blocks[a] = served[a].summary
    BY DEF EvidenceInv, ServedIsReport, BlocksAreServedReports
  <2>2. blocks[a].gaps = served[a].errors
    BY <2>1, SummaryOfReport
  <2> QED
    BY <2>2 DEF ReadsBenign
<1> QED
  BY EvidenceInvariant, <1>1, PTL
=============================================================================
