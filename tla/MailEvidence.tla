---------------------------- MODULE MailEvidence ----------------------------
(***************************************************************************)
(* How evidence reaches the model that judges a mail: analyse_email takes  *)
(* one attachment after the other through SandboxClient, which submits it, *)
(* polls for the report and gives up at a deadline.  The service is what   *)
(* JobBoard promises, no more: JobLifecycle is checked to keep that.       *)
(***************************************************************************)
EXTENDS Naturals, ReportBuild

CONSTANTS Last,       \* the number of attachments of the mail
          MaxWait,    \* wait_for's deadline, in poll intervals
          NoReport, NoBlock

ASSUME SizeAssumption == Last \in Nat /\ MaxWait \in Nat

\* The block that says "treat its safety as UNKNOWN, not as benign".
Unknown == [level |-> "unknown", gaps |-> {}]

ASSUME NoneAssumption == NoReport \notin Reports /\ NoBlock \notin Summaries \cup {Unknown}

Attachments == 1..Last

VARIABLES
  phase,    \* what the service says of the job of an attachment (JobBoard)
  answer,   \* the report it serves (JobBoard)
  served,   \* the report it has served, also after it was deleted (history)
  mail,     \* analyse_email: "reading" attachments, "asked" the model, or "raised"
  at,       \* the attachment it is at
  call,     \* what SandboxClient does next for it: "submit", "poll", "sleep"
  waited,   \* the time spent on it, in poll intervals
  blocks,   \* evidence_blocks
  lost      \* attachments for which a request got no answer (history)

serviceVars == <<phase, answer, served>>
loopVars    == <<mail, at, call, waited, blocks, lost>>
vars        == <<serviceVars, loopVars>>

Service == INSTANCE JobBoard WITH Jobs <- Attachments, Report <- Reports

TypeOK == /\ Service!BoardTypeOK
          /\ served \in [Attachments -> Reports \cup {NoReport}]
          /\ mail \in {"reading", "asked", "raised"}
          /\ at \in 1..(Last + 1)
          /\ call \in {"submit", "poll", "sleep"}
          /\ waited \in 0..MaxWait
          /\ blocks \in [Attachments -> Summaries \cup {Unknown, NoBlock}]
          /\ lost \subseteq Attachments

Init == /\ Service!BoardInit
        /\ served = [a \in Attachments |-> NoReport]
        /\ mail = "reading"
        /\ at = 1
        /\ call = "submit"
        /\ waited = 0
        /\ blocks = [a \in Attachments |-> NoBlock]
        /\ lost = {}

-----------------------------------------------------------------------------
\* SandboxClient is about to make call c for attachment a.
Calls(a, c) == mail = "reading" /\ at = a /\ call = c

\* The attachment gets its block, and the loop goes on to the next one.
Conclude(a, block) ==
  /\ blocks' = [blocks EXCEPT ![a] = block]
  /\ at' = a + 1
  /\ call' = "submit"
  /\ waited' = 0
  /\ UNCHANGED <<mail, lost>>

\* requests raises (refused, reset, timed out, no JSON): analyse_email catches SandboxError
\* only, and ends.
Escape(a) ==
  /\ mail' = "raised"
  /\ lost' = lost \cup {a}
  /\ UNCHANGED <<at, call, waited, blocks>>

\* analyze: the POST is accepted.
Submit(a) ==
  /\ Calls(a, "submit")
  /\ phase' = [phase EXCEPT ![a] = "queued"]
  /\ call' = "poll"
  /\ UNCHANGED <<answer, served, mail, at, waited, blocks, lost>>

\* 413, 400, 401 or 5xx: SandboxError.  After a 5xx the job id is unknown to everybody.
SubmitRefused(a) ==
  /\ Calls(a, "submit")
  /\ \/ UNCHANGED phase
     \/ phase' = [phase EXCEPT ![a] = "gone"]
  /\ Conclude(a, Unknown)
  /\ UNCHANGED <<answer, served>>

\* No answer comes back, whether or not the service has taken the job.
SubmitUnanswered(a) ==
  /\ Calls(a, "submit")
  /\ \/ UNCHANGED phase
     \/ phase' = [phase EXCEPT ![a] = "queued"]
  /\ Escape(a)
  /\ UNCHANGED <<answer, served>>

\* Mutant: the whole report is handed on where its summary is due.
PollHandsOnReport(a) ==
  /\ Calls(a, "poll") /\ waited < MaxWait
  /\ phase[a] = "done"
  /\ Conclude(a, answer[a])
  /\ UNCHANGED serviceVars

\* get_report answers 200: the report's llm_summary is the block.
PollReport(a) ==
  /\ Calls(a, "poll") /\ waited < MaxWait
  /\ phase[a] = "done"
  /\ Conclude(a, answer[a].summary)
  /\ UNCHANGED serviceVars

\* 202: not yet.
PollPending(a) ==
  /\ Calls(a, "poll") /\ waited < MaxWait
  /\ phase[a] \in {"queued", "running"}
  /\ call' = "sleep"
  /\ UNCHANGED <<serviceVars, mail, at, waited, blocks, lost>>

\* Mutant: the body of a 404 is taken for a report, one without a verdict or errors.
PollAcceptsMissing(a) ==
  /\ Calls(a, "poll") /\ waited < MaxWait
  /\ Conclude(a, IF phase[a] = "gone" THEN LlmSummary("benign", {}) ELSE Unknown)
  /\ UNCHANGED serviceVars

\* 404 for a job that is gone, or any other error status: SandboxError.
PollRefused(a) ==
  /\ Calls(a, "poll") /\ waited < MaxWait
  /\ Conclude(a, Unknown)
  /\ UNCHANGED serviceVars

PollUnanswered(a) ==
  /\ Calls(a, "poll") /\ waited < MaxWait
  /\ Escape(a)
  /\ UNCHANGED serviceVars

\* Mutant: the deadline is set anew in every round of wait_for.
SleepForgetsDeadline(a) ==
  /\ Calls(a, "sleep")
  /\ call' = "poll"
  /\ UNCHANGED <<serviceVars, mail, at, waited, blocks, lost>>

\* A round of wait_for takes poll_interval, and as much longer as its request took.
Sleep(a) ==
  /\ Calls(a, "sleep")
  /\ call' = "poll"
  /\ waited' \in (waited + 1)..MaxWait
  /\ UNCHANGED <<serviceVars, mail, at, blocks, lost>>

\* The deadline has passed: SandboxError, though the report may be there a moment later.
GiveUp(a) ==
  /\ Calls(a, "poll") /\ waited = MaxWait
  /\ Conclude(a, Unknown)
  /\ UNCHANGED serviceVars

\* Every attachment has its block: the model is asked.
Ask ==
  /\ mail = "reading" /\ at = Last + 1
  /\ mail' = "asked"
  /\ UNCHANGED <<serviceVars, at, call, waited, blocks, lost>>

\* The service works on a job it has accepted, loses it, or deletes its report.
ServiceStep(a) ==
  /\ phase[a] # "unsubmitted"
  /\ \E p \in Service!Phase, r \in Reports \cup {NoReport} :
       /\ phase' = [phase EXCEPT ![a] = p]
       /\ answer' = [answer EXCEPT ![a] = r]
       /\ served' = [served EXCEPT ![a] = IF p = "done" THEN r ELSE @]
  /\ Service!Move(a)
  /\ UNCHANGED loopVars

ClientStep == \/ \E a \in Attachments :
                   \/ Submit(a) \/ SubmitRefused(a) \/ SubmitUnanswered(a)
                   \/ PollReport(a) \/ PollPending(a) \/ PollRefused(a) \/ PollUnanswered(a)
                   \/ Sleep(a) \/ GiveUp(a)
              \/ Ask

Next == ClientStep \/ \E a \in Attachments : ServiceStep(a)

Spec == Init /\ [][Next]_vars

\* Every request has a timeout, so the client always goes on; the service need not.
FairSpec == Spec /\ WF_vars(ClientStep)

-----------------------------------------------------------------------------
(* Properties.                                                             *)

\* The attachment has a block, and not the UNKNOWN one.
HasEvidence(a) == blocks[a] \notin {NoBlock, Unknown}

\* "Returns None while the job is still running", "unknown job id" (get_report): a block that
\* is not UNKNOWN is the summary of a report the service has served, whether it still does or
\* has deleted it since - never made from a 202, a 404 or another attachment's report; and
\* the model is asked with a block for every attachment.
BlocksAreServedReports ==
  /\ \A a \in Attachments : HasEvidence(a) =>
       served[a] # NoReport /\ blocks[a] = served[a].summary
  /\ mail = "asked" => \A a \in Attachments : blocks[a] # NoBlock

\* "Analysis gaps, stated openly" (README, errors): where the report lists an error, of a
\* stage or of the orchestrator, the block the model is given does not read as benign.
GapsReachTheModel ==
  \A a \in Attachments :
    HasEvidence(a) /\ served[a].errors # {} => ~ReadsBenign(blocks[a])

\* wait_for's deadline: however slow the service is, the mail's analysis ends.
MailSettles == <>(mail # "reading")

\* "A failure never reads as benign" (README): nor does the report of a job that failed
\* or timed out.
FailureNeverReadsBenign ==
  \A a \in Attachments :
    HasEvidence(a) /\ served[a].status # "completed" => ~ReadsBenign(blocks[a])

\* "On a sandbox outage, the client returns an explicit 'safety UNKNOWN' block" (README).
OutageReadsUnknown == \A a \in lost : mail # "reading" => blocks[a] = Unknown
=============================================================================
