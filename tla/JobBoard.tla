------------------------------ MODULE JobBoard ------------------------------
(***************************************************************************)
(* What the HTTP API promises to a caller that polls GET /v1/report/{id}.  *)
(* A job has one phase at a time, and a phase can only move forward:       *)
(*                                                                         *)
(*   unsubmitted -> queued -> running -> done -> gone                      *)
(*                                                                         *)
(* "queued" and "running" are the two 202 answers, "done" is the report,   *)
(* and "unsubmitted", "detached" and "gone" are the 404s.  A job that is   *)
(* deleted while its thread is still working is "detached": the thread may *)
(* yet leave a report on disk, which the API then serves.                  *)
(*                                                                         *)
(* A restart of the service moves many jobs in one step, so a step of the  *)
(* board lets every job take one move or none.                             *)
(***************************************************************************)
CONSTANTS Jobs, Report, NoReport

VARIABLES phase,    \* phase[j]: what a poll of job j is told
          answer    \* answer[j]: the report served in phase "done"

boardVars == <<phase, answer>>

Phase == {"unsubmitted", "queued", "running", "detached", "done", "gone"}

BoardTypeOK == /\ phase \in [Jobs -> Phase]
               /\ answer \in [Jobs -> Report \cup {NoReport}]

\* The legal moves of one job between two phases.
Moves == { <<"unsubmitted", "queued">>,    \* accepted
           <<"unsubmitted", "gone">>,      \* refused: its directory could not be laid out
           <<"queued", "running">>,        \* a pool thread took it
           <<"queued", "gone">>,           \* deleted, or lost with the process
           <<"running", "done">>,          \* reported
           <<"running", "detached">>,      \* deleted under its thread
           <<"running", "gone">>,          \* lost with the process
           <<"detached", "done">>,         \* its thread still wrote the report
           <<"detached", "gone">>,
           <<"done", "gone">> }            \* deleted, expired, or never persisted

\* One job moves or stays; a report, once served, is never replaced by another.
Move(j) == \/ UNCHANGED <<phase[j], answer[j]>>
           \/ /\ <<phase[j], phase'[j]>> \in Moves
              /\ IF phase'[j] = "done" THEN answer'[j] \in Report
                                       ELSE answer'[j] = NoReport

BoardInit == /\ phase = [j \in Jobs |-> "unsubmitted"]
             /\ answer = [j \in Jobs |-> NoReport]

BoardNext == \A j \in Jobs : Move(j)

BoardSpec == BoardInit /\ [][BoardNext]_boardVars
=============================================================================
