------------------------ MODULE JobRefinementProofs ------------------------
(***************************************************************************)
(* JobLifecycle implements JobBoard: whatever handlers, threads, workers,  *)
(* crashes and restarts do to memory and to the disk, a poller sees each   *)
(* job move forward through its phases, and one report at most.            *)
(***************************************************************************)
EXTENDS JobLifecycleProofs

-----------------------------------------------------------------------------
(* What the refinement needs to know of the detailed state.                *)

\* Where a job stands in memory fixes where its thread is; and report.json holds a report
\* only once its thread has written it, the very one that it publishes.
PhaseInv ==
  \A j \in Jobs :
    /\ status[j] = "queued" => pc[j] \in {"queued", "cancelled"}
    /\ status[j] = "running" => pc[j] \in OnThread \cup {"raised"}
    /\ saved[j] \in Report => pc[j] \in {"publish", "done", "raised", "gone"}
    /\ saved[j] \in Report /\ pc[j] \in {"publish", "done"} => saved[j] = result[j]
    /\ status[j] \in Terminal => report[j] = result[j]

RefineInv == DurableInv /\ PhaseInv

\* One move of a poller's view of job j, or none: Board!Move(j) over the mapped state.
Legal(j) ==
  \/ PhaseOf(j)' = PhaseOf(j) /\ AnswerOf(j)' = AnswerOf(j)
  \/ /\ <<PhaseOf(j), PhaseOf(j)'>> \in Board!Moves
     /\ IF PhaseOf(j)' = "done" THEN AnswerOf(j)' \in Report ELSE AnswerOf(j)' = NoReport

\* The board reads the mapping job by job.
LEMMA LegalIsMove ==
  ASSUME \A j \in Jobs : Legal(j)
  PROVE  Board!BoardNext
BY DEF Legal, Board!BoardNext, Board!Move

\* get_report's answer in each of its cases (main.py).
PhaseCases(j) ==
  /\ status[j] \in {"queued", "running"} => PhaseOf(j) = status[j] /\ AnswerOf(j) = NoReport
  /\ status[j] \in Terminal => PhaseOf(j) = "done" /\ AnswerOf(j) = report[j]
  /\ status[j] = "absent" /\ saved[j] \in Report => PhaseOf(j) = "done" /\ AnswerOf(j) = saved[j]
  /\ status[j] = "absent" /\ saved[j] \notin Report =>
       /\ AnswerOf(j) = NoReport
       /\ pc[j] = "idle" => PhaseOf(j) = "unsubmitted"
       /\ pc[j] \in OnThread \ {"publish"} => PhaseOf(j) = "detached"
       /\ pc[j] \notin (OnThread \ {"publish"}) \cup {"idle"} => PhaseOf(j) = "gone"

LEMMA PhaseIsByCases == \A j \in Jobs : PhaseCases(j)
BY DEF PhaseCases, PhaseOf, AnswerOf, Terminal, OnThread

LEMMA PhaseIsByCasesNext == \A j \in Jobs : PhaseCases(j)'
BY DEF PhaseCases, PhaseOf, AnswerOf, Terminal, OnThread

\* What a step does not touch does not move.
LEMMA StayIsLegal ==
  ASSUME NEW j \in Jobs,
         status'[j] = status[j], report'[j] = report[j], saved'[j] = saved[j], pc'[j] = pc[j]
  PROVE  Legal(j)
BY DEF Legal, PhaseOf, AnswerOf

-----------------------------------------------------------------------------
(* Every step of the service is a move of the board.                       *)

\* Another job's handler or thread does not move job i.
LEMMA OthersStay ==
  ASSUME TypeInv, NEW j \in Jobs,
         Request(j) \/ LoopStep(j) \/ ThreadStep(j) \/ WorkerStep(j),
         NEW i \in Jobs \ {j}
  PROVE  Legal(i)
<1>0. /\ pc \in [Jobs -> Pc]
      /\ status \in [Jobs -> {"absent", "queued", "running"} \cup Terminal]
      /\ report \in [Jobs -> Report \cup {NoReport}]
      /\ saved \in [Jobs -> Report \cup {NoReport, Truncated}]
  BY DEF TypeInv, TypeOK
<1>1. status'[i] = status[i] /\ report'[i] = report[i] /\ saved'[i] = saved[i] /\ pc'[i] = pc[i]
  <2>1. CASE Request(j) \/ LoopStep(j)
    BY <1>0, <2>1 DEF Request, LoopStep, Analyze, AnalyzeSync, Accept, PrepareFails, SyncTimeout,
         SyncReturn, DeletePop, DeleteUnlink, DeleteRmdir, jobVars, poolVars, diskVars
  <2>2. CASE ThreadStep(j)
    BY <1>0, <2>2 DEF ThreadStep, Begin, BeginForgotten, SkipCancelled, Spawn, SpawnError,
         SpawnRaises, WaitReturns, WaitTimesOut, WaitRaises, RemoveContainer, Observe,
         PersistOpen, PersistWrite, Publish, jobVars, poolVars, diskVars
  <2>3. CASE WorkerStep(j)
    BY <2>3 DEF WorkerStep, WorkerWrites, WorkerExits, jobVars, poolVars, diskVars
  <2> QED
    BY <2>1, <2>2, <2>3
<1> QED
  BY <1>1, StayIsLegal

\* A handler accepts a job, refuses it, forgets it or removes its file: each is a move.
LEMMA LoopIsLegal ==
  ASSUME RefineInv, NEW j \in Jobs, Request(j) \/ LoopStep(j)
  PROVE  Legal(j)
<1>0. /\ pc \in [Jobs -> Pc]
      /\ status \in [Jobs -> {"absent", "queued", "running"} \cup Terminal]
      /\ report \in [Jobs -> Report \cup {NoReport}]
      /\ saved \in [Jobs -> Report \cup {NoReport, Truncated}]
      /\ result \in [Jobs -> Report \cup {NoReport}]
      /\ removing \in [Jobs -> {"no", "unlink", "rmdir"}]
      /\ PhaseInv /\ RecordInv
  BY DEF RefineInv, DurableInv, TypeInv, TypeOK
<1>1. PhaseCases(j) /\ PhaseCases(j)'
  BY PhaseIsByCases, PhaseIsByCasesNext
<1>2. NoReport \notin Report /\ Truncated \notin Report
  BY ReportHasStatus
<1> USE DEF PhaseCases, Legal, Board!Moves, PhaseInv, RecordInv, OnThread, jobVars, poolVars,
            diskVars
<1>3. CASE Accept(j)
  BY <1>0, <1>1, <1>2, <1>3 DEF Accept
<1>4. CASE PrepareFails(j)
  BY <1>0, <1>1, <1>2, <1>4 DEF PrepareFails
<1>5. CASE SyncTimeout(j)
  BY <1>0, <1>1, <1>2, <1>5 DEF SyncTimeout
<1>6. CASE DeletePop(j)
  BY <1>0, <1>1, <1>2, <1>6 DEF DeletePop
<1>7. CASE SyncReturn(j) \/ DeleteRmdir(j)
  BY <1>7, StayIsLegal DEF SyncReturn, DeleteRmdir
<1>8. CASE DeleteUnlink(j)
  BY <1>0, <1>1, <1>2, <1>8 DEF DeleteUnlink
<1> QED
  BY <1>3, <1>4, <1>5, <1>6, <1>7, <1>8 DEF Request, LoopStep, Analyze, AnalyzeSync

\* A pool thread takes a job, writes its report, publishes it, or dies with it.
LEMMA ThreadIsLegal ==
  ASSUME RefineInv, NEW j \in Jobs, ThreadStep(j)
  PROVE  Legal(j)
<1>0. /\ pc \in [Jobs -> Pc]
      /\ status \in [Jobs -> {"absent", "queued", "running"} \cup Terminal]
      /\ report \in [Jobs -> Report \cup {NoReport}]
      /\ saved \in [Jobs -> Report \cup {NoReport, Truncated}]
      /\ result \in [Jobs -> Report \cup {NoReport}]
      /\ PhaseInv /\ RecordInv
      /\ pc[j] \in {"write", "publish"} => result[j] \in Report
  BY DEF RefineInv, DurableInv, TypeInv, TypeOK, ResultReady
<1>1. PhaseCases(j) /\ PhaseCases(j)'
  BY PhaseIsByCases, PhaseIsByCasesNext
<1>2. NoReport \notin Report /\ Truncated \notin Report
  BY ReportHasStatus
<1> USE DEF PhaseCases, Legal, Board!Moves, PhaseInv, RecordInv, OnThread, jobVars, diskVars
<1>3. CASE Begin(j)
  BY <1>0, <1>1, <1>2, <1>3 DEF Begin
<1>4. CASE BeginForgotten(j)
  BY <1>0, <1>1, <1>2, <1>4 DEF BeginForgotten
<1>5. CASE SkipCancelled(j)
  BY <1>5, StayIsLegal DEF SkipCancelled
<1>6. CASE Spawn(j)
  BY <1>0, <1>1, <1>2, <1>6 DEF Spawn
<1>7. CASE SpawnError(j)
  BY <1>0, <1>1, <1>2, <1>7 DEF SpawnError
<1>8. CASE SpawnRaises(j)
  BY <1>0, <1>1, <1>2, <1>8 DEF SpawnRaises
<1>9. CASE WaitReturns(j) \/ WaitTimesOut(j) \/ WaitRaises(j)
  BY <1>0, <1>1, <1>2, <1>9 DEF WaitReturns, WaitTimesOut, WaitRaises
<1>10. CASE RemoveContainer(j)
  BY <1>0, <1>1, <1>2, <1>10 DEF RemoveContainer
<1>11. CASE Observe(j)
  BY <1>0, <1>1, <1>2, <1>11 DEF Observe
<1>12. CASE PersistOpen(j)
  BY <1>0, <1>1, <1>2, <1>12 DEF PersistOpen
<1>13. CASE PersistWrite(j)
  BY <1>0, <1>1, <1>2, <1>13 DEF PersistWrite
<1>14. CASE Publish(j)
  <2>1. result[j].status \in Terminal
    BY <1>0, <1>14, ReportHasStatus DEF Publish
  <2> QED
    BY <1>0, <1>1, <1>2, <1>14, <2>1 DEF Publish, Terminal
<1> QED
  BY <1>3, <1>4, <1>5, <1>6, <1>7, <1>8, <1>9, <1>10, <1>11, <1>12, <1>13, <1>14 DEF ThreadStep

\* The worker is invisible to pollers; a crash and a startup may move every job at once.
LEMMA OtherIsLegal ==
  ASSUME RefineInv, (\E j \in Jobs : WorkerStep(j)) \/ Crash \/ Startup \/ UNCHANGED vars,
         NEW i \in Jobs
  PROVE  Legal(i)
<1>0. /\ pc \in [Jobs -> Pc]
      /\ status \in [Jobs -> {"absent", "queued", "running"} \cup Terminal]
      /\ report \in [Jobs -> Report \cup {NoReport}]
      /\ saved \in [Jobs -> Report \cup {NoReport, Truncated}]
      /\ result \in [Jobs -> Report \cup {NoReport}]
      /\ PhaseInv /\ RecordInv
  BY DEF RefineInv, DurableInv, TypeInv, TypeOK
<1>1. PhaseCases(i) /\ PhaseCases(i)'
  BY PhaseIsByCases, PhaseIsByCasesNext
<1>2. NoReport \notin Report /\ Truncated \notin Report
  BY ReportHasStatus
<1> USE DEF PhaseCases, Legal, Board!Moves, PhaseInv, RecordInv, OnThread, jobVars, poolVars,
            diskVars
<1>3. ASSUME NEW j \in Jobs, WorkerStep(j) PROVE Legal(i)
  BY <1>3, StayIsLegal DEF WorkerStep, WorkerWrites, WorkerExits
<1>4. CASE Crash
  BY <1>0, <1>1, <1>2, <1>4 DEF Crash
<1>5. CASE Startup
  BY <1>0, <1>1, <1>2, <1>5 DEF Startup, CleanupOldJobs
<1>6. CASE UNCHANGED vars
  BY <1>6, StayIsLegal DEF vars
<1> QED
  BY <1>3, <1>4, <1>5, <1>6

-----------------------------------------------------------------------------
(* The invariant of the refinement.                                        *)

\* Handlers: a queued job may be cancelled, and a report on disk only disappears.
LEMMA PhaseLoop ==
  ASSUME RefineInv, NEW j \in Jobs, Request(j) \/ LoopStep(j)
  PROVE  PhaseInv'
<1>0. /\ pc \in [Jobs -> Pc]
      /\ status \in [Jobs -> {"absent", "queued", "running"} \cup Terminal]
      /\ report \in [Jobs -> Report \cup {NoReport}]
      /\ saved \in [Jobs -> Report \cup {NoReport, Truncated}]
      /\ PhaseInv /\ RecordInv
      /\ NoReport \notin Report
  BY ReportHasStatus DEF RefineInv, DurableInv, TypeInv, TypeOK
<1> USE DEF PhaseInv, RecordInv, jobVars, poolVars, diskVars
<1>1. CASE Accept(j)
  BY <1>0, <1>1 DEF Accept, Terminal
<1>2. CASE PrepareFails(j)
  BY <1>0, <1>2 DEF PrepareFails, OnThread, Terminal
<1>3. CASE SyncTimeout(j)
  BY <1>0, <1>3 DEF SyncTimeout, OnThread
<1>4. CASE DeletePop(j)
  BY <1>0, <1>4 DEF DeletePop, Terminal
<1>5. CASE SyncReturn(j) \/ DeleteRmdir(j)
  BY <1>0, <1>5 DEF SyncReturn, DeleteRmdir
<1>6. CASE DeleteUnlink(j)
  BY <1>0, <1>6 DEF DeleteUnlink
<1> QED
  BY <1>1, <1>2, <1>3, <1>4, <1>5, <1>6 DEF Request, LoopStep, Analyze, AnalyzeSync

\* Threads: only PersistWrite puts a report on disk, and only Publish one in memory.
LEMMA PhaseThread ==
  ASSUME RefineInv, NEW j \in Jobs, ThreadStep(j)
  PROVE  PhaseInv'
<1>0. /\ pc \in [Jobs -> Pc]
      /\ status \in [Jobs -> {"absent", "queued", "running"} \cup Terminal]
      /\ report \in [Jobs -> Report \cup {NoReport}]
      /\ saved \in [Jobs -> Report \cup {NoReport, Truncated}]
      /\ result \in [Jobs -> Report \cup {NoReport}]
      /\ PhaseInv /\ RecordInv
      /\ Truncated \notin Report
      /\ pc[j] = "publish" => result[j].status \in Terminal
  BY ReportHasStatus DEF RefineInv, DurableInv, TypeInv, TypeOK, ResultReady
<1> USE DEF PhaseInv, RecordInv, OnThread, jobVars, poolVars, diskVars
<1>1. CASE Begin(j)
  BY <1>0, <1>1 DEF Begin, Terminal
<1>2. CASE BeginForgotten(j)
  BY <1>0, <1>2 DEF BeginForgotten, Terminal
<1>3. CASE SkipCancelled(j)
  BY <1>0, <1>3 DEF SkipCancelled
<1>4. CASE Spawn(j)
  BY <1>0, <1>4 DEF Spawn
<1>5. CASE SpawnError(j)
  BY <1>0, <1>5 DEF SpawnError
<1>6. CASE SpawnRaises(j)
  BY <1>0, <1>6 DEF SpawnRaises
<1>7. CASE WaitReturns(j) \/ WaitTimesOut(j) \/ WaitRaises(j)
  BY <1>0, <1>7 DEF WaitReturns, WaitTimesOut, WaitRaises
<1>8. CASE RemoveContainer(j)
  BY <1>0, <1>8 DEF RemoveContainer
<1>9. CASE Observe(j)
  BY <1>0, <1>9 DEF Observe, Terminal
<1>10. CASE PersistOpen(j)
  BY <1>0, <1>10 DEF PersistOpen
<1>11. CASE PersistWrite(j)
  BY <1>0, <1>11 DEF PersistWrite
<1>12. CASE Publish(j)
  BY <1>0, <1>12 DEF Publish, Terminal
<1> QED
  BY <1>1, <1>2, <1>3, <1>4, <1>5, <1>6, <1>7, <1>8, <1>9, <1>10, <1>11, <1>12 DEF ThreadStep

\* The worker, a crash, a startup and a stuttering step.
LEMMA PhaseOther ==
  ASSUME RefineInv, (\E j \in Jobs : WorkerStep(j)) \/ Crash \/ Startup \/ UNCHANGED vars
  PROVE  PhaseInv'
<1>0. /\ PhaseInv
      /\ NoReport \notin Report
      /\ saved \in [Jobs -> Report \cup {NoReport, Truncated}]
  BY ReportHasStatus DEF RefineInv, DurableInv, TypeInv, TypeOK
<1> USE DEF PhaseInv, jobVars, poolVars, diskVars
<1>1. ASSUME NEW j \in Jobs, WorkerStep(j) PROVE PhaseInv'
  BY <1>0, <1>1 DEF WorkerStep, WorkerWrites, WorkerExits
<1>2. CASE Crash
  BY <1>0, <1>2 DEF Crash, Terminal
<1>3. CASE Startup
  BY <1>0, <1>3 DEF Startup, CleanupOldJobs
<1>4. CASE UNCHANGED vars
  BY <1>0, <1>4 DEF vars
<1> QED
  BY <1>1, <1>2, <1>3, <1>4

-----------------------------------------------------------------------------
(* The refinement.                                                         *)

\* "Poll until status is terminal" and "fall back to disk" (main.py): through crashes,
\* restarts, deletions and races of a deletion with the job's thread, what a poller is told
\* of a job only moves forward, and a report that was served is never replaced by another.
THEOREM ServiceKeepsPromise == Spec => KeepsPromise
<1>1. Init => RefineInv
  <2>1. Init => RecordInv /\ PublishedIsDurable /\ PhaseInv
    BY ReportHasStatus DEF Init, RecordInv, PublishedIsDurable, PhaseInv, Terminal
  <2> QED
    BY <2>1, TypeInit DEF RefineInv, DurableInv
<1>2. RefineInv /\ [Next]_vars => RefineInv'
  <2> SUFFICES ASSUME RefineInv, [Next]_vars PROVE RefineInv'
    OBVIOUS
  <2>1. TypeInv'
    BY TypeLoop, TypeThread, TypeOther DEF RefineInv, DurableInv, Next
  <2>2. RecordInv' /\ PublishedIsDurable'
    BY DurableLoop, DurableThread, DurableOther DEF RefineInv, Next
  <2>3. PhaseInv'
    BY PhaseLoop, PhaseThread, PhaseOther DEF Next
  <2> QED
    BY <2>1, <2>2, <2>3 DEF RefineInv, DurableInv
<1>3. Init => Board!BoardInit
  <2> SUFFICES ASSUME Init, NEW j \in Jobs
               PROVE  PhaseOf(j) = "unsubmitted" /\ AnswerOf(j) = NoReport
    BY DEF Board!BoardInit
  <2>1. PhaseCases(j) /\ NoReport \notin Report
    BY PhaseIsByCases, ReportHasStatus
  <2> QED
    BY <2>1 DEF Init, PhaseCases
<1>4. RefineInv /\ [Next]_vars => [Board!BoardNext]_(Board!boardVars)
  <2> SUFFICES ASSUME RefineInv, [Next]_vars PROVE Board!BoardNext
    OBVIOUS
  <2>1. \A j \in Jobs : Legal(j)
    BY OthersStay, LoopIsLegal, ThreadIsLegal, OtherIsLegal DEF Next, RefineInv, DurableInv
  <2> QED
    BY <2>1, LegalIsMove
<1> QED
  BY <1>1, <1>2, <1>3, <1>4, PTL DEF Spec, KeepsPromise, Board!BoardSpec
=============================================================================
