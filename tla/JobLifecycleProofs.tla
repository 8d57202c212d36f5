------------------------- MODULE JobLifecycleProofs -------------------------
(***************************************************************************)
(* Theorems about JobLifecycle, for every set of jobs, every size of the   *)
(* pool, and any number of crashes and faults.                             *)
(***************************************************************************)
EXTENDS JobLifecycle, FiniteSetTheorems, TLAPS

-----------------------------------------------------------------------------
(* Type correctness.                                                       *)

\* Past "observe" a job has a report; and an exception on its way through `finally`
\* never reaches "observe".  Without the two, JobStatus and Publish could leave their types.
ResultReady ==
  \A j \in Jobs : /\ pc[j] \in {"persist", "write", "publish"} => result[j] \in Report
                  /\ pc[j] = "observe" => meta[j] # "raise"

TypeInv == TypeOK /\ ResultReady

\* _run_job's choice of the status (main.py) always yields a terminal one.
LEMMA JobStatusIsTerminal ==
  ASSUME NEW m \in {"ok", "timeout", "error"}, NEW o \in {"none", "completed", "failed"}
  PROVE  JobStatus(m, o) \in Terminal
BY DEF JobStatus, Terminal

\* A report carries a terminal status, and can be told from a missing or a cut-off one.
LEMMA ReportHasStatus ==
  ASSUME NEW r \in Report
  PROVE  r.status \in Terminal /\ r # NoReport /\ r # Truncated
BY DEF Report, Terminal, NoReport, Truncated

\* A fault leaves the history of faults well typed.
LEMMA FaultType ==
  ASSUME NEW j \in Jobs, NEW k \in FaultKind, faults \subseteq Jobs \X FaultKind, Fault(j, k)
  PROVE  faults' \subseteq Jobs \X FaultKind
BY DEF Fault

\* The types hold at the start.
LEMMA TypeInit == Init => TypeInv
<1> SUFFICES ASSUME Init PROVE TypeInv
  OBVIOUS
<1>1. MaxCrashes \in Nat
  BY BoundAssumption
<1>2. TypeOK
  BY <1>1 DEF Init, TypeOK, Pc, Report
<1>3. ResultReady
  BY DEF Init, ResultReady
<1> QED
  BY <1>2, <1>3 DEF TypeInv

\* Handlers of the event loop keep the types.
LEMMA TypeLoop ==
  ASSUME TypeInv, NEW j \in Jobs, Request(j) \/ LoopStep(j)
  PROVE  TypeInv'
<1> USE DEF TypeInv, TypeOK, ResultReady, Pc, OnThread, apiVars, jobVars, poolVars, diskVars
<1>1. CASE Analyze(j)
  BY <1>1 DEF Analyze, Accept
<1>2. CASE AnalyzeSync(j)
  BY <1>2 DEF AnalyzeSync, Accept
<1>3. CASE PrepareFails(j)
  BY <1>3, FaultType DEF PrepareFails, FaultKind
<1>4. CASE SyncTimeout(j)
  BY <1>4 DEF SyncTimeout
<1>5. CASE DeletePop(j)
  BY <1>5 DEF DeletePop
<1>6. CASE SyncReturn(j)
  BY <1>6 DEF SyncReturn
<1>7. CASE DeleteUnlink(j)
  BY <1>7 DEF DeleteUnlink
<1>8. CASE DeleteRmdir(j)
  BY <1>8 DEF DeleteRmdir
<1> QED
  BY <1>1, <1>2, <1>3, <1>4, <1>5, <1>6, <1>7, <1>8 DEF Request, LoopStep

\* The steps of a pool thread keep the types.
LEMMA TypeThread ==
  ASSUME TypeInv, NEW j \in Jobs, ThreadStep(j)
  PROVE  TypeInv'
<1> USE DEF TypeInv, TypeOK, ResultReady, Pc, OnThread, apiVars, jobVars, poolVars, diskVars
<1>1. CASE Begin(j)
  BY <1>1 DEF Begin
<1>2. CASE BeginForgotten(j)
  BY <1>2 DEF BeginForgotten
<1>3. CASE SkipCancelled(j)
  BY <1>3 DEF SkipCancelled
<1>4. CASE Spawn(j)
  BY <1>4 DEF Spawn, WorkerStarts
<1>5. CASE SpawnError(j)
  BY <1>5, FaultType DEF SpawnError, WorkerStarts, FaultKind
<1>6. CASE SpawnRaises(j)
  BY <1>6, FaultType DEF SpawnRaises, WorkerStarts, FaultKind
<1>7. CASE WaitReturns(j)
  BY <1>7 DEF WaitReturns
<1>8. CASE WaitTimesOut(j)
  BY <1>8, FaultType DEF WaitTimesOut, FaultKind, NoFault
<1>9. CASE WaitRaises(j)
  BY <1>9, FaultType DEF WaitRaises, FaultKind
<1>10. CASE RemoveContainer(j)
  <2>1. faults' \subseteq Jobs \X FaultKind
    BY <1>10, FaultType DEF RemoveContainer, FaultKind, NoFault
  <2>2. pc' \in [Jobs -> Pc]
    BY <1>10 DEF RemoveContainer
  <2>3. container' \in [Jobs -> {"none", "created", "running", "exited"}]
    BY <1>10 DEF RemoveContainer
  <2> QED
    BY <1>10, <2>1, <2>2, <2>3 DEF RemoveContainer
<1>11. CASE Observe(j)
  <2>1. JobStatus(meta[j], obs[j]) \in Terminal
    BY <1>11, JobStatusIsTerminal DEF Observe
  <2>2. [status |-> JobStatus(meta[j], obs[j]), evidence |-> obs[j] # "none"] \in Report
    BY <2>1 DEF Report
  <2>3. "build" \in FaultKind
    BY DEF FaultKind
  <2>4. faults' \subseteq Jobs \X FaultKind
    BY <1>11, <2>3, FaultType DEF Observe, NoFault
  <2>5. result' \in [Jobs -> Report \cup {NoReport}]
    BY <1>11, <2>2 DEF Observe
  <2>6. pc' \in [Jobs -> Pc]
    BY <1>11 DEF Observe
  <2>7. ResultReady'
    <3>1. /\ pc'[j] = "raised" \/ (pc'[j] = "persist" /\ result'[j] \in Report)
          /\ \A i \in Jobs \ {j} : pc'[i] = pc[i] /\ result'[i] = result[i]
          /\ UNCHANGED meta
      BY <1>11, <2>2 DEF Observe
    <3> QED
      BY <3>1
  <2> QED
    BY <1>11, <2>4, <2>5, <2>6, <2>7 DEF Observe
<1>12. CASE PersistOpen(j)
  BY <1>12, FaultType DEF PersistOpen, FaultKind, NoFault
<1>13. CASE PersistWrite(j)
  BY <1>13, FaultType DEF PersistWrite, FaultKind, NoFault
<1>14. CASE Publish(j)
  <2>1. result[j] \in Report
    BY <1>14 DEF Publish
  <2>2. result[j].status \in Terminal
    BY <2>1, ReportHasStatus
  <2>3. CASE status[j] = "absent"
    <3>1. pc' = [pc EXCEPT ![j] = "raised"] /\ UNCHANGED jobVars
      BY <1>14, <2>3 DEF Publish
    <3>2. UNCHANGED <<apiVars, queue, meta, result, diskVars, waiter, container, faults>>
      BY <1>14 DEF Publish
    <3> QED
      BY <3>1, <3>2
  <2>4. CASE status[j] # "absent"
    <3>1. /\ status' = [status EXCEPT ![j] = result[j].status]
          /\ report' = [report EXCEPT ![j] = result[j]]
          /\ pc' = [pc EXCEPT ![j] = "done"]
      BY <1>14, <2>4 DEF Publish
    <3>2. /\ status' \in [Jobs -> {"absent", "queued", "running"} \cup Terminal]
          /\ report' \in [Jobs -> Report \cup {NoReport}]
          /\ pc' \in [Jobs -> Pc]
      BY <2>1, <2>2, <3>1
    <3>3. TypeOK'
      BY <1>14, <3>2 DEF Publish
    <3>4. ResultReady'
      BY <1>14, <3>1 DEF Publish
    <3> QED
      BY <3>3, <3>4
  <2> QED
    BY <2>3, <2>4
<1> QED
  BY <1>1, <1>2, <1>3, <1>4, <1>5, <1>6, <1>7, <1>8, <1>9, <1>10, <1>11, <1>12, <1>13, <1>14
     DEF ThreadStep

\* The worker, a crash, a restart and a stuttering step keep the types.
LEMMA TypeOther ==
  ASSUME TypeInv, (\E j \in Jobs : WorkerStep(j)) \/ Crash \/ Startup \/ UNCHANGED vars
  PROVE  TypeInv'
<1> USE DEF TypeInv, TypeOK, ResultReady, Pc, OnThread, apiVars, jobVars, poolVars, diskVars
<1>1. ASSUME NEW j \in Jobs, WorkerWrites(j) PROVE TypeInv'
  BY <1>1 DEF WorkerWrites
<1>2. ASSUME NEW j \in Jobs, WorkerExits(j) PROVE TypeInv'
  BY <1>2 DEF WorkerExits
<1>3. CASE Crash
  <2>1. crashes' \in 0..MaxCrashes
    BY <1>3, BoundAssumption DEF Crash
  <2>2. queue' \in Seq(Jobs)
    BY <1>3 DEF Crash
  <2>3. /\ pc' \in [Jobs -> Pc]
        /\ waiter' \in [Jobs -> {"none", "waiting", "answered", "failed", "gave_up"}]
    BY <1>3 DEF Crash
  <2>4. /\ status' \in [Jobs -> {"absent", "queued", "running"} \cup Terminal]
        /\ report' \in [Jobs -> Report \cup {NoReport}]
        /\ result' \in [Jobs -> Report \cup {NoReport}]
        /\ meta' \in [Jobs -> {"ok", "timeout", "error", "raise"}]
        /\ removing' \in [Jobs -> {"no", "unlink", "rmdir"}]
    BY <1>3 DEF Crash
  <2>5. TypeOK'
    BY <1>3, <2>1, <2>2, <2>3, <2>4 DEF Crash
  <2>6. ResultReady'
    BY <1>3 DEF Crash
  <2> QED
    BY <2>5, <2>6
<1>4. CASE Startup
  BY <1>4 DEF Startup, ReapOrphans, CleanupOldJobs, FaultKind
<1>5. CASE UNCHANGED vars
  BY <1>5 DEF vars
<1> QED
  BY <1>1, <1>2, <1>3, <1>4, <1>5 DEF WorkerStep

\* Every variable keeps its type in every behaviour of the service.
THEOREM TypeCorrect == Spec => []TypeOK
<1>1. TypeInv /\ [Next]_vars => TypeInv'
  BY TypeLoop, TypeThread, TypeOther DEF Next
<1>2. TypeInv => TypeOK
  BY DEF TypeInv
<1> QED
  BY TypeInit, <1>1, <1>2, PTL DEF Spec

-----------------------------------------------------------------------------
(* Containers: who owns them, and how many run.                            *)

\* The history of faults only grows, so a job that is unfaulted was so before.
LEMMA UnfaultedBefore ==
  ASSUME NEW k \in Jobs, NEW kinds, faults \subseteq faults', ~Faulted(k, kinds)'
  PROVE  ~Faulted(k, kinds)
BY DEF Faulted

\* A Docker fault that strikes job j marks it.
LEMMA FaultMarks ==
  ASSUME NEW j \in Jobs, NEW kinds, NEW k \in kinds, Fault(j, k)
  PROVE  Faulted(j, kinds)' /\ faults \subseteq faults'
BY DEF Fault, Faulted

\* Handlers of the event loop touch no container, and never take a job from a thread that
\* holds one (Holding steps are left by the thread alone).
LEMMA OrphanLoop ==
  ASSUME TypeInv, NoOrphan, NEW j \in Jobs, Request(j) \/ LoopStep(j)
  PROVE  NoOrphan'
<1>0. pc \in [Jobs -> Pc]
  BY DEF TypeInv, TypeOK
<1>1. UNCHANGED <<up, container>> /\ faults \subseteq faults'
  BY DEF Request, LoopStep, Analyze, AnalyzeSync, Accept, PrepareFails, SyncTimeout, SyncReturn,
         DeletePop, DeleteUnlink, DeleteRmdir, Fault, apiVars
<1>2. \A k \in Jobs : pc[k] \in Holding => pc'[k] = pc[k]
  BY <1>0 DEF Request, LoopStep, Analyze, AnalyzeSync, Accept, PrepareFails, SyncTimeout,
              SyncReturn, DeletePop, DeleteUnlink, DeleteRmdir, Fault, poolVars, Holding
<1> QED
  BY <1>1, <1>2, UnfaultedBefore DEF NoOrphan

\* run_worker owns its container from the moment containers.run returns until `finally`
\* has removed it; every other way out of those steps is a Docker fault of the job.
LEMMA OrphanThread ==
  ASSUME TypeInv, NoOrphan, NEW j \in Jobs, ThreadStep(j)
  PROVE  NoOrphan'
<1>0. /\ pc \in [Jobs -> Pc]
      /\ container \in [Jobs -> {"none", "created", "running", "exited"}]
  BY DEF TypeInv, TypeOK
<1> USE DEF NoOrphan, Holding, DockerFault, apiVars, poolVars
<1>1. CASE Begin(j)
  BY <1>0, <1>1 DEF Begin, Faulted
<1>2. CASE BeginForgotten(j)
  BY <1>0, <1>2 DEF BeginForgotten, Faulted
<1>3. CASE SkipCancelled(j)
  BY <1>0, <1>3 DEF SkipCancelled, Faulted
<1>4. CASE Spawn(j)
  BY <1>0, <1>4 DEF Spawn, WorkerStarts, Faulted
<1>5. CASE SpawnError(j)
  BY <1>0, <1>5, UnfaultedBefore, FaultMarks DEF SpawnError, WorkerStarts
<1>6. CASE SpawnRaises(j)
  BY <1>0, <1>6, UnfaultedBefore, FaultMarks DEF SpawnRaises, WorkerStarts
<1>7. CASE WaitReturns(j)
  BY <1>0, <1>7 DEF WaitReturns, Faulted
<1>8. CASE WaitTimesOut(j)
  BY <1>0, <1>8, UnfaultedBefore, FaultMarks DEF WaitTimesOut, NoFault
<1>9. CASE WaitRaises(j)
  BY <1>0, <1>9, UnfaultedBefore, FaultMarks DEF WaitRaises
<1>10. CASE RemoveContainer(j)
  BY <1>0, <1>10, UnfaultedBefore, FaultMarks DEF RemoveContainer, NoFault
<1>11. CASE Observe(j)
  BY <1>0, <1>11, UnfaultedBefore DEF Observe, NoFault, Fault
<1>12. CASE PersistOpen(j)
  BY <1>0, <1>12, UnfaultedBefore DEF PersistOpen, NoFault, Fault
<1>13. CASE PersistWrite(j)
  BY <1>0, <1>13, UnfaultedBefore DEF PersistWrite, NoFault, Fault
<1>14. CASE Publish(j)
  BY <1>0, <1>14 DEF Publish, Faulted
<1> QED
  BY <1>1, <1>2, <1>3, <1>4, <1>5, <1>6, <1>7, <1>8, <1>9, <1>10, <1>11, <1>12, <1>13, <1>14
     DEF ThreadStep

\* A worker writes and exits in its owner's hands; a crash makes NoOrphan vacuous until
\* Startup has reaped every container whose removal did not fail.
LEMMA OrphanOther ==
  ASSUME TypeInv, NoOrphan,
         (\E j \in Jobs : WorkerStep(j)) \/ Crash \/ Startup \/ UNCHANGED vars
  PROVE  NoOrphan'
<1>0. container \in [Jobs -> {"none", "created", "running", "exited"}]
  BY DEF TypeInv, TypeOK
<1>1. ASSUME NEW j \in Jobs, WorkerStep(j) PROVE NoOrphan'
  BY <1>0, <1>1 DEF WorkerStep, WorkerWrites, WorkerExits, NoOrphan, Faulted, apiVars, poolVars
<1>2. CASE Crash
  BY <1>2 DEF Crash, NoOrphan
<1>3. CASE Startup
  BY <1>3 DEF Startup, ReapOrphans, NoOrphan, Faulted, DockerFault
<1>4. CASE UNCHANGED vars
  BY <1>4 DEF vars, apiVars, poolVars, NoOrphan, Faulted
<1> QED
  BY <1>1, <1>2, <1>3, <1>4

\* "Nothing from a job outlives the job": no container is left without an owner by a job
\* that no Docker error has struck, through any number of crashes and restarts.
THEOREM ContainersOwned == Spec => []NoOrphan
<1>1. Init => TypeInv /\ NoOrphan
  BY TypeInit DEF Init, NoOrphan
<1>2. TypeInv /\ NoOrphan /\ [Next]_vars => (TypeInv /\ NoOrphan)'
  BY TypeLoop, TypeThread, TypeOther, OrphanLoop, OrphanThread, OrphanOther DEF Next
<1> QED
  BY <1>1, <1>2, PTL DEF Spec

\* The pool has no more jobs on its threads than threads.
BusyBounded == Cardinality(Busy) <= MaxConcurrentJobs

\* Cardinalities of sets of jobs.
LEMMA JobSets ==
  ASSUME NEW S \in SUBSET Jobs, NEW T \in SUBSET S
  PROVE  /\ IsFiniteSet(S) /\ Cardinality(S) \in Nat
         /\ Cardinality(T) \in Nat /\ Cardinality(T) <= Cardinality(S)
<1>1. IsFiniteSet(S)
  BY JobsAssumption, FS_Subset
<1>2. IsFiniteSet(T) /\ Cardinality(T) <= Cardinality(S)
  BY <1>1, FS_Subset
<1> QED
  BY <1>1, <1>2, FS_CardinalityType

\* A job comes to a thread only when the pool has room (Begin); no other step adds one.
LEMMA BusyStep ==
  ASSUME TypeInv, [Next]_vars
  PROVE  \/ Busy' \subseteq Busy
         \/ PoolHasRoom /\ \E j \in Jobs : Busy' \subseteq Busy \cup {j}
<1>0. pc \in [Jobs -> Pc]
  BY DEF TypeInv, TypeOK
<1> USE DEF Busy, OnThread
<1>1. ASSUME NEW j \in Jobs, Request(j) \/ LoopStep(j) PROVE Busy' \subseteq Busy
  BY <1>0, <1>1 DEF Request, LoopStep, Analyze, AnalyzeSync, Accept, PrepareFails, SyncTimeout,
                    SyncReturn, DeletePop, DeleteUnlink, DeleteRmdir, poolVars
<1>2. ASSUME NEW j \in Jobs, Begin(j)
      PROVE  PoolHasRoom /\ Busy' \subseteq Busy \cup {j}
  BY <1>0, <1>2 DEF Begin
<1>3. ASSUME NEW j \in Jobs, ThreadStep(j), ~Begin(j) PROVE Busy' \subseteq Busy
  BY <1>0, <1>3 DEF ThreadStep, BeginForgotten, SkipCancelled, Spawn, SpawnError, SpawnRaises,
       WaitReturns, WaitTimesOut, WaitRaises, RemoveContainer, Observe, PersistOpen,
       PersistWrite, Publish
<1>4. ASSUME NEW j \in Jobs, WorkerStep(j) PROVE Busy' \subseteq Busy
  BY <1>4 DEF WorkerStep, WorkerWrites, WorkerExits, poolVars
<1>5. CASE Crash
  BY <1>5 DEF Crash
<1>6. CASE Startup
  BY <1>6 DEF Startup, poolVars
<1>7. CASE UNCHANGED vars
  BY <1>7 DEF vars, poolVars
<1> QED
  BY <1>1, <1>2, <1>3, <1>4, <1>5, <1>6, <1>7 DEF Next

\* The pool never has more jobs on threads than it has threads.
LEMMA BusyBound ==
  ASSUME TypeInv, BusyBounded, [Next]_vars
  PROVE  BusyBounded'
<1>1. Busy \subseteq Jobs /\ Busy' \subseteq Jobs
  BY DEF Busy
<1>2. MaxConcurrentJobs \in Nat
  BY PoolAssumption
<1>3. CASE Busy' \subseteq Busy
  BY <1>1, <1>2, <1>3, JobSets DEF BusyBounded
<1>4. ASSUME PoolHasRoom, NEW j \in Jobs, Busy' \subseteq Busy \cup {j}
      PROVE  BusyBounded'
  <2>1. IsFiniteSet(Busy) /\ Cardinality(Busy) \in Nat
    BY <1>1, JobSets
  <2>2. Cardinality(Busy \cup {j}) <= Cardinality(Busy) + 1
    <3>1. Cardinality(Busy \cup {j}) = IF j \in Busy THEN Cardinality(Busy)
                                        ELSE Cardinality(Busy) + 1
      BY <2>1, FS_AddElement, Zenon
    <3> QED
      BY <2>1, <3>1
  <2>3. /\ Cardinality(Busy') <= Cardinality(Busy \cup {j})
        /\ Cardinality(Busy \cup {j}) \in Nat /\ Cardinality(Busy') \in Nat
    BY <1>1, <1>4, JobSets
  <2> QED
    BY <1>2, <1>4, <2>1, <2>2, <2>3 DEF PoolHasRoom, BusyBounded
<1> QED
  BY <1>3, <1>4, BusyStep

\* While the process is down nothing starts a worker: a crash keeps those that run, and
\* they can only stop.
LEMMA DownStartsNothing ==
  ASSUME TypeInv, [Next]_vars, ~up'
  PROVE  HealthyWorkers' \subseteq HealthyWorkers
<1>0. container \in [Jobs -> {"none", "created", "running", "exited"}]
  BY DEF TypeInv, TypeOK
<1> USE DEF HealthyWorkers, Faulted
<1>1. ASSUME NEW j \in Jobs, Request(j) \/ LoopStep(j) PROVE FALSE
  BY <1>1 DEF Request, LoopStep, Analyze, AnalyzeSync, Accept, PrepareFails, SyncTimeout,
              SyncReturn, DeletePop, DeleteUnlink, DeleteRmdir, LoopFree, apiVars
<1>2. ASSUME NEW j \in Jobs, ThreadStep(j) PROVE FALSE
  BY <1>2 DEF ThreadStep, Begin, BeginForgotten, SkipCancelled, Spawn, SpawnError, SpawnRaises,
       WaitReturns, WaitTimesOut, WaitRaises, RemoveContainer, Observe, PersistOpen,
       PersistWrite, Publish, apiVars
<1>3. ASSUME NEW j \in Jobs, WorkerStep(j) PROVE HealthyWorkers' \subseteq HealthyWorkers
  BY <1>0, <1>3 DEF WorkerStep, WorkerWrites, WorkerExits
<1>4. CASE Crash
  BY <1>4 DEF Crash
<1>5. CASE Startup
  BY <1>5 DEF Startup
<1>6. CASE UNCHANGED vars
  BY <1>6 DEF vars
<1> QED
  BY <1>1, <1>2, <1>3, <1>4, <1>5, <1>6 DEF Next

PoolInv == TypeInv /\ NoOrphan /\ BusyBounded /\ WorkersBounded

\* "The bound is the real concurrency limit for the whole service": with Docker's calls
\* succeeding, no more workers run than the pool has threads, through crashes and restarts.
\* While the API serves, every healthy worker has its thread (NoOrphan) and threads are
\* bounded; while it is down, the set of healthy workers can only shrink.
THEOREM ConcurrencyLimit == Spec => []WorkersBounded
<1>1. Init => PoolInv
  <2> SUFFICES ASSUME Init PROVE PoolInv
    OBVIOUS
  <2>1. Busy = {} /\ HealthyWorkers = {}
    BY DEF Init, Busy, OnThread, HealthyWorkers
  <2>2. Cardinality({}) = 0 /\ 0 <= MaxConcurrentJobs
    BY FS_EmptySet, PoolAssumption
  <2> QED
    BY <2>1, <2>2, TypeInit DEF PoolInv, Init, NoOrphan, BusyBounded, WorkersBounded
<1>2. PoolInv /\ [Next]_vars => PoolInv'
  <2> SUFFICES ASSUME PoolInv, [Next]_vars PROVE PoolInv'
    OBVIOUS
  <2>1. TypeInv' /\ NoOrphan'
    BY TypeLoop, TypeThread, TypeOther, OrphanLoop, OrphanThread, OrphanOther
       DEF PoolInv, Next
  <2>2. BusyBounded'
    BY BusyBound DEF PoolInv
  <2>3. MaxConcurrentJobs \in Nat
    BY PoolAssumption
  <2>4. CASE up'
    <3>1. HealthyWorkers' \subseteq Busy' /\ Busy' \subseteq Jobs
      BY <2>1, <2>4 DEF HealthyWorkers, Busy, NoOrphan, Holding, OnThread
    <3> QED
      BY <2>1, <2>2, <2>3, <3>1, JobSets DEF PoolInv, BusyBounded, WorkersBounded
  <2>5. CASE ~up'
    <3>1. HealthyWorkers' \subseteq HealthyWorkers /\ HealthyWorkers \subseteq Jobs
      BY <2>5, DownStartsNothing DEF PoolInv, HealthyWorkers
    <3> QED
      BY <2>1, <2>2, <2>3, <3>1, JobSets DEF PoolInv, WorkersBounded
  <2> QED
    BY <2>4, <2>5
<1>3. PoolInv => WorkersBounded
  BY DEF PoolInv
<1> QED
  BY <1>1, <1>2, <1>3, PTL DEF Spec

-----------------------------------------------------------------------------
(* Durability: memory and disk agree about a published report.             *)

\* What makes PublishedIsDurable inductive.  Only deletions, failed submissions and the
\* pruning at startup take a directory or a file away, and none of them meets a job that
\* _jobs still holds; so a job that is in _jobs finds the file of its thread as it left it.
RecordInv ==
  \A j \in Jobs : status[j] # "absent" =>
    /\ up
    /\ removing[j] = "no"
    /\ pc[j] # "idle"
    /\ dir[j] = "laid"
    /\ pc[j] = "write" => saved[j] = Truncated
    /\ pc[j] = "publish" /\ ~Faulted(j, {"disk"}) => saved[j] = result[j]
    /\ status[j] \in Terminal => pc[j] = "done"

DurableInv == TypeInv /\ RecordInv /\ PublishedIsDurable

\* Handlers of the event loop: delete_job pops the record before it touches the file, so no
\* served report loses its copy on disk.
LEMMA DurableLoop ==
  ASSUME DurableInv, NEW j \in Jobs, Request(j) \/ LoopStep(j)
  PROVE  RecordInv' /\ PublishedIsDurable'
<1>0. /\ pc \in [Jobs -> Pc] /\ dir \in [Jobs -> {"none", "bare", "laid"}]
      /\ status \in [Jobs -> {"absent", "queued", "running"} \cup Terminal]
      /\ report \in [Jobs -> Report \cup {NoReport}]
      /\ removing \in [Jobs -> {"no", "unlink", "rmdir"}]
      /\ obs \in [Jobs -> {"none", "completed", "failed"}]
      /\ saved \in [Jobs -> Report \cup {NoReport, Truncated}]
  BY DEF DurableInv, TypeInv, TypeOK
<1> USE DEF DurableInv, RecordInv, PublishedIsDurable, apiVars, jobVars, poolVars, diskVars
<1>1. CASE Accept(j)
  BY <1>0, <1>1 DEF Accept, LoopFree, Faulted, Terminal
<1>2. CASE PrepareFails(j)
  BY <1>0, <1>2, UnfaultedBefore DEF PrepareFails, Fault
<1>3. CASE SyncTimeout(j)
  BY <1>0, <1>3 DEF SyncTimeout, Faulted
<1>4. CASE DeletePop(j)
  BY <1>0, <1>4 DEF DeletePop, Faulted, Terminal
<1>5. CASE SyncReturn(j)
  BY <1>0, <1>5 DEF SyncReturn, Faulted
<1>6. CASE DeleteUnlink(j)
  BY <1>0, <1>6 DEF DeleteUnlink, Faulted, Terminal
<1>7. CASE DeleteRmdir(j)
  BY <1>0, <1>7 DEF DeleteRmdir, Faulted, Terminal
<1> QED
  BY <1>1, <1>2, <1>3, <1>4, <1>5, <1>6, <1>7 DEF Request, LoopStep, Analyze, AnalyzeSync

\* A pool thread publishes only what it has just written, and writes only before it publishes.
LEMMA DurableThread ==
  ASSUME DurableInv, NEW j \in Jobs, ThreadStep(j)
  PROVE  RecordInv' /\ PublishedIsDurable'
<1>0. /\ pc \in [Jobs -> Pc] /\ dir \in [Jobs -> {"none", "bare", "laid"}]
      /\ status \in [Jobs -> {"absent", "queued", "running"} \cup Terminal]
      /\ report \in [Jobs -> Report \cup {NoReport}]
      /\ result \in [Jobs -> Report \cup {NoReport}]
      /\ saved \in [Jobs -> Report \cup {NoReport, Truncated}]
  BY DEF DurableInv, TypeInv, TypeOK
<1> USE DEF DurableInv, RecordInv, PublishedIsDurable, apiVars, jobVars, poolVars, diskVars
<1>1. CASE Begin(j)
  BY <1>0, <1>1 DEF Begin, Faulted, Terminal
<1>2. CASE BeginForgotten(j)
  BY <1>0, <1>2 DEF BeginForgotten, Faulted, Terminal
<1>3. CASE SkipCancelled(j)
  BY <1>0, <1>3 DEF SkipCancelled, Faulted
<1>4. CASE Spawn(j)
  BY <1>0, <1>4 DEF Spawn, WorkerStarts, Faulted
<1>5. CASE SpawnError(j)
  BY <1>0, <1>5, UnfaultedBefore DEF SpawnError, WorkerStarts, Fault
<1>6. CASE SpawnRaises(j)
  BY <1>0, <1>6, UnfaultedBefore DEF SpawnRaises, WorkerStarts, Fault
<1>7. CASE WaitReturns(j)
  BY <1>0, <1>7 DEF WaitReturns, Faulted
<1>8. CASE WaitTimesOut(j)
  BY <1>0, <1>8, UnfaultedBefore DEF WaitTimesOut, Fault, NoFault
<1>9. CASE WaitRaises(j)
  BY <1>0, <1>9, UnfaultedBefore DEF WaitRaises, Fault
<1>10. CASE RemoveContainer(j)
  BY <1>0, <1>10, UnfaultedBefore DEF RemoveContainer, Fault, NoFault
<1>11. CASE Observe(j)
  <2>1. /\ UNCHANGED <<apiVars, jobVars, queue, meta, diskVars>>
        /\ faults \subseteq faults'
        /\ pc[j] = "observe" /\ pc'[j] \in {"persist", "raised"}
    BY <1>0, <1>11 DEF Observe, NoFault, Fault
  <2>2. \A i \in Jobs \ {j} : pc'[i] = pc[i] /\ result'[i] = result[i]
    BY <1>0, <1>11 DEF Observe
  <2>3. status[j] # "absent" => status[j] \notin Terminal
    BY <2>1
  <2> QED
    BY <1>0, <2>1, <2>2, <2>3, UnfaultedBefore
<1>12. CASE PersistOpen(j)
  <2>0. pc[j] = "persist" /\ UNCHANGED <<apiVars, jobVars, queue, meta, result, dir, obs>>
    BY <1>12 DEF PersistOpen
  <2>1. CASE Fault(j, "disk") /\ pc' = [pc EXCEPT ![j] = "publish"] /\ UNCHANGED saved
    <3>1. faults \subseteq faults' /\ Faulted(j, {"disk"})'
      BY <2>1, FaultMarks
    <3> QED
      BY <1>0, <2>0, <2>1, <3>1, UnfaultedBefore
  <2>2. CASE NoFault /\ dir[j] # "laid" /\ pc' = [pc EXCEPT ![j] = "publish"] /\ UNCHANGED saved
    BY <1>0, <2>0, <2>2 DEF NoFault, Faulted, Terminal
  <2>3. CASE /\ NoFault
             /\ pc' = [pc EXCEPT ![j] = "write"]
             /\ saved' = [saved EXCEPT ![j] = Truncated]
    <3>1. \A k \in Jobs : Faulted(k, {"disk"})' <=> Faulted(k, {"disk"})
      BY <2>3 DEF NoFault, Faulted
    <3>2. status[j] \notin Terminal
      BY <2>0 DEF Terminal
    <3>3. \A k \in Jobs \ {j} : pc'[k] = pc[k] /\ saved'[k] = saved[k]
      BY <1>0, <2>3
    <3>4. pc'[j] = "write" /\ saved'[j] = Truncated
      BY <1>0, <2>3
    <3> QED
      BY <2>0, <3>1, <3>2, <3>3, <3>4
  <2> QED
    BY <1>12, <2>1, <2>2, <2>3 DEF PersistOpen
<1>13. CASE PersistWrite(j)
  <2>1. CASE Fault(j, "disk")
    <3>1. faults \subseteq faults' /\ Faulted(j, {"disk"})'
      BY <2>1, FaultMarks
    <3>2. \A k \in Jobs \ {j} : saved'[k] = saved[k] /\ pc'[k] = pc[k]
      BY <1>0, <1>13 DEF PersistWrite
    <3>3. pc'[j] = "publish" /\ UNCHANGED <<apiVars, jobVars, queue, meta, result, dir>>
      BY <1>0, <1>13 DEF PersistWrite
    <3>4. pc[j] = "write"
      BY <1>13 DEF PersistWrite
    <3> QED
      BY <3>1, <3>2, <3>3, <3>4, UnfaultedBefore
  <2>2. CASE NoFault
    <3>1. /\ pc[j] = "write"
          /\ pc' = [pc EXCEPT ![j] = "publish"]
          /\ UNCHANGED <<apiVars, jobVars, queue, meta, result, dir, faults>>
      BY <1>13, <2>2 DEF PersistWrite, NoFault
    <3>2. \A k \in Jobs \ {j} : saved'[k] = saved[k]
      BY <1>0, <1>13 DEF PersistWrite
    <3>3. CASE status[j] = "absent"
      BY <1>0, <3>1, <3>2, <3>3 DEF Faulted, Terminal
    <3>4. CASE status[j] # "absent"
      <4>1. saved'[j] = result[j] \/ (saved' = saved /\ Fault(j, "disk"))
        BY <1>0, <1>13, <3>1, <3>4 DEF PersistWrite
      <4>2. \A k \in Jobs : Faulted(k, {"disk"})' <=> Faulted(k, {"disk"})
        BY <3>1 DEF Faulted
      <4>3. ~Faulted(j, {"disk"})' => saved'[j] = result[j]
        BY <4>1, FaultMarks
      <4>4. status[j] \notin Terminal
        BY <3>1, <3>4
      <4> QED
        BY <1>0, <3>1, <3>2, <3>4, <4>2, <4>3, <4>4
    <3> QED
      BY <3>3, <3>4
  <2> QED
    BY <1>13, <2>1, <2>2 DEF PersistWrite
<1>14. CASE Publish(j)
  <2>0. UNCHANGED <<apiVars, queue, meta, result, diskVars, faults>> /\ pc[j] = "publish"
    BY <1>14 DEF Publish
  <2>1. CASE status[j] = "absent"
    <3>1. pc' = [pc EXCEPT ![j] = "raised"] /\ UNCHANGED jobVars
      BY <1>14, <2>1 DEF Publish
    <3> QED
      BY <1>0, <2>0, <2>1, <3>1 DEF Faulted, Terminal
  <2>2. CASE status[j] # "absent"
    <3>1. /\ status' = [status EXCEPT ![j] = result[j].status]
          /\ report' = [report EXCEPT ![j] = result[j]]
          /\ pc' = [pc EXCEPT ![j] = "done"]
      BY <1>14, <2>2 DEF Publish
    <3> QED
      BY <1>0, <2>0, <2>2, <3>1 DEF Faulted
  <2> QED
    BY <2>1, <2>2
<1> QED
  BY <1>1, <1>2, <1>3, <1>4, <1>5, <1>6, <1>7, <1>8, <1>9, <1>10, <1>11, <1>12, <1>13, <1>14
     DEF ThreadStep

\* A crash and a startup leave no record in memory, and the worker never touches report.json.
LEMMA DurableOther ==
  ASSUME DurableInv, (\E j \in Jobs : WorkerStep(j)) \/ Crash \/ Startup \/ UNCHANGED vars
  PROVE  RecordInv' /\ PublishedIsDurable'
<1> USE DEF DurableInv, RecordInv, PublishedIsDurable, apiVars, jobVars, poolVars, diskVars
<1>1. ASSUME NEW j \in Jobs, WorkerStep(j) PROVE RecordInv' /\ PublishedIsDurable'
  BY <1>1 DEF WorkerStep, WorkerWrites, WorkerExits, Faulted
<1>2. CASE Crash
  BY <1>2 DEF Crash, Terminal
<1>3. CASE Startup
  BY <1>3 DEF Startup, Terminal
<1>4. CASE UNCHANGED vars
  BY <1>4 DEF vars, Faulted
<1> QED
  BY <1>1, <1>2, <1>3, <1>4

\* "Persist next to the sample so a report survives an API restart": unless writing it
\* failed, a report the API serves from memory is the one on disk.
THEOREM ReportsAreDurable == Spec => []PublishedIsDurable
<1>1. Init => DurableInv
  <2>1. Init => RecordInv /\ PublishedIsDurable
    BY DEF Init, RecordInv, PublishedIsDurable, Terminal
  <2> QED
    BY <2>1, TypeInit DEF DurableInv
<1>2. DurableInv /\ [Next]_vars => DurableInv'
  <2> SUFFICES ASSUME DurableInv, [Next]_vars PROVE DurableInv'
    OBVIOUS
  <2>1. TypeInv'
    BY TypeLoop, TypeThread, TypeOther DEF DurableInv, Next
  <2>2. RecordInv' /\ PublishedIsDurable'
    BY DurableLoop, DurableThread, DurableOther DEF Next
  <2> QED
    BY <2>1, <2>2 DEF DurableInv
<1>3. DurableInv => PublishedIsDurable
  BY DEF DurableInv
<1> QED
  BY <1>1, <1>2, <1>3, PTL DEF Spec

-----------------------------------------------------------------------------
(* Evidence: what "completed" says about the worker.                       *)

\* The faults after which run_worker never had a worker that ran to its end.
LaunchFault == {"create", "start", "reload"}

\* The steps of a job before its report is built; BeforeSpawn also before its container.
BeforeSpawn  == {"idle", "queued", "cancelled", "spawn"}
BeforeReport == BeforeSpawn \cup {"wait", "remove", "observe"}

\* What makes CompletedHasEvidence inductive: a launch fault strikes a job that has no
\* report anywhere yet, and from then on its metadata says "error" until the report is built.
LaunchInv ==
  \A j \in Jobs :
    /\ pc[j] \in BeforeSpawn
         => report[j] = NoReport /\ result[j] = NoReport /\ saved[j] = NoReport
    /\ pc[j] \in BeforeReport /\ Faulted(j, LaunchFault)
         => pc[j] \in {"remove", "observe"} /\ meta[j] = "error"

EvidenceInv == TypeInv /\ LaunchInv /\ CompletedHasEvidence

\* _run_job's choice of the status (main.py): "completed" needs metadata without an error
\* or a timeout, and observations that say so.
LEMMA JobStatusCompleted ==
  ASSUME NEW m, NEW o, JobStatus(m, o) = "completed"
  PROVE  m # "error" /\ o = "completed"
BY DEF JobStatus

\* A fault of another kind leaves a job without a launch fault.
LEMMA FaultsApart ==
  ASSUME NEW j \in Jobs, NEW k \in FaultKind \ LaunchFault, Fault(j, k)
  PROVE  \A i \in Jobs : Faulted(i, LaunchFault)' <=> Faulted(i, LaunchFault)
BY DEF Fault, Faulted, LaunchFault

\* NoReport and Truncated are not completed.
LEMMA NotCompleted == NoReport.status # "completed" /\ Truncated.status # "completed"
BY DEF NoReport, Truncated

\* Handlers only take reports away.
LEMMA EvidenceLoop ==
  ASSUME EvidenceInv, NEW j \in Jobs, Request(j) \/ LoopStep(j)
  PROVE  LaunchInv' /\ CompletedHasEvidence'
<1>0. /\ pc \in [Jobs -> Pc]
      /\ report \in [Jobs -> Report \cup {NoReport}]
      /\ saved \in [Jobs -> Report \cup {NoReport, Truncated}]
  BY DEF EvidenceInv, TypeInv, TypeOK
<1>1. \A i \in Jobs : Faulted(i, LaunchFault)' <=> Faulted(i, LaunchFault)
  <2>1. CASE PrepareFails(j)
    BY <2>1, FaultsApart DEF PrepareFails, FaultKind, LaunchFault
  <2>2. CASE ~PrepareFails(j)
    BY <2>2 DEF Request, LoopStep, Analyze, AnalyzeSync, Accept, SyncTimeout, SyncReturn,
                DeletePop, DeleteUnlink, DeleteRmdir, Faulted
  <2> QED
    BY <2>1, <2>2
<1>2. \A i \in Jobs : /\ report'[i] \in {report[i], NoReport}
                      /\ saved'[i] \in {saved[i], NoReport}
                      /\ result'[i] = result[i] /\ meta'[i] = meta[i]
                      /\ pc'[i] \in BeforeReport => pc[i] \in BeforeReport
                      /\ pc'[i] \in BeforeSpawn => pc[i] \in BeforeSpawn
                      /\ pc[i] \in {"remove", "observe"} => pc'[i] = pc[i]
  BY <1>0 DEF Request, LoopStep, Analyze, AnalyzeSync, Accept, PrepareFails, SyncTimeout,
              SyncReturn, DeletePop, DeleteUnlink, DeleteRmdir, apiVars, jobVars, poolVars,
              diskVars, BeforeReport, BeforeSpawn
<1> QED
  BY <1>1, <1>2, NotCompleted DEF EvidenceInv, LaunchInv, CompletedHasEvidence, LaunchFault

\* A thread reports "completed" only for a worker that it started, waited for and removed.
LEMMA EvidenceThread ==
  ASSUME EvidenceInv, NEW j \in Jobs, ThreadStep(j)
  PROVE  LaunchInv' /\ CompletedHasEvidence'
<1>0. /\ pc \in [Jobs -> Pc]
      /\ meta \in [Jobs -> {"ok", "timeout", "error", "raise"}]
      /\ report \in [Jobs -> Report \cup {NoReport}]
      /\ result \in [Jobs -> Report \cup {NoReport}]
      /\ saved \in [Jobs -> Report \cup {NoReport, Truncated}]
  BY DEF EvidenceInv, TypeInv, TypeOK
<1> DEFINE Fine(i, r) == r.status = "completed" => r.evidence /\ ~Faulted(i, LaunchFault)
<1>1. LaunchInv /\ \A i \in Jobs : Fine(i, report[i]) /\ Fine(i, result[i]) /\ Fine(i, saved[i])
  BY DEF EvidenceInv, CompletedHasEvidence, LaunchFault
<1>2. /\ LaunchInv'
      /\ \A i \in Jobs : Fine(i, report[i])' /\ Fine(i, result[i])' /\ Fine(i, saved[i])'
  <2>1. CASE SpawnError(j)
    <3>1. faults \subseteq faults' /\ \A i \in Jobs \ {j} : Faulted(i, LaunchFault)' <=> Faulted(i, LaunchFault)
      BY <2>1 DEF SpawnError, Fault, Faulted
    <3>2. UNCHANGED <<report, result, saved>> /\ pc[j] = "spawn"
      BY <2>1 DEF SpawnError, jobVars, diskVars
    <3>3. /\ pc'[j] \in {"remove", "observe"} /\ meta'[j] = "error"
          /\ \A i \in Jobs \ {j} : pc'[i] = pc[i] /\ meta'[i] = meta[i]
      BY <1>0, <2>1 DEF SpawnError
    <3>4. report[j] = NoReport /\ result[j] = NoReport /\ saved[j] = NoReport
      BY <1>1, <3>2 DEF LaunchInv, BeforeSpawn
    <3>5. LaunchInv'
      BY <1>1, <3>1, <3>2, <3>3 DEF LaunchInv, BeforeSpawn, BeforeReport
    <3> QED
      BY <1>1, <3>1, <3>2, <3>4, <3>5, NotCompleted
  <2>2. CASE ~SpawnError(j)
    <3>1. \A i \in Jobs : Faulted(i, LaunchFault)' <=> Faulted(i, LaunchFault)
      <4>1. CASE UNCHANGED faults
        BY <4>1 DEF Faulted
      <4>2. CASE \E k \in FaultKind \ LaunchFault : Fault(j, k)
        BY <4>2, FaultsApart
      <4> QED
        BY <2>2, <4>1, <4>2
           DEF ThreadStep, Begin, BeginForgotten, SkipCancelled, Spawn, SpawnRaises,
               WaitReturns, WaitTimesOut, WaitRaises, RemoveContainer, Observe, PersistOpen,
               PersistWrite, Publish, NoFault, FaultKind, LaunchFault
    <3>2. CASE Observe(j) /\ pc'[j] = "persist"
      <4>1. pc[j] = "observe" /\ UNCHANGED <<report, saved, meta>>
        BY <3>2 DEF Observe, jobVars, diskVars
      <4>2. /\ result'[j] = [status |-> JobStatus(meta[j], obs[j]), evidence |-> obs[j] # "none"]
            /\ \A i \in Jobs \ {j} : result'[i] = result[i] /\ pc'[i] = pc[i]
            /\ pc'[j] = "persist"
        BY <1>0, <3>2 DEF Observe
      <4>3. Fine(j, result[j])'
        <5>1. /\ result'[j].status = JobStatus(meta[j], obs[j])
              /\ result'[j].evidence = (obs[j] # "none")
          BY <4>2
        <5>2. Faulted(j, LaunchFault) => meta[j] = "error"
          BY <1>1, <4>1 DEF LaunchInv, BeforeReport
        <5>3. JobStatus(meta[j], obs[j]) = "completed" => meta[j] # "error" /\ obs[j] = "completed"
          BY JobStatusCompleted
        <5> QED
          BY <3>1, <5>1, <5>2, <5>3
      <4>4. LaunchInv'
        BY <1>1, <3>1, <4>1, <4>2 DEF LaunchInv, BeforeSpawn, BeforeReport
      <4> QED
        BY <1>1, <3>1, <4>1, <4>2, <4>3, <4>4
    <3>3. CASE ~(Observe(j) /\ pc'[j] = "persist")
      <4>1. UNCHANGED result
        BY <1>0, <2>2, <3>3 DEF ThreadStep, Begin, BeginForgotten, SkipCancelled, Spawn, SpawnRaises,
               WaitReturns, WaitTimesOut, WaitRaises, RemoveContainer, Observe, PersistOpen,
               PersistWrite, Publish
      <4>2. \A i \in Jobs : /\ report'[i] \in {report[i], result[i]}
                            /\ saved'[i] \in {saved[i], result[i], Truncated}
                            /\ pc'[i] \in BeforeSpawn => report'[i] = report[i] /\ saved'[i] = saved[i]
        BY <1>0, <2>2, <3>3
           DEF ThreadStep, Begin, BeginForgotten, SkipCancelled, Spawn, SpawnRaises,
               WaitReturns, WaitTimesOut, WaitRaises, RemoveContainer, Observe, PersistOpen,
               PersistWrite, Publish, jobVars, diskVars, BeforeSpawn
      <4>3. \A i \in Jobs : /\ pc'[i] \in BeforeSpawn => pc[i] \in BeforeSpawn
                            /\ pc'[i] \in BeforeReport => pc[i] \in BeforeReport
        BY <1>0, <2>2, <3>3
           DEF ThreadStep, Begin, BeginForgotten, SkipCancelled, Spawn, SpawnRaises,
               WaitReturns, WaitTimesOut, WaitRaises, RemoveContainer, Observe, PersistOpen,
               PersistWrite, Publish, BeforeSpawn, BeforeReport
      <4>4. \A i \in Jobs : pc[i] \in {"remove", "observe"} /\ pc'[i] \in BeforeReport
              => pc'[i] \in {"remove", "observe"} /\ meta'[i] = meta[i]
        BY <1>0, <2>2, <3>3
           DEF ThreadStep, Begin, BeginForgotten, SkipCancelled, Spawn, SpawnRaises,
               WaitReturns, WaitTimesOut, WaitRaises, RemoveContainer, Observe, PersistOpen,
               PersistWrite, Publish, BeforeSpawn, BeforeReport
      <4>5. LaunchInv'
        BY <1>1, <3>1, <4>1, <4>2, <4>3, <4>4 DEF LaunchInv
      <4> QED
        BY <1>1, <3>1, <4>1, <4>2, <4>5, NotCompleted
    <3> QED
      BY <3>2, <3>3
  <2> QED
    BY <2>1, <2>2
<1> QED
  BY <1>2 DEF CompletedHasEvidence, LaunchFault

\* The worker writes no report, a crash forgets the reports in memory, and a startup prunes
\* some on disk.
LEMMA EvidenceOther ==
  ASSUME EvidenceInv, (\E j \in Jobs : WorkerStep(j)) \/ Crash \/ Startup \/ UNCHANGED vars
  PROVE  LaunchInv' /\ CompletedHasEvidence'
<1> USE DEF EvidenceInv, LaunchInv, CompletedHasEvidence, LaunchFault, apiVars, jobVars,
            poolVars, diskVars
<1>1. ASSUME NEW j \in Jobs, WorkerStep(j) PROVE LaunchInv' /\ CompletedHasEvidence'
  BY <1>1 DEF WorkerStep, WorkerWrites, WorkerExits, Faulted
<1>2. CASE Crash
  BY <1>2, NotCompleted DEF Crash, Faulted, BeforeSpawn, BeforeReport
<1>3. CASE Startup
  <2>1. \A i \in Jobs : Faulted(i, LaunchFault)' <=> Faulted(i, LaunchFault)
    BY <1>3 DEF Startup, ReapOrphans, Faulted
  <2>2. /\ UNCHANGED <<report, result, pc, meta>>
        /\ \A i \in Jobs : saved'[i] \in {saved[i], NoReport}
    BY <1>3 DEF Startup, CleanupOldJobs
  <2> QED
    BY <2>1, <2>2, NotCompleted
<1>4. CASE UNCHANGED vars
  BY <1>4 DEF vars, Faulted
<1> QED
  BY <1>1, <1>2, <1>3, <1>4

\* A report that says "completed" - in memory, on disk or about to be published - carries
\* the worker's evidence, and is not about a container that never came up.
THEOREM CompletedMeansEvidence == Spec => []CompletedHasEvidence
<1>1. Init => EvidenceInv
  <2>1. Init => LaunchInv /\ CompletedHasEvidence
    BY NotCompleted DEF Init, LaunchInv, CompletedHasEvidence, Faulted
  <2> QED
    BY <2>1, TypeInit DEF EvidenceInv
<1>2. EvidenceInv /\ [Next]_vars => EvidenceInv'
  <2> SUFFICES ASSUME EvidenceInv, [Next]_vars PROVE EvidenceInv'
    OBVIOUS
  <2>1. TypeInv'
    BY TypeLoop, TypeThread, TypeOther DEF EvidenceInv, Next
  <2>2. LaunchInv' /\ CompletedHasEvidence'
    BY EvidenceLoop, EvidenceThread, EvidenceOther DEF Next
  <2> QED
    BY <2>1, <2>2 DEF EvidenceInv
<1>3. EvidenceInv => CompletedHasEvidence
  BY DEF EvidenceInv
<1> QED
  BY <1>1, <1>2, <1>3, PTL DEF Spec
=============================================================================
