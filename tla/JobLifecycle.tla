---------------------------- MODULE JobLifecycle ----------------------------
(***************************************************************************)
(* The life of an analysis job: the FastAPI handlers on the event loop     *)
(* (main.py), the pool threads that run _run_job and run_worker (main.py,  *)
(* orchestrator.py), the worker containers they own, the job directory on  *)
(* the shared disk, and what a crash and a restart of the API leave.       *)
(*                                                                         *)
(* Actors that interleave: the event loop (one handler at a time, and      *)
(* delete_job blocks it while it removes a tree), MaxConcurrentJobs pool   *)
(* threads, one worker container per job, the Docker daemon, the process.  *)
(***************************************************************************)
EXTENDS Naturals, Sequences, FiniteSets, ReportBuild

CONSTANTS Jobs,               \* job ids; uuid4, so an id is submitted at most once
          SyncJobs,           \* those submitted with POST /v1/analyze/sync
          DeletableJobs,      \* those that somebody may delete
          MaxConcurrentJobs,  \* the size of the thread pool
          MaxCrashes,         \* bound: how often the process may die
          MaxFaults           \* bound: how many I/O and Docker errors may happen

ASSUME JobsAssumption  == IsFiniteSet(Jobs) /\ SyncJobs \subseteq Jobs /\ DeletableJobs \subseteq Jobs
ASSUME PoolAssumption  == MaxConcurrentJobs \in Nat \ {0}
ASSUME BoundAssumption == MaxCrashes \in Nat /\ MaxFaults \in Nat

VARIABLES
  up,         \* the API process serves requests
  crashes,    \* how often it died
  status,     \* _jobs[j]["status"], "absent" when j is no key of _jobs
  report,     \* _jobs[j]["report"], NoReport for None
  queue,      \* the executor's work queue, first in first out
  pc,         \* how far job j is in _run_job
  meta,       \* run_worker's metadata: "ok", "timeout", "error"; "raise": an
              \* exception no handler catches is on its way through `finally`
  result,     \* the report _run_job has built
  waiter,     \* the analyze_sync call of job j
  container,  \* the worker container of job j
  dir,        \* the job directory: "laid" with its output/ directory, "bare" without
  obs,        \* output/observations.json: the status the worker wrote, or "none"
  saved,      \* output/report.json
  removing,   \* how far delete_job's rmtree is in the directory of job j
  faults      \* <<job, kind>> of every error that happened (history)

apiVars  == <<up, crashes, removing>>
jobVars  == <<status, report>>
poolVars == <<queue, pc, meta, result>>
diskVars == <<dir, obs, saved>>
vars == <<apiVars, jobVars, poolVars, diskVars, waiter, container, faults>>

\* A report is kept down to its status and whether the worker's evidence is in it.
Report    == [status : Terminal, evidence : BOOLEAN]
NoReport  == [status |-> "none", evidence |-> FALSE]
Truncated == [status |-> "truncated", evidence |-> FALSE]

\* The steps of _run_job, and the steps during which it holds a container.
OnThread == {"spawn", "wait", "remove", "observe", "persist", "write", "publish"}
Holding  == {"wait", "remove"}
Pc       == OnThread \cup {"idle", "queued", "done", "raised", "cancelled", "gone"}

FaultKind == {"prepare", "create", "start", "reload", "raise", "kill", "remove",
              "build", "disk", "reap"}
DockerFault == {"create", "start", "reload", "raise", "kill", "remove", "reap"}

TypeOK ==
  /\ up \in BOOLEAN
  /\ crashes \in 0..MaxCrashes
  /\ status \in [Jobs -> {"absent", "queued", "running"} \cup Terminal]
  /\ report \in [Jobs -> Report \cup {NoReport}]
  /\ queue \in Seq(Jobs)
  /\ pc \in [Jobs -> Pc]
  /\ meta \in [Jobs -> {"ok", "timeout", "error", "raise"}]
  /\ result \in [Jobs -> Report \cup {NoReport}]
  /\ waiter \in [Jobs -> {"none", "waiting", "answered", "failed", "gave_up"}]
  /\ container \in [Jobs -> {"none", "created", "running", "exited"}]
  /\ dir \in [Jobs -> {"none", "bare", "laid"}]
  /\ obs \in [Jobs -> {"none", "completed", "failed"}]
  /\ saved \in [Jobs -> Report \cup {NoReport, Truncated}]
  /\ removing \in [Jobs -> {"no", "unlink", "rmdir"}]
  /\ faults \subseteq Jobs \X FaultKind

Init ==
  /\ up = TRUE
  /\ crashes = 0
  /\ status = [j \in Jobs |-> "absent"]
  /\ report = [j \in Jobs |-> NoReport]
  /\ queue = <<>>
  /\ pc = [j \in Jobs |-> "idle"]
  /\ meta = [j \in Jobs |-> "ok"]
  /\ result = [j \in Jobs |-> NoReport]
  /\ waiter = [j \in Jobs |-> "none"]
  /\ container = [j \in Jobs |-> "none"]
  /\ dir = [j \in Jobs |-> "none"]
  /\ obs = [j \in Jobs |-> "none"]
  /\ saved = [j \in Jobs |-> NoReport]
  /\ removing = [j \in Jobs |-> "no"]
  /\ faults = {}

-----------------------------------------------------------------------------
(* Errors the environment may inject, and who may run.                     *)

\* An error of kind k strikes job j; the bound keeps the model finite.
Fault(j, k) == /\ Cardinality(faults) < MaxFaults
               /\ faults' = faults \cup {<<j, k>>}

NoFault == UNCHANGED faults

Faulted(j, kinds) == \E k \in kinds : <<j, k>> \in faults

\* Handlers run one at a time, and delete_job's rmtree does not yield.
LoopFree == up /\ \A j \in Jobs : removing[j] = "no"

Busy == {j \in Jobs : pc[j] \in OnThread}

\* Mutant: one thread too many.
PoolOffByOne == Cardinality(Busy) <= MaxConcurrentJobs

PoolHasRoom == Cardinality(Busy) < MaxConcurrentJobs

-----------------------------------------------------------------------------
(* Handlers of the event loop.                                             *)

\* prepare_job_dir, the insertion into _jobs and run_in_executor, with no
\* await between them that yields.
Accept(j) ==
  /\ LoopFree
  /\ pc[j] = "idle"
  /\ dir' = [dir EXCEPT ![j] = "laid"]
  /\ status' = [status EXCEPT ![j] = "queued"]
  /\ pc' = [pc EXCEPT ![j] = "queued"]
  /\ queue' = Append(queue, j)
  /\ UNCHANGED <<apiVars, report, meta, result, obs, saved, container, faults>>

\* POST /v1/analyze: answers 202, and nobody looks at the future.
Analyze(j) == j \notin SyncJobs /\ Accept(j) /\ UNCHANGED waiter

\* POST /v1/analyze/sync: the same, and the handler awaits the future.
AnalyzeSync(j) == j \in SyncJobs /\ Accept(j) /\ waiter' = [waiter EXCEPT ![j] = "waiting"]

\* prepare_job_dir raises (disk full, no permission) and leaves what it made; the
\* caller gets a 500 and the job id is never used again.
PrepareFails(j) ==
  /\ LoopFree
  /\ pc[j] = "idle"
  /\ Fault(j, "prepare")
  /\ dir' = [dir EXCEPT ![j] = "bare"]
  /\ pc' = [pc EXCEPT ![j] = "gone"]
  /\ UNCHANGED <<apiVars, jobVars, queue, meta, result, obs, saved, waiter, container>>

\* wait_for gives up.  Cancelling the future stops a job that still waits in the
\* queue; a job that a thread has taken goes on.  The handler answers 504.
SyncTimeout(j) ==
  /\ LoopFree
  /\ waiter[j] = "waiting"
  /\ waiter' = [waiter EXCEPT ![j] = "gave_up"]
  /\ pc' = [pc EXCEPT ![j] = IF @ = "queued" THEN "cancelled" ELSE @]
  /\ UNCHANGED <<apiVars, jobVars, queue, meta, result, diskVars, container, faults>>

\* Mutant: the future's exception is not handed to the handler.
SyncReturnOnSuccess(j) ==
  /\ LoopFree
  /\ waiter[j] = "waiting"
  /\ pc[j] = "done"
  /\ waiter' = [waiter EXCEPT ![j] = "answered"]
  /\ UNCHANGED <<apiVars, jobVars, poolVars, diskVars, container, faults>>

\* The future is done: 200 with its report, or 500 with its exception.
SyncReturn(j) ==
  /\ LoopFree
  /\ waiter[j] = "waiting"
  /\ pc[j] \in {"done", "raised"}
  /\ waiter' = [waiter EXCEPT ![j] = IF pc[j] = "done" THEN "answered" ELSE "failed"]
  /\ UNCHANGED <<apiVars, jobVars, poolVars, diskVars, container, faults>>

\* Mutant: the directory goes, the record stays.
DeleteKeepsRecord(j) ==
  /\ LoopFree
  /\ j \in DeletableJobs
  /\ dir[j] # "none"
  /\ removing' = [removing EXCEPT ![j] = "unlink"]
  /\ UNCHANGED <<up, crashes, jobVars, poolVars, diskVars, waiter, container, faults>>

\* DELETE /v1/jobs/{id}: forgets the job, whatever its thread is doing, and starts to
\* remove its directory when there is one.
DeletePop(j) ==
  /\ LoopFree
  /\ j \in DeletableJobs
  /\ status[j] # "absent" \/ dir[j] # "none"
  /\ status' = [status EXCEPT ![j] = "absent"]
  /\ report' = [report EXCEPT ![j] = NoReport]
  /\ removing' = [removing EXCEPT ![j] = IF dir[j] = "none" THEN "no" ELSE "unlink"]
  /\ UNCHANGED <<up, crashes, poolVars, diskVars, waiter, container, faults>>

\* rmtree lists output/ and unlinks what it saw there ...
DeleteUnlink(j) ==
  /\ up
  /\ removing[j] = "unlink"
  /\ obs' = [obs EXCEPT ![j] = "none"]
  /\ saved' = [saved EXCEPT ![j] = NoReport]
  /\ removing' = [removing EXCEPT ![j] = "rmdir"]
  /\ UNCHANGED <<up, crashes, jobVars, poolVars, dir, waiter, container, faults>>

\* ... then removes the directories.  That fails when the worker or the job's thread
\* has written a file meanwhile; ignore_errors hides it and the caller is told "deleted".
DeleteRmdir(j) ==
  /\ up
  /\ removing[j] = "rmdir"
  /\ dir' = [dir EXCEPT ![j] = IF obs[j] = "none" /\ saved[j] = NoReport
                               THEN "none" ELSE @]
  /\ removing' = [removing EXCEPT ![j] = "no"]
  /\ UNCHANGED <<up, crashes, jobVars, poolVars, obs, saved, waiter, container, faults>>

-----------------------------------------------------------------------------
(* A pool thread in _run_job and run_worker.                               *)

\* An idle thread takes the oldest job: it reads created_at and sets "running".
Begin(j) ==
  /\ up
  /\ PoolHasRoom
  /\ queue # <<>> /\ Head(queue) = j
  /\ pc[j] = "queued"
  /\ status[j] # "absent"
  /\ queue' = Tail(queue)
  /\ status' = [status EXCEPT ![j] = "running"]
  /\ pc' = [pc EXCEPT ![j] = "spawn"]
  /\ UNCHANGED <<apiVars, report, meta, result, diskVars, waiter, container, faults>>

\* The job was deleted while it was queued: _jobs[job_id] raises KeyError.
BeginForgotten(j) ==
  /\ up
  /\ PoolHasRoom
  /\ queue # <<>> /\ Head(queue) = j
  /\ pc[j] = "queued"
  /\ status[j] = "absent"
  /\ queue' = Tail(queue)
  /\ pc' = [pc EXCEPT ![j] = "raised"]
  /\ UNCHANGED <<apiVars, jobVars, meta, result, diskVars, waiter, container, faults>>

\* The executor drops a work item whose future was cancelled.
SkipCancelled(j) ==
  /\ up
  /\ PoolHasRoom
  /\ queue # <<>> /\ Head(queue) = j
  /\ pc[j] = "cancelled"
  /\ queue' = Tail(queue)
  /\ UNCHANGED <<apiVars, jobVars, pc, meta, result, diskVars, waiter, container, faults>>

\* Docker starts the worker; a bind-mount source that is missing it creates, owned by root
\* and without output/.
WorkerStarts(j) ==
  /\ container' = [container EXCEPT ![j] = "running"]
  /\ dir' = [dir EXCEPT ![j] = IF @ = "none" THEN "bare" ELSE @]

\* containers.run succeeds.
Spawn(j) ==
  /\ up
  /\ pc[j] = "spawn"
  /\ WorkerStarts(j)
  /\ meta' = [meta EXCEPT ![j] = "ok"]
  /\ pc' = [pc EXCEPT ![j] = "wait"]
  /\ UNCHANGED <<apiVars, jobVars, queue, result, obs, saved, waiter, faults>>

\* ImageNotFound or APIError.  Nothing is created; or the container is created and does
\* not start, and since run() returned nothing, `finally` has nothing to remove; or it runs
\* and reload() fails, and `finally` removes it.
SpawnError(j) ==
  /\ up
  /\ pc[j] = "spawn"
  /\ \/ /\ Fault(j, "create")
        /\ pc' = [pc EXCEPT ![j] = "observe"]
        /\ UNCHANGED <<container, dir>>
     \/ /\ Fault(j, "start")
        /\ container' = [container EXCEPT ![j] = "created"]
        /\ pc' = [pc EXCEPT ![j] = "observe"]
        /\ UNCHANGED dir
     \/ /\ Fault(j, "reload")
        /\ WorkerStarts(j)
        /\ pc' = [pc EXCEPT ![j] = "remove"]
  /\ meta' = [meta EXCEPT ![j] = "error"]
  /\ UNCHANGED <<apiVars, jobVars, queue, result, obs, saved, waiter>>

\* host_job_dir, _select_image, _fakenet_ip or run() raises what run_worker does not
\* catch: HOST_DATA is unset, or the connection to the daemon is lost, before or after it
\* has created or started the container.  The exception ends up in a future that nobody
\* reads, unless analyze_sync waits for it.
SpawnRaises(j) ==
  /\ up
  /\ pc[j] = "spawn"
  /\ Fault(j, "raise")
  /\ pc' = [pc EXCEPT ![j] = "raised"]
  /\ \/ UNCHANGED <<container, dir>>
     \/ container' = [container EXCEPT ![j] = "created"] /\ UNCHANGED dir
     \/ WorkerStarts(j)
  /\ UNCHANGED <<apiVars, jobVars, queue, meta, result, obs, saved, waiter>>

\* container.wait returns: the worker has exited.
WaitReturns(j) ==
  /\ up
  /\ pc[j] = "wait"
  /\ container[j] = "exited"
  /\ pc' = [pc EXCEPT ![j] = "remove"]
  /\ UNCHANGED <<apiVars, jobVars, queue, meta, result, diskVars, waiter, container, faults>>

\* Mutant: container.wait without a timeout.
WaitForever(j) ==
  /\ pc[j] = "wait"
  /\ container[j] = "exited"
  /\ UNCHANGED vars

\* container.wait raises, after JOB_TIMEOUT or for any other reason: the worker is killed.
WaitTimesOut(j) ==
  /\ up
  /\ pc[j] = "wait"
  /\ meta' = [meta EXCEPT ![j] = "timeout"]
  /\ pc' = [pc EXCEPT ![j] = "remove"]
  /\ \/ container' = [container EXCEPT ![j] = "exited"] /\ NoFault
     \/ UNCHANGED container /\ Fault(j, "kill")            \* kill() fails, ignored
  /\ UNCHANGED <<apiVars, jobVars, queue, result, diskVars, waiter>>

\* kill() or logs() raises what nobody catches; `finally` still removes the container.
WaitRaises(j) ==
  /\ up
  /\ pc[j] = "wait"
  /\ Fault(j, "raise")
  /\ meta' = [meta EXCEPT ![j] = "raise"]
  /\ pc' = [pc EXCEPT ![j] = "remove"]
  /\ UNCHANGED <<apiVars, jobVars, queue, result, diskVars, waiter, container>>

\* The `finally` of run_worker: remove(force=True), whose APIErrors are ignored.  A lost
\* connection is none of these and leaves _run_job.
RemoveContainer(j) ==
  /\ up
  /\ pc[j] = "remove"
  /\ \/ container' = [container EXCEPT ![j] = "none"] /\ NoFault
     \/ UNCHANGED container /\ Fault(j, "remove")
  /\ \/ pc' = [pc EXCEPT ![j] = IF meta[j] = "raise" THEN "raised" ELSE "observe"]
     \/ pc' = [pc EXCEPT ![j] = "raised"] /\ faults' # faults
  /\ UNCHANGED <<apiVars, jobVars, queue, meta, result, diskVars, waiter>>

\* read_observations, the choice of the status, collect_network, and the report built from
\* them; any of them may raise what _run_job does not catch.
Observe(j) ==
  /\ up
  /\ pc[j] = "observe"
  /\ \/ /\ result' = [result EXCEPT ![j] = [status |-> JobStatus(meta[j], obs[j]),
                                            evidence |-> obs[j] # "none"]]
        /\ pc' = [pc EXCEPT ![j] = "persist"]
        /\ NoFault
     \/ /\ Fault(j, "build")
        /\ pc' = [pc EXCEPT ![j] = "raised"]
        /\ UNCHANGED result
  /\ UNCHANGED <<apiVars, jobVars, queue, meta, diskVars, waiter, container>>

\* open(report.json, "w"): truncates it, or fails and is only logged.
PersistOpen(j) ==
  /\ up
  /\ pc[j] = "persist"
  /\ \/ /\ dir[j] = "laid"
        /\ saved' = [saved EXCEPT ![j] = Truncated]
        /\ pc' = [pc EXCEPT ![j] = "write"]
        /\ NoFault
     \/ /\ \/ dir[j] # "laid" /\ NoFault
           \/ Fault(j, "disk")
        /\ pc' = [pc EXCEPT ![j] = "publish"]
        /\ UNCHANGED saved
  /\ UNCHANGED <<apiVars, jobVars, queue, meta, result, dir, obs, waiter, container>>

\* json.dump and close.  A file that delete_job unlinked meanwhile is lost; an error
\* leaves the truncated file.
PersistWrite(j) ==
  /\ up
  /\ pc[j] = "write"
  /\ \/ /\ saved' = [saved EXCEPT ![j] = IF @ = Truncated THEN result[j] ELSE @]
        /\ NoFault
     \/ UNCHANGED saved /\ Fault(j, "disk")
  /\ pc' = [pc EXCEPT ![j] = "publish"]
  /\ UNCHANGED <<apiVars, jobVars, queue, meta, result, dir, obs, waiter, container>>

\* Mutant: the record is assigned, not updated, and so comes back after a deletion.
PublishReinserts(j) ==
  /\ up
  /\ pc[j] = "publish"
  /\ status' = [status EXCEPT ![j] = result[j].status]
  /\ report' = [report EXCEPT ![j] = result[j]]
  /\ pc' = [pc EXCEPT ![j] = "done"]
  /\ UNCHANGED <<apiVars, queue, meta, result, diskVars, waiter, container, faults>>

\* Mutant: the report is set and the status forgotten.
PublishReportOnly(j) ==
  /\ up
  /\ pc[j] = "publish"
  /\ report' = [report EXCEPT ![j] = result[j]]
  /\ pc' = [pc EXCEPT ![j] = "done"]
  /\ UNCHANGED <<apiVars, status, queue, meta, result, diskVars, waiter, container, faults>>

\* _jobs[job_id].update(...), which raises KeyError when the job was deleted.
Publish(j) ==
  /\ up
  /\ pc[j] = "publish"
  /\ \/ /\ status[j] # "absent"
        /\ status' = [status EXCEPT ![j] = result[j].status]
        /\ report' = [report EXCEPT ![j] = result[j]]
        /\ pc' = [pc EXCEPT ![j] = "done"]
     \/ /\ status[j] = "absent"
        /\ pc' = [pc EXCEPT ![j] = "raised"]
        /\ UNCHANGED jobVars
  /\ UNCHANGED <<apiVars, queue, meta, result, diskVars, waiter, container, faults>>

-----------------------------------------------------------------------------
(* The worker container; it needs no API process to go on.                 *)

\* entrypoint.main renames observations.json into place, once, at the end.
WorkerWrites(j) ==
  /\ container[j] = "running"
  /\ dir[j] = "laid"
  /\ obs[j] = "none"
  /\ \E s \in {"completed", "failed"} : obs' = [obs EXCEPT ![j] = s]
  /\ UNCHANGED <<apiVars, jobVars, poolVars, dir, saved, waiter, container, faults>>

\* The worker exits, or dies on a limit, with its observations written or not.
WorkerExits(j) ==
  /\ container[j] = "running"
  /\ container' = [container EXCEPT ![j] = "exited"]
  /\ UNCHANGED <<apiVars, jobVars, poolVars, diskVars, waiter, faults>>

-----------------------------------------------------------------------------
(* The process.                                                            *)

\* The API dies: its memory and its threads are gone, containers and disk stay.
Crash ==
  /\ up
  /\ crashes < MaxCrashes
  /\ up' = FALSE
  /\ crashes' = crashes + 1
  /\ status' = [j \in Jobs |-> "absent"]
  /\ report' = [j \in Jobs |-> NoReport]
  /\ queue' = <<>>
  /\ pc' = [j \in Jobs |-> IF pc[j] = "idle" THEN "idle" ELSE "gone"]
  /\ meta' = [j \in Jobs |-> "ok"]
  /\ result' = [j \in Jobs |-> NoReport]
  /\ removing' = [j \in Jobs |-> "no"]
  /\ waiter' = [j \in Jobs |-> IF waiter[j] = "waiting" THEN "failed" ELSE waiter[j]]
  /\ UNCHANGED <<diskVars, container, faults>>

\* Mutant: only running containers are listed (all=True is missing).
ReapRunning ==
  /\ container' = [j \in Jobs |-> IF container[j] = "running" THEN "none" ELSE container[j]]
  /\ NoFault

\* reap_orphans removes every worker container.  The error of one removal is passed over,
\* and so is the error of the call that lists them, which keeps them all.
ReapOrphans ==
  \E kept \in SUBSET {j \in Jobs : container[j] # "none"} :
    /\ kept # {} => Cardinality(faults) < MaxFaults
    /\ container' = [j \in Jobs |-> IF j \in kept THEN container[j] ELSE "none"]
    /\ faults' = faults \cup (kept \X {"reap"})

\* cleanup_old_jobs removes the directories past the retention window.
CleanupOldJobs(old) ==
  /\ dir' = [j \in Jobs |-> IF j \in old THEN "none" ELSE dir[j]]
  /\ obs' = [j \in Jobs |-> IF j \in old THEN "none" ELSE obs[j]]
  /\ saved' = [j \in Jobs |-> IF j \in old THEN NoReport ELSE saved[j]]

\* on_startup, before the first request is served.
Startup ==
  /\ ~up
  /\ up' = TRUE
  /\ ReapOrphans
  /\ \E old \in SUBSET {j \in Jobs : dir[j] # "none"} : CleanupOldJobs(old)
  /\ UNCHANGED <<crashes, removing, jobVars, poolVars, waiter>>

-----------------------------------------------------------------------------
(* The specification.                                                      *)

\* A pool thread always goes on: every Docker call it makes returns or raises, and
\* container.wait has a timeout.
ThreadStep(j) ==
  \/ Begin(j) \/ BeginForgotten(j) \/ SkipCancelled(j)
  \/ Spawn(j) \/ SpawnError(j) \/ SpawnRaises(j)
  \/ WaitReturns(j) \/ WaitTimesOut(j) \/ WaitRaises(j)
  \/ RemoveContainer(j) \/ Observe(j)
  \/ PersistOpen(j) \/ PersistWrite(j) \/ Publish(j)

\* Requests and timers: they may come, or not.
Request(j) == Analyze(j) \/ AnalyzeSync(j) \/ PrepareFails(j) \/ SyncTimeout(j) \/ DeletePop(j)

\* What the event loop has begun and finishes.
LoopStep(j) == SyncReturn(j) \/ DeleteUnlink(j) \/ DeleteRmdir(j)

WorkerStep(j) == WorkerWrites(j) \/ WorkerExits(j)

Next == \/ \E j \in Jobs : Request(j) \/ LoopStep(j) \/ ThreadStep(j) \/ WorkerStep(j)
        \/ Crash
        \/ Startup

Spec == Init /\ [][Next]_vars

\* Threads are scheduled, the event loop goes on with the removal it is in and takes its
\* handlers in the order in which they became ready - so that deletions, however many, do not
\* keep an answer back -, and the container of the API is restarted (docker-compose: restart:
\* unless-stopped).  Nothing is assumed of the worker, of callers, or of faults.
Fairness == /\ \A j \in Jobs : /\ WF_vars(ThreadStep(j))
                             /\ WF_vars(DeleteUnlink(j) \/ DeleteRmdir(j))
                             /\ SF_vars(SyncReturn(j))
            /\ WF_vars(Startup)

FairSpec == Spec /\ Fairness

-----------------------------------------------------------------------------
(* Properties.                                                             *)

\* Running workers whose job no Docker error has struck.
HealthyWorkers == {j \in Jobs : container[j] = "running" /\ ~Faulted(j, DockerFault)}

\* "The bound is the real concurrency limit for the whole service" (main.py): as long as
\* Docker calls succeed, no more workers run than the pool has threads - not even those a
\* crashed process left behind together with those of the process that replaced it.
WorkersBounded == Cardinality(HealthyWorkers) <= MaxConcurrentJobs

\* "Nothing from a job outlives the job" (run_worker's finally, reap_orphans): while the
\* API serves, a container whose Docker calls succeeded belongs to a thread that is
\* waiting for it or about to remove it.
NoOrphan == \A j \in Jobs : up /\ container[j] # "none" /\ ~Faulted(j, DockerFault)
                              => pc[j] \in Holding

\* "Persist next to the sample so a report survives an API restart" (_run_job): the report
\* the API serves from memory is, unless writing it failed, the one on disk - whatever
\* deletions and restarts came before.
PublishedIsDurable ==
  \A j \in Jobs : status[j] \in Terminal /\ ~Faulted(j, {"disk"}) => saved[j] = report[j]

\* A report says "completed" only when the worker said so, and then carries its evidence and is
\* not of a launch that failed - though a worker that runs although reload() failed may have
\* left observations that say "completed".
CompletedHasEvidence ==
  \A j \in Jobs : \A r \in {report[j], result[j], saved[j]} :
    r.status = "completed" => r.evidence /\ ~Faulted(j, {"create", "start", "reload"})

\* The phase a poll of job j sees (get_report: memory first, then the disk).  A file that is
\* cut off is answered with 500; it is with the phases that are answered with 404, as neither
\* gives a report.
PhaseOf(j) ==
  CASE status[j] \in {"queued", "running"}                        -> status[j]
    [] status[j] \in Terminal                                     -> "done"
    [] status[j] = "absent" /\ saved[j] \in Report                -> "done"
    [] status[j] = "absent" /\ saved[j] \notin Report /\ pc[j] = "idle" -> "unsubmitted"
    [] status[j] = "absent" /\ saved[j] \notin Report
         /\ pc[j] \in OnThread \ {"publish"}                      -> "detached"
    [] OTHER                                                      -> "gone"

AnswerOf(j) == IF status[j] \in Terminal THEN report[j]
               ELSE IF status[j] = "absent" /\ saved[j] \in Report THEN saved[j]
               ELSE NoReport

Board == INSTANCE JobBoard WITH phase  <- [j \in Jobs |-> PhaseOf(j)],
                                answer <- [j \in Jobs |-> AnswerOf(j)]

\* What pollers are promised: phases only move forward and a served report never changes,
\* across crashes, restarts, deletions and races of a deletion with the job's thread.
KeepsPromise == Board!BoardSpec

\* A queued job gets its report, or is forgotten (deleted, crash) - unless its caller's
\* timeout cancelled it or its thread died of an exception nobody handles.
JobSettles ==
  \A j \in Jobs : status[j] = "queued"
    ~> (status[j] \notin {"queued", "running"} \/ pc[j] \in {"cancelled", "raised"})

\* "Poll until status is terminal" (main.py), and the 504 of analyze_sync that sends its
\* caller to poll: a job that is queued or running does not stay so for ever.
PollTerminates ==
  \A j \in Jobs : status[j] \in {"queued", "running"}
    ~> status[j] \notin {"queued", "running"}

\* "Fall back to disk so reports survive an API restart" (get_report): where memory knows
\* nothing and no thread is at work on the file, the file can be read.
FallbackReadable ==
  \A j \in Jobs : LoopFree /\ status[j] = "absent" /\ pc[j] \notin OnThread
                    /\ ~Faulted(j, {"disk"}) => saved[j] # Truncated

\* No thread of the pool is lost: whatever a job meets, its thread is free again.
ThreadReturns == \A j \in Jobs : pc[j] \in OnThread ~> pc[j] \notin OnThread

\* analyze_sync always answers: the report, an error, or 504.
SyncAnswers == \A j \in Jobs : waiter[j] = "waiting" ~> waiter[j] # "waiting"
=============================================================================
