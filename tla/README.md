# Verification of the phishing attachment sandbox

TLA+ specifications of the sandbox in `../src`, the TLC configurations that check
them on small instances, and TLAPS proofs of what matters most for every instance.

## 1. The system

A backend posts an e-mail attachment to a FastAPI service.  The service writes it to a
job directory on a shared disk, runs one disposable worker container over it, collects
what the worker saw and what the fake network recorded, scores it, and serves a report.

    caller --HTTP--> API (event loop) --executor queue--> pool thread --Docker--> worker
                       |  _jobs                             |                      |  |
                       |                                    v                      |  | packets
                       +------- job directory on disk <-----+----------------------+  v
                                 input/, output/observations.json, report.json      fakenet
                                                            ^                         |
                                                            +------ events.jsonl -----+

| Component (source) | State | Operations | What is hard | What makes it correct |
|---|---|---|---|---|
| HTTP API and job table (`services/api/app/main.py`) | `_jobs`, the executor's queue, job directories | analyze, analyze/sync, report, jobs, delete, startup | handlers, pool threads, worker and rmtree interleave; the process dies; exceptions in futures nobody reads | a poll only moves forward; a served report is final and durable; every job settles; a synchronous caller is answered |
| Orchestrator (`orchestrator.py`) | containers, metadata of a run | prepare, run, wait/kill/remove, read, collect, prune, reap | Docker calls fail one by one; orphans of a crash | a container never outlives its job; at most MAX_CONCURRENT_JOBS run |
| Configuration (`config.py`) | environment | `host_job_dir` raises when HOST_DATA is unset | - | - |
| Fake network (`services/fakenet/fakenet.py`) | `events.jsonl`, handler threads | record; DNS, HTTP, raw sinks | lines late or out of time order; addresses recycled | a report shows its own flows, and all that fakenet saw in time |
| Worker entry point (`services/worker/entrypoint.py`) | observations | route by family, time each stage, one write-then-rename | an analyzer that fails; a kill before the single write | observations are complete or absent |
| Native detonation and trace (`analyzers/behavior.py`) | traced process group, files dropped | execute, parse | runaway processes, timeouts, duplicate events | budget kept, the group killed, the report tells what the sample did |
| Archive analyzer (`analyzers/archive.py`) | extraction tree | unpack, recurse, budget | nesting, bombs, per-archive guards | extraction is bounded |
| Triage (`analyzers/triage.py`) | none | identify the family | disagreement with the orchestrator's peek | an executable is run where it can run |
| Office, PDF, PE, script analyzers | none | static features, emulation | parsers, subprocess timeouts | an error is reported, not swallowed |
| Signatures and scoring (`signatures.py`) | none | evaluate, score | rounding, thresholds, rank decay | more evidence never lowers a verdict |
| Report builder (`report.py`, `models.py`) | none | IOC merge, defang, LLM summary | missing sections | the report does not look benign for lack of evidence |
| Client (`client/sandbox_client.py`) | none | submit, poll, deadline | outage, slow queue | an outage reads as unknown, never as safe |
| Wine helpers, image build, tests | - | - | - | - |

`PROJECT.json` lists every hazard at its line with the property that covers it, or why
none does, and how far each component is modelled.

## 2. The modules

**`JobBoard`** is the abstract promise to a caller that polls `GET /v1/report/{id}`: a job
has one phase, phases only move along `Moves`, and a report once served is never replaced.
Its variables are `phase` and `answer`; it says nothing of threads, Docker or disks.

**`JobLifecycle`** is the service.  How it corresponds to the code:

| In the model | In the code |
|---|---|
| `status`, `report` | `_jobs[j]["status"]`, `["report"]`; `"absent"` is a key that is not there |
| `queue`, `pc` | the executor's work queue; the line of `_run_job` / `run_worker` that the job's thread has reached |
| `meta` | the dict of `run_worker` down to `error` / `timed_out` / neither, or an exception in flight |
| `container`, `obs`, `saved`, `dir` | the worker container; `output/observations.json`; `output/report.json`; the job directory |
| `waiter` | the `analyze_sync` call that awaits the future |
| `removing` | how far `delete_job`'s `rmtree` is, which blocks the event loop |
| `Analyze`, `AnalyzeSync`, `PrepareFails`, `SyncTimeout`, `SyncReturn` | the two submitting handlers, from the upload to the answer |
| `DeletePop`, `DeleteUnlink`, `DeleteRmdir` | `delete_job`, split where other threads and the worker can get in between |
| `Begin`, `BeginForgotten`, `SkipCancelled` | a pool thread takes a work item |
| `Spawn`, `SpawnError`, `SpawnRaises`, `WaitReturns`, `WaitTimesOut`, `WaitRaises`, `RemoveContainer` | `run_worker` with each of its error paths |
| `Observe`, `PersistOpen`, `PersistWrite`, `Publish` | the rest of `_run_job`; `Observe` builds the report or raises |
| `WorkerWrites`, `WorkerExits` | the worker, down to what the API can see of it |
| `Crash`, `Startup` | death of the API process; `on_startup` with `reap_orphans` and `cleanup_old_jobs` |

`faults` records which error struck which job; properties use it to say "unless Docker
failed".  An exception that `_run_job` does not catch may leave any of its steps up to the
report: a lost connection before or after Docker has created or started the container, in
`kill`, `logs` or `remove`, or an error while the report is built.  The content of a report is
kept down to its status and whether it carries the worker's evidence.  A poll that finds a cut-off
`report.json` is answered with 500; `PhaseOf` counts it with those answered with 404, as neither
gives a report.

**`NetFlows`** is the path of a network flow into a report: the handler threads of fakenet
(`Connect`, `Stamp`, `AppendLine`), the addresses Docker hands out (`Run`, `WorkerStops`),
the window that `run_worker` notes (`Start`, `Reload`, `Finish`) and the filter of
`collect_network` (`Matches`, `Kept`, `Collect`).  It refines one stretch of `run_worker`
in time instead of in outcomes, and so keeps its own thread states.  `Kind` has the kinds of
lines fakenet writes, `Listed` those that `collect_network` has a list for: a query that cannot be
parsed is logged as `dns_error` and shown nowhere.  `owner` and `live` (the worker was up when the
line was stamped), `over` and `refused` are history that no code sees and properties refer to.

**`ReportBuild`** is the pure step from the outcome of a job (run_worker's metadata, the
observations on disk, whether a stage failed, the level the rules reach) to the report that
is served: `JobStatus`, which `JobLifecycle` uses too, `Build` and `LlmSummary`.

**`MailEvidence`** is the caller of `client/`: `analyse_email` takes the attachments of a mail
one by one through `SandboxClient`, over `INSTANCE JobBoard` as the service.  `JobLifecycle`
is checked to implement `JobBoard`, so what holds here rests on the promise alone.

| In the model | In the code |
|---|---|
| `at`, `blocks`, `mail` | the loop of `analyse_email`, `evidence_blocks`, and how the function ends |
| `call`, `waited` | where `SandboxClient` is, and how much of `max_wait` is used up |
| `lost`, `served` | (history) attachments for which `requests` raised; the report the service has served for each, also after it was deleted |
| `Submit`, `SubmitRefused`, `SubmitUnanswered` | `analyze`: accepted, an error status, no answer |
| `PollReport`, `PollPending`, `PollRefused`, `PollUnanswered` | `get_report`: 200, 202, an error status, no answer |
| `Sleep`, `GiveUp` | `wait_for`: a round, which takes at least `poll_interval`; the deadline |
| `Conclude`, `Escape`, `Ask` | the block of an attachment, an uncaught exception, the call of the model |
| `ServiceStep` | any move of `JobBoard` on a job that was accepted |

**`Analysis`** is one job from the inside: from the start of its worker to the level of its
report.  Where `JobLifecycle` has many jobs and says of a worker only that it may write its
observations, `Analysis` has one job and says what they are.  It is put together from

- **`Triage`**: what a file is taken for, by the worker (`FamilyOf`, `FileFeatures`) and, before
  that, by the orchestrator that chooses an image (`PeekFamily`, `Image`), over representatives
  of contents and extensions;
- **`WorkerRun`**: `entrypoint.main` takes the sample through the steps of its route;
- **`NativeRun`**: `behavior.execute` over a sample that forks, daemonizes, makes calls and
  exits, and what `parse_trace` makes of the log;
- **`ArchiveUnpack`**: the recursion of `archive._collect_children` as a stack of directories;
- **`Signatures`**: each rule of `signatures.py` as the features it reads, how many it needs,
  and its severity; and **`Scoring`**: `score`, in integers;
- `ReportBuild`, for what the report then tells.

| In the model | In the code |
|---|---|
| `sample`, `container` | the file in `input/`; the worker container, and which way it ended |
| `todo`, `Advance` | the calls of `analyze_sample` and of the analyzer of the route that are still to come |
| `clock`, `Takes` | seconds towards JOB_TIMEOUT; a tool takes none of its limit or all of it |
| `fresh`, `observed` | what the stage has found so far; what finished stages left in `observations` |
| `errors`, `outcome`, `output` | `observations["errors"]`, `["status"]`; `observations.json` on disk |
| `Triaged`, `Scanned`, `ToolReturns`, `ToolDies`, `NotWanted` | a step in Python; `common.run`, which returns or kills at the limit; an emulator or a fallback that has nothing to do |
| `Raises` (`RecordException`) | `timed` for a stage, `main` for what is not under `timed` |
| `Launch` | `execute` starts strace, or finds that there is none |
| `TraceeGone`, `BudgetExpires`, `Reaped` | `execute`: `wait(budget)` returning, `killpg` and the branch where it fails, `wait(10)` |
| `Fork`, `Daemonize`, `Exit`, `Call` | the sample, as strace and Linux treat it (external); `Cut` is a call whose result is on a line of its own, or lost |
| `LinesRead`, `EvidenceOf`, `Deeds`, `Behaviour` | `parse_trace`, its filters against the launcher and Wine, and the result of `execute` |
| `Refuse`, `Open`, `NextChild`, `Return`, `Unpacked` | `archive.analyze`, and one turn, or the end, of the loop of `_collect_children` |
| `Conclude`, `OpenReport`, `Rename`, `Exits` | `main`: the status, the `.tmp` file, `os.replace`, the exit |
| `Hangs`, `Dies`, `Timeout` | Python code that is not done in time; the OOM killer; `container.wait(timeout)` in `run_worker` |
| `Collect` | the container is removed; `read_observations` and `collect_network` |
| `RuleFires`, `RuleRaises`, `Evaluated`, `Weighing`, `Judging` | `evaluate` and `score` |

How the modules fit together:

    MailEvidence --INSTANCE--> JobBoard <--implements-- JobLifecycle
         \____EXTENDS____> ReportBuild <____EXTENDS____/
                               ^
    Analysis ----EXTENDS-------+------> Signatures, Scoring
         \____EXTENDS____> WorkerRun --EXTENDS--> NativeRun, ArchiveUnpack, Triage

    NetFlows refines one stretch of a job (the window and the lookup of its flows)

The theorems are in eight modules beside these.  Each extends the module it is about, or
another that it needs the invariants of:

    JobLifecycle <-- JobLifecycleProofs <-- JobRefinementProofs
    NetFlows     <-- NetFlowsProofs
    MailEvidence <-- MailEvidenceProofs
    Analysis     <-- AnalysisProofs <-- WorkerProofs, ArchiveProofs, ScoringProofs

`MCJobLifecycle`, `MCNetFlows`, `MCMailEvidence` and `MCAnalysis` are the instances for TLC.

An operator marked "Mutant" is not used by any specification.  It is a plausible wrong
version of the definition that follows it; putting it in that definition's place breaks
the property it is paired with in `PROJECT.json`, which shows that the property depends on
what the code does.

### Abstractions

- One API process (docker-compose runs one), and job ids are unique (uuid4).  The name of
  a container has only a prefix of the id; a collision of prefixes is not modelled.
- A graceful stop is a crash: uvicorn does not wait for the pool threads' jobs.
- Every `except Exception` that logs and goes on is a branch that a fault takes.  The bound
  `MaxFaults` counts distinct pairs of job and kind.
- `reap_orphans` may fail to list (everything is kept) or to remove one container; both
  are "a subset is kept".
- The clock of `NetFlows` never gives the same reading twice (timestamps have
  microseconds), and fakenet and the API share it (one host).
- The time a round of `wait_for` takes is any number of poll intervals from one up to what
  is left of the deadline, so a slow request is a long round.
- In `JobLifecycle` and `MailEvidence` the level of a report is any level, whatever the outcome
  of its job; the link between the two is the subject of `Analysis`.
- Observations are the set of features the rules look at.  Which of them a step may find is
  fixed by its analyzer (`Yields`), and whether it finds them is open, within `Entails`; which of
  them the samples show at all is the bound `Shown`.  Text, formats and regular expressions are
  left out.
- Of time only the tools' limits count.  Python code, the Wine set-up included, takes no time, or
  does not come to its end (`Hangs`).
- Of a call that strace splits, `<unfinished ...>` and `<... resumed>`, the second line is left out:
  `parse_trace` reads nothing from it.
- The guard of 512 MiB in `_extract` never fires before the tmpfs of 256 MiB is full; both end as
  an extraction that stops half-way, anywhere.  The subdirectories of an archive are one sequence of files.
- `Scoring` keeps what is left of 100 in thousandths and `0.6 ** r` in ten-thousandths, and half
  points go up where Python rounds half to even.  A score may differ by one point from the
  code's.  The checked bound has room for that (a pile of findings of 40 points comes to 68.7, where
  69.5 is rounded to 70); that no score of the code lies across 35 or 70 from the model's is not
  shown.  The confidence is not modelled.
- A rule that raises is one that had something to report; one that raises where it had nothing
  to say makes no difference to the verdict.
- DETONATE is set, as in docker-compose.
- `GET` handlers change nothing; they are the refinement mapping `PhaseOf`, `AnswerOf`.

## 3. What TLC checks

Every run finishes within three minutes on two cores.  Deadlock is not an error in any of
them: when all jobs are submitted and over, and the bounds are used up, the model stops.

| Run | Instance | Shows |
|---|---|---|
| `lifecycle_safety` | 2 jobs (one synchronous), 1 thread, either may be deleted, 1 crash, 1 fault | `TypeOK`, `NoOrphan`, `WorkersBounded` (old and new workers together stay within the pool), `PublishedIsDurable`, `CompletedHasEvidence`, and that the service implements `JobBoard` (`KeepsPromise`) |
| `lifecycle_live` | 2 jobs, 1 thread, 1 fault, one deletable | `JobSettles`, `ThreadReturns`, `SyncAnswers` |
| `lifecycle_sync_poll` | 2 jobs, 1 thread, no fault | counterexample to `PollTerminates`: the timeout of a synchronous call cancels a queued job that then reads "queued" for ever |
| `lifecycle_raise_poll` | 2 jobs, 1 fault | counterexample to `PollTerminates`: an exception `_run_job` does not catch |
| `lifecycle_truncated` | 2 jobs, 1 crash | counterexample to `FallbackReadable`: a crash within the write of `report.json` |
| `flows_windows` | 2 jobs, 1 address, 2 flows, lists cut to 1 | `NoFlowFromAnotherTime`, `OwnFlowsKept` |
| `flows_recycled` | the same | counterexample to `OnlyOwnFlows`: overlapping windows, one address used twice |
| `mail_evidence` | 2 attachments, a deadline of 2 poll intervals, all reports `Build` can make | `BlocksAreServedReports`, `GapsReachTheModel`, and `MailSettles` however slow the service is |
| `mail_failure` | the same | counterexample to `FailureNeverReadsBenign`: a failed or timed-out job whose summary reads as benign |
| `mail_outage` | the same | counterexample to `OutageReadsUnknown`: a request without an answer ends the analysis |
| `analysis` | 13 samples, at least one for each route; 2 processes, 2 calls, 2 lines of trace; 5 layouts of nested archives; 1 stage and 1 rule that raise | `EvidenceWhole`, `ToolsFitTheTimeout`, `StageFailureTold`, `OutcomeIsKnown`, `BinariesAreRun`; `OnlyDaemonsSurvive`, `TraceTellsTheRun`; `BuriedExecutableFound`, `EachFileOnce`, `UnpackBounded`; `StrongFindingConvicts`, `WeakPileNeverMalicious`, `MoreEvidenceNeverLowers`; and `AnalysisEnds` whatever the sample does |
| `analysis_lost` | the same | counterexample to `EvidenceWrittenAsFound`: JOB_TIMEOUT after a stage has finished leaves nothing |

Why the bounds are enough.  Jobs interact through the thread pool, the queue and the event
loop only, so two jobs on one thread already show a job that waits, one that works, one
that is deleted or cancelled in between, and a full pool beside the leftover of a crash.  One
crash yields both a first and a second life of the process; `ConcurrencyLimit` covers any pool.
One fault at every possible point shows each error path alone; the proofs cover any number.
In `NetFlows` one address forces the recycling, two flows tell a kept one from a crowded-out
one, a cap of one makes the list full, and a sink may stamp a line up to the last instant of its worker.  In `MailEvidence` two attachments show a first
block kept while the second is made, and two intervals a deadline that passes after a poll
that found nothing; the proofs cover any number of both.

In `Analysis`, two processes are a parent and a child, of which either may daemonize or outlive
the other; two calls, with two lines of trace of which one is the launcher's, make a log longer
than `parse_trace` reads; the calls are an `execve`, one that finds nothing, and one of the
sample itself anew, so that a filter of `parse_trace` and a line cut before its ENOENT have
their turn. The layouts bury the executable one, two and three layers deep, and hold archives
that contain themselves, twice even, which reaches both `MaxDepth` (3, as in the code) and a cap
of 6 children. The samples are chosen so that each route, each pair of contents and extension
that triage and the orchestrator treat differently, and both sides of the 4096-byte peek occur.
All 51 rules are there with their severities; `Shown` holds features for rules of 30 to 85
points, several in one sample, with those that need two features of the two kinds. One exception
tells a stage that failed from those after it.

### Fairness

`FairSpec` assumes weak fairness of `ThreadStep(j)` (a pool thread goes on: each Docker call
returns or raises, and `container.wait` has a timeout), of `DeleteUnlink(j) \/ DeleteRmdir(j)` (the
event loop finishes an `rmtree` it began) and of `Startup` (`restart: unless-stopped` in
docker-compose).  It assumes strong fairness of `SyncReturn(j)`: asyncio resumes coroutines in the
order in which they became ready, so the deletions that block the loop meanwhile do not keep an
answer back for ever.  Nothing is assumed of the worker, which
may run for ever, of callers, of timers, or of faults: `ThreadReturns` therefore rests on
the timeout and not on a worker that exits.

In `Analysis`, weak fairness of the steps of the worker's own Python code (each goes on or, which
the model leaves open, hangs), of the timeouts (of `run`, of `execute` and the reaping, and
JOB_TIMEOUT) and of the orchestrator's own steps.  Nothing is assumed of the sample: it need not
exit, and may fork as often as it can, so `AnalysisEnds` rests on the budget and on JOB_TIMEOUT.

In `MailEvidence`, weak fairness of `ClientStep` alone: every request of `SandboxClient` has
a timeout and `sleep` returns, so the caller always goes on.  Of the service nothing is
assumed, so `MailSettles` rests on the deadline.

## 4. What is proved

Every safety property that a passing run checks, the refinement included, is also a theorem
for every value of the constants that the named ASSUMEs allow.  Two theorems carry a hypothesis
of their own on constants, which the defaults of the code meet and TLC evaluates on the
instance (`DefaultsFit`, `DecayIsSteep` in `MCAnalysis`).

| Theorem | Property | Holds for | From |
|---|---|---|---|
| `TypeCorrect` | `JobLifecycle!TypeOK` | any jobs, pool, crashes, faults | `TypeInv` |
| `ContainersOwned` | `NoOrphan` | the same | itself |
| `ConcurrencyLimit` | `WorkersBounded` | the same | `PoolInv` |
| `ReportsAreDurable` | `PublishedIsDurable` | the same | `DurableInv` |
| `CompletedMeansEvidence` | `CompletedHasEvidence` | the same | `EvidenceInv` with `LaunchInv` |
| `ServiceKeepsPromise` | `KeepsPromise` | the same | `RefineInv` |
| `FlowsTypeCorrect` | `NetFlows!TypeOK` | any jobs, addresses, flows, caps | itself |
| `WindowKeepsOut` | `NoFlowFromAnotherTime` | the same | `FlowInv` |
| `WindowKeepsOwn` | `OwnFlowsKept` | the same | `FlowInv` |
| `EvidenceTypeCorrect` | `MailEvidence!TypeOK` | any number of attachments, any deadline | `EvidenceInv` |
| `OnlyServedReports` | `BlocksAreServedReports` | the same | `EvidenceInv` |
| `GapsAreTold` | `GapsReachTheModel` | the same | `EvidenceInv` |
| `AnalysisTypeCorrect` | `Analysis!TypeOK` | any samples, settings, archives, processes, errors | `TypeInv` and all below it |
| `ReportIsAtomic` | `EvidenceWhole` | the same | `ReportInv` |
| `FailuresAreTold` | `StageFailureTold` | the same | `ToldInv` |
| `OutcomesSuffice` | `OutcomeIsKnown` | the same | `OutcomeInv` with `ReportInv`, `VerdictInv` |
| `TimeoutsSuffice` | `ToolsFitTheTimeout` | settings with `RoomEnough` | `TimeInv` |
| `BinariesGetTheirRun` | `BinariesAreRun` | any samples, settings, processes, errors | `RunInv` with `RouteEndsInRun` |
| `GroupKillIsThorough` | `OnlyDaemonsSurvive` | any processes and calls | `SurvivorInv` |
| `TraceIsFaithful` | `TraceTellsTheRun` | the same | `SurvivorInv`, `TraceInv` |
| `WalkIsBounded` | `UnpackBounded` | any archives, depth and cap | `WalkInv` |
| `NoFileTwice` | `EachFileOnce` | the same | `WalkInv`, `BookInv` |
| `NothingStaysBuried` | `BuriedExecutableFound` | the same | `WalkInv`, `BookInv`, `FoundInv` |
| `OneStrongFindingSuffices` | `StrongFindingConvicts` | any decay that starts at 1 | `VerdictInv` |
| `EvidenceOnlyAdds` | `MoreEvidenceNeverLowers` | the same | `VerdictInv`, `WeighedInv` |
| `WeakPileIsNotEnough` | `WeakPileNeverMalicious` | a decay with `FortyNeverEnough` | `VerdictInv`, `PileInv` |

### The service

`TypeOK` is not inductive, because `Publish` copies `result` into a report whose status must be
terminal; `TypeInv` adds `ResultReady`, that a thread past `Observe` has a result.  For `NoOrphan`
every way out of the steps that hold a container either removes it or marks the job with a
Docker fault.  While the process is up, `NoOrphan` maps every healthy worker to a thread and
`Begin` bounds the threads; while it is down, healthy workers can only disappear: that is
`PoolInv`.  For durability, `RecordInv` says what each step of the thread leaves on disk and which
of those steps a deletion can be in between; the key is that `delete_job` pops the record before
it removes the file, so whoever removes the file has already made the record absent, and no
step brings a record back.  `LaunchInv` follows the fault of a container that never came up to
the result.

`ServiceKeepsPromise` is the step-by-step proof of the refinement: the initial states are
`JobBoard`'s, and each step is `Legal(j)` for every job, a move of `JobBoard` or nothing.
`PhaseInv` is what that needs beyond durability: where a job stands in memory fixes where its
thread is, `report.json` holds a report only once the thread has written it, and then the one
it publishes.  So `Crash` may drop "done" to the same answer from disk, or a job to "gone", and
`DeletePop` exposes nothing that was not served before.

### Network flows

`FlowInv` has six parts.  Every time that was read lies in the past (`ClockInv`); only a worker
that was run sends, and after `started_at` was read (`OwnerInv`); a job that was over when
another started is silent since, with all its times before the other's window (`OverInv`); a
worker has one address, the one `run_worker` may have read and the one on all it sent
(`SourceInv`); reports point into the log as long as it was then (`CollectInv`); and what a sink
saw of a worker that was then stopped as asked is dated before the end of its window
(`WindowInv`).  `WindowKeepsOut` does not depend on when fakenet writes a line, as the filter
goes by its timestamp.  `WindowKeepsOwn` does depend on when `run_worker` reads the clock: a
line stamped while the worker was up lies before `finished_at`, as that is read after the
removal (`WindowInv`).  A line of a listed kind that is missing must then be behind as many as
the list holds: `CrowdedOut`, a fact about `FirstOf` for any cap.

### The caller

`BlocksAreServedReports` alone is not inductive: that the model is asked with a block for each
attachment needs `LoopInv` (the loop has left a block for exactly the attachments before `at`),
that a block is a summary of what was served needs `ServedIsReport` - `served` is what the service
answers with as long as it answers "done", and stays when that is over -, and that it cannot serve
another report later comes from `JobBoard`'s `Moves`, in which "done" leads to "gone" only - which
`ServiceKeepsPromise` proves of the service.  `GapsReachTheModel` then needs `SummaryOfReport`:
the gaps of a built report's summary are its errors, the orchestrator's included.

### The worker

- `ReportInv`: the report is never "part", it is not begun before there is an outcome, and with an
  outcome there is no step left.  `ToldInv`: while the worker is up, `errors` are the stages that
  raised unless it has given up altogether; afterwards the same of a report that says "completed".
- `OutcomeInv`: a worker that gives up has no stage errors on record, and errors that are on record
  after it come with observations that say "completed".  It joins the two halves of the model:
  the reports that `MailEvidence` starts from are all that a run of `Analysis` leads to.
- `SurvivorInv`: before the kill all living processes are traced, and after it nobody can enter the
  group, for a child is in its parent's.  `TraceInv` adds that each line is told by a call that was
  made (`Told`: the call itself, or cut before its result), and that without a timeout each call
  is in the log; `EvidenceIsDeed` and `DeedLeavesEvidence` then carry it from calls to `Behaviour`.
  The exceptions in `TraceTellsTheRun` are those of the filters and the split lines, and no more.
- `RunInv`: a binary that is to be run has been, or its detonation is the last step still to come.
  `RouteEndsInRun` is that its route ends in it - for a PE because the peek saw the header
  (`PeHasSignature`) -, and an exception of an earlier stage skips that stage's steps alone.
- `TimeInv`, for a route of single tools: `Timely(todo)` says that each step that may be left starts
  after at most `SpentBefore` seconds and that no two of them are emulators or detonations; the clock
  is within what the step at hand allows, or in the last ten seconds of a detonation.  That every
  such route is `Timely` is shown route by route (`RouteIsTimely`), that what an exception or a
  finished step leaves of it still is by `SuffixIsTimely`.  `RoomEnough` asks for 51 seconds between
  DETONATION_SECONDS and JOB_TIMEOUT; the defaults leave 135.
- `AnalysisTypeCorrect` needs an invariant for each part of the state: `UnpackTypeInv` with the bound
  of the walk in both states of a step (a new directory's name must be within `MaxDepth` and
  `ChildCap`), `WorkerTypeInv` with the steps of every route (`EveryRoute`), `VerdictTypeInv`.  The
  rules' concatenation is a sequence (`GroupsAreSequences`), so that a finding is a place in it.

### The archive

`OneLevelEach` says that each active call of `_collect_children` is one level below its caller, so
the stack is as long as its top is deep.  `Book`, in `BookInv`, is the bookkeeping of the walk: of each
directory that is being walked, the files listed and those still to come on its one frame are as
many as were extracted; of any other, all are listed, unless the list is full; and a new
directory's name is new because the number in a name never exceeds the number of children so far.
That gives `EachFileOnce` when the walk is over.  `FoundInv` says that each archive that was listed
and is not too deep has been opened, its files listed or still to come; `AllListed` then follows an
executable down, layer by layer, to `MaxDepth`.

### The score

`VerdictInv` says that the rules up to `asked` have been heard (`Heard`), so that when none is left
to report all have, and that once a finding is weighed nothing is left beyond what any fired
finding would have left alone (`Outweighed`): the first one weighed is the strongest and counts
in full (`FirstCountsInFull`), and no later one gives anything back (`RemainsLess`, from `ShareWithin`
on integer division).  `WeighedInv` says that what remains is `LeftBy` of the findings weighed, so
that `MoreEvidenceNeverLowers` is a fact about `LeftBy`: it is antitone in the set (`LeftByIsAntitone`).
The finding that comes first pushes all others down a rank; the argument exchanges the last
finding for another (`SwapLast`, `SwapLeavesNoLess`) and takes care of the rounding up at each step
(`RemainsGrows`, `ShareGrows`).  It holds for any weights, decreasing or not.  `PileInv` compares
what remains with a pile of as many findings of 40 points, `Pile`, and `FortyNeverEnough` says of
that pile alone that it stays below "malicious".

### How recursion was dealt with

`LeftBy`, `Pile` and `AtDepth` are recursive functions.  That they equal what their definitions say
is proved by induction in its least-counterexample form (`LeastMember`, from the well-foundedness
of Nat): solutions exist up to each size (`SettlingExists`, `PileExists`, `SolutionExists`), so the
CHOOSE that defines the function has one to choose (`LeftByUnfolds`, `PileUnfolds`,
`AtDepthUnfolds`).  The same form serves for every induction over a number or a size.

### What stays with TLC

All liveness (`JobSettles`, `ThreadReturns`, `SyncAnswers`, `MailSettles`, `AnalysisEnds`): temporal
proofs under fairness are out of the prover's reach.  The counterexamples of section 5 are
TLC's by nature.  What the decay table of the code sums up to (`FortyNeverEnough`) and what the
defaults leave (`RoomEnough`) is evaluated by TLC.


## 5. What the checks found

1. A queued synchronous job whose caller times out is cancelled and polls as "queued" for
   ever, though the 504 tells the caller to poll (`main.py:207`, `:214`).
2. An exception that `run_worker` does not catch leaves its job "running" for ever
   (`main.py:87`; e.g. `HOST_DATA` unset, the daemon unreachable).
3. `report.json` is written in place; a crash in between makes every later poll fail
   (`main.py:122`, `:224`).
4. Two jobs that overlap in time and use one address one after the other see each other's
   flows (`orchestrator.py:255`), which the time window was meant to prevent.
5. The summary that `for_prompt` hands to the model mentions neither the status of the job
   nor the warning in `verdict.summary`; a job that timed out, whose worker failed, or which
   left no observations says BENIGN with no analysis gap (`report.py:109`).  Only its lower
   confidence and "not executed. Reason: unknown" hint at it.
6. `analyse_email` catches `SandboxError` only; what `requests` raises in an outage escapes,
   and the UNKNOWN block that the README promises is never made (`example_integration.py:40`).

7. A worker that JOB_TIMEOUT kills leaves no observations, whatever its stages had found:
   `main` writes once, at the end (`entrypoint.py:248`).  `main.py:93` says that it "writes
   incrementally".

Seen on the way, and not stated as a property of any run:

- `common.run` calls a dead tool "a finding", but no analyzer looks at `timed_out`: a report whose
  tools were all killed is completed, without gaps, and may read benign.
- olevba killed half-way through its output counts as a macro found, which keeps
  `_recover_vba_source` from having its turn.
- The comment at `behavior.py:228` has the group kill take every descendant; one that called
  `setsid` is let go when strace dies (`OnlyDaemonsSurvive` says so).
- `archive.py:208` speaks of "any nesting depth" and `entrypoint.py:187` of one level;
  the code stops at three.
- An extraction that fails half-way is taken as all there is; the report does not tell.
- A PE whose header lies beyond the first 4096 bytes goes to the plain image and is not run, and its
  report says that PE detonation is disabled (`BinariesAreRun` names the exception).
- `parse_trace` drops every process with the launcher's argv, so a sample that starts itself again is
  not told of, and every one with the name of a process of Wine in its command, whoever started it;
  an `execve` whose ENOENT is on a resumed line counts as a process that was started
  (`behavior.py:123-128`, `:179-190`; `TraceTellsTheRun` names the three).
- What fakenet logs as `dns_error` is in no list of a report (`fakenet.py:118`,
  `orchestrator.py:236-265`), and a raw session that is stamped after its worker was removed is outside
  of the window.
- The jobs of callers that time out or lose the answer to a POST run on, for nobody.
- SCRIPT_OBFUSCATED fires for any file of unknown family with a high entropy.
- `office.emulate` collects indicators that `collect_iocs` never reads.
- Findings of PE rules of up to 45 points can add up to 73: it is at 40 that a pile of them stays
  below "malicious" (`WeakPileNeverMalicious`).

## 6. Not modelled, and why

- Parsers and feature extraction of the office, PDF, PE and script analyzers: pure data.  What
  their steps are, how they fail and which features they may yield is in `WorkerRun`.
- What makes a feature true (IOC regular expressions, entropies), caps on lists, defanging and
  the wording of reports: text.
- The confidence of a verdict: a number nothing depends on.
- Families that take the same branches as a representative: bzip2, xz, cab, wsf, bat, rb, class,
  mdb.
- Wine helpers, image build, seccomp and network options: configuration of Docker.
- Upload limits, API keys, health and listing endpoints: guards and reads with no state.
- `_jobs` is never pruned while the process lives, and old directories only at startup:
  true of the code by inspection, and not a property of a bounded model.

## 7. Plan

What the modules do not cover yet, in order of what it would add:

1. Defanging as what it does to an indicator, and that no live link reaches the LLM summary.
2. `Analysis` as a refinement of the one step of a worker in `JobLifecycle` (`WorkerWrites`,
   `WorkerExits`): what `OutcomeIsKnown` says of the end, said of every step.
