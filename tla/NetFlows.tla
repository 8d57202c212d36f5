------------------------------- MODULE NetFlows -------------------------------
(***************************************************************************)
(* Which network flows a report shows.  The fakenet sinks append what they *)
(* see to one log, under the source address; run_worker notes when its job *)
(* started and finished and the address of its worker; collect_network     *)
(* takes from the log what has that address and falls into that window.    *)
(* Docker gives an address to the next worker once the last one stopped.   *)
(*                                                                         *)
(* Every reading of the clock is later than the one before: timestamps     *)
(* have microseconds, and the model tells instants apart, not durations.   *)
(***************************************************************************)
EXTENDS Naturals, Sequences, FiniteSets

CONSTANTS Jobs,
          Addresses,          \* the addresses of the detonation network's subnet
          NoAddress,
          MaxConcurrentJobs,  \* threads of the pool
          MaxFlows,           \* bound: flows all workers start
          MaxPerKind          \* the cap on each list of a report (120 in the code)

ASSUME JobsAssumption    == IsFiniteSet(Jobs)
ASSUME AddressAssumption == NoAddress \notin Addresses
ASSUME SizeAssumption    == MaxConcurrentJobs \in Nat /\ MaxFlows \in Nat /\ MaxPerKind \in Nat

VARIABLES
  now,        \* the clock, shared by the API and fakenet
  thread,     \* how far the job's thread is
  address,    \* address[j]: what the worker of j holds on the network
  workerIp,   \* meta["worker_ip"]
  started,    \* meta["started_at"]
  finished,   \* meta["finished_at"]
  handlers,   \* sink handler threads of fakenet at work
  flowsSent,  \* how many connections and queries workers have made
  log,        \* events.jsonl
  flows,      \* flows[j]: the lines of the log in the report of j
  logSeen,    \* logSeen[j]: how long the log was when j's report was made (history)
  over,       \* over[j]: jobs that were over on the network when j started (history)
  refused     \* jobs whose worker the daemon would neither kill nor remove (history)

jobVars  == <<thread, workerIp, started, finished>>
sinkVars == <<handlers, flowsSent, log>>
vars == <<now, jobVars, address, sinkVars, flows, logSeen, over, refused>>

\* The kinds collect_network has a list for; "dns" stands for "http" too, which has the same
\* filter.  A query that fakenet cannot parse is logged as well, and is in no list.
Listed == {"dns", "tcp"}
Kind   == Listed \cup {"dns_error"}

\* What a sink logs.  History, which the sink cannot see: owner is the job whose worker sent
\* it, live says that the worker was still up when record() read the clock.
Event == [src : Addresses, kind : Kind, owner : Jobs, ts : Nat, live : BOOLEAN]

\* A handler thread; ts is 0 until record() has read the clock.
Handler == [id : 1..MaxFlows, src : Addresses, kind : Kind, owner : Jobs, ts : Nat,
            live : BOOLEAN]

TypeOK ==
  /\ now \in Nat
  /\ thread \in [Jobs -> {"new", "starting", "spawned", "waiting", "finished", "collected"}]
  /\ address \in [Jobs -> Addresses \cup {NoAddress}]
  /\ workerIp \in [Jobs -> Addresses \cup {NoAddress}]
  /\ started \in [Jobs -> Nat]
  /\ finished \in [Jobs -> Nat]
  /\ handlers \subseteq Handler
  /\ flowsSent \in 0..MaxFlows
  /\ log \in Seq(Event)
  /\ flows \in [Jobs -> SUBSET (Nat \ {0})]
  /\ logSeen \in [Jobs -> Nat]
  /\ over \in [Jobs -> SUBSET Jobs]
  /\ refused \subseteq Jobs

Init ==
  /\ now = 1
  /\ thread = [j \in Jobs |-> "new"]
  /\ address = [j \in Jobs |-> NoAddress]
  /\ workerIp = [j \in Jobs |-> NoAddress]
  /\ started = [j \in Jobs |-> 0]
  /\ finished = [j \in Jobs |-> 0]
  /\ handlers = {}
  /\ flowsSent = 0
  /\ log = <<>>
  /\ flows = [j \in Jobs |-> {}]
  /\ logSeen = [j \in Jobs |-> 0]
  /\ over = [j \in Jobs |-> {}]
  /\ refused = {}

-----------------------------------------------------------------------------
(* A pool thread: run_worker, then collect_network.                        *)

Working == {"starting", "spawned", "waiting", "finished"}

\* The worker has run and stopped, and every sink has put a time on what it sent.  A job with a
\* session a sink still holds is not over: its late line may reach another's report (OnlyOwnFlows).
Over(k) == /\ thread[k] \notin {"new", "starting"}
           /\ address[k] = NoAddress
           /\ \A h \in handlers : h.owner = k => h.ts # 0

\* started_at is read after the image and the DNS address were looked up, and before
\* the container exists.
Start(j) ==
  /\ thread[j] = "new"
  /\ Cardinality({k \in Jobs : thread[k] \in Working}) < MaxConcurrentJobs
  /\ thread' = [thread EXCEPT ![j] = "starting"]
  /\ started' = [started EXCEPT ![j] = now]
  /\ now' = now + 1
  /\ over' = [over EXCEPT ![j] = {k \in Jobs : Over(k)}]
  /\ UNCHANGED <<address, workerIp, finished, sinkVars, flows, logSeen, refused>>

\* containers.run: the worker starts, with an address no running worker holds.
Run(j) ==
  /\ thread[j] = "starting"
  /\ \E a \in Addresses : /\ \A k \in Jobs : address[k] # a
                          /\ address' = [address EXCEPT ![j] = a]
  /\ thread' = [thread EXCEPT ![j] = "spawned"]
  /\ UNCHANGED <<now, workerIp, started, finished, sinkVars, flows, logSeen, over, refused>>

\* containers.run fails: no address was ever read.
RunFails(j) ==
  /\ thread[j] = "starting"
  /\ thread' = [thread EXCEPT ![j] = "finished"]
  /\ finished' = [finished EXCEPT ![j] = now]
  /\ now' = now + 1
  /\ UNCHANGED <<address, workerIp, started, sinkVars, flows, logSeen, over, refused>>

\* reload() reads the worker's address; a worker that has already stopped has none.  When it
\* raises, run_worker leaves at once for the removal, and no address was read.
Reload(j) ==
  /\ thread[j] = "spawned"
  /\ thread' = [thread EXCEPT ![j] = "waiting"]
  /\ \E ip \in {address[j], NoAddress} : workerIp' = [workerIp EXCEPT ![j] = ip]
  /\ UNCHANGED <<now, address, started, finished, sinkVars, flows, logSeen, over, refused>>

\* Mutant: the end is noted before the worker is killed and removed.
FinishBeforeRemove(j) ==
  /\ thread[j] = "waiting"
  /\ thread' = [thread EXCEPT ![j] = "finished"]
  /\ finished' = [finished EXCEPT ![j] = now]
  /\ now' = now + 1
  /\ UNCHANGED <<address, workerIp, started, sinkVars, flows, logSeen, over, refused>>

\* finished_at is read last, after wait, kill and remove: the worker has stopped, now if not
\* before (WorkerStops), or the daemon refuses and run_worker goes on all the same.
Finish(j) ==
  /\ thread[j] = "waiting"
  /\ \/ address' = [address EXCEPT ![j] = NoAddress] /\ UNCHANGED refused
     \/ /\ address[j] # NoAddress
        /\ refused' = refused \cup {j} /\ UNCHANGED address
  /\ thread' = [thread EXCEPT ![j] = "finished"]
  /\ finished' = [finished EXCEPT ![j] = now]
  /\ now' = now + 1
  /\ UNCHANGED <<workerIp, started, sinkVars, flows, logSeen, over>>

\* Mutant: the address alone decides.
MatchesByAddress(j, e) == workerIp[j] # NoAddress /\ e.src = workerIp[j]

\* The lines that are the job's: its address, inside its window.
Matches(j, e) == /\ workerIp[j] # NoAddress
                 /\ e.src = workerIp[j]
                 /\ started[j] <= e.ts /\ e.ts <= finished[j]

MatchingLines(j, k) == {i \in DOMAIN log : log[i].kind = k /\ Matches(j, log[i])}

\* Each list is cut to its first MaxPerKind lines.
Kept(j, k) == {i \in MatchingLines(j, k) :
                 Cardinality({h \in MatchingLines(j, k) : h < i}) < MaxPerKind}

\* collect_network reads the whole log once.
Collect(j) ==
  /\ thread[j] = "finished"
  /\ thread' = [thread EXCEPT ![j] = "collected"]
  /\ flows' = [flows EXCEPT ![j] = UNION {Kept(j, k) : k \in Listed}]
  /\ logSeen' = [logSeen EXCEPT ![j] = Len(log)]
  /\ UNCHANGED <<now, address, workerIp, started, finished, sinkVars, over, refused>>

-----------------------------------------------------------------------------
(* Workers, and the sinks of fakenet.                                      *)

\* A worker stops and Docker takes its address back; a sink may still hold the session.
WorkerStops(j) ==
  /\ address[j] # NoAddress
  /\ address' = [address EXCEPT ![j] = NoAddress]
  /\ UNCHANGED <<now, jobVars, sinkVars, flows, logSeen, over, refused>>

\* Mutant: a sink takes the peer's address from a worker that has none any more.
ConnectAfterStop(j) ==
  /\ thread[j] # "new"
  /\ flowsSent < MaxFlows
  /\ flowsSent' = flowsSent + 1
  /\ \E k \in Kind :
       handlers' = handlers \cup {[id |-> flowsSent + 1, src |-> address[j], kind |-> k,
                                   owner |-> j, ts |-> 0, live |-> FALSE]}
  /\ UNCHANGED <<now, jobVars, address, log, flows, logSeen, over, refused>>

\* A query or a connection reaches a sink, which gives it a thread of its own.
Connect(j) ==
  /\ address[j] # NoAddress
  /\ flowsSent < MaxFlows
  /\ flowsSent' = flowsSent + 1
  /\ \E k \in Kind :
       handlers' = handlers \cup {[id |-> flowsSent + 1, src |-> address[j], kind |-> k,
                                   owner |-> j, ts |-> 0, live |-> FALSE]}
  /\ UNCHANGED <<now, jobVars, address, log, flows, logSeen, over, refused>>

\* record() reads the clock: at once for a query, at the end of a raw TCP session (when
\* the peer closes, after 5 silent seconds, or at 8 KiB).
Stamp(h) ==
  /\ h.ts = 0
  /\ handlers' = (handlers \ {h}) \cup {[h EXCEPT !.ts = now, !.live = address[h.owner] # NoAddress]}
  /\ now' = now + 1
  /\ UNCHANGED <<jobVars, address, flowsSent, log, flows, logSeen, over, refused>>

\* record() appends the line under the lock - later, so lines need not be in order of time.
AppendLine(h) ==
  /\ h.ts # 0
  /\ handlers' = handlers \ {h}
  /\ \/ log' = Append(log, [src |-> h.src, kind |-> h.kind, owner |-> h.owner, ts |-> h.ts,
                                 live |-> h.live])
     \/ UNCHANGED log                  \* the write failed; record never raises
  /\ UNCHANGED <<now, jobVars, address, flowsSent, flows, logSeen, over, refused>>

Next == \/ \E j \in Jobs : \/ Start(j) \/ Run(j) \/ RunFails(j) \/ Reload(j) \/ Finish(j)
                           \/ Collect(j) \/ WorkerStops(j) \/ Connect(j)
        \/ \E h \in handlers : Stamp(h) \/ AppendLine(h)

Spec == Init /\ [][Next]_vars

-----------------------------------------------------------------------------
(* Properties.                                                             *)

\* "The IP alone is not enough because Docker recycles addresses between jobs"
\* (collect_network): a report shows no flow of a job that was over when this one started,
\* nor of one that started after this one had finished.
NoFlowFromAnotherTime ==
  \A j \in Jobs : \A i \in flows[j] :
    /\ log[i].owner \notin over[j]
    /\ started[log[i].owner] < finished[j]

\* A line that falls into the window of its job: stamped while the worker was up and the
\* worker was stopped as it should be, or at any rate stamped before the end.
InTime(j, e) == (e.live /\ j \notin refused) \/ e.ts < finished[j]

\* The window of run_worker is wide enough, opening before the worker's first packet and
\* closing after its last: what a sink saw of the job's own worker while it was up, of a kind
\* that has a list, and on the log by the time of the report, is in the report - or behind
\* as many earlier lines as the list takes.
OwnFlowsKept ==
  \A j \in Jobs : thread[j] = "collected" /\ workerIp[j] # NoAddress =>
    \A i \in 1..logSeen[j] :
      /\ log[i].owner = j /\ log[i].kind \in Listed
      /\ InTime(j, log[i])
      => \/ i \in flows[j]
         \/ Cardinality({h \in flows[j] : log[h].kind = log[i].kind /\ h < i}) = MaxPerKind

\* "Matching is by source IP within the job's own time window" (collect_network), "no
\* cross-contamination" (README): a report shows the flows of its own worker only.
OnlyOwnFlows == \A j \in Jobs : \A i \in flows[j] : log[i].owner = j
=============================================================================
