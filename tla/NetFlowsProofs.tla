---------------------------- MODULE NetFlowsProofs ----------------------------
(***************************************************************************)
(* Theorems about NetFlows, for every set of jobs and addresses, any       *)
(* number of flows, any cap, and every interleaving of threads, workers    *)
(* and sinks: what the time window of collect_network keeps out, and what  *)
(* it keeps.                                                               *)
(***************************************************************************)
EXTENDS NetFlows, FiniteSetTheorems, WellFoundedInduction, TLAPS

-----------------------------------------------------------------------------
(* Type correctness, and what a step does to handlers and to the log.      *)

\* What collect_network keeps of a kind are lines of the log.
LEMMA KeptAreLines ==
  ASSUME NEW j \in Jobs, NEW k \in Listed
  PROVE  Kept(j, k) \subseteq MatchingLines(j, k) /\ MatchingLines(j, k) \subseteq DOMAIN log
BY DEF Kept, MatchingLines

\* record() gives a handler a time and nothing else.
LEMMA StampType ==
  ASSUME TypeOK, NEW h \in handlers, Stamp(h)
  PROVE  handlers' \subseteq Handler
<1>1. h \in Handler /\ now \in Nat /\ handlers \subseteq Handler
  BY DEF TypeOK
<1>2. [h EXCEPT !.ts = now, !.live = address[h.owner] # NoAddress] \in Handler
  BY <1>1 DEF Handler
<1>3. handlers' = (handlers \ {h}) \cup {[h EXCEPT !.ts = now, !.live = address[h.owner] # NoAddress]}
  BY DEF Stamp
<1> QED
  BY <1>1, <1>2, <1>3

\* The line record() appends for a handler.
LineOf(h) == [src |-> h.src, kind |-> h.kind, owner |-> h.owner, ts |-> h.ts, live |-> h.live]

\* record() appends an event.
LEMMA AppendType ==
  ASSUME TypeOK, NEW h \in handlers, AppendLine(h)
  PROVE  log' \in Seq(Event)
<1> DEFINE e == LineOf(h)
<1>1. h \in Handler /\ log \in Seq(Event)
  BY DEF TypeOK
<1>2. e \in Event
  BY <1>1 DEF Handler, Event, LineOf
<1>3. log' = Append(log, e) \/ log' = log
  BY DEF AppendLine, LineOf
<1> HIDE DEF e
<1> QED
  BY <1>1, <1>2, <1>3

\* Every step keeps the types.
LEMMA TypeStep ==
  ASSUME TypeOK, [Next]_vars
  PROVE  TypeOK'
<1>0. MaxFlows \in Nat
  BY SizeAssumption
<1> USE DEF TypeOK, jobVars, sinkVars
<1>1. ASSUME NEW j \in Jobs, Start(j) PROVE TypeOK'
  BY <1>1 DEF Start
<1>2. ASSUME NEW j \in Jobs, Run(j) PROVE TypeOK'
  BY <1>2 DEF Run
<1>3. ASSUME NEW j \in Jobs, RunFails(j) PROVE TypeOK'
  BY <1>3 DEF RunFails
<1>4. ASSUME NEW j \in Jobs, Reload(j) PROVE TypeOK'
  <2>1. PICK ip \in {address[j], NoAddress} : workerIp' = [workerIp EXCEPT ![j] = ip]
    BY <1>4 DEF Reload
  <2> QED
    BY <1>4, <2>1 DEF Reload
<1>5. ASSUME NEW j \in Jobs, Finish(j) PROVE TypeOK'
  <2>1. /\ address' \in [Jobs -> Addresses \cup {NoAddress}]
        /\ refused' \subseteq Jobs
    BY <1>5 DEF Finish
  <2>2. /\ now' \in Nat /\ finished' \in [Jobs -> Nat]
        /\ thread' \in [Jobs -> {"new", "starting", "spawned", "waiting", "finished",
                                "collected"}]
    BY <1>5 DEF Finish
  <2> QED
    BY <1>5, <2>1, <2>2 DEF Finish
<1>6. ASSUME NEW j \in Jobs, Collect(j) PROVE TypeOK'
  <2>1. UNION {Kept(j, k) : k \in Listed} \in SUBSET (Nat \ {0})
    <3>1. DOMAIN log \subseteq Nat \ {0}
      OBVIOUS
    <3> QED
      BY <3>1, KeptAreLines
  <2>2. Len(log) \in Nat
    OBVIOUS
  <2> QED
    BY <1>6, <2>1, <2>2 DEF Collect
<1>7. ASSUME NEW j \in Jobs, WorkerStops(j) PROVE TypeOK'
  BY <1>7 DEF WorkerStops
<1>8. ASSUME NEW j \in Jobs, Connect(j) PROVE TypeOK'
  <2>1. PICK k \in Kind :
          handlers' = handlers \cup {[id |-> flowsSent + 1, src |-> address[j], kind |-> k,
                                      owner |-> j, ts |-> 0, live |-> FALSE]}
    BY <1>8 DEF Connect
  <2>2. flowsSent + 1 \in 1..MaxFlows /\ flowsSent' \in 0..MaxFlows
    BY <1>0, <1>8 DEF Connect
  <2>3. address[j] \in Addresses
    BY <1>8 DEF Connect
  <2>4. [id |-> flowsSent + 1, src |-> address[j], kind |-> k, owner |-> j, ts |-> 0,
         live |-> FALSE] \in Handler
    BY <2>2, <2>3 DEF Handler
  <2> QED
    BY <1>8, <2>1, <2>2, <2>4 DEF Connect
<1>9. ASSUME NEW h \in handlers, Stamp(h) PROVE TypeOK'
  <2>1. handlers' \subseteq Handler
    BY <1>9, StampType
  <2>2. now' = now + 1 /\ UNCHANGED <<jobVars, address, flowsSent, log, flows, logSeen, over, refused>>
    BY <1>9 DEF Stamp
  <2> QED
    BY <2>1, <2>2
<1>10. ASSUME NEW h \in handlers, AppendLine(h) PROVE TypeOK'
  BY <1>10, AppendType DEF AppendLine
<1>11. CASE UNCHANGED vars
  BY <1>11 DEF vars
<1> QED
  BY <1>1, <1>2, <1>3, <1>4, <1>5, <1>6, <1>7, <1>8, <1>9, <1>10, <1>11 DEF Next

\* Every variable keeps its type.
THEOREM FlowsTypeCorrect == Spec => []TypeOK
<1>1. Init => TypeOK
  BY SizeAssumption DEF Init, TypeOK
<1> QED
  BY <1>1, TypeStep, PTL DEF Spec

\* A handler of the next state was there before, has just read the clock, or has just been
\* given a connection of a worker.
LEMMA HandlersStep ==
  ASSUME TypeOK, [Next]_vars, NEW g \in handlers'
  PROVE  \/ g \in handlers
         \/ \E h \in handlers : /\ Stamp(h)
                                /\ g.src = h.src /\ g.owner = h.owner /\ g.ts = now
                                /\ g.live = (address[h.owner] # NoAddress)
         \/ \E j \in Jobs : /\ Connect(j)
                            /\ g.src = address[j] /\ g.owner = j /\ g.ts = 0
<1>1. ASSUME NEW j \in Jobs, Connect(j)
      PROVE  g \in handlers \/ (g.src = address[j] /\ g.owner = j /\ g.ts = 0)
  BY <1>1 DEF Connect
<1>2. ASSUME NEW h \in handlers, Stamp(h)
      PROVE  g \in handlers \/ /\ g.src = h.src /\ g.owner = h.owner /\ g.ts = now
                               /\ g.live = (address[h.owner] # NoAddress)
  BY <1>2 DEF Stamp, TypeOK, Handler
<1>3. ASSUME NEW h \in handlers, AppendLine(h) PROVE g \in handlers
  BY <1>3 DEF AppendLine
<1>4. ASSUME NEW j \in Jobs,
             Start(j) \/ Run(j) \/ RunFails(j) \/ Reload(j) \/ Finish(j) \/ Collect(j)
               \/ WorkerStops(j)
      PROVE  g \in handlers
  BY <1>4 DEF Start, Run, RunFails, Reload, Finish, Collect, WorkerStops, sinkVars
<1>5. CASE UNCHANGED vars
  BY <1>5 DEF vars, sinkVars
<1> QED
  BY <1>1, <1>2, <1>3, <1>4, <1>5 DEF Next

\* The log is append-only: a line of the next state was there before, at the same place, or
\* is that of a handler whose record() has just got the lock.
LEMMA LogStep ==
  ASSUME TypeOK, [Next]_vars
  PROVE  /\ Len(log) <= Len(log') /\ DOMAIN log \subseteq DOMAIN log'
         /\ \A i \in DOMAIN log : log'[i] = log[i]
         /\ \A i \in DOMAIN log' :
              \/ i \in DOMAIN log
              \/ \E h \in handlers :
                   /\ AppendLine(h)
                   /\ log'[i] = LineOf(h)
<1>0. log \in Seq(Event) /\ handlers \subseteq Handler
  BY DEF TypeOK
<1>1. CASE UNCHANGED log
  BY <1>0, <1>1
<1>2. ASSUME NEW h \in handlers, AppendLine(h), ~UNCHANGED log
      PROVE  /\ Len(log) <= Len(log') /\ DOMAIN log \subseteq DOMAIN log'
             /\ \A i \in DOMAIN log : log'[i] = log[i]
             /\ \A i \in DOMAIN log' :
                  \/ i \in DOMAIN log
                  \/ log'[i] = LineOf(h)
  <2> DEFINE e == LineOf(h)
  <2>1. log' = Append(log, e)
    BY <1>2 DEF AppendLine, LineOf
  <2>2. e \in Event
    BY <1>0 DEF Handler, Event, LineOf
  <2> HIDE DEF e
  <2>3. /\ Len(log') = Len(log) + 1 /\ Len(log) \in Nat
        /\ DOMAIN log = 1..Len(log) /\ DOMAIN log' = 1..(Len(log) + 1)
        /\ \A i \in 1..Len(log) : log'[i] = log[i]
        /\ log'[Len(log) + 1] = e
    BY <1>0, <2>1, <2>2
  <2> QED
    BY <2>3 DEF e
<1>3. ASSUME NEW j \in Jobs,
             Start(j) \/ Run(j) \/ RunFails(j) \/ Reload(j) \/ Finish(j) \/ Collect(j)
               \/ WorkerStops(j) \/ Connect(j)
      PROVE  UNCHANGED log
  BY <1>3 DEF Start, Run, RunFails, Reload, Finish, Collect, WorkerStops, Connect, sinkVars
<1>4. ASSUME NEW h \in handlers, Stamp(h) PROVE UNCHANGED log
  BY <1>4 DEF Stamp
<1>5. CASE UNCHANGED vars
  BY <1>5 DEF vars, sinkVars
<1> QED
  BY <1>1, <1>2, <1>3, <1>4, <1>5 DEF Next

-----------------------------------------------------------------------------
(* What holds of clocks, owners, addresses and reports at every moment.     *)

\* The thread has made no container yet.
Launching == {"new", "starting"}

\* Every reading of the clock lies in the past, and only a stamped flow is on the log.
ClockInv ==
  /\ now > 0
  /\ \A j \in Jobs : started[j] < now /\ finished[j] < now
  /\ \A h \in handlers : h.ts < now
  /\ \A i \in DOMAIN log : 0 < log[i].ts /\ log[i].ts < now

\* Only a worker that was run sends anything, and it was run after started_at was read.
OwnerInv ==
  /\ \A j \in Jobs : thread[j] \in Launching
                       => address[j] = NoAddress /\ workerIp[j] = NoAddress
  /\ \A h \in handlers : /\ thread[h.owner] \notin Launching
                         /\ h.ts # 0 => started[h.owner] < h.ts
  /\ \A i \in DOMAIN log : /\ thread[log[i].owner] \notin Launching
                           /\ started[log[i].owner] < log[i].ts

\* A job that was over when j started is silent since, and every time on its flows is
\* earlier than j's window.
OverInv ==
  \A j \in Jobs : \A k \in over[j] :
    /\ thread[k] \notin Launching /\ address[k] = NoAddress
    /\ \A h \in handlers : h.owner = k => h.ts # 0 /\ h.ts < started[j]
    /\ \A i \in DOMAIN log : log[i].owner = k => log[i].ts < started[j]

\* A worker has one address from its start to its end: the one run_worker may have read
\* and the one on all it sent are the same.
SameAddress(j, a) == /\ address[j] # NoAddress => a = address[j]
                     /\ workerIp[j] # NoAddress => a = workerIp[j]

SourceInv ==
  /\ \A j \in Jobs : address[j] # NoAddress => SameAddress(j, address[j])
  /\ \A h \in handlers : SameAddress(h.owner, h.src)
  /\ \A i \in DOMAIN log : SameAddress(log[i].owner, log[i].src)

\* A report holds lines of the log as long as it was when the report was made.
CollectInv ==
  \A j \in Jobs : /\ thread[j] # "collected" => flows[j] = {}
                  /\ flows[j] \subseteq 1..logSeen[j]
                  /\ logSeen[j] <= Len(log)

\* run_worker is over, and the daemon did as it was told.
Done(j) == thread[j] \in {"finished", "collected"} /\ j \notin refused

\* So the worker is gone, and all a sink saw of it alive is dated before its job's end.
WindowInv ==
  \A j \in Jobs : Done(j) =>
    /\ address[j] = NoAddress
    /\ \A h \in handlers : h.owner = j /\ h.ts # 0 /\ h.live => h.ts < finished[j]
    /\ \A i \in DOMAIN log : log[i].owner = j /\ log[i].live => log[i].ts < finished[j]

FlowInv == TypeOK /\ ClockInv /\ OwnerInv /\ OverInv /\ SourceInv /\ WindowInv /\ CollectInv

\* The eight steps of a job, and the two of a sink.
JobStep(j) == \/ Start(j) \/ Run(j) \/ RunFails(j) \/ Reload(j) \/ Finish(j) \/ Collect(j)
              \/ WorkerStops(j) \/ Connect(j)

SinkStep == \E h \in handlers : Stamp(h) \/ AppendLine(h)

LEMMA NextIsStep == [Next]_vars => (\E j \in Jobs : JobStep(j)) \/ SinkStep \/ UNCHANGED vars
BY DEF Next, JobStep, SinkStep

\* The variables as functions, and the fields of handlers and lines.
LEMMA FlowTypes ==
  ASSUME TypeOK
  PROVE  /\ now \in Nat
         /\ thread \in [Jobs -> {"new", "starting", "spawned", "waiting", "finished", "collected"}]
         /\ address \in [Jobs -> Addresses \cup {NoAddress}]
         /\ workerIp \in [Jobs -> Addresses \cup {NoAddress}]
         /\ started \in [Jobs -> Nat] /\ finished \in [Jobs -> Nat]
         /\ over \in [Jobs -> SUBSET Jobs] /\ refused \subseteq Jobs
         /\ \A h \in handlers : h.src \in Addresses /\ h.owner \in Jobs /\ h.ts \in Nat
         /\ \A i \in DOMAIN log : /\ log[i].src \in Addresses /\ log[i].owner \in Jobs
                                  /\ log[i].ts \in Nat
<1>1. \A h \in handlers : h.src \in Addresses /\ h.owner \in Jobs /\ h.ts \in Nat
  BY DEF TypeOK, Handler
<1>2. \A i \in DOMAIN log : log[i] \in Event
  BY DEF TypeOK
<1>3. \A i \in DOMAIN log : /\ log[i].src \in Addresses /\ log[i].owner \in Jobs
                            /\ log[i].ts \in Nat
  BY <1>2 DEF Event
<1> QED
  BY <1>1, <1>3 DEF TypeOK

\* Time passes with every reading of the clock, and nothing is dated later than that.
LEMMA ClockStep ==
  ASSUME TypeOK, ClockInv, [Next]_vars
  PROVE  ClockInv'
<1>1. /\ now \in Nat /\ now > 0
      /\ started \in [Jobs -> Nat] /\ finished \in [Jobs -> Nat]
  BY FlowTypes DEF ClockInv
<1>2. now' \in {now, now + 1}
  BY <1>1 DEF Next, Start, Run, RunFails, Reload, Finish, Collect, WorkerStops, Connect, Stamp,
              AppendLine, vars
<1>3. \A j \in Jobs : started'[j] < now' /\ finished'[j] < now'
  <2>1. \A j \in Jobs : /\ started'[j] \in {started[j], now}
                        /\ started'[j] # started[j] => now' = now + 1
                        /\ finished'[j] \in {finished[j], now}
                        /\ finished'[j] # finished[j] => now' = now + 1
    BY <1>1, NextIsStep
       DEF JobStep, SinkStep, Start, Run, RunFails, Reload, Finish, Collect, WorkerStops,
           Connect, Stamp, AppendLine, vars, jobVars
  <2> QED
    BY <1>1, <1>2, <2>1 DEF ClockInv
<1>4. \A g \in handlers' : g.ts < now'
  <2> SUFFICES ASSUME NEW g \in handlers' PROVE g.ts < now'
    OBVIOUS
  <2>1. CASE g \in handlers
    BY <1>1, <1>2, <2>1, FlowTypes DEF ClockInv
  <2>2. ASSUME NEW h \in handlers, Stamp(h), g.ts = now PROVE g.ts < now'
    BY <1>1, <2>2 DEF Stamp
  <2>3. CASE g.ts = 0
    BY <1>1, <1>2, <2>3
  <2> QED
    BY <2>1, <2>2, <2>3, HandlersStep
<1>5. \A i \in DOMAIN log' : 0 < log'[i].ts /\ log'[i].ts < now'
  <2> SUFFICES ASSUME NEW i \in DOMAIN log' PROVE 0 < log'[i].ts /\ log'[i].ts < now'
    OBVIOUS
  <2>1. CASE i \in DOMAIN log
    BY <1>1, <1>2, <2>1, LogStep, FlowTypes DEF ClockInv
  <2>2. CASE i \notin DOMAIN log
    <3>1. PICK h \in handlers : AppendLine(h) /\ log'[i].ts = h.ts
      BY <2>2, LogStep DEF LineOf
    <3>2. h.ts # 0 /\ h.ts \in Nat /\ h.ts < now
      BY <3>1, FlowTypes DEF AppendLine, ClockInv
    <3> QED
      BY <1>1, <1>2, <3>1, <3>2
  <2> QED
    BY <2>1, <2>2
<1> QED
  BY <1>1, <1>2, <1>3, <1>4, <1>5 DEF ClockInv

\* A thread that has launched its worker never launches another, and its window stays open
\* where it was opened.
LEMMA LaunchedStays ==
  ASSUME TypeOK, [Next]_vars, NEW k \in Jobs, thread[k] \notin Launching
  PROVE  thread'[k] \notin Launching /\ started'[k] = started[k] /\ over'[k] = over[k]
BY FlowTypes, NextIsStep
   DEF Launching, JobStep, SinkStep, Start, Run, RunFails, Reload, Finish, Collect, WorkerStops,
       Connect, Stamp, AppendLine, vars, jobVars

\* A flow belongs to a worker that was run, and is dated after its job's window opened.
LEMMA OwnerStep ==
  ASSUME TypeOK, ClockInv, OwnerInv, [Next]_vars
  PROVE  OwnerInv'
<1>1. \A j \in Jobs : thread'[j] \in Launching
                       => address'[j] = NoAddress /\ workerIp'[j] = NoAddress
  BY FlowTypes, NextIsStep
     DEF OwnerInv, Launching, JobStep, SinkStep, Start, Run, RunFails, Reload, Finish, Collect,
         WorkerStops, Connect, Stamp, AppendLine, vars, jobVars
<1>2. ASSUME NEW g \in handlers'
      PROVE  thread'[g.owner] \notin Launching /\ (g.ts # 0 => started'[g.owner] < g.ts)
  <2>1. CASE g \in handlers
    BY <2>1, LaunchedStays, FlowTypes DEF OwnerInv
  <2>2. ASSUME NEW h \in handlers, g.owner = h.owner, g.ts = now
        PROVE  thread'[g.owner] \notin Launching /\ started'[g.owner] < g.ts
    BY <2>2, LaunchedStays, FlowTypes DEF OwnerInv, ClockInv
  <2>3. ASSUME NEW j \in Jobs, Connect(j), g.owner = j, g.ts = 0
        PROVE  thread'[g.owner] \notin Launching
    BY <2>3, LaunchedStays DEF Connect, OwnerInv
  <2> QED
    BY <2>1, <2>2, <2>3, HandlersStep
<1>3. ASSUME NEW i \in DOMAIN log'
      PROVE  thread'[log'[i].owner] \notin Launching /\ started'[log'[i].owner] < log'[i].ts
  <2>1. CASE i \in DOMAIN log
    BY <2>1, LogStep, LaunchedStays, FlowTypes DEF OwnerInv
  <2>2. CASE i \notin DOMAIN log
    <3>1. PICK h \in handlers : /\ AppendLine(h)
                                /\ log'[i].owner = h.owner /\ log'[i].ts = h.ts
      BY <2>2, LogStep DEF LineOf
    <3> QED
      BY <3>1, LaunchedStays, FlowTypes DEF OwnerInv, AppendLine
  <2> QED
    BY <2>1, <2>2
<1> QED
  BY <1>1, <1>2, <1>3 DEF OwnerInv

\* Who is over when a job starts: silent, and dated before the window that opens now.
LEMMA OverAtStart ==
  ASSUME TypeOK, ClockInv, OwnerInv, NEW j \in Jobs, Start(j), NEW k \in over'[j]
  PROVE  /\ k \in Jobs \ {j} /\ thread'[k] \notin Launching /\ address'[k] = NoAddress
         /\ \A h \in handlers' : h.owner = k => h.ts # 0 /\ h.ts < started'[j]
         /\ \A i \in DOMAIN log' : log'[i].owner = k => log'[i].ts < started'[j]
<1>1. over'[j] = {i \in Jobs : Over(i)} /\ started'[j] = now /\ thread[j] = "new"
  BY FlowTypes DEF Start
<1>2. k \in Jobs /\ Over(k) /\ k # j
  BY <1>1 DEF Over
<1>3. thread[k] \notin Launching /\ address[k] = NoAddress
  BY <1>2 DEF Over, Launching
<1>4. handlers' = handlers /\ log' = log /\ address' = address
  BY DEF Start, sinkVars
<1> QED
  BY <1>1, <1>2, <1>3, <1>4, LaunchedStays, FlowTypes DEF Over, ClockInv, Start, Launching

\* A job that is over stays over: it gets no address, no handler and no line that was not
\* already dated.
LEMMA OverStep ==
  ASSUME TypeOK, ClockInv, OwnerInv, OverInv, [Next]_vars
  PROVE  OverInv'
<1> SUFFICES ASSUME NEW j \in Jobs, NEW k \in over'[j]
             PROVE  /\ thread'[k] \notin Launching /\ address'[k] = NoAddress
                    /\ \A h \in handlers' : h.owner = k => h.ts # 0 /\ h.ts < started'[j]
                    /\ \A i \in DOMAIN log' : log'[i].owner = k => log'[i].ts < started'[j]
  BY DEF OverInv
<1>1. CASE Start(j)
  BY <1>1, OverAtStart
<1>2. CASE ~Start(j)
  <2>1. over'[j] = over[j] /\ started'[j] = started[j]
    BY <1>2, FlowTypes, NextIsStep
       DEF JobStep, SinkStep, Start, Run, RunFails, Reload, Finish, Collect, WorkerStops,
           Connect, Stamp, AppendLine, vars, jobVars
  <2>2. k \in Jobs /\ k \in over[j] /\ thread[k] \notin Launching /\ address[k] = NoAddress
    BY <2>1, FlowTypes DEF OverInv
  <2>3. thread'[k] \notin Launching
    BY <2>2, LaunchedStays
  <2>4. address'[k] = NoAddress
    BY <2>2, FlowTypes, NextIsStep
       DEF Launching, JobStep, SinkStep, Start, Run, RunFails, Reload, Finish, Collect,
           WorkerStops, Connect, Stamp, AppendLine, vars, jobVars
  <2>5. ASSUME NEW g \in handlers', g.owner = k PROVE g.ts # 0 /\ g.ts < started'[j]
    <3>1. CASE g \in handlers
      BY <2>1, <2>2, <2>5, <3>1 DEF OverInv
    <3>2. ~ \E h \in handlers : Stamp(h) /\ g.owner = h.owner
      BY <2>2, <2>5 DEF OverInv, Stamp
    <3>3. ~ \E i \in Jobs : Connect(i) /\ g.owner = i
      BY <2>2, <2>5 DEF Connect
    <3> QED
      BY <3>1, <3>2, <3>3, HandlersStep
  <2>6. ASSUME NEW i \in DOMAIN log', log'[i].owner = k PROVE log'[i].ts < started'[j]
    <3>1. CASE i \in DOMAIN log
      BY <2>1, <2>2, <2>6, <3>1, LogStep DEF OverInv
    <3>2. CASE i \notin DOMAIN log
      <4>1. PICK h \in handlers : log'[i].owner = h.owner /\ log'[i].ts = h.ts
        BY <3>2, LogStep DEF LineOf
      <4> QED
        BY <2>1, <2>2, <2>6, <4>1 DEF OverInv
    <3> QED
      BY <3>1, <3>2
  <2> QED
    BY <2>3, <2>4, <2>5, <2>6
<1> QED
  BY <1>1, <1>2

\* A job that was launched keeps its address until its worker stops, and only reload() reads
\* it.
LEMMA AddressMoves ==
  ASSUME TypeOK, [Next]_vars, NEW k \in Jobs, thread[k] \notin Launching
  PROVE  /\ address'[k] \in {address[k], NoAddress}
         /\ workerIp'[k] \in {workerIp[k], address[k], NoAddress}
<1>1. address'[k] \in {address[k], NoAddress}
  BY FlowTypes, NextIsStep
     DEF Launching, JobStep, SinkStep, Start, Run, RunFails, Reload, Finish, Collect, WorkerStops,
         Connect, Stamp, AppendLine, vars, jobVars
<1>2. ASSUME NEW j \in Jobs, Reload(j) PROVE workerIp'[k] \in {workerIp[k], address[k], NoAddress}
  BY <1>2, FlowTypes DEF Reload
<1>3. UNCHANGED workerIp \/ \E j \in Jobs : Reload(j)
  BY NextIsStep
     DEF JobStep, SinkStep, Start, Run, RunFails, Finish, Collect, WorkerStops, Connect, Stamp,
         AppendLine, vars, jobVars
<1> QED
  BY <1>1, <1>2, <1>3

\* So the address on what it sent stays the right one.
LEMMA AddressStep ==
  ASSUME TypeOK, SourceInv, [Next]_vars, NEW k \in Jobs, thread[k] \notin Launching,
         NEW a, SameAddress(k, a)
  PROVE  SameAddress(k, a)'
BY AddressMoves DEF SameAddress

\* All a worker sends carries its one address.
LEMMA SourceStep ==
  ASSUME TypeOK, OwnerInv, SourceInv, [Next]_vars
  PROVE  SourceInv'
<1>1. ASSUME NEW j \in Jobs, address'[j] # NoAddress PROVE SameAddress(j, address[j])'
  <2>1. CASE thread[j] \in Launching
    <3>1. workerIp[j] = NoAddress
      BY <2>1 DEF OwnerInv
    <3>2. workerIp'[j] = NoAddress
      BY <2>1, <3>1, FlowTypes, NextIsStep
         DEF Launching, JobStep, SinkStep, Start, Run, RunFails, Reload, Finish, Collect,
             WorkerStops, Connect, Stamp, AppendLine, vars, jobVars
    <3> QED
      BY <3>2 DEF SameAddress
  <2>2. CASE thread[j] \notin Launching
    <3>1. /\ address'[j] = address[j] /\ workerIp'[j] \in {workerIp[j], address[j], NoAddress}
          /\ SameAddress(j, address[j])
      BY <1>1, <2>2, AddressMoves DEF SourceInv
    <3> QED
      BY <1>1, <3>1 DEF SameAddress
  <2> QED
    BY <2>1, <2>2
<1>2. ASSUME NEW g \in handlers' PROVE SameAddress(g.owner, g.src)'
  <2>1. ASSUME NEW h \in handlers, g.owner = h.owner, g.src = h.src
        PROVE  SameAddress(g.owner, g.src)'
    <3>1. h.owner \in Jobs /\ thread[h.owner] \notin Launching /\ SameAddress(h.owner, h.src)
      BY FlowTypes DEF OwnerInv, SourceInv
    <3> QED
      BY <2>1, <3>1, AddressStep
  <2>2. ASSUME NEW j \in Jobs, Connect(j), g.owner = j, g.src = address[j]
        PROVE  SameAddress(g.owner, g.src)'
    <3>1. address[j] # NoAddress /\ UNCHANGED <<address, workerIp>> /\ SameAddress(j, address[j])
      BY <2>2 DEF Connect, jobVars, SourceInv
    <3> QED
      BY <2>2, <3>1 DEF SameAddress
  <2> QED
    BY <2>1, <2>2, HandlersStep
<1>3. ASSUME NEW i \in DOMAIN log' PROVE SameAddress(log[i].owner, log[i].src)'
  <2>1. CASE i \in DOMAIN log
    <3>1. /\ log[i].owner \in Jobs /\ thread[log[i].owner] \notin Launching
          /\ SameAddress(log[i].owner, log[i].src)
      BY <2>1, FlowTypes DEF OwnerInv, SourceInv
    <3>2. log'[i] = log[i]
      BY <2>1, LogStep
    <3> QED
      BY <3>1, <3>2, AddressStep
  <2>2. CASE i \notin DOMAIN log
    <3>1. PICK h \in handlers : log'[i].owner = h.owner /\ log'[i].src = h.src
      BY <2>2, LogStep DEF LineOf
    <3>2. h.owner \in Jobs /\ thread[h.owner] \notin Launching /\ SameAddress(h.owner, h.src)
      BY FlowTypes DEF OwnerInv, SourceInv
    <3> QED
      BY <3>1, <3>2, AddressStep
  <2> QED
    BY <2>1, <2>2
<1> QED
  BY <1>1, <1>2, <1>3 DEF SourceInv

\* The job's end is read after its worker is gone: it lies after all that was seen of it.
LEMMA DoneNow ==
  ASSUME TypeOK, ClockInv, OwnerInv, NEW j \in Jobs, Finish(j) \/ RunFails(j), Done(j)'
  PROVE  /\ address'[j] = NoAddress
         /\ handlers' = handlers /\ log' = log /\ finished'[j] = now
         /\ \A h \in handlers : h.ts < now
         /\ \A i \in DOMAIN log : log[i].ts < now
<1>1. CASE Finish(j)
  <2>1. address'[j] = NoAddress \/ j \in refused'
    BY <1>1, FlowTypes DEF Finish
  <2> QED
    BY <1>1, <2>1, FlowTypes DEF Finish, Done, ClockInv, sinkVars
<1>2. CASE RunFails(j)
  BY <1>2, FlowTypes DEF RunFails, OwnerInv, Launching, ClockInv, sinkVars
<1> QED
  BY <1>1, <1>2

\* Once it is over it stays over, and its end stays where it was read.
LEMMA DoneStays ==
  ASSUME TypeOK, WindowInv, [Next]_vars, NEW j \in Jobs, ~ Finish(j), ~ RunFails(j), Done(j)'
  PROVE  Done(j) /\ address'[j] = NoAddress /\ finished'[j] = finished[j]
<1>1. thread[j] \in {"finished", "collected"} /\ finished'[j] = finished[j]
  <2>1. thread'[j] \in {"finished", "collected"}
    BY DEF Done
  <2>2. ASSUME NEW k \in Jobs \ {j}, Finish(k) \/ RunFails(k)
        PROVE  thread'[j] = thread[j] /\ finished'[j] = finished[j]
    BY <2>2, FlowTypes DEF Finish, RunFails
  <2>3. \/ \E k \in Jobs : Finish(k) \/ RunFails(k)
        \/ (thread'[j] \in {"finished", "collected"} => thread[j] \in {"finished", "collected"})
           /\ finished'[j] = finished[j]
    BY FlowTypes, NextIsStep
       DEF JobStep, SinkStep, Start, Run, Reload, Collect, WorkerStops, Connect, Stamp,
           AppendLine, vars, jobVars
  <2> QED
    BY <2>1, <2>2, <2>3
<1>2. refused \subseteq refused'
  BY NextIsStep
     DEF JobStep, SinkStep, Start, Run, RunFails, Reload, Finish, Collect, WorkerStops,
         Connect, Stamp, AppendLine, vars
<1>3. Done(j) /\ address[j] = NoAddress
  BY <1>1, <1>2 DEF Done, WindowInv
<1>4. address'[j] \in {address[j], NoAddress}
  BY <1>1, AddressMoves DEF Launching
<1> QED
  BY <1>1, <1>3, <1>4

\* All that is seen of a worker alive is dated before its job's end.
LEMMA WindowStep ==
  ASSUME TypeOK, ClockInv, OwnerInv, WindowInv, [Next]_vars
  PROVE  WindowInv'
<1> SUFFICES ASSUME NEW j \in Jobs, Done(j)'
             PROVE  /\ address'[j] = NoAddress
                    /\ \A h \in handlers' : h.owner = j /\ h.ts # 0 /\ h.live
                                             => h.ts < finished'[j]
                    /\ \A i \in DOMAIN log' : log'[i].owner = j /\ log'[i].live
                                             => log'[i].ts < finished'[j]
  BY DEF WindowInv
<1>1. CASE Finish(j) \/ RunFails(j)
  BY <1>1, DoneNow
<1>2. CASE ~ Finish(j) /\ ~ RunFails(j)
  <2>1. Done(j) /\ address[j] = NoAddress /\ address'[j] = NoAddress /\ finished'[j] = finished[j]
    BY <1>2, DoneStays DEF WindowInv
  <2>2. ASSUME NEW g \in handlers', g.owner = j, g.ts # 0, g.live PROVE g.ts < finished'[j]
    <3>1. g \in handlers
      BY <2>1, <2>2, HandlersStep
    <3> QED
      BY <2>1, <2>2, <3>1 DEF WindowInv
  <2>3. ASSUME NEW i \in DOMAIN log', log'[i].owner = j, log'[i].live
        PROVE  log'[i].ts < finished'[j]
    <3>1. CASE i \in DOMAIN log
      BY <2>1, <2>3, <3>1, LogStep DEF WindowInv
    <3>2. CASE i \notin DOMAIN log
      <4>1. PICK h \in handlers : AppendLine(h) /\ log'[i] = LineOf(h)
        BY <3>2, LogStep
      <4>2. h.owner = j /\ h.ts # 0 /\ h.live /\ log'[i].ts = h.ts
        BY <2>3, <4>1 DEF AppendLine, LineOf
      <4> QED
        BY <2>1, <4>2 DEF WindowInv
    <3> QED
      BY <3>1, <3>2
  <2> QED
    BY <2>1, <2>2, <2>3
<1> QED
  BY <1>1, <1>2

\* A report is made once, from the lines there are.
LEMMA CollectStep ==
  ASSUME TypeOK, CollectInv, [Next]_vars
  PROVE  CollectInv'
<1> SUFFICES ASSUME NEW j \in Jobs
             PROVE  /\ thread'[j] # "collected" => flows'[j] = {}
                    /\ flows'[j] \subseteq 1..logSeen'[j]
                    /\ logSeen'[j] <= Len(log')
  BY DEF CollectInv
<1>0. /\ flows \in [Jobs -> SUBSET (Nat \ {0})] /\ logSeen \in [Jobs -> Nat]
      /\ log \in Seq(Event) /\ log' \in Seq(Event)
  BY TypeStep DEF TypeOK
<1>1. Len(log) \in Nat /\ Len(log') \in Nat /\ Len(log) <= Len(log') /\ DOMAIN log = 1..Len(log)
  BY <1>0, LogStep
<1>2. CASE Collect(j)
  <2>1. /\ flows'[j] = UNION {Kept(j, k) : k \in Listed}
        /\ logSeen'[j] = Len(log) /\ thread'[j] = "collected"
    BY <1>0, <1>2, FlowTypes DEF Collect
  <2> QED
    BY <1>1, <2>1, KeptAreLines
<1>3. CASE ~Collect(j)
  <2>1. flows'[j] = flows[j] /\ logSeen'[j] = logSeen[j]
    <3>1. ASSUME NEW i \in Jobs \ {j}, Collect(i)
          PROVE  flows'[j] = flows[j] /\ logSeen'[j] = logSeen[j]
      BY <1>0, <3>1 DEF Collect
    <3>2. UNCHANGED <<flows, logSeen>> \/ \E i \in Jobs : Collect(i)
      BY NextIsStep
         DEF JobStep, SinkStep, Start, Run, RunFails, Reload, Finish, WorkerStops, Connect,
             Stamp, AppendLine, vars
    <3> QED
      BY <1>3, <3>1, <3>2
  <2>2. thread'[j] # "collected" => thread[j] # "collected"
    BY <1>3, FlowTypes, NextIsStep
       DEF JobStep, SinkStep, Start, Run, RunFails, Reload, Finish, Collect, WorkerStops,
           Connect, Stamp, AppendLine, vars, jobVars
  <2> QED
    BY <1>0, <1>1, <2>1, <2>2 DEF CollectInv
<1> QED
  BY <1>2, <1>3

\* The clocks, owners, addresses and reports hold together in every behaviour.
LEMMA FlowInvariant == Spec => []FlowInv
<1>1. Init => FlowInv
  <2>1. Init => TypeOK
    BY SizeAssumption DEF Init, TypeOK
  <2>2. Init => ClockInv /\ OwnerInv /\ OverInv /\ SourceInv /\ WindowInv /\ CollectInv
    BY DEF Init, ClockInv, OwnerInv, OverInv, SourceInv, SameAddress, WindowInv, Done,
           CollectInv
  <2> QED
    BY <2>1, <2>2 DEF FlowInv
<1>2. FlowInv /\ [Next]_vars => FlowInv'
  BY TypeStep, ClockStep, OwnerStep, OverStep, SourceStep, WindowStep, CollectStep DEF FlowInv
<1> QED
  BY <1>1, <1>2, PTL DEF Spec

-----------------------------------------------------------------------------
(* What the window keeps out.                                              *)

\* A report's line keeps its place, its owner and its time; and its owner, who was launched,
\* keeps the beginning of its window.
LEMMA LineStays ==
  ASSUME FlowInv, [Next]_vars, NEW j \in Jobs, NEW i \in flows[j]
  PROVE  /\ i \in DOMAIN log /\ log'[i] = log[i]
         /\ log[i].owner \in Jobs /\ started'[log[i].owner] = started[log[i].owner]
<1>1. i \in 1..logSeen[j] /\ logSeen[j] <= Len(log) /\ logSeen[j] \in Nat /\ Len(log) \in Nat
      /\ DOMAIN log = 1..Len(log)
  BY DEF FlowInv, CollectInv, TypeOK
<1>2. i \in DOMAIN log
  BY <1>1
<1> QED
  BY <1>2, LogStep, LaunchedStays, FlowTypes DEF FlowInv, OwnerInv

\* "The IP alone is not enough because Docker recycles addresses between jobs": no report
\* shows a flow of a job that was over when its own job started, or of one that started
\* after it had finished - for any number of jobs, addresses and flows.
THEOREM WindowKeepsOut == Spec => []NoFlowFromAnotherTime
<1>1. Init => NoFlowFromAnotherTime
  BY DEF Init, NoFlowFromAnotherTime
<1>2. FlowInv /\ NoFlowFromAnotherTime /\ [Next]_vars => NoFlowFromAnotherTime'
  <2> SUFFICES ASSUME FlowInv, NoFlowFromAnotherTime, [Next]_vars,
                      NEW j \in Jobs, NEW i \in flows'[j]
               PROVE  /\ log'[i].owner \notin over'[j]
                      /\ started'[log'[i].owner] < finished'[j]
    BY DEF NoFlowFromAnotherTime
  <2>0. TypeOK
    BY DEF FlowInv
  <2>1. CASE Collect(j)
    <3>1. /\ flows'[j] = UNION {Kept(j, k) : k \in Listed}
          /\ UNCHANGED <<log, started, finished, over>>
      BY <2>0, <2>1 DEF Collect, sinkVars, TypeOK
    <3>2. i \in DOMAIN log /\ Matches(j, log[i])
      BY <3>1 DEF Kept, MatchingLines
    <3>3. started[j] <= log[i].ts /\ log[i].ts <= finished[j]
      BY <3>2 DEF Matches
    <3>4. started[log[i].owner] < log[i].ts
      BY <3>2 DEF FlowInv, OwnerInv
    <3>5. /\ started[j] \in Nat /\ finished[j] \in Nat /\ log[i].ts \in Nat
          /\ log[i].owner \in Jobs /\ started[log[i].owner] \in Nat
      BY <2>0, <3>2, FlowTypes
    <3>6. log[i].owner \notin over[j]
      BY <3>2, <3>3, <3>5 DEF FlowInv, OverInv
    <3> QED
      BY <3>1, <3>3, <3>4, <3>5, <3>6
  <2>2. CASE ~Collect(j)
    <3>1. flows'[j] = flows[j]
      <4>1. ASSUME NEW k \in Jobs \ {j}, Collect(k) PROVE flows'[j] = flows[j]
        BY <2>0, <4>1 DEF Collect, TypeOK
      <4>2. UNCHANGED flows \/ \E k \in Jobs : Collect(k)
        BY NextIsStep
           DEF JobStep, SinkStep, Start, Run, RunFails, Reload, Finish, WorkerStops, Connect,
               Stamp, AppendLine, vars
      <4> QED
        BY <2>2, <4>1, <4>2
    <3>2. thread[j] = "collected"
      BY <3>1 DEF FlowInv, CollectInv
    <3>3. over'[j] = over[j]
      BY <2>0, <3>2, LaunchedStays DEF Launching
    <3>4. finished'[j] = finished[j]
      BY <2>0, <3>2, FlowTypes, NextIsStep
         DEF JobStep, SinkStep, Start, Run, RunFails, Reload, Finish, Collect, WorkerStops,
             Connect, Stamp, AppendLine, vars, jobVars
    <3> QED
      BY <3>1, <3>3, <3>4, LineStays DEF NoFlowFromAnotherTime
  <2> QED
    BY <2>1, <2>2
<1> QED
  BY <1>1, <1>2, FlowInvariant, PTL DEF Spec

-----------------------------------------------------------------------------
(* What the window keeps.                                                  *)

\* Every set of numbers has a least member: the naturals are well founded.
LEMMA LeastMember ==
  ASSUME NEW S \in SUBSET Nat, S # {}
  PROVE  \E x \in S : \A y \in S : x <= y
<1>1. PICK x \in S : \A y \in S : <<y, x>> \notin OpToRel(<, Nat)
  BY NatLessThanWellFounded, WFMin
<1>2. \A y \in S : ~ (y < x)
  BY <1>1 DEF OpToRel
<1> QED
  BY <1>2

\* Every bounded set of numbers has a greatest one: the least of its bounds.
LEMMA GreatestMember ==
  ASSUME NEW S \in SUBSET Nat, S # {}, NEW n \in Nat, \A y \in S : y <= n
  PROVE  \E x \in S : \A y \in S : y <= x
<1> DEFINE B == {b \in Nat : \A y \in S : y <= b}
<1>1. B # {} /\ B \in SUBSET Nat
  OBVIOUS
<1>2. PICK b \in B : \A c \in B : b <= c
  BY <1>1, LeastMember
<1>3. CASE b \in S
  BY <1>2, <1>3
<1>4. CASE b \notin S
  <2>1. \A y \in S : y < b
    BY <1>2, <1>4
  <2>2. b - 1 \in Nat
    <3>1. PICK y \in S : TRUE
      OBVIOUS
    <3>2. y \in Nat /\ b \in Nat /\ y < b
      BY <1>2, <2>1
    <3> QED
      BY <3>2
  <2>3. b - 1 \in B
    BY <2>1, <2>2
  <2> QED
    BY <1>2, <2>2, <2>3
<1> QED
  BY <1>3, <1>4

\* The members of S below x, and those with fewer than m members below them.
Below(S, x) == {h \in S : h < x}
FirstOf(S, m) == {x \in S : Cardinality(Below(S, x)) < m}

LEMMA BelowGrows ==
  ASSUME NEW S \in SUBSET Nat, NEW x \in Nat, NEW y \in Nat, x <= y
  PROVE  Below(S, x) \subseteq Below(S, y)
<1> SUFFICES ASSUME NEW h \in S, h < x PROVE h < y
  BY DEF Below
<1>1. h \in Nat
  OBVIOUS
<1> QED
  BY <1>1

\* Cutting a list to its first m entries: what is crowded out comes after m that are kept.
LEMMA CrowdedOut ==
  ASSUME NEW n \in Nat, NEW S \in SUBSET (1..n), NEW m \in Nat,
         NEW i \in S, i \notin FirstOf(S, m)
  PROVE  Cardinality(Below(FirstOf(S, m), i)) = m
<1> DEFINE Late == S \ FirstOf(S, m)
<1>0. S \in SUBSET Nat /\ \A y \in S : y \in Nat /\ y <= n
  OBVIOUS
<1>1. PICK x \in Late : \A y \in Late : x <= y
  <2>1. Late \in SUBSET Nat /\ Late # {}
    BY <1>0
  <2> QED
    BY <2>1, LeastMember
<1>2. IsFiniteSet(S)
  BY <1>0, FS_BoundedSetOfNaturals
<1>3. \A y : /\ Below(S, y) \subseteq S /\ IsFiniteSet(Below(S, y))
             /\ Cardinality(Below(S, y)) \in Nat
  BY <1>2, FS_Subset, FS_CardinalityType DEF Below
<1>4. x <= i /\ x \in S /\ x \in Nat /\ i \in Nat
  BY <1>1
<1>5. Below(FirstOf(S, m), i) = Below(S, x)
  <2>1. ASSUME NEW h \in Below(S, x) PROVE h \in Below(FirstOf(S, m), i)
    BY <1>1, <1>4 DEF Below, FirstOf
  <2>2. ASSUME NEW h \in Below(FirstOf(S, m), i) PROVE h \in Below(S, x)
    <3>1. h \in S /\ h < i /\ Cardinality(Below(S, h)) < m /\ h \in Nat
      BY DEF Below, FirstOf
    <3>2. CASE x <= h
      <4>1. Below(S, x) \in SUBSET Below(S, h)
        BY <1>0, <1>4, <3>1, <3>2, BelowGrows
      <4>2. Cardinality(Below(S, x)) <= Cardinality(Below(S, h))
        BY <1>3, <4>1, FS_Subset
      <4>3. Cardinality(Below(S, x)) < m
        BY <1>3, <3>1, <4>2
      <4> QED
        BY <1>1, <1>4, <4>3 DEF FirstOf
    <3> QED
      BY <1>4, <3>1, <3>2 DEF Below
  <2> QED
    BY <2>1, <2>2
<1>6. ~ (Cardinality(Below(S, x)) < m)
  BY <1>1 DEF FirstOf
<1>7. Cardinality(Below(S, x)) <= m
  <2>1. CASE Below(S, x) = {}
    BY <2>1, FS_EmptySet
  <2>2. CASE Below(S, x) # {}
    <3>1. PICK p \in Below(S, x) : \A y \in Below(S, x) : y <= p
      <4>1. Below(S, x) \in SUBSET Nat /\ \A y \in Below(S, x) : y <= n
        BY <1>0 DEF Below
      <4> QED
        BY <2>2, <4>1, GreatestMember
    <3>2. p \in S /\ p < x /\ p \in Nat
      BY <3>1 DEF Below
    <3>3. p \in FirstOf(S, m)
      BY <1>1, <1>4, <3>2
    <3>4. Below(S, x) = Below(S, p) \cup {p} /\ p \notin Below(S, p)
      <4>1. \A y \in Below(S, x) : y \in Nat /\ y <= p
        BY <1>0, <3>1 DEF Below
      <4>2. \A y \in Below(S, x) : y < p \/ y = p
        BY <3>2, <4>1
      <4>3. Below(S, p) \subseteq Below(S, x)
        BY <1>0, <1>4, <3>2, BelowGrows
      <4>4. \A y \in Below(S, x) : y \in Below(S, p) \/ y = p
        BY <4>2 DEF Below
      <4>5. p \notin Below(S, p)
        BY <3>2 DEF Below
      <4> QED
        BY <3>1, <4>3, <4>4, <4>5
    <3>5. Cardinality(Below(S, x)) = Cardinality(Below(S, p)) + 1
      BY <1>3, <3>4, FS_AddElement
    <3>6. Cardinality(Below(S, p)) < m
      BY <3>3 DEF FirstOf
    <3> QED
      BY <1>3, <3>5, <3>6
  <2> QED
    BY <2>1, <2>2
<1> QED
  BY <1>3, <1>5, <1>6, <1>7

\* The promise to job j about line i.
KeptOrCrowdedOut(j, i) ==
  log[i].owner = j /\ log[i].kind \in Listed /\ InTime(j, log[i])
    => \/ i \in flows[j]
       \/ Cardinality({h \in flows[j] : log[h].kind = log[i].kind /\ h < i}) = MaxPerKind

\* The report is made: every line of the job so far is within its window, since the window
\* was opened before the worker existed; and the cap crowds out only what comes after it.
LEMMA CollectKeeps ==
  ASSUME FlowInv, NEW j \in Jobs, Collect(j), workerIp[j] # NoAddress, NEW i \in DOMAIN log
  PROVE  KeptOrCrowdedOut(j, i)'
<1>0. /\ flows'[j] = UNION {Kept(j, k) : k \in Listed}
      /\ UNCHANGED <<log, finished, refused>> /\ log \in Seq(Event) /\ TypeOK
      /\ thread[j] = "finished"
  BY DEF FlowInv, TypeOK, Collect, sinkVars
<1> SUFFICES ASSUME log[i].owner = j, log[i].kind \in Listed, InTime(j, log[i]),
                    i \notin flows'[j]
             PROVE  Cardinality({h \in flows'[j] : log[h].kind = log[i].kind /\ h < i})
                      = MaxPerKind
  BY <1>0 DEF KeptOrCrowdedOut, InTime
<1> DEFINE k == log[i].kind
           S == MatchingLines(j, k)
<1>1. k \in Listed
  OBVIOUS
<1>2. i \in S
  <2>1. log[i].src = workerIp[j]
    BY DEF FlowInv, SourceInv, SameAddress
  <2>2. started[j] < log[i].ts
    BY DEF FlowInv, OwnerInv
  <2>3. log[i].ts < finished[j]
    BY <1>0 DEF InTime, FlowInv, WindowInv, Done
  <2>4. started[j] \in Nat /\ finished[j] \in Nat /\ log[i].ts \in Nat
    BY <1>0, FlowTypes
  <2> QED
    BY <2>1, <2>2, <2>3, <2>4 DEF MatchingLines, Matches
<1>3. Kept(j, k) = FirstOf(S, MaxPerKind)
  BY DEF Kept, FirstOf, Below
<1>4. {h \in flows'[j] : log[h].kind = k /\ h < i} = Below(Kept(j, k), i)
  <2>1. ASSUME NEW h \in flows'[j], log[h].kind = k PROVE h \in Kept(j, k)
    <3>1. PICK c \in Listed : h \in Kept(j, c)
      BY <1>0
    <3>2. c = k
      BY <2>1, <3>1 DEF Kept, MatchingLines
    <3> QED
      BY <3>1, <3>2
  <2>2. ASSUME NEW h \in Kept(j, k) PROVE h \in flows'[j] /\ log[h].kind = k
    <3>1. Kept(j, k) \subseteq flows'[j]
      BY <1>0, <1>1
    <3>2. \A g \in Kept(j, k) : log[g].kind = k
      BY DEF Kept, MatchingLines
    <3> QED
      BY <3>1, <3>2
  <2> QED
    BY <2>1, <2>2 DEF Below
<1>5. S \in SUBSET (1..Len(log)) /\ Len(log) \in Nat /\ MaxPerKind \in Nat
  BY <1>0, SizeAssumption DEF MatchingLines
<1>6. i \notin Kept(j, k)
  BY <1>0, <1>1
<1> HIDE DEF S, k
<1>7. Cardinality(Below(FirstOf(S, MaxPerKind), i)) = MaxPerKind
  <2>1. i \notin FirstOf(S, MaxPerKind)
    BY <1>3, <1>6
  <2> QED
    BY <1>2, <1>5, <2>1, CrowdedOut
<1> QED
  BY <1>3, <1>4, <1>7 DEF k

\* "Matching is by source IP within the job's own time window": a report whose worker's
\* address was read misses nothing that the sinks saw of that worker while it was up, of a
\* kind that has a list, and that the log held in time - except behind MaxPerKind lines of
\* its list that it does show.
THEOREM WindowKeepsOwn == Spec => []OwnFlowsKept
<1>1. Init => OwnFlowsKept
  BY DEF Init, OwnFlowsKept
<1>2. FlowInv /\ OwnFlowsKept /\ [Next]_vars => OwnFlowsKept'
  <2> SUFFICES ASSUME FlowInv, OwnFlowsKept, [Next]_vars,
                      NEW j \in Jobs, thread'[j] = "collected", workerIp'[j] # NoAddress,
                      NEW i \in 1..logSeen'[j]
               PROVE  KeptOrCrowdedOut(j, i)'
    BY DEF OwnFlowsKept, KeptOrCrowdedOut
  <2>0. TypeOK /\ CollectInv /\ log \in Seq(Event) /\ logSeen \in [Jobs -> Nat]
    BY DEF FlowInv, TypeOK
  <2>1. CASE Collect(j)
    <3>1. logSeen'[j] = Len(log) /\ workerIp'[j] = workerIp[j]
      BY <2>0, <2>1 DEF Collect
    <3>2. i \in DOMAIN log
      BY <2>0, <3>1
    <3> QED
      BY <2>1, <3>1, <3>2, CollectKeeps
  <2>2. CASE ~Collect(j)
    <3>0. thread[j] = "collected"
      <4>1. ASSUME NEW k \in Jobs \ {j}, Collect(k) PROVE thread'[j] = thread[j]
        BY <4>1, <2>0, FlowTypes DEF Collect
      <4>2. (\E k \in Jobs : Collect(k)) \/ thread'[j] = thread[j] \/ thread'[j] # "collected"
        BY <2>0, FlowTypes, NextIsStep
           DEF JobStep, SinkStep, Start, Run, RunFails, Reload, Finish, WorkerStops, Connect,
               Stamp, AppendLine, vars, jobVars
      <4> QED
        BY <2>2, <4>1, <4>2
    <3>1. /\ finished'[j] = finished[j] /\ workerIp'[j] = workerIp[j]
          /\ j \in refused' <=> j \in refused
      BY <2>0, <3>0, FlowTypes, NextIsStep
         DEF JobStep, SinkStep, Start, Run, RunFails, Reload, Finish, Collect, WorkerStops,
             Connect, Stamp, AppendLine, vars, jobVars
    <3>2. flows'[j] = flows[j] /\ logSeen'[j] = logSeen[j]
      <4>1. ASSUME NEW k \in Jobs \ {j}, Collect(k)
            PROVE  flows'[j] = flows[j] /\ logSeen'[j] = logSeen[j]
        BY <4>1, <2>0 DEF Collect, TypeOK
      <4>2. UNCHANGED <<flows, logSeen>> \/ \E k \in Jobs : Collect(k)
        BY NextIsStep
           DEF JobStep, SinkStep, Start, Run, RunFails, Reload, Finish, WorkerStops, Connect,
               Stamp, AppendLine, vars
      <4> QED
        BY <2>2, <4>1, <4>2
    <3>3. i \in DOMAIN log /\ flows[j] \subseteq DOMAIN log
      BY <2>0, <3>2 DEF CollectInv
    <3>4. log'[i] = log[i] /\ \A h \in flows[j] : log'[h] = log[h]
      BY <2>0, <3>3, LogStep
    <3>5. KeptOrCrowdedOut(j, i)
      BY <3>0, <3>1, <3>2 DEF OwnFlowsKept, KeptOrCrowdedOut
    <3>6. {h \in flows'[j] : log'[h].kind = log'[i].kind /\ h < i}
            = {h \in flows[j] : log[h].kind = log[i].kind /\ h < i}
      BY <3>2, <3>4
    <3> QED
      BY <3>1, <3>2, <3>4, <3>5, <3>6 DEF KeptOrCrowdedOut, InTime
  <2> QED
    BY <2>1, <2>2
<1> QED
  BY <1>1, <1>2, FlowInvariant, PTL DEF Spec
=============================================================================
