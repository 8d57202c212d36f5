---------------------------- MODULE WorkerProofs ----------------------------
(***************************************************************************)
(* Theorems about the worker's run: the trace of the sample, the time its  *)
(* tools take, and that a binary is run; and the types of the variables of *)
(* a whole analysis.                                                       *)
(***************************************************************************)
EXTENDS AnalysisProofs, SequenceTheorems

-----------------------------------------------------------------------------
(* What parse_trace reads is what the sample did.                          *)

InLog(c) == \E i \in 1..Len(trace) : trace[i] = c

\* A line that the calls so far account for.
Told(line) == \/ line \in calls \cup {"launch"}
              \/ line = "enoent_cut" /\ "enoent" \in calls

TraceInv ==
  /\ trace \in Seq(LineKind)
  /\ calls \subseteq Calls
  /\ run = "idle" => calls = {} /\ trace = <<>>
  /\ \A i \in 1..Len(trace) : Told(trace[i])
  /\ ~timedOut => \A c \in calls : InLog(c) \/ InLog(Cut(c))

LEMMA CutLine == \A c \in LineKind : Cut(c) \in LineKind
BY DEF Cut, LineKind

LEMMA CutIsTold == \A line : Told(line) => Told(Cut(line))
BY DEF Told, Cut

LEMMA CallKeepsTrace ==
  ASSUME SurvivorInv, TraceInv, NEW p \in Procs, NEW c \in Calls, Call(p, c)
  PROVE  TraceInv'
<1>1. /\ c \in CallKind /\ calls' = calls \cup {c} /\ p \in alive
      /\ UNCHANGED <<run, timedOut>>
  BY CallsAssumption DEF Call
<1>2. run # "idle"
  BY <1>1 DEF SurvivorInv
<1>3. ASSUME NEW line \in {c, Cut(c)}, trace' = Append(trace, line)
      PROVE  TraceInv'
  <2>1. line \in LineKind /\ Told(line)'
    <3>1. c \in LineKind /\ Cut(c) \in LineKind
      BY <1>1, CutLine DEF LineKind
    <3> QED
      BY <1>1, <1>3, <3>1 DEF Told, Cut
  <2>2. trace \in Seq(LineKind)
    BY DEF TraceInv
  <2>3. /\ trace' \in Seq(LineKind) /\ Len(trace') = Len(trace) + 1 /\ Len(trace) \in Nat
        /\ trace'[Len(trace) + 1] = line
        /\ \A i \in 1..Len(trace) : trace'[i] = trace[i]
    BY <1>3, <2>1, <2>2
  <2>4. \A i \in 1..Len(trace') : Told(trace[i])'
    <3> SUFFICES ASSUME NEW i \in 1..Len(trace') PROVE Told(trace[i])'
      OBVIOUS
    <3>1. i \in 1..Len(trace) \/ i = Len(trace) + 1
      BY <2>3
    <3>2. CASE i \in 1..Len(trace)
      <4>1. Told(trace[i]) /\ trace'[i] = trace[i]
        BY <2>3, <3>2 DEF TraceInv
      <4> QED
        BY <1>1, <4>1 DEF Told
    <3> QED
      BY <2>1, <2>3, <3>1, <3>2
  <2>5. \A d : InLog(d) => InLog(d)'
    <3> SUFFICES ASSUME NEW d, NEW i \in 1..Len(trace), trace[i] = d PROVE InLog(d)'
      BY DEF InLog
    <3>1. i \in 1..Len(trace') /\ trace'[i] = d
      BY <2>3
    <3> QED
      BY <3>1 DEF InLog
  <2>6. InLog(line)'
    <3>1. Len(trace) + 1 \in 1..Len(trace')
      BY <2>3
    <3> QED
      BY <2>3, <3>1 DEF InLog
  <2>7. ~timedOut' => \A d \in calls' : InLog(d)' \/ InLog(Cut(d))'
    BY <1>1, <1>3, <2>5, <2>6 DEF TraceInv
  <2> QED
    BY <1>1, <1>2, <2>3, <2>4, <2>7 DEF TraceInv, Cut
<1>4. CASE p \notin traced /\ trace' = trace
  <2>1. timedOut
    BY <1>1, <1>4 DEF SurvivorInv
  <2>2. \A i \in 1..Len(trace) : Told(trace[i])'
    BY <1>1, <1>4 DEF TraceInv, Told
  <2> QED
    BY <1>1, <1>2, <1>4, <2>1, <2>2 DEF TraceInv
<1> QED
  BY <1>3, <1>4 DEF Call

\* The kill may cost the log its last line, or the end of it.
LEMMA BudgetKeepsTrace == SurvivorInv /\ TraceInv /\ BudgetExpires => TraceInv'
<1> SUFFICES ASSUME SurvivorInv, TraceInv, BudgetExpires PROVE TraceInv'
  OBVIOUS
<1>1. run' # "idle" /\ timedOut' /\ calls' = calls
  BY DEF BudgetExpires
<1>2. trace \in Seq(LineKind) /\ \A i \in 1..Len(trace) : Told(trace[i])
  BY DEF TraceInv
<1>3. /\ trace' \in Seq(LineKind)
      /\ \A i \in 1..Len(trace') : Told(trace'[i])
  <2>1. CASE trace' = trace
    BY <1>2, <2>1
  <2>2. CASE trace' = SubSeq(trace, 1, Len(trace) - 1)
    <3>1. /\ trace' \in Seq(LineKind)
          /\ \A i \in 1..Len(trace') : i \in 1..Len(trace) /\ trace'[i] = trace[i]
      BY <1>2, <2>2
    <3> QED
      BY <1>2, <3>1
  <2>3. CASE trace' = [trace EXCEPT ![Len(trace)] = Cut(@)]
    <3>1. \A i \in 1..Len(trace) : trace[i] \in LineKind
      BY <1>2
    <3>2. \A i \in 1..Len(trace) : Cut(trace[i]) \in LineKind /\ Told(Cut(trace[i]))
      BY <1>2, <3>1, CutLine, CutIsTold
    <3>3. /\ DOMAIN trace' = 1..Len(trace) /\ Len(trace) \in Nat
          /\ \A i \in 1..Len(trace) : trace'[i] \in {trace[i], Cut(trace[i])}
      BY <1>2, <2>3
    <3>4. \A i \in 1..Len(trace) : trace'[i] \in LineKind /\ Told(trace'[i])
      BY <1>2, <3>1, <3>2, <3>3
    <3>5. trace' \in Seq(LineKind) /\ Len(trace') = Len(trace)
      <4>1. trace' = [i \in DOMAIN trace' |-> trace'[i]]
        BY <2>3
      <4>2. trace' \in [1..Len(trace) -> LineKind]
        BY <3>3, <3>4, <4>1
      <4> QED
        BY <3>3, <4>2
    <3> QED
      BY <3>4, <3>5
  <2> QED
    BY <2>1, <2>2, <2>3 DEF BudgetExpires
<1>4. \A i \in 1..Len(trace') : Told(trace[i])'
  BY <1>1, <1>3 DEF Told
<1> QED
  BY <1>1, <1>3, <1>4 DEF TraceInv

LEMMA LaunchKeepsTrace == TraceInv /\ Launch => TraceInv'
<1> SUFFICES ASSUME TraceInv, Launch PROVE TraceInv'
  OBVIOUS
<1>1. run' # "idle" /\ calls' = {} /\ (trace' = <<"launch">> \/ trace' = <<>>)
  BY DEF Launch, TraceInv
<1>2. "launch" \in LineKind
  BY DEF LineKind
<1>3. trace' \in Seq(LineKind) /\ \A i \in 1..Len(trace') : trace'[i] = "launch"
  <2>1. CASE trace' = <<"launch">>
    BY <1>2, <2>1
  <2>2. CASE trace' = <<>>
    <3>1. Len(trace') = 0 /\ 1..0 = {}
      BY <2>2
    <3> QED
      BY <2>2, <3>1
  <2> QED
    BY <1>1, <2>1, <2>2
<1>4. \A i \in 1..Len(trace') : Told(trace[i])'
  BY <1>3 DEF Told
<1> QED
  BY <1>1, <1>3, <1>4 DEF TraceInv

LEMMA TraceStays ==
  TraceInv /\ UNCHANGED <<trace, calls, timedOut>> /\ (run' = "idle" => run = "idle") => TraceInv'
<1> SUFFICES ASSUME TraceInv, UNCHANGED <<trace, calls, timedOut>>, run' = "idle" => run = "idle"
             PROVE  TraceInv'
  OBVIOUS
<1>1. \A i \in 1..Len(trace') : Told(trace[i])'
  BY DEF TraceInv, Told
<1>2. ~timedOut' => \A c \in calls' : InLog(c)' \/ InLog(Cut(c))'
  BY DEF TraceInv, InLog
<1> QED
  BY <1>1, <1>2 DEF TraceInv, Cut

LEMMA ExecutingKeepsTrace == SurvivorInv /\ TraceInv /\ Executing => TraceInv'
<1> SUFFICES ASSUME SurvivorInv, TraceInv, Executing PROVE TraceInv'
  OBVIOUS
<1>1. CASE Launch
  BY <1>1, LaunchKeepsTrace
<1>2. CASE SampleStep
  <2>1. PICK p \in Procs : \/ \E q \in Procs : Fork(p, q)
                           \/ Daemonize(p)
                           \/ Exit(p)
                           \/ \E c \in Calls : Call(p, c)
    BY <1>2 DEF SampleStep
  <2>2. CASE \E c \in Calls : Call(p, c)
    BY <2>2, CallKeepsTrace
  <2>3. CASE UNCHANGED <<run, trace, calls, timedOut>>
    BY <2>3, TraceStays
  <2> QED
    BY <2>1, <2>2, <2>3 DEF Fork, Daemonize, Exit
<1>3. CASE TraceeGone \/ Reaped
  BY <1>3, TraceStays DEF TraceeGone, Reaped
<1>4. CASE BudgetExpires
  BY <1>4, BudgetKeepsTrace
<1> QED
  BY <1>1, <1>2, <1>3, <1>4 DEF Executing

LEMMA TraceInductive == SurvivorInv /\ TraceInv /\ [Next]_vars => TraceInv'
<1> SUFFICES ASSUME SurvivorInv, TraceInv, [Next]_vars PROVE TraceInv'
  OBVIOUS
<1>1. CASE Working
  <2>1. CASE Executing
    BY <2>1, ExecutingKeepsTrace
  <2>2. CASE UNCHANGED nativeVars
    BY <2>2, TraceStays DEF nativeVars
  <2> QED
    BY <1>1, <2>1, <2>2 DEF Working, WorkerStep
<1>2. CASE Collect
  <2>1. run' = "idle" /\ trace' = <<>> /\ calls' = {}
    BY <1>2 DEF Collect
  <2>2. trace' \in Seq(LineKind) /\ Len(trace') = 0 /\ 1..0 = {}
    BY <2>1
  <2> QED
    BY <2>1, <2>2 DEF TraceInv
<1>3. CASE Verdict
  <2>1. Rest
    BY <1>3 DEF Verdict, RuleFires, RuleRaises, Evaluated, Weighing, Judging
  <2> QED
    BY <2>1, TraceStays DEF Rest, nativeVars
<1>4. CASE UNCHANGED vars
  BY <1>4, TraceStays DEF vars, nativeVars
<1> QED
  BY <1>1, <1>2, <1>3, <1>4 DEF Next

\* What a line is evidence of: the deed of its call, or what the ENOENT that is not on it hides.
LEMMA EvidenceIsDeed ==
  \A e \in EvidenceOf :
    e \in DeedOf \/ (e[1] = "enoent_cut" /\ e[2] \in {"processes", "lolbins_invoked"})
BY DEF EvidenceOf, DeedOf

LEMMA CutNoCall == "enoent_cut" \notin Calls /\ "launch" \notin Calls
BY CallsAssumption DEF CallKind

\* All deeds but the start of a program that looks like the launcher or like Wine leave evidence,
\* whether or not the line is cut.
LEMMA DeedLeavesEvidence ==
  \A e \in DeedOf :
    e[1] \notin {"self_exec", "wine_named"} => e \in EvidenceOf /\ Cut(e[1]) = e[1]
BY DEF EvidenceOf, DeedOf, Cut

\* The behaviour goes back to a call, or to a cut line.
LEMMA BehaviourIsDone ==
  ASSUME TraceInv, NEW feature \in Behaviour
  PROVE  \/ Did(feature)
         \/ /\ feature \in {"processes", "lolbins_invoked"} /\ "enoent" \in calls
            /\ "enoent_cut" \in LinesRead(trace)
<1>1. /\ trace \in Seq(LineKind) /\ Len(trace) \in Nat /\ MaxTraceLines \in Nat
      /\ \A i \in 1..Len(trace) : Told(trace[i])
  BY TraceAssumption DEF TraceInv
<1>2. \A line \in LinesRead(trace) : Told(line)
  BY <1>1 DEF LinesRead
<1>3. CASE \E e \in EvidenceOf : e[1] \in LinesRead(trace) /\ e[2] = feature
  <2>1. PICK e \in EvidenceOf : e[1] \in LinesRead(trace) /\ e[2] = feature
    BY <1>3
  <2>2. Told(e[1])
    BY <1>2, <2>1
  <2>3. CASE e[1] = "enoent_cut"
    <3>1. "enoent" \in calls
      BY <2>2, <2>3, CutNoCall DEF Told, TraceInv
    <3>2. feature \in {"processes", "lolbins_invoked"}
      BY <2>1, <2>3 DEF EvidenceOf
    <3> QED
      BY <2>1, <2>3, <3>1, <3>2
  <2>4. CASE e[1] # "enoent_cut"
    <3>1. e \in DeedOf /\ e[1] # "launch"
      <4>1. e \in DeedOf
        BY <2>1, <2>4, EvidenceIsDeed
      <4> QED
        BY <4>1 DEF DeedOf
    <3>2. e[1] \in calls /\ e = <<e[1], feature>>
      <4>1. e = <<e[1], e[2]>>
        BY <3>1 DEF DeedOf
      <4> QED
        BY <2>1, <2>2, <2>4, <3>1, <4>1 DEF Told
    <3>3. Did(feature)
      BY <3>1, <3>2 DEF Did
    <3> QED
      BY <3>3
  <2> QED
    BY <2>3, <2>4
<1>4. CASE /\ feature = "two_files_deleted"
           /\ {"unlink_a", "unlink_b"} \subseteq LinesRead(trace)
  <2>1. {"unlink_a", "unlink_b"} \subseteq calls
    BY <1>2, <1>4 DEF Told
  <2> QED
    BY <1>4, <2>1 DEF Did
<1>5. \/ \E e \in EvidenceOf : e[1] \in LinesRead(trace) /\ e[2] = feature
      \/ /\ feature = "two_files_deleted"
         /\ {"unlink_a", "unlink_b"} \subseteq LinesRead(trace)
  BY DEF Behaviour, Deeds
<1> QED
  BY <1>3, <1>4, <1>5

\* A log that is whole and read to its end has evidence of the deeds.
LEMMA DoneIsInBehaviour ==
  ASSUME TraceInv, ~timedOut, Len(trace) <= MaxTraceLines,
         NEW e \in DeedOf, e[1] \in calls \ {"self_exec", "wine_named"}
  PROVE  e[2] \in Behaviour
<1>1. trace \in Seq(LineKind) /\ Len(trace) \in Nat /\ MaxTraceLines \in Nat
  BY TraceAssumption DEF TraceInv
<1>2. e \in EvidenceOf /\ Cut(e[1]) = e[1]
  BY DeedLeavesEvidence
<1>3. PICK i \in 1..Len(trace) : trace[i] = e[1]
  BY <1>2 DEF TraceInv, InLog
<1>4. (IF Len(trace) < MaxTraceLines THEN Len(trace) ELSE MaxTraceLines) = Len(trace)
  BY <1>1
<1>5. e[1] \in LinesRead(trace)
  BY <1>3, <1>4 DEF LinesRead
<1> QED
  BY <1>2, <1>5 DEF Behaviour, Deeds

LEMMA TraceTells == TraceInv => TraceTellsTheRun
BY BehaviourIsDone, DoneIsInBehaviour DEF TraceTellsTheRun

LEMMA TraceStarts == Init => TraceInv
<1> SUFFICES ASSUME Init PROVE TraceInv
  OBVIOUS
<1>1. trace = <<>> /\ calls = {}
  BY DEF Init, WorkerInit, NativeInit
<1>2. trace \in Seq(LineKind) /\ Len(trace) = 0 /\ 1..0 = {}
  BY <1>1
<1> QED
  BY <1>1, <1>2 DEF TraceInv

\* Whatever the processes of a sample do and in whichever order, what the report shows of it the
\* sample did, or it looked for a program in vain on a line that was cut.  When it ends within
\* its budget and the log is not longer than parse_trace reads, all it did is in the report, but
\* for the start of processes that looked like the launcher or like Wine (execute and parse_trace
\* in behavior.py).
THEOREM TraceIsFaithful == Spec => []TraceTellsTheRun
<1>1. Init => SurvivorInv
  BY DEF Init, WorkerInit, NativeInit, SurvivorInv
<1> QED
  BY <1>1, TraceStarts, SurvivorInductive, TraceInductive, TraceTells, PTL DEF Spec

-----------------------------------------------------------------------------
(* The time the tools of a route take.                                     *)

SingleTool == Family(sample) \notin OfficeFamilies \cup ArchiveFamilies

Stages == {"triage", "pdf", "pdf_js", "pe", "pe_detonate", "script", "generic"}

Tools == {"triage", "pdf_scan", "pdf_boxjs", "readelf", "nm", "binary_scan", "wine_setup",
          "strace", "script_scan", "boxjs", "generic_scan"}

Steps == [stage : Stages, kind : {"python", "tool", "execute"}, tool : Tools, limit : Nat]

\* The seconds that are gone at most when a step has its turn.
SpentBefore(step) == CASE step.tool \in {"triage", "readelf"} -> 0
                       [] step.tool = "nm"                   -> 20
                       [] OTHER                              -> 40

\* No two steps that may take DetonationSeconds, and none after an execute.
Timely(steps) ==
  /\ \A i \in 1..Len(steps) : SpentBefore(steps[i]) + steps[i].limit <= DetonationSeconds + 40
  /\ \A i, j \in 1..Len(steps) :
       i < j => /\ SpentBefore(steps[i]) + steps[i].limit <= SpentBefore(steps[j])
                /\ steps[i].kind # "execute"

InTime ==
  todo # <<>> => \/ clock <= SpentBefore(Now)
                 \/ /\ Now.kind = "execute" /\ run \notin {"idle", "running"}
                    /\ run = "reaping" => clock <= DetonationSeconds + 40

TimeInv ==
  SingleTool =>
    /\ clock \in Nat
    /\ todo \in Seq(Steps) /\ Timely(todo)
    /\ container # "overrun"
    /\ container = "up" => InTime

\* What is left of steps that are in time is in time.
LEMMA SuffixIsTimely ==
  ASSUME NEW steps \in Seq(Steps), Timely(steps), NEW k \in 1..Len(steps) + 1
  PROVE  /\ SubSeq(steps, k, Len(steps)) \in Seq(Steps)
         /\ Timely(SubSeq(steps, k, Len(steps)))
         /\ SubSeq(steps, k, Len(steps)) # <<>> =>
              /\ k \in 1..Len(steps)
              /\ SubSeq(steps, k, Len(steps))[1] = steps[k]
<1> DEFINE rest == SubSeq(steps, k, Len(steps))
<1>1. /\ rest \in Seq(Steps) /\ Len(rest) = Len(steps) + 1 - k /\ Len(rest) \in Nat
      /\ \A i \in 1..Len(rest) : rest[i] = steps[k + i - 1] /\ k + i - 1 \in 1..Len(steps)
  OBVIOUS
<1> HIDE DEF rest
<1>2. Timely(rest)
  <2>1. ASSUME NEW i \in 1..Len(rest)
        PROVE  SpentBefore(rest[i]) + rest[i].limit <= DetonationSeconds + 40
    BY <1>1 DEF Timely
  <2>2. ASSUME NEW i \in 1..Len(rest), NEW j \in 1..Len(rest), i < j
        PROVE  /\ SpentBefore(rest[i]) + rest[i].limit <= SpentBefore(rest[j])
               /\ rest[i].kind # "execute"
    <3>1. /\ k + i - 1 \in 1..Len(steps) /\ k + j - 1 \in 1..Len(steps) /\ k + i - 1 < k + j - 1
          /\ rest[i] = steps[k + i - 1] /\ rest[j] = steps[k + j - 1]
      BY <1>1, <2>2
    <3> QED
      BY <3>1 DEF Timely
  <2> QED
    BY <2>1, <2>2 DEF Timely
<1>3. rest # <<>> => k \in 1..Len(steps) /\ rest[1] = steps[k]
  <2> SUFFICES ASSUME rest # <<>> PROVE k \in 1..Len(steps) /\ rest[1] = steps[k]
    OBVIOUS
  <2>1. Len(rest) # 0 /\ 1 \in 1..Len(rest)
    BY <1>1
  <2>2. k + 1 - 1 = k
    OBVIOUS
  <2> QED
    BY <1>1, <2>1, <2>2
<1> QED
  BY <1>1, <1>2, <1>3 DEF rest

LEMMA TailIsSuffix ==
  ASSUME NEW steps \in Seq(Steps), steps # <<>>
  PROVE  Tail(steps) = SubSeq(steps, 2, Len(steps)) /\ 2 \in 1..Len(steps) + 1
OBVIOUS

LEMMA SpentIsNat == \A step : SpentBefore(step) \in Nat
BY DEF SpentBefore

LEMMA Seconds ==
  /\ DetonationSeconds \in Nat /\ JobTimeout \in Nat
  /\ RoomEnough => DetonationSeconds + 50 < JobTimeout
BY LimitsAssumption DEF RoomEnough, ReapSeconds

\* What Timely asks of one step, and of a step and one that comes after it.
Lasts(step) == SpentBefore(step) + step.limit <= DetonationSeconds + 40

Comes(step, later) ==
  SpentBefore(step) + step.limit <= SpentBefore(later) /\ step.kind # "execute"

LEMMA TimelyByPairs ==
  ASSUME NEW steps,
         \A i \in 1..Len(steps) : Lasts(steps[i]),
         \A i, j \in 1..Len(steps) : i < j => Comes(steps[i], steps[j])
  PROVE  Timely(steps)
BY DEF Timely, Lasts, Comes

LEMMA TwoSteps ==
  ASSUME NEW a \in Steps, NEW b \in Steps, Lasts(a), Lasts(b), Comes(a, b)
  PROVE  <<a, b>> \in Seq(Steps) /\ Timely(<<a, b>>)
<1>1. \A i \in 1..Len(<<a, b>>) : Lasts(<<a, b>>[i])
  OBVIOUS
<1>2. \A i, j \in 1..Len(<<a, b>>) : i < j => Comes(<<a, b>>[i], <<a, b>>[j])
  OBVIOUS
<1> QED
  BY <1>1, <1>2, TimelyByPairs

LEMMA ThreeSteps ==
  ASSUME NEW a \in Steps, NEW b \in Steps, NEW c \in Steps, Lasts(a), Lasts(b), Lasts(c),
         Comes(a, b), Comes(a, c), Comes(b, c)
  PROVE  <<a, b, c>> \in Seq(Steps) /\ Timely(<<a, b, c>>)
<1>1. \A i \in 1..Len(<<a, b, c>>) : Lasts(<<a, b, c>>[i])
  OBVIOUS
<1>2. \A i, j \in 1..Len(<<a, b, c>>) : i < j => Comes(<<a, b, c>>[i], <<a, b, c>>[j])
  OBVIOUS
<1> QED
  BY <1>1, <1>2, TimelyByPairs

LEMMA FourSteps ==
  ASSUME NEW a \in Steps, NEW b \in Steps, NEW c \in Steps, NEW d \in Steps,
         Lasts(a), Lasts(b), Lasts(c), Lasts(d),
         Comes(a, b), Comes(a, c), Comes(a, d), Comes(b, c), Comes(b, d), Comes(c, d)
  PROVE  <<a, b, c, d>> \in Seq(Steps) /\ Timely(<<a, b, c, d>>)
<1>1. \A i \in 1..Len(<<a, b, c, d>>) : Lasts(<<a, b, c, d>>[i])
  OBVIOUS
<1>2. \A i, j \in 1..Len(<<a, b, c, d>>) :
        i < j => Comes(<<a, b, c, d>>[i], <<a, b, c, d>>[j])
  OBVIOUS
<1>3. <<a, b, c, d>> \in Seq(Steps)
  OBVIOUS
<1>4. Timely(<<a, b, c, d>>)
  BY <1>1, <1>2, TimelyByPairs, Zenon
<1> QED
  BY <1>3, <1>4

LEMMA FiveSteps ==
  ASSUME NEW a \in Steps, NEW b \in Steps, NEW c \in Steps, NEW d \in Steps, NEW e \in Steps,
         Lasts(a), Lasts(b), Lasts(c), Lasts(d), Lasts(e),
         Comes(a, b), Comes(a, c), Comes(a, d), Comes(a, e), Comes(b, c), Comes(b, d),
         Comes(b, e), Comes(c, d), Comes(c, e), Comes(d, e)
  PROVE  <<a, b, c, d, e>> \in Seq(Steps) /\ Timely(<<a, b, c, d, e>>)
<1>1. \A i \in 1..Len(<<a, b, c, d, e>>) : Lasts(<<a, b, c, d, e>>[i])
  OBVIOUS
<1>2. \A i, j \in 1..Len(<<a, b, c, d, e>>) :
        i < j => Comes(<<a, b, c, d, e>>[i], <<a, b, c, d, e>>[j])
  OBVIOUS
<1> QED
  BY <1>1, <1>2, TimelyByPairs

Swift(step) == step.kind = "python" /\ step.limit = 0

Detonates(step) == step.limit = DetonationSeconds /\ step.kind \in {"tool", "execute"}

Ordinary(step) == SpentBefore(step) = 40

\* Triage, a scan, and perhaps a run.
LEMMA ShortRoute ==
  ASSUME NEW a \in Steps, Swift(a), SpentBefore(a) = 0,
         NEW b \in Steps, Swift(b), Ordinary(b)
  PROVE  /\ <<a, b>> \in Seq(Steps) /\ Timely(<<a, b>>)
         /\ \A c \in Steps : Detonates(c) /\ Ordinary(c) =>
              <<a, b, c>> \in Seq(Steps) /\ Timely(<<a, b, c>>)
<1>1. DetonationSeconds \in Nat
  BY Seconds
<1>2. Lasts(a) /\ Lasts(b) /\ Comes(a, b)
  BY <1>1 DEF Lasts, Comes, Swift, Ordinary
<1>3. ASSUME NEW c \in Steps, Detonates(c), Ordinary(c)
      PROVE  Lasts(c) /\ Comes(a, c) /\ Comes(b, c)
  BY <1>1, <1>3 DEF Lasts, Comes, Swift, Ordinary, Detonates
<1> QED
  BY <1>2, <1>3, TwoSteps, ThreeSteps, Zenon

\* The steps of those routes.
LEMMA StepFields ==
  ASSUME NEW stage \in Stages, NEW kind \in {"python", "tool", "execute"}, NEW tool \in Tools,
         NEW limit \in Nat
  PROVE  /\ Step(stage, kind, tool, limit) \in Steps
         /\ Step(stage, kind, tool, limit).kind = kind
         /\ Step(stage, kind, tool, limit).tool = tool
         /\ Step(stage, kind, tool, limit).limit = limit
BY DEF Step, Steps

LEMMA ScanIsSwift ==
  ASSUME NEW stage \in Stages, NEW tool \in Tools
  PROVE  /\ Python(stage, tool) \in Steps /\ Swift(Python(stage, tool))
         /\ Python(stage, tool).tool = tool
BY StepFields DEF Python, Swift

LEMMA RunDetonates ==
  ASSUME NEW stage \in Stages, NEW tool \in Tools
  PROVE  /\ Tool(stage, tool, DetonationSeconds) \in Steps
         /\ Detonates(Tool(stage, tool, DetonationSeconds))
         /\ Tool(stage, tool, DetonationSeconds).tool = tool
         /\ Detonate(stage) \in Steps /\ Detonates(Detonate(stage))
         /\ Detonate(stage).tool = "strace"
<1>1. DetonationSeconds \in Nat /\ "strace" \in Tools
  BY Seconds DEF Tools
<1> QED
  BY <1>1, StepFields DEF Tool, Detonate, Detonates

LEMMA OtherTools ==
  ASSUME NEW step, step.tool \notin {"triage", "readelf", "nm"}
  PROVE  Ordinary(step)
BY DEF Ordinary, SpentBefore

LEMMA TriageStep ==
  /\ Python("triage", "triage") \in Steps /\ Swift(Python("triage", "triage"))
  /\ SpentBefore(Python("triage", "triage")) = 0
<1>1. "triage" \in Stages /\ "triage" \in Tools
  BY DEF Stages, Tools
<1> QED
  BY <1>1, ScanIsSwift DEF SpentBefore

\* How a route is put together.
LEMMA JoinTwo ==
  ASSUME NEW S, NEW a \in S, NEW s \in Seq(S), NEW t \in Seq(S), Len(t) = Len(s) + 1, t[1] = a,
         \A i \in 1..Len(s) : t[i + 1] = s[i]
  PROVE  <<a>> \o s = t
<1> DEFINE joined == <<a>> \o s
<1>1. /\ joined \in Seq(S) /\ Len(joined) = Len(s) + 1 /\ Len(s) \in Nat
      /\ joined[1] = a /\ \A i \in 1..Len(s) : joined[i + 1] = s[i]
  OBVIOUS
<1> HIDE DEF joined
<1>2. \A i \in 1..Len(joined) : joined[i] = t[i]
  <2> SUFFICES ASSUME NEW i \in 1..Len(joined) PROVE joined[i] = t[i]
    OBVIOUS
  <2>1. i = 1 \/ (i - 1 \in 1..Len(s) /\ i = (i - 1) + 1)
    BY <1>1
  <2> QED
    BY <1>1, <2>1
<1>3. joined = t
  BY <1>1, <1>2, SeqEqual
<1> QED
  BY <1>3 DEF joined

LEMMA AddLast ==
  ASSUME NEW S, NEW a \in S, NEW s \in Seq(S), NEW t \in Seq(S), Len(t) = Len(s) + 1,
         t[Len(s) + 1] = a, \A i \in 1..Len(s) : t[i] = s[i]
  PROVE  s \o <<a>> = t
<1> DEFINE joined == s \o <<a>>
<1>1. /\ joined \in Seq(S) /\ Len(joined) = Len(s) + 1 /\ Len(s) \in Nat
      /\ joined[Len(s) + 1] = a /\ \A i \in 1..Len(s) : joined[i] = s[i]
  OBVIOUS
<1> HIDE DEF joined
<1>2. \A i \in 1..Len(joined) : joined[i] = t[i]
  <2> SUFFICES ASSUME NEW i \in 1..Len(joined) PROVE joined[i] = t[i]
    OBVIOUS
  <2>1. i = Len(s) + 1 \/ i \in 1..Len(s)
    BY <1>1
  <2> QED
    BY <1>1, <2>1
<1>3. joined = t
  BY <1>1, <1>2, SeqEqual
<1> QED
  BY <1>3 DEF joined

LEMMA JoinedPair ==
  ASSUME NEW S, NEW a \in S, NEW b \in S
  PROVE  <<a>> \o <<b>> = <<a, b>> /\ <<b>> \o <<>> = <<b>> /\ <<>> \o <<b>> = <<b>>
<1> DEFINE s == <<b>>
           t == <<a, b>>
<1>1. /\ s \in Seq(S) /\ t \in Seq(S) /\ Len(t) = Len(s) + 1 /\ t[1] = a
      /\ \A i \in 1..Len(s) : t[i + 1] = s[i]
  OBVIOUS
<1> HIDE DEF s, t
<1>2. <<a>> \o s = t /\ s \o <<>> = s /\ <<>> \o s = s
  BY <1>1, JoinTwo, ConcatEmptySeq
<1> QED
  BY <1>2 DEF s, t

LEMMA JoinedTriple ==
  ASSUME NEW S, NEW a \in S, NEW b \in S, NEW c \in S
  PROVE  <<a>> \o <<b, c>> = <<a, b, c>>
<1> DEFINE s == <<b, c>>
           t == <<a, b, c>>
<1>1. /\ s \in Seq(S) /\ t \in Seq(S) /\ Len(t) = Len(s) + 1 /\ t[1] = a
      /\ \A i \in 1..Len(s) : t[i + 1] = s[i]
  OBVIOUS
<1> HIDE DEF s, t
<1>2. <<a>> \o s = t
  BY <1>1, JoinTwo
<1> QED
  BY <1>2 DEF s, t

LEMMA JoinedElf ==
  ASSUME NEW S, NEW a \in S, NEW b \in S, NEW c \in S, NEW d \in S, NEW e \in S
  PROVE  <<a>> \o (((<<b, c>> \o <<d>>) \o <<>>) \o <<e>>) = <<a, b, c, d, e>>
<1> DEFINE two == <<b, c>>
           three == <<b, c, d>>
           four == <<b, c, d, e>>
           five == <<a, b, c, d, e>>
<1>1. /\ two \in Seq(S) /\ three \in Seq(S) /\ four \in Seq(S) /\ five \in Seq(S)
      /\ Len(three) = Len(two) + 1 /\ Len(four) = Len(three) + 1 /\ Len(five) = Len(four) + 1
  OBVIOUS
<1>2. three[Len(two) + 1] = d /\ \A i \in 1..Len(two) : three[i] = two[i]
  OBVIOUS
<1>3. four[Len(three) + 1] = e /\ \A i \in 1..Len(three) : four[i] = three[i]
  OBVIOUS
<1>4. five[1] = a /\ \A i \in 1..Len(four) : five[i + 1] = four[i]
  OBVIOUS
<1> HIDE DEF two, three, four, five
<1>5. (two \o <<d>>) \o <<>> = three
  <2>1. two \o <<d>> = three
    BY <1>1, <1>2, AddLast
  <2> QED
    BY <1>1, <2>1, ConcatEmptySeq
<1>6. three \o <<e>> = four
  BY <1>1, <1>3, AddLast
<1>7. <<a>> \o four = five
  BY <1>1, <1>4, JoinTwo
<1> QED
  BY <1>5, <1>6, <1>7 DEF two, five

LEMMA JoinedWine ==
  ASSUME NEW S, NEW a \in S, NEW b \in S, NEW c \in S, NEW d \in S
  PROVE  <<a>> \o (((<<>> \o <<b>>) \o <<c>>) \o <<d>>) = <<a, b, c, d>>
<1> DEFINE two == <<b, c>>
           three == <<b, c, d>>
           four == <<a, b, c, d>>
<1>1. /\ two \in Seq(S) /\ three \in Seq(S) /\ four \in Seq(S)
      /\ Len(three) = Len(two) + 1 /\ Len(four) = Len(three) + 1
  OBVIOUS
<1>2. three[Len(two) + 1] = d /\ \A i \in 1..Len(two) : three[i] = two[i]
  OBVIOUS
<1>3. four[1] = a /\ \A i \in 1..Len(three) : four[i + 1] = three[i]
  OBVIOUS
<1>4. (<<>> \o <<b>>) \o <<c>> = two
  BY JoinedPair
<1> HIDE DEF two, three, four
<1>5. two \o <<d>> = three
  BY <1>1, <1>2, AddLast
<1>6. <<a>> \o three = four
  BY <1>1, <1>3, JoinTwo
<1> QED
  BY <1>4, <1>5, <1>6 DEF four

\* A scan, and a route with a scan and perhaps a run.
LEMMA ScanRoute ==
  ASSUME NEW scan \in Steps, Swift(scan), Ordinary(scan),
         NEW last \in Steps, Detonates(last), Ordinary(last),
         NEW route, route \in {<<scan>>, <<scan, last>>}
  PROVE  LET steps == <<Python("triage", "triage")>> \o route
         IN  steps \in Seq(Steps) /\ Timely(steps)
<1> DEFINE first == Python("triage", "triage")
<1>1. first \in Steps /\ Swift(first) /\ SpentBefore(first) = 0
  BY TriageStep
<1> HIDE DEF first
<1>2. <<first>> \o <<scan>> = <<first, scan>> /\ <<first>> \o <<scan, last>> = <<first, scan, last>>
  BY <1>1, JoinedPair, JoinedTriple
<1>3. /\ <<first, scan>> \in Seq(Steps) /\ Timely(<<first, scan>>)
      /\ <<first, scan, last>> \in Seq(Steps) /\ Timely(<<first, scan, last>>)
  BY <1>1, ShortRoute
<1>4. <<first>> \o route \in {<<first, scan>>, <<first, scan, last>>}
  BY <1>2
<1>5. <<first>> \o route \in Seq(Steps) /\ Timely(<<first>> \o route)
  BY <1>3, <1>4
<1> QED
  BY <1>5 DEF first

LEMMA ScanStep ==
  ASSUME NEW stage \in Stages, NEW tool \in Tools \ {"triage", "readelf", "nm"}
  PROVE  /\ Python(stage, tool) \in Steps /\ Swift(Python(stage, tool))
         /\ Ordinary(Python(stage, tool))
BY ScanIsSwift, OtherTools

LEMMA LastStep ==
  ASSUME NEW stage \in Stages, NEW tool \in Tools \ {"triage", "readelf", "nm"}
  PROVE  /\ Tool(stage, tool, DetonationSeconds) \in Steps
         /\ Detonates(Tool(stage, tool, DetonationSeconds))
         /\ Ordinary(Tool(stage, tool, DetonationSeconds))
         /\ Detonate(stage) \in Steps /\ Detonates(Detonate(stage)) /\ Ordinary(Detonate(stage))
<1>1. Detonate(stage).tool \notin {"triage", "readelf", "nm"}
  BY RunDetonates
<1> QED
  BY <1>1, RunDetonates, OtherTools

\* An ELF file has two tools of 20 seconds before the scan.
LEMMA ElfRoute ==
  LET route == ((<<Tool("pe", "readelf", 20), Tool("pe", "nm", 20)>>
                   \o <<Python("pe", "binary_scan")>>) \o <<>>) \o <<Detonate("pe_detonate")>>
      steps == <<Python("triage", "triage")>> \o route
  IN  steps \in Seq(Steps) /\ Timely(steps)
<1> DEFINE a == Python("triage", "triage")
           b == Tool("pe", "readelf", 20)
           c == Tool("pe", "nm", 20)
           d == Python("pe", "binary_scan")
           e == Detonate("pe_detonate")
<1>1. a \in Steps /\ Swift(a) /\ SpentBefore(a) = 0
  BY TriageStep
<1>2. d \in Steps /\ Swift(d) /\ Ordinary(d)
  <2>1. "pe" \in Stages /\ "binary_scan" \in Tools
    BY DEF Stages, Tools
  <2> QED
    BY <2>1, ScanIsSwift, OtherTools
<1>3. e \in Steps /\ Detonates(e) /\ Ordinary(e)
  <2>1. "pe_detonate" \in Stages /\ "strace" \in Tools
    BY DEF Stages, Tools
  <2> QED
    BY <2>1, RunDetonates, OtherTools
<1>4. /\ b \in Steps /\ b.limit = 20 /\ b.kind = "tool" /\ b.tool = "readelf"
      /\ c \in Steps /\ c.limit = 20 /\ c.kind = "tool" /\ c.tool = "nm"
  BY DEF Tool, Step, Steps, Stages, Tools
<1>5. SpentBefore(b) = 0 /\ SpentBefore(c) = 20
  BY <1>4 DEF SpentBefore
<1> HIDE DEF a, b, c, d, e
<1>6. DetonationSeconds \in Nat
  BY Seconds
<1>7. Lasts(a) /\ Lasts(b) /\ Lasts(c) /\ Lasts(d) /\ Lasts(e)
  BY <1>1, <1>2, <1>3, <1>4, <1>5, <1>6 DEF Lasts, Swift, Ordinary, Detonates
<1>8. /\ Comes(a, b) /\ Comes(a, c) /\ Comes(a, d) /\ Comes(a, e) /\ Comes(b, c)
      /\ Comes(b, d) /\ Comes(b, e) /\ Comes(c, d) /\ Comes(c, e) /\ Comes(d, e)
  BY <1>1, <1>2, <1>3, <1>4, <1>5 DEF Comes, Swift, Ordinary
<1>9. <<a, b, c, d, e>> \in Seq(Steps) /\ Timely(<<a, b, c, d, e>>)
  BY <1>1, <1>2, <1>3, <1>4, <1>7, <1>8, FiveSteps
<1>10. <<a>> \o (((<<b, c>> \o <<d>>) \o <<>>) \o <<e>>) = <<a, b, c, d, e>>
  BY <1>1, <1>2, <1>3, <1>4, JoinedElf
<1>11. LET route == ((<<b, c>> \o <<d>>) \o <<>>) \o <<e>>
       IN  <<a>> \o route \in Seq(Steps) /\ Timely(<<a>> \o route)
  BY <1>9, <1>10
<1> QED
  BY <1>11 DEF a, b, c, d, e

\* Wine is set up between the scan and the run.
LEMMA WineRoute ==
  LET route == ((<<>> \o <<Python("pe", "binary_scan")>>) \o <<Python("pe_detonate", "wine_setup")>>)
                  \o <<Detonate("pe_detonate")>>
      steps == <<Python("triage", "triage")>> \o route
  IN  steps \in Seq(Steps) /\ Timely(steps)
<1> DEFINE a == Python("triage", "triage")
           b == Python("pe", "binary_scan")
           c == Python("pe_detonate", "wine_setup")
           d == Detonate("pe_detonate")
<1>1. a \in Steps /\ Swift(a) /\ SpentBefore(a) = 0
  BY TriageStep
<1>2. /\ b \in Steps /\ Swift(b) /\ Ordinary(b)
      /\ c \in Steps /\ Swift(c) /\ Ordinary(c)
      /\ d \in Steps /\ Detonates(d) /\ Ordinary(d)
  <2>1. /\ {"pe", "pe_detonate"} \subseteq Stages
        /\ {"binary_scan", "wine_setup"} \subseteq Tools \ {"triage", "readelf", "nm"}
    BY DEF Stages, Tools
  <2> QED
    BY <2>1, ScanStep, LastStep
<1> HIDE DEF a, b, c, d
<1>3. DetonationSeconds \in Nat
  BY Seconds
<1>4. Lasts(a) /\ Lasts(b) /\ Lasts(c) /\ Lasts(d)
  BY <1>1, <1>2, <1>3 DEF Lasts, Swift, Ordinary, Detonates
<1>5. /\ Comes(a, b) /\ Comes(a, c) /\ Comes(a, d)
      /\ Comes(b, c) /\ Comes(b, d) /\ Comes(c, d)
  BY <1>1, <1>2 DEF Comes, Swift, Ordinary
<1>6. <<a, b, c, d>> \in Seq(Steps) /\ Timely(<<a, b, c, d>>)
  BY <1>1, <1>2, <1>4, <1>5, FourSteps
<1>7. <<a>> \o (((<<>> \o <<b>>) \o <<c>>) \o <<d>>) = <<a, b, c, d>>
  BY <1>1, <1>2, JoinedWine
<1>8. LET route == ((<<>> \o <<b>>) \o <<c>>) \o <<d>>
      IN  <<a>> \o route \in Seq(Steps) /\ Timely(<<a>> \o route)
  BY <1>6, <1>7
<1> QED
  BY <1>8 DEF a, b, c, d

LEMMA RouteIsTimely ==
  ASSUME NEW s, Family(s) \notin OfficeFamilies \cup ArchiveFamilies
  PROVE  LET steps == <<Python("triage", "triage")>> \o Route(s)
         IN  steps \in Seq(Steps) /\ Timely(steps)
<1> DEFINE family == Family(s)
<1>1. CASE family = "pdf"
  <2> DEFINE scan == Python("pdf", "pdf_scan")
             last == Tool("pdf_js", "pdf_boxjs", DetonationSeconds)
  <2>1. Route(s) = <<scan, last>>
    BY <1>1 DEF Route, PdfSteps, OfficeFamilies
  <2>2. /\ scan \in Steps /\ Swift(scan) /\ Ordinary(scan)
        /\ last \in Steps /\ Detonates(last) /\ Ordinary(last)
    <3>1. /\ {"pdf", "pdf_js"} \subseteq Stages
          /\ {"pdf_scan", "pdf_boxjs"} \subseteq Tools \ {"triage", "readelf", "nm"}
      BY DEF Stages, Tools
    <3> QED
      BY <3>1, ScanStep, LastStep
  <2> HIDE DEF scan, last
  <2> QED
    BY <2>1, <2>2, ScanRoute
<1>2. CASE family \in {"pe", "elf"}
  <2> DEFINE scan == Python("pe", "binary_scan")
             last == Detonate("pe_detonate")
  <2>1. Route(s) = BinarySteps(s)
    BY <1>2 DEF Route, OfficeFamilies, ArchiveFamilies
  <2>2. CASE family = "elf"
    <3>1. BinarySteps(s) = ((<<Tool("pe", "readelf", 20), Tool("pe", "nm", 20)>> \o <<scan>>)
                               \o <<>>) \o <<last>>
      BY <2>2 DEF BinarySteps
    <3> QED
      BY <2>1, <3>1, ElfRoute
  <2>3. CASE family = "pe" /\ InWineImage(s)
    <3>1. BinarySteps(s) = ((<<>> \o <<scan>>) \o <<Python("pe_detonate", "wine_setup")>>)
                              \o <<last>>
      BY <2>3 DEF BinarySteps
    <3> QED
      BY <2>1, <3>1, WineRoute
  <2>4. CASE family = "pe" /\ ~InWineImage(s)
    <3>1. BinarySteps(s) = ((<<>> \o <<scan>>) \o <<>>) \o <<>>
      BY <2>4 DEF BinarySteps
    <3>2. /\ scan \in Steps /\ Swift(scan) /\ Ordinary(scan)
          /\ last \in Steps /\ Detonates(last) /\ Ordinary(last)
      <4>1. /\ {"pe", "pe_detonate"} \subseteq Stages
            /\ {"binary_scan", "strace"} \subseteq Tools \ {"triage", "readelf", "nm"}
        BY DEF Stages, Tools
      <4> QED
        BY <4>1, ScanStep, LastStep
    <3> HIDE DEF scan, last
    <3>3. Route(s) = <<scan>>
      BY <2>1, <3>1, <3>2, JoinedPair
    <3> QED
      BY <3>2, <3>3, ScanRoute
  <2> QED
    BY <1>2, <2>2, <2>3, <2>4
<1>3. CASE family \in {"js", "vbs", "hta", "ps1", "sh", "py", "pl"}
  <2> DEFINE scan == Python("script", "script_scan")
             boxjs == Tool("script", "boxjs", DetonationSeconds)
             strace == Detonate("script")
  <2>1. Route(s) = ScriptSteps(family)
    BY <1>3 DEF Route, OfficeFamilies, ArchiveFamilies
  <2>2. \/ ScriptSteps(family) = <<scan>> \o <<boxjs>>
        \/ ScriptSteps(family) = <<scan>> \o <<strace>>
        \/ ScriptSteps(family) = <<scan>> \o <<>>
    BY <1>3 DEF ScriptSteps
  <2>3. /\ scan \in Steps /\ Swift(scan) /\ Ordinary(scan)
        /\ boxjs \in Steps /\ Detonates(boxjs) /\ Ordinary(boxjs)
        /\ strace \in Steps /\ Detonates(strace) /\ Ordinary(strace)
    <3>1. /\ "script" \in Stages
          /\ {"script_scan", "boxjs"} \subseteq Tools \ {"triage", "readelf", "nm"}
      BY DEF Stages, Tools
    <3> QED
      BY <3>1, ScanStep, LastStep
  <2> HIDE DEF scan, boxjs, strace
  <2>4. Route(s) \in {<<scan>>, <<scan, boxjs>>} \/ Route(s) \in {<<scan>>, <<scan, strace>>}
    BY <2>1, <2>2, <2>3, JoinedPair
  <2> QED
    BY <2>3, <2>4, ScanRoute
<1>4. CASE /\ family \notin {"pdf", "pe", "elf"}
           /\ family \notin {"js", "vbs", "hta", "ps1", "sh", "py", "pl"}
  <2> DEFINE scan == Python("generic", "generic_scan")
             last == Detonate("generic")
  <2>1. Route(s) = <<scan>>
    BY <1>4 DEF Route
  <2>2. /\ scan \in Steps /\ Swift(scan) /\ Ordinary(scan)
        /\ last \in Steps /\ Detonates(last) /\ Ordinary(last)
    <3>1. /\ "generic" \in Stages
          /\ {"generic_scan"} \subseteq Tools \ {"triage", "readelf", "nm"}
      BY DEF Stages, Tools
    <3> QED
      BY <3>1, ScanStep, LastStep
  <2> HIDE DEF scan, last
  <2> QED
    BY <2>1, <2>2, ScanRoute
<1> QED
  BY <1>1, <1>2, <1>3, <1>4

LEMMA StepFieldTypes == \A step \in Steps : step.limit \in Nat
BY DEF Steps

\* When a step is over, at once or at the end of its limit, the next one has its turn in time;
\* after an execute there is none.
LEMMA NextInTime ==
  ASSUME NEW steps \in Seq(Steps), Timely(steps), steps # <<>>,
         NEW k \in 2..Len(steps) + 1, NEW rest, rest = SubSeq(steps, k, Len(steps)),
         NEW seconds \in Nat,
         steps[1].kind # "execute" => seconds <= SpentBefore(steps[1]) + steps[1].limit
  PROVE  /\ rest \in Seq(Steps) /\ Timely(rest)
         /\ rest # <<>> => seconds <= SpentBefore(rest[1])
<1>1. k \in 1..Len(steps) + 1
  OBVIOUS
<1>2. /\ rest \in Seq(Steps) /\ Timely(rest)
      /\ rest # <<>> => k \in 1..Len(steps) /\ rest[1] = steps[k]
  BY <1>1, SuffixIsTimely
<1>3. ASSUME rest # <<>> PROVE seconds <= SpentBefore(rest[1])
  <2>1. 1 \in 1..Len(steps) /\ k \in 1..Len(steps) /\ 1 < k
    BY <1>2, <1>3
  <2>2. /\ SpentBefore(steps[1]) + steps[1].limit <= SpentBefore(steps[k])
        /\ steps[1].kind # "execute"
    BY <2>1 DEF Timely
  <2>3. steps[1].limit \in Nat
    BY <2>1, StepFieldTypes
  <2> QED
    BY <1>2, <1>3, <2>2, <2>3, SpentIsNat
<1> QED
  BY <1>2, <1>3

\* The step that has its turn.
LEMMA StepInTime ==
  ASSUME TimeInv, SingleTool, container = "up", todo # <<>>
  PROVE  /\ clock \in Nat /\ todo \in Seq(Steps) /\ Timely(todo) /\ InTime
         /\ Now \in Steps /\ Now.limit \in Nat /\ Len(todo) \in Nat
         /\ Now.kind # "execute" \/ run \in {"idle", "running"} => clock <= SpentBefore(Now)
         /\ SpentBefore(Now) + Now.limit <= DetonationSeconds + 40
         /\ SpentBefore(Now) \in Nat /\ DetonationSeconds \in Nat
<1>1. clock \in Nat /\ todo \in Seq(Steps) /\ Timely(todo) /\ InTime
  BY DEF TimeInv
<1>2. Len(todo) \in Nat /\ 1 \in 1..Len(todo)
  BY <1>1
<1>3. Now \in Steps /\ Now.limit \in Nat
  <2>1. Now \in Steps
    BY <1>1, <1>2 DEF Now
  <2> QED
    BY <2>1, StepFieldTypes
<1>4. SpentBefore(Now) + Now.limit <= DetonationSeconds + 40
  BY <1>1, <1>2 DEF Now, Timely
<1> QED
  BY <1>1, <1>2, <1>3, <1>4, SpentIsNat, Seconds DEF InTime

LEMMA AdvanceInTime ==
  ASSUME TimeInv, SingleTool, container = "up", todo # <<>>, todo' = Tail(todo),
         clock' = clock \/ (clock' = clock + Now.limit /\ Now.kind # "execute"),
         container' = container, UNCHANGED <<run, sample>>
  PROVE  TimeInv'
<1>1. Tail(todo) = SubSeq(todo, 2, Len(todo)) /\ 2 \in 2..Len(todo) + 1
  BY StepInTime, TailIsSuffix
<1>2. clock' \in Nat /\ (Now.kind # "execute" => clock' <= SpentBefore(Now) + Now.limit)
  BY StepInTime
<1>3. /\ todo' \in Seq(Steps) /\ Timely(todo')
      /\ todo' # <<>> => clock' <= SpentBefore(todo'[1])
  BY <1>1, <1>2, StepInTime, NextInTime DEF Now
<1>4. InTime'
  BY <1>3 DEF InTime, Now
<1>5. Timely(todo)'
  BY <1>3 DEF Timely
<1> QED
  BY <1>2, <1>3, <1>4, <1>5 DEF TimeInv

\* Nothing that counts changes.
LEMMA StillInTime ==
  ASSUME TimeInv, UNCHANGED <<todo, clock, run, sample>>,
         container' # "overrun", container' = "up" => container = "up"
  PROVE  TimeInv'
BY DEF TimeInv, SingleTool, InTime, Now, Timely

\* The step that has its turn is of the stage that is left.
LEMMA NextStageIsLater ==
  ASSUME NEW S, todo \in Seq(S), todo # <<>>
  PROVE  FirstOfNextStage \in 2..Len(todo) + 1
<1> DEFINE same == {i \in DOMAIN todo : todo[i].stage = Now.stage}
<1>1. /\ DOMAIN todo = 1..Len(todo) /\ 1 \in DOMAIN todo /\ Len(todo) \in Nat
  OBVIOUS
<1>2. same \subseteq 1..Len(todo) /\ 1 \in same
  BY <1>1 DEF Now
<1>3. IsFiniteSet(1..Len(todo)) /\ Cardinality(1..Len(todo)) = Len(todo)
  BY <1>1, FS_Interval
<1>4. /\ IsFiniteSet(same) /\ Cardinality(same) \in Nat /\ Cardinality(same) <= Len(todo)
  BY <1>2, <1>3, FS_Subset, FS_CardinalityType
<1>5. Cardinality(same) # 0
  BY <1>2, <1>4, FS_EmptySet
<1> QED
  BY <1>1, <1>4, <1>5 DEF FirstOfNextStage

LEMMA RaiseInTime ==
  ASSUME TimeInv, SingleTool, Raises, UNCHANGED run
  PROVE  TimeInv'
<1>1. /\ container = "up" /\ container' = container /\ todo # <<>> /\ clock' = clock
      /\ sample' = sample
      /\ todo' = <<>> \/ todo' = SubSeq(todo, FirstOfNextStage, Len(todo))
  BY DEF Raises, RecordException
<1>2. CASE todo' = <<>>
  <2>1. todo' \in Seq(Steps) /\ Timely(todo')
    BY <1>2 DEF Timely
  <2>2. Timely(todo)'
    BY <2>1 DEF Timely
  <2>3. clock \in Nat
    BY <1>1, StepInTime
  <2> QED
    BY <1>1, <1>2, <2>1, <2>2, <2>3 DEF TimeInv, InTime
<1>3. CASE todo' = SubSeq(todo, FirstOfNextStage, Len(todo))
  <2>6. FirstOfNextStage \in 2..Len(todo) + 1
    BY <1>1, StepInTime, NextStageIsLater
  <2>7. clock' \in Nat /\ (Now.kind # "execute" => clock' <= SpentBefore(Now) + Now.limit)
    BY <1>1, StepInTime
  <2>8. /\ todo' \in Seq(Steps) /\ Timely(todo')
        /\ todo' # <<>> => clock' <= SpentBefore(todo'[1])
    BY <1>1, <1>3, <2>6, <2>7, StepInTime, NextInTime DEF Now
  <2>9. InTime' /\ Timely(todo)'
    BY <2>8 DEF InTime, Now, Timely
  <2> QED
    BY <1>1, <2>7, <2>8, <2>9 DEF TimeInv
<1> QED
  BY <1>1, <1>2, <1>3

LEMMA ExecutingInTime ==
  ASSUME TimeInv, SingleTool, Executing
  PROVE  TimeInv'
<1>1. /\ container = "up" /\ todo # <<>> /\ Now.kind = "execute"
      /\ UNCHANGED <<container, todo, sample>>
  BY DEF Executing, At
<1>2. /\ clock \in Nat /\ todo \in Seq(Steps) /\ Timely(todo) /\ Timely(todo)'
  BY <1>1, StepInTime DEF Timely
<1>3. clock' \in Nat /\ InTime'
  <2>1. CASE Launch /\ UNCHANGED clock
    BY <1>1, <2>1, StepInTime DEF Launch, InTime, Now
  <2>2. CASE SampleStep /\ UNCHANGED clock
    <3>1. UNCHANGED run
      BY <2>2 DEF SampleStep, Fork, Daemonize, Exit, Call
    <3> QED
      BY <1>1, <2>2, <3>1, StepInTime DEF InTime, Now
  <2>3. CASE TraceeGone /\ UNCHANGED clock
    BY <1>1, <2>3, StepInTime DEF TraceeGone, InTime, Now
  <2>4. CASE BudgetExpires /\ Takes(Now.limit)
    <3>1. run = "running" /\ run' = "reaping" /\ clock' = clock + Now.limit
      BY <2>4 DEF BudgetExpires, Takes
    <3>2. clock' \in Nat /\ clock' <= DetonationSeconds + 40
      BY <1>1, <3>1, StepInTime
    <3> QED
      BY <1>1, <3>1, <3>2 DEF InTime, Now
  <2>5. CASE Reaped /\ IF run' = "raised" THEN Takes(ReapSeconds) ELSE UNCHANGED clock
    <3>1. run' \in {"returned", "raised"} /\ (clock' = clock \/ clock' = clock + 10)
      BY <2>5 DEF Reaped, Takes, ReapSeconds
    <3> QED
      BY <1>1, <1>2, <3>1 DEF InTime, Now
  <2> QED
    BY <2>1, <2>2, <2>3, <2>4, <2>5 DEF Executing
<1> QED
  BY <1>1, <1>2, <1>3 DEF TimeInv

\* There is room for all that a route may take.
LEMMA NeverOverruns ==
  ASSUME RoomEnough, TimeInv, SingleTool
  PROVE  ~MayOverrun
<1> SUFFICES ASSUME MayOverrun PROVE FALSE
  OBVIOUS
<1>1. container = "up" /\ todo # <<>>
  BY DEF MayOverrun, At
<1>2. DetonationSeconds + 50 < JobTimeout /\ JobTimeout \in Nat
  BY Seconds
<1>3. Now.kind # "unpack"
  BY <1>1, StepInTime DEF Steps
<1>4. CASE Now.kind = "tool" /\ clock + Now.limit >= JobTimeout
  BY <1>1, <1>2, <1>4, StepInTime
<1>5. CASE Now.kind = "execute" /\ run = "running" /\ clock + Now.limit >= JobTimeout
  BY <1>1, <1>2, <1>5, StepInTime
<1>6. CASE Now.kind = "execute" /\ run = "reaping" /\ clock + 10 >= JobTimeout
  <2>1. clock <= DetonationSeconds + 40
    BY <1>1, <1>6, StepInTime DEF InTime
  <2> QED
    BY <1>1, <1>2, <1>6, <2>1, StepInTime
<1> QED
  BY <1>3, <1>4, <1>5, <1>6 DEF MayOverrun, At, ReapSeconds

LEMMA WorkingInTime == RoomEnough /\ TimeInv /\ Working => TimeInv'
<1> SUFFICES ASSUME RoomEnough, TimeInv, Working PROVE TimeInv'
  OBVIOUS
<1>1. sample' = sample
  BY DEF Working, WorkerStep, Triaged, Scanned, Hangs, ToolReturns, ToolDies, NotWanted, Raises,
         Executed, UnpackedAll, Conclude, OpenReport, Rename, Exits, Dies, Timeout, Executing,
         Unpacking
<1> SUFFICES ASSUME SingleTool PROVE TimeInv'
  BY <1>1 DEF TimeInv, SingleTool
<1>2. CASE Executing
  BY <1>2, ExecutingInTime
<1>3. CASE Unpacking
  <2>1. container = "up" /\ todo # <<>> /\ Now.kind = "unpack"
    BY <1>3 DEF Unpacking, At
  <2> QED
    BY <2>1, StepInTime DEF Steps
<1>4. ASSUME UNCHANGED nativeVars,
             Triaged \/ Scanned \/ ToolReturns \/ NotWanted \/ Executed \/ UnpackedAll
      PROVE  TimeInv'
  <2>1. /\ container = "up" /\ todo # <<>> /\ todo' = Tail(todo)
        /\ UNCHANGED <<clock, container>>
    BY <1>4 DEF Triaged, Scanned, ToolReturns, NotWanted, Executed, UnpackedAll, At, Advance
  <2>2. run' = run
    BY <1>4 DEF nativeVars
  <2> QED
    BY <1>1, <2>1, <2>2, AdvanceInTime
<1>5. ASSUME UNCHANGED nativeVars, ToolDies
      PROVE  TimeInv'
  <2>1. /\ container = "up" /\ todo # <<>> /\ todo' = Tail(todo) /\ container' = container
        /\ clock' = clock + Now.limit /\ Now.kind # "execute"
    BY <1>5 DEF ToolDies, At, Advance, Takes
  <2>2. run' = run
    BY <1>5 DEF nativeVars
  <2> QED
    BY <1>1, <2>1, <2>2, AdvanceInTime
<1>6. ASSUME UNCHANGED nativeVars,
             Hangs \/ Conclude \/ OpenReport \/ Rename \/ Exits \/ Dies
      PROVE  TimeInv'
  <2>1. /\ UNCHANGED <<todo, clock>> /\ container' # "overrun"
        /\ container' = "up" => container = "up"
    BY <1>6 DEF Hangs, Conclude, OpenReport, Rename, Exits, Dies
  <2>2. run' = run
    BY <1>6 DEF nativeVars
  <2> QED
    BY <1>1, <2>1, <2>2, StillInTime
<1>7. ASSUME UNCHANGED nativeVars, Raises
      PROVE  TimeInv'
  BY <1>7, RaiseInTime DEF nativeVars
<1>8. ASSUME UNCHANGED nativeVars, Timeout
      PROVE  TimeInv'
  <2>1. container' = "killed" /\ todo' = todo /\ clock' \in Nat
    BY <1>8, NeverOverruns, Seconds DEF Timeout
  <2>2. todo \in Seq(Steps) /\ Timely(todo) /\ Timely(todo)'
    BY <2>1 DEF TimeInv, Timely
  <2> QED
    BY <2>1, <2>2 DEF TimeInv
<1> QED
  BY <1>2, <1>3, <1>4, <1>5, <1>6, <1>7, <1>8 DEF Working, WorkerStep

LEMMA TimeInductive == RoomEnough /\ TimeInv /\ [Next]_vars => TimeInv'
<1> SUFFICES ASSUME RoomEnough, TimeInv, [Next]_vars PROVE TimeInv'
  OBVIOUS
<1>1. CASE Working
  BY <1>1, WorkingInTime
<1>2. CASE Collect
  <2>1. container' = "removed" /\ todo' = <<>> /\ clock' = 0
    BY <1>2 DEF Collect
  <2>2. todo' \in Seq(Steps) /\ Timely(todo)'
    BY <2>1 DEF Timely
  <2> QED
    BY <2>1, <2>2 DEF TimeInv
<1>3. CASE Verdict
  <2>1. Rest
    BY <1>3 DEF Verdict, RuleFires, RuleRaises, Evaluated, Weighing, Judging
  <2>2. UNCHANGED <<todo, clock, run, sample, container>>
    BY <2>1 DEF Rest, workerVars, nativeVars
  <2> QED
    BY <2>2 DEF TimeInv, SingleTool, InTime, Now, Timely
<1>4. CASE UNCHANGED vars
  BY <1>4 DEF vars, workerVars, nativeVars, TimeInv, SingleTool, InTime, Now, Timely
<1> QED
  BY <1>1, <1>2, <1>3, <1>4 DEF Next

LEMMA TimeInit == Init => TimeInv
<1> SUFFICES ASSUME Init, SingleTool PROVE TimeInv
  BY DEF TimeInv
<1>1. /\ container = "up" /\ clock = 0
      /\ todo = <<Python("triage", "triage")>> \o Route(sample)
  BY DEF Init, WorkerInit
<1>2. todo \in Seq(Steps) /\ Timely(todo)
  BY <1>1, RouteIsTimely DEF SingleTool
<1>3. InTime
  BY <1>1, SpentIsNat DEF InTime
<1> QED
  BY <1>1, <1>2, <1>3 DEF TimeInv

\* With DETONATION_SECONDS at least 51 seconds below JOB_TIMEOUT (45 and 180 by default), no tool
\* outlasts the container, whatever its route, unless it is of a document or an archive
\* (the limits in the analyzers, JOB_TIMEOUT in orchestrator.py).
THEOREM TimeoutsSuffice ==
  ASSUME RoomEnough
  PROVE  Spec => []ToolsFitTheTimeout
<1>1. TimeInv => ToolsFitTheTimeout
  BY DEF TimeInv, SingleTool, ToolsFitTheTimeout
<1>2. TimeInv /\ [Next]_vars => TimeInv'
  BY TimeInductive
<1> QED
  BY <1>1, <1>2, TimeInit, PTL DEF Spec

-----------------------------------------------------------------------------
(* The types of the worker's variables.                                    *)

NativeTypeInv ==
  /\ alive \subseteq Procs /\ traced \subseteq alive
  /\ timedOut \in BOOLEAN /\ strayKill \in BOOLEAN

LEMMA NativeTyped == NativeTypeInv /\ [Next]_vars => NativeTypeInv'
<1> SUFFICES ASSUME NativeTypeInv, [Next]_vars PROVE NativeTypeInv'
  OBVIOUS
<1>1. CASE Executing
  <2>1. CASE Launch
    BY <2>1 DEF Launch, NativeTypeInv
  <2>2. CASE SampleStep
    <3> SUFFICES ASSUME NEW p \in Procs, \/ \E q \in Procs : Fork(p, q)
                                         \/ Daemonize(p)
                                         \/ Exit(p)
                                         \/ \E c \in Calls : Call(p, c)
                 PROVE  NativeTypeInv'
      BY <2>2 DEF SampleStep
    <3>1. CASE \E q \in Procs : Fork(p, q)
      BY <3>1 DEF Fork, NativeTypeInv
    <3>2. CASE Daemonize(p)
      BY <3>2 DEF Daemonize, NativeTypeInv
    <3>3. CASE Exit(p)
      BY <3>3 DEF Exit, NativeTypeInv
    <3>4. CASE \E c \in Calls : Call(p, c)
      BY <3>4 DEF Call, NativeTypeInv
    <3> QED
      BY <3>1, <3>2, <3>3, <3>4
  <2>3. CASE TraceeGone
    BY <2>3 DEF TraceeGone, NativeTypeInv
  <2>4. CASE BudgetExpires
    BY <2>4 DEF BudgetExpires, NativeTypeInv
  <2>5. CASE Reaped
    BY <2>5 DEF Reaped, NativeTypeInv
  <2> QED
    BY <1>1, <2>1, <2>2, <2>3, <2>4, <2>5 DEF Executing
<1>2. CASE UNCHANGED nativeVars
  BY <1>2 DEF nativeVars, NativeTypeInv
<1>3. CASE Working
  BY <1>1, <1>2, <1>3 DEF Working, WorkerStep
<1>4. CASE Collect
  BY <1>4 DEF Collect, NativeTypeInv
<1>5. CASE Verdict
  <2>1. Rest
    BY <1>5 DEF Verdict, RuleFires, RuleRaises, Evaluated, Weighing, Judging
  <2> QED
    BY <1>2, <2>1 DEF Rest
<1>6. CASE UNCHANGED vars
  BY <1>2, <1>6 DEF vars
<1> QED
  BY <1>3, <1>4, <1>5, <1>6 DEF Next

\* Every directory has a name of its depth and of the number of children it was opened at.
UnpackTypeInv ==
  /\ locked \in BOOLEAN
  /\ unpack \in {"idle", "busy", "done"}
  /\ cut \subseteq {"locked", "extraction", "cap", "depth"}
  /\ \A i \in 1..Len(stack) : stack[i].dir \in Dirs
  /\ DOMAIN disk \subseteq Dirs
  /\ \A i \in 1..Len(children) : children[i].dir \in Dirs

LEMMA ExtractTyped ==
  ASSUME NEW archive, NEW dir \in Dirs, NEW depth, NEW below \in Seq(Frames), NEW k,
         DOMAIN disk \subseteq Dirs, \A i \in 1..Len(below) : below[i].dir \in Dirs,
         stack' \in Seq(Frames), Extract(archive, dir, depth, below, k)
  PROVE  DOMAIN disk' \subseteq Dirs /\ \A i \in 1..Len(stack') : stack'[i].dir \in Dirs
<1> DEFINE files == FilesIn(dir) \o SubSeq(layout[archive], 1, k)
           frame == [dir |-> dir, depth |-> depth, rest |-> files]
<1>1. DOMAIN disk' = DOMAIN disk \cup {dir}
  BY DEF Extract
<1>2. frame.dir = dir
  OBVIOUS
<1>3. stack' = <<frame>> \o below \/ stack' = below
  BY DEF Extract
<1> HIDE DEF frame
<1>4. CASE stack' = <<frame>> \o below
  <2>1. <<frame>> \in Seq({frame} \cup Frames) /\ below \in Seq({frame} \cup Frames)
    OBVIOUS
  <2>2. /\ Len(stack') = Len(below) + 1 /\ stack'[1] = frame /\ Len(below) \in Nat
        /\ \A i \in 1..Len(below) : stack'[i + 1] = below[i]
    BY <1>4, <2>1
  <2> SUFFICES ASSUME NEW i \in 1..Len(stack') PROVE stack'[i].dir \in Dirs
    BY <1>1
  <2>3. CASE i = 1
    BY <1>2, <2>2, <2>3
  <2>4. CASE i # 1
    <3>1. i - 1 \in 1..Len(below) /\ (i - 1) + 1 = i
      BY <2>2, <2>4
    <3> QED
      BY <2>2, <3>1
  <2> QED
    BY <2>3, <2>4
<1>5. CASE stack' = below
  BY <1>1, <1>5
<1> QED
  BY <1>3, <1>4, <1>5

LEMMA NextChildTyped == WalkInv /\ WalkInv' /\ UnpackTypeInv /\ NextChild => UnpackTypeInv'
<1> SUFFICES ASSUME WalkInv, WalkInv', UnpackTypeInv, NextChild PROVE UnpackTypeInv'
  OBVIOUS
<1> DEFINE entry == Head(Top.rest)
           child == [dir |-> Top.dir, entry |-> entry, depth |-> Top.depth]
<1>1. /\ stack # <<>> /\ Top.rest # <<>> /\ children' = Append(children, child)
      /\ ~CapReached /\ UNCHANGED <<layout, locked, unpack>>
  BY DEF NextChild
<1>2. /\ stack \in Seq(Frames) /\ 1 \in 1..Len(stack) /\ Len(stack) \in Nat
      /\ children \in Seq(Listed) /\ Len(children) \in Nat /\ children' \in Seq(Listed)
      /\ stack' \in Seq(Frames) /\ Len(children) < ChildCap
  BY <1>1, DepthAssumption DEF WalkInv, CapReached
<1>3. Top.dir \in Dirs
  BY <1>2 DEF UnpackTypeInv, Top
<1>4. /\ WithoutFile \in Seq(Frames) /\ Len(WithoutFile) = Len(stack)
      /\ \A i \in 1..Len(WithoutFile) : WithoutFile[i].dir \in Dirs
  <2>1. /\ WithoutFile \in Seq(Frames) /\ Len(WithoutFile) = Len(stack)
        /\ WithoutFile[1].dir = Top.dir
        /\ \A i \in 2..Len(stack) : WithoutFile[i] = stack[i]
    BY <1>1, FileTaken
  <2> SUFFICES ASSUME NEW i \in 1..Len(WithoutFile) PROVE WithoutFile[i].dir \in Dirs
    BY <2>1
  <2>2. i = 1 \/ i \in 2..Len(stack)
    BY <1>2, <2>1
  <2> QED
    BY <1>3, <2>1, <2>2 DEF UnpackTypeInv
<1>5. child.dir \in Dirs
  BY <1>3
<1> HIDE DEF child, entry
<1>6. \A i \in 1..Len(children') : children'[i].dir \in Dirs
  <2>1. /\ Len(children') = Len(children) + 1
        /\ child \in Listed => children'[Len(children) + 1] = child
        /\ \A i \in 1..Len(children) : children'[i] = children[i]
    BY <1>1, <1>2
  <2>2. children'[Len(children) + 1] = child
    BY <1>1, <1>2
  <2> SUFFICES ASSUME NEW i \in 1..Len(children') PROVE children'[i].dir \in Dirs
    OBVIOUS
  <2>3. i = Len(children) + 1 \/ i \in 1..Len(children)
    BY <1>2, <2>1
  <2> QED
    BY <1>5, <2>1, <2>2, <2>3 DEF UnpackTypeInv
<1>7. CASE ~Nested(entry) /\ stack' = WithoutFile /\ UNCHANGED disk
           /\ cut' = cut \cup IF entry \in Archives THEN {"depth"} ELSE {}
  BY <1>1, <1>4, <1>6, <1>7 DEF UnpackTypeInv
<1>8. ASSUME Nested(entry), NEW k \in 0..Len(layout[entry]),
             Extract(entry, NestedDir, Top.depth + 1, WithoutFile, k),
             cut' = cut \cup Cutting(entry, k)
      PROVE  UnpackTypeInv'
  <2>1. NestedDir \in Dirs
    <3>1. Top.depth \in 1..MaxDepth
      BY <1>1, TopOfWalk DEF Frames
    <3>2. Top.depth \in 0..MaxDepth /\ Len(children) + 1 \in 0..ChildCap
      BY <1>2, <3>1, DepthAssumption
    <3> QED
      BY <3>2 DEF NestedDir, Dirs
  <2> DEFINE dir == NestedDir
             below == WithoutFile
             deeper == Top.depth + 1
  <2>2. /\ dir \in Dirs /\ below \in Seq(Frames) /\ DOMAIN disk \subseteq Dirs
        /\ \A i \in 1..Len(below) : below[i].dir \in Dirs
        /\ Extract(entry, dir, deeper, below, k)
    BY <1>4, <1>8, <2>1 DEF UnpackTypeInv
  <2> HIDE DEF dir, below, deeper
  <2>3. DOMAIN disk' \subseteq Dirs /\ \A i \in 1..Len(stack') : stack'[i].dir \in Dirs
    BY <1>2, <2>2, ExtractTyped
  <2>4. cut' \subseteq {"locked", "extraction", "cap", "depth"}
    BY <1>8 DEF Cutting, UnpackTypeInv
  <2> QED
    BY <1>1, <1>6, <2>3, <2>4 DEF UnpackTypeInv
<1> QED
  BY <1>7, <1>8 DEF NextChild, entry

LEMMA UnpackStepTyped == WalkInv /\ WalkInv' /\ UnpackTypeInv /\ UnpackStep => UnpackTypeInv'
<1> SUFFICES ASSUME WalkInv, WalkInv', UnpackTypeInv, UnpackStep PROVE UnpackTypeInv'
  OBVIOUS
<1>1. CASE Refuse \/ Unpacked
  BY <1>1 DEF Refuse, Unpacked, UnpackTypeInv
<1>2. CASE Open
  <2>1. PICK k \in 0..Len(layout[Outer]) :
          Extract(Outer, <<0, 0>>, 1, <<>>, k) /\ cut' = Cutting(Outer, k)
    BY <1>2 DEF Open
  <2> DEFINE dir == <<0, 0>>
  <2>2. dir \in Dirs /\ Extract(Outer, dir, 1, <<>>, k)
    BY <2>1, DepthAssumption DEF Dirs
  <2> HIDE DEF dir
  <2>3. << >> \in Seq(Frames) /\ stack' \in Seq(Frames) /\ DOMAIN disk \subseteq Dirs
        /\ \A i \in 1..Len(<< >>) : << >>[i].dir \in Dirs
    BY DEF WalkInv, UnpackTypeInv
  <2>4. DOMAIN disk' \subseteq Dirs /\ \A i \in 1..Len(stack') : stack'[i].dir \in Dirs
    BY <2>2, <2>3, ExtractTyped
  <2>5. unpack' = "busy" /\ UNCHANGED <<locked, children>>
    BY <1>2 DEF Open
  <2>6. cut' \subseteq {"locked", "extraction", "cap", "depth"}
    BY <2>1 DEF Cutting
  <2> QED
    BY <2>4, <2>5, <2>6 DEF UnpackTypeInv
<1>3. CASE NextChild
  BY <1>3, NextChildTyped
<1>4. CASE Return
  <2>1. /\ stack # <<>> /\ stack' = Tail(stack) /\ unpack' = unpack
        /\ UNCHANGED <<locked, disk, children>>
        /\ cut' \subseteq cut \cup {"cap"}
    BY <1>4 DEF Return
  <2>2. /\ stack \in Seq(Frames) /\ Len(stack) \in Nat /\ Len(Tail(stack)) = Len(stack) - 1
        /\ \A i \in 1..Len(Tail(stack)) : i + 1 \in 1..Len(stack) /\ Tail(stack)[i] = stack[i + 1]
    BY <2>1 DEF WalkInv
  <2> QED
    BY <2>1, <2>2 DEF UnpackTypeInv
<1> QED
  BY <1>1, <1>2, <1>3, <1>4 DEF UnpackStep

LEMMA UnpackTyped == WalkInv /\ WalkInv' /\ UnpackTypeInv /\ [Next]_vars => UnpackTypeInv'
<1> SUFFICES ASSUME WalkInv, WalkInv', UnpackTypeInv, [Next]_vars PROVE UnpackTypeInv'
  OBVIOUS
<1>1. CASE Unpacking
  BY <1>1, UnpackStepTyped DEF Unpacking
<1>2. CASE UNCHANGED unpackVars
  BY <1>2 DEF unpackVars, UnpackTypeInv
<1>3. CASE Working
  BY <1>1, <1>2, <1>3 DEF Working, WorkerStep
<1>4. CASE Collect
  <2>1. /\ locked' = FALSE /\ unpack' = "idle" /\ stack' = <<>> /\ disk' = <<>>
        /\ children' = <<>> /\ cut' = {}
    BY <1>4 DEF Collect
  <2>2. DOMAIN disk' = {} /\ Len(stack') = 0 /\ Len(children') = 0
    BY <2>1
  <2>3. 1..0 = {}
    OBVIOUS
  <2>4. /\ \A i \in 1..Len(stack') : stack'[i].dir \in Dirs'
        /\ \A i \in 1..Len(children') : children'[i].dir \in Dirs'
    BY <2>2, <2>3
  <2> QED
    BY <2>1, <2>2, <2>4, Zenon DEF UnpackTypeInv
<1>5. CASE Verdict
  <2>1. Rest
    BY <1>5 DEF Verdict, RuleFires, RuleRaises, Evaluated, Weighing, Judging
  <2> QED
    BY <1>2, <2>1 DEF Rest
<1>6. CASE UNCHANGED vars
  BY <1>2, <1>6 DEF vars
<1> QED
  BY <1>3, <1>4, <1>5, <1>6 DEF Next

StageNames == Stages \cup {"office", "office_emulate", "archive"}

ToolNames == Tools \cup {"olevba", "recovery", "msodde", "oleobj", "olemeta", "oledir",
                         "office_scan", "emulator", "listing", "7z", "jar_scan"}

AnyStep == [stage : StageNames, kind : {"python", "tool", "execute", "unpack"},
            tool : ToolNames, limit : Nat]

LEMMA AnyPython ==
  ASSUME NEW stage \in StageNames, NEW tool \in ToolNames
  PROVE  Python(stage, tool) \in AnyStep
BY DEF Python, Step, AnyStep

LEMMA AnyTool ==
  ASSUME NEW stage \in StageNames, NEW tool \in ToolNames, NEW limit \in Nat
  PROVE  Tool(stage, tool, limit) \in AnyStep
BY DEF Tool, Step, AnyStep

LEMMA WiderSeq ==
  ASSUME NEW S, NEW T, S \subseteq T, NEW s \in Seq(S)
  PROVE  s \in Seq(T)
OBVIOUS

LEMMA JoinedSeq ==
  ASSUME NEW S, NEW s \in Seq(S), NEW t \in Seq(S)
  PROVE  s \o t \in Seq(S)
OBVIOUS

LEMMA OfficeRoute ==
  ASSUME NEW family
  PROVE  OfficeSteps(family) \in Seq(AnyStep)
<1> DEFINE a == Tool("office", "olevba", 90)
           b == Python("office", "recovery")
           c == Tool("office", "msodde", 60)
           d == Tool("office", "oleobj", 60)
           e == Tool("office", "olemeta", 30)
           f == Tool("office", "oledir", 30)
           g == Python("office", "office_scan")
           h == Tool("office_emulate", "emulator", DetonationSeconds)
           more == IF family \in {"ole_office", "ole"} THEN <<e, f>> ELSE <<>>
<1>1. /\ a \in AnyStep /\ b \in AnyStep /\ c \in AnyStep /\ d \in AnyStep
      /\ e \in AnyStep /\ f \in AnyStep /\ g \in AnyStep /\ h \in AnyStep
  <2>1. {"office", "office_emulate"} \subseteq StageNames
    BY DEF StageNames
  <2>2. {"olevba", "recovery", "msodde", "oleobj", "olemeta", "oledir", "office_scan", "emulator"}
          \subseteq ToolNames
    BY DEF ToolNames
  <2>3. 90 \in Nat /\ 60 \in Nat /\ 30 \in Nat /\ DetonationSeconds \in Nat
    BY Seconds
  <2> QED
    BY <2>1, <2>2, <2>3, AnyPython, AnyTool
<1>2. OfficeSteps(family) = (<<a, b, c, d>> \o more) \o <<g, h>>
  BY DEF OfficeSteps
<1> HIDE DEF a, b, c, d, e, f, g, h
<1>3. <<a, b, c, d>> \in Seq(AnyStep) /\ more \in Seq(AnyStep) /\ <<g, h>> \in Seq(AnyStep)
  BY <1>1
<1> HIDE DEF more
<1> QED
  BY <1>2, <1>3, JoinedSeq

LEMMA ArchiveRoute ==
  ASSUME NEW family
  PROVE  ArchiveSteps(family) \in Seq(AnyStep)
<1> DEFINE a == IF family \in {"zip", "jar"} THEN Python("archive", "listing")
                ELSE Tool("archive", "listing", 60)
           b == Step("archive", "unpack", "7z", 120)
           c == Python("archive", "jar_scan")
           more == IF family = "jar" THEN <<c>> ELSE <<>>
<1>1. a \in AnyStep /\ b \in AnyStep /\ c \in AnyStep
  <2>1. "archive" \in StageNames /\ {"listing", "7z", "jar_scan"} \subseteq ToolNames
    BY DEF StageNames, ToolNames
  <2>2. b \in AnyStep
    BY <2>1 DEF Step, AnyStep
  <2>3. 60 \in Nat
    OBVIOUS
  <2> QED
    BY <2>1, <2>2, <2>3, AnyPython, AnyTool
<1>2. ArchiveSteps(family) = <<a, b>> \o more
  BY DEF ArchiveSteps
<1> HIDE DEF a, b, c
<1>3. <<a, b>> \in Seq(AnyStep) /\ more \in Seq(AnyStep)
  BY <1>1
<1> HIDE DEF more
<1> QED
  BY <1>2, <1>3, JoinedSeq

LEMMA EveryRoute ==
  ASSUME NEW s
  PROVE  <<Python("triage", "triage")>> \o Route(s) \in Seq(AnyStep)
<1> DEFINE family == Family(s)
           first == Python("triage", "triage")
<1>1. Steps \subseteq AnyStep
  BY DEF Steps, AnyStep, StageNames, ToolNames
<1>2. first \in AnyStep
  BY <1>1, TriageStep
<1> HIDE DEF first
<1>3. <<first>> \in Seq(AnyStep)
  BY <1>2
<1>4. CASE family \notin OfficeFamilies \cup ArchiveFamilies
  BY <1>1, <1>4, RouteIsTimely, WiderSeq DEF first
<1>5. CASE family \in OfficeFamilies
  <2>1. Route(s) = OfficeSteps(family)
    BY <1>5 DEF Route, OfficeFamilies, ArchiveFamilies
  <2> QED
    BY <1>3, <2>1, OfficeRoute, JoinedSeq DEF first
<1>6. CASE family \in ArchiveFamilies
  <2>1. family \notin OfficeFamilies /\ family # "pdf"
    BY <1>6 DEF OfficeFamilies, ArchiveFamilies
  <2>2. Route(s) = ArchiveSteps(family)
    BY <1>6, <2>1 DEF Route, OfficeFamilies, ArchiveFamilies
  <2> QED
    BY <1>3, <2>2, ArchiveRoute, JoinedSeq DEF first
<1> QED
  BY <1>4, <1>5, <1>6

WorkerTypeInv ==
  /\ todo \in Seq(AnyStep) /\ clock \in 0..JobTimeout
  /\ sample \in Samples
  /\ container \in {"up", "hung", "exited", "killed", "overrun", "died", "removed"}
  /\ outcome \in {"none", "completed", "failed"}
  /\ output \in {"none", "tmp", "part", "whole"}
  /\ errors \subseteq raised

LEMMA AnyLimit == \A step \in AnyStep : step.limit \in Nat
BY DEF AnyStep

\* A step that is over before the kill leaves the clock within JOB_TIMEOUT.
LEMMA TakesTyped ==
  ASSUME WorkerTypeInv, NEW seconds \in Nat, Takes(seconds)
  PROVE  clock' \in 0..JobTimeout
<1>1. JobTimeout \in Nat
  BY LimitsAssumption
<1> QED
  BY <1>1 DEF WorkerTypeInv, Takes

LEMMA NowTyped ==
  ASSUME WorkerTypeInv, todo # <<>>
  PROVE  Now \in AnyStep /\ Now.limit \in Nat /\ Tail(todo) \in Seq(AnyStep)
<1>1. todo \in Seq(AnyStep) /\ 1 \in 1..Len(todo)
  BY DEF WorkerTypeInv
<1>2. Now \in AnyStep /\ Tail(todo) \in Seq(AnyStep)
  BY <1>1 DEF Now
<1> QED
  BY <1>2, AnyLimit

LEMMA RaisesTyped == WorkerTypeInv /\ Raises => WorkerTypeInv'
<1> SUFFICES ASSUME WorkerTypeInv, Raises PROVE WorkerTypeInv'
  OBVIOUS
<1>1. /\ todo # <<>> /\ raised' = raised \cup {Now.stage}
      /\ UNCHANGED <<sample, container, clock, output>>
      /\ outcome' \in {outcome, "failed"}
      /\ errors' \in {{}, errors \cup {Now.stage}}
      /\ todo' = <<>> \/ todo' = SubSeq(todo, FirstOfNextStage, Len(todo))
  BY DEF Raises, RecordException
<1>2. todo \in Seq(AnyStep)
  BY DEF WorkerTypeInv
<1>3. FirstOfNextStage \in 2..Len(todo) + 1
  BY <1>1, <1>2, NextStageIsLater
<1>4. todo' \in Seq(AnyStep)
  <2>1. SubSeq(todo, FirstOfNextStage, Len(todo)) \in Seq(AnyStep)
    BY <1>2, <1>3
  <2>2. << >> \in Seq(AnyStep)
    OBVIOUS
  <2> QED
    BY <1>1, <2>1, <2>2, Zenon
<1> QED
  BY <1>1, <1>4 DEF WorkerTypeInv

LEMMA WorkerStepTyped == WorkerTypeInv /\ WorkerStep => WorkerTypeInv'
<1> SUFFICES ASSUME WorkerTypeInv, WorkerStep PROVE WorkerTypeInv'
  OBVIOUS
<1>1. CASE Triaged \/ Scanned \/ ToolReturns \/ NotWanted \/ Executed \/ UnpackedAll
  <2>1. /\ todo # <<>> /\ todo' = Tail(todo)
        /\ UNCHANGED <<sample, container, clock, errors, outcome, output, raised>>
    BY <1>1 DEF Triaged, Scanned, ToolReturns, NotWanted, Executed, UnpackedAll, At, Advance
  <2> QED
    BY <2>1, NowTyped DEF WorkerTypeInv
<1>2. CASE ToolDies
  <2>1. /\ todo # <<>> /\ todo' = Tail(todo) /\ Takes(Now.limit)
        /\ UNCHANGED <<sample, container, errors, outcome, output, raised>>
    BY <1>2 DEF ToolDies, At, Advance
  <2> QED
    BY <2>1, NowTyped, TakesTyped DEF WorkerTypeInv
<1>3. CASE Raises
  BY <1>3, RaisesTyped
<1>4. CASE Hangs \/ Exits \/ Dies
  BY <1>4 DEF Hangs, Exits, Dies, WorkerTypeInv
<1>5. CASE Conclude \/ OpenReport \/ Rename
  BY <1>5 DEF Conclude, OpenReport, Rename, WorkerTypeInv
<1>6. CASE Timeout
  <2>1. JobTimeout \in 0..JobTimeout
    BY LimitsAssumption
  <2> QED
    BY <1>6, <2>1 DEF Timeout, WorkerTypeInv
<1>7. CASE Executing
  <2>1. /\ todo # <<>>
        /\ UNCHANGED clock \/ Takes(Now.limit) \/ Takes(ReapSeconds)
        /\ UNCHANGED <<sample, container, todo, errors, outcome, output, raised>>
    BY <1>7 DEF Executing, At
  <2>2. ReapSeconds \in Nat
    BY DEF ReapSeconds
  <2>3. clock' \in 0..JobTimeout
    BY <2>1, <2>2, NowTyped, TakesTyped DEF WorkerTypeInv
  <2> QED
    BY <2>1, <2>3 DEF WorkerTypeInv
<1>8. CASE Unpacking
  <2>1. /\ todo # <<>>
        /\ UNCHANGED clock \/ Takes(Now.limit)
        /\ UNCHANGED <<sample, container, todo, errors, outcome, output, raised>>
    BY <1>8 DEF Unpacking, At
  <2>2. clock' \in 0..JobTimeout
    BY <2>1, NowTyped, TakesTyped DEF WorkerTypeInv
  <2> QED
    BY <2>1, <2>2 DEF WorkerTypeInv
<1> QED
  BY <1>1, <1>2, <1>3, <1>4, <1>5, <1>6, <1>7, <1>8 DEF WorkerStep

LEMMA WorkerTyped == WorkerTypeInv /\ [Next]_vars => WorkerTypeInv'
<1> SUFFICES ASSUME WorkerTypeInv, [Next]_vars PROVE WorkerTypeInv'
  OBVIOUS
<1>1. CASE Working
  BY <1>1, WorkerStepTyped DEF Working
<1>2. CASE Collect
  <2>1. /\ todo' = <<>> /\ clock' = 0 /\ container' = "removed" /\ UNCHANGED <<sample, raised>>
        /\ outcome' = "none" /\ output' = "none" /\ errors' \subseteq errors
    BY <1>2 DEF Collect
  <2>2. clock' \in 0..JobTimeout
    BY <2>1, LimitsAssumption
  <2>3. todo' \in Seq(AnyStep)
    BY <2>1
  <2> QED
    BY <2>1, <2>2, <2>3 DEF WorkerTypeInv
<1>3. CASE UNCHANGED workerVars
  BY <1>3 DEF workerVars, WorkerTypeInv
<1>4. CASE Verdict
  <2>1. Rest
    BY <1>4 DEF Verdict, RuleFires, RuleRaises, Evaluated, Weighing, Judging
  <2> QED
    BY <1>3, <2>1 DEF Rest
<1>5. CASE UNCHANGED vars
  BY <1>3, <1>5 DEF vars
<1> QED
  BY <1>1, <1>2, <1>4, <1>5 DEF Next

-----------------------------------------------------------------------------
(* The types of the verdict's.                                             *)

VerdictTypeInv ==
  /\ asked \in Findings \cup {0}
  /\ ruleErrors \subseteq Findings
  /\ meta \in {"ok", "timeout"}
  /\ obs \in {"none", "failed", "completed"}
  /\ level \in {"none", "benign", "suspicious", "malicious"}
  /\ phase = "judged" <=> level # "none"

LEMMA VerdictTyped ==
  WorkerTypeInv /\ VerdictTypeInv /\ [Next]_vars => VerdictTypeInv'
<1> SUFFICES ASSUME WorkerTypeInv, VerdictTypeInv, [Next]_vars PROVE VerdictTypeInv'
  OBVIOUS
<1>1. CASE Working
  BY <1>1 DEF Working, scoreVars, verdictVars, VerdictTypeInv
<1>2. CASE Collect
  BY <1>2 DEF Collect, scoreVars, VerdictTypeInv, WorkerTypeInv
<1>3. CASE RuleFires \/ RuleRaises
  BY <1>3 DEF RuleFires, RuleRaises, NextToReport, Rest, scoreVars, VerdictTypeInv
<1>4. CASE Evaluated
  BY <1>4 DEF Evaluated, Rest, VerdictTypeInv
<1>5. CASE Weighing
  BY <1>5 DEF Weighing, Weigh, Rest, VerdictTypeInv
<1>6. CASE Judging
  BY <1>6 DEF Judging, Judge, LevelOf, Rest, VerdictTypeInv
<1>7. CASE UNCHANGED vars
  BY <1>7 DEF vars, scoreVars, verdictVars, VerdictTypeInv
<1> QED
  BY <1>1, <1>2, <1>3, <1>4, <1>5, <1>6, <1>7 DEF Next, Verdict

(* The rules are a sequence, and a finding is a place in it.               *)

IsSequence(s) == \E S : s \in Seq(S)

LEMMA JoinedIsSequence ==
  ASSUME NEW s, NEW t, IsSequence(s), IsSequence(t)
  PROVE  IsSequence(s \o t)
<1>1. PICK S : s \in Seq(S)
  BY DEF IsSequence
<1>2. PICK T : t \in Seq(T)
  BY DEF IsSequence
<1>3. s \in Seq(S \cup T) /\ t \in Seq(S \cup T)
  BY <1>1, <1>2, WiderSeq
<1> QED
  BY <1>3, JoinedSeq DEF IsSequence

LEMMA GroupsAreSequences ==
  /\ IsSequence(IdentityRules) /\ IsSequence(OfficeRules) /\ IsSequence(PdfRules)
  /\ IsSequence(ArchiveRules) /\ IsSequence(PeRules) /\ IsSequence(ScriptRules)
  /\ IsSequence(DynamicRules) /\ IsSequence(IndicatorRules) /\ IsSequence(JarRules)
  /\ IsSequence(HiddenSheetRules) /\ IsSequence(BinaryRules)
<1> DEFINE Members(s) == {s[i] : i \in DOMAIN s}
<1>1. IdentityRules \in Seq(Members(IdentityRules))
  BY DEF IdentityRules
<1>2. OfficeRules \in Seq(Members(OfficeRules))
  BY DEF OfficeRules
<1>3. PdfRules \in Seq(Members(PdfRules))
  BY DEF PdfRules
<1>4. ArchiveRules \in Seq(Members(ArchiveRules))
  BY DEF ArchiveRules
<1>5. PeRules \in Seq(Members(PeRules))
  BY DEF PeRules
<1>6. ScriptRules \in Seq(Members(ScriptRules))
  BY DEF ScriptRules
<1>7. DynamicRules \in Seq(Members(DynamicRules))
  BY DEF DynamicRules
<1>8. IndicatorRules \in Seq(Members(IndicatorRules))
  BY DEF IndicatorRules
<1>9. JarRules \in Seq(Members(JarRules))
  BY DEF JarRules
<1>10. HiddenSheetRules \in Seq(Members(HiddenSheetRules))
  BY DEF HiddenSheetRules
<1>11. BinaryRules \in Seq(Members(BinaryRules))
  BY DEF BinaryRules
<1> HIDE DEF Members
<1> QED
  BY <1>1, <1>2, <1>3, <1>4, <1>5, <1>6, <1>7, <1>8, <1>9, <1>10, <1>11 DEF IsSequence

LEMMA FindingIsPlace == Len(Rules) \in Nat /\ Findings = 1..Len(Rules)
<1>1. IsSequence(Rules)
  BY JoinedIsSequence, GroupsAreSequences, Zenon DEF Rules
<1>2. PICK S : Rules \in Seq(S)
  BY <1>1 DEF IsSequence
<1> QED
  BY <1>2, RulesAssumption

-----------------------------------------------------------------------------
(* Every variable of an analysis is of its type.                           *)

TypeInv ==
  NativeTypeInv /\ UnpackTypeInv /\ WorkerTypeInv /\ VerdictTypeInv

LEMMA UnpackStarts == Init => WalkInv /\ UnpackTypeInv
<1> SUFFICES ASSUME Init PROVE WalkInv /\ UnpackTypeInv
  OBVIOUS
<1>1. /\ layout \in Layouts /\ locked \in BOOLEAN /\ unpack = "idle"
      /\ stack = <<>> /\ disk = <<>> /\ children = <<>> /\ cut = {}
  BY DEF Init, WorkerInit, UnpackInit
<1>2. DOMAIN disk = {} /\ Len(stack) = 0 /\ Len(children) = 0 /\ 1..0 = {}
  BY <1>1
<1>3. WalkInv
  BY <1>1, DepthAssumption DEF WalkInv, OneLevelEach
<1>4. UnpackTypeInv
  BY <1>1, <1>2, Zenon DEF UnpackTypeInv
<1> QED
  BY <1>3, <1>4

LEMMA WorkerStarts == Init => WorkerTypeInv
<1> SUFFICES ASSUME Init PROVE WorkerTypeInv
  OBVIOUS
<1>1. todo \in Seq(AnyStep)
  BY EveryRoute DEF Init, WorkerInit
<1>2. clock \in 0..JobTimeout
  BY LimitsAssumption DEF Init, WorkerInit
<1> QED
  BY <1>1, <1>2 DEF Init, WorkerInit, WorkerTypeInv

LEMMA TypeStarts == Init => TypeInv
<1>1. Init => NativeTypeInv
  BY DEF Init, WorkerInit, NativeInit, NativeTypeInv
<1>2. Init => VerdictTypeInv
  BY DEF Init, ScoreInit, VerdictTypeInv
<1> QED
  BY <1>1, <1>2, UnpackStarts, WorkerStarts DEF TypeInv

\* What was weighed is among the findings, and so is their number.
LEMMA RankInRange == VerdictInv => rank \in 0..Cardinality(Findings)
<1> SUFFICES ASSUME VerdictInv PROVE rank \in 0..Cardinality(Findings)
  OBVIOUS
<1>1. /\ IsFiniteSet(Findings) /\ fired \subseteq Findings /\ left \subseteq fired
      /\ rank \in Nat
  BY FindingsAssumption DEF VerdictInv
<1>2. IsFiniteSet(fired) /\ IsFiniteSet(left)
  BY <1>1, FS_Subset
<1>3. /\ Cardinality(Findings) \in Nat /\ Cardinality(fired) \in Nat
      /\ Cardinality(left) \in Nat
  BY <1>1, <1>2, FS_CardinalityType
<1>4. Cardinality(fired) <= Cardinality(Findings)
  BY <1>1, FS_Subset
<1>5. rank = 0 \/ rank + Cardinality(left) = Cardinality(fired)
  BY DEF VerdictInv
<1> QED
  BY <1>1, <1>3, <1>4, <1>5

LEMMA NativeTypes ==
  SurvivorInv /\ TraceInv /\ NativeTypeInv => NativeTypeOK
BY CallsAssumption DEF SurvivorInv, TraceInv, NativeTypeInv, NativeTypeOK

LEMMA UnpackTypes == WalkInv /\ UnpackTypeInv => UnpackTypeOK
<1> SUFFICES ASSUME WalkInv, UnpackTypeInv PROVE UnpackTypeOK
  OBVIOUS
<1>1. stack \in Seq(Frames) /\ children \in Seq(Listed) /\ layout \in Layouts
  BY DEF WalkInv
<1>2. \A i \in DOMAIN stack : stack[i].dir \in Dirs /\ stack[i].rest \in Seq(Entries)
  <2> SUFFICES ASSUME NEW i \in DOMAIN stack
               PROVE  stack[i].dir \in Dirs /\ stack[i].rest \in Seq(Entries)
    OBVIOUS
  <2>1. i \in 1..Len(stack) /\ stack[i] \in Frames
    BY <1>1
  <2> QED
    BY <2>1 DEF Frames, UnpackTypeInv
<1>3. \A i \in DOMAIN children : children[i].dir \in Dirs /\ children[i].entry \in Entries
  <2> SUFFICES ASSUME NEW i \in DOMAIN children
               PROVE  children[i].dir \in Dirs /\ children[i].entry \in Entries
    OBVIOUS
  <2>1. i \in 1..Len(children) /\ children[i] \in Listed
    BY <1>1
  <2> QED
    BY <2>1 DEF Listed, UnpackTypeInv
<1> QED
  BY <1>1, <1>2, <1>3 DEF UnpackTypeInv, UnpackTypeOK

LEMMA AllTyped ==
  SurvivorInv /\ TraceInv /\ WalkInv /\ VerdictInv /\ TypeInv => TypeOK
<1> SUFFICES ASSUME SurvivorInv, TraceInv, WalkInv, VerdictInv, TypeInv PROVE TypeOK
  OBVIOUS
<1>1. NativeTypeOK /\ UnpackTypeOK
  BY NativeTypes, UnpackTypes DEF TypeInv
<1>2. WorkerTypeOK
  BY <1>1 DEF WorkerTypeOK, TypeInv, WorkerTypeInv
<1>3. ScoreTypeOK
  BY RankInRange DEF ScoreTypeOK, VerdictInv, TypeInv, VerdictTypeInv
<1>4. asked \in 0..Len(Rules)
  BY FindingIsPlace DEF TypeInv, VerdictTypeInv
<1> QED
  BY <1>2, <1>3, <1>4 DEF TypeOK, VerdictInv, TypeInv, VerdictTypeInv

LEMMA TypeInductive == WalkInv /\ WalkInv' /\ TypeInv /\ [Next]_vars => TypeInv'
BY NativeTyped, UnpackTyped, WorkerTyped, VerdictTyped DEF TypeInv

\* From the start of a worker to the level of its report every variable is of its type: the
\* clock never passes JOB_TIMEOUT, every error is of a stage that raised, no directory of the
\* work area has a name outside of MAX_DEPTH and the cap on children, no more findings are
\* weighed than there are, and there is a level when, and only when, the verdict is in (main
\* in entrypoint.py, _collect_children in archive.py, score in signatures.py).
THEOREM AnalysisTypeCorrect == Spec => []TypeOK
<1>1. Init => SurvivorInv
  BY DEF Init, WorkerInit, NativeInit, SurvivorInv
<1>2. Init => TraceInv
  BY TraceStarts
<1>3. Spec => []WalkInv
  BY UnpackStarts, WalkInductive, PTL DEF Spec
<1>4. Spec => []VerdictInv
  BY VerdictInit, VerdictNext, PTL DEF Spec
<1>5. Spec => [](SurvivorInv /\ TraceInv)
  BY <1>1, <1>2, SurvivorInductive, TraceInductive, PTL DEF Spec
<1>6. Spec => []TypeInv
  BY <1>3, TypeStarts, TypeInductive, PTL DEF Spec
<1> QED
  BY <1>3, <1>4, <1>5, <1>6, AllTyped, PTL

-----------------------------------------------------------------------------
(* A binary that is to run is run, or its stage has an error.              *)

MustRun(s) == EnableWine /\ Family(s) \in {"pe", "elf"} /\ s.content # "mz_far"

LastIsRun(steps) == steps # <<>> /\ steps[Len(steps)] = Detonate("pe_detonate")

RunInv ==
  MustRun(sample) /\ container # "removed" /\ outcome # "failed" /\ "pe_detonate" \notin errors
    => run = "returned" \/ LastIsRun(todo)

LEMMA RunStep ==
  /\ Detonate("pe_detonate") \in AnyStep
  /\ Detonate("pe_detonate").stage = "pe_detonate"
  /\ Detonate("pe_detonate").kind = "execute"
  /\ Detonate("pe_detonate").tool = "strace"
<1>1. DetonationSeconds \in Nat /\ "pe_detonate" \in StageNames /\ "strace" \in ToolNames
  BY Seconds DEF StageNames, Stages, ToolNames, Tools
<1> QED
  BY <1>1 DEF Detonate, Step, AnyStep

\* Nothing but a PE is taken for one, its header near or far.
LEMMA PeHasSignature ==
  ASSUME NEW content \in Contents, NEW ext, FamilyOf(content, ext) = "pe"
  PROVE  content \in {"mz_near", "mz_far"}
<1>1. content # "text_plain" /\ content # "ole"
  <2>1. CASE content = "text_plain"
    <3>1. CASE ext \in DOMAIN ScriptExt
      <4>1. FamilyOf(content, ext) = ScriptExt[ext]
        BY <2>1, <3>1 DEF FamilyOf
      <4> QED
        BY <3>1, <4>1 DEF ScriptExt
    <3>2. CASE ext \notin DOMAIN ScriptExt
      <4>1. FamilyOf(content, ext) = Recognised[content]
        BY <2>1, <3>2 DEF FamilyOf
      <4> QED
        BY <2>1, <4>1 DEF Recognised
    <3> QED
      BY <3>1, <3>2
  <2>2. CASE content = "ole"
    <3>1. FamilyOf(content, ext) \in {"msg", "ole_office", Recognised[content]}
      BY <2>2 DEF FamilyOf, OfficeExts
    <3> QED
      BY <2>2, <3>1 DEF Recognised
  <2> QED
    BY <2>1, <2>2
<1>2. FamilyOf(content, ext) = Recognised[content]
  BY <1>1 DEF FamilyOf
<1> QED
  BY <1>2 DEF Contents, Recognised

LEMMA LastOfJoined ==
  ASSUME NEW S, NEW a \in S, NEW s \in Seq(S), NEW d \in S
  PROVE  LET joined == <<a>> \o (s \o <<d>>)
         IN  joined # <<>> /\ joined[Len(joined)] = d
<1> DEFINE t == s \o <<d>>
           joined == <<a>> \o t
<1>1. t \in Seq(S) /\ Len(t) = Len(s) + 1 /\ Len(s) \in Nat /\ t[Len(s) + 1] = d
  OBVIOUS
<1> HIDE DEF t
<1>2. /\ joined \in Seq(S) /\ Len(joined) = Len(t) + 1
      /\ \A i \in 1..Len(t) : joined[i + 1] = t[i]
  BY <1>1
<1> HIDE DEF joined
<1>3. joined # <<>> /\ joined[Len(joined)] = d
  <2>1. Len(s) + 1 \in 1..Len(t)
    BY <1>1
  <2>2. joined[(Len(s) + 1) + 1] = d
    BY <1>1, <1>2, <2>1
  <2> QED
    BY <1>1, <1>2, <2>2
<1> QED
  BY <1>3 DEF joined, t

LEMMA RouteEndsInRun ==
  ASSUME NEW s \in Samples, MustRun(s)
  PROVE  LastIsRun(<<Python("triage", "triage")>> \o Route(s))
<1> DEFINE first == Python("triage", "triage")
           lastOne == Detonate("pe_detonate")
<1>1. first \in AnyStep /\ lastOne \in AnyStep
  <2>1. "triage" \in StageNames /\ "triage" \in ToolNames
    BY DEF StageNames, Stages, ToolNames, Tools
  <2> QED
    BY <2>1, AnyPython, RunStep
<1>2. Route(s) = BinarySteps(s)
  BY DEF MustRun, Route, OfficeFamilies, ArchiveFamilies
<1>3. \E before \in Seq(AnyStep) : BinarySteps(s) = before \o <<lastOne>>
  <2>1. /\ Tool("pe", "readelf", 20) \in AnyStep /\ Tool("pe", "nm", 20) \in AnyStep
        /\ Python("pe", "binary_scan") \in AnyStep
        /\ Python("pe_detonate", "wine_setup") \in AnyStep
    <3>1. /\ {"pe", "pe_detonate"} \subseteq StageNames
          /\ {"readelf", "nm", "binary_scan", "wine_setup"} \subseteq ToolNames
      BY DEF StageNames, Stages, ToolNames, Tools
    <3>2. 20 \in Nat
      OBVIOUS
    <3> QED
      BY <3>1, <3>2, AnyPython, AnyTool
  <2>2. CASE Family(s) = "elf"
    <3> DEFINE b == Tool("pe", "readelf", 20)
               c == Tool("pe", "nm", 20)
               d == Python("pe", "binary_scan")
               before == (<<b, c>> \o <<d>>) \o <<>>
    <3>1. BinarySteps(s) = before \o <<lastOne>>
      BY <2>2 DEF BinarySteps
    <3>2. b \in AnyStep /\ c \in AnyStep /\ d \in AnyStep
      BY <2>1
    <3> HIDE DEF b, c, d
    <3>3. before \in Seq(AnyStep)
      BY <3>2
    <3> HIDE DEF before, lastOne
    <3> QED
      BY <3>1, <3>3
  <2>3. CASE Family(s) = "pe"
    <3> DEFINE b == Python("pe", "binary_scan")
               c == Python("pe_detonate", "wine_setup")
               before == (<<>> \o <<b>>) \o <<c>>
    <3>1. InWineImage(s)
      <4>1. s.content \in Contents /\ FamilyOf(s.content, s.ext) = "pe"
        BY <2>3, SamplesAssumption DEF Family
      <4>2. s.content = "mz_near"
        BY <4>1, PeHasSignature DEF MustRun
      <4> QED
        BY <4>2 DEF InWineImage, Image, PeekFamily, MustRun
    <3>2. BinarySteps(s) = before \o <<lastOne>>
      BY <2>3, <3>1 DEF BinarySteps
    <3>3. b \in AnyStep /\ c \in AnyStep
      BY <2>1
    <3> HIDE DEF b, c
    <3>4. before \in Seq(AnyStep)
      BY <3>3
    <3> HIDE DEF before, lastOne
    <3> QED
      BY <3>2, <3>4
  <2> QED
    BY <2>2, <2>3 DEF MustRun
<1>4. PICK before \in Seq(AnyStep) : BinarySteps(s) = before \o <<lastOne>>
  BY <1>3
<1> HIDE DEF first, lastOne
<1>5. LET joined == <<first>> \o (before \o <<lastOne>>)
      IN  joined # <<>> /\ joined[Len(joined)] = lastOne
  BY <1>1, LastOfJoined
<1>6. LET joined == <<first>> \o Route(s)
      IN  joined # <<>> /\ joined[Len(joined)] = lastOne
  BY <1>2, <1>4, <1>5
<1> QED
  BY <1>6 DEF LastIsRun, first, lastOne

LEMMA LastKept ==
  ASSUME NEW steps \in Seq(AnyStep), LastIsRun(steps), NEW k \in 2..Len(steps)
  PROVE  LastIsRun(SubSeq(steps, k, Len(steps)))
<1> DEFINE rest == SubSeq(steps, k, Len(steps))
<1>1. /\ rest \in Seq(AnyStep) /\ Len(rest) = Len(steps) + 1 - k /\ Len(steps) \in Nat
      /\ \A i \in 1..Len(rest) : rest[i] = steps[k + i - 1]
  OBVIOUS
<1> HIDE DEF rest
<1>2. Len(rest) \in 1..Len(rest) /\ k + Len(rest) - 1 = Len(steps)
  BY <1>1
<1>3. rest[Len(rest)] = steps[Len(steps)]
  BY <1>1, <1>2
<1>4. rest # <<>>
  BY <1>1, <1>2
<1> QED
  BY <1>3, <1>4 DEF LastIsRun, rest

\* A step that is over is not the run, or the run is done.
LEMMA StepOverKeepsRun ==
  ASSUME WorkerTypeInv, RunInv, todo # <<>>, todo' = Tail(todo),
         UNCHANGED <<sample, container, errors, outcome, run>>,
         Now.kind # "execute" \/ Now.tool # "strace" \/ run = "returned"
  PROVE  RunInv'
<1> SUFFICES ASSUME LastIsRun(todo), run # "returned" PROVE LastIsRun(todo')
  BY DEF RunInv, LastIsRun
<1>1. todo \in Seq(AnyStep) /\ Len(todo) \in Nat
  BY DEF WorkerTypeInv
<1>2. Len(todo) # 1
  BY RunStep DEF LastIsRun, Now
<1>3. Len(todo) # 0
  BY <1>1
<1>4. todo' = SubSeq(todo, 2, Len(todo)) /\ 2 \in 2..Len(todo)
  <2>1. Tail(todo) = SubSeq(todo, 2, Len(todo))
    OBVIOUS
  <2>2. \A n \in Nat : n # 0 /\ n # 1 => 2 \in 2..n
    OBVIOUS
  <2>3. 2 \in 2..Len(todo)
    BY <1>1, <1>2, <1>3, <2>2, Zenon
  <2> QED
    BY <2>1, <2>3
<1> QED
  BY <1>1, <1>4, LastKept

\* A stage that raises takes the run with it only if it is the run's.
LEMMA RaisesKeepsRun ==
  ASSUME WorkerTypeInv, RunInv, Raises, UNCHANGED run
  PROVE  RunInv'
<1>1. todo # <<>> /\ UNCHANGED <<sample, container>> /\ todo \in Seq(AnyStep)
  BY DEF Raises, WorkerTypeInv
<1>2. CASE outcome' = "failed"
  BY <1>2 DEF RunInv
<1>3. CASE outcome' # "failed"
  <2>1. /\ todo' = SubSeq(todo, FirstOfNextStage, Len(todo))
        /\ errors' = errors \cup {Now.stage} /\ outcome' = outcome
    BY <1>3 DEF Raises, RecordException
  <2> SUFFICES ASSUME LastIsRun(todo), run # "returned", "pe_detonate" \notin errors'
               PROVE  LastIsRun(todo')
    BY <1>1, <2>1 DEF RunInv, LastIsRun
  <2>2. FirstOfNextStage \in 2..Len(todo) + 1 /\ Len(todo) \in Nat
    BY <1>1, NextStageIsLater
  <2>3. FirstOfNextStage # Len(todo) + 1
    <3> SUFFICES ASSUME FirstOfNextStage = Len(todo) + 1 PROVE FALSE
      OBVIOUS
    <3> DEFINE same == {i \in DOMAIN todo : todo[i].stage = Now.stage}
    <3>1. DOMAIN todo = 1..Len(todo) /\ Len(todo) \in DOMAIN todo /\ same \subseteq 1..Len(todo)
      BY <1>1
    <3>2. IsFiniteSet(1..Len(todo)) /\ Cardinality(1..Len(todo)) = Len(todo)
      <4>1. Len(todo) - 1 + 1 = Len(todo) /\ 1 \in Int /\ Len(todo) \in Int /\ ~(1 > Len(todo))
        BY <2>2
      <4> QED
        BY <4>1, FS_Interval
    <3>3. Cardinality(same) \in Nat
      BY <3>1, <3>2, FS_Subset, FS_CardinalityType
    <3>4. Cardinality(same) = Len(todo)
      BY <2>2, <3>3 DEF FirstOfNextStage
    <3>5. same = 1..Len(todo)
      BY <3>1, <3>2, <3>4, FS_Subset
    <3>6. todo[Len(todo)].stage = Now.stage
      BY <3>1, <3>5
    <3> QED
      BY <2>1, <3>6, RunStep DEF LastIsRun
  <2>4. FirstOfNextStage \in 2..Len(todo)
    BY <2>2, <2>3
  <2> QED
    BY <1>1, <2>1, <2>4, LastKept
<1> QED
  BY <1>2, <1>3

LEMMA WorkerKeepsRun ==
  ASSUME WorkerTypeInv, RunInv, WorkerStep
  PROVE  RunInv'
<1>1. CASE /\ Triaged \/ Scanned \/ ToolReturns \/ ToolDies \/ UnpackedAll
           /\ UNCHANGED nativeVars
  <2>1. /\ todo # <<>> /\ todo' = Tail(todo) /\ Now.kind # "execute"
        /\ UNCHANGED <<sample, container, errors, outcome, run>>
    BY <1>1 DEF Triaged, Scanned, ToolReturns, ToolDies, UnpackedAll, At, Advance, nativeVars
  <2> QED
    BY <2>1, StepOverKeepsRun
<1>2. CASE Executed /\ UNCHANGED nativeVars
  <2>1. /\ todo # <<>> /\ todo' = Tail(todo) /\ run = "returned"
        /\ UNCHANGED <<sample, container, errors, outcome, run>>
    BY <1>2 DEF Executed, At, Advance, nativeVars
  <2> QED
    BY <2>1, StepOverKeepsRun
<1>3. CASE NotWanted /\ UNCHANGED nativeVars
  <2>1. /\ todo # <<>> /\ todo' = Tail(todo) /\ ~Wanted
        /\ UNCHANGED <<sample, container, errors, outcome, run>>
    BY <1>3 DEF NotWanted, Advance, nativeVars
  <2>2. Now.tool # "strace"
    BY <2>1 DEF Wanted, NeedsWhat
  <2> QED
    BY <2>1, <2>2, StepOverKeepsRun
<1>4. CASE Raises /\ UNCHANGED nativeVars
  BY <1>4, RaisesKeepsRun DEF nativeVars
<1>5. CASE /\ Hangs \/ Conclude \/ OpenReport \/ Rename \/ Exits \/ Dies \/ Timeout
           /\ UNCHANGED nativeVars
  <2>1. /\ UNCHANGED <<sample, todo, errors, run>> /\ container # "removed"
        /\ outcome' # "failed" => outcome # "failed"
    BY <1>5 DEF Hangs, Conclude, OpenReport, Rename, Exits, Dies, Timeout, MayOverrun, At,
                nativeVars
  <2> QED
    BY <2>1 DEF RunInv, LastIsRun
<1>6. CASE Executing
  <2>1. UNCHANGED <<sample, container, todo, errors, outcome>>
    BY <1>6 DEF Executing
  <2>2. run = "returned" => run' = "returned"
    BY <1>6 DEF Executing, Launch, SampleStep, Fork, Daemonize, Exit, Call, TraceeGone,
                BudgetExpires, Reaped
  <2> QED
    BY <2>1, <2>2 DEF RunInv, LastIsRun
<1>7. CASE Unpacking /\ UNCHANGED nativeVars
  BY <1>7 DEF Unpacking, nativeVars, RunInv, LastIsRun
<1> QED
  BY <1>1, <1>2, <1>3, <1>4, <1>5, <1>6, <1>7 DEF WorkerStep

LEMMA RunInductive == WorkerTypeInv /\ RunInv /\ [Next]_vars => RunInv'
<1> SUFFICES ASSUME WorkerTypeInv, RunInv, [Next]_vars PROVE RunInv'
  OBVIOUS
<1>1. CASE Working
  BY <1>1, WorkerKeepsRun DEF Working
<1>2. CASE Collect
  BY <1>2 DEF Collect, RunInv
<1>3. CASE UNCHANGED <<workerVars, nativeVars>>
  BY <1>3 DEF workerVars, nativeVars, RunInv, LastIsRun
<1>4. CASE Verdict
  <2>1. Rest
    BY <1>4 DEF Verdict, RuleFires, RuleRaises, Evaluated, Weighing, Judging
  <2> QED
    BY <1>3, <2>1 DEF Rest
<1>5. CASE UNCHANGED vars
  BY <1>3, <1>5 DEF vars
<1> QED
  BY <1>1, <1>2, <1>4, <1>5 DEF Next

\* Whatever the sample does, whichever stages raise and whatever the tools find: where Wine is
\* enabled, a worker that came to its end without an error of the stage has been through the
\* run of the binary, unless the signature of a PE is beyond the 4096 bytes that the
\* orchestrator reads (_peek_family in orchestrator.py, timed and main in entrypoint.py).
THEOREM BinariesGetTheirRun == Spec => []BinariesAreRun
<1>1. Init => RunInv
  BY RouteEndsInRun DEF Init, WorkerInit, RunInv
<1>2. Init => ReportInv
  BY DEF Init, WorkerInit, ReportInv
<1>3. ReportInv /\ RunInv => BinariesAreRun
  BY DEF ReportInv, RunInv, BinariesAreRun, MustRun, LastIsRun
<1> QED
  BY <1>1, <1>2, <1>3, WorkerStarts, WorkerTyped, ReportInductive, RunInductive, PTL DEF Spec
=============================================================================
