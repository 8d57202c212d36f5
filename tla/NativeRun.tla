----------------------------- MODULE NativeRun -----------------------------
(***************************************************************************)
(* behavior.execute and parse_trace: a sample runs under `strace -f` in a  *)
(* process group of its own, with a wall-clock budget and a group kill.    *)
(* Its processes fork, leave the group (setsid), make calls and exit as    *)
(* they please.                                                            *)
(***************************************************************************)
EXTENDS Naturals, Sequences, FiniteSets

CONSTANTS Procs,          \* the processes the sample may have (bound)
          Calls,          \* the calls it makes, a subset of CallKind
          MaxCalls,       \* bound: how many calls it makes
          MaxTraceLines   \* parse_trace reads that many lines, 400 000 in the code

\* "self_exec" starts the sample again as the launcher did; "wine_named" is an execve with the
\* name of a process of Wine in it, whoever makes it; "enoent" finds no program to start.
CallKind == {"execve", "self_exec", "wine_named", "lolbin", "enoent", "connect", "infra_connect",
             "write_autostart", "chmod_x", "memfd_create", "unlink_a", "unlink_b"}

\* A line of the log: a call with its result, the launcher's own execve, or an execve whose
\* result is not on the line.
LineKind == CallKind \cup {"launch", "enoent_cut"}

ASSUME CallsAssumption == IsFiniteSet(Procs) /\ Calls \subseteq CallKind
ASSUME TraceAssumption == MaxCalls \in Nat /\ MaxTraceLines \in Nat

VARIABLES
  run,        \* execute: "idle", "running", "reaping" (killed, in wait(10)),
              \* "returned", "raised"
  alive,      \* the sample's processes
  group,      \* those in the process group of strace
  traced,     \* those strace follows
  trace,      \* the lines strace wrote
  calls,      \* every call of the sample, traced or not (history)
  timedOut,   \* execute's timed_out
  strayKill   \* killpg failed and proc.kill hit strace alone (history)

nativeVars == <<run, alive, group, traced, trace, calls, timedOut, strayKill>>

NativeTypeOK ==
  /\ run \in {"idle", "running", "reaping", "returned", "raised"}
  /\ alive \subseteq Procs
  /\ group \subseteq alive
  /\ traced \subseteq alive
  /\ trace \in Seq(LineKind)
  /\ calls \subseteq CallKind
  /\ timedOut \in BOOLEAN
  /\ strayKill \in BOOLEAN

NativeInit ==
  /\ run = "idle"
  /\ alive = {} /\ group = {} /\ traced = {}
  /\ trace = <<>> /\ calls = {}
  /\ timedOut = FALSE /\ strayKill = FALSE

-----------------------------------------------------------------------------
(* The sample.                                                             *)

\* strace and the first process of the sample, in a new session; strace logs the execve of
\* the command it was given.  Or there is no strace: execute returns without a run.
Launch ==
  /\ run = "idle"
  /\ \/ /\ \E p \in Procs : alive' = {p} /\ group' = {p} /\ traced' = {p}
        /\ run' = "running"
        /\ trace' = <<"launch">>
     \/ /\ run' = "returned"
        /\ UNCHANGED <<alive, group, traced, trace>>
  /\ UNCHANGED <<calls, timedOut, strayKill>>

\* A child is in its parent's group, and traced when its parent is (strace -f).
Fork(p, q) ==
  /\ p \in alive /\ q \notin alive
  /\ alive' = alive \cup {q}
  /\ group' = IF p \in group THEN group \cup {q} ELSE group
  /\ traced' = IF p \in traced THEN traced \cup {q} ELSE traced
  /\ UNCHANGED <<run, trace, calls, timedOut, strayKill>>

\* setsid: a daemon is still traced, but no longer in the group.
Daemonize(p) ==
  /\ p \in group
  /\ group' = group \ {p}
  /\ UNCHANGED <<run, alive, traced, trace, calls, timedOut, strayKill>>

Exit(p) ==
  /\ p \in alive
  /\ alive' = alive \ {p} /\ group' = group \ {p} /\ traced' = traced \ {p}
  /\ UNCHANGED <<run, trace, calls, timedOut, strayKill>>

\* A call without its result.  What parse_trace reads of a call but for ENOENT stands on its
\* line whether the result does or not.
Cut(c) == IF c = "enoent" THEN "enoent_cut" ELSE c

\* strace logs a call of a process it follows - on two lines, "<unfinished ...>" and
\* "<... resumed>", when one of another process comes between call and result.  Nothing is
\* read from the second line, which is left out.
Call(p, c) ==
  /\ p \in alive
  /\ Cardinality(calls) < MaxCalls
  /\ c \in Calls \ calls
  /\ calls' = calls \cup {c}
  /\ \/ p \in traced /\ trace' = Append(trace, c)
     \/ p \in traced /\ traced # {p} /\ trace' = Append(trace, Cut(c))
     \/ p \notin traced /\ UNCHANGED trace
  /\ UNCHANGED <<run, alive, group, traced, timedOut, strayKill>>

SampleStep == \E p \in Procs : \/ \E q \in Procs : Fork(p, q)
                               \/ Daemonize(p)
                               \/ Exit(p)
                               \/ \E c \in Calls : Call(p, c)

-----------------------------------------------------------------------------
(* execute.                                                                *)

\* strace exits with its last tracee, and proc.wait returns.
TraceeGone ==
  /\ run = "running"
  /\ traced = {}
  /\ run' = "returned"
  /\ UNCHANGED <<alive, group, traced, trace, calls, timedOut, strayKill>>

\* Mutant: the kill hits strace alone.
BudgetKillsTracer ==
  /\ run = "running"
  /\ timedOut' = TRUE
  /\ run' = "reaping"
  /\ traced' = {}
  /\ UNCHANGED <<alive, group, trace, calls, strayKill>>

\* The budget is over: killpg takes strace and the group.  A traced process outside the
\* group is let go.  The last line of the log may be lost, or cut before its result.
BudgetExpires ==
  /\ run = "running"
  /\ timedOut' = TRUE
  /\ run' = "reaping"
  /\ \/ /\ alive' = alive \ group
        /\ group' = {}
        /\ UNCHANGED strayKill
     \/ /\ strayKill' = TRUE             \* PermissionError: proc.kill()
        /\ UNCHANGED <<alive, group>>
  /\ traced' = {}
  /\ \/ UNCHANGED trace
     \/ trace' = SubSeq(trace, 1, Len(trace) - 1)
     \/ trace' = [trace EXCEPT ![Len(trace)] = Cut(@)]
  /\ UNCHANGED calls

\* wait(timeout=10) after the kill: strace is reaped, or TimeoutExpired leaves execute.
Reaped ==
  /\ run = "reaping"
  /\ run' \in {"returned", "raised"}
  /\ UNCHANGED <<alive, group, traced, trace, calls, timedOut, strayKill>>

-----------------------------------------------------------------------------
(* What parse_trace makes of the log.                                      *)

\* The lines it reads.
LinesRead(lines) ==
  {lines[i] : i \in 1..(IF Len(lines) < MaxTraceLines THEN Len(lines) ELSE MaxTraceLines)}

\* Mutant: the execve with which strace starts the sample is taken for the sample's own.
LauncherCounts == {<<"launch", "processes">>, <<"execve", "processes">>,
                   <<"write_autostart", "persistence_paths">>}

\* The lines and the features of the behaviour each is evidence of.  Dropped are an execve with
\* ENOENT on its line, every execve with the launcher's argv and every one that has the name
\* of a process of Wine in it; report.build drops a connection to the sandbox itself.
EvidenceOf == {<<"execve", "processes">>, <<"lolbin", "processes">>, <<"lolbin", "lolbins_invoked">>,
               <<"enoent_cut", "processes">>, <<"enoent_cut", "lolbins_invoked">>,
               <<"connect", "connect_attempts">>, <<"write_autostart", "persistence_paths">>,
               <<"chmod_x", "made_executable">>, <<"memfd_create", "anonymous_executables">>}

Deeds(lines) == {e[2] : e \in {e \in EvidenceOf : e[1] \in lines}}
                  \cup IF {"unlink_a", "unlink_b"} \subseteq lines THEN {"two_files_deleted"} ELSE {}

Behaviour == Deeds(LinesRead(trace))

-----------------------------------------------------------------------------
(* Properties.                                                             *)

\* When execute has returned, a process of the sample that still runs outlasted the budget
\* and had left the process group, since killpg takes the whole group and strace -f waits for
\* every process when there is no kill (behavior.py:228-229) - or killpg was not permitted,
\* and the kill of strace alone spared it.
OnlyDaemonsSurvive ==
  run = "returned" => /\ alive # {} => timedOut
                      /\ alive \cap group = {} \/ strayKill

\* What a call does, told from the sample's side: to start itself anew or a program named like
\* one of Wine's is to start a process, and to look for a program that is not there is not.
DeedOf == {<<"execve", "processes">>, <<"self_exec", "processes">>, <<"wine_named", "processes">>,
           <<"lolbin", "processes">>, <<"lolbin", "lolbins_invoked">>,
           <<"connect", "connect_attempts">>, <<"write_autostart", "persistence_paths">>,
           <<"chmod_x", "made_executable">>, <<"memfd_create", "anonymous_executables">>}

Did(feature) ==
  \/ \E c \in calls : <<c, feature>> \in DeedOf
  \/ feature = "two_files_deleted" /\ {"unlink_a", "unlink_b"} \subseteq calls

\* The behaviour in the report is what the sample did, whichever of its processes did it.
\* What it shows beyond that is a program that the sample looked for in vain, and only if the
\* line was split between two processes or cut by the kill.  What it lacks of a run that ended
\* within its budget, and whose log is not longer than parse_trace reads, is that processes
\* were started, and only if all of them looked like the launcher or like Wine.
TraceTellsTheRun ==
  run = "returned" =>
    /\ \A feature \in Behaviour :
         \/ Did(feature)
         \/ /\ feature \in {"processes", "lolbins_invoked"} /\ "enoent" \in calls
            /\ "enoent_cut" \in LinesRead(trace)
    /\ ~timedOut /\ Len(trace) <= MaxTraceLines =>
         \A e \in DeedOf : e[1] \in calls \ {"self_exec", "wine_named"} => e[2] \in Behaviour
=============================================================================
