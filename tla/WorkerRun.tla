----------------------------- MODULE WorkerRun -----------------------------
(***************************************************************************)
(* The worker container: entrypoint.main takes one sample through triage   *)
(* and the stages of its route, one tool after the other, and writes       *)
(* observations.json once, at the end.  The orchestrator kills the         *)
(* container at JOB_TIMEOUT, whatever it is at, and removes it.            *)
(*                                                                         *)
(* Of time only the tools' limits count: a tool takes none of it or all of *)
(* its limit.  Of observations only the features that the rules read are   *)
(* kept.                                                                   *)
(***************************************************************************)
EXTENDS NativeRun, ArchiveUnpack, Triage

CONSTANTS Samples,           \* of [content, ext, deceptive]
          EnableWine,        \* ENABLE_WINE is set and the Wine image is built
          Shown,             \* the features the samples may show (bound)
          DetonationSeconds, \* DETONATION_SECONDS, 45 by default
          JobTimeout,        \* JOB_TIMEOUT, 180 by default
          MaxRaises          \* bound: how many stages raise

ASSUME SamplesAssumption ==
  Samples \subseteq [content : Contents, ext : Extensions, deceptive : BOOLEAN]
ASSUME LimitsAssumption ==
  {DetonationSeconds, JobTimeout, MaxRaises} \subseteq Nat /\ EnableWine \in BOOLEAN

VARIABLES
  sample,     \* the file in input/
  container,  \* "up", "hung" (in Python code), "exited", "died", "removed"; killed at
              \* JOB_TIMEOUT while "hung" before, "killed", or else within a tool, "overrun"
  todo,       \* the steps that are left
  clock,      \* seconds since the container started
  fresh,      \* features found in the stage the worker is in
  observed,   \* those of the stages it has finished
  errors,     \* observations["errors"], by stage
  outcome,    \* the report's status, "none" while the analysis runs
  output,     \* observations.json: "none", "tmp" (being written under its .tmp name), "part", "whole"
  raised      \* stages that raised (history)

workerVars == <<sample, container, todo, clock, fresh, observed, errors, outcome, output,
                raised>>

-----------------------------------------------------------------------------
(* The steps of a route.                                                   *)

Step(stage, kind, tool, limit) == [stage |-> stage, kind |-> kind, tool |-> tool, limit |-> limit]

\* common.run: a command with a time limit.
Tool(stage, tool, limit) == Step(stage, "tool", tool, limit)

Python(stage, tool) == Step(stage, "python", tool, 0)

\* Mutant: execute is given the time of the whole job.
DetonateForTheJob(stage) == Step(stage, "execute", "strace", JobTimeout)

\* behavior.execute and its budget; to reap strace after the kill may take 10 s more.
Detonate(stage) == Step(stage, "execute", "strace", DetonationSeconds)

ReapSeconds == 10

Family(s) == FamilyOf(s.content, s.ext)

OfficeFamilies == {"ole_office", "ole", "ooxml_word", "ooxml_excel", "rtf", "msg"}

ArchiveFamilies == {"zip", "rar", "7z", "gzip", "iso", "jar"}

OfficeSteps(family) ==
  <<Tool("office", "olevba", 90), Python("office", "recovery"),
    Tool("office", "msodde", 60), Tool("office", "oleobj", 60)>>
    \o (IF family \in {"ole_office", "ole"}
        THEN <<Tool("office", "olemeta", 30), Tool("office", "oledir", 30)>> ELSE <<>>)
    \o <<Python("office", "office_scan"), Tool("office_emulate", "emulator", DetonationSeconds)>>

PdfSteps == <<Python("pdf", "pdf_scan"), Tool("pdf_js", "pdf_boxjs", DetonationSeconds)>>

ArchiveSteps(family) ==
  <<IF family \in {"zip", "jar"} THEN Python("archive", "listing") ELSE Tool("archive", "listing", 60),
    Step("archive", "unpack", "7z", 120)>>
    \o (IF family = "jar" THEN <<Python("archive", "jar_scan")>> ELSE <<>>)

InWineImage(s) == Image(s.content, s.ext, EnableWine) = "worker-wine"

\* A PE is run in the Wine image only, once its prefix and its display are set up.
BinarySteps(s) ==
  (IF Family(s) = "elf" THEN <<Tool("pe", "readelf", 20), Tool("pe", "nm", 20)>> ELSE <<>>)
    \o <<Python("pe", "binary_scan")>>
    \o (IF Family(s) = "pe" /\ InWineImage(s) THEN <<Python("pe_detonate", "wine_setup")>> ELSE <<>>)
    \o (IF Family(s) = "elf" \/ InWineImage(s) THEN <<Detonate("pe_detonate")>> ELSE <<>>)

\* The script stage covers the run of the script as well.
ScriptSteps(family) ==
  <<Python("script", "script_scan")>>
    \o CASE family \in {"js", "vbs", "hta"} -> <<Tool("script", "boxjs", DetonationSeconds)>>
         [] family \in {"sh", "py"}         -> <<Detonate("script")>>
         [] OTHER                           -> <<>>

Route(s) ==
  LET family == Family(s)
  IN  CASE family \in OfficeFamilies  -> OfficeSteps(family)
        [] family = "pdf"             -> PdfSteps
        [] family \in ArchiveFamilies -> ArchiveSteps(family)
        [] family \in {"pe", "elf"}   -> BinarySteps(s)
        [] family \in {"js", "vbs", "hta", "ps1", "sh", "py", "pl"} -> ScriptSteps(family)
        [] OTHER                      -> <<Python("generic", "generic_scan")>>

\* Their exceptions are main's, not timed's.
UntimedStages == {"triage", "generic"}

-----------------------------------------------------------------------------
(* The features each analyzer may find.                                    *)

\* What extract_iocs finds in any text, as far as a rule looks at it.
Indicators == {"bad_tld", "ip_url", "executable_url"}

VbaFeatures == {"macros", "macro_lines", "auto_exec", "hot_calls", "hiding_calls"}

RebuiltStrings == {"rebuilt_strings"}

PackageFeatures(family) ==
  IF family \in {"ooxml_word", "ooxml_excel"}
  THEN {"external_targets", "remote_template", "embedded_objects"} ELSE {}

SheetFeatures(family) == IF family = "ole_office" THEN {"xlm_biff8_sheets"} ELSE {}

DocumentFeatures(family) ==
  {"embedded_executables"}
    \cup (IF family \in {"ole_office", "ooxml_excel"} THEN {"xlm_macros_indicated"} ELSE {})

PdfTreeFeatures == {"open_action", "page_actions", "launch_actions", "embedded_files"}

PdfTextFeatures == {"javascript", "launch_keyword"}

ImportCapabilities == {"network", "persistence", "process_control", "credential_access", "keylogging",
                       "process_injection", "anti_analysis"}

PeFeatures == {"packer_sections", "dense_section", "import_table_stripped", "write_and_execute",
               "executable_resource", "executable_overlay", "dense_overlay", "parsed_unsigned",
               "timestamp_implausible"}

ListingFeatures(family) ==
  {"path_traversal"} \cup (IF family \in {"zip", "jar"} THEN {"zip_bomb_suspected"} ELSE {})

EntryNameFeatures == {"dangerous_entries", "decoy_names"}

JarFeatures == {"main_class", "suspicious_class_names", "unsigned_classes"}

BlobFeatures == {"base64_blobs"}

DeobfuscatedFeatures == {"deobfuscated"}

ScriptFeatures(family) ==
  {"single_line", "high_entropy"} \cup (IF family = "ps1" THEN {"two_powershell_flags"} ELSE {})

BoxjsFeatures == {"extracted_urls", "resources", "ip_url", "executable_url"}

\* What the emulator of macros prints is not among what the rules read.
Yields(family, tool) ==
  CASE tool \in {"olevba", "recovery"} -> VbaFeatures \cup RebuiltStrings \cup Indicators
    [] tool = "msodde"             -> {"dde"}
    [] tool = "oleobj"             -> {"ip_url", "executable_url"}
    [] tool = "office_scan"        -> PackageFeatures(family) \cup SheetFeatures(family)
                                        \cup DocumentFeatures(family) \cup Indicators
    [] tool = "pdf_scan"           -> PdfTreeFeatures \cup PdfTextFeatures \cup Indicators
    [] tool \in {"pdf_boxjs", "boxjs"} -> BoxjsFeatures
    [] tool = "listing"            -> ListingFeatures(family) \cup EntryNameFeatures
    [] tool = "7z"                 -> {"child_mismatch", "child_name_flags"}
    [] tool = "jar_scan"           -> JarFeatures
    [] tool = "binary_scan" ->
         {"abuse_domain", "remote_ip"} \cup Indicators
           \cup (IF family = "pe" THEN PeFeatures \cup ImportCapabilities ELSE {})
    [] tool = "script_scan" ->
         ScriptFeatures(family) \cup BlobFeatures \cup DeobfuscatedFeatures \cup Indicators
    [] tool = "strace"             -> Indicators
    [] tool = "generic_scan"       -> {"high_entropy"} \cup Indicators
    [] OTHER                       -> {}

\* A feature and one that cannot be missing where it is.
Entails == {<<"auto_exec", "macros">>, <<"hot_calls", "macros">>, <<"hiding_calls", "macros">>,
            <<"rebuilt_strings", "macros">>, <<"macro_lines", "macros">>,
            <<"remote_template", "external_targets">>, <<"xlm_biff8_sheets", "xlm_macros_indicated">>}

Findable(family, tool) ==
  {f \in SUBSET (Yields(family, tool) \cap Shown) :
     \A e \in Entails : e[1] \in f /\ e[2] \in Shown => e[2] \in f}

-----------------------------------------------------------------------------

WorkerTypeOK ==
  /\ NativeTypeOK /\ UnpackTypeOK
  /\ sample \in Samples
  /\ container \in {"up", "hung", "exited", "killed", "overrun", "died", "removed"}
  /\ clock \in 0..JobTimeout
  /\ outcome \in {"none", "completed", "failed"}
  /\ output \in {"none", "tmp", "part", "whole"}
  /\ errors \subseteq raised

WorkerInit ==
  /\ NativeInit /\ UnpackInit
  /\ sample \in Samples
  /\ Family(sample) \notin ArchiveFamilies => layout = CHOOSE l \in Layouts : TRUE
  /\ Family(sample) \notin ArchiveFamilies => ~locked
  /\ container = "up"
  /\ todo = <<Python("triage", "triage")>> \o Route(sample)
  /\ clock = 0
  /\ fresh = {} /\ observed = {} /\ errors = {}
  /\ outcome = "none" /\ output = "none"
  /\ raised = {}

Now == todo[1]

At(kind) == container = "up" /\ todo # <<>> /\ Now.kind = kind

\* The emulators run only when a finished stage has found something for them.
NeedsWhat == [emulator  |-> {"macros", "auto_exec", "xlm_macros_indicated"},
              pdf_boxjs |-> {"javascript"}]

\* Macro source is recovered from the streams only where olevba found none.
Wanted == /\ Now.tool \in DOMAIN NeedsWhat => NeedsWhat[Now.tool] \cap observed # {}
          /\ Now.tool = "recovery" => "macros" \notin fresh

\* On to the next step, which may be one of another stage.
Advance(found) ==
  /\ todo' = Tail(todo)
  /\ IF Len(todo) = 1 \/ todo[2].stage # Now.stage
     THEN observed' = observed \cup fresh \cup found /\ fresh' = {}
     ELSE fresh' = fresh \cup found /\ UNCHANGED observed

\* Mutant: no kill at JOB_TIMEOUT.
TakesAnyTime(seconds) == clock' = clock + seconds

\* A step takes so many seconds, and is over before the container is killed.
Takes(seconds) == clock + seconds < JobTimeout /\ clock' = clock + seconds

Triaged ==
  /\ At("python") /\ Now.stage = "triage"
  /\ Advance(FileFeatures(sample.content, sample.ext, sample.deceptive))
  /\ UNCHANGED <<sample, container, clock, errors, outcome, output, raised>>

Scanned ==
  /\ At("python") /\ Now.stage # "triage" /\ Wanted
  /\ \E found \in Findable(Family(sample), Now.tool) : Advance(found)
  /\ UNCHANGED <<sample, container, clock, errors, outcome, output, raised>>

\* Python code that is not over at JOB_TIMEOUT, as a regular expression or a large file may
\* have it; the writing of the report and the end of the process included.
Hangs ==
  /\ (At("python") /\ Wanted) \/ (container = "up" /\ todo = <<>>)
  /\ container' = "hung"
  /\ UNCHANGED <<sample, todo, clock, fresh, observed, errors, outcome, output, raised>>

ToolReturns ==
  /\ At("tool") /\ Wanted
  /\ \E found \in Findable(Family(sample), Now.tool) : Advance(found)
  /\ UNCHANGED <<sample, container, clock, errors, outcome, output, raised>>

\* run returns what the tool had printed, with timed_out set; the analyzers read what it
\* printed only.
ToolDies ==
  /\ At("tool") /\ Wanted
  /\ Takes(Now.limit)
  /\ \E found \in Findable(Family(sample), Now.tool) : Advance(found)
  /\ UNCHANGED <<sample, container, errors, outcome, output, raised>>

NotWanted ==
  /\ container = "up" /\ todo # <<>> /\ ~Wanted
  /\ Advance({})
  /\ UNCHANGED <<sample, container, clock, errors, outcome, output, raised>>

\* The steps of a stage are in a row.
FirstOfNextStage == 1 + Cardinality({i \in DOMAIN todo : todo[i].stage = Now.stage})

\* Mutant: an exception that leaves no trace.
RaiseUntold ==
  /\ fresh' = {}
  /\ todo' = SubSeq(todo, FirstOfNextStage, Len(todo))
  /\ UNCHANGED <<observed, errors, outcome>>

\* timed: the stage's own results are lost, the exception is recorded, and the next stage
\* has its turn.  Outside of timed the report holds nothing but the exception.
RecordException ==
  /\ fresh' = {}
  /\ IF Now.stage \in UntimedStages
     THEN /\ todo' = <<>> /\ observed' = {} /\ errors' = {}
          /\ outcome' = "failed"
     ELSE /\ todo' = SubSeq(todo, FirstOfNextStage, Len(todo))
          /\ errors' = errors \cup {Now.stage}
          /\ UNCHANGED <<observed, outcome>>

\* Any step may raise: in Python code, or in execute when strace cannot be reaped.
Raises ==
  /\ container = "up" /\ todo # <<>>
  /\ \/ Cardinality(raised) < MaxRaises /\ (Now.kind = "execute" => run = "idle")
     \/ Now.kind = "execute" /\ run = "raised"
  /\ raised' = raised \cup {Now.stage}
  /\ RecordException
  /\ UNCHANGED <<sample, container, clock, output>>

-----------------------------------------------------------------------------
(* The two steps that take a module of their own.                          *)

Executing ==
  /\ At("execute")
  /\ \/ (Launch \/ SampleStep \/ TraceeGone) /\ UNCHANGED clock
     \/ BudgetExpires /\ Takes(Now.limit)
     \/ Reaped /\ IF run' = "raised" THEN Takes(ReapSeconds) ELSE UNCHANGED clock
  /\ UNCHANGED <<sample, container, todo, fresh, observed, errors, outcome, output, raised>>

Executed ==
  /\ At("execute") /\ run = "returned"
  /\ \E found \in Findable(Family(sample), "strace") : Advance(Behaviour \cup found)
  /\ UNCHANGED <<sample, container, clock, errors, outcome, output, raised>>

\* 7z is run for each archive that is opened.
Unpacking ==
  /\ At("unpack")
  /\ UnpackStep
  /\ UNCHANGED clock \/ (disk' # disk /\ Takes(Now.limit))
  /\ UNCHANGED <<sample, container, todo, fresh, observed, errors, outcome, output, raised>>

UnpackedAll ==
  /\ At("unpack") /\ unpack = "done"
  /\ \E found \in Findable(Family(sample), "7z") :
       /\ children = <<>> => found = {}
       /\ Advance(ChildFeatures \cup found)
  /\ UNCHANGED <<sample, container, clock, errors, outcome, output, raised>>

-----------------------------------------------------------------------------
(* The report, and the end of the container.                               *)

\* Mutant: one stage that failed makes the whole analysis fail.
ConcludeStrictly ==
  /\ container = "up" /\ todo = <<>> /\ outcome = "none"
  /\ outcome' = IF errors = {} THEN "completed" ELSE "failed"
  /\ UNCHANGED <<sample, container, todo, clock, fresh, observed, errors, output, raised>>

Conclude ==
  /\ container = "up" /\ todo = <<>> /\ outcome = "none"
  /\ outcome' = "completed"
  /\ UNCHANGED <<sample, container, todo, clock, fresh, observed, errors, output, raised>>

\* Mutant: the report is written in place.
OpenInPlace ==
  /\ container = "up" /\ outcome # "none" /\ output = "none"
  /\ output' = "part"
  /\ UNCHANGED <<sample, container, todo, clock, fresh, observed, errors, outcome, raised>>

OpenReport ==
  /\ container = "up" /\ outcome # "none" /\ output = "none"
  /\ output' = "tmp"
  /\ UNCHANGED <<sample, container, todo, clock, fresh, observed, errors, outcome, raised>>

Rename ==
  /\ container = "up" /\ output \in {"tmp", "part"}
  /\ output' = "whole"
  /\ UNCHANGED <<sample, container, todo, clock, fresh, observed, errors, outcome, raised>>

Exits ==
  /\ container = "up" /\ output = "whole"
  /\ container' = "exited"
  /\ UNCHANGED <<sample, todo, clock, fresh, observed, errors, outcome, output, raised>>

\* The kernel's OOM killer, or an error in main outside of its try.
Dies ==
  /\ container = "up"
  /\ container' = "died"
  /\ UNCHANGED <<sample, todo, clock, fresh, observed, errors, outcome, output, raised>>

\* Within its limit the step may last until JOB_TIMEOUT.
MayOverrun ==
  \/ At("tool") /\ Wanted /\ clock + Now.limit >= JobTimeout
  \/ At("unpack") /\ unpack # "done" /\ clock + Now.limit >= JobTimeout
  \/ At("execute") /\ run = "running" /\ clock + Now.limit >= JobTimeout
  \/ At("execute") /\ run = "reaping" /\ clock + ReapSeconds >= JobTimeout

\* Mutant: wait without a timeout.
NoTimeout == FALSE /\ UNCHANGED workerVars

\* container.wait(timeout=JOB_TIMEOUT) is over.
Timeout ==
  /\ \/ container = "hung" /\ container' = "killed"
     \/ MayOverrun /\ container' = "overrun"
  /\ clock' = JobTimeout
  /\ UNCHANGED <<sample, todo, fresh, observed, errors, outcome, output, raised>>

WorkerStep ==
  \/ /\ Triaged \/ Scanned \/ Hangs \/ ToolReturns \/ ToolDies \/ NotWanted \/ Raises \/ Executed
        \/ UnpackedAll \/ Conclude \/ OpenReport \/ Rename \/ Exits \/ Dies \/ Timeout
     /\ UNCHANGED <<nativeVars, unpackVars>>
  \/ Executing /\ UNCHANGED unpackVars
  \/ Unpacking /\ UNCHANGED nativeVars

-----------------------------------------------------------------------------
(* Properties.                                                             *)

\* The orchestrator finds observations.json whole or not at all, however and at whatever point
\* the worker ended; and what it finds is of an analysis that came to its end, well or not
\* (entrypoint.py:250).
EvidenceWhole ==
  container \in {"exited", "killed", "overrun", "died"} =>
    /\ output # "part"
    /\ output = "whole" => outcome # "none" /\ todo = <<>>
    /\ container = "exited" => output = "whole"

\* The limits of one route add up to less than JOB_TIMEOUT, so that a job whose Python code
\* is quick has its evidence, unless it is a document or an archive: there the tools alone
\* may take longer, and then the one write at the end never comes.
ToolsFitTheTimeout ==
  container = "overrun" => Family(sample) \in OfficeFamilies \cup ArchiveFamilies

\* What the settings must leave room for: to detonate, before that the two tools on an ELF
\* file, and after that the reaping.
RoomEnough == DetonationSeconds + 20 + 20 + ReapSeconds < JobTimeout

\* With Wine enabled and its image built, a completed analysis of a binary without an error of
\* the detonation has been through execute to its end: the orchestrator, which looks for itself
\* instead of asking triage, gives the Wine image what the worker takes for a PE - except a PE
\* whose header lies beyond the 4096 bytes it reads (orchestrator.py:81-86).  That one is not
\* run, and its report says that PE detonation is disabled.
BinariesAreRun ==
  /\ container = "exited" /\ outcome = "completed" /\ EnableWine
  /\ Family(sample) \in {"pe", "elf"} /\ "pe_detonate" \notin errors
  => run = "returned" \/ sample.content = "mz_far"
=============================================================================
