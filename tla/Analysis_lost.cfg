SPECIFICATION Spec
CONSTANTS
  p1 = p1
  p2 = p2
  Procs <- TwoProcs
  Calls <- SomeCalls
  MaxCalls = 2
  MaxTraceLines = 2
  Entries <- InArchive
  Executable = {"exe"}
  Archives = {"outer", "mid", "inner"}
  Unreadable = {"bad"}
  Outer = "outer"
  Layouts <- SomeLayouts
  MaxDepth = 3
  ChildCap = 6
  Samples <- SomeSamples
  EnableWine = TRUE
  Shown <- SomeFeatures
  DetonationSeconds = 45
  JobTimeout = 180
  MaxRaises = 1
  Findings <- AllRules
  Severity <- RuleSeverity
  Decay <- DecayTable
  MaxRuleErrors = 1
INVARIANT EvidenceWrittenAsFound
CHECK_DEADLOCK FALSE
