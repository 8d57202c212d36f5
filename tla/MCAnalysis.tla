----------------------------- MODULE MCAnalysis -----------------------------
(* Instances of Analysis for TLC.                                            *)
EXTENDS Analysis

CONSTANTS p1, p2

TwoProcs == {p1, p2}

AllRules == DOMAIN Rules

\* 0.6 ** r in ten-thousandths.
DecayTable == [r \in 0..Len(Rules) |->
  LET first == <<10000, 6000, 3600, 2160, 1296, 778, 467, 280, 168, 101, 60, 36, 22, 13, 8, 5, 3,
                 2, 1, 1>>
  IN  IF r < Len(first) THEN first[r + 1] ELSE 0]

\* The decay of the code is steep enough.
ASSUME DecayIsSteep == FortyNeverEnough

\* The defaults of the settings leave room for the tools.
ASSUME DefaultsFit == RoomEnough

File(content, ext) == [content |-> content, ext |-> ext, deceptive |-> FALSE]

\* One sample for each route, and names that do not fit.
SomeSamples == {File("ole", "doc"), File("zip_word", "docx"), File("pdf", "pdf"), File("zip_plain", "zip"),
                File("seven_zip", "zip"), File("mz_near", "doc"), File("mz_far", "exe"), File("elf", "exe"),
                File("text_plain", "sh"), File("text_js", "js"), File("text_ps1", "ps1"),
                File("text_plain", "txt"), File("binary", "none")}

SomeCalls == {"execve", "self_exec", "enoent"}

\* An executable one, two or three layers down, or nowhere; an archive that holds itself.
InArchive == {"outer", "mid", "inner", "exe", "doc", "bad"}

SomeLayouts ==
  {[outer |-> <<"inner", "exe">>,   inner |-> <<"doc">>,          mid |-> <<>>],
   [outer |-> <<"doc", "inner">>,   inner |-> <<"exe", "bad">>,   mid |-> <<>>],
   [outer |-> <<"mid">>,            mid |-> <<"doc", "inner">>,   inner |-> <<"exe">>],
   [outer |-> <<"inner", "inner">>, inner |-> <<"inner", "exe">>, mid |-> <<>>],
   [outer |-> <<"inner">>,          inner |-> <<"inner", "doc">>, mid |-> <<>>]}

SomeFeatures == {"macros", "macro_lines", "hot_calls", "hiding_calls", "external_targets",
                 "xlm_macros_indicated", "ip_url", "javascript", "resources",
                 "decoy_names", "child_mismatch", "remote_ip", "process_injection",
                 "base64_blobs", "two_powershell_flags", "high_entropy", "dns_queries"}
=============================================================================
