------------------------------- MODULE Triage -------------------------------
(***************************************************************************)
(* What a file is taken for: by the worker (triage.triage), and before     *)
(* that by the orchestrator, which chooses the image (_peek_family,        *)
(* _select_image).  Contents and extensions are representatives, one of    *)
(* each class that either of them tells apart.                             *)
(***************************************************************************)

\* MAGIC, the inside of a ZIP container and what the text of a script looks like.  "mz_near"
\* has its PE signature within the first 4096 bytes; "mz_far" further on or not at all.
Recognised ==
  [mz_near |-> "pe", mz_far |-> "pe", elf |-> "elf", pdf |-> "pdf", ole |-> "ole", rtf |-> "rtf",
   rar |-> "rar", seven_zip |-> "7z", gzip |-> "gzip", iso |-> "iso", lnk |-> "lnk",
   zip_word |-> "ooxml_word", zip_excel |-> "ooxml_excel", zip_jar |-> "jar", zip_plain |-> "zip",
   text_js |-> "js", text_vbs |-> "vbs", text_ps1 |-> "ps1", text_py |-> "py", text_sh |-> "sh",
   text_plain |-> "text", binary |-> "unknown"]

Contents == DOMAIN Recognised

\* SCRIPT_EXTS, OFFICE_EXTS, PE_EXTS, DANGEROUS_EXTS; "none" is a name without an extension.
ScriptExt == [js |-> "js", vbs |-> "vbs", hta |-> "hta", ps1 |-> "ps1", sh |-> "sh", py |-> "py",
              pl |-> "pl", jar |-> "jar", lnk |-> "lnk"]

OfficeExts == {"doc", "docx", "xls", "rtf"}

DangerousExts == {"exe"} \cup DOMAIN ScriptExt

Extensions == DangerousExts \cup OfficeExts \cup {"none", "pdf", "msg", "zip", "elf", "txt"}

\* The extension has a say only where the content leaves the question open.
FamilyOf(content, ext) ==
  CASE content = "text_plain" /\ ext \in DOMAIN ScriptExt    -> ScriptExt[ext]
    [] content = "ole" /\ ext = "msg"                        -> "msg"
    [] content = "ole" /\ ext \in OfficeExts \cup {"none"}   -> "ole_office"
    [] OTHER                                                 -> Recognised[content]

\* The extensions a family goes by; any is good for a family that is not listed.
ExpectedExts(family) ==
  CASE family = "pe"                                     -> {"exe"}
    [] family = "elf"                                    -> {"elf", "none"}
    [] family \in {"pdf", "msg"}                         -> {family}
    [] family = "ole_office"                             -> OfficeExts
    [] family = "ooxml_word"                             -> {"doc", "docx"}
    [] family = "ooxml_excel"                            -> {"xls"}
    [] family \in {"zip", "rar", "7z", "gzip", "iso"}    -> {"zip"}
    [] OTHER                                             -> Extensions

\* What the report says of the name; `deceptive` stands for filename_flags.
FileFeatures(content, ext, deceptive) ==
  LET family == FamilyOf(content, ext)
  IN  (IF ext \notin ExpectedExts(family) \cup {"none"} THEN {"extension_mismatch"} ELSE {})
        \cup (IF ext \in DangerousExts THEN {"extension_is_dangerous"} ELSE {})
        \cup (IF deceptive THEN {"filename_flags"} ELSE {})
        \cup (IF family \in {"pe", "elf"} THEN {"binary_family"} ELSE {})

\* Mutant: the image is chosen by the name.
PeekByName(content, ext) == IF ext = "exe" THEN "pe" ELSE ""

\* _peek_family: a PE signature within the first 4096 bytes.
PeekFamily(content, ext) == IF content = "mz_near" THEN "pe" ELSE ""

\* _select_image: the Wine image when it is enabled and built.
Image(content, ext, wine) ==
  IF wine /\ PeekFamily(content, ext) = "pe" THEN "worker-wine" ELSE "worker"
=============================================================================
