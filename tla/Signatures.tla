----------------------------- MODULE Signatures -----------------------------
(***************************************************************************)
(* The detection rules of signatures.py.  Observations are kept down to    *)
(* the set of features the rules look at; a rule is the features it reads, *)
(* how many of them it needs, and its severity.  What makes a feature true *)
(* (text, regular expressions, entropies) is left to the analyzers.        *)
(***************************************************************************)
EXTENDS Naturals, Sequences, FiniteSets

\* The rule id fires with this severity when `need` of the features are observed.
Rule(id, severity, need, features) ==
  [id |-> id, severity |-> severity, need |-> need, features |-> features]

IdentityRules == <<
  Rule("FILE_EXT_MISMATCH",   45, 1, {"extension_mismatch"}),
  Rule("FILE_NAME_DECEPTION", 55, 1, {"filename_flags"}),
  Rule("DANGEROUS_EXTENSION", 35, 1, {"extension_is_dangerous"}) >>

OfficeRules == <<
  Rule("OFFICE_MACRO_PRESENT",       30, 2, {"macros", "macro_lines"}),
  Rule("OFFICE_MACRO_AUTOEXEC",      55, 1, {"auto_exec"}),
  Rule("OFFICE_MACRO_SHELL",         70, 1, {"hot_calls"}),
  Rule("OFFICE_MACRO_OBFUSCATED",    40, 1, {"hiding_calls", "rebuilt_strings"}),
  Rule("OFFICE_REMOTE_TEMPLATE",     80, 1, {"remote_template"}),
  Rule("OFFICE_EXTERNAL_REL",        35, 1, {"external_targets"}),
  Rule("OFFICE_DDE",                 75, 1, {"dde"}),
  Rule("OFFICE_XLM_MACRO",           50, 1, {"xlm_macros_indicated"}),
  Rule("OFFICE_EMBEDDED_OBJECT",     45, 1, {"embedded_objects"}),
  Rule("OFFICE_EMBEDDED_EXECUTABLE", 75, 1, {"embedded_executables"}) >>

PdfRules == <<
  Rule("PDF_JAVASCRIPT",    45, 1, {"javascript"}),
  Rule("PDF_AUTO_ACTION",   55, 1, {"open_action", "page_actions"}),
  Rule("PDF_LAUNCH_ACTION", 80, 1, {"launch_actions", "launch_keyword"}),
  Rule("PDF_EMBEDDED_FILE", 55, 1, {"embedded_files"}) >>

ArchiveRules == <<
  Rule("ARCHIVE_PASSWORD_PROTECTED", 60, 1, {"password_protected"}),
  Rule("ARCHIVE_DANGEROUS_CONTENT",  60, 1, {"dangerous_entries", "executable_child"}),
  Rule("ARCHIVE_NESTED_EXECUTABLE",  65, 1, {"nested_executable"}),
  Rule("ARCHIVE_DECOY_NAME",         70, 1, {"decoy_names"}),
  Rule("ARCHIVE_TRAVERSAL",          65, 1, {"path_traversal"}),
  Rule("ARCHIVE_BOMB",               40, 1, {"zip_bomb_suspected"}),
  Rule("ARCHIVE_CHILD_MISMATCH",     55, 1, {"child_mismatch", "child_name_flags"}) >>

Capabilities == {"network", "persistence", "process_control", "credential_access", "keylogging"}

PeRules == <<
  Rule("PE_PACKED", 45, 1, {"packer_sections", "dense_section", "import_table_stripped"}),
  Rule("PE_SELF_MODIFYING",      50, 1, {"write_and_execute"}),
  Rule("PE_INJECTION_CAPABLE",   65, 1, {"process_injection"}),
  Rule("PE_ANTI_ANALYSIS",       50, 1, {"anti_analysis"}),
  Rule("PE_CAPABILITY_MIX",      60, 3, Capabilities),
  Rule("PE_EMBEDDED_EXECUTABLE", 65, 1, {"executable_resource", "executable_overlay", "dense_overlay"}),
  Rule("PE_UNSIGNED",            20, 1, {"parsed_unsigned"}),
  Rule("PE_FAKE_TIMESTAMP",      30, 1, {"timestamp_implausible"}) >>

ScriptRules == <<
  Rule("SCRIPT_OBFUSCATED",        50, 1, {"deobfuscated", "single_line", "high_entropy"}),
  Rule("SCRIPT_ENCODED_PAYLOAD",   55, 1, {"base64_blobs"}),
  Rule("SCRIPT_POWERSHELL_ABUSE",  70, 1, {"two_powershell_flags"}),
  Rule("SCRIPT_DROPPER_BEHAVIOUR", 85, 1, {"extracted_urls", "resources"}) >>

DynamicRules == <<
  Rule("DYN_PROCESS_SPAWN",      60, 1, {"processes"}),
  Rule("DYN_LOLBIN",             70, 1, {"lolbins_invoked"}),
  Rule("DYN_NETWORK",            70, 1, {"dns_queries", "http_requests", "connect_attempts"}),
  Rule("DYN_EXFIL_ATTEMPT",      75, 1, {"http_body"}),
  Rule("DYN_PERSISTENCE",        80, 1, {"persistence_paths"}),
  Rule("DYN_DROPPED_EXECUTABLE", 75, 1, {"made_executable"}),
  Rule("DYN_ANON_EXEC",          70, 1, {"anonymous_executables"}),
  Rule("DYN_FILE_DESTRUCTION",   45, 1, {"two_files_deleted"}) >>

IndicatorRules == <<
  Rule("IOC_SUSPICIOUS_TLD", 30, 1, {"bad_tld"}),
  Rule("IOC_RAW_IP_URL",     40, 1, {"ip_url"}),
  Rule("IOC_EXECUTABLE_URL", 55, 1, {"executable_url"}) >>

JarRules == <<
  Rule("JAR_SUSPICIOUS_MANIFEST", 50, 1, {"main_class", "suspicious_class_names", "unsigned_classes"}) >>

HiddenSheetRules == <<
  Rule("OFFICE_XLM_HIDDEN_SHEET", 65, 1, {"xlm_biff8_sheets"}) >>

\* They apply to PE and ELF files only.
BinaryRules == <<
  Rule("IOC_SUSPICIOUS_DOMAIN_IN_BINARY", 45, 2, {"binary_family", "abuse_domain"}),
  Rule("IOC_HARDCODED_IP_IN_BINARY",      40, 2, {"binary_family", "remote_ip"}) >>

\* The order of registration, in which evaluate runs them.
Rules == IdentityRules \o OfficeRules \o PdfRules \o ArchiveRules \o PeRules \o ScriptRules
           \o DynamicRules \o IndicatorRules \o JarRules \o HiddenSheetRules \o BinaryRules

\* Every rule is a pure function of the observations.
Fires(r, seen) == Cardinality(r.features \cap seen) >= r.need

RuleSeverity == [i \in DOMAIN Rules |-> Rules[i].severity]
=============================================================================
