------------------------------ MODULE GuardRules ------------------------------
(***************************************************************************)
(* The deterministic part of a guard inspection, as pure operators:        *)
(*   rules/cep_callback.py, rules/module_registry.py   rule statuses,      *)
(*   guard_inspector.py        from a rule status to a verdict,            *)
(*   guard_catalog.py, project_profiler.py   the guards of a workspace,    *)
(*   reasoning_planner.py, reasoning_guard_planner.py   the choice of one, *)
(*   request_controller.py     the check of a reasoning plan.              *)
(* Source text is abstract: a file has one of finitely many kinds of       *)
(* content, and Calls and Registry say what a rule reads in each.          *)
(***************************************************************************)
EXTENDS Naturals, FiniteSets, Sequences, SequencesExt

CONSTANTS
  Order,       \* the files, in the order of their paths
  Calls,       \* the second arguments of the evalScript calls of a kind, in the order of the text
  Named,       \* the kinds whose text has the word evalScript
  Binary,      \* of them, those that are not UTF-8
  Registry,    \* what a module registry of a kind declares and received
  MaxScanned, MaxFiles, MaxFindings   \* _MAX_SCANNED_FILES, _MAX_FILES, _MAX_FINDINGS

ASSUME LimitAssumption == {MaxScanned, MaxFiles, MaxFindings} \subseteq Nat \ {0}

Callback == "cep.callback_contract"
Loaded == "module_registry.loaded_module_registration"
IndexPresent == "generic.index_present"
ForbiddenRoots == "generic.forbidden_roots"

-----------------------------------------------------------------------------
(* The callback rule *)

Before(g, f) == \E i \in DOMAIN Order : Order[i] = g /\ \A j \in 1..i : Order[j] # f
Firsts(n, files) == {f \in files : Cardinality({g \in files : Before(g, f)}) < n}

\* The class of a call by the shape of its second argument.
CallClass(argument) ==
  CASE argument \in {"literal", "number", "quoted", "object"} -> "invalid"
    [] argument \in {"none", "function", "arrow"} -> "valid"
    [] OTHER -> "unresolved"                \* an identifier, or a missing argument

\* _extract_evalscript_calls: the calls of the inspected files, each by file and number.
Extracted(kinds) ==
  UNION {{f} \X {i \in DOMAIN Calls[kinds[f]] : i <= MaxFindings} : f \in DOMAIN kinds}
CallsBefore(kinds, f) == Cardinality({c \in Extracted(kinds) : Before(c[1], f)})

\* A call with a second argument that brings the findings to the limit is the last of its
\* file; the next file is inspected all the same.  Counting the calls ahead counts the
\* findings, as calls are left out only above the limit.
Findings(kinds) ==
  {c \in Extracted(kinds) :
     \A i \in 1..(c[2] - 1) : Calls[kinds[c[1]]][i] # "none" => CallsBefore(kinds, c[1]) + i < MaxFindings}

WithCall(kinds, class) ==
  {f \in DOMAIN kinds : \E c \in Findings(kinds) : c[1] = f /\ CallClass(Calls[kinds[f]][c[2]]) = class}

\* kinds: the inspected files.  The first class that occurs decides.
CallbackStatus(kinds) ==
  CASE WithCall(kinds, "invalid") # {} -> "failed"
    [] WithCall(kinds, "invalid") = {} /\ WithCall(kinds, "unresolved") # {} -> "blocked"
    [] WithCall(kinds, "invalid") \cup WithCall(kinds, "unresolved") = {}
       /\ WithCall(kinds, "valid") # {} -> "passed"
    [] OTHER -> "not_applicable"

CallbackSupport(kinds, status) ==
  CASE status = "failed" -> WithCall(kinds, "invalid")
    [] status = "blocked" -> WithCall(kinds, "unresolved")
    [] status = "passed" -> WithCall(kinds, "valid")
    [] OTHER -> {}

-----------------------------------------------------------------------------
(* The registry rule *)

Malformed == "malformed"

\* A registry is unparsable or has the declared modules and the loaded receipts.
RegistryStatus(kind) ==
  LET r == Registry[kind]
  IN CASE ~r.parses \/ Malformed \in r.loaded \/ r.loaded = {} -> "blocked"
       [] r.parses /\ Malformed \notin r.loaded /\ r.loaded \ r.declared # {} -> "failed"
       [] OTHER -> "passed"

-----------------------------------------------------------------------------
(* From the rule to the verdict *)

IndexOnly == {IndexPresent}

\* A mutant of the next definition: a result without evidence is promoted.
VerdictByStatus(guard, status, refs, validated, contradicted) ==
  CASE status = "not_applicable" -> "NOT_APPLICABLE"
    [] status = "failed" /\ guard \notin IndexOnly -> "FAIL"
    [] status = "passed" /\ guard \notin IndexOnly /\ ~contradicted /\ validated -> "PASS"
    [] OTHER -> "INSUFFICIENT_EVIDENCE"

\* _enforce_policy
Verdict(guard, status, refs, validated, contradicted) ==
  CASE status = "not_applicable" -> "NOT_APPLICABLE"
    [] status = "failed" /\ guard \notin IndexOnly /\ refs # {} -> "FAIL"
    [] status = "passed" /\ guard \notin IndexOnly /\ refs # {} /\ ~contradicted /\ validated -> "PASS"
    [] OTHER -> "INSUFFICIENT_EVIDENCE"

-----------------------------------------------------------------------------
(* The guards of a workspace *)

RegistryFile == ".lbe/module-registry.json"
Manifest == "CSXS/manifest.xml"
Foundation == {IndexPresent, ForbiddenRoots}
ManifestGuards == {"cep.manifest_exists", "cep.host_version", "cep.menubar_extension", "cep.debug_mode"}
CepGuards == ManifestGuards \cup {"cep.no_zip_in_repo", "cep.symlink_free"}
Signals == {"package.json", "pyproject.toml", Manifest, RegistryFile}

\* profile and select_guard_catalog: the foundation, and a pack for each signal.
Approved(signals) ==
  Foundation \cup (IF Manifest \in signals THEN CepGuards ELSE {})
             \cup (IF RegistryFile \in signals THEN {Loaded} ELSE {})

\* evidence_contract_for_guard: the files among files a guard is judged by.  Archives
\* are not among the default extensions, so cep.no_zip_in_repo never has evidence.
Patterns(guard, files) ==
  CASE guard = IndexPresent -> files \cap {"pyproject.toml", "package.json", "README.md"}
    [] guard = ForbiddenRoots -> files \cap {"governance.json", "pyproject.toml", "package.json"}
    [] guard = Loaded -> files \cap {RegistryFile}
    [] guard \in ManifestGuards -> files \cap {Manifest}
    [] guard = "cep.symlink_free" -> files
    [] OTHER -> {}

\* _validate_plan: the error code, or "none".
PlanError(plan, approved) ==
  CASE plan.guards \ approved # {} -> "UNKNOWN_GUARD"
    [] plan.guards \subseteq approved /\ plan.validates -> "MODEL_VALIDATION_REQUEST_FORBIDDEN"
    [] plan.guards \subseteq approved /\ ~plan.validates /\ plan.evidence = "tool" -> "UNKNOWN_TOOL"
    [] plan.guards \subseteq approved /\ ~plan.validates /\ plan.evidence = "outside" -> "OUT_OF_WORKSPACE_PATH"
    [] plan.guards \subseteq approved /\ ~plan.validates /\ plan.evidence = "none" /\ plan.guards # {} ->
         "MISSING_EVIDENCE_REQUEST"
    [] OTHER -> "none"

\* GuardPlanner.select: exactly one candidate whose evidence is complete.
SelectionStop(candidates, complete, approved) ==
  CASE candidates \ approved # {} -> "UNKNOWN_GUARD"
    [] candidates = {} -> "NO_GUARD_SELECTED"
    [] candidates # {} /\ candidates \subseteq approved /\ complete = {} -> "INSUFFICIENT_EVIDENCE"
    [] candidates \subseteq approved /\ Cardinality(complete) > 1 -> "AMBIGUOUS_GUARD_SELECTION"
    [] OTHER -> "none"
=============================================================================
