------------------------------ MODULE ModePolicy ------------------------------
(***************************************************************************)
(* The policy a tool request is judged by, as pure operators:              *)
(*   behavior/contracts.py            behaviors, modes and intents,        *)
(*   runtime/mode_controller.py       intent, permission, policy -> mode   *)
(*                                    and capabilities,                    *)
(*   runtime/authorization_resolver.py  ALLOW, DENY or ESCALATE.           *)
(* Tuples whose order no caller uses are sets.                             *)
(***************************************************************************)
EXTENDS FiniteSets

Permissions == {"read_only", "write_allowed", "audit_only", "elevated"}
RuntimePolicies == {"audit", "development", "strict", "permissive"}
Modes == {"coding", "audit", "investigation"}

Contract(modes, allowed, forbidden) ==
  [modes |-> modes, allowed |-> allowed, forbidden |-> forbidden]
Both == {"audit", "development"}

\* BEHAVIOR_CONTRACTS: the modes and the actions of each public behavior.
EvidenceContracts ==
  [require_current_workspace_evidence |->
     Contract(Both, {"inspect", "search", "compare", "verify"},
       {"assume_from_history", "assume_from_reference", "assume_from_index", "extrapolate_from_past"}),
   validation_before_acceptance |->
     Contract(Both, {"validate", "verify", "corroborate", "cross_check"},
       {"accept_unvalidated", "skip_validation", "self_validate", "assume_correctness"}),
   evidence_boundary_enforcement |->
     Contract(Both, {"reference_inform", "workspace_prove", "guard_detect", "validation_confirm"},
       {"reference_prove", "assume_guard_result", "skip_validation", "collapse_layers"})]
ModeContracts ==
  [audit_mode_constraints |->
     Contract({"audit"}, {"inspect", "collect_evidence", "run_existing_guards", "report_findings", "register_finding"},
       {"modify", "propose_rules", "promote_memory", "execute_changes", "create_guards", "bypass_guards"}),
   development_mode_capabilities |->
     Contract({"development"}, {"discover", "propose", "test_candidate", "validate_proposal", "promote_after_validation"},
       {"bypass_validation", "assume_correctness", "skip_evidence", "promote_without_proof"})]
ReviewContracts ==
  [finding_review_required |->
     Contract(Both, {"record_finding", "request_review", "verify_against_current", "categorize_finding"},
       {"auto_promote_finding", "create_guard_from_finding", "assume_finding_is_truth", "skip_review"}),
   memory_is_historical_context |->
     Contract(Both, {"read_memory", "use_as_context", "correlate_with_current"},
       {"treat_memory_as_truth", "override_workspace_with_memory", "promote_without_validation"}),
   use_only_approved_guards |->
     Contract(Both, {"list_approved_guards", "execute_approved_guard", "request_guard_execution"},
       {"invent_guard", "select_unapproved_guard", "bypass_catalog", "modify_guard_behavior"}),
   proposed_rules_require_validation |->
     Contract({"development"}, {"propose_rule", "test_proposal", "validate_proposal", "submit_for_approval"},
       {"auto_approve_proposal", "skip_proposal_validation", "promote_unvalidated_rule"})]

Behaviors == DOMAIN EvidenceContracts \cup DOMAIN ModeContracts \cup DOMAIN ReviewContracts
BehaviorContract(b) ==
  IF b \in DOMAIN EvidenceContracts THEN EvidenceContracts[b]
  ELSE IF b \in DOMAIN ModeContracts THEN ModeContracts[b]
  ELSE ReviewContracts[b]

\* MODE_BEHAVIOR_MAP
BehaviorsForMode(m) ==
  IF m = "audit"
  THEN Behaviors \ {"development_mode_capabilities", "proposed_rules_require_validation"}
  ELSE Behaviors \ {"audit_mode_constraints"}

\* INTENT_BEHAVIOR_MAP
IntentBehaviors ==
  [inspect_workspace |-> {"require_current_workspace_evidence", "evidence_boundary_enforcement", "use_only_approved_guards"},
   verify_compliance |-> {"require_current_workspace_evidence", "validation_before_acceptance", "use_only_approved_guards"},
   audit_workspace |-> {"require_current_workspace_evidence", "evidence_boundary_enforcement",
                        "audit_mode_constraints", "finding_review_required", "use_only_approved_guards"},
   check_finding |-> {"finding_review_required", "require_current_workspace_evidence", "validation_before_acceptance"},
   review_memory |-> {"memory_is_historical_context", "require_current_workspace_evidence"},
   fix_issue |-> {"development_mode_capabilities", "require_current_workspace_evidence",
                  "validation_before_acceptance", "proposed_rules_require_validation"},
   propose_rule |-> {"proposed_rules_require_validation", "development_mode_capabilities", "validation_before_acceptance"},
   discover_patterns |-> {"development_mode_capabilities", "require_current_workspace_evidence", "evidence_boundary_enforcement"},
   test_candidate |-> {"development_mode_capabilities", "validation_before_acceptance", "require_current_workspace_evidence"}]

InvestigationIntents == {"investigate_issue", "diagnose_failure", "trace_failure", "investigate_guard_failure"}
AuditIntents == {"audit_workspace", "check_finding", "review_memory", "inspect_workspace", "verify_compliance"}
Intents == DOMAIN IntentBehaviors \cup InvestigationIntents

PermissionMode(permission) ==
  IF permission \in {"write_allowed", "elevated"} THEN "coding" ELSE "audit"

\* _resolve_mode: a policy that names a mode forces it, whatever the permission.
EffectiveMode(intent, permission, policy) ==
  CASE policy \in {"audit", "strict"} -> "audit"
    [] policy = "development" -> "coding"
    [] policy = "permissive" /\ intent \in InvestigationIntents -> "investigation"
    [] policy = "permissive" /\ intent \in AuditIntents -> "audit"
    [] OTHER -> PermissionMode(permission)

WriteCapabilities ==
  {"modify", "propose", "test_candidate", "promote_after_validation", "propose_rule", "test_proposal", "submit_for_approval"}

\* _resolve_capabilities: the table behavior_caps is that of the contracts
\* without run_existing_guards.
Capabilities(mode, behaviors) ==
  LET granted == UNION {BehaviorContract(b).allowed : b \in behaviors} \ {"run_existing_guards"}
  IN  IF mode = "coding" THEN granted ELSE granted \ WriteCapabilities

BehaviorMode(mode) == IF mode = "coding" THEN "development" ELSE "audit"

\* resolve_mode: the behaviors of the intent that the mode allows, or all the
\* behaviors of the mode when the intent is unknown.
ResolveMode(intent, permission, policy) ==
  LET mode == EffectiveMode(intent, permission, policy)
      possible == BehaviorsForMode(BehaviorMode(mode))
      behaviors == IF intent \in DOMAIN IntentBehaviors
                   THEN IntentBehaviors[intent] \cap possible ELSE possible
  IN  [mode |-> mode, behaviors |-> behaviors, capabilities |-> Capabilities(mode, behaviors)]

Verdicts == {"ALLOW", "DENY", "ESCALATE"}
Circumstances ==
  {"explicitly_forbidden", "outside_workspace_scope", "intent_scope_conflict",
   "destructive_unauthorized", "persistent_policy_unauthorized"}

\* resolve_authorization.  The four conditions asked after the capability escalate,
\* as a missing capability does.
ResolveAuthorization(decision, circumstances, capability) ==
  IF "explicitly_forbidden" \in circumstances THEN "DENY"
  ELSE IF capability \notin decision.capabilities \/ circumstances # {} THEN "ESCALATE"
  ELSE "ALLOW"
=============================================================================
