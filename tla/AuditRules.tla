------------------------------- MODULE AuditRules -------------------------------
(***************************************************************************)
(* The rules an audit runs on a workspace that users edit:                 *)
(*   rules/cep.py, rules/generic.py and, with GuardRules,                  *)
(*   rules/cep_callback.py and rules/module_registry.py.                   *)
(* A rule reads its files in one step.  The project has one configured     *)
(* root.  The content of a file is its kind and the edit that wrote it.    *)
(***************************************************************************)
EXTENDS GuardRules

CONSTANTS
  Files, Scripts, Archives,     \* the files; those with a script's, an archive's extension
  ManifestKinds,                \* what the manifest of a kind declares
  DebugKinds,                   \* the kinds whose text has PlayerDebugMode
  Locked, Huge, Link, Sealed,   \* kinds: not to be opened, above max_file_bytes, a symbolic
                                \* link, a directory that cannot be listed
  Writings,                     \* what users write, as pairs
  MaxEdits                      \* edits of the users (a bound)

Absent == [kind |-> "absent", edition |-> 0]

ASSUME WorkspaceAssumption ==
  /\ Writings \subseteq Files \X STRING
  /\ MaxEdits \in Nat

VARIABLES disk, edits

IsFile(f) == f \in Files /\ disk[f] # Absent /\ disk[f].kind # Sealed
Readable(f) == IsFile(f) /\ disk[f].kind # Locked
Kind(f) == disk[f].kind

EditFile(f, kind) ==
  /\ edits < MaxEdits
  /\ disk' = [disk EXCEPT ![f] = IF kind = "absent" THEN Absent ELSE [kind |-> kind, edition |-> edits + 1]]
  /\ edits' = edits + 1

-----------------------------------------------------------------------------
(* What a rule returns *)

Packs == {"generic", "cep", "cep_callback", "module_registry"}

\* Rules in the order of the names of their functions, and in that of their registration.
NameOrder ==
  [generic |-> <<ForbiddenRoots, IndexPresent>>,
   cep |-> <<"cep.debug_mode", "cep.host_version", "cep.manifest_exists", "cep.menubar_extension",
             "cep.no_zip_in_repo", "cep.symlink_free">>,
   cep_callback |-> <<Callback>>, module_registry |-> <<Loaded>>]
IdOrder ==
  [NameOrder EXCEPT !.generic = <<IndexPresent, ForbiddenRoots>>,
                    !.cep = <<"cep.manifest_exists", "cep.host_version", "cep.debug_mode",
                              "cep.no_zip_in_repo", "cep.symlink_free", "cep.menubar_extension">>]

Result(guard, status) == [guard |-> guard, status |-> status, required |-> TRUE, fast |-> FALSE]
Note(guard, status) == [Result(guard, status) EXCEPT !.required = FALSE]
Failure(guard) == [Result(guard, "failed") EXCEPT !.fast = TRUE]

ManifestParses == Readable(Manifest) /\ Kind(Manifest) \in DOMAIN ManifestKinds
ManifestHas(part) == ManifestParses /\ part \in ManifestKinds[Kind(Manifest)]

\* The manifest rules but for the first: absent, unreadable, with or without the part.
ManifestStatus(part) ==
  CASE ~IsFile(Manifest) -> "not_applicable"
    [] IsFile(Manifest) /\ ~ManifestParses -> "blocked"
    [] OTHER -> IF ManifestHas(part) THEN "passed" ELSE "failed"

SymlinkStatus ==
  CASE \E f \in Files : IsFile(f) /\ Kind(f) = Link -> Result("cep.symlink_free", "failed")
    [] (\A f \in Files : Kind(f) # Link) /\ (\E f \in Files : Kind(f) = Sealed) -> Note("cep.symlink_free", "blocked")
    [] OTHER -> Result("cep.symlink_free", "passed")

\* _live_candidates
Scanned == Firsts(MaxScanned, {f \in Scripts : IsFile(f) /\ Kind(f) # Link})
Candidates == Firsts(MaxFiles, {f \in Scanned : Readable(f) /\ Kind(f) # Huge /\ Kind(f) \in Named})

\* A rule that cannot say: it raises GovernanceError.
Raises(guard, scoped) ==
  \/ guard \in {Callback, Loaded} /\ ~scoped                \* no workspace_root
  \/ guard = Callback /\ \E f \in Candidates : Kind(f) \in Binary

\* The result of a rule that does not raise, by its id.
Judged(guard, inventory, globs) ==
  CASE guard = IndexPresent -> Result(guard, IF inventory > 0 THEN "passed" ELSE "failed")
    [] guard = ForbiddenRoots -> Result(guard, IF globs THEN "passed" ELSE "blocked")
    [] guard = "cep.manifest_exists" ->
         Result(guard, IF ManifestStatus("any") = "not_applicable" THEN "failed"
                       ELSE IF ManifestParses THEN "passed" ELSE "blocked")
    [] guard = "cep.host_version" -> Result(guard, ManifestStatus("host"))
    [] guard = "cep.menubar_extension" -> Result(guard, ManifestStatus("menu"))
    [] guard = "cep.debug_mode" ->
         Note(guard, IF \E f \in Files : Readable(f) /\ Kind(f) \in DebugKinds THEN "passed" ELSE "blocked")
    [] guard = "cep.no_zip_in_repo" ->
         Result(guard, IF \E f \in Archives : IsFile(f) THEN "failed" ELSE "passed")
    [] guard = "cep.symlink_free" -> SymlinkStatus
    [] guard = Callback -> Result(guard, CallbackStatus([f \in Candidates |-> Kind(f)]))
    [] guard = Loaded ->
         Result(guard, IF ~IsFile(RegistryFile) THEN "not_applicable"
                       ELSE IF ~Readable(RegistryFile) THEN "blocked" ELSE RegistryStatus(Kind(RegistryFile)))
=============================================================================
