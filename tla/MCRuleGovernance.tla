--------------------------- MODULE MCRuleGovernance ---------------------------
(***************************************************************************)
(* A script, a registry, a manifest and an archive; two callers.           *)
(***************************************************************************)
EXTENDS RuleGovernance

MCFiles == {"a.js", RegistryFile, Manifest, "pack.zip"}
MCKinds == {"literal", "identifier", "arrow", "binary", "registered", "unregistered", "full", "bare", "locked", "zip", "link",
            "sealed", "huge"}
MCCalls ==
  [k \in MCKinds |->
     CASE k = "literal" -> <<"quoted">> [] k = "identifier" -> <<"name">> [] k = "arrow" -> <<"arrow">> [] OTHER -> << >>]
MCOrder == <<RegistryFile, "a.js", Manifest, "pack.zip">>
MCNamed == {"literal", "identifier", "arrow", "binary"}
MCRegistry ==
  [k \in MCKinds |->
     CASE k = "registered" -> [parses |-> TRUE, declared |-> {"m1"}, loaded |-> {"m1"}]
       [] k = "unregistered" -> [parses |-> TRUE, declared |-> {"m1"}, loaded |-> {"m1", "m2"}]
       [] OTHER -> [parses |-> FALSE, declared |-> {}, loaded |-> {}]]
MCManifestKinds == [k \in {"full", "bare"} |-> IF k = "full" THEN {"host", "menu"} ELSE {}]

Disk(script, registryFile, manifest, archive) ==
  [f \in MCFiles |->
     LET kind == CASE f = "a.js" -> script [] f = RegistryFile -> registryFile [] f = Manifest -> manifest [] OTHER -> archive
     IN IF kind = "absent" THEN Absent ELSE [kind |-> kind, edition |-> 0]]
MCStarts ==
  [audits |-> {Disk("arrow", "registered", "full", "absent"), Disk("arrow", "absent", "absent", "absent"),
               Disk("binary", "registered", "bare", "sealed"), Disk("absent", "absent", "absent", "absent")},
   rules |-> {Disk("arrow", "registered", "absent", "absent")}]
MCWritings ==
  {<<"a.js", "identifier">>, <<"a.js", "absent">>, <<RegistryFile, "unregistered">>, <<Manifest, "locked">>,
   <<"pack.zip", "link">>}
Request(selection, scoped, globs) == [selection |-> selection, scoped |-> scoped, globs |-> globs]
MCRequests ==
  {Request({}, TRUE, TRUE), Request({"blank"}, TRUE, TRUE), Request({"generic", "cep_callback"}, TRUE, FALSE),
   Request({"module_registry", "cep_callback"}, FALSE, TRUE), Request({"cep_callback", "missing"}, TRUE, TRUE),
   Request({"generic", "cep_callback"}, FALSE, TRUE)}

NoRules == [r \in GuardIds |-> NoRule]
MCFirst == ProfileOf(NoRules, "r0", "users")
MCFirstProfiles == {MCFirst}
MCEvidence == {"a.js", RegistryFile}
MCUserProfiles == {MCFirst, ProfileOf([NoRules EXCEPT ![Loaded] = "strict"], "r1", "users")}
MCSymmetry == Permutations(Callers)
=============================================================================
