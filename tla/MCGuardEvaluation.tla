--------------------------- MODULE MCGuardEvaluation ---------------------------
(***************************************************************************)
(* Four scripts, one of them under .lbe, a module registry and a package   *)
(* file; one inspection after one trace of the workspace.                  *)
(***************************************************************************)
EXTENDS SliceHistory

MCOrder == <<".lbe/hook.js", RegistryFile, "a.js", "b.js", "c.js", "package.json">>
MCScripts == {".lbe/hook.js", "a.js", "b.js", "c.js"}
MCHidden == {".lbe/hook.js", RegistryFile}
MCRoots == <<Range(MCOrder)>>
ScriptKinds == {"inline", "literal", "identifier", "binary", "plain"}
RegistryKinds == {"registered", "unregistered", "receiptless"}
MCKinds == ScriptKinds \cup RegistryKinds \cup {"huge", "locked", "meta"}
MCCalls ==
  [k \in MCKinds |->
     CASE k = "inline" -> <<"function", "none">> [] k = "literal" -> <<"arrow", "quoted">>
       [] k = "identifier" -> <<"name">> [] OTHER -> << >>]
MCNamed == {"inline", "literal", "identifier", "binary"}
MCAbout == {"inline", "literal", "registered", "meta"}
Data(declared, loaded) == [parses |-> TRUE, declared |-> declared, loaded |-> loaded]
MCRegistry ==
  [k \in MCKinds |->
     CASE k \in {"registered", "huge"} -> Data({"m1"}, {"m1"}) [] k = "unregistered" -> Data({"m1"}, {"m1", "m2"})
       [] k = "receiptless" -> Data({"m1"}, {}) [] OTHER -> [Data({}, {}) EXCEPT !.parses = FALSE]]

Text(kind) == [kind |-> kind, edition |-> 0]
Disk(hook, registry, a, b, c, package) ==
  [f \in Files |->
     Text(CASE f = ".lbe/hook.js" -> hook [] f = RegistryFile -> registry [] f = "a.js" -> a [] f = "b.js" -> b
            [] f = "c.js" -> c [] OTHER -> package)]
MCFirstDisks ==
  {Disk("absent", "absent", "inline", "inline", "absent", "absent"),
   Disk("plain", "registered", "plain", "literal", "literal", "meta"),
   Disk("absent", "receiptless", "binary", "huge", "absent", "locked"),
   Disk("inline", "huge", "identifier", "absent", "inline", "absent")}
MCWritings ==
  {<<"a.js", Text("literal")>>, <<"a.js", Text("inline")>>, <<"b.js", Text("identifier")>>, <<"b.js", Text("locked")>>,
   <<".lbe/hook.js", Text("literal")>>, <<RegistryFile, Text("registered")>>, <<RegistryFile, Text("unregistered")>>}
=============================================================================
