---------------------------- MODULE GuardEvaluation ----------------------------
(***************************************************************************)
(* One guard inspection of a workspace that was indexed before and that    *)
(* users edit meanwhile: GuardRunner.run under                             *)
(*   "callback", "registry"   the vertical slices, which fingerprint the   *)
(*                            workspace before and after,                  *)
(*   "guard_run"              the diagnostic request of the server,        *)
(*   "controller"             the request controller with a reasoning      *)
(*                            backend.                                     *)
(* An inspection only reads, so that one at a time shows what several do.  *)
(* It lists the files of a phase first and reads them one by one.          *)
(***************************************************************************)
EXTENDS WorkspaceIndex, GuardRules

CONSTANTS
  Scripts,        \* the files with a script's extension
  Hidden,         \* the files under .lbe
  About,          \* kinds of content that mention the problem of the request
  Unknown         \* a guard the backend may name and nobody approved

\* The paths are those that Order has, a script's extension is not that of the registry.
ASSUME GuardAssumption ==
  /\ Order \in Seq(Files) /\ Range(Order) = Files
  /\ Scripts \subseteq Files /\ Hidden \subseteq Files /\ RegistryFile \in Hidden \ Scripts

VARIABLE req      \* the inspection

guardVars == <<disk, stamp, edits, index, runs, writer, trace, req>>

Slices == {"callback", "registry"}
Flows == Slices \cup {"guard_run", "controller"}
Unread == NoHash
NoVerdict == [verdict |-> "none", refs |-> {}, cited |-> << >>]
NoPlan == [guards |-> {}, evidence |-> "none", validates |-> FALSE]

Idle ==
  [flow |-> "none", pc |-> "idle", scoped |-> FALSE, guard |-> "none", todo |-> {},
   queue |-> << >>, rows |-> << >>, before |-> << >>, after |-> << >>, signals |-> << >>, found |-> << >>,
   evidence |-> << >>, hits |-> {}, judged |-> << >>, status |-> "none", support |-> {},
   contradicted |-> FALSE, plan |-> NoPlan, complete |-> {}, validated |-> FALSE,
   result |-> NoVerdict, outcome |-> "none"]

Plans ==
  [guards : SUBSET (Foundation \cup {Loaded, Unknown}), evidence : {"bounded"}, validates : {FALSE}]
  \cup [guards : {{ForbiddenRoots}}, evidence : {"none", "tool", "outside"}, validates : BOOLEAN]

\* The row a trace of an untouched file leaves.
TracedRow(f, t) ==
  Row(stamp[f], disk[f].kind = Huge, IF disk[f].kind \in {Huge, Locked} THEN NoHash ELSE disk[f], t)

\* The workspace was indexed by one trace; others may follow.
Init ==
  /\ disk \in FirstDisks /\ stamp = [f \in Files |-> 0] /\ edits = 0 /\ writer = Nobody
  /\ \E t \in Traces :
       /\ index = [f \in {g \in Files : IsFile(g)} |-> TracedRow(f, t)]
       /\ runs = [u \in Traces |-> IF u = t THEN "root_completed" ELSE "none"]
       /\ trace = [u \in Traces |-> IF u = t THEN [Asleep EXCEPT !.pc = "completed"] ELSE Asleep]
  /\ req = Idle

-----------------------------------------------------------------------------
(* The phases *)

Prints == {"print", "reprint"}
Reads == Prints \cup {"profile", "search", "workscan", "weigh", "collect", "scan", "inspect"}

\* A mutant of the next definition: both slices leave .lbe out.
WithoutState(flow) == Hidden

\* The files a fingerprint leaves out; the callback rule scans those among them all the same.
Excluded(flow) == IF flow = "callback" THEN Hidden ELSE {}

\* The files a phase may read.
Scope(r) ==
  CASE r.pc \in Prints -> Files \ Excluded(r.flow)
    [] r.pc = "profile" -> Files \cap Signals
    [] r.pc = "search" -> DOMAIN r.rows
    [] r.pc = "weigh" -> Patterns(Head(r.queue), Files)
    [] r.pc = "collect" -> IF r.guard = Callback THEN Scripts ELSE Patterns(r.guard, Files)
    [] r.pc = "scan" -> Scripts
    [] r.pc = "inspect" -> r.hits
    [] OTHER -> Files

\* A phase begins: the SELECT takes its snapshot, the others list the files there are; the
\* scan opens the first MaxScanned of its list, whether or not they can be read.
Enter(r, phase) ==
  LET s == [r EXCEPT !.pc = phase,
                     !.rows = IF phase = "search" THEN index ELSE @,
                     !.evidence = IF phase \in {"weigh", "collect"} THEN << >> ELSE @]
      files == {f \in Scope(s) : phase \in {"search", "inspect"} \/ IsFile(f)}
  IN [s EXCEPT !.todo = IF phase = "scan" THEN Firsts(MaxScanned, files) ELSE files]

Answer(r, outcome) == [r EXCEPT !.pc = "answered", !.outcome = outcome]

Proceed(r) == req' = r /\ UNCHANGED indexVars

\* The rule of a guard starts after its evidence is there.
RulePhase(r) ==
  CASE r.guard = Callback -> "scan"
    [] r.guard = Loaded -> "read"
    [] OTHER -> "static"

Open(flow) ==
  /\ req.pc = "idle"
  /\ \E scoped \in IF flow = "guard_run" THEN BOOLEAN ELSE {FALSE} :
       LET r == [Idle EXCEPT !.flow = flow, !.scoped = scoped,
                             !.guard = CASE flow = "registry" -> Loaded [] flow = "controller" -> "none" [] OTHER -> Callback]
       IN Proceed(Enter(r, CASE flow \in Slices -> "print" [] flow = "guard_run" -> "search" [] OTHER -> "profile"))

-----------------------------------------------------------------------------
(* Reading one file *)

\* The first of some files in the order of their paths.
First(files) == Order[CHOOSE i \in DOMAIN Order : Order[i] \in files /\ \A j \in 1..(i - 1) : Order[j] \notin files]

Add(function, f, value) == [g \in DOMAIN function \cup {f} |-> IF g = f THEN value ELSE function[g]]
Collapsed(function, value) == \E g \in DOMAIN function : function[g] = value

\* _workspace_fingerprint: the content, or the error of the read.
PrintFile(r, f) ==
  LET seen == IF Readable(f) THEN disk[f] ELSE IF IsFile(f) THEN Unread ELSE Absent
  IN IF r.pc = "print" THEN [r EXCEPT !.before = Add(@, f, seen)] ELSE [r EXCEPT !.after = Add(@, f, seen)]

\* search_workspace: the text is the present one, the hash that of the row; of several
\* results with one hash the first is kept.
SearchFile(r, f) ==
  LET row == r.rows[f]
  IN IF ~row.large /\ Readable(f) /\ disk[f].kind \in About /\ ~(row.hash # NoHash /\ Collapsed(r.found, row.hash))
     THEN [r EXCEPT !.found = Add(@, f, row.hash)] ELSE r

\* _search_current_workspace
ScanFile(r, f) ==
  IF Readable(f) /\ disk[f].kind # Huge /\ disk[f].kind \in About /\ ~Collapsed(r.evidence, disk[f])
  THEN [r EXCEPT !.evidence = Add(@, f, disk[f])] ELSE r

\* _collect_guard_evidence: of any size.
CollectFile(r, f) == IF Readable(f) THEN [r EXCEPT !.evidence = Add(@, f, disk[f])] ELSE r

\* _live_candidates: with the last candidate it wants the scan stops.
CandidateFile(r, f) ==
  LET hits == r.hits \cup {f}
  IN IF Readable(f) /\ disk[f].kind # Huge /\ disk[f].kind \in Named
     THEN [r EXCEPT !.hits = hits, !.todo = IF Cardinality(hits) < MaxFiles THEN @ ELSE {}] ELSE r

\* inspect_file of a candidate: a file that is gone fails the rule, one that is too large
\* or no text blocks it; both without findings.
JudgeFile(r, f) ==
  IF ~Readable(f) THEN [r EXCEPT !.status = "failed", !.todo = {}]
  ELSE IF disk[f].kind \in Binary \cup {Huge} THEN [r EXCEPT !.status = "blocked", !.todo = {}]
  ELSE [r EXCEPT !.judged = Add(@, f, disk[f])]

\* profile: an unreadable signal raises.
SignalFile(r, f) ==
  IF Readable(f) THEN [r EXCEPT !.signals = Add(@, f, disk[f])] ELSE Answer(r, "ORCHESTRATION_ERROR")

ReadOne ==
  LET f == First(req.todo)
      r == [req EXCEPT !.todo = @ \ {f}]
  IN /\ req.pc \in Reads /\ req.todo # {}
     /\ \/ req.pc \in Prints /\ Proceed(PrintFile(r, f))
        \/ req.pc = "profile" /\ Proceed(IF IsFile(f) THEN SignalFile(r, f) ELSE r)
        \/ req.pc = "search" /\ Proceed(SearchFile(r, f))
        \/ req.pc = "workscan" /\ Proceed(ScanFile(r, f))
        \/ req.pc \in {"collect", "weigh"} /\ Proceed(CollectFile(r, f))
        \/ req.pc = "scan" /\ Proceed(CandidateFile(r, f))
        \/ req.pc = "inspect" /\ Proceed(JudgeFile(r, f))

-----------------------------------------------------------------------------
(* Between the phases *)

KindsOf(contents) == [f \in DOMAIN contents |-> contents[f].kind]

\* A mutant of the next definition: one agreeing pair is enough.
AllContradicted(r) ==
  r.scoped /\ \A f \in DOMAIN r.found \cap DOMAIN r.evidence : r.found[f] \notin {NoHash, r.evidence[f]}

\* _detect_contradictions: the hashes of the same file differ, if both items carry the
\* same workspace identity; the index knows only the name of the configured root.
Contradicted(r) ==
  r.scoped /\ \E f \in DOMAIN r.found \cap DOMAIN r.evidence : r.found[f] \notin {NoHash, r.evidence[f]}

\* The package of the diagnostic retrieval; the controller keeps it for the backend only.
PackageBuilt(r) ==
  IF r.flow = "controller" THEN [r EXCEPT !.pc = "plan"]
  ELSE Enter([r EXCEPT !.contradicted = Contradicted(r)], "scan")

Weighed(r) ==
  LET s == [r EXCEPT !.queue = Tail(@), !.complete = IF r.evidence = << >> THEN @ ELSE @ \cup {Head(r.queue)}]
  IN IF s.queue = << >> THEN [s EXCEPT !.pc = "select"] ELSE Enter(s, "weigh")

RuleDone(r, status, support) == [r EXCEPT !.pc = "decide", !.status = status, !.support = support]

Scanned(r) == IF r.hits = {} THEN RuleDone(r, "not_applicable", {}) ELSE Enter(r, "inspect")

Inspected(r) ==
  LET status == CallbackStatus(KindsOf(r.judged))
  IN IF r.status # "none" THEN RuleDone(r, r.status, {})
     ELSE RuleDone(r, status, CallbackSupport(KindsOf(r.judged), status))

\* The second fingerprint is compared with the first.
Reprinted(r) == Answer(r, IF r.before = r.after THEN "result" ELSE "changed")

PhaseDone ==
  /\ req.pc \in Reads /\ req.todo = {}
  /\ \/ req.pc = "print" /\ Proceed(Enter(req, "collect"))
     \/ req.pc = "profile" /\ Proceed(Enter(req, "search"))
     \/ req.pc = "search" /\ Proceed(Enter(req, "workscan"))
     \/ req.pc = "workscan" /\ Proceed(PackageBuilt(req))
     \/ req.pc = "weigh" /\ Proceed(Weighed(req))
     \/ req.pc = "collect" /\ Proceed(Enter(req, RulePhase(req)))
     \/ req.pc = "scan" /\ Proceed(Scanned(req))
     \/ req.pc = "inspect" /\ Proceed(Inspected(req))
     \/ req.pc = "reprint" /\ Proceed(Reprinted(req))

\* The search reports an error of the database or of its report file.
SearchFails == req.pc = "search" /\ Proceed(Answer(req, "raised"))

\* rule_loaded_module_registration
ReadRegistry ==
  /\ req.pc = "read"
  /\ IF ~IsFile(RegistryFile) THEN Proceed(RuleDone(req, "not_applicable", {}))
     ELSE IF ~Readable(RegistryFile) THEN Proceed(RuleDone(req, "blocked", {RegistryFile}))
     ELSE Proceed(RuleDone(req, RegistryStatus(disk[RegistryFile].kind), {RegistryFile}))

\* The rules of the generic pack: the runner passes an empty inventory, and the other
\* asks the configuration only.
StaticRule ==
  /\ req.pc = "static"
  /\ \/ req.guard = IndexPresent /\ Proceed(RuleDone(req, "failed", {}))
     \/ req.guard = ForbiddenRoots /\ \E status \in {"passed", "blocked"} : Proceed(RuleDone(req, status, {}))

-----------------------------------------------------------------------------
(* The verdict *)

\* _scope_workspace_evidence: without findings that name files all evidence stays.  The
\* runner of the controller looks for callback findings only.
Supporting(r) == IF r.flow = "controller" THEN {} ELSE r.support
ScopedFiles(r) ==
  IF Supporting(r) = {} THEN DOMAIN r.evidence ELSE DOMAIN r.evidence \cap Supporting(r)

\* _run_validation: the first supporting file is read again, for the query of the request.
Corroborates(r, f) ==
  /\ InspectFile(f).got = "content" /\ disk[f].kind \notin Binary
  /\ \/ r.flow = "registry"
     \/ r.flow = "callback" /\ disk[f].kind \in Named
     \/ r.flow \notin Slices /\ disk[f].kind \in About

Close(r) ==
  CASE r.flow \in Slices -> Enter(r, "reprint")
    [] r.flow = "controller" -> [r EXCEPT !.pc = "explain"]
    [] OTHER -> Answer(r, "result")

Decide ==
  LET files == ScopedFiles(req)
      validated == files # {} /\ Corroborates(req, First(files))
      r == [req EXCEPT !.validated = validated,
              !.result = [verdict |-> Verdict(req.guard, req.status, files, validated, req.contradicted),
                          refs |-> files, cited |-> Restrict(req.evidence, files)]]
  IN /\ req.pc = "decide"
     /\ Proceed(IF req.status = "failed" THEN [r EXCEPT !.pc = "investigate"] ELSE Close(r))

\* After a failure another package is added to the response, or raises.
Investigate ==
  /\ req.pc = "investigate"
  /\ Proceed(Close(req)) \/ Proceed(Answer(req, "raised"))

-----------------------------------------------------------------------------
(* The request controller *)

BackendPlans ==
  /\ req.pc = "plan"
  /\ \E plan \in Plans :
       LET approved == Approved(DOMAIN req.signals)
           r == [req EXCEPT !.plan = plan]
       IN CASE PlanError(plan, approved) # "none" -> Proceed(Answer(req, PlanError(plan, approved)))
            [] PlanError(plan, approved) = "none" /\ plan.guards = {} -> Proceed(Answer(r, "NO_GUARD_SELECTED"))
            [] OTHER -> Proceed(Enter([r EXCEPT !.queue = SetToSeq(plan.guards)], "weigh"))

Select ==
  LET stop == SelectionStop(req.plan.guards, req.complete, Approved(DOMAIN req.signals))
  IN /\ req.pc = "select"
     /\ IF stop # "none" THEN Proceed(Answer(req, stop))
        ELSE Proceed(Enter([req EXCEPT !.guard = CHOOSE g \in req.complete : TRUE], "collect"))

Explain ==
  /\ req.pc = "explain"
  /\ Proceed(Answer(req, "COMPLETED")) \/ Proceed(Answer(req, "EXPLANATION_FAILED"))

BackendRaises == req.pc = "plan" /\ Proceed(Answer(req, "ORCHESTRATION_ERROR"))

-----------------------------------------------------------------------------
RequestStep ==
  \/ ReadOne \/ PhaseDone \/ SearchFails \/ ReadRegistry \/ StaticRule \/ Decide \/ Investigate
  \/ BackendPlans \/ BackendRaises \/ Select \/ Explain

Next ==
  \/ \E flow \in Flows : Open(flow)
  \/ RequestStep
  \/ IndexNext /\ UNCHANGED req

Spec == Init /\ [][Next]_guardVars

-----------------------------------------------------------------------------
(* Properties *)

Outcomes ==
  {"none", "raised", "changed", "result", "COMPLETED", "EXPLANATION_FAILED", "ORCHESTRATION_ERROR",
   "UNKNOWN_GUARD", "MODEL_VALIDATION_REQUEST_FORBIDDEN", "UNKNOWN_TOOL", "OUT_OF_WORKSPACE_PATH",
   "MISSING_EVIDENCE_REQUEST", "NO_GUARD_SELECTED", "INSUFFICIENT_EVIDENCE", "AMBIGUOUS_GUARD_SELECTION"}

\* Types of the state, and a verdict is a PASS or a FAIL only with files it refers to,
\* each with the content it was read with.
TypeOK ==
  /\ IndexTypeOK
  /\ req.flow \in Flows \cup {"none"} /\ req.outcome \in Outcomes
  /\ req.result.verdict \in {"none", "PASS", "FAIL", "NOT_APPLICABLE", "INSUFFICIENT_EVIDENCE"}
  /\ req.result.refs = DOMAIN req.result.cited
  /\ req.result.verdict \in {"PASS", "FAIL"} => req.result.refs # {} /\ req.guard # IndexPresent

\* A diagnostic inspection under the identity that the index uses passes no file whose
\* retrieved index row has another hash than the content it cites.
ContradictionWithholds ==
  req.flow = "guard_run" /\ req.scoped /\ req.result.verdict = "PASS" =>
    \A f \in req.result.refs \cap DOMAIN req.found : req.found[f] \in {NoHash, req.result.cited[f]}
=============================================================================
