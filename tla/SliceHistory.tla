------------------------------ MODULE SliceHistory ------------------------------
(***************************************************************************)
(* A guard inspection with a history of what users did to the workspace    *)
(* while it was open.  The fingerprints of callback_vertical_slice.py and  *)
(* module_registry_vertical_slice.py compare contents, so that they cannot *)
(* see what was undone in between: what a slice says is stated for the     *)
(* inspections in which no content came back.                              *)
(***************************************************************************)
EXTENDS GuardEvaluation

VARIABLES
  had,         \* history: the contents each file had since the inspection was opened
  returned     \* history: the files that got back a content they had had since

sliceVars == <<disk, stamp, edits, index, runs, writer, trace, req, had, returned>>

HistoryOpens == /\ had' = [f \in Files |-> {disk[f]}]
                /\ returned' = {}

Changes == {f \in Files : disk'[f] # disk[f]}

HistoryGoes ==
  IF req.pc \in {"idle", "answered"} THEN UNCHANGED <<had, returned>>
  ELSE /\ had' = [f \in Files |-> had[f] \cup {disk'[f]}]
       /\ returned' = returned \cup {f \in Changes : disk'[f] \in had[f]}

SliceInit == Init /\ had = [f \in Files |-> {}] /\ returned = {}

SliceNext ==
  \/ (\E flow \in Flows : Open(flow)) /\ HistoryOpens
  \/ (RequestStep \/ (IndexNext /\ UNCHANGED req)) /\ HistoryGoes

SliceSpec == SliceInit /\ [][SliceNext]_sliceVars

-----------------------------------------------------------------------------
(* Properties *)

\* The verdict of the callback slice on the unchanging workspace w, and the files a
\* PASS or a FAIL refers to.
CallbackReference(w) ==
  LET scanned == Firsts(MaxScanned, Scripts \cap DOMAIN w)
      callers == Firsts(MaxFiles, {f \in scanned : w[f].kind \in Named \ {Huge, Locked}})
      kinds == KindsOf(Restrict(w, callers))
  IN CASE callers = {} -> <<"NOT_APPLICABLE", {}>>
       [] \E f \in callers : w[f].kind \in Binary -> <<"INSUFFICIENT_EVIDENCE", {}>>
       [] OTHER -> IF WithCall(kinds, "invalid") # {} THEN <<"FAIL", WithCall(kinds, "invalid")>>
                   ELSE IF WithCall(kinds, "unresolved") # {} THEN <<"INSUFFICIENT_EVIDENCE", {}>>
                   ELSE IF WithCall(kinds, "valid") # {} THEN <<"PASS", WithCall(kinds, "valid")>>
                   ELSE <<"NOT_APPLICABLE", {}>>

\* The same for the registry slice.
RegistryReference(w) ==
  IF RegistryFile \notin DOMAIN w THEN <<"NOT_APPLICABLE", {}>>
  ELSE LET r == Registry[w[RegistryFile].kind]
       IN IF ~r.parses \/ r.loaded = {} \/ Malformed \in r.loaded THEN <<"INSUFFICIENT_EVIDENCE", {}>>
          ELSE IF ~(r.loaded \subseteq r.declared) THEN <<"FAIL", {RegistryFile}>>
          ELSE IF w[RegistryFile].kind \in {Huge} \cup Binary THEN <<"INSUFFICIENT_EVIDENCE", {}>>
          ELSE <<"PASS", {RegistryFile}>>

\* A file as the first fingerprint saw it; a script that fingerprints leave out, as it was.
Held(f) ==
  IF f \in DOMAIN req.before THEN req.before[f]
  ELSE IF f \in Scripts \cap Excluded(req.flow) THEN CHOOSE content \in had[f] : TRUE ELSE Absent

\* What the fingerprints cannot see did not happen: nothing came back, and no script that
\* they leave out was touched.
Discernible ==
  /\ returned = {}
  /\ \A f \in Scripts \cap Excluded(req.flow) : \E content \in Contents : had[f] = {content}

\* A vertical slice that answers, and could read every file for its fingerprint, says what
\* one look at the fingerprinted workspace would have said, within the limits of the rule,
\* and cites those files with that content, although its phases listed and read the files
\* at different times while users edited them.
SliceExact ==
  req.flow \in Slices /\ req.outcome = "result" /\ Unread \notin Range(req.before) /\ Discernible =>
    LET w == [f \in {g \in Files : Held(g) # Absent} |-> Held(f)]
        said == IF req.flow = "callback" THEN CallbackReference(w) ELSE RegistryReference(w)
    IN /\ req.result.verdict = said[1]
       /\ said[1] \in {"PASS", "FAIL"} => req.result.cited = Restrict(w, said[2])
=============================================================================
