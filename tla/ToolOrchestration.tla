--------------------------- MODULE ToolOrchestration ---------------------------
(***************************************************************************)
(* runtime/tool_orchestration.py and the tool handlers of                  *)
(* runtime/governed_coding.py: a request is answered by the stored receipt *)
(* of its operation identity, or refused, or handed to the registered      *)
(* handler, and every outcome is remembered under the identity.            *)
(*                                                                         *)
(* The workspace belongs to its users as well: they create and remove      *)
(* files between any two steps of a handler.                               *)
(***************************************************************************)
EXTENDS ModePolicy, Naturals

CONSTANTS
  Runs,            \* the turn identities controller.run draws (a bound)
  Calls,           \* tool call identities the provider chooses
  Paths,           \* the paths requests name
  WritablePaths,   \* those the governance file allows for writing
  Requests,        \* what a tool call may ask for
  Circumstances0,  \* the sets of circumstances a context may state
  Nobody, User,    \* who made what is at a path, if no operation did
  MaxEdits         \* what the users of the workspace may do (a bound)

ToolCapability == [read |-> "inspect", create |-> "test_candidate"]

ASSUME OrchestrationAssumption ==
  /\ WritablePaths \subseteq Paths
  /\ \A r \in Requests : /\ r.tool \in {"read", "create"}
                         /\ r.path \in Paths
                         /\ r.valid \in BOOLEAN
  /\ Circumstances0 \subseteq SUBSET Circumstances
  /\ Nobody # User /\ Nobody \notin Runs \X Calls /\ User \notin Runs \X Calls
  /\ MaxEdits \in Nat

VARIABLES
  context,     \* the ToolExecutionContext: mode decision and circumstances
  receipts,    \* per operation: its receipt
  owner,       \* per path: who made the file that is there
  granted,     \* history, per operation: the request its handler was called with
  made,        \* history, per operation: its handler opened a new file
  torn,        \* history: operations whose handler raised after opening the file
  edits        \* number of steps of the users

orchestration == <<context, receipts, owner, granted, made, torn, edits>>

Operations == Runs \X Calls
Statuses == {"EXECUTED", "FAILED", "DENIED", "ESCALATED"}
NoReceipt == [status |-> "none", tool |-> "none"]
NoRequest == [tool |-> "none", path |-> "none", valid |-> FALSE]

\* The controller is made only for a session whose mode resolves to coding.
OrchestrationInit ==
  /\ \E permission \in Permissions, policy \in RuntimePolicies, c \in Circumstances0 :
       context = [decision |-> ResolveMode("fix_issue", permission, policy), circumstances |-> c]
  /\ receipts = [o \in Operations |-> NoReceipt]
  /\ owner \in [Paths -> {Nobody, User}]
  /\ granted = [o \in Operations |-> NoRequest]
  /\ made = [o \in Operations |-> FALSE]
  /\ torn = {}
  /\ edits = 0

Answered(o) == receipts[o] # NoReceipt

\* _remember
Remember(o, tool, status) ==
  receipts' = [receipts EXCEPT ![o] = [status |-> status, tool |-> tool]]

\* A mutant of the next definition: the verdict is stored for the status.
RefusalByVerdict(r) ==
  LET verdict == ResolveAuthorization(context.decision, context.circumstances, ToolCapability[r.tool])
  IN  IF ~r.valid THEN "FAILED" ELSE IF verdict = "ALLOW" THEN "none" ELSE verdict

\* What the request gets without a call of its handler, "none" if it is called:
\* invalid arguments before authorization, DENY and ESCALATE after it.
Refusal(r) ==
  LET verdict == ResolveAuthorization(context.decision, context.circumstances, ToolCapability[r.tool])
  IN  IF ~r.valid THEN "FAILED"
      ELSE IF verdict = "DENY" THEN "DENIED"
      ELSE IF verdict = "ESCALATE" THEN "ESCALATED"
      ELSE "none"

\* GovernedToolOrchestrator.invoke up to the call of the handler.
Refuse(o, r) ==
  /\ ~Answered(o) /\ Refusal(r) # "none"
  /\ Remember(o, r.tool, Refusal(r))
  /\ UNCHANGED <<context, owner, granted, made, torn, edits>>

CallHandler(o, r) ==
  /\ ~Answered(o) /\ Refusal(r) = "none"
  /\ granted' = [granted EXCEPT ![o] = r]
  /\ UNCHANGED <<context, receipts, owner, made, torn, edits>>

\* A handler returns its result, or raises.  The read handler may do either.
ReturnFrom(o, tool, status) ==
  /\ Remember(o, tool, status)
  /\ UNCHANGED <<context, owner, granted, made, torn, edits>>

\* The create handler up to the open: a path the governance forbids, a
\* missing parent directory or a file that exists raises.
CreateChecks(p) == p \in WritablePaths /\ owner[p] = Nobody

\* A mutant of the next definition: open(..., "wb"), which truncates a file that is there.
OpenForWriting(o, p) ==
  /\ owner' = [owner EXCEPT ![p] = o]
  /\ made' = [made EXCEPT ![o] = TRUE]
  /\ UNCHANGED <<context, receipts, granted, torn, edits>>

\* candidate.open("xb")
OpenExclusive(o, p) ==
  /\ owner[p] = Nobody
  /\ owner' = [owner EXCEPT ![p] = o]
  /\ made' = [made EXCEPT ![o] = TRUE]
  /\ UNCHANGED <<context, receipts, granted, torn, edits>>

\* The write or the flush raises; the file stays.
WriteRaises(o) ==
  /\ torn' = torn \cup {o}
  /\ Remember(o, "create", "FAILED")
  /\ UNCHANGED <<context, owner, granted, made, edits>>

UserEdits(p) ==
  /\ edits < MaxEdits
  /\ edits' = edits + 1
  /\ \E who \in {Nobody, User} : owner' = [owner EXCEPT ![p] = who]
  /\ UNCHANGED <<context, receipts, granted, made, torn>>
=============================================================================
