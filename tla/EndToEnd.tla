------------------------------- MODULE EndToEnd -------------------------------
(***************************************************************************)
(* scripts/e2e_doors.py, the scripted proof of the three doors, against a  *)
(* stack that scripts/seed_local.py seeds before it, beside it or not at   *)
(* all.  The doors answer as VisitorGate, OwnerDoor and McpDoor have it;   *)
(* the server may also fail, or go away, between two cases.                *)
(***************************************************************************)
EXTENDS SeedLocal

VARIABLES
  case,    \* the number of the case at hand, 0 before main and after it
  token,   \* what the login's app_metadata said
  failed,  \* whether _results holds a failure
  exit,    \* how the process ended
  calm,    \* history: no call of this run failed for the server's or network's sake
  before   \* history: the stack was seeded when the run began

e2eVars == <<case, token, failed, exit, calm, before>>
stackVars == <<vars, e2eVars>>

Cases == <<"login", "owner", "no_token", "junk_token", "visitor", "evil_origin",
           "unknown_key", "mcp", "mcp_bad_token", "mcp_evil_origin">>

KeyA == Keys[1]
OwnerA == Owners[1]

StackTypeOK ==
  /\ TypeOK
  /\ case \in 0 .. Len(Cases)
  /\ token \in Bindings
  /\ failed \in BOOLEAN /\ calm \in BOOLEAN /\ before \in BOOLEAN
  /\ exit \in {"none", "passed", "failed", "raised"}

StackInit ==
  /\ Init
  /\ case = 0 /\ token = "other" /\ failed = FALSE
  /\ exit = "none" /\ calm = TRUE /\ before = FALSE

Seeded == keys[KeyA] = "seeded" /\ OwnerA \in Range(users) /\ tenant[OwnerA] = "seeded"

-----------------------------------------------------------------------------
\* Variant: the results of the run before are still there.
BeginAgain ==
  /\ case = 0
  /\ case' = 1 /\ calm' = TRUE /\ before' = Seeded /\ exit' = "none"
  /\ UNCHANGED <<vars, token, failed>>

Begin ==
  /\ case = 0
  /\ case' = 1 /\ failed' = FALSE /\ calm' = TRUE /\ before' = Seeded /\ exit' = "none"
  /\ UNCHANGED <<vars, token>>

\* _check, and on to the next case; after the last one main returns 1 or 0.
Check(passed) ==
  /\ failed' = (failed \/ ~passed)
  /\ IF case < Len(Cases)
     THEN case' = case + 1 /\ UNCHANGED exit
     ELSE case' = 0 /\ exit' = IF failed' THEN "failed" ELSE "passed"

\* An exception that no handler of the script catches.
Raise == case' = 0 /\ exit' = "raised" /\ UNCHANGED failed

\* The password grant: a user the script did not leave there may have another password.
Login ==
  /\ case = 1
  /\ \/ OwnerA \in Range(users) /\ token' = tenant[OwnerA] /\ Check(TRUE)
     \/ OwnerA \notin Range(users) /\ Raise /\ UNCHANGED token
     \/ tenant[OwnerA] = "other" /\ Raise /\ UNCHANGED token
  /\ UNCHANGED <<vars, calm, before>>

\* Variant: the tenant that /v1/tenants/me names is not looked at.
OwnerPassesAny == TRUE

OwnerPasses == token = "seeded"

\* A row with other contents may list the demo host all the same; none lists evil.com.
VisitorPasses == [none |-> {FALSE}, other |-> BOOLEAN, seeded |-> {TRUE}]

\* Whether the doors' answer is the one a case expects.
Passes(c) ==
  CASE c = "owner" -> {OwnerPasses}
    [] c = "visitor" -> VisitorPasses[keys[KeyA]]
    [] c = "evil_origin" -> {keys[KeyA] # "none"}
    [] OTHER -> {TRUE}

Ask ==
  /\ case > 1
  /\ \E passed \in Passes(Cases[case]) : Check(passed)
  /\ UNCHANGED <<vars, token, calm, before>>

\* A 500, a refused connection, a timeout: _mcp_door catches whatever its client raises,
\* and takes it for the refusal it waits for; an error that the tool's result carries is
\* an answer to it, and passes.
Fault ==
  /\ case > 0
  /\ calm' = FALSE
  /\ \/ case = 1 /\ Raise
     \/ case \in 2 .. 7 /\ (Check(FALSE) \/ Raise)
     \/ case = 8 /\ Check(FALSE)
     \/ case \in 8 .. 10 /\ Check(TRUE)
  /\ UNCHANGED <<vars, token, before>>

StackNext == (Next /\ UNCHANGED e2eVars) \/ Begin \/ Login \/ Ask \/ Fault

StackSpec == StackInit /\ [][StackNext]_stackVars

-----------------------------------------------------------------------------
(* Properties. *)

\* A script that ended well has shown it: the demo owner's login carries its tenant and
\* the demo key has a row, whatever seeding ran, stopped or failed meanwhile.
PassMeansBound ==
  exit = "passed" => tenant[OwnerA] = "seeded" /\ keys[KeyA] # "none"

\* It raises no false alarm: on a stack that was seeded when it began and that answers
\* every call, it ends well, on every run, also while another seeding runs.
SeededStackPasses == exit \in {"failed", "raised"} /\ before => ~calm
=============================================================================
