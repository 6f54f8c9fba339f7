----------------------------- MODULE MCOwnerDoor -----------------------------
(***************************************************************************)
(* OwnerDoor on small instances.                                           *)
(***************************************************************************)
EXTENDS OwnerDoor

\* What the next get or decode of a thread still reads.
Live(t) ==
  CASE pc[t] = "idle" -> IF Busy(t) THEN {result[t]} ELSE {}
    [] pc[t] = "install" -> {kid[t], fetched[t]}
    [] OTHER -> {kid[t]}

\* The state without what no later step reads: responses, and a thread's leftovers.
NoLeftovers ==
  <<published, cache, versions, pc, [t \in Threads |-> Live(t)],
    accountVars, stage, want, worker>>
=============================================================================
