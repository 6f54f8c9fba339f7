----------------------------- MODULE TenantStore -----------------------------
(***************************************************************************)
(* What tenant-scoped access to Postgres promises, with no connection,     *)
(* session variable, lock or policy in sight: every caller has one atomic  *)
(* transaction for one tenant.  It is shown that tenant's rows as they are *)
(* committed, with its own changes over them; its changes stay with it     *)
(* until its body has returned, and are then stored all at once; a         *)
(* statement that failed leaves nothing to store, and a body that raised   *)
(* stores nothing.  TenantTxn implements it.                               *)
(***************************************************************************)

CONSTANTS Callers,   \* one per use of the tenant-scoped access path
          Tenants,   \* tenants that can own rows
          Slugs,     \* tenant ids that cannot
          Hashes     \* a row is identified by its tenant and content hash

VARIABLES owner,     \* the tenant each caller acts for, fixed
          store,     \* the committed rows
          shown,     \* every row a caller has been shown
          changes,   \* what each caller has made of each row, so far for itself
          failed,    \* whether a statement of its open transaction failed
          ended      \* how it ended: "returned", "raised" or "lost"; "no" before

vars == <<owner, store, shown, changes, failed, ended>>

Rows == [tenant : Tenants, hash : Hashes]
Own(c) == {r \in Rows : r.tenant = owner[c]}
Nothing == [r \in Rows |-> "same"]

Init ==
  /\ owner \in [Callers -> Tenants \cup Slugs]
  /\ store \in SUBSET Rows
  /\ shown = [c \in Callers |-> {}]
  /\ changes = [c \in Callers |-> Nothing]
  /\ failed = [c \in Callers |-> FALSE]
  /\ ended = [c \in Callers |-> "no"]

\* The store with the caller's changes, whole.
After(c) ==
  {r \in Rows : changes[c][r] = "present" \/ (changes[c][r] = "same" /\ r \in store)}

Open(c) == ended[c] = "no" /\ ~failed[c]

Read(c) ==
  /\ Open(c)
  /\ shown' = [shown EXCEPT ![c] = @ \cup (Own(c) \cap After(c))]
  /\ UNCHANGED <<owner, store, changes, failed, ended>>

\* A row of its own that nobody else has in hand, and to delete it must be there.
Change(c, r, how) ==
  /\ Open(c)
  /\ r \in Own(c) /\ (how = "absent" => r \in After(c))
  /\ \A d \in Callers \ {c} : changes[d][r] = "same"
  /\ changes' = [changes EXCEPT ![c] = [@ EXCEPT ![r] = how]]
  /\ UNCHANGED <<owner, store, shown, failed, ended>>

Fail(c) ==
  /\ Open(c)
  /\ failed' = [failed EXCEPT ![c] = TRUE]
  /\ changes' = [changes EXCEPT ![c] = Nothing]
  /\ UNCHANGED <<owner, store, shown, ended>>

End(c, how) ==
  /\ ended[c] = "no"
  /\ ended' = [ended EXCEPT ![c] = how]
  /\ changes' = [changes EXCEPT ![c] = Nothing]
  /\ failed' = [failed EXCEPT ![c] = FALSE]
  /\ UNCHANGED <<owner, shown>>

\* The changes appear together; of a failed transaction there are none.
Return(c) == End(c, "returned") /\ store' = After(c)

Raise(c) == End(c, "raised") /\ UNCHANGED store

\* The connection broke, perhaps after the commit: all of the changes or none.
Lose(c) == End(c, "lost") /\ store' \in {store, After(c)}

Next ==
  \E c \in Callers :
    \/ Read(c) \/ Fail(c) \/ Return(c) \/ Raise(c) \/ Lose(c)
    \/ \E r \in Rows, how \in {"present", "absent"} : Change(c, r, how)

Spec == Init /\ [][Next]_vars
=============================================================================
