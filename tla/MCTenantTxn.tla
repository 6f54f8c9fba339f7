----------------------------- MODULE MCTenantTxn -----------------------------
(***************************************************************************)
(* TenantTxn on small instances.                                           *)
(***************************************************************************)
EXTENDS TenantTxn, TLC

\* Callers, connections and hashes are interchangeable, and so are the tenants.
Symmetry == Permutations(Callers) \cup Permutations(Conns)
              \cup Permutations(Tenants) \cup Permutations(Hashes)

\* The state without the histories seen, unscoped and ended, which no guard, no fairness
\* condition and no progress property reads: states that agree on it behave alike.
NoHistory == <<pc, tenant, conn, stmt, guc, txn, draft, rows>>
=============================================================================
