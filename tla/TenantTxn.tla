------------------------------ MODULE TenantTxn ------------------------------
(***************************************************************************)
(* core/db.py: tenant_txn, the one access path to tenant data, over the    *)
(* bounded asyncpg pool and the forced row-level security of               *)
(* supabase/migrations/0002_documents.sql and 0003_chunks.sql.             *)
(*                                                                         *)
(* A caller takes a connection from the pool, opens a transaction, binds   *)
(* app.tenant_id to its tenant for that transaction, runs statements, and  *)
(* leaves by commit or rollback; the connection then serves another        *)
(* caller, perhaps of another tenant.  Callers interleave at every await.  *)
(* asyncpg and Postgres are external and modelled by what the code relies  *)
(* on.  asyncpg also resets session variables on release; the code does    *)
(* not count on it, so the model leaves them as the transaction left them. *)
(***************************************************************************)
EXTENDS FiniteSets

CONSTANTS Callers,   \* asyncio tasks, each entering tenant_txn once
          Conns,     \* the pool's connections (max_size of them)
          Tenants,   \* tenant ids that are uuids, the type of the tenant_id column
          Slugs,     \* tenant ids that are not: widget_keys.tenant_id is text
          Hashes,    \* content hashes; a row is known by tenant and hash
          NoConn, NoRow, NoStmt,
          Unset,     \* app.tenant_id was never set in the session
          Empty      \* app.tenant_id = '', what a finished set_config leaves

ASSUME SentinelAssumption ==
  /\ NoConn \notin Conns
  /\ Tenants \cap Slugs = {}
  /\ Unset \notin Tenants \cup Slugs /\ Empty \notin Tenants \cup Slugs

Rows == [tenant : Tenants, hash : Hashes]

ASSUME NoRowAssumption == NoRow \notin Rows

\* A statement changes at most one row: it takes a row that is there (DELETE),
\* puts one that is not (INSERT), or takes one and puts it back, perhaps under
\* another tenant (UPDATE).
Statements ==
  {s \in [takes : Rows \cup {NoRow}, puts : Rows \cup {NoRow}] :
     /\ s.takes # NoRow \/ s.puts # NoRow
     /\ s.takes # NoRow /\ s.puts # NoRow => s.takes.hash = s.puts.hash}

ASSUME NoStmtAssumption == NoStmt \notin Statements

VARIABLES
  pc,        \* how far each caller is in tenant_txn
  tenant,    \* the tenant_id argument of each caller
  conn,      \* the connection it holds
  stmt,      \* the statement it is blocked in, on a row another transaction changed
  seen,      \* history: the rows its queries returned
  ended,     \* history: how it left: "returned", "raised" or "lost"; "no" before
  guc,       \* per connection: the session's app.tenant_id
  txn,       \* per connection: no transaction, an open one, or an aborted one
  draft,     \* per connection: what its transaction made of each row
  rows,      \* the committed rows
  unscoped   \* history: outcome of the last query run outside tenant_txn

callerVars == <<pc, tenant, conn, stmt, seen, ended>>
connVars == <<guc, txn, draft>>
vars == <<callerVars, connVars, rows, unscoped>>

Phases == {"idle", "acquire", "begin", "scope", "body", "release", "done"}

Clean == [r \in Rows |-> "same"]

TypeOK ==
  /\ pc \in [Callers -> Phases]
  /\ tenant \in [Callers -> Tenants \cup Slugs]
  /\ conn \in [Callers -> Conns \cup {NoConn}]
  /\ stmt \in [Callers -> Statements \cup {NoStmt}]
  /\ seen \in [Callers -> SUBSET Rows]
  /\ ended \in [Callers -> {"no", "returned", "raised", "lost"}]
  /\ guc \in [Conns -> Tenants \cup Slugs \cup {Unset, Empty}]
  /\ txn \in [Conns -> {"none", "open", "aborted"}]
  /\ draft \in [Conns -> [Rows -> {"same", "present", "absent"}]]
  /\ rows \in SUBSET Rows
  /\ unscoped \in {"none", "error", "nothing", "rows"}

Init ==
  /\ pc = [c \in Callers |-> "idle"]
  /\ tenant \in [Callers -> Tenants \cup Slugs]
  /\ conn = [c \in Callers |-> NoConn]
  /\ stmt = [c \in Callers |-> NoStmt]
  /\ seen = [c \in Callers |-> {}]
  /\ ended = [c \in Callers |-> "no"]
  /\ guc = [k \in Conns |-> Unset]
  /\ txn = [k \in Conns |-> "none"]
  /\ draft = [k \in Conns |-> Clean]
  /\ rows \in SUBSET Rows
  /\ unscoped = "none"

-----------------------------------------------------------------------------
(* Postgres: what a session sees and what its policies admit. *)

Free(k) == \A c \in Callers : conn[c] # k

\* Committed rows overlaid with the session's own uncommitted changes.
View(k) ==
  {r \in Rows : draft[k][r] = "present" \/ (draft[k][r] = "same" /\ r \in rows)}

\* The policy casts app.tenant_id to uuid, which raises for anything else.
PolicyRaises(k) == guc[k] \notin Tenants

\* USING (tenant_id = app.tenant_id), and WITH CHECK, the same predicate.
Admits(k, r) == r.tenant = guc[k]

\* Variant: row security enabled but not forced, and the owner connected.
VisibleUnfiltered(k) == View(k)

Visible(k) == {r \in View(k) : Admits(k, r)}

\* Rows another open transaction has changed are locked until it ends.
Locked(k, r) == \E j \in Conns \ {k} : draft[j][r] # "same"

Touched(s) == {s.takes, s.puts} \ {NoRow}

\* Variants: set_config(..., false), and a variable that ends as NULL.
GucKept(k) == guc[k]
GucNull(k) == NoRow

\* set_config(..., true) ends with the transaction; the variable stays known, as ''.
GucAfterTxn(k) == IF guc[k] = Unset THEN Unset ELSE Empty

EndTxn(k, g) ==
  /\ txn' = [txn EXCEPT ![k] = "none"]
  /\ draft' = [draft EXCEPT ![k] = Clean]
  /\ guc' = [guc EXCEPT ![k] = g]

\* A statement that raised undoes the transaction, which then ignores the rest.
AbortTxn(k) ==
  /\ txn' = [txn EXCEPT ![k] = "aborted"]
  /\ draft' = [draft EXCEPT ![k] = Clean]
  /\ guc' = [guc EXCEPT ![k] = GucAfterTxn(k)]
  /\ UNCHANGED <<rows, unscoped>>

-----------------------------------------------------------------------------
(* tenant_txn, one action per await. *)

Goto(c, p) == pc' = [pc EXCEPT ![c] = p]

\* pool.acquire() is awaited.
Enter(c) ==
  /\ pc[c] = "idle"
  /\ Goto(c, "acquire")
  /\ UNCHANGED <<tenant, conn, stmt, seen, ended, connVars, rows, unscoped>>

Acquire(c, k) ==
  /\ pc[c] = "acquire"
  /\ Free(k)
  /\ conn' = [conn EXCEPT ![c] = k]
  /\ Goto(c, "begin")
  /\ UNCHANGED <<tenant, stmt, seen, ended, connVars, rows, unscoped>>

\* Cancelled while waiting for a connection.
GiveUp(c) ==
  /\ pc[c] = "acquire"
  /\ Goto(c, "done")
  /\ ended' = [ended EXCEPT ![c] = "raised"]
  /\ UNCHANGED <<tenant, conn, stmt, seen, connVars, rows, unscoped>>

\* conn.transaction().__aenter__
Begin(c) ==
  /\ pc[c] = "begin"
  /\ txn' = [txn EXCEPT ![conn[c]] = "open"]
  /\ Goto(c, "scope")
  /\ UNCHANGED <<tenant, conn, stmt, seen, ended, guc, draft, rows, unscoped>>

\* SELECT set_config('app.tenant_id', $1, true), then the body is entered.
SetTenant(c) ==
  /\ pc[c] = "scope"
  /\ guc' = [guc EXCEPT ![conn[c]] = tenant[c]]
  /\ Goto(c, "body")
  /\ UNCHANGED <<tenant, conn, stmt, seen, ended, txn, draft, rows, unscoped>>

Running(c) == pc[c] = "body" /\ stmt[c] = NoStmt /\ txn[conn[c]] = "open"

Select(c) ==
  /\ Running(c)
  /\ \/ /\ PolicyRaises(conn[c])
        /\ AbortTxn(conn[c])
        /\ UNCHANGED seen
     \/ /\ ~PolicyRaises(conn[c])
        /\ seen' = [seen EXCEPT ![c] = @ \cup Visible(conn[c])]
        /\ UNCHANGED <<connVars, rows, unscoped>>
  /\ UNCHANGED <<pc, tenant, conn, stmt, ended>>

Finds(k, s) == s.takes = NoRow \/ s.takes \in Visible(k)

\* Variant: a policy with USING and no WITH CHECK.
RefusedUnchecked(k, s) == PolicyRaises(k)

\* WITH CHECK runs before the row goes near an index or a lock (SQLSTATE 42501).
Refused(k, s) ==
  \/ PolicyRaises(k)
  \/ Finds(k, s) /\ s.puts # NoRow /\ ~Admits(k, s.puts)

Waits(k, s) == \E r \in Touched(s) : Locked(k, r)

\* UNIQUE (tenant_id, content_hash) sees every committed row (SQLSTATE 23505).
Duplicate(k, s) == s.puts \in View(k) \ {s.takes}

\* Variant: every statement commits on its own, as without conn.transaction().
ApplyAutocommit(k, s) ==
  /\ rows' = (rows \ {s.takes}) \cup ({s.puts} \ {NoRow})
  /\ UNCHANGED <<guc, txn, draft, unscoped>>

\* The effect of a statement that found its row and waits for nobody.
Apply(k, s) ==
  IF Duplicate(k, s)
  THEN AbortTxn(k)
  ELSE /\ draft' = [draft EXCEPT ![k] =
                      [r \in Rows |-> IF r = s.puts THEN "present"
                                      ELSE IF r = s.takes THEN "absent"
                                      ELSE draft[k][r]]]
       /\ UNCHANGED <<guc, txn, rows, unscoped>>

Write(c, s) ==
  LET k == conn[c] IN
  /\ Running(c)
  /\ \/ /\ Refused(k, s)
        /\ AbortTxn(k)
        /\ UNCHANGED stmt
     \/ /\ ~Refused(k, s) /\ Finds(k, s) /\ Waits(k, s)
        /\ stmt' = [stmt EXCEPT ![c] = s]
        /\ UNCHANGED <<connVars, rows, unscoped>>
     \/ /\ ~Refused(k, s) /\ Finds(k, s) /\ ~Waits(k, s)
        /\ Apply(k, s)
        /\ UNCHANGED stmt
  /\ UNCHANGED <<pc, tenant, conn, seen, ended>>

\* The transaction waited for has ended; the row may be gone by now.
Wake(c) ==
  LET k == conn[c]
      s == stmt[c] IN
  /\ s # NoStmt
  /\ ~Waits(k, s)
  /\ stmt' = [stmt EXCEPT ![c] = NoStmt]
  /\ IF Finds(k, s) THEN Apply(k, s) ELSE UNCHANGED <<connVars, rows, unscoped>>
  /\ UNCHANGED <<pc, tenant, conn, seen, ended>>

\* The callers whose transactions hold rows the blocked caller c needs.
Holders(c) ==
  {d \in Callers \ {c} : /\ stmt[c] # NoStmt
                         /\ conn[d] # NoConn
                         /\ \E r \in Touched(stmt[c]) : draft[conn[d]][r] # "same"}

\* c waits in a ring: a row has one holder, so each of S waits for another of S.
InCycle(c) ==
  \E S \in SUBSET Callers : c \in S /\ UNION {Holders(d) : d \in S} = S

\* Postgres' deadlock detector raises in one of the ring (SQLSTATE 40P01).
BreakDeadlock(c) ==
  /\ stmt[c] # NoStmt
  /\ InCycle(c)
  /\ stmt' = [stmt EXCEPT ![c] = NoStmt]
  /\ AbortTxn(conn[c])
  /\ UNCHANGED <<pc, tenant, conn, seen, ended>>

Leave(c, how) ==
  /\ Goto(c, "release")
  /\ stmt' = [stmt EXCEPT ![c] = NoStmt]
  /\ ended' = [ended EXCEPT ![c] = how]
  /\ UNCHANGED <<tenant, conn, seen, unscoped>>

Durable(k) == IF txn[k] = "open" THEN View(k) ELSE rows

\* The body returned.  COMMIT of an aborted transaction rolls it back, silently.
Commit(c) ==
  /\ pc[c] = "body" /\ stmt[c] = NoStmt
  /\ rows' = Durable(conn[c])
  /\ EndTxn(conn[c], GucAfterTxn(conn[c]))
  /\ Leave(c, "returned")

\* Variant: the transaction is ended with commit() in a finally clause.
RollbackStored(c) ==
  /\ pc[c] \in {"begin", "scope", "body"}
  /\ rows' = Durable(conn[c])
  /\ EndTxn(conn[c], GucAfterTxn(conn[c]))
  /\ Leave(c, "raised")

\* An exception or a cancellation, in the body or on the way to it.
Rollback(c) ==
  /\ pc[c] \in {"begin", "scope", "body"}
  /\ EndTxn(conn[c], GucAfterTxn(conn[c]))
  /\ Leave(c, "raised")
  /\ UNCHANGED rows

\* The connection breaks: the server drops the transaction, unless it was told to
\* commit and only the answer was lost.  The pool's next session is a fresh one.
LoseConn(c) ==
  /\ pc[c] \in {"begin", "scope", "body"}
  /\ rows' \in IF pc[c] = "body" /\ stmt[c] = NoStmt
               THEN {rows, Durable(conn[c])} ELSE {rows}
  /\ EndTxn(conn[c], Unset)
  /\ Leave(c, "lost")

\* Variant: the connection is not given back.
ReleaseNothing(c) ==
  /\ pc[c] = "release"
  /\ Goto(c, "done")
  /\ UNCHANGED <<tenant, conn, stmt, seen, ended, connVars, rows, unscoped>>

Release(c) ==
  /\ pc[c] = "release"
  /\ conn' = [conn EXCEPT ![c] = NoConn]
  /\ Goto(c, "done")
  /\ UNCHANGED <<tenant, stmt, seen, ended, connVars, rows, unscoped>>

\* A query on the pool's own connection by code that went around tenant_txn.  With
\* no row to test, the planner may not come to evaluate the policy.
Unscoped(k) ==
  /\ Free(k)
  /\ unscoped' \in IF PolicyRaises(k)
                   THEN {"error"} \cup IF rows = {} THEN {"nothing"} ELSE {}
                   ELSE {IF Visible(k) = {} THEN "nothing" ELSE "rows"}
  /\ UNCHANGED <<callerVars, connVars, rows>>

\* The pool closes a connection that has idled and later opens another.
Recycle(k) ==
  /\ Free(k)
  /\ guc' = [guc EXCEPT ![k] = Unset]
  /\ UNCHANGED <<callerVars, txn, draft, rows, unscoped>>

Step(c) ==
  \/ Enter(c) \/ GiveUp(c) \/ Begin(c) \/ SetTenant(c) \/ Select(c)
  \/ Wake(c) \/ BreakDeadlock(c) \/ Commit(c) \/ Rollback(c) \/ LoseConn(c)
  \/ Release(c)
  \/ \E k \in Conns : Acquire(c, k)
  \/ \E s \in Statements : Write(c, s)

Next ==
  \/ \E c \in Callers : Step(c)
  \/ \E k \in Conns : Unscoped(k) \/ Recycle(k)

Spec == Init /\ [][Next]_vars

\* The event loop and the server serve what is asked of them, and every body ends.
Advance(c) ==
  \/ \E k \in Conns : Acquire(c, k)
  \/ Begin(c) \/ SetTenant(c) \/ Wake(c) \/ BreakDeadlock(c)
  \/ Commit(c) \/ Release(c)

\* Nobody need be cancelled, lose a connection or touch a row.
Fairness == \A c \in Callers : WF_vars(Advance(c))

FairSpec == Spec /\ Fairness

-----------------------------------------------------------------------------
(* Properties. *)

\* No query of a caller ever returns a row of another tenant, whatever ran before on
\* the connection and whatever runs beside it (db.py:44-46).
SeesOwnRows == \A c \in Callers : \A r \in seen[c] : r.tenant = tenant[c]

\* A session outside the body of a tenant_txn holds no tenant: a pooled connection
\* never carries one tenant's context to its next user (db.py:45-46).
NoTenantLeft ==
  \A k \in Conns : guc[k] \in Tenants \cup Slugs =>
    \E c \in Callers : conn[c] = k /\ pc[c] = "body" /\ guc[k] = tenant[c]

\* A caller is only ever blocked by transactions of its own tenant: UNIQUE leads with
\* tenant_id and WITH CHECK refuses a foreign row before it can wait on a lock.
WaitsOnOwnTenant ==
  \A c \in Callers : \A d \in Holders(c) : tenant[d] = tenant[c]

\* Code that goes around tenant_txn gets no row at all.
NoUnscopedRows == unscoped # "rows"

\* What the store looks like for the other tenants never changes in a step that ends
\* the transaction of one caller, and no other step changes the store.
CommitsOwnRows ==
  [][\A r \in Rows : (r \in rows) # (r \in rows') =>
       \E c \in Callers : pc[c] = "body" /\ pc'[c] = "release" /\ tenant[c] = r.tenant]_vars

\* db.py:47, "an unset variable makes every policy evaluate false": a query without
\* a tenant finds no rows.
UnsetIsFalse == unscoped \in {"none", "nothing"}

\* Every task that waits for a connection gets through and gives it back, with fewer
\* connections than tasks, lock waits, and broken connections.
EveryCallerLeaves == \A c \in Callers : pc[c] = "acquire" ~> pc[c] = "done"

InBody(c) == pc[c] = "body"

\* Each use of tenant_txn is one atomic transaction on the caller's own rows: what its
\* body did is stored completely when it returned, not at all when a statement failed
\* or the body raised, and completely or not at all when the connection broke
\* (db.py:50-52).
Store == INSTANCE TenantStore WITH
  owner <- tenant, store <- rows, shown <- seen,
  changes <- [c \in Callers |-> IF InBody(c) THEN draft[conn[c]] ELSE Clean],
  failed <- [c \in Callers |-> InBody(c) /\ txn[conn[c]] = "aborted"]

ImplementsStore == Store!Spec
=============================================================================
