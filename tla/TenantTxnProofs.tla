--------------------------- MODULE TenantTxnProofs ---------------------------
(***************************************************************************)
(* Tenant isolation of TenantTxn for any number of callers, connections,   *)
(* tenants and rows.                                                       *)
(***************************************************************************)
EXTENDS TenantTxn, TLAPS

\* The pool gives a connection to one caller at a time.
ConnExclusive ==
  \A c, d \in Callers : c # d /\ conn[c] = conn[d] => conn[c] = NoConn

\* A caller has a connection exactly between Acquire and Release.
HoldsConn ==
  \A c \in Callers :
    conn[c] # NoConn <=> pc[c] \in {"begin", "scope", "body", "release"}

\* In a transaction that can still act, the session variable is the caller's tenant.
Scoped ==
  \A c \in Callers : pc[c] = "body" /\ txn[conn[c]] = "open" => guc[conn[c]] = tenant[c]

\* The body is entered in an open transaction, and what a failed or ended one had
\* changed is gone.
OpenTxn ==
  /\ \A c \in Callers : pc[c] = "scope" => txn[conn[c]] = "open"
  /\ \A k \in Conns : txn[k] # "open" => draft[k] = Clean

\* Uncommitted changes are of the tenant in force, so there are none without one.
DraftsOwnRows ==
  \A k \in Conns, r \in Rows : draft[k][r] # "same" => guc[k] = r.tenant

\* A blocked statement is one of an open transaction, about the caller's own rows.
BlockedOnOwnRows ==
  \A c \in Callers : stmt[c] # NoStmt =>
    /\ pc[c] = "body" /\ txn[conn[c]] = "open"
    /\ \A r \in Touched(stmt[c]) : r.tenant = tenant[c]

IInv ==
  /\ TypeOK
  /\ ConnExclusive
  /\ HoldsConn
  /\ Scoped
  /\ OpenTxn
  /\ NoTenantLeft
  /\ DraftsOwnRows
  /\ BlockedOnOwnRows
  /\ SeesOwnRows
  /\ NoUnscopedRows

-----------------------------------------------------------------------------
LEMMA InitIInv == Init => IInv
  BY SentinelAssumption, NoStmtAssumption
  DEF Init, IInv, TypeOK, ConnExclusive, HoldsConn, Scoped, OpenTxn, NoTenantLeft, DraftsOwnRows,
      BlockedOnOwnRows, SeesOwnRows, NoUnscopedRows, Clean, Phases

\* A session nobody runs a body in has no tenant and no uncommitted change.
LEMMA NoBodyNoTenant ==
  ASSUME IInv, NEW k \in Conns, \A c \in Callers : conn[c] = k => pc[c] # "body"
  PROVE  /\ guc[k] \notin Tenants \cup Slugs
         /\ \A r \in Rows : draft[k][r] = "same"
  BY DEF IInv, NoTenantLeft, DraftsOwnRows, Rows

\* Every statement raises or touches only rows of the tenant in force.
LEMMA WritesOwnRows ==
  ASSUME NEW k \in Conns, NEW s \in Statements, ~Refused(k, s), Finds(k, s)
  PROVE  \A r \in Touched(s) : r \in Rows /\ r.tenant = guc[k]
  BY DEF Refused, Finds, Touched, Statements, Visible, Admits

LEMMA AbortTxnIInv ==
  ASSUME IInv, NEW c \in Callers, pc[c] = "body", AbortTxn(conn[c]),
         stmt' = [stmt EXCEPT ![c] = NoStmt], UNCHANGED <<pc, tenant, conn, seen, ended>>
  PROVE  IInv'
<1>1. conn[c] \in Conns
  BY DEF IInv, TypeOK, HoldsConn
<1>2. TypeOK'
  BY <1>1 DEF IInv, TypeOK, AbortTxn, GucAfterTxn, Clean
<1>3. (ConnExclusive /\ HoldsConn /\ SeesOwnRows /\ NoUnscopedRows)'
  BY DEF IInv, AbortTxn, ConnExclusive, HoldsConn, SeesOwnRows, NoUnscopedRows
<1>4. (Scoped /\ OpenTxn /\ NoTenantLeft /\ DraftsOwnRows)'
  BY <1>1, SentinelAssumption DEF IInv, TypeOK, AbortTxn, GucAfterTxn, Clean, ConnExclusive,
     HoldsConn, Scoped, OpenTxn, NoTenantLeft, DraftsOwnRows
<1>5. BlockedOnOwnRows'
  BY <1>1, SentinelAssumption DEF IInv, TypeOK, AbortTxn, ConnExclusive, HoldsConn, BlockedOnOwnRows, Touched
<1> QED BY <1>2, <1>3, <1>4, <1>5 DEF IInv

LEMMA ApplyIInv ==
  ASSUME IInv, NEW c \in Callers, pc[c] = "body", txn[conn[c]] = "open",
         NEW s \in Statements, Apply(conn[c], s),
         \A r \in Touched(s) : r.tenant = guc[conn[c]],
         stmt' = [stmt EXCEPT ![c] = NoStmt], UNCHANGED <<pc, tenant, conn, seen, ended>>
  PROVE  IInv'
<1>1. CASE Duplicate(conn[c], s)
  BY <1>1, AbortTxnIInv DEF Apply
<1>2. CASE ~Duplicate(conn[c], s)
  <2>1. conn[c] \in Conns
    BY DEF IInv, TypeOK, HoldsConn
  <2>2. /\ UNCHANGED <<guc, txn, rows, unscoped>>
        /\ draft' = [draft EXCEPT ![conn[c]] =
                       [r \in Rows |-> IF r = s.puts THEN "present"
                                       ELSE IF r = s.takes THEN "absent"
                                       ELSE draft[conn[c]][r]]]
    BY <1>2 DEF Apply
  <2>3. TypeOK'
    BY <2>1, <2>2 DEF IInv, TypeOK
  <2>4. DraftsOwnRows'
    <3> SUFFICES ASSUME NEW k \in Conns, NEW r \in Rows, draft'[k][r] # "same"
                 PROVE  guc[k] = r.tenant
      BY <2>2 DEF DraftsOwnRows
    <3>1. CASE draft[k][r] # "same"
      BY <3>1 DEF IInv, DraftsOwnRows
    <3>2. CASE draft[k][r] = "same"
      <4>1. k = conn[c] /\ (r = s.puts \/ r = s.takes)
        BY <2>1, <2>2, <3>2 DEF IInv, TypeOK
      <4>2. r \in Touched(s)
        BY <4>1, NoRowAssumption DEF Touched
      <4> QED BY <4>1, <4>2
    <3> QED BY <3>1, <3>2
  <2>5. (ConnExclusive /\ HoldsConn /\ Scoped /\ OpenTxn /\ NoTenantLeft /\ BlockedOnOwnRows
           /\ SeesOwnRows /\ NoUnscopedRows)'
    BY <2>2 DEF IInv, TypeOK, ConnExclusive, HoldsConn, Scoped, OpenTxn, NoTenantLeft,
       BlockedOnOwnRows, SeesOwnRows, NoUnscopedRows
  <2> QED BY <2>3, <2>4, <2>5 DEF IInv
<1> QED BY <1>1, <1>2

LEMMA EndTxnIInv ==
  ASSUME IInv, NEW c \in Callers, pc[c] \in {"begin", "scope", "body"},
         NEW g, EndTxn(conn[c], g), g \in {Unset, Empty}, NEW how \in {"returned", "raised", "lost"},
         Leave(c, how), rows' \in SUBSET Rows
  PROVE  IInv'
<1>1. conn[c] \in Conns
  BY DEF IInv, TypeOK, HoldsConn
<1>2. TypeOK'
  BY <1>1 DEF IInv, TypeOK, EndTxn, Leave, Goto, Clean, Phases
<1>3. (ConnExclusive /\ HoldsConn /\ SeesOwnRows /\ NoUnscopedRows)'
  BY DEF IInv, TypeOK, EndTxn, Leave, Goto, ConnExclusive, HoldsConn, SeesOwnRows, NoUnscopedRows
<1>4. (Scoped /\ OpenTxn)'
  BY <1>1, SentinelAssumption
  DEF IInv, TypeOK, EndTxn, Leave, Goto, ConnExclusive, HoldsConn, Scoped, OpenTxn
<1>5. (NoTenantLeft /\ DraftsOwnRows)'
  BY <1>1, SentinelAssumption
  DEF IInv, TypeOK, EndTxn, Leave, Goto, Clean, ConnExclusive, NoTenantLeft, DraftsOwnRows
<1>6. BlockedOnOwnRows'
  BY <1>1, SentinelAssumption DEF IInv, TypeOK, EndTxn, Leave, Goto, ConnExclusive, HoldsConn, BlockedOnOwnRows
<1> QED BY <1>2, <1>3, <1>4, <1>5, <1>6 DEF IInv

-----------------------------------------------------------------------------
LEMMA EnterIInv == ASSUME IInv, NEW c \in Callers, Enter(c) PROVE IInv'
  BY DEF Enter, Goto, connVars, IInv, TypeOK, ConnExclusive, HoldsConn, Scoped, OpenTxn, NoTenantLeft,
     DraftsOwnRows, BlockedOnOwnRows, SeesOwnRows, NoUnscopedRows, Phases

LEMMA AcquireIInv ==
  ASSUME IInv, NEW c \in Callers, NEW k \in Conns, Acquire(c, k) PROVE IInv'
  BY SentinelAssumption
  DEF Acquire, Free, Goto, connVars, IInv, TypeOK, ConnExclusive, HoldsConn, Scoped, OpenTxn, NoTenantLeft,
      DraftsOwnRows, BlockedOnOwnRows, SeesOwnRows, NoUnscopedRows, Phases

LEMMA GiveUpIInv == ASSUME IInv, NEW c \in Callers, GiveUp(c) PROVE IInv'
  BY DEF GiveUp, Goto, connVars, IInv, TypeOK, ConnExclusive, HoldsConn, Scoped, OpenTxn, NoTenantLeft,
     DraftsOwnRows, BlockedOnOwnRows, SeesOwnRows, NoUnscopedRows, Phases

LEMMA BeginIInv == ASSUME IInv, NEW c \in Callers, Begin(c) PROVE IInv'
<1>1. conn[c] \in Conns /\ pc[c] = "begin"
  BY DEF Begin, IInv, TypeOK, HoldsConn
<1>2. (TypeOK /\ ConnExclusive /\ HoldsConn /\ NoTenantLeft /\ DraftsOwnRows
         /\ SeesOwnRows /\ NoUnscopedRows)'
  BY <1>1 DEF Begin, Goto, IInv, TypeOK, ConnExclusive, HoldsConn, NoTenantLeft, DraftsOwnRows,
     SeesOwnRows, NoUnscopedRows, Phases
<1>3. (Scoped /\ OpenTxn /\ BlockedOnOwnRows)'
  BY <1>1, SentinelAssumption
  DEF Begin, Goto, IInv, TypeOK, ConnExclusive, HoldsConn, Scoped, OpenTxn, BlockedOnOwnRows
<1> QED BY <1>2, <1>3 DEF IInv

LEMMA SetTenantIInv == ASSUME IInv, NEW c \in Callers, SetTenant(c) PROVE IInv'
<1>1. conn[c] \in Conns /\ pc[c] = "scope"
  BY DEF SetTenant, IInv, TypeOK, HoldsConn
<1>2. \A r \in Rows : draft[conn[c]][r] = "same"
  BY <1>1, NoBodyNoTenant, SentinelAssumption DEF IInv, ConnExclusive
<1>3. (TypeOK /\ ConnExclusive /\ HoldsConn /\ SeesOwnRows /\ NoUnscopedRows)'
  BY <1>1 DEF SetTenant, Goto, IInv, TypeOK, ConnExclusive, HoldsConn, SeesOwnRows,
     NoUnscopedRows, Phases
<1>4. (Scoped /\ OpenTxn /\ NoTenantLeft)'
  BY <1>1, SentinelAssumption
  DEF SetTenant, Goto, IInv, TypeOK, ConnExclusive, HoldsConn, Scoped, OpenTxn, NoTenantLeft
<1>5. (DraftsOwnRows /\ BlockedOnOwnRows)'
  BY <1>1, <1>2 DEF SetTenant, Goto, IInv, TypeOK, DraftsOwnRows, BlockedOnOwnRows
<1> QED BY <1>3, <1>4, <1>5 DEF IInv

LEMMA SelectIInv == ASSUME IInv, NEW c \in Callers, Select(c) PROVE IInv'
<1>1. pc[c] = "body" /\ stmt[c] = NoStmt /\ txn[conn[c]] = "open" /\ conn[c] \in Conns
  BY DEF Select, Running, IInv, TypeOK, HoldsConn
<1>2. CASE PolicyRaises(conn[c]) /\ AbortTxn(conn[c]) /\ UNCHANGED seen
  <2>1. stmt' = [stmt EXCEPT ![c] = NoStmt]
    BY <1>1 DEF Select, IInv, TypeOK
  <2> QED BY <1>1, <1>2, <2>1, AbortTxnIInv DEF Select
<1>3. CASE /\ seen' = [seen EXCEPT ![c] = @ \cup Visible(conn[c])]
           /\ UNCHANGED <<connVars, rows, unscoped>>
  <2>1. \A r \in Visible(conn[c]) : r \in Rows /\ r.tenant = tenant[c]
    BY <1>1 DEF Visible, View, Admits, IInv, Scoped
  <2>2. (TypeOK /\ SeesOwnRows)'
    BY <1>3, <2>1 DEF Select, connVars, IInv, TypeOK, SeesOwnRows
  <2>3. (ConnExclusive /\ HoldsConn /\ Scoped /\ OpenTxn /\ NoTenantLeft /\ DraftsOwnRows
           /\ BlockedOnOwnRows /\ NoUnscopedRows)'
    BY <1>3 DEF Select, connVars, IInv, ConnExclusive, HoldsConn, Scoped, OpenTxn, NoTenantLeft,
       DraftsOwnRows, BlockedOnOwnRows, NoUnscopedRows
  <2> QED BY <2>2, <2>3 DEF IInv
<1> QED BY <1>2, <1>3 DEF Select

LEMMA WriteIInv ==
  ASSUME IInv, NEW c \in Callers, NEW s \in Statements, Write(c, s) PROVE IInv'
<1> DEFINE k == conn[c]
<1>1. pc[c] = "body" /\ stmt[c] = NoStmt /\ txn[k] = "open" /\ k \in Conns
  BY DEF Write, Running, IInv, TypeOK, HoldsConn
<1>2. UNCHANGED stmt => stmt' = [stmt EXCEPT ![c] = NoStmt]
  BY <1>1 DEF IInv, TypeOK
<1>3. CASE Refused(k, s) /\ AbortTxn(k) /\ UNCHANGED stmt
  BY <1>1, <1>2, <1>3, AbortTxnIInv DEF Write
<1>4. CASE ~Refused(k, s) /\ Finds(k, s) /\ Apply(k, s) /\ UNCHANGED stmt
  BY <1>1, <1>2, <1>4, WritesOwnRows, ApplyIInv DEF Write
<1>5. CASE /\ ~Refused(k, s) /\ Finds(k, s)
           /\ stmt' = [stmt EXCEPT ![c] = s]
           /\ UNCHANGED <<connVars, rows, unscoped>>
  <2>1. \A r \in Touched(s) : r.tenant = tenant[c]
    BY <1>1, <1>5, WritesOwnRows DEF IInv, Scoped
  <2>2. BlockedOnOwnRows'
    BY <1>1, <1>5, <2>1 DEF Write, connVars, IInv, TypeOK, BlockedOnOwnRows, Touched
  <2>3. TypeOK'
    BY <1>5 DEF Write, connVars, IInv, TypeOK
  <2>4. (ConnExclusive /\ HoldsConn /\ Scoped /\ OpenTxn /\ NoTenantLeft /\ DraftsOwnRows
           /\ SeesOwnRows /\ NoUnscopedRows)'
    BY <1>5 DEF Write, connVars, IInv, ConnExclusive, HoldsConn, Scoped, OpenTxn, NoTenantLeft,
       DraftsOwnRows, SeesOwnRows, NoUnscopedRows
  <2> QED BY <2>2, <2>3, <2>4 DEF IInv
<1> QED BY <1>3, <1>4, <1>5 DEF Write

LEMMA WakeIInv == ASSUME IInv, NEW c \in Callers, Wake(c) PROVE IInv'
<1> DEFINE k == conn[c]
           s == stmt[c]
<1>1. /\ s # NoStmt /\ s \in Statements
      /\ pc[c] = "body" /\ txn[k] = "open" /\ k \in Conns
      /\ \A r \in Touched(s) : r.tenant = guc[k]
  BY DEF Wake, IInv, TypeOK, HoldsConn, BlockedOnOwnRows, Scoped
<1>2. CASE Finds(k, s) /\ Apply(k, s)
  BY <1>1, <1>2, ApplyIInv DEF Wake
<1>3. CASE UNCHANGED <<connVars, rows, unscoped>>
  BY <1>3 DEF Wake, connVars, IInv, TypeOK, ConnExclusive, HoldsConn, Scoped, OpenTxn, NoTenantLeft,
     DraftsOwnRows, BlockedOnOwnRows, SeesOwnRows, NoUnscopedRows
<1> QED BY <1>2, <1>3 DEF Wake

LEMMA BreakDeadlockIInv == ASSUME IInv, NEW c \in Callers, BreakDeadlock(c) PROVE IInv'
  BY AbortTxnIInv DEF BreakDeadlock, IInv, BlockedOnOwnRows

\* What a commit can leave in the table.
LEMMA DurableType == ASSUME IInv, NEW k PROVE Durable(k) \in SUBSET Rows
  BY DEF Durable, View, IInv, TypeOK

LEMMA CommitIInv == ASSUME IInv, NEW c \in Callers, Commit(c) PROVE IInv'
  BY DurableType, EndTxnIInv DEF Commit, GucAfterTxn

LEMMA RollbackIInv == ASSUME IInv, NEW c \in Callers, Rollback(c) PROVE IInv'
<1>1. rows' \in SUBSET Rows
  BY DEF Rollback, IInv, TypeOK
<1> QED BY <1>1, EndTxnIInv DEF Rollback, GucAfterTxn

LEMMA LoseConnIInv == ASSUME IInv, NEW c \in Callers, LoseConn(c) PROVE IInv'
<1>1. rows' \in SUBSET Rows
  BY DurableType DEF LoseConn, IInv, TypeOK
<1> QED BY <1>1, EndTxnIInv DEF LoseConn

LEMMA ReleaseIInv == ASSUME IInv, NEW c \in Callers, Release(c) PROVE IInv'
  BY SentinelAssumption
  DEF Release, Goto, connVars, IInv, TypeOK, ConnExclusive, HoldsConn, Scoped, OpenTxn, NoTenantLeft,
      DraftsOwnRows, BlockedOnOwnRows, SeesOwnRows, NoUnscopedRows, Phases

LEMMA UnscopedIInv == ASSUME IInv, NEW k \in Conns, Unscoped(k) PROVE IInv'
<1>1. PolicyRaises(k)
  BY NoBodyNoTenant DEF Unscoped, Free, PolicyRaises
<1>2. unscoped' \in {"error", "nothing"}
  BY <1>1 DEF Unscoped
<1> QED BY <1>2 DEF Unscoped, callerVars, connVars, IInv, TypeOK, ConnExclusive, HoldsConn,
        Scoped, OpenTxn, NoTenantLeft, DraftsOwnRows, BlockedOnOwnRows, SeesOwnRows, NoUnscopedRows

LEMMA RecycleIInv == ASSUME IInv, NEW k \in Conns, Recycle(k) PROVE IInv'
<1>1. \A r \in Rows : draft[k][r] = "same"
  BY NoBodyNoTenant DEF Recycle, Free
<1> QED BY <1>1, SentinelAssumption DEF Recycle, Free, callerVars, IInv, TypeOK, ConnExclusive, HoldsConn,
        Scoped, OpenTxn, NoTenantLeft, DraftsOwnRows, BlockedOnOwnRows, SeesOwnRows, NoUnscopedRows

LEMMA StutterIInv == ASSUME IInv, UNCHANGED vars PROVE IInv'
  BY DEF vars, callerVars, connVars, IInv, TypeOK, ConnExclusive, HoldsConn, Scoped, OpenTxn,
     NoTenantLeft, DraftsOwnRows, BlockedOnOwnRows, SeesOwnRows, NoUnscopedRows

LEMMA NextIInv == IInv /\ [Next]_vars => IInv'
  BY EnterIInv, AcquireIInv, GiveUpIInv, BeginIInv, SetTenantIInv, SelectIInv, WriteIInv,
     WakeIInv, BreakDeadlockIInv, CommitIInv, RollbackIInv, LoseConnIInv, ReleaseIInv,
     UnscopedIInv, RecycleIInv, StutterIInv
  DEF Next, Step

LEMMA AlwaysIInv == Spec => []IInv
  BY InitIInv, NextIInv, PTL DEF Spec

-----------------------------------------------------------------------------
(* The safety properties. *)

\* Every reachable state is well typed.
THEOREM TypeCorrect == Spec => []TypeOK
  BY AlwaysIInv, PTL DEF IInv

\* No caller is ever shown a row of another tenant.
THEOREM OwnReads == Spec => []SeesOwnRows
  BY AlwaysIInv, PTL DEF IInv

\* A pooled connection carries a tenant only inside the body it was set for.
THEOREM NoLeak == Spec => []NoTenantLeft
  BY AlwaysIInv, PTL DEF IInv

\* A query that went around tenant_txn is never given a row.
THEOREM FailClosed == Spec => []NoUnscopedRows
  BY AlwaysIInv, PTL DEF IInv

LEMMA IInvOwnWaits == IInv => WaitsOnOwnTenant
<1> SUFFICES ASSUME IInv, NEW c \in Callers, NEW d \in Holders(c)
             PROVE  tenant[d] = tenant[c]
  BY DEF WaitsOnOwnTenant
<1>1. PICK r \in Touched(stmt[c]) : draft[conn[d]][r] # "same"
  BY DEF Holders
<1>2. /\ d \in Callers /\ conn[d] \in Conns /\ conn[d] # NoConn
      /\ r \in Rows /\ r.tenant = tenant[c]
  BY <1>1 DEF Holders, Touched, Statements, IInv, TypeOK, BlockedOnOwnRows
<1>3. guc[conn[d]] = tenant[c] /\ tenant[c] \in Tenants
  BY <1>1, <1>2 DEF IInv, DraftsOwnRows, Rows
<1>4. PICK e \in Callers : conn[e] = conn[d] /\ guc[conn[d]] = tenant[e]
  BY <1>2, <1>3 DEF IInv, NoTenantLeft
<1>5. e = d
  BY <1>2, <1>4 DEF IInv, ConnExclusive
<1> QED BY <1>3, <1>4, <1>5

\* Row locks only ever make callers of one tenant wait for each other.
THEOREM OwnWaits == Spec => []WaitsOnOwnTenant
  BY AlwaysIInv, IInvOwnWaits, PTL

\* A commit changes only what its transaction drafted, which is its tenant's.
LEMMA DurableOwnRows ==
  ASSUME IInv, NEW c \in Callers, pc[c] = "body",
         NEW r \in Rows, (r \in rows) # (r \in Durable(conn[c]))
  PROVE  tenant[c] = r.tenant
<1>1. conn[c] \in Conns /\ txn[conn[c]] = "open" /\ draft[conn[c]][r] # "same"
  BY DEF Durable, View, IInv, TypeOK, HoldsConn
<1> QED BY <1>1 DEF IInv, Scoped, DraftsOwnRows

\* Only the end of a body changes the table.
LEMMA WhoChangesRows ==
  ASSUME IInv, [Next]_vars, rows' # rows
  PROVE  \E c \in Callers : /\ pc[c] = "body" /\ pc' = [pc EXCEPT ![c] = "release"]
                            /\ rows' = Durable(conn[c])
<1>1. PICK c \in Callers : Commit(c) \/ LoseConn(c)
  BY DEF Next, Step, vars, callerVars, connVars, Enter, Acquire, GiveUp, Begin, SetTenant,
     Select, Write, Wake, BreakDeadlock, AbortTxn, Apply, Rollback, Release, Unscoped, Recycle
<1> QED BY <1>1 DEF Commit, LoseConn, Leave, Goto

\* A committing caller changes only rows of its own tenant, and nothing else changes rows.
THEOREM OwnCommits == Spec => CommitsOwnRows
<1> DEFINE Own == \A r \in Rows : (r \in rows) # (r \in rows') =>
                    \E c \in Callers :
                      pc[c] = "body" /\ pc'[c] = "release" /\ tenant[c] = r.tenant
<1>1. ASSUME IInv, [Next]_vars PROVE [Own]_vars
  <2> SUFFICES ASSUME NEW r \in Rows, (r \in rows) # (r \in rows')
               PROVE  \E c \in Callers : /\ pc[c] = "body" /\ pc'[c] = "release"
                                         /\ tenant[c] = r.tenant
    OBVIOUS
  <2>1. PICK c \in Callers : /\ pc[c] = "body" /\ pc' = [pc EXCEPT ![c] = "release"]
                             /\ rows' = Durable(conn[c])
    BY <1>1, WhoChangesRows
  <2> QED BY <1>1, <2>1, DurableOwnRows DEF IInv, TypeOK
<1> QED BY <1>1, AlwaysIInv, PTL DEF Spec, CommitsOwnRows

-----------------------------------------------------------------------------
(* TenantTxn implements TenantStore. *)

\* The mapping of the store's changes and failed.
Changes == [c \in Callers |-> IF InBody(c) THEN draft[conn[c]] ELSE Clean]
Failed == [c \in Callers |-> InBody(c) /\ txn[conn[c]] = "aborted"]

\* A caller has ended exactly when its history says so.
Left == \A c \in Callers : ended[c] = "no" <=> pc[c] \notin {"release", "done"}

LEMMA AlwaysLeft == Spec => []Left
<1>1. Init => Left
  BY DEF Init, Left
<1>2. ASSUME IInv, Left, [Next]_vars PROVE Left'
  <2>1. CASE UNCHANGED vars
    BY <1>2, <2>1 DEF vars, callerVars, Left
  <2>2. ASSUME NEW c \in Callers,
               Commit(c) \/ Rollback(c) \/ LoseConn(c) \/ GiveUp(c)
        PROVE  Left'
    BY <1>2, <2>2 DEF Commit, Rollback, LoseConn, GiveUp, Leave, Goto, Left, IInv, TypeOK
  <2>3. ASSUME NEW c \in Callers,
               \/ Enter(c) \/ Begin(c) \/ SetTenant(c) \/ Release(c)
               \/ \E k \in Conns : Acquire(c, k)
        PROVE  Left'
    BY <1>2, <2>3 DEF Enter, Begin, SetTenant, Release, Acquire, Goto, Left, IInv, TypeOK
  <2>4. ASSUME NEW c \in Callers,
               Select(c) \/ Wake(c) \/ BreakDeadlock(c) \/ \E s \in Statements : Write(c, s)
        PROVE  Left'
    BY <1>2, <2>4 DEF Select, Wake, BreakDeadlock, Write, Left
  <2>5. ASSUME NEW k \in Conns, Unscoped(k) \/ Recycle(k) PROVE Left'
    BY <1>2, <2>5 DEF Unscoped, Recycle, callerVars, Left
  <2> QED BY <1>2, <2>1, <2>2, <2>3, <2>4, <2>5 DEF Next, Step
<1> QED BY <1>1, <1>2, AlwaysIInv, PTL DEF Spec

\* What would be stored of a caller in its body, and of one that is not.
LEMMA AfterIs ==
  ASSUME IInv, NEW c \in Callers
  PROVE  /\ Store!After(c) = IF pc[c] = "body" THEN Durable(conn[c]) ELSE rows
         /\ pc[c] = "body" => Store!After(c) = View(conn[c])
<1>1. CASE pc[c] = "body"
  <2>1. conn[c] \in Conns /\ Changes[c] = draft[conn[c]]
    BY <1>1 DEF Changes, InBody, IInv, TypeOK, HoldsConn
  <2>2. Store!After(c) = View(conn[c])
    BY <2>1 DEF Store!After, Store!Rows, View, Rows, Changes
  <2>3. txn[conn[c]] # "open" => View(conn[c]) = rows
    BY <2>1 DEF View, Clean, IInv, TypeOK, OpenTxn
  <2> QED BY <1>1, <2>2, <2>3 DEF Durable
<1>2. CASE pc[c] # "body"
  <2>1. Changes[c] = Clean
    BY <1>2 DEF Changes, InBody
  <2> QED BY <1>2, <2>1 DEF Store!After, Store!Rows, Rows, Clean, Changes, IInv, TypeOK
<1> QED BY <1>1, <1>2

\* Leaving with how ends the caller in the store: its changes are taken from it.
LEMMA Ends ==
  ASSUME IInv, Left, NEW c \in Callers, pc[c] \in {"acquire", "begin", "scope", "body"},
         NEW p \in {"release", "done"}, Goto(c, p),
         NEW how, ended' = [ended EXCEPT ![c] = how], UNCHANGED <<tenant, seen, conn>>,
         \/ UNCHANGED connVars
         \/ conn[c] \in Conns /\ \E g : EndTxn(conn[c], g)
  PROVE  Store!End(c, how)
<1>1. ended[c] = "no"
  BY DEF Left
<1>2. ASSUME NEW d \in Callers \ {c}, pc[d] = "body"
      PROVE  /\ pc'[d] = "body" /\ conn'[d] = conn[d]
             /\ draft'[conn[d]] = draft[conn[d]] /\ txn'[conn[d]] = txn[conn[d]]
  <2>1. conn[d] # NoConn /\ conn[d] # conn[c] /\ conn[d] \in Conns
    BY <1>2 DEF IInv, TypeOK, HoldsConn, ConnExclusive
  <2> QED BY <1>2, <2>1 DEF Goto, EndTxn, connVars, IInv, TypeOK
<1>3. \A d \in Callers \ {c} : pc[d] # "body" => pc'[d] # "body"
  BY DEF Goto, IInv, TypeOK
<1>4. pc'[c] # "body"
  BY DEF Goto, IInv, TypeOK
<1>5. Changes' = [Changes EXCEPT ![c] = Store!Nothing]
  BY <1>2, <1>3, <1>4 DEF Changes, InBody, Clean, Rows, Store!Nothing, Store!Rows
<1>6. Failed' = [Failed EXCEPT ![c] = FALSE]
  <2>1. ASSUME NEW d \in Callers \ {c}
        PROVE  (InBody(d) /\ txn[conn[d]] = "aborted")' = (InBody(d) /\ txn[conn[d]] = "aborted")
    BY <1>2, <1>3, <2>1 DEF InBody
  <2>2. (InBody(c) /\ txn[conn[c]] = "aborted")' = FALSE
    BY <1>4 DEF InBody
  <2> QED BY <2>1, <2>2, Zenon DEF Failed
<1> QED BY <1>1, <1>5, <1>6 DEF Store!End, Changes, Failed

LEMMA EndsStore ==
  ASSUME IInv, Left, NEW c \in Callers
  PROVE  /\ Commit(c) => Store!Return(c)
         /\ GiveUp(c) \/ Rollback(c) => Store!Raise(c)
         /\ LoseConn(c) => Store!Lose(c)
<1>1. pc[c] \in {"begin", "scope", "body"} => conn[c] \in Conns
  BY DEF IInv, TypeOK, HoldsConn
<1>2. ASSUME Commit(c) PROVE Store!Return(c)
  BY <1>1, <1>2, Ends, AfterIs DEF Commit, Leave, Store!Return
<1>3. ASSUME GiveUp(c) PROVE Store!Raise(c)
  BY <1>3, Ends DEF GiveUp, Store!Raise
<1>4. ASSUME Rollback(c) PROVE Store!Raise(c)
  BY <1>1, <1>4, Ends DEF Rollback, Leave, Store!Raise
<1>5. ASSUME LoseConn(c) PROVE Store!Lose(c)
  BY <1>1, <1>5, Ends, AfterIs DEF LoseConn, Leave, Store!Lose
<1> QED BY <1>2, <1>3, <1>4, <1>5

\* A running caller is an open one of the store.
LEMMA RunningIsOpen ==
  ASSUME IInv, Left, NEW c \in Callers, pc[c] = "body", txn[conn[c]] = "open"
  PROVE  Store!Open(c) /\ conn[c] \in Conns /\ tenant[c] = guc[conn[c]]
<1>1. ended[c] = "no" /\ conn[c] \in Conns /\ tenant[c] = guc[conn[c]]
  BY DEF Left, IInv, TypeOK, HoldsConn, Scoped
<1>2. ~Failed[c]
  BY DEF Failed
<1> QED BY <1>1, <1>2 DEF Store!Open, Failed

\* A step in one body leaves what the store says of the others.
LEMMA OthersStay ==
  ASSUME IInv, NEW c \in Callers, pc[c] = "body", NEW d \in Callers \ {c},
         UNCHANGED <<pc, conn>>,
         \A j \in Conns \ {conn[c]} : draft'[j] = draft[j] /\ txn'[j] = txn[j]
  PROVE  /\ Changes'[d] = Changes[d]
         /\ (InBody(d) /\ txn[conn[d]] = "aborted")' <=> (InBody(d) /\ txn[conn[d]] = "aborted")
<1>1. pc[d] = "body" => conn[d] \in Conns \ {conn[c]}
  BY DEF IInv, TypeOK, HoldsConn, ConnExclusive
<1> QED BY <1>1 DEF Changes, InBody

LEMMA AbortFails ==
  ASSUME IInv, Left, NEW c \in Callers, pc[c] = "body", txn[conn[c]] = "open",
         AbortTxn(conn[c]), UNCHANGED <<pc, tenant, conn, seen, ended>>
  PROVE  Store!Fail(c)
<1>1. Store!Open(c) /\ conn[c] \in Conns
  BY RunningIsOpen
<1>2. /\ \A j \in Conns \ {conn[c]} : draft'[j] = draft[j] /\ txn'[j] = txn[j]
      /\ draft'[conn[c]] = Clean /\ txn'[conn[c]] = "aborted" /\ UNCHANGED rows
  BY <1>1 DEF AbortTxn, IInv, TypeOK
<1>3. Changes' = [Changes EXCEPT ![c] = Store!Nothing]
  <2>1. Changes'[c] = Store!Nothing
    BY <1>2 DEF Changes, InBody, Clean, Rows, Store!Nothing, Store!Rows
  <2>2. \A d \in Callers \ {c} : Changes'[d] = Changes[d]
    BY <1>2, OthersStay
  <2> QED BY <2>1, <2>2 DEF Changes
<1>4. Failed' = [Failed EXCEPT ![c] = TRUE]
  <2>1. (InBody(c) /\ txn[conn[c]] = "aborted")' = TRUE
    BY <1>2 DEF InBody
  <2>2. \A d \in Callers \ {c} :
          (InBody(d) /\ txn[conn[d]] = "aborted")' = (InBody(d) /\ txn[conn[d]] = "aborted")
    BY <1>2, OthersStay
  <2> QED BY <2>1, <2>2, Zenon DEF Failed
<1> QED BY <1>1, <1>2, <1>3, <1>4 DEF Store!Fail, Changes, Failed

\* A statement that finds its row and waits for nobody fails or changes one own row.
LEMMA ApplyChanges ==
  ASSUME IInv, Left, NEW c \in Callers, pc[c] = "body", txn[conn[c]] = "open",
         NEW s \in Statements, Finds(conn[c], s), ~Waits(conn[c], s), Apply(conn[c], s),
         \A r \in Touched(s) : r.tenant = tenant[c],
         UNCHANGED <<pc, tenant, conn, seen, ended>>
  PROVE  Store!Next
<1> DEFINE k == conn[c]
           x == IF s.puts # NoRow THEN s.puts ELSE s.takes
           how == IF s.puts # NoRow THEN "present" ELSE "absent"
<1>1. CASE Duplicate(k, s)
  <2>1. Store!Fail(c)
    BY <1>1, AbortFails DEF Apply
  <2> QED BY <2>1 DEF Store!Next
<1>2. CASE ~Duplicate(k, s)
  <2>1. Store!Open(c) /\ k \in Conns
    BY RunningIsOpen
  <2>2. x \in Rows /\ x.tenant = tenant[c] /\ Touched(s) = {x}
    BY NoRowAssumption DEF Statements, Touched, Rows
  <2>3. /\ UNCHANGED <<guc, txn, rows, unscoped>>
        /\ draft' = [draft EXCEPT ![k] =
                       [r \in Rows |-> IF r = s.puts THEN "present"
                                       ELSE IF r = s.takes THEN "absent"
                                       ELSE draft[k][r]]]
    BY <1>2 DEF Apply
  <2>4. draft'[k] = [draft[k] EXCEPT ![x] = how]
    <3>1. draft[k] \in [Rows -> {"same", "present", "absent"}]
      BY <2>1 DEF IInv, TypeOK
    <3>2. \A r \in Rows : draft'[k][r] = IF r = x THEN how ELSE draft[k][r]
      BY <2>1, <2>2, <2>3, NoRowAssumption DEF IInv, TypeOK, Touched
    <3> QED BY <2>1, <2>3, <3>1, <3>2 DEF IInv, TypeOK
  <2>5. /\ \A d \in Callers \ {c} : Changes'[d] = Changes[d]
        /\ Failed' = Failed
    <3>1. \A j \in Conns \ {k} : draft'[j] = draft[j] /\ txn'[j] = txn[j]
      BY <2>1, <2>3 DEF IInv, TypeOK
    <3>2. \A d \in Callers \ {c} : Changes'[d] = Changes[d]
      BY <3>1, OthersStay
    <3>3. Failed' = Failed
      BY <2>3 DEF Failed, InBody
    <3> QED BY <3>2, <3>3
  <2>6. Changes' = [Changes EXCEPT ![c] = [@ EXCEPT ![x] = how]]
    <3>1. Changes'[c] = [Changes[c] EXCEPT ![x] = how]
      BY <2>4 DEF Changes, InBody
    <3> QED BY <2>5, <3>1 DEF Changes
  <2>7. \A d \in Callers \ {c} : Changes[d][x] = "same"
    <3> SUFFICES ASSUME NEW d \in Callers \ {c} PROVE Changes[d][x] = "same"
      OBVIOUS
    <3>1. CASE InBody(d)
      <4>1. conn[d] \in Conns \ {k}
        BY <3>1 DEF InBody, IInv, TypeOK, HoldsConn, ConnExclusive
      <4>2. draft[conn[d]][x] = "same"
        BY <2>2, <4>1 DEF Waits, Locked
      <4> QED BY <3>1, <4>2 DEF Changes
    <3>2. CASE ~InBody(d)
      BY <2>2, <3>2 DEF Changes, Clean
    <3> QED BY <3>1, <3>2
  <2>8. how = "absent" => x \in Store!After(c)
    BY <2>2, AfterIs DEF Finds, Visible, Touched
  <2>9. Store!Change(c, x, how)
    <3>1. x \in Store!Own(c) /\ x \in Store!Rows /\ how \in {"present", "absent"}
      BY <2>2 DEF Store!Own, Store!Rows, Rows
    <3> QED BY <2>1, <2>3, <2>5, <2>6, <2>7, <2>8, <3>1 DEF Store!Change, Changes, Failed
  <2>10. x \in Store!Rows /\ how \in {"present", "absent"}
    BY <2>2 DEF Store!Rows, Rows
  <2> QED BY <2>9, <2>10 DEF Store!Next
<1> QED BY <1>1, <1>2

LEMMA SelectReads ==
  ASSUME IInv, Left, NEW c \in Callers, Select(c) PROVE [Store!Next]_(Store!vars)
<1>1. pc[c] = "body" /\ txn[conn[c]] = "open"
  BY DEF Select, Running
<1>2. CASE AbortTxn(conn[c]) /\ UNCHANGED seen
  BY <1>1, <1>2, AbortFails DEF Select, Store!Next
<1>3. CASE /\ seen' = [seen EXCEPT ![c] = @ \cup Visible(conn[c])]
           /\ UNCHANGED <<connVars, rows, unscoped>>
  <2>1. Visible(conn[c]) = Store!Own(c) \cap Store!After(c)
    BY <1>1, AfterIs, RunningIsOpen DEF Visible, View, Admits, Store!Own, Store!Rows, Rows
  <2>2. Changes' = Changes /\ Failed' = Failed
    BY <1>3 DEF Select, connVars, Changes, Failed, InBody
  <2>3. Store!Read(c)
    BY <1>1, <1>3, <2>1, <2>2, RunningIsOpen DEF Select, Store!Read, Changes, Failed
  <2> QED BY <2>3 DEF Store!Next
<1> QED BY <1>2, <1>3 DEF Select

LEMMA StatementChanges ==
  ASSUME IInv, Left, NEW c \in Callers,
         Wake(c) \/ BreakDeadlock(c) \/ \E s \in Statements : Write(c, s)
  PROVE  [Store!Next]_(Store!vars)
<1>1. ASSUME UNCHANGED <<pc, tenant, conn, seen, ended, connVars, rows, unscoped>>
      PROVE  [Store!Next]_(Store!vars)
  <2>1. Changes' = Changes /\ Failed' = Failed
    BY <1>1 DEF connVars, Changes, Failed, InBody
  <2> QED BY <1>1, <2>1 DEF Store!vars, Changes, Failed
<1>2. CASE Wake(c)
  <2>1. /\ stmt[c] \in Statements /\ pc[c] = "body" /\ txn[conn[c]] = "open"
        /\ \A r \in Touched(stmt[c]) : r.tenant = tenant[c]
    BY <1>2 DEF Wake, IInv, TypeOK, BlockedOnOwnRows
  <2> QED BY <1>1, <1>2, <2>1, ApplyChanges DEF Wake
<1>3. CASE BreakDeadlock(c)
  <2>1. pc[c] = "body" /\ txn[conn[c]] = "open"
    BY <1>3 DEF BreakDeadlock, IInv, BlockedOnOwnRows
  <2>2. Store!Fail(c)
    BY <1>3, <2>1, AbortFails DEF BreakDeadlock
  <2> QED BY <2>2 DEF Store!Next
<1>4. ASSUME NEW s \in Statements, Write(c, s) PROVE [Store!Next]_(Store!vars)
  <2>1. pc[c] = "body" /\ txn[conn[c]] = "open" /\ conn[c] \in Conns
        /\ tenant[c] = guc[conn[c]] /\ UNCHANGED <<pc, tenant, conn, seen, ended>>
    BY <1>4, RunningIsOpen DEF Write, Running
  <2>2. CASE AbortTxn(conn[c])
    BY <2>1, <2>2, AbortFails DEF Store!Next
  <2>3. CASE ~Refused(conn[c], s) /\ Finds(conn[c], s) /\ ~Waits(conn[c], s) /\ Apply(conn[c], s)
    BY <2>1, <2>3, WritesOwnRows, ApplyChanges
  <2>4. CASE UNCHANGED <<connVars, rows, unscoped>>
    BY <1>1, <2>1, <2>4
  <2> QED BY <1>4, <2>2, <2>3, <2>4 DEF Write
<1> QED BY <1>2, <1>3, <1>4

\* Steps on the way to the body and after it are none of the store.
LEMMA OutsideStutters ==
  ASSUME IInv, NEW c \in Callers,
         \/ Enter(c) \/ Begin(c) \/ SetTenant(c) \/ Release(c)
         \/ \E k \in Conns : Acquire(c, k)
  PROVE  UNCHANGED Store!vars
<1>1. UNCHANGED <<tenant, rows, seen, ended>>
  BY DEF Enter, Begin, SetTenant, Release, Acquire
<1>2. \A d \in Callers \ {c} :
        /\ InBody(d)' = InBody(d)
        /\ InBody(d) => /\ conn'[d] = conn[d] /\ draft'[conn[d]] = draft[conn[d]]
                        /\ txn'[conn[d]] = txn[conn[d]]
  <2> SUFFICES ASSUME NEW d \in Callers \ {c}
               PROVE  /\ InBody(d)' = InBody(d)
                      /\ InBody(d) => /\ conn'[d] = conn[d]
                                      /\ draft'[conn[d]] = draft[conn[d]]
                                      /\ txn'[conn[d]] = txn[conn[d]]
    OBVIOUS
  <2>1. InBody(d)' = InBody(d) /\ conn'[d] = conn[d] /\ UNCHANGED draft
    BY DEF Enter, Begin, SetTenant, Release, Acquire, Goto, InBody, connVars, IInv, TypeOK
  <2>2. InBody(d) => txn'[conn[d]] = txn[conn[d]]
    BY DEF Enter, Begin, SetTenant, Release, Acquire, Goto, InBody, connVars, IInv, TypeOK,
       HoldsConn, ConnExclusive
  <2> QED BY <2>1, <2>2
<1>3. Changes'[c] = Clean /\ Changes[c] = Clean /\ Failed'[c] = FALSE /\ Failed[c] = FALSE
  <2>1. CASE SetTenant(c)
    <3>1. /\ pc[c] = "scope" /\ conn[c] \in Conns /\ txn[conn[c]] = "open"
          /\ UNCHANGED <<conn, draft, txn>> /\ pc'[c] = "body"
      BY <2>1 DEF SetTenant, Goto, IInv, TypeOK, HoldsConn, OpenTxn
    <3>2. \A r \in Rows : draft[conn[c]][r] = "same"
      BY <3>1, NoBodyNoTenant, SentinelAssumption DEF IInv, ConnExclusive
    <3>3. draft[conn[c]] = Clean
      BY <3>1, <3>2 DEF IInv, TypeOK, Clean
    <3>4. Changes'[c] = Clean /\ Changes[c] = Clean
      BY <3>1, <3>3 DEF Changes, InBody
    <3>5. ~InBody(c) /\ (txn[conn[c]] = "aborted")' = FALSE
      BY <3>1 DEF InBody
    <3> QED BY <3>4, <3>5, Zenon DEF Failed
  <2>2. CASE ~SetTenant(c)
    <3>1. ~InBody(c) /\ ~InBody(c)'
      BY <2>2 DEF Enter, Begin, Release, Acquire, Goto, InBody, IInv, TypeOK
    <3> QED BY <3>1, Zenon DEF Failed, Changes
  <2> QED BY <2>1, <2>2
<1>4. Changes' = Changes
  BY <1>2, <1>3 DEF Changes
<1>5. Failed' = Failed
  <2>1. \A d \in Callers : (InBody(d) /\ txn[conn[d]] = "aborted")'
                            = (InBody(d) /\ txn[conn[d]] = "aborted")
    <3>1. ASSUME NEW d \in Callers \ {c}
          PROVE (InBody(d) /\ txn[conn[d]] = "aborted")' = (InBody(d) /\ txn[conn[d]] = "aborted")
      BY <1>2, <3>1, Zenon
    <3>2. (InBody(c) /\ txn[conn[c]] = "aborted")' = (InBody(c) /\ txn[conn[c]] = "aborted")
      BY <1>3, Zenon DEF Failed
    <3> QED BY <3>1, <3>2
  <2> QED BY <2>1, Zenon DEF Failed
<1> QED BY <1>1, <1>4, <1>5 DEF Store!vars, Changes, Failed

LEMMA StoreStep == ASSUME IInv, Left, [Next]_vars PROVE [Store!Next]_(Store!vars)
<1>1. ASSUME NEW c \in Callers, Commit(c) \/ GiveUp(c) \/ Rollback(c) \/ LoseConn(c)
      PROVE  Store!Next
  BY <1>1, EndsStore DEF Store!Next
<1>2. ASSUME UNCHANGED <<pc, tenant, conn, seen, ended, draft, txn, rows>>
      PROVE  UNCHANGED Store!vars
  <2>1. Changes' = Changes /\ Failed' = Failed
    BY <1>2 DEF Changes, Failed, InBody
  <2> QED BY <1>2, <2>1 DEF Store!vars, Changes, Failed
<1>3. ASSUME NEW k \in Conns, Unscoped(k) \/ Recycle(k) PROVE UNCHANGED Store!vars
  BY <1>2, <1>3 DEF Unscoped, Recycle, callerVars, connVars
<1>4. CASE UNCHANGED vars
  BY <1>2, <1>4 DEF vars, callerVars, connVars
<1> QED BY <1>1, <1>3, <1>4, SelectReads, StatementChanges, OutsideStutters DEF Next, Step

LEMMA StoreInit == Init => Store!Init
<1> SUFFICES ASSUME Init PROVE Store!Init
  OBVIOUS
<1>1. rows \in SUBSET Store!Rows
  BY DEF Init, Rows, Store!Rows
<1>2. \A c \in Callers : ~InBody(c)
  BY DEF Init, InBody
<1>3. Changes = [c \in Callers |-> Store!Nothing]
  BY <1>2 DEF Changes, Clean, Rows, Store!Nothing, Store!Rows
<1>4. Failed = [c \in Callers |-> FALSE]
  BY <1>2, Zenon DEF Failed
<1> QED BY <1>1, <1>3, <1>4 DEF Init, Store!Init, Changes, Failed

\* Every use of tenant_txn over the pool and the policies is one atomic transaction of the
\* store: completely stored when the body returned, else as ended says.
THEOREM Refinement == Spec => ImplementsStore
  BY StoreInit, StoreStep, AlwaysIInv, AlwaysLeft, PTL DEF Spec, Store!Spec, ImplementsStore
=============================================================================
