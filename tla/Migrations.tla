------------------------------ MODULE Migrations ------------------------------
(***************************************************************************)
(* scripts/apply_migrations.py and the four files of supabase/migrations:  *)
(* what they make of the database that the service's transactions use at   *)
(* the same time.                                                          *)
(*                                                                         *)
(* asyncpg sends a file as one query string, so a file is one transaction. *)
(* Postgres is external: the catalog as facts about its objects, and the   *)
(* table locks its statements take and keep until their transaction ends.  *)
(***************************************************************************)
EXTENDS Naturals, Sequences, FiniteSets

CONSTANTS Runners,       \* processes running the script
          Clients,       \* transactions of the service, as app_user
          TenantTables,  \* documents and chunks, in the order of their files
          KeyTable,      \* widget_keys
          Db,            \* the database itself, for its role and grants
  MaxRuns        \* bound: how often the script is started

ASSUME MigrationsAssumption ==
  /\ Runners \cap Clients = {}
  /\ \A f \in DOMAIN TenantTables : TenantTables[f] \notin {KeyTable, Db}
  /\ \A f, g \in DOMAIN TenantTables : TenantTables[f] = TenantTables[g] => f = g
  /\ KeyTable # Db
  /\ Len(TenantTables) \in Nat /\ DOMAIN TenantTables = 1 .. Len(TenantTables)
  /\ MaxRuns \in Nat

Sessions == Runners \cup Clients

\* 0001, one file per tenant table, and widget_keys.
LastFile == Len(TenantTables) + 2

Script(f) ==
  CASE f = 1 -> <<"role", "grant">>
    [] f = LastFile -> <<"table", "grant">>
    [] OTHER -> <<"table", "index", "rls", "forced", "drop", "policy", "grant">>

On(f) ==
  CASE f = 1 -> Db
    [] f = LastFile -> KeyTable
    [] OTHER -> TenantTables[f - 1]

Objects == {On(f) : f \in 1 .. LastFile}

\* <<"policy", t>>: the table t has the policy tenant_isolation, and so on.
Facts == {"role", "grant", "table", "rls", "forced", "policy"} \X Objects

Modes == {"AccessShare", "RowExclusive", "Share", "AccessExclusive"}
Conflicts == {{"AccessExclusive", m} : m \in Modes} \cup {{"RowExclusive", "Share"}}

VARIABLES
  catalog,  \* the committed facts
  draft,    \* per runner: what its open transaction adds and drops
  file,     \* per runner: the file it applies, 0 when it does not run
  line,     \* and the position of its next statement there
  result,   \* how its last run ended
  runs,     \* how many runs were started
  locks,    \* per session: the table locks it holds
  open,     \* per client: whether it has a transaction
  wish      \* per client: the lock its current statement asks for

runnerVars == <<draft, file, line, result, runs>>
clientVars == <<open, wish>>
dbVars == <<catalog, locks, runnerVars, clientVars>>

NoDraft == [add |-> {}, drop |-> {}]
LockSet == SUBSET (Modes \X Objects)

DbTypeOK ==
  /\ catalog \subseteq Facts
  /\ draft \in [Runners -> [add : SUBSET Facts, drop : SUBSET Facts]]
  /\ file \in [Runners -> 0 .. LastFile]
  /\ line \in [Runners -> 1 .. 8]
  /\ result \in [Runners -> {"none", "ok", "failed"}]
  /\ runs \in 0 .. MaxRuns
  /\ locks \in [Sessions -> LockSet]
  /\ open \in [Clients -> BOOLEAN]
  /\ wish \in [Clients -> LockSet]

DbInit ==
  /\ catalog = {}
  /\ draft = [m \in Runners |-> NoDraft]
  /\ file = [m \in Runners |-> 0]
  /\ line = [m \in Runners |-> 1]
  /\ result = [m \in Runners |-> "none"]
  /\ runs = 0
  /\ locks = [s \in Sessions |-> {}]
  /\ open = [c \in Clients |-> FALSE]
  /\ wish = [c \in Clients |-> {}]

-----------------------------------------------------------------------------
(* Waiting. *)

Running(m) == file[m] # 0
AtEnd(m) == line[m] > Len(Script(file[m]))
Do(m) == Script(file[m])[line[m]]
Fact(m) == <<Do(m), On(file[m])>>

Seen(m) == (catalog \ draft[m].drop) \cup draft[m].add

\* IF NOT EXISTS finds it there.
Skips(m) == Do(m) \in {"role", "table"} /\ Fact(m) \in Seen(m)

\* CREATE INDEX keeps writers out, whether or not the index exists; the statements after
\* it keep everyone out.  A table just created is locked; GRANT locks none.
Needs(m) ==
  CASE Do(m) = "index" -> {<<"Share", On(file[m])>>}
    [] Do(m) \in {"rls", "forced", "drop", "policy"} -> {<<"AccessExclusive", On(file[m])>>}
    [] Do(m) = "table" /\ ~Skips(m) -> {<<"AccessExclusive", On(file[m])>>}
    [] OTHER -> {}

HeldAgainst(s, want) ==
  {q \in Sessions \ {s} :
     \E l \in locks[q], w \in want : l[2] = w[2] /\ {l[1], w[1]} \in Conflicts}

\* Two open transactions do not create, or change the grants of, the same object.
Writers(m) ==
  {q \in Runners \ {m} : Do(m) \in {"role", "table", "grant"} /\ Fact(m) \in draft[q].add}

Blockers(s) ==
  IF s \in Clients THEN HeldAgainst(s, wish[s])
  ELSE IF ~Running(s) \/ AtEnd(s) THEN {}
  ELSE HeldAgainst(s, Needs(s)) \cup Writers(s)

Deadlocked(s) ==
  \E S \in SUBSET Sessions :
    s \in S /\ \A q \in S : Blockers(q) \cap S # {} /\ \E w \in S : q \in Blockers(w)

-----------------------------------------------------------------------------
(* A run of the script. *)

StartRun(m) ==
  /\ ~Running(m) /\ runs < MaxRuns
  /\ runs' = runs + 1
  /\ file' = [file EXCEPT ![m] = 1]
  /\ line' = [line EXCEPT ![m] = 1]
  /\ result' = [result EXCEPT ![m] = "none"]
  /\ UNCHANGED <<catalog, draft, locks, clientVars>>

\* Variant: each statement commits by itself.
ExecAutocommit(m) ==
  /\ Running(m) /\ ~AtEnd(m) /\ Blockers(m) = {}
  /\ line' = [line EXCEPT ![m] = @ + 1]
  /\ catalog' = CASE Do(m) = "index" -> catalog
                  [] Do(m) = "drop" -> catalog \ {<<"policy", On(file[m])>>}
                  [] OTHER -> catalog \cup {Fact(m)}
  /\ UNCHANGED <<draft, file, result, runs, locks, clientVars>>

\* The next statement, once nobody blocks it.
Exec(m) ==
  /\ Running(m) /\ ~AtEnd(m) /\ Blockers(m) = {}
  /\ line' = [line EXCEPT ![m] = @ + 1]
  /\ locks' = [locks EXCEPT ![m] = @ \cup Needs(m)]
  /\ draft' =
       IF Do(m) = "index" \/ Skips(m) THEN draft
       ELSE [draft EXCEPT ![m] =
         IF Do(m) = "drop"
         THEN [add |-> @.add \ {<<"policy", On(file[m])>>},
               drop |-> @.drop \cup {<<"policy", On(file[m])>>}]
         ELSE [add |-> @.add \cup {Fact(m)}, drop |-> @.drop \ {Fact(m)}]]
  /\ UNCHANGED <<catalog, file, result, runs, clientVars>>

EndTransaction(m) ==
  /\ draft' = [draft EXCEPT ![m] = NoDraft]
  /\ locks' = [locks EXCEPT ![m] = {}]
  /\ line' = [line EXCEPT ![m] = 1]

\* The end of a file commits it; the next file, or the end of the run.
CommitFile(m) ==
  /\ Running(m) /\ AtEnd(m)
  /\ catalog' = Seen(m)
  /\ EndTransaction(m)
  /\ IF file[m] = LastFile
     THEN file' = [file EXCEPT ![m] = 0] /\ result' = [result EXCEPT ![m] = "ok"]
     ELSE file' = [file EXCEPT ![m] = @ + 1] /\ UNCHANGED result
  /\ UNCHANGED <<runs, clientVars>>

\* Variant: a file that fails is passed over.
FailOver(m) ==
  /\ Running(m)
  /\ EndTransaction(m)
  /\ IF file[m] = LastFile
     THEN file' = [file EXCEPT ![m] = 0] /\ result' = [result EXCEPT ![m] = "ok"]
     ELSE file' = [file EXCEPT ![m] = @ + 1] /\ UNCHANGED result
  /\ UNCHANGED <<catalog, runs, clientVars>>

\* Variant: the session of a run that failed stays, idle in its transaction.
FailOpen(m) ==
  /\ Running(m)
  /\ file' = [file EXCEPT ![m] = 0]
  /\ result' = [result EXCEPT ![m] = "failed"]
  /\ draft' = [draft EXCEPT ![m] = NoDraft]
  /\ line' = [line EXCEPT ![m] = 1]
  /\ UNCHANGED <<catalog, runs, locks, clientVars>>

\* A statement raises (lost a race with another run, say), the connection breaks or the
\* process stops: Postgres rolls the file back.
Fail(m) ==
  /\ Running(m)
  /\ EndTransaction(m)
  /\ file' = [file EXCEPT ![m] = 0]
  /\ result' = [result EXCEPT ![m] = "failed"]
  /\ UNCHANGED <<catalog, runs, clientVars>>

-----------------------------------------------------------------------------
(* A transaction of the service. *)

Begin(c) ==
  /\ ~open[c]
  /\ open' = [open EXCEPT ![c] = TRUE]
  /\ UNCHANGED <<catalog, locks, runnerVars, wish>>

\* A query or a change of a table asks for its lock; only the keys are read by anyone.
Ask(c) ==
  /\ open[c] /\ wish[c] = {}
  /\ \E mode \in {"AccessShare", "RowExclusive"}, t \in Objects \ {Db} :
       /\ t = KeyTable => mode = "AccessShare"
       /\ wish' = [wish EXCEPT ![c] = {<<mode, t>>}]
  /\ UNCHANGED <<catalog, locks, runnerVars, open>>

\* It gets the lock, where app_user may use the table at all.
Take(c) ==
  /\ wish[c] # {} /\ Blockers(c) = {}
  /\ \A w \in wish[c] : <<"grant", w[2]>> \in catalog
  /\ locks' = [locks EXCEPT ![c] = @ \cup wish[c]]
  /\ wish' = [wish EXCEPT ![c] = {}]
  /\ UNCHANGED <<catalog, runnerVars, open>>

CloseTransaction(c) ==
  /\ open' = [open EXCEPT ![c] = FALSE]
  /\ wish' = [wish EXCEPT ![c] = {}]
  /\ locks' = [locks EXCEPT ![c] = {}]
  /\ UNCHANGED <<catalog, runnerVars>>

\* It commits, rolls back, or is refused.
End(c) ==
  /\ open[c]
  /\ wish[c] = {} \/ \E w \in wish[c] : <<"grant", w[2]>> \notin catalog
  /\ CloseTransaction(c)

\* The deadlock detector raises in one of the ring.
Break(s) ==
  /\ Deadlocked(s)
  /\ IF s \in Runners THEN Fail(s) ELSE CloseTransaction(s)

Apply(m) == Exec(m) \/ CommitFile(m)
Work(c) == Ask(c) \/ Take(c) \/ End(c)

DbNext ==
  \/ \E m \in Runners : StartRun(m) \/ Apply(m) \/ Fail(m) \/ Break(m)
  \/ \E c \in Clients : Begin(c) \/ Work(c) \/ Break(c)

DbSpec == DbInit /\ [][DbNext]_dbVars

\* Statements and commits are carried out; a lock queue is first in, first out, so who can
\* get a lock again and again gets it; transactions of the service do end.
DbFairness ==
  /\ \A m \in Runners : SF_dbVars(Apply(m)) /\ WF_dbVars(Break(m))
  /\ \A c \in Clients : SF_dbVars(Take(c)) /\ SF_dbVars(End(c)) /\ WF_dbVars(Break(c))

-----------------------------------------------------------------------------
(* Properties. *)

Guards(t) == {<<"rls", t>>, <<"forced", t>>, <<"policy", t>>}

\* At no instant, on a first run, a re-run, two at once or one that stops half-way, does
\* app_user hold a grant on a tenant table whose row security is off, not forced or
\* without its policy.
Protected ==
  \A f \in DOMAIN TenantTables :
    <<"grant", TenantTables[f]>> \in catalog => Guards(TenantTables[f]) \subseteq catalog

\* A run that reported success leaves every table, guard and grant in place, and nothing
\* that runs beside it or after it takes one away.
SuccessMeansMigrated ==
  \A m \in Runners : result[m] = "ok" =>
    \A f \in 1 .. LastFile :
      \A i \in DOMAIN Script(f) :
        Script(f)[i] \notin {"index", "drop"} => <<Script(f)[i], On(f)>> \in catalog

\* A run ends, whatever transactions and other runs it waits for.
EveryRunEnds == \A m \in Runners : Running(m) ~> ~Running(m)
=============================================================================
