# Formal models of honest-agent

TLA+ models, TLC configurations and TLAPS proofs for the multi-tenant spine of honest-agent: the
database access path, the doors through which tenants are resolved, the vector index, the seeding of
both directories, and the deployment around them: migrations, start and stop, the end-to-end script.
The code is the reference; where a comment or document disagrees with it, the model follows the code
and a run records the difference.

Paths below are relative to `src/`; `app/` is `backend/src/app/`.

## The system

honest-agent answers questions for tenants. One FastAPI process serves three doors. Each resolves
a tenant from its own credential and hands it to one core call, `answer(tenant_id, query)`, today a
stub. Tenant data is in Postgres behind row-level security and (later) in a Weaviate index.

| component | state it keeps | operations | hard parts |
|---|---|---|---|
| Tenant-scoped database access, `app/core/db.py`, `supabase/migrations/0001`-`0003` | pool of connections; per session `app.tenant_id`, a transaction; tables `documents`, `chunks` | `tenant_txn` | callers interleave at every await; sessions are reused across tenants; row locks, deadlock, cancellation, lost connections |
| Visitor door, `app/tenants/gate.py`, `widget_keys.py`, `rate_limit.py`, `widget_router.py` | table `widget_keys`; the request being handled | middleware, `authorize`, `lookup`, limiter, route | keys change under requests in flight; order of checks; bodies of unknown length |
| Owner door, `app/tenants/owner_auth.py`, `router.py` | shared key cache; the executor's queue; the account's `app_metadata` | `get`, `_refresh`, `verify`, `get_owner_context` | worker threads share the cache without a lock; the provider rotates; fetches fail; tokens age and accounts move while a request waits |
| External-caller door, `app/mcp/` | a contextvar | middleware, token verification, `answer` tool, minting | the tool runs in another task than the middleware; clocks and leeway |
| Vector index, `app/retrieval/weaviate.py` | collection, shards, objects | `bootstrap_chunks`, `insert`, `count` | several processes, partial runs, lost answers |
| Seeding, `backend/scripts/seed_local.py` | `widget_keys` rows, Supabase users | three calls per user, one per key | stops anywhere, re-runs, paging |
| Host matching, `app/core/origins.py` | none | `origin_host`, `authority_host` | users, ports, paths, case, dots; look-alike hosts; values that make `urlsplit` raise |
| Error envelope, `app/core/errors.py` | none | `AppError` to problem response | what is no `AppError` escapes |
| Lifespan, `app/main.py` | pool, session manager | start, stop | failure between the two; requests in flight at a stop; a second start in one process |
| Migration runner, `backend/scripts/apply_migrations.py` | schema, policies, grants | one `execute` per file | stops half-way, re-runs, two runs at once, lock waits with the service |
| End-to-end script, `backend/scripts/e2e_doors.py` | the list of results | a login and nine checks at the three doors | faults between cases; what a pass proves |
| Stubs: `agent/service.py`, `retrieval/service.py`, the domain routers | none | | |

Interactions: the visitor door reads `widget_keys`, which seeding writes; the external-caller door
trusts tokens that another process mints; the owner door trusts users whose tenant seeding wrote;
every tenant id ends as the argument of `tenant_txn` or as a shard name; migrations take locks on the
tables whose transactions the lifespan has to wait for at a stop; the end-to-end script relies on seeding.

What makes them correct, in a sentence each: a session never acts for a tenant other than its
caller's; an answer at a door follows from one version of one credential; a shared cache or
contextvar never mixes two actors; an operation that reported success left everything it promised,
whatever failed or ran beside it.

## Modules

| module | models | used by |
|---|---|---|
| `TenantStore` | the abstract promise of tenant-scoped access | `TenantTxn` refines it |
| `TenantTxn` | `tenant_txn`, the pool, sessions, forced row security, locks | `MCTenantTxn`, `TenantTxnProofs` |
| `HostMatching` | `core/origins.py`, over sequences of characters | `VisitorGate`, `McpDoor`, `HostMatchingProofs` |
| `VisitorGate` | the visitor door and the key table under re-seeds | `MCVisitorGate`, `VisitorGateProofs` |
| `JwksResolver` | the owner door's key cache | `OwnerDoor`, with its run and proofs |
| `OwnerDoor` | the owner door on top of the cache: threads, tokens, the account | `MCOwnerDoor`, `OwnerDoorProofs` (both layers) |
| `McpDoor` | the external-caller door and the contextvar | `MCMcpDoor`, `McpDoorProofs` |
| `WeaviateIndex` | bootstrap and tenant handles | `MCWeaviateIndex`, `WeaviateIndexProofs` |
| `SeedLocal` | the seeding script | `EndToEnd` |
| `EndToEnd` | the end-to-end script beside seeding runs | `MCEndToEnd`, `EndToEndProofs` (both layers) |
| `Migrations` | the migration files, their runner, table locks, the service's transactions | `Deployment` |
| `Deployment` | the app's life beside migration runs | `MCDeployment`, `MigrationsProofs` |

An operator whose comment begins with "Variant" is the operator after it with a plausible mistake.
No action uses a variant; each is there to show that a property notices the mistake.

### TenantTxn

`pc[c]` is how far a task is in `tenant_txn`: waiting for `pool.acquire()` (`Enter`, `Acquire`,
`GiveUp`), `conn.transaction()` (`Begin`), `set_config` (`SetTenant`), the body (`Select`, `Write`,
`Wake`), the exits (`Commit`, `Rollback`, `LoseConn`) and the return of the connection (`Release`).
Per connection, `guc` is `app.tenant_id` as the session sees it, `txn` the transaction and `draft`
what it did to each row; `rows` is what is committed. A row is its tenant and content hash, the
unique key of `documents`. A statement takes a row, puts one, or both (an UPDATE, perhaps to another
tenant), so that the policy's USING and WITH CHECK act separately. `guc` distinguishes *never set*
from *empty*, which is what a variable is after a transaction-local `set_config`. Tenant ids that are
no uuids (`Slugs`; the seeded `tenant-a` is one) make the policy raise.

`ended[c]` is history: how the caller's transaction ended, which is what `TenantStore` is about. There a caller's changes stay with
it until its body has returned and are then stored all at once (`Return`); a failed statement leaves nothing to store (`Fail`), a
body that raised stores nothing (`Raise`), and a broken connection all of them or none (`Lose`).

`Unscoped` is a query of code that goes around `tenant_txn`, as the integration test of it does;
`Recycle` is the pool replacing an idle connection. asyncpg also runs `RESET ALL` when a connection
is released. The code's own comment counts on `set_config(..., true)` alone, and so does the model:
what it shows does not depend on the reset.

Postgres is modelled by what the code relies on, at READ COMMITTED: own changes over committed rows,
row locks until the end of a transaction, unique checks that see all tenants, WITH CHECK before the
unique check, a deadlock detector. `documents.id` is drawn at random by the server, so its primary
key is not modelled as a source of conflicts. `chunks` has the same policies and a unique key that
leads with the tenant too; one table stands for both.

### HostMatching

A header value is a sequence of characters, and the host of a value a set with one element or none. `OriginHost` and
`AuthorityHost` follow the two functions; `urlsplit` is external and given by what it does with schemes, authorities,
users, ports and an unclosed bracket, at which it raises. `Text` is the characters it is modelled for: printable ASCII without the
closed bracket (IPv6 literals) and the percent sign, and what `str.strip` takes off but for tabs and line ends, which `urlsplit` takes
out anywhere. Left out are those, other control characters and letters past ASCII. `SpellsOrigin` and `SpellsAuthority` say what it is for a value to spell a host without parsing:
a position, and what may stand before and after it. `MCVisitorGate` assumes (TLC evaluates it) that parsing and reference agree
for every value of up to three free characters after a scheme or at a Host header's start, and for every scheme of up to two;
`HostMatchingProofs` proves it for every value over `Text`.

### VisitorGate

A request is a shape (key, Origin, Referer, size, whether a length is declared, class of body). The
actions are the segments between awaits: `Arrive` (declared length), `Receive`/`Disconnect`
(`request.body()`), `Authorize` (size, key present), `Lookup` (row, origin), `CheckRate` (limiter,
then the query), `Route`. `Upsert` is a seeding run. A header is a value of
`HostMatching`, and the hosts of a row are as the database has them. The reference is `Verdict`: the first failed check in the order of the module
docstring, under one version of the key row; it is stated by rank, with the hosts by
`SpellsOrigin`, and shares nothing with the actions.

### JwksResolver

One action per step of `get`/`_refresh` between which another thread can run: the cache lookup (`Get`),
the fetch with the building of keys (`Fetch`, `FetchFails`), the assignment (`Install`), the second lookup
(`Look`). `Rotate` is the provider. `BadEntry` is an entry with a kid that `PyJWK.from_dict` refuses.

### OwnerDoor

It extends `JwksResolver`, whose actions are its worker threads' steps (`Resolve`). A request waits in the executor's queue
(`Arrive`), gets a thread (`Start`: `_key_id`, `get`), and is answered from what the thread brings back (`Decide`). Threads
without a request of the model run the other requests' verifications (`Elsewhere`). `Tick` and `Rebind` let time pass and
the account move to another tenant meanwhile. Which token a request carried is left open until `jwt.decode` reads it, which loses
nothing, since only its kid is looked at before, and keeps the state small: any login of any past second, on a clock that may be
ahead, and four kinds of token that are no login. `bound` is history: the tenants the account had in each second.

### McpDoor

`Check` is the middleware up to `self._app`, which has no await; `Spawn` the session manager starting the
server task for a stateless request with a copy of the context; `Tool` the `answer` tool; `Finish` and
`HangUp` the finally clause. `context` is the contextvar per task. Time is in seconds; a token is the claims
`jwt.decode` and `verify` look at. `Mint` runs on a clock that may be ahead by up to `MaxSkew`.
Host and Origin are values of `HostMatching`, and the allowlists are built from the settings as `server.py` builds them;
`Trusted`, the reference of `AdmittedFromListed`, spells them instead.

### WeaviateIndex

One action per call of `bootstrap_chunks` to the server, by several processes; `Create`, `Add` and `Insert`
may take effect and lose their answer; `Stop` and `Rerun` are a failure and the next attempt. Tenant ids are
sequences of characters because `tenant_name` is about two of them.
`inserted` is history: how often each tenant's insert took effect.

### SeedLocal

One action per SQL statement or HTTP call. A call that took effect may lose its answer (`Answered`), a call may
fail without effect (`Stop`), and users sign up meanwhile (`SignUp`). The listing shows the newest `PageSize` users.

### EndToEnd

`Cases` are the login and the nine checks in their order. A case passes, fails or ends the script as its door would answer on the
stack of that moment (`Login`, `Ask`), or the server or network fails (`Fault`): an exception ends the script in the owner and
visitor doors, and counts as the expected refusal in the last two cases, since `_mcp_door` catches everything; in the case before
them an error in the tool's result passes too. The
stack is `SeedLocal`, whose runs go on meanwhile.

### Migrations and Deployment

`Script` is the statements of each file by kind, `catalog` the facts they establish: a role, a table, row security on, forced, the
policy, grants. asyncpg's `execute` without arguments sends a file as one query string, which Postgres runs as one
transaction, so `Exec` changes the `draft` of its runner and `CommitFile` the catalog. `Needs` are the table locks of each kind of
statement, held to the end of the file; `CREATE INDEX` takes its lock also when the index exists. A client transaction asks for
locks one by one. Who waits for whom follows (`Blockers`), and a ring is broken by the deadlock detector (`Break`).

`Deployment` adds `create_app` and `_lifespan`, and the requests the server has taken that are `waiting`: such a one takes its
connection (`Request`) while the app serves or drains, or is over without one (`Reply`). No request has two transactions today.
`CreatePool` needs the role, `EnterManager` raises the second time in a process
(the manager belongs to the module), `Shutdown` drains as uvicorn does, `Interrupted` is the exception at the `yield` when the server is
stopped without draining, `ClosePool` waits for the connections in use, `Exit` is also a kill at any time. Not modelled:
a cancellation by the session manager's own task group, which would reach `close_db_pool` too.

## Runs

| run | bounds | shows |
|---|---|---|
| `txn_isolation` | 2 callers, 2 connections, 2 tenants and a slug, 2 hashes | own rows only; no tenant left on a session; nothing for unscoped queries; only own rows change; nobody waits for another tenant; refines `TenantStore`: a transaction is stored all or not at all |
| `txn_progress` | 3 callers, 2 connections, 2 rows of a tenant | everyone who waits for a connection gets through, also when transactions wait for each other |
| `txn_unset` (violated) | 2 callers, 1 connection | a query without a tenant raises, where the comment says it finds nothing |
| `gate_checks` | 1 request: every size (cap 1) and body with a good Origin, pairs of Origin and Referer over 10 values and none, with a good body; 2 tenants, any re-seeds | each answer is the documented verdict under one version of the key; complete requests are answered |
| `gate_buffer` (violated) | body up to 3 units, cap 1 | a body without a length is buffered past the cap |
| `owner_door` | 1 request, 2 threads, 2 keys, 2 versions, 2 tenants, clock -2..1, lifetime 1, leeway 1, skew 0 or 2, 1 move | an answered owner is within the token's lifetime and has the account's tenant of then; good logins are served; the cache is one version and keeps settled keys; a rotation is picked up for good; every request ends |
| `mcp_calls` | 2 requests, 2 tenants, 2 minted tokens and the foreign ones, 3 pairs of Host and Origin, clock 0..3, lifetime 1, leeway 1, skew up to 2 | each call answers its own caller; only listed sites and Hosts are served; admitted exactly within the lifetime; each request ends |
| `mcp_envelope` (violated) | 1 request, every kind of Host and Origin, all UTF-8 | a Host `urlsplit` cannot parse ends in a bare 500 |
| `index_bootstrap` | 2 processes, 3 tenants of which 2 are asked for, 2 inserts each | ready after a return |
| `index_collision` (violated) | 1 process, the ids `t-a` and `t_a`, 1 insert each | two tenants share a shard, and a handle counts the other's object |
| `local_stack` | 2 seeding runs, 2 keys, 2 owners, 1 stranger, page of 2; end-to-end runs one after another | success of seeding means everything is bound; a pass means the demo owner and key are; no false alarm on a seeded stack |
| `deployment` | 2 runners, 3 runs, 1 tenant table, 1 client, 2 starts per process | no grant without guards; success lasts; no request loses the pool; no pool left open; runs and shutdowns end |

Why these bounds are enough for what they show. A leak between tenants needs two tenants and one connection used
in turn, or two beside each other; half of a change is told from all of it by two rows. What more callers could do is covered by the
proofs. A ring of waits needs two rows and two transactions. Requests of the visitor door meet only in the key table, so one request beside re-seeds is the whole
interleaving; the header values are spellings of a listed host, look-alikes of it, some without a host and one that raises. A race of refreshes needs two threads and an old and a new version. A mix-up of contexts needs two callers. The clock passes every second from minting to one past the end of
the leeway, and the skew reaches one past the leeway before it. The page of two is exceeded by two owners and a
stranger. Re-runs that overlap on a migrated database take three runs; a tenant table's file differs from another's in its name only,
so one such file with the two that are not is every kind there is; a lock ring of a client and a run takes one of each.
`deployment` starts the app twice in a process because the second time fails. `txn_isolation` uses
symmetry (callers, connections, tenants and hashes are interchangeable) and checks no liveness.

Two runs use a VIEW, which merges states that differ in what no later step and no property of the run reads: `NoHistory` in
`txn_progress` drops the history variables of the safety properties, and `NoLeftovers` in `owner_door` drops a request's response
once it is given and the registers a thread will not read again. The properties that read a response read it in the step that gives it.

Deadlock is checked in all runs except `mcp_calls` and `owner_door`, where the clock stops at `MaxTime` and a request that ended stays
ended; elsewhere an action of the environment is always possible. `mcp_envelope` uses no such exception because its
run ends at the violation.

### Fairness

* `TenantTxn`: weak fairness of each caller's progress (`Advance`). asyncio resumes what is ready; asyncpg's pool
  hands a released connection to a waiter; Postgres wakes a waiter and runs its deadlock detector. It includes that
  a body ends, which is the caller's duty. Weak fairness is enough although a free connection can be taken by another
  caller: each caller enters once, so the competition ends. Failures are never forced.
* `VisitorGate`, `McpDoor`: the server's own steps. Clients need not send the rest of a body or stay connected; the
  lookup either answers or fails.
* `OwnerDoor` with `JwksResolver`: a worker thread goes on, and the fetch ends one way or the other because it has a timeout. The
  provider need not rotate, and the fetch may fail any number of times. A queued request gets a thread if one is free again and again (strong fairness of
  `Start`), because the executor's queue is first in, first out, although `Elsewhere` may take a thread whenever it is free.
* `Migrations`, `Deployment`: a statement, commit or client lock that can be had again and again is had (strong fairness), because
  Postgres' lock queues are first in, first out; client transactions end; the deadlock detector acts; the app's stop goes
  on; a request that was taken gets its connection or is over. The number of runs is bounded by `MaxRuns`, so an endless stream of new runs is left out, which the lock queue would order.
  Runs need not start or succeed.
* `EndToEnd` and `SeedLocal` are scripts that may stop anywhere: safety only.

## Where code and documents disagree

1. An unset `app.tenant_id` makes a policy raise, not "evaluate false" (`app/core/db.py:47`). Still fail closed.
2. The visitor body cap does not bound what is buffered for a body without `Content-Length`
   (`app/core/settings.py:78-79`, `app/tenants/gate.py:115`).
3. `authority_host` raises for a value `urlsplit` cannot parse, against its docstring, and the middleware lets it out
   as a bare 500 (`app/core/origins.py:33,42`, `app/mcp/server.py:118`). So does a header that is not UTF-8, at line 111; the model
   has such a header (`Garbled`), the runs do not send it.
4. Not quite "one shard per tenant" (`app/retrieval/weaviate.py:3`): tenant ids are text, and two that differ in a hyphen and an
   underscore only share a shard (line 25), so that one's handle counts the other's objects, and a mistyped id of that kind does not
   fail. Uuids cannot collide, which is proved.

Some more limits of the code are in the hazard list without a run of their own. A refetch made for a token may contain its key and
the token still be refused, when another thread installs its older answer over it between `_refresh` and the second lookup
(`app/tenants/owner_auth.py:48-49`); it does not go on (`RotationHeals`). And
`seed_local.py` looks for an existing owner on the first page of users only (`backend/scripts/seed_local.py:91`), so a
re-run can fail once 200 newer users signed up; `local_stack` includes the case and shows that such a run does not report
success.

Stripping trailing dots can leave nothing of a host: `origin_host` makes the empty string of `https://.`, not `None`
(`app/core/origins.py:24`), so an empty entry in a key row or in `mcp_allowed_hosts` would match it. The theorems
about matching are for hosts that are not empty, and `TextAssumption` and `HeaderAssumption` say that no list has an empty one.

A pool opened by a second start in one process stays open, because `session_manager.run()` raises before `try`
(`app/main.py:54`); `NothingLeftOpen` is about the first. And the refusals that `e2e_doors.py` expects at the MCP door are not told from an
outage (`backend/scripts/e2e_doors.py:146,152`), so its pass proves no more than `PassMeansBound`.

## Proofs

`TenantTxnProofs` proves every safety property of `TenantTxn` that the runs check, and the refinement of `TenantStore`,
for any sets of callers, connections, tenants and hashes. Assumed are only the named assumptions of `TenantTxn`: the
sentinels are none of the values they stand beside, and a slug is not a uuid. The properties are not inductive by
themselves; `IInv` adds

* `HoldsConn`: a caller has a connection exactly between `Acquire` and `Release`;
* `Scoped`: in a transaction that can still act, the session variable is the caller's tenant;
* `DraftsOwnRows`: uncommitted changes are of the tenant in force, so none survive it;
* `BlockedOnOwnRows`: a blocked statement is of an open transaction and about the caller's own rows;
* `OpenTxn`: a body begins in an open transaction, and what an aborted or ended one had changed is gone;
* `ConnExclusive`: a connection serves one caller.

`NoTenantLeft` is then what lets a new caller of a connection start without another's context, and `DraftsOwnRows` with
`Scoped` what makes a commit change only own rows. There is one lemma per action, and `AbortTxnIInv`, `ApplyIInv` and
`EndTxnIInv` for the parts several actions share. `Refinement` maps
`Select` to `Read`, a statement that acts to `Change`, one that fails to `Fail`, the exits to `Return`, `Raise` and `Lose`, and the rest
to stutters. A caller's changes are the draft of its connection while its body runs, and `Left` says that
the history `ended` agrees with how far it is; so a step that stored a part of them, or stored them early, would map to nothing.

`HostMatchingProofs` proves, for values over `Text` of any length, that `AuthorityHost` and `OriginHost` find a
(non-empty) host exactly where the value spells it and no bracket makes `urlsplit` raise (`AuthorityMatching`, `OriginMatching`). The parsers are first shown to cut
a value at positions: `BeforeEnds`, `RStripEnds`, `UserEnds` say where each helper stops, from the least and greatest element
of a set of positions. Then each direction of the equivalence is about positions only: what was cut spells the host
(`CutSpells`), and a value that spells one can be cut in no other way (`SpellsCut`). The model uses no recursion there, which is
what makes it provable.

`VisitorGateProofs` proves `OneVersionDecides` for any number of requests, versions of a row, hosts and header values. The
invariant (`Flight`) says for each stage which checks of the verdict a request has passed, for the row it read, and that
this row is among those in force since it arrived; `VerdictIs` gives the ranked reference one check at a time, and
`AdmitsWhatIsSpelt` replaces parsing by spelling through `OriginMatching`. Assumed beyond the types of the constants: the limiter
gives some answer, and header values and listed hosts are text, none of the latter empty.

`McpDoorProofs` proves for any number of interleaved requests that a tool call answers for the tenant of its own request's
token (`OwnAnswers`), that only minted tokens in their lifetime are admitted (`InLifetime`), and only with a Host and Origin that
spell a listed one (`ListedOnly`, from both theorems about matching). The invariant says which
task's copy of the contextvar holds the tenant at each stage (`ContextFollows`), and that requests carry tokens
there are (`Carries`), of which the minted ones live for `Ttl` (`MintedWellFormed`); `ForeignRefused` rules out the rest.

`WeaviateIndexProofs` proves that names of ids without underscores do not collide (`TenantNameInjective`), and that a bootstrap
that returned left everything ready. The invariant adds that a bootstrap past `Create`
has a collection and knows only of shards that exist. From the names it follows that a shard holds what its one tenant put there (`ShardIsOwn`),
so a handle counts its own objects (`OwnObjects`). That theorem has a hypothesis, `NoUnderscores`, which uuids and the demo's tenant
ids meet; without it the statement is false of the code (see above).

`OwnerDoorProofs` starts with the resolver: the lock-free cache is always one published key set and never drops a key that all
published sets hold; the invariant adds `FetchedIsVersion`, what a thread is about to install was published. The owner door
implements the resolver (`DoorUsesResolver`), so this holds at the door. An answered owner was vouched for, by a key, by the clock and by
the account (`OwnerIsVouchedFor`), and no
good login is turned away (`GoodLoginsPass`), for any number of requests, threads, seconds and
moves of the account. The invariant ties a running request to its thread's kid; it says that a key a thread returned was published
and, `MissIsReal`, that whoever looks a second time looks at a published set, never at the empty cache, so that a miss is that set's.

`EndToEndProofs` proves for the seeding script that a reported success is one (`SuccessIsSeeded`): every key before the one a run is at, and
every owner before the one it is at, is bound (`Done`), and nothing another run, a failure or a sign-up does undoes it (`Grows`). The
end-to-end script leaves the seeding alone (`SeedingIsUndisturbed`), and `Walk` says what it has shown after each case, from which
`PassIsBound` and `NoFalseAlarm` follow. Assumed: there is a key and an owner, and owners are distinct, as the keys of a dict are.

`MigrationsProofs` proves the five invariants of `deployment` for any number of runners, clients, tenant tables, runs and starts. For the
files (`RunnerInv`): an open transaction touches its own object only, has dropped something only between DROP and CREATE POLICY, and
what its statements so far were for is there for itself (`StatementsHold`); so a whole file leaves its guards, whatever else ran, and
no commit takes a fact away (`FilesHold`). The locks are not needed for safety. For the pool (`LifeInv`): how many pools
are open follows from how far the app is, until it is started again in the same process, and there are requests only while it serves or
drains.

Each invariant and action property of a passing run is thus also a theorem; so is `CountsOwnObjects`, under `NoUnderscores`. Model-checked only: liveness
(`EveryCallerLeaves`, `CompleteIsAnswered`, `EveryRequestEnds`, `RotationHeals`, `EveryVerifyEnds`, `EveryRunEnds`, `ShutdownEnds`), because
fairness and ENABLED are outside the prover; and, being found false, the properties of the four runs that expect a violation.

## Not modelled

* Domain routers, `answer` and `retrieve`: stubs without state.
* Settings, logging, observability, model and dependency types, the placeholders `dashboard/` and `widget/`, CI and
  containers: configuration, I/O or nothing yet. The fields of a problem response are layout.
* `urlsplit` for closed brackets, percent signs, characters past ASCII and control characters; the cryptography of tokens.
* A success of the user listing's POST other than 200 and 201, which GoTrue does not answer and `seed_local.py:96-98` would pass over.
* The primary keys drawn at random, statement planning beyond *a policy may not be evaluated for no row*, and isolation
  levels other than the default. `CREATE EXTENSION` in `0003_chunks.sql`, which no statement of the service sees.

## Plan

1. `TenantStore`, `TenantTxn`, their runs and proofs: the isolation everything rests on. Done.
2. `VisitorGate`, `JwksResolver`, `McpDoor`, `WeaviateIndex`, `SeedLocal` with their runs; proofs for the
   cache, the index and the external-caller door. Done.
3. `OwnerDoor` over `JwksResolver`, with its refinement and proof. Done.
4. `HostMatching` against its reference, used by both doors that match hosts. Done.
5. `Migrations`, `Deployment`, `EndToEnd` over `SeedLocal`, with the proofs about the first two. Done.
6. Proofs of `OneVersionDecides`, `AdmittedFromListed` (both over host matching), `SuccessMeansSeeded`, `PassMeansBound`,
   `SeededStackPasses`, `CountsOwnObjects`, `GoodLoginServed` and the remaining type invariants. Done.
7. When the doors call a core that uses `tenant_txn`: their composition over `TenantStore`, *a request acts for the tenant of its
   own credential or for none*. Today `answer` is a stub without state, so there is nothing to compose.
8. What deadlock checking shows on small instances, as a theorem: in `TenantTxn` and `Migrations`, whoever waits for a
   lock has somebody at the end of the chain who can go on, or is in a ring the detector breaks. It needs an argument over
   finite chains, and the guards spelled out where ENABLED would stand.
