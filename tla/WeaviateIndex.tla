---------------------------- MODULE WeaviateIndex ----------------------------
(***************************************************************************)
(* retrieval/weaviate.py: bootstrap_chunks, which creates the Chunk        *)
(* collection and one shard per tenant, and TenantChunks, the tenant-bound *)
(* handle.  Bootstraps of several processes interleave at every await, any *)
(* call may take effect and lose its answer, and a bootstrap that stopped  *)
(* half-way is run again.  Weaviate is external.                           *)
(***************************************************************************)
EXTENDS Naturals, Sequences

CONSTANTS Boots,       \* processes that run bootstrap_chunks
          Tenants,     \* tenant ids, as sequences of characters
          Asked,       \* the tenants bootstraps are asked for
          MaxInserts   \* bound: inserts tried per tenant

\* The two characters tenant_name confuses.
Hyphen == "-"
Underscore == "_"

ASSUME IndexAssumption == Asked \subseteq Tenants /\ MaxInserts \in Nat

VARIABLES
  created,   \* whether the Chunk collection exists
  shards,    \* the tenants of the collection, by shard name
  pc,        \* what each bootstrap does next, or how it ended
  existing,  \* the shards it was told of
  stored,    \* per shard name: how many objects
  inserted   \* history, per tenant: inserts through its handle that took effect

vars == <<created, shards, pc, existing, stored, inserted>>

-----------------------------------------------------------------------------
\* The shard name: every hyphen becomes an underscore (the common prefix is left out).
TenantName(id) ==
  [i \in DOMAIN id |-> IF id[i] = Hyphen THEN Underscore ELSE id[i]]

Names(ids) == {TenantName(t) : t \in ids}

TypeOK ==
  /\ created \in BOOLEAN
  /\ shards \subseteq Names(Tenants)
  /\ pc \in [Boots -> {"idle", "create", "list", "add", "ok", "failed"}]
  /\ existing \in [Boots -> SUBSET Names(Tenants)]
  /\ stored \in [Names(Tenants) -> Nat]
  /\ inserted \in [Tenants -> 0 .. MaxInserts]

Init ==
  /\ created = FALSE
  /\ shards = {}
  /\ pc = [b \in Boots |-> "idle"]
  /\ existing = [b \in Boots |-> {}]
  /\ stored = [n \in Names(Tenants) |-> 0]
  /\ inserted = [t \in Tenants |-> 0]

-----------------------------------------------------------------------------
(* bootstrap_chunks, one action per call to the server. *)

Goto(b, p) == pc' = [pc EXCEPT ![b] = p]

\* Variant: whoever finds the collection takes everything else for done.
ExistsIsDone(b) ==
  /\ pc[b] = "idle"
  /\ Goto(b, IF created THEN "ok" ELSE "create")
  /\ UNCHANGED <<created, shards, existing, stored, inserted>>

Exists(b) ==
  /\ pc[b] = "idle"
  /\ Goto(b, IF created THEN "list" ELSE "create")
  /\ UNCHANGED <<created, shards, existing, stored, inserted>>

\* The server refuses to create a collection it has: the other bootstrap was faster.
Create(b) ==
  /\ pc[b] = "create"
  /\ created' = TRUE
  /\ \/ Goto(b, "failed")
     \/ ~created /\ Goto(b, "list")
  /\ UNCHANGED <<shards, existing, stored, inserted>>

List(b) ==
  /\ pc[b] = "list"
  /\ existing' = [existing EXCEPT ![b] = shards]
  /\ Goto(b, IF Names(Asked) \subseteq shards THEN "ok" ELSE "add")
  /\ UNCHANGED <<created, shards, stored, inserted>>

\* Variant: the tenants are added under their ids.
AddUnnamed(b) ==
  /\ pc[b] = "add"
  /\ shards' = shards \cup (Asked \ existing[b])
  /\ Goto(b, "ok")
  /\ UNCHANGED <<created, existing, stored, inserted>>

\* Asked for a shard it has by now, the server may refuse the lot or skip it.
Add(b) ==
  LET missing == Names(Asked) \ existing[b] IN
  /\ pc[b] = "add"
  /\ \/ /\ shards' = shards \cup missing
        /\ \E p \in {"ok", "failed"} : Goto(b, p)
     \/ /\ missing \cap shards # {}
        /\ Goto(b, "failed")
        /\ UNCHANGED shards
  /\ UNCHANGED <<created, existing, stored, inserted>>

\* A crash, a cancellation, or a call that failed without effect.
Stop(b) ==
  /\ pc[b] \in {"create", "list", "add"}
  /\ Goto(b, "failed")
  /\ UNCHANGED <<created, shards, existing, stored, inserted>>

Rerun(b) ==
  /\ pc[b] \in {"ok", "failed"}
  /\ Goto(b, "idle")
  /\ UNCHANGED <<created, shards, existing, stored, inserted>>

-----------------------------------------------------------------------------
(* TenantChunks *)

\* insert, whether or not its answer arrives.  For a tenant without a shard the server
\* raises and stores nothing.
Insert(t) ==
  /\ created /\ TenantName(t) \in shards
  /\ inserted[t] < MaxInserts
  /\ stored' = [stored EXCEPT ![TenantName(t)] = @ + 1]
  /\ inserted' = [inserted EXCEPT ![t] = @ + 1]
  /\ UNCHANGED <<created, shards, pc, existing>>

Count(t) == stored[TenantName(t)]

Next ==
  \/ \E b \in Boots :
       Exists(b) \/ Create(b) \/ List(b) \/ Add(b) \/ Stop(b) \/ Rerun(b)
  \/ \E t \in Tenants : Insert(t)

Spec == Init /\ [][Next]_vars

-----------------------------------------------------------------------------
(* Properties. *)

\* A bootstrap that returned left the collection and every shard it was asked for,
\* however often earlier ones stopped half-way and whatever ran beside it.
ReturnedMeansReady ==
  \A b \in Boots : pc[b] = "ok" => created /\ Names(Asked) \subseteq shards

\* "One shard per tenant" (weaviate.py:3), so that one tenant "never sees" another's object
\* through its handle (test_tenant_isolation.py:212): a handle counts what was inserted
\* through handles of its own tenant, and nothing else.  It does not hold for ids that
\* differ in a hyphen and an underscore only (weaviate.py:25).
CountsOwnObjects == \A t \in Tenants : Count(t) = inserted[t]
=============================================================================
