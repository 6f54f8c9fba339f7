------------------------- MODULE WeaviateIndexProofs -------------------------
(***************************************************************************)
(* Facts about shard names, what a bootstrap that returned leaves, and     *)
(* whose objects a tenant's handle counts.                                 *)
(***************************************************************************)
EXTENDS WeaviateIndex, TLAPS

\* Ids without an underscore, every uuid among them, keep their shards apart.
THEOREM TenantNameInjective ==
  ASSUME NEW Chars, NEW a \in Seq(Chars), NEW b \in Seq(Chars),
         \A i \in DOMAIN a : a[i] # Underscore,
         \A i \in DOMAIN b : b[i] # Underscore,
         TenantName(a) = TenantName(b)
  PROVE  a = b
<1>1. DOMAIN a = DOMAIN b
  BY DEF TenantName
<1>2. ASSUME NEW i \in DOMAIN a PROVE a[i] = b[i]
  <2>1. TenantName(a)[i] = TenantName(b)[i]
    OBVIOUS
  <2>2. (IF a[i] = Hyphen THEN Underscore ELSE a[i])
          = (IF b[i] = Hyphen THEN Underscore ELSE b[i])
    BY <1>1, <1>2, <2>1 DEF TenantName
  <2> QED BY <1>1, <1>2, <2>2
<1>3. Len(a) = Len(b)
  BY <1>1
<1> QED BY <1>2, <1>3

\* A bootstrap goes past Create only when the collection is there, and knows of no
\* shard that is not.
IInv ==
  /\ pc \in [Boots -> {"idle", "create", "list", "add", "ok", "failed"}]
  /\ existing \in [Boots -> SUBSET Names(Tenants)]
  /\ \A b \in Boots : pc[b] \in {"list", "add", "ok"} => created
  /\ \A b \in Boots : pc[b] = "add" => existing[b] \subseteq shards
  /\ shards \subseteq Names(Asked)
  /\ ReturnedMeansReady

LEMMA NamesMonotone == Names(Asked) \subseteq Names(Tenants)
  BY IndexAssumption DEF Names

LEMMA InitIInv == Init => IInv
  BY DEF Init, IInv, ReturnedMeansReady

LEMMA NextIInv == IInv /\ [Next]_vars => IInv'
<1> SUFFICES ASSUME IInv, [Next]_vars PROVE IInv'
  OBVIOUS
<1> USE DEF IInv, ReturnedMeansReady, Goto
<1>1. ASSUME NEW b \in Boots, Exists(b) PROVE IInv'
  BY <1>1 DEF Exists
<1>2. ASSUME NEW b \in Boots, Create(b) PROVE IInv'
  BY <1>2 DEF Create
<1>3. ASSUME NEW b \in Boots, List(b) PROVE IInv'
  BY <1>3, NamesMonotone DEF List
<1>4. ASSUME NEW b \in Boots, Add(b) PROVE IInv'
  BY <1>4 DEF Add
<1>5. ASSUME NEW b \in Boots, Stop(b) \/ Rerun(b) PROVE IInv'
  BY <1>5 DEF Stop, Rerun
<1>6. ASSUME NEW t \in Tenants, Insert(t) PROVE IInv'
  BY <1>6 DEF Insert
<1>7. CASE UNCHANGED vars
  BY <1>7 DEF vars
<1> QED BY <1>1, <1>2, <1>3, <1>4, <1>5, <1>6, <1>7 DEF Next

LEMMA AlwaysIInv == Spec => []IInv
  BY InitIInv, NextIInv, PTL DEF Spec

\* However many bootstraps ran and stopped, one that returned left everything ready.
THEOREM Ready == Spec => []ReturnedMeansReady
  BY AlwaysIInv, PTL DEF IInv

-----------------------------------------------------------------------------
(* The shards' objects. *)

LEMMA NamesIn == \A t \in Tenants : TenantName(t) \in Names(Tenants)
  BY DEF Names

LEMMA InitTyped == Init => TypeOK
<1> SUFFICES ASSUME Init PROVE TypeOK
  OBVIOUS
<1>1. created \in BOOLEAN
  BY DEF Init
<1>2. 0 \in 0 .. MaxInserts /\ 0 \in Nat
  BY IndexAssumption
<1>3. inserted \in [Tenants -> 0 .. MaxInserts]
  BY <1>2 DEF Init
<1>4. stored \in [Names(Tenants) -> Nat]
  BY <1>2 DEF Init
<1> QED BY <1>1, <1>3, <1>4, InitIInv DEF Init, IInv, TypeOK

LEMMA InsertTyped == ASSUME TypeOK, NEW t \in Tenants, Insert(t) PROVE TypeOK'
<1>1. UNCHANGED <<created, shards, pc, existing>>
  BY DEF Insert
<1>2. stored' \in [Names(Tenants) -> Nat]
  <2>1. stored' = [stored EXCEPT ![TenantName(t)] = stored[TenantName(t)] + 1]
    BY DEF Insert
  <2>2. stored[TenantName(t)] + 1 \in Nat
    BY NamesIn DEF TypeOK
  <2> QED BY <2>1, <2>2 DEF TypeOK
<1>3. inserted[t] + 1 \in 0 .. MaxInserts
  BY IndexAssumption DEF Insert, TypeOK
<1>4. inserted' = [inserted EXCEPT ![t] = inserted[t] + 1]
  BY DEF Insert
<1>5. inserted' \in [Tenants -> 0 .. MaxInserts]
  BY <1>3, <1>4, IndexAssumption DEF TypeOK
<1> QED BY <1>1, <1>2, <1>5 DEF TypeOK

LEMMA NextTyped == IInv /\ TypeOK /\ [Next]_vars => TypeOK'
<1> SUFFICES ASSUME IInv, TypeOK, [Next]_vars PROVE TypeOK'
  OBVIOUS
<1>1. CASE UNCHANGED vars
  BY <1>1 DEF vars, TypeOK
<1>2. ASSUME NEW b \in Boots,
             Exists(b) \/ Create(b) \/ List(b) \/ Add(b) \/ Stop(b) \/ Rerun(b)
      PROVE  TypeOK'
  <2>1. UNCHANGED <<stored, inserted>>
    BY <1>2 DEF Exists, Create, List, Add, Stop, Rerun
  <2>2. created' \in BOOLEAN
    <3>1. created' = created \/ created' = TRUE
      BY <1>2 DEF Exists, Create, List, Add, Stop, Rerun
    <3> QED BY <3>1 DEF TypeOK
  <2>3. IInv'
    BY <1>2, NextIInv DEF Next
  <2>4. shards' \subseteq Names(Tenants)
    BY <2>3, NamesMonotone DEF IInv
  <2> QED BY <2>1, <2>2, <2>3, <2>4 DEF IInv, TypeOK
<1> QED BY <1>1, <1>2, InsertTyped DEF Next

\* Every reachable state is well typed: what a server stores, and inserts within their bound.
THEOREM TypeCorrect == Spec => []TypeOK
<1>1. Init => IInv /\ TypeOK
  BY InitIInv, InitTyped
<1>2. IInv /\ TypeOK /\ [Next]_vars => (IInv /\ TypeOK)'
  BY NextIInv, NextTyped
<1> QED BY <1>1, <1>2, PTL DEF Spec

\* Ids of one alphabet, none with an underscore: uuids, and the demo's tenant-a, tenant-b.
NoUnderscores ==
  \E Chars :
    \A t \in Tenants : t \in Seq(Chars) /\ \A i \in DOMAIN t : t[i] # Underscore

LEMMA InsertOwn ==
  ASSUME NoUnderscores, TypeOK, CountsOwnObjects, NEW t \in Tenants, Insert(t)
  PROVE  CountsOwnObjects'
<1>1. stored' = [stored EXCEPT ![TenantName(t)] = stored[TenantName(t)] + 1]
      /\ inserted' = [inserted EXCEPT ![t] = inserted[t] + 1]
  BY DEF Insert
<1>2. DOMAIN stored = Names(Tenants) /\ DOMAIN inserted = Tenants
  BY DEF TypeOK
<1>3. ASSUME NEW u \in Tenants PROVE stored'[TenantName(u)] = inserted'[u]
  <2>1. stored[TenantName(u)] = inserted[u] /\ stored[TenantName(t)] = inserted[t]
    BY DEF CountsOwnObjects, Count
  <2>2. TenantName(u) \in Names(Tenants)
    BY NamesIn
  <2>3. CASE u = t
    BY <1>1, <1>2, <2>1, <2>2, <2>3
  <2>4. CASE u # t
    <3>1. TenantName(u) # TenantName(t)
      BY <2>4, TenantNameInjective DEF NoUnderscores
    <3> QED BY <1>1, <1>2, <2>1, <2>2, <2>4, <3>1
  <2> QED BY <2>3, <2>4
<1> QED BY <1>3 DEF CountsOwnObjects, Count

\* weaviate.py, TenantChunks: where no id has an underscore, a handle counts the objects of
\* its own tenant and of no other, however bootstraps and inserts interleave.
THEOREM OwnObjects == ASSUME NoUnderscores PROVE Spec => []CountsOwnObjects
<1>1. Init => CountsOwnObjects
  BY NamesIn DEF Init, CountsOwnObjects, Count
<1>2. ASSUME TypeOK, CountsOwnObjects, [Next]_vars PROVE CountsOwnObjects'
  <2>1. CASE UNCHANGED <<stored, inserted>>
    BY <2>1, <1>2 DEF CountsOwnObjects, Count
  <2>2. (UNCHANGED <<stored, inserted>>) \/ \E t \in Tenants : Insert(t)
    BY <1>2 DEF Next, vars, Exists, Create, List, Add, Stop, Rerun
  <2> QED BY <1>2, <2>1, <2>2, InsertOwn
<1> QED BY <1>1, <1>2, TypeCorrect, PTL DEF Spec
=============================================================================
