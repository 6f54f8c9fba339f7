---------------------------- MODULE JwksResolver ----------------------------
(***************************************************************************)
(* The owner door's signing keys: JwksKeyResolver of tenants/owner_auth.py *)
(* and the fetch under it.  get_owner_context runs verify in worker        *)
(* threads (asyncio.to_thread) that share one resolver and take no lock,   *)
(* so refreshes overlap, while the provider rotates what it publishes.     *)
(***************************************************************************)
EXTENDS FiniteSets, Naturals

CONSTANTS Threads,
          Kids,          \* key ids tokens name
          BadEntry,      \* a published entry with a kid that PyJWK.from_dict refuses
          NoKid,
          MaxVersions    \* bound: how many different key sets the provider publishes

ASSUME JwksAssumption ==
  BadEntry \notin Kids /\ NoKid \notin Kids /\ MaxVersions \in Nat \ {0}

VARIABLES
  published,  \* the entries the provider serves now; an answer without a key list
              \* reads like one without keys
  cache,      \* self._keys
  pc,         \* what each thread does next
  kid,        \* the kid of the token it verifies
  fetched,    \* the keys it built from its last fetch
  result,     \* how its last get ended
  versions    \* history: every set published so far

vars == <<published, cache, pc, kid, fetched, result, versions>>

Results == {"none", "key", "unknown", "error"}

TypeOK ==
  /\ published \subseteq Kids \cup {BadEntry}
  /\ cache \subseteq Kids
  /\ pc \in [Threads -> {"idle", "fetch", "install", "look"}]
  /\ kid \in [Threads -> Kids \cup {NoKid}]
  /\ fetched \in [Threads -> SUBSET Kids]
  /\ result \in [Threads -> Results]
  /\ versions \subseteq SUBSET (Kids \cup {BadEntry})

Init ==
  /\ published \in SUBSET (Kids \cup {BadEntry})
  /\ cache = {}
  /\ pc = [t \in Threads |-> "idle"]
  /\ kid = [t \in Threads |-> NoKid]
  /\ fetched = [t \in Threads |-> {}]
  /\ result = [t \in Threads |-> "none"]
  /\ versions = {published}

-----------------------------------------------------------------------------
Goto(t, p) == pc' = [pc EXCEPT ![t] = p] /\ UNCHANGED result

\* get returns, or raises: AuthenticationError for "unknown", else what the fetch raised.
Return(t, res) ==
  /\ pc' = [pc EXCEPT ![t] = "idle"]
  /\ result' = [result EXCEPT ![t] = res]

\* Variant: keys are fetched once, while the cache is empty.
GetFetchOnce(t, k) ==
  /\ pc[t] = "idle"
  /\ kid' = [kid EXCEPT ![t] = k]
  /\ IF k \in cache THEN Return(t, "key")
     ELSE IF cache # {} THEN Goto(t, "look") ELSE Goto(t, "fetch")
  /\ UNCHANGED <<published, cache, fetched, versions>>

\* A token that names k: a cached key, or a refresh.
Get(t, k) ==
  /\ pc[t] = "idle"
  /\ kid' = [kid EXCEPT ![t] = k]
  /\ IF k \in cache THEN Return(t, "key") ELSE Goto(t, "fetch")
  /\ UNCHANGED <<published, cache, fetched, versions>>

\* Variant: the cache is emptied first and filled from the answer.
FetchClearing(t) ==
  /\ pc[t] = "fetch"
  /\ cache' = {}
  /\ IF BadEntry \in published
     THEN Return(t, "error") /\ UNCHANGED fetched
     ELSE Goto(t, "install") /\ fetched' = [fetched EXCEPT ![t] = published]
  /\ UNCHANGED <<published, kid, versions>>

\* Variant: the entries are kept as they came.
FetchUnbuilt(t) ==
  /\ pc[t] = "fetch"
  /\ fetched' = [fetched EXCEPT ![t] = published]
  /\ Goto(t, "install")
  /\ UNCHANGED <<published, cache, kid, versions>>

\* The provider answers; the keys are built aside, and one bad entry raises.
Fetch(t) ==
  /\ pc[t] = "fetch"
  /\ IF BadEntry \in published
     THEN Return(t, "error") /\ UNCHANGED fetched
     ELSE Goto(t, "install") /\ fetched' = [fetched EXCEPT ![t] = published]
  /\ UNCHANGED <<published, cache, kid, versions>>

\* httpx raises: a timeout, a refused connection, an error status.
FetchFails(t) ==
  /\ pc[t] = "fetch"
  /\ Return(t, "error")
  /\ UNCHANGED <<published, cache, kid, fetched, versions>>

\* Variant: the answer is merged into the cache.
InstallMerging(t) ==
  /\ pc[t] = "install"
  /\ cache' = cache \cup fetched[t]
  /\ Goto(t, "look")
  /\ UNCHANGED <<published, kid, fetched, versions>>

\* self._keys = keys
Install(t) ==
  /\ pc[t] = "install"
  /\ cache' = fetched[t]
  /\ Goto(t, "look")
  /\ UNCHANGED <<published, kid, fetched, versions>>

\* The second self._keys.get, on whatever is the cache by now.
Look(t) ==
  /\ pc[t] = "look"
  /\ Return(t, IF kid[t] \in cache THEN "key" ELSE "unknown")
  /\ UNCHANGED <<published, cache, kid, fetched, versions>>

\* The provider adds and withdraws keys.
Rotate ==
  /\ published' \in SUBSET (Kids \cup {BadEntry})
  /\ versions' = versions \cup {published'}
  /\ Cardinality(versions') <= MaxVersions
  /\ UNCHANGED <<cache, pc, kid, fetched, result>>

Refresh(t) == Fetch(t) \/ FetchFails(t) \/ Install(t) \/ Look(t)

Next == Rotate \/ \E t \in Threads : Refresh(t) \/ \E k \in Kids : Get(t, k)

Spec == Init /\ [][Next]_vars

-----------------------------------------------------------------------------
(* Properties. *)

\* The cache is always one key set the provider published, or still empty: refreshes
\* that overlap or fail half-way never leave a mixture, so a withdrawn key is not kept
\* alive beside the keys that replaced it.
CacheIsOneVersion == cache \in versions \cup {{}}

\* A key that every published set holds never leaves the cache again: no refresh, failed
\* or overtaken, makes tokens signed by it fail for a moment.
KeepsSettledKeys ==
  [][\A k \in cache : (\A v \in versions' : k \in v) => k \in cache']_vars

\* Once a key stays published among good entries, tokens that name it stop being
\* refused: a rotation needs no redeploy (owner_auth.py:33-34).
RotationHeals ==
  \A k \in Kids :
    <>[](k \in published /\ BadEntry \notin published)
      => <>[](\A t \in Threads : ~(pc[t] = "look" /\ kid[t] = k /\ k \notin cache))
=============================================================================
