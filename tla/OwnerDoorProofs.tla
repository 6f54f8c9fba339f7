--------------------------- MODULE OwnerDoorProofs ---------------------------
(***************************************************************************)
(* The resolver's cache is one published key set, however its refreshes    *)
(* overlap; the owner door uses it as JwksResolver says it is used,        *)
(* answers for no tenant its account was not bound to and turns no good    *)
(* login away, for any number of threads, keys, requests and seconds.      *)
(***************************************************************************)
EXTENDS OwnerDoor, TLAPS

(* The resolver. *)

\* What a thread is about to install is a set the provider published.
FetchedIsVersion ==
  /\ published \in versions
  /\ \A t \in Threads : pc[t] = "install" => fetched[t] \in versions

IInv == TypeOK /\ FetchedIsVersion /\ CacheIsOneVersion

LEMMA InitIInv == Init => IInv
  BY DEF Init, IInv, TypeOK, FetchedIsVersion, CacheIsOneVersion, Results

LEMMA GetIInv ==
  ASSUME IInv, NEW t \in Threads, NEW k \in Kids, Get(t, k) PROVE IInv'
  BY DEF Get, Goto, Return, IInv, TypeOK, FetchedIsVersion, CacheIsOneVersion, Results

LEMMA FetchIInv == ASSUME IInv, NEW t \in Threads, Fetch(t) PROVE IInv'
<1>1. CASE BadEntry \in published
  BY <1>1 DEF Fetch, Return, IInv, TypeOK, FetchedIsVersion, CacheIsOneVersion, Results
<1>2. CASE BadEntry \notin published
  BY <1>2 DEF Fetch, Goto, IInv, TypeOK, FetchedIsVersion, CacheIsOneVersion
<1> QED BY <1>1, <1>2

LEMMA FetchFailsIInv == ASSUME IInv, NEW t \in Threads, FetchFails(t) PROVE IInv'
  BY DEF FetchFails, Return, IInv, TypeOK, FetchedIsVersion, CacheIsOneVersion, Results

LEMMA InstallIInv == ASSUME IInv, NEW t \in Threads, Install(t) PROVE IInv'
  BY DEF Install, Goto, IInv, TypeOK, FetchedIsVersion, CacheIsOneVersion

LEMMA LookIInv == ASSUME IInv, NEW t \in Threads, Look(t) PROVE IInv'
  BY DEF Look, Return, IInv, TypeOK, FetchedIsVersion, CacheIsOneVersion, Results

LEMMA RotateIInv == ASSUME IInv, Rotate PROVE IInv'
  BY DEF Rotate, IInv, TypeOK, FetchedIsVersion, CacheIsOneVersion

LEMMA NextIInv == IInv /\ [Next]_vars => IInv'
<1> SUFFICES ASSUME IInv, [Next]_vars PROVE IInv'
  OBVIOUS
<1>1. CASE UNCHANGED vars
  BY <1>1 DEF vars, IInv, TypeOK, FetchedIsVersion, CacheIsOneVersion
<1>2. CASE Next
  BY <1>2, GetIInv, FetchIInv, FetchFailsIInv, InstallIInv, LookIInv, RotateIInv
  DEF Next, Refresh
<1> QED BY <1>1, <1>2

LEMMA AlwaysIInv == Spec => []IInv
  BY InitIInv, NextIInv, PTL DEF Spec

\* Every reachable state is well typed.
THEOREM TypeCorrect == Spec => []TypeOK
  BY AlwaysIInv, PTL DEF IInv

\* However refreshes overlap, the cache is one published key set.
THEOREM OneVersion == Spec => []CacheIsOneVersion
  BY AlwaysIInv, PTL DEF IInv

\* A key the provider never withdraws stays cached through every later refresh.
THEOREM SettledKeysStay == Spec => KeepsSettledKeys
<1> DEFINE Keeps == \A k \in cache : (\A v \in versions' : k \in v) => k \in cache'
<1>1. ASSUME IInv, [Next]_vars PROVE [Keeps]_vars
  <2> SUFFICES ASSUME NEW k \in cache, k \notin cache', \A v \in versions' : k \in v
               PROVE  FALSE
    OBVIOUS
  <2>1. PICK t \in Threads : Install(t)
    BY <1>1 DEF Next, Refresh, Get, Fetch, FetchFails, Look, Rotate, vars
  <2>2. cache' \in versions'
    BY <1>1, <2>1 DEF Install, IInv, FetchedIsVersion
  <2> QED BY <2>2
<1> QED BY <1>1, AlwaysIInv, PTL DEF Spec, KeepsSettledKeys
-----------------------------------------------------------------------------
(* The door on top of it. *)

\* A key that get returned is one the provider published.
KeyIsPublished ==
  \A t \in Threads : pc[t] = "idle" /\ result[t] = "key" => kid[t] \in UNION versions

\* A request's thread works on the kid of its token, and it has no answer yet.
ThreadServes ==
  \A r \in Requests :
    /\ \A t \in worker[r] : kid[t] = want[r]
    /\ stage[r] # "done" => answer[r] = NoAnswer
    /\ stage[r] = "idle" => worker[r] = {}

Shaped ==
  /\ now \in 0 .. MaxTime
  /\ stage \in [Requests -> {"idle", "queued", "running", "done"}]
  /\ want \in [Requests -> Kids \cup {NoKid}]
  /\ worker \in [Requests -> SUBSET Threads]
  /\ DOMAIN answer = Requests

DInv == IInv /\ KeyIsPublished /\ ThreadServes /\ Shaped

LEMMA InitDInv == DoorInit => DInv
  BY InitIInv, OwnerAssumption
  DEF DoorInit, Init, DInv, KeyIsPublished, ThreadServes, Shaped

\* A request that starts is a get of its thread, or touches the resolver not at all.
LEMMA StartGets ==
  ASSUME DInv, NEW r \in Requests, Start(r)
  PROVE  \E t \in Threads :
           /\ pc[t] = "idle" /\ ~Busy(t)
           /\ \/ Respond(r, "refused") /\ UNCHANGED vars
              \/ /\ want[r] \in Kids /\ Get(t, want[r]) /\ UNCHANGED answer
                 /\ stage' = [stage EXCEPT ![r] = "running"]
                 /\ worker' = [worker EXCEPT ![r] = {t}]
<1>1. want[r] \in Kids \cup {NoKid}
  BY DEF DInv, Shaped
<1> QED BY <1>1 DEF Start

LEMMA DoorStepIsResolverStep == DInv /\ [DoorNext]_doorVars => [Next]_vars
<1> SUFFICES ASSUME DInv, [DoorNext]_doorVars PROVE [Next]_vars
  OBVIOUS
<1>1. CASE UNCHANGED doorVars
  BY <1>1 DEF doorVars
<1>2. CASE Tick \/ Rebind \/ \E r \in Requests : Arrive(r) \/ Decide(r)
  BY <1>2 DEF Tick, Rebind, Arrive, Decide
<1>3. CASE Elsewhere
  BY <1>3 DEF Elsewhere, Next
<1>4. CASE \E t \in Threads : Resolve(t)
  BY <1>4 DEF Resolve, Next
<1>5. CASE \E r \in Requests : Start(r)
  BY <1>5, StartGets DEF Next
<1> QED BY <1>1, <1>2, <1>3, <1>4, <1>5 DEF DoorNext

LEMMA KeyStep == ASSUME DInv, [Next]_vars PROVE KeyIsPublished'
<1>1. cache \subseteq UNION versions
  BY DEF DInv, IInv, CacheIsOneVersion
<1>2. CASE UNCHANGED vars
  BY <1>2 DEF vars, DInv, KeyIsPublished
<1>3. CASE Rotate
  BY <1>3 DEF Rotate, DInv, KeyIsPublished
<1>4. ASSUME NEW t \in Threads, NEW k \in Kids, Get(t, k) PROVE KeyIsPublished'
  BY <1>1, <1>4 DEF Get, Goto, Return, DInv, IInv, TypeOK, KeyIsPublished
<1>5. ASSUME NEW t \in Threads, Refresh(t) PROVE KeyIsPublished'
  <2>1. CASE Look(t)
    BY <1>1, <2>1 DEF Look, Return, DInv, IInv, TypeOK, KeyIsPublished
  <2>2. CASE Fetch(t) \/ FetchFails(t) \/ Install(t)
    BY <2>2 DEF Fetch, FetchFails, Install, Goto, Return, DInv, IInv, TypeOK, KeyIsPublished
  <2> QED BY <1>5, <2>1, <2>2 DEF Refresh
<1> QED BY <1>2, <1>3, <1>4, <1>5 DEF Next

LEMMA StartServes ==
  ASSUME DInv, NEW r \in Requests, Start(r) PROVE (ThreadServes /\ Shaped)'
<1>1. PICK t \in Threads :
           /\ pc[t] = "idle" /\ ~Busy(t)
           /\ \/ Respond(r, "refused") /\ UNCHANGED vars
              \/ /\ want[r] \in Kids /\ Get(t, want[r]) /\ UNCHANGED answer
                 /\ stage' = [stage EXCEPT ![r] = "running"]
                 /\ worker' = [worker EXCEPT ![r] = {t}]
  BY StartGets
<1>2. UNCHANGED <<now, want>> /\ stage[r] = "queued"
  BY DEF Start, accountVars
<1>3. CASE Respond(r, "refused") /\ UNCHANGED vars
  BY <1>2, <1>3 DEF Respond, vars, DInv, ThreadServes, Shaped
<1>4. CASE /\ Get(t, want[r]) /\ UNCHANGED answer
           /\ stage' = [stage EXCEPT ![r] = "running"]
           /\ worker' = [worker EXCEPT ![r] = {t}]
  <2>1. kid' = [kid EXCEPT ![t] = want[r]] /\ DOMAIN kid = Threads
    BY <1>4 DEF Get, DInv, IInv, TypeOK
  <2>2. \A q \in Requests : t \notin worker[q]
    BY <1>1 DEF Busy
  <2> QED BY <1>2, <1>4, <2>1, <2>2 DEF DInv, ThreadServes, Shaped
<1> QED BY <1>1, <1>3, <1>4

LEMMA ElsewhereServes == ASSUME DInv, Elsewhere PROVE (ThreadServes /\ Shaped)'
<1>1. UNCHANGED <<now, stage, want, worker, answer>>
  BY DEF Elsewhere, accountVars, requestVars
<1>2. \A r \in Requests : \A t \in worker[r] : t \in Threads
  BY DEF DInv, Shaped
<1>3. CASE Rotate
  BY <1>1, <1>3 DEF Rotate, DInv, ThreadServes, Shaped
<1>4. ASSUME NEW t \in Threads, NEW k \in Kids, ~Busy(t), Get(t, k)
      PROVE  (ThreadServes /\ Shaped)'
  <2>1. \A r \in Requests : \A q \in worker[r] : kid'[q] = kid[q]
    BY <1>2, <1>4 DEF Get, Busy, DInv, IInv, TypeOK
  <2> QED BY <1>1, <2>1 DEF DInv, ThreadServes, Shaped
<1> QED BY <1>3, <1>4 DEF Elsewhere

LEMMA DecideServes ==
  ASSUME DInv, NEW r \in Requests, Decide(r) PROVE (ThreadServes /\ Shaped)'
<1>1. PICK a : Respond(r, a)
  BY DEF Decide
<1>2. UNCHANGED <<kid, now, want>>
  BY DEF Decide, vars, accountVars
<1> QED BY <1>1, <1>2 DEF Respond, DInv, ThreadServes, Shaped

LEMMA ArriveServes ==
  ASSUME DInv, NEW r \in Requests, Arrive(r) PROVE (ThreadServes /\ Shaped)'
<1>1. UNCHANGED <<kid, now>> /\ stage[r] = "idle"
  BY DEF Arrive, vars, accountVars
<1>2. CASE Respond(r, "refused") /\ UNCHANGED want
  BY <1>1, <1>2 DEF Respond, DInv, ThreadServes, Shaped
<1>3. CASE /\ \E k \in Kids \cup {NoKid} : want' = [want EXCEPT ![r] = k]
           /\ stage' = [stage EXCEPT ![r] = "queued"]
           /\ UNCHANGED <<worker, answer>>
  BY <1>1, <1>3 DEF DInv, ThreadServes, Shaped
<1> QED BY <1>2, <1>3 DEF Arrive

LEMMA NextDInv == DInv /\ [DoorNext]_doorVars => DInv'
<1> SUFFICES ASSUME DInv, [DoorNext]_doorVars PROVE DInv'
  OBVIOUS
<1>1. (IInv /\ KeyIsPublished)'
  BY DoorStepIsResolverStep, NextIInv, KeyStep DEF DInv
<1>2. CASE UNCHANGED doorVars \/ \E t \in Threads : Resolve(t)
  <2>1. UNCHANGED <<now, stage, want, worker, answer, kid>>
    BY <1>2 DEF doorVars, vars, accountVars, requestVars, Resolve, Refresh, Fetch,
       FetchFails, Install, Look
  <2> QED BY <1>1, <2>1 DEF DInv, ThreadServes, Shaped
<1>3. CASE Tick
  BY <1>1, <1>3, OwnerAssumption DEF Tick, vars, requestVars, DInv, ThreadServes, Shaped
<1>4. CASE Rebind
  BY <1>1, <1>4 DEF Rebind, vars, requestVars, DInv, ThreadServes, Shaped
<1> QED BY <1>1, <1>2, <1>3, <1>4, ElsewhereServes, ArriveServes, StartServes, DecideServes
        DEF DoorNext, DInv

LEMMA AlwaysDInv == DoorSpec => []DInv
  BY InitDInv, NextDInv, PTL DEF DoorSpec

\* The door drives the resolver as its specification allows, so what holds of every
\* resolver holds of the one behind the door: CacheIsOneVersion and KeepsSettledKeys.
THEOREM DoorUsesResolver == DoorSpec => Spec
<1>1. DoorInit => Init
  BY DEF DoorInit
<1> QED BY <1>1, AlwaysDInv, DoorStepIsResolverStep, PTL DEF DoorSpec, Spec

-----------------------------------------------------------------------------
(* Types. *)

LEMMA LoginsTyped ==
  ASSUME bound \in [Seconds -> SUBSET Tenants], now \in 0 .. MaxTime
  PROVE  Logins \cup Strangers \subseteq Claims
<1>1. ASSUME NEW i \in -Past .. now, NEW skew \in Skews, NEW app \in bound[i],
             NEW user \in Tenants
      PROVE  Login(i, skew, app, user) \in Claims
  <2>1. i \in Seconds /\ i + skew \in Int /\ i + skew + Ttl \in Int
    BY OwnerAssumption DEF Seconds
  <2>2. app \in Tenants
    BY <2>1
  <2> QED BY <2>1, <2>2 DEF Login, Claims
<1>2. Logins \subseteq Claims
  BY <1>1 DEF Logins
<1>3. ASSUME NEW app \in Tenants PROVE Login(now, 0, app, app) \in Claims
  <2>1. now + 0 \in Int /\ now + 0 + Ttl \in Int
    BY OwnerAssumption
  <2> QED BY <2>1 DEF Login, Claims
<1>4. ASSUME NEW c \in Claims
      PROVE  {[c EXCEPT !.signed = FALSE], [c EXCEPT !.addressed = FALSE],
              [c EXCEPT !.app_metadata = NoTenant], [c EXCEPT !.sub = FALSE]} \subseteq Claims
  BY DEF Claims
<1>5. ASSUME NEW s \in Strangers PROVE s \in Claims
  <2>1. PICK c \in Fresh :
          s \in {[c EXCEPT !.signed = FALSE], [c EXCEPT !.addressed = FALSE],
                [c EXCEPT !.app_metadata = NoTenant], [c EXCEPT !.sub = FALSE]}
    BY DEF Strangers
  <2>2. c \in Claims
    BY <1>3 DEF Fresh
  <2> QED BY <1>4, <2>1, <2>2
<1> QED BY <1>2, <1>5

LEMMA AcceptedIsTyped ==
  ASSUME NEW c \in Claims, Accepts(c) PROVE TenantOf(c) \in Tenants
  BY DEF Claims, Accepts, TenantOf

LEMMA InitTyped == DoorInit => DoorTypeOK
<1> SUFFICES ASSUME DoorInit PROVE DoorTypeOK
  OBVIOUS
<1>1. TypeOK
  BY InitIInv DEF DoorInit, IInv
<1>2. bound \in [Seconds -> SUBSET Tenants]
  BY DEF DoorInit
<1>3. now \in 0 .. MaxTime /\ rebinds \in 0 .. MaxRebinds
  BY OwnerAssumption DEF DoorInit
<1>4. /\ worker \in [Requests -> {{}} \cup {{t} : t \in Threads}]
      /\ claims \in [Requests -> Claims \cup {NoClaims}]
      /\ answer \in [Requests -> Failures \cup Tenants \cup {NoAnswer}]
  BY DEF DoorInit
<1>5. /\ stage \in [Requests -> {"idle", "queued", "running", "done"}]
      /\ \A r \in Requests : stage[r] = "running" <=> worker[r] # {}
  BY DEF DoorInit
<1>6. tenant \in Tenants /\ want \in [Requests -> Kids \cup {NoKid}]
  BY DEF DoorInit
<1> QED BY <1>1, <1>2, <1>3, <1>4, <1>5, <1>6 DEF DoorTypeOK

\* The account's and the requests' part of DoorTypeOK.
AccountTyped ==
  /\ now \in 0 .. MaxTime
  /\ tenant \in Tenants
  /\ bound \in [Seconds -> SUBSET Tenants]
  /\ rebinds \in 0 .. MaxRebinds

RequestsTyped ==
  /\ worker \in [Requests -> {{}} \cup {{t} : t \in Threads}]
  /\ claims \in [Requests -> Claims \cup {NoClaims}]
  /\ answer \in [Requests -> Failures \cup Tenants \cup {NoAnswer}]
  /\ \A r \in Requests : stage[r] = "running" <=> worker[r] # {}

LEMMA TypedParts == ASSUME DInv PROVE DoorTypeOK <=> (AccountTyped /\ RequestsTyped)
  BY DEF DInv, IInv, Shaped, DoorTypeOK, AccountTyped, RequestsTyped

LEMMA RespondTyped ==
  ASSUME DInv, RequestsTyped, NEW r \in Requests,
         NEW a \in Failures \cup Tenants, Respond(r, a),
         claims' \in [Requests -> Claims \cup {NoClaims}]
  PROVE  RequestsTyped'
<1>1. DOMAIN stage = Requests
  BY DEF DInv, Shaped
<1>2. worker' \in [Requests -> {{}} \cup {{t} : t \in Threads}]
  BY DEF Respond, RequestsTyped
<1>3. answer' \in [Requests -> Failures \cup Tenants \cup {NoAnswer}]
  BY DEF Respond, RequestsTyped
<1>4. ASSUME NEW q \in Requests PROVE stage'[q] = "running" <=> worker'[q] # {}
  <2>1. CASE q = r
    BY <1>1, <2>1 DEF Respond, RequestsTyped
  <2>2. CASE q # r
    BY <1>1, <2>2 DEF Respond, RequestsTyped
  <2> QED BY <2>1, <2>2
<1> QED BY <1>2, <1>3, <1>4 DEF RequestsTyped

LEMMA ArriveTyped ==
  ASSUME DInv, RequestsTyped, NEW r \in Requests, Arrive(r) PROVE RequestsTyped'
<1>1. UNCHANGED claims /\ stage[r] = "idle"
  BY DEF Arrive
<1>2. CASE Respond(r, "refused")
  BY <1>1, <1>2, RespondTyped DEF Failures, RequestsTyped
<1>3. CASE stage' = [stage EXCEPT ![r] = "queued"] /\ UNCHANGED <<worker, answer>>
  BY <1>1, <1>3 DEF RequestsTyped, DInv, Shaped
<1> QED BY <1>2, <1>3 DEF Arrive

LEMMA StartTyped ==
  ASSUME DInv, RequestsTyped, NEW r \in Requests, Start(r) PROVE RequestsTyped'
<1>1. UNCHANGED claims
  BY DEF Start
<1>2. CASE Respond(r, "refused")
  BY <1>1, <1>2, RespondTyped DEF Failures, RequestsTyped
<1>3. ASSUME NEW t \in Threads, stage' = [stage EXCEPT ![r] = "running"],
             worker' = [worker EXCEPT ![r] = {t}], UNCHANGED answer
      PROVE  RequestsTyped'
  <2>1. worker' \in [Requests -> {{}} \cup {{q} : q \in Threads}]
    BY <1>3 DEF RequestsTyped
  <2>2. \A q \in Requests : stage'[q] = "running" <=> worker'[q] # {}
    BY <1>3 DEF RequestsTyped, DInv, Shaped
  <2> QED BY <1>1, <1>3, <2>1, <2>2 DEF RequestsTyped
<1> QED BY StartGets, <1>2, <1>3

LEMMA DecideTyped ==
  ASSUME DInv, AccountTyped, RequestsTyped, NEW r \in Requests, Decide(r)
  PROVE  RequestsTyped'
<1>1. CASE \E c \in Logins \cup Strangers :
             /\ claims' = [claims EXCEPT ![r] = c]
             /\ Respond(r, IF Accepts(c) THEN TenantOf(c) ELSE "refused")
  <2>1. PICK c \in Logins \cup Strangers :
          /\ claims' = [claims EXCEPT ![r] = c]
          /\ Respond(r, IF Accepts(c) THEN TenantOf(c) ELSE "refused")
    BY <1>1
  <2>2. c \in Claims
    BY LoginsTyped DEF AccountTyped
  <2>3. (IF Accepts(c) THEN TenantOf(c) ELSE "refused") \in Failures \cup Tenants
    BY <2>2, AcceptedIsTyped DEF Failures
  <2>4. claims' \in [Requests -> Claims \cup {NoClaims}]
    BY <2>1, <2>2 DEF RequestsTyped
  <2> QED BY <2>1, <2>3, <2>4, RespondTyped
<1>2. ASSUME NEW t \in Threads, result[t] \in {"unknown", "error"},
             Respond(r, result[t]), UNCHANGED claims
      PROVE  RequestsTyped'
  BY <1>2, RespondTyped DEF Failures, RequestsTyped
<1>3. worker[r] \subseteq Threads
  BY DEF DInv, Shaped
<1> QED BY <1>1, <1>2, <1>3 DEF Decide

LEMMA AccountStep ==
  ASSUME AccountTyped, [DoorNext]_doorVars PROVE AccountTyped'
<1>1. CASE Tick
  <2>1. now + 1 \in 0 .. MaxTime /\ now + 1 \in Seconds
    BY <1>1, OwnerAssumption DEF Tick, AccountTyped, Seconds
  <2> QED BY <1>1, <2>1 DEF Tick, AccountTyped
<1>2. CASE Rebind
  <2>1. now \in Seconds /\ rebinds' \in 0 .. MaxRebinds
    BY <1>2, OwnerAssumption DEF Rebind, AccountTyped, Seconds
  <2>2. bound[now] \cup {tenant'} \in SUBSET Tenants
    BY <1>2, <2>1 DEF Rebind, AccountTyped
  <2>3. bound' = [bound EXCEPT ![now] = bound[now] \cup {tenant'}]
    BY <1>2 DEF Rebind
  <2> QED BY <1>2, <2>1, <2>2, <2>3 DEF Rebind, AccountTyped
<1>3. CASE UNCHANGED accountVars
  BY <1>3 DEF accountVars, AccountTyped
<1>4. Tick \/ Rebind \/ UNCHANGED accountVars
  BY DEF DoorNext, doorVars, Elsewhere, Resolve, Arrive, Start, Decide
<1> QED BY <1>1, <1>2, <1>3, <1>4

LEMMA RequestsStep ==
  ASSUME DInv, AccountTyped, RequestsTyped, [DoorNext]_doorVars PROVE RequestsTyped'
<1>1. CASE UNCHANGED requestVars
  BY <1>1 DEF requestVars, RequestsTyped
<1>2. (UNCHANGED requestVars) \/ \E r \in Requests : Arrive(r) \/ Start(r) \/ Decide(r)
  BY DEF DoorNext, doorVars, Tick, Rebind, Elsewhere, Resolve
<1> QED BY <1>1, <1>2, ArriveTyped, StartTyped, DecideTyped

LEMMA AlwaysTyped == DoorSpec => [](DInv /\ DoorTypeOK)
<1>1. DoorInit => DInv /\ DoorTypeOK
  BY InitDInv, InitTyped
<1>2. ASSUME DInv, DoorTypeOK, [DoorNext]_doorVars PROVE (DInv /\ DoorTypeOK)'
  <2>1. AccountTyped' /\ RequestsTyped'
    BY <1>2, TypedParts, AccountStep, RequestsStep
  <2>2. DInv'
    BY <1>2, NextDInv
  <2>3. DoorTypeOK'
    BY <2>1, <2>2 DEF DInv, IInv, Shaped, DoorTypeOK, AccountTyped, RequestsTyped
  <2> QED BY <2>2, <2>3
<1> QED BY <1>1, <1>2, PTL DEF DoorSpec

\* Every reachable state is well typed; in particular a request holds a thread exactly
\* while it runs, never more than one, and none after its answer.
THEOREM DoorTyped == DoorSpec => []DoorTypeOK
  BY AlwaysTyped, PTL

-----------------------------------------------------------------------------
(* Whom an owner is answered for. *)

\* A token decode takes is a login of the provider's, in its lifetime.
LEMMA AcceptsLogins ==
  ASSUME NEW c \in Logins \cup Strangers, Accepts(c), now \in Nat
  PROVE  /\ -Leeway <= now - c.iat /\ now - c.iat < Ttl + Leeway
         /\ \E i \in -Past .. now, skew \in Skews :
              c.iat = i + skew /\ TenantOf(c) \in bound[i]
<1>1. c \notin Strangers
  BY DEF Strangers, Fresh, Login, Accepts, TenantOf
<1>2. PICK i \in -Past .. now :
        \E skew \in Skews, app \in bound[i], user \in Tenants : c = Login(i, skew, app, user)
  BY <1>1 DEF Logins
<1>3. PICK skew \in Skews :
        c.iat = i + skew /\ c.exp = i + skew + Ttl /\ TenantOf(c) \in bound[i]
  BY <1>2 DEF Login, TenantOf
<1>4. i + skew <= now + Leeway /\ now < i + skew + Ttl + Leeway
  BY <1>3 DEF Accepts, InTime
<1>5. i \in Int /\ skew \in Int /\ now \in Int /\ Ttl \in Int /\ Leeway \in Int
  BY OwnerAssumption
<1>6. -Leeway <= now - (i + skew) /\ now - (i + skew) < Ttl + Leeway
  BY <1>4, <1>5
<1> QED BY <1>3, <1>6

\* An owner is answered within its token's lifetime and for the tenant app_metadata held when
\* the token was made, whatever waited for whom.
THEOREM OwnerIsVouchedFor == DoorSpec => TenantIsBound
<1> DEFINE A == \A r \in Requests :
       stage[r] = "running" /\ answer'[r] \in Tenants =>
         /\ want[r] \in UNION versions
         /\ -Leeway <= now - claims'[r].iat /\ now - claims'[r].iat < Ttl + Leeway
         /\ \E i \in -Past .. now, skew \in Skews :
              claims'[r].iat = i + skew /\ answer'[r] \in bound[i]
<1>1. ASSUME DInv, DoorTypeOK, [DoorNext]_doorVars PROVE [A]_doorVars
  <2> SUFFICES ASSUME DoorNext, NEW r \in Requests, stage[r] = "running", answer'[r] \in Tenants
               PROVE  /\ want[r] \in UNION versions
                      /\ -Leeway <= now - claims'[r].iat /\ now - claims'[r].iat < Ttl + Leeway
                      /\ \E i \in -Past .. now, skew \in Skews :
                           claims'[r].iat = i + skew /\ answer'[r] \in bound[i]
    BY <1>1
  <2>1. answer[r] \notin Tenants
    BY <1>1, OwnerAssumption DEF DInv, ThreadServes
  <2>2. Decide(r)
    <3>1. answer'[r] # answer[r]
      BY <2>1
    <3>2. \A q \in Requests : q # r /\ (Arrive(q) \/ Start(q) \/ Decide(q))
            => answer'[r] = answer[r]
      BY <1>1 DEF Arrive, Start, Decide, Respond, DInv, Shaped
    <3>3. ~Arrive(r) /\ ~Start(r)
      BY DEF Arrive, Start
    <3> QED BY <1>1, <3>1, <3>2, <3>3
            DEF DoorNext, Tick, Rebind, Elsewhere, Resolve, requestVars
  <2>3. PICK t \in worker[r] :
          /\ pc[t] = "idle"
          /\ \/ /\ result[t] = "key"
                /\ \E c \in Logins \cup Strangers :
                     /\ claims' = [claims EXCEPT ![r] = c]
                     /\ Respond(r, IF Accepts(c) THEN TenantOf(c) ELSE "refused")
             \/ result[t] \in {"unknown", "error"} /\ Respond(r, result[t])
    BY <2>2 DEF Decide
  <2>4. answer'[r] \notin Failures /\ DOMAIN answer = Requests
    BY <1>1, OwnerAssumption DEF DInv, Shaped
  <2>5. result[t] = "key"
    BY <2>3, <2>4 DEF Respond, Failures
  <2>6. PICK c \in Logins \cup Strangers :
          Accepts(c) /\ answer'[r] = TenantOf(c) /\ claims'[r] = c
    BY <1>1, <2>3, <2>4, <2>5 DEF Respond, Failures, DoorTypeOK
  <2>7. want[r] \in UNION versions
    BY <1>1, <2>3, <2>5 DEF DInv, Shaped, ThreadServes, KeyIsPublished
  <2>8. now \in Nat
    BY <1>1 DEF DInv, Shaped
  <2> QED BY <2>6, <2>7, <2>8, AcceptsLogins
<1> QED BY <1>1, AlwaysTyped, PTL DEF DoorSpec, TenantIsBound

-----------------------------------------------------------------------------
(* No good login is turned away. *)

\* Whoever looks twice looks at a published set, and a miss is one of that set's.
MissIsReal ==
  /\ \A t \in Threads : pc[t] = "look" => cache \in versions
  /\ \A t \in Threads :
       pc[t] = "idle" /\ result[t] = "unknown" => \E v \in versions : kid[t] \notin v

LEMMA InitMiss == DoorInit => MissIsReal
  BY DEF DoorInit, Init, MissIsReal

LEMMA MissStep == ASSUME IInv, MissIsReal, [Next]_vars PROVE MissIsReal'
<1> USE DEF IInv, TypeOK, MissIsReal
<1>1. CASE UNCHANGED vars
  BY <1>1 DEF vars
<1>2. CASE Rotate
  BY <1>2 DEF Rotate
<1>3. ASSUME NEW t \in Threads, NEW k \in Kids, Get(t, k) PROVE MissIsReal'
  BY <1>3 DEF Get, Goto, Return
<1>4. ASSUME NEW t \in Threads, Fetch(t) \/ FetchFails(t) PROVE MissIsReal'
  BY <1>4 DEF Fetch, FetchFails, Goto, Return
<1>5. ASSUME NEW t \in Threads, Install(t) PROVE MissIsReal'
  BY <1>5 DEF Install, Goto, FetchedIsVersion
<1>6. ASSUME NEW t \in Threads, Look(t) PROVE MissIsReal'
  BY <1>6 DEF Look, Return
<1> QED BY <1>1, <1>2, <1>3, <1>4, <1>5, <1>6 DEF Next, Refresh

\* Only Decide answers a running request.
LEMMA EndsByDecide ==
  ASSUME DInv, DoorNext, NEW r \in Requests, stage[r] = "running", stage'[r] = "done"
  PROVE  Decide(r)
<1>1. stage'[r] # stage[r]
  OBVIOUS
<1>2. \A q \in Requests : q # r /\ (Arrive(q) \/ Start(q) \/ Decide(q))
        => stage'[r] = stage[r]
  BY DEF Arrive, Start, Decide, Respond, DInv, Shaped
<1>3. ~Arrive(r) /\ ~Start(r)
  BY DEF Arrive, Start
<1> QED BY <1>1, <1>2, <1>3 DEF DoorNext, Tick, Rebind, Elsewhere, Resolve, requestVars

\* A login whose claims are refused is too young or too old.
LEMMA RefusedIsOutOfTime ==
  ASSUME DoorTypeOK, NEW c \in Logins, ~Accepts(c)
  PROVE  now - c.iat < -Leeway \/ now - c.iat >= Ttl + Leeway
<1>1. PICK i \in -Past .. now :
        \E skew \in Skews, app \in bound[i], user \in Tenants : c = Login(i, skew, app, user)
  BY DEF Logins
<1>2. PICK skew \in Skews, app \in bound[i], user \in Tenants : c = Login(i, skew, app, user)
  BY <1>1
<1>3. i \in Seconds /\ now \in Int /\ i + skew \in Int
  BY OwnerAssumption DEF DoorTypeOK, Seconds
<1>4. app \in Tenants /\ app # NoTenant
  BY <1>3, OwnerAssumption DEF DoorTypeOK
<1>5. c.iat = i + skew /\ c.exp = i + skew + Ttl
  BY <1>2 DEF Login
<1>6. ~InTime(c)
  BY <1>2, <1>4 DEF Accepts, TenantOf, Login
<1> QED BY <1>3, <1>5, <1>6, OwnerAssumption DEF InTime

\* A 401 is owed to the token: some published set lacked its key, or a login was too early
\* or too late, however many refreshes failed or overtook each other meanwhile.
THEOREM GoodLoginsPass == DoorSpec => GoodLoginServed
<1> DEFINE A == \A r \in Requests :
       stage[r] = "running" /\ stage'[r] = "done" =>
         /\ answer'[r] = "unknown" => \E v \in versions : want[r] \notin v
         /\ answer'[r] = "refused" /\ claims'[r] \in Logins =>
              LET age == now - claims'[r].iat IN age < -Leeway \/ age >= Ttl + Leeway
<1>1. DoorInit => MissIsReal
  BY InitMiss
<1>2. ASSUME DInv, MissIsReal, [DoorNext]_doorVars PROVE MissIsReal'
  BY <1>2, DoorStepIsResolverStep, MissStep DEF DInv
<1>3. ASSUME DInv, DoorTypeOK, MissIsReal, [DoorNext]_doorVars PROVE [A]_doorVars
  <2> SUFFICES ASSUME DoorNext, NEW r \in Requests, stage[r] = "running", stage'[r] = "done"
               PROVE  /\ answer'[r] = "unknown" => \E v \in versions : want[r] \notin v
                      /\ answer'[r] = "refused" /\ claims'[r] \in Logins =>
                           \/ now - claims'[r].iat < -Leeway
                           \/ now - claims'[r].iat >= Ttl + Leeway
    BY <1>3
  <2>1. Decide(r)
    BY <1>3, EndsByDecide
  <2>2. PICK t \in worker[r] :
          /\ pc[t] = "idle"
          /\ \/ /\ result[t] = "key"
                /\ \E c \in Logins \cup Strangers :
                     /\ claims' = [claims EXCEPT ![r] = c]
                     /\ Respond(r, IF Accepts(c) THEN TenantOf(c) ELSE "refused")
             \/ result[t] \in {"unknown", "error"} /\ Respond(r, result[t])
    BY <2>1 DEF Decide
  <2>3. t \in Threads /\ kid[t] = want[r] /\ DOMAIN answer = Requests
    BY <1>3 DEF DInv, Shaped, ThreadServes
  <2>4. CASE result[t] = "key"
    <3>1. PICK c \in Logins \cup Strangers :
            /\ claims' = [claims EXCEPT ![r] = c]
            /\ answer'[r] = IF Accepts(c) THEN TenantOf(c) ELSE "refused"
      BY <2>2, <2>3, <2>4 DEF Respond
    <3>2. claims'[r] = c /\ c \in Claims
      BY <1>3, <3>1, LoginsTyped DEF DoorTypeOK
    <3>3. CASE Accepts(c)
      BY <3>1, <3>2, <3>3, AcceptedIsTyped, OwnerAssumption DEF Failures
    <3>4. CASE ~Accepts(c)
      BY <1>3, <3>1, <3>2, <3>4, RefusedIsOutOfTime
    <3> QED BY <3>3, <3>4
  <2>5. CASE result[t] \in {"unknown", "error"}
    <3>1. answer'[r] = result[t]
      BY <2>2, <2>3, <2>5 DEF Respond
    <3> QED BY <1>3, <2>2, <2>3, <2>5, <3>1 DEF MissIsReal
  <2> QED BY <2>2, <2>4, <2>5
<1> QED BY <1>1, <1>2, <1>3, AlwaysTyped, PTL DEF DoorSpec, GoodLoginServed
=============================================================================
