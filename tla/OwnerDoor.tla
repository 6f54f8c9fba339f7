------------------------------ MODULE OwnerDoor ------------------------------
(***************************************************************************)
(* The owner door: get_owner_context and OwnerTokenVerifier of             *)
(* tenants/owner_auth.py on top of the key resolver, GET /v1/tenants/me,   *)
(* and the account whose app_metadata the provider writes into its logins. *)
(*                                                                         *)
(* verify runs in worker threads, which other requests use as well; time   *)
(* passes and the account is bound to another tenant while a request waits *)
(* for a thread or for a fetch.  What a token claims is left open until    *)
(* jwt.decode reads it: any token that exists by then.                     *)
(***************************************************************************)
EXTENDS JwksResolver, Integers

CONSTANTS Requests, Tenants, NoTenant,
          Ttl, Leeway,   \* seconds
          Skews,         \* bound: how many seconds the provider's clock may be ahead
          Past,          \* bound: how many seconds before 0 the oldest login was made
          MaxTime,       \* bound: the clock stops there
          MaxRebinds     \* bound: how often the account changes its tenant

\* What a request is answered besides the tenant of a 200: "unknown" (401: no such key),
\* "refused" (any other 401), "error" (500).
Failures == {"unknown", "refused", "error"}
NoAnswer == "none"

ASSUME OwnerAssumption ==
  /\ {Ttl, Leeway, Past, MaxTime, MaxRebinds} \subseteq Nat
  /\ Skews \subseteq Nat
  /\ Tenants \cap (Failures \cup {NoAnswer, NoTenant}) = {}

VARIABLES
  now,     \* the clock
  tenant,  \* the account's tenant_id in app_metadata
  bound,   \* history: the tenants it had in each second
  rebinds,
  stage,   \* how far each request is
  want,    \* the kid in its token's header
  worker,  \* per request: the thread that verifies its token, or none
  claims,  \* what its token claims, once decoded
  answer   \* the response

accountVars == <<now, tenant, bound, rebinds>>
requestVars == <<stage, want, worker, claims, answer>>
doorVars == <<vars, accountVars, requestVars>>

Seconds == -Past .. MaxTime

\* "signed": by the key its kid names, under ES256, the one algorithm decode is given.
\* "addressed": iss and aud are ours, exp is there.
Claims ==
  [signed : BOOLEAN, addressed : BOOLEAN, iat : Int, exp : Int,
   app_metadata : Tenants \cup {NoTenant}, user_metadata : Tenants, sub : BOOLEAN]

\* The provider's logins: by its clock, with the tenant of that second, and with what the
\* user wrote into user_metadata.
Login(i, skew, app, user) ==
  [signed |-> TRUE, addressed |-> TRUE, iat |-> i + skew, exp |-> i + skew + Ttl,
   app_metadata |-> app, user_metadata |-> user, sub |-> TRUE]

Logins ==
  UNION {{Login(i, skew, app, user) : skew \in Skews, app \in bound[i], user \in Tenants} :
           i \in -Past .. now}

\* Anyone's tokens: signed by another key or algorithm, made for another service, of an
\* account that was never bound, or without a subject.
Fresh == {Login(now, 0, app, app) : app \in Tenants}

Strangers ==
  UNION {{[c EXCEPT !.signed = FALSE], [c EXCEPT !.addressed = FALSE],
          [c EXCEPT !.app_metadata = NoTenant], [c EXCEPT !.sub = FALSE]} : c \in Fresh}

NoClaims == [signed |-> FALSE]

Busy(t) == \E r \in Requests : t \in worker[r]

DoorTypeOK ==
  /\ TypeOK
  /\ now \in 0 .. MaxTime
  /\ tenant \in Tenants
  /\ bound \in [Seconds -> SUBSET Tenants]
  /\ rebinds \in 0 .. MaxRebinds
  /\ stage \in [Requests -> {"idle", "queued", "running", "done"}]
  /\ want \in [Requests -> Kids \cup {NoKid}]
  /\ worker \in [Requests -> {{}} \cup {{t} : t \in Threads}]
  /\ claims \in [Requests -> Claims \cup {NoClaims}]
  /\ answer \in [Requests -> Failures \cup Tenants \cup {NoAnswer}]
  /\ \A r \in Requests : stage[r] = "running" <=> worker[r] # {}

DoorInit ==
  /\ Init
  /\ now = 0
  /\ tenant \in Tenants
  /\ bound = [i \in Seconds |-> IF i <= 0 THEN {tenant} ELSE {}]
  /\ rebinds = 0
  /\ stage = [r \in Requests |-> "idle"]
  /\ want = [r \in Requests |-> NoKid]
  /\ worker = [r \in Requests |-> {}]
  /\ claims = [r \in Requests |-> NoClaims]
  /\ answer = [r \in Requests |-> NoAnswer]

-----------------------------------------------------------------------------
(* The surroundings. *)

Tick ==
  /\ now < MaxTime
  /\ now' = now + 1
  /\ bound' = [bound EXCEPT ![now + 1] = {tenant}]
  /\ UNCHANGED <<vars, tenant, rebinds, requestVars>>

\* The admin API writes app_metadata; logins made before keep what they say.
Rebind ==
  /\ rebinds < MaxRebinds
  /\ rebinds' = rebinds + 1
  /\ tenant' \in Tenants \ {tenant}
  /\ bound' = [bound EXCEPT ![now] = @ \cup {tenant'}]
  /\ UNCHANGED <<vars, now, requestVars>>

\* Rotations, and the other requests' threads.
Elsewhere ==
  /\ Rotate \/ \E t \in Threads, k \in Kids : ~Busy(t) /\ Get(t, k)
  /\ UNCHANGED <<accountVars, requestVars>>

-----------------------------------------------------------------------------
(* A request. *)

Respond(r, a) ==
  /\ stage' = [stage EXCEPT ![r] = "done"]
  /\ worker' = [worker EXCEPT ![r] = {}]
  /\ answer' = [answer EXCEPT ![r] = a]

\* parse_bearer, then to_thread puts verify into the executor's queue.
Arrive(r) ==
  /\ stage[r] = "idle"
  /\ \/ /\ Respond(r, "refused")
        /\ UNCHANGED want
     \/ /\ want' \in {[want EXCEPT ![r] = k] : k \in Kids \cup {NoKid}}
        /\ stage' = [stage EXCEPT ![r] = "queued"]
        /\ UNCHANGED <<worker, answer>>
  /\ UNCHANGED <<vars, accountVars, claims>>

\* A free thread begins verify: _key_id, then the resolver.
Start(r) ==
  /\ stage[r] = "queued"
  /\ \E t \in Threads :
       /\ pc[t] = "idle" /\ ~Busy(t)
       /\ \/ /\ want[r] = NoKid
             /\ Respond(r, "refused")
             /\ UNCHANGED vars
          \/ /\ want[r] # NoKid
             /\ Get(t, want[r])
             /\ stage' = [stage EXCEPT ![r] = "running"]
             /\ worker' = [worker EXCEPT ![r] = {t}]
             /\ UNCHANGED answer
  /\ UNCHANGED <<accountVars, want, claims>>

\* Any thread's next step inside the resolver.
Resolve(t) == Refresh(t) /\ UNCHANGED <<accountVars, requestVars>>

\* Variant: a lifetime that includes its last second.
InTimeInclusive(c) == c.iat <= now + Leeway /\ now <= c.exp + Leeway

\* Variant: no leeway at the end of a lifetime.
InTimeStrictly(c) == c.iat <= now + Leeway /\ now < c.exp

\* PyJWT's exp and iat, and _reject_future_iat, within the same second.
InTime(c) == c.iat <= now + Leeway /\ now < c.exp + Leeway

\* Variant: user_metadata is read.
UserTenant(c) == c.user_metadata

\* _tenant_id
TenantOf(c) == c.app_metadata

Accepts(c) ==
  c.signed /\ c.addressed /\ InTime(c) /\ TenantOf(c) # NoTenant /\ c.sub

\* Variant: a fetch that raised leaves the request waiting.
DecideKey(r) ==
  /\ stage[r] = "running"
  /\ \E t \in worker[r] : pc[t] = "idle" /\ result[t] = "key"
  /\ \E c \in Logins \cup Strangers :
       /\ claims' = [claims EXCEPT ![r] = c]
       /\ Respond(r, IF Accepts(c) THEN TenantOf(c) ELSE "refused")
  /\ UNCHANGED <<vars, accountVars, want>>

\* get returned or raised; on a key the token is decoded and its claims are checked.  What
\* the fetch raised is no AuthenticationError and leaves as a 500.
Decide(r) ==
  /\ stage[r] = "running"
  /\ \E t \in worker[r] :
       /\ pc[t] = "idle"
       /\ \/ /\ result[t] = "key"
             /\ \E c \in Logins \cup Strangers :
                  /\ claims' = [claims EXCEPT ![r] = c]
                  /\ Respond(r, IF Accepts(c) THEN TenantOf(c) ELSE "refused")
          \/ /\ result[t] \in {"unknown", "error"}
             /\ Respond(r, result[t])
             /\ UNCHANGED claims
  /\ UNCHANGED <<vars, accountVars, want>>

DoorNext ==
  \/ Tick \/ Rebind \/ Elsewhere
  \/ \E t \in Threads : Resolve(t)
  \/ \E r \in Requests : Arrive(r) \/ Start(r) \/ Decide(r)

DoorSpec == DoorInit /\ [][DoorNext]_doorVars

\* A thread runs on and a fetch has a timeout; the executor's queue is first in, first
\* out, so a request whose turn comes with every free thread gets one.
FairDoorSpec ==
  /\ DoorSpec
  /\ \A t \in Threads : WF_doorVars(Resolve(t))
  /\ \A r \in Requests : SF_doorVars(Start(r)) /\ WF_doorVars(Decide(r))

-----------------------------------------------------------------------------
(* Properties. *)

\* An answered owner is one the provider vouches for still: at the second of the answer the
\* token is within its lifetime and leeway, however long thread and fetch took; the tenant is
\* what app_metadata held when the provider made that token, whatever user_metadata says and
\* the account holds by now; and the key was a published one.
TenantIsBound ==
  [][\A r \in Requests :
       stage[r] = "running" /\ answer'[r] \in Tenants =>
         /\ want[r] \in UNION versions
         /\ -Leeway <= now - claims'[r].iat /\ now - claims'[r].iat < Ttl + Leeway
         /\ \E i \in -Past .. now, skew \in Skews :
              claims'[r].iat = i + skew /\ answer'[r] \in bound[i]]_doorVars

\* No good login is turned away: a 401 for a signing key means that some published set
\* lacked it, a 401 for a login that it was too early or too late for it at that second.
GoodLoginServed ==
  [][\A r \in Requests :
       stage[r] = "running" /\ stage'[r] = "done" =>
         /\ answer'[r] = "unknown" => \E v \in versions : want[r] \notin v
         /\ answer'[r] = "refused" /\ claims'[r] \in Logins =>
              LET age == now - claims'[r].iat IN age < -Leeway \/ age >= Ttl + Leeway]_doorVars

\* Every request is answered, though others may fill the threads again and again.
EveryVerifyEnds == \A r \in Requests : stage[r] = "queued" ~> stage[r] = "done"
=============================================================================
