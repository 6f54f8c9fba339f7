------------------------------- MODULE McpDoor -------------------------------
(***************************************************************************)
(* The external-caller door: McpSecurityMiddleware and the answer tool of  *)
(* mcp/server.py, the verifier and the minting of mcp/tokens.py, and the   *)
(* external-caller adapter.                                                *)
(*                                                                         *)
(* The tenant travels from the middleware to the tool in a contextvar.     *)
(* The tool does not run in the request's own task but in a server task    *)
(* that the (external) session manager spawns for it, whose context is a   *)
(* copy of the spawning task's; requests of several callers interleave.    *)
(***************************************************************************)
EXTENDS HostMatching, Integers, FiniteSets

CONSTANTS Requests, Tenants,
          AllowedHosts,   \* mcp_allowed_hosts, as the settings spell them
          AllowedOrigins, \* mcp_allowed_origins
          Clients,        \* the pairs of Host and Origin headers that are sent
          Garbled,        \* a header that is not UTF-8: value.decode() raises
          Absent,         \* no such header (or no bearer token in it)
          NoTenant,
          Ttl, Leeway,   \* seconds
          MaxSkew,       \* bound: how far a minting host's clock is ahead
          MaxTime,       \* bound: the clock stops there
          MaxTokens      \* bound: tokens minted

ASSUME McpAssumption ==
  /\ {Ttl, Leeway, MaxSkew, MaxTime, MaxTokens} \subseteq Nat
  /\ NoTenant \notin Tenants
  /\ \A o \in AllowedOrigins : ~OriginRaises(o)   \* or the app does not start

\* Headers and settings are text; no listed name is empty, which "//." would pass for.
ASSUME HeaderAssumption ==
  /\ \A c \in Clients : {c.host, c.origin} \ {Garbled, Absent} \subseteq Seq(Text)
  /\ AllowedHosts \subseteq Seq(Text) \ {<<>>} /\ AllowedOrigins \subseteq Seq(Text)
  /\ \A o \in AllowedOrigins : <<>> \notin OriginHost(o)

\* A JWT, by what jwt.decode and verify look at.  "hs256" stands for one signed with
\* mcp_signing_secret under the pinned algorithm.
JWTs == [signed : {"hs256", "other"}, issuer : BOOLEAN, audience : BOOLEAN,
         iat : 0 .. MaxTime + MaxSkew, exp : 0 .. MaxTime + MaxSkew + Ttl, tenant : Tenants \cup {NoTenant}]

\* Variant: milliseconds.
MintedMillis(tenant, t) ==
  [signed |-> "hs256", issuer |-> TRUE, audience |-> TRUE,
   iat |-> 1000 * t, exp |-> 1000 * t + Ttl, tenant |-> tenant]

\* mint_mcp_token at instant t.
Minted(tenant, t) ==
  [signed |-> "hs256", issuer |-> TRUE, audience |-> TRUE,
   iat |-> t, exp |-> t + Ttl, tenant |-> tenant]

\* Tokens of other domains: a Supabase login, one for another audience, one that names
\* no tenant; none of them expires while the clock runs.
Foreign(signed, audience, tenant) ==
  [signed |-> signed, issuer |-> TRUE, audience |-> audience,
   iat |-> 0, exp |-> MaxTime + Ttl, tenant |-> tenant]

ForeignTokens ==
  {Foreign("other", TRUE, t) : t \in Tenants} \cup {Foreign("hs256", FALSE, t) : t \in Tenants}
    \cup {Foreign("hs256", TRUE, NoTenant)}

Shapes(tokens) ==
  {[host |-> c.host, origin |-> c.origin, bearer |-> b] : c \in Clients, b \in tokens \cup {Absent}}

VARIABLES
  now,       \* the clock, in seconds
  minted,    \* the tokens handed to callers
  stage,     \* how far each request is
  req,       \* its headers
  context,   \* per task: the contextvar _external_caller
  outcome    \* the response: its status and the tenant the tool answered for

vars == <<now, minted, stage, req, context, outcome>>

\* The task uvicorn runs a request in, and the one its tool call runs in.
RequestTask(r) == <<"request", r>>

\* Variant: stateless_http off, every call of a session in one server task.
SharedServerTask(r) == <<"server", CHOOSE q \in Requests : TRUE>>

\* stateless_http=True: a server task per request.
ServerTask(r) == <<"server", r>>

Tasks == {"request", "server"} \X Requests

Stages == {"idle", "arrived", "admitted", "spawned", "answered", "done"}

NoRequest == [host |-> Absent, origin |-> Absent, bearer |-> Absent]

Nothing == [status |-> 0, tenant |-> NoTenant]

TypeOK ==
  /\ now \in 0 .. MaxTime
  /\ minted \subseteq JWTs
  /\ stage \in [Requests -> Stages]
  /\ \A r \in Requests : req[r] \in Shapes(minted \cup ForeignTokens) \cup {NoRequest}
  /\ context \in [Tasks -> Tenants \cup {NoTenant}]
  /\ outcome \in [Requests -> [status : {0, 200, 401, 403, 500},
                               tenant : Tenants \cup {NoTenant}]]

Init ==
  /\ now = 0
  /\ minted = {}
  /\ stage = [r \in Requests |-> "idle"]
  /\ req = [r \in Requests |-> NoRequest]
  /\ context = [t \in Tasks |-> NoTenant]
  /\ outcome = [r \in Requests |-> Nothing]

-----------------------------------------------------------------------------
(* The token. *)

\* Variant: a token still good at the instant its leeway ends.
InTimeInclusive(jwt, t) == jwt.iat <= t + Leeway /\ t <= jwt.exp + Leeway

\* PyJWT with leeway: issued no later than now, expired at exp, each give or take it.
InTime(jwt, t) == jwt.iat <= t + Leeway /\ t < jwt.exp + Leeway

AddressedHere(jwt) == jwt.issuer /\ jwt.audience

\* McpTokenVerifier.verify, for a request without a bearer token too (parse_bearer).
Verified(bearer, t) ==
  /\ bearer # Absent
  /\ bearer.signed = "hs256" /\ AddressedHere(bearer) /\ InTime(bearer, t)
  /\ bearer.tenant # NoTenant

Tick ==
  /\ now < MaxTime
  /\ now' = now + 1
  /\ UNCHANGED <<minted, stage, req, context, outcome>>

\* Tokens are minted by a process of its own (scripts/e2e_doors.py), on its own clock.
Mint(tenant) ==
  /\ Cardinality(minted) < MaxTokens
  /\ \E skew \in 0 .. MaxSkew : minted' = minted \cup {Minted(tenant, now + skew)}
  /\ UNCHANGED <<now, stage, req, context, outcome>>

-----------------------------------------------------------------------------
(* A request. *)

mcp_allowed_origin_hosts == UNION {OriginHost(o) : o \in AllowedOrigins}

mcp_request_hosts == {Lower(h) : h \in AllowedHosts}

\* What _check_host and _check_origin let pass, and what urlsplit raises for.
HostValues == {c.host : c \in Clients} \ {Garbled, Absent}
OriginValues == {c.origin : c \in Clients} \ {Garbled, Absent}

PassHost == {v \in HostValues : AuthorityAllowed(v, mcp_request_hosts)}
PassOrigin == {v \in OriginValues : HostAllowed(v, mcp_allowed_origin_hosts)} \cup {Absent}

RaisingHost == {v \in HostValues : AuthorityRaises(v)}
RaisingOrigin == {v \in OriginValues : OriginRaises(v)}

Respond(r, status, tenant) ==
  outcome' = [outcome EXCEPT ![r] = [status |-> status, tenant |-> tenant]]

Goto(r, s) == stage' = [stage EXCEPT ![r] = s]

Arrive(r) ==
  /\ stage[r] = "idle"
  /\ \E s \in Shapes(minted \cup ForeignTokens) : req' = [req EXCEPT ![r] = s]
  /\ Goto(r, "arrived")
  /\ UNCHANGED <<now, minted, context, outcome>>

\* All headers are decoded, then Host, Origin (which may be absent) and the token are
\* looked at, with no await in between.  Only AppError is caught, so what decode or
\* urlsplit raises leaves as a 500.
Check(r) ==
  LET s == req[r]
      refuse(status) == /\ Respond(r, status, NoTenant)
                        /\ Goto(r, "done")
                        /\ UNCHANGED context
  IN
  /\ stage[r] = "arrived"
  /\ IF Garbled \in {s.host, s.origin} THEN refuse(500)
     ELSE IF s.host \in RaisingHost THEN refuse(500)
     ELSE IF s.host \notin PassHost THEN refuse(403)
     ELSE IF s.origin \in RaisingOrigin THEN refuse(500)
     ELSE IF s.origin \notin PassOrigin THEN refuse(403)
     ELSE IF ~Verified(s.bearer, now) THEN refuse(401)
     ELSE /\ context' = [context EXCEPT ![RequestTask(r)] = s.bearer.tenant]
          /\ Goto(r, "admitted")
          /\ UNCHANGED outcome
  /\ UNCHANGED <<now, minted, req>>

\* The session manager starts the server task, which copies the request's context.
Spawn(r) ==
  /\ stage[r] = "admitted"
  /\ context' = [context EXCEPT ![ServerTask(r)] = context[RequestTask(r)]]
  /\ Goto(r, "spawned")
  /\ UNCHANGED <<now, minted, req, outcome>>

\* Variant: without a context the tool waits for one.
ToolWaits(r) ==
  LET caller == context[ServerTask(r)] IN
  /\ stage[r] = "spawned" /\ context[RequestTask(r)] # NoTenant
  /\ Respond(r, 200, caller)
  /\ Goto(r, "answered")
  /\ UNCHANGED <<now, minted, req, context>>

\* The answer tool reads the contextvar of the task it runs in (401 stands for the tool
\* error it raises without one).
Tool(r) ==
  LET caller == context[ServerTask(r)] IN
  /\ stage[r] = "spawned"
  /\ Respond(r, IF caller = NoTenant THEN 401 ELSE 200, caller)
  /\ Goto(r, "answered")
  /\ UNCHANGED <<now, minted, req, context>>

\* The app returned: the finally clause resets the contextvar.
Finish(r) ==
  /\ stage[r] = "answered"
  /\ context' = [context EXCEPT ![RequestTask(r)] = NoTenant]
  /\ Goto(r, "done")
  /\ UNCHANGED <<now, minted, req, outcome>>

\* The caller hangs up: the middleware unwinds while the server task may still run.
HangUp(r) ==
  /\ stage[r] \in {"admitted", "spawned"}
  /\ context' = [context EXCEPT ![RequestTask(r)] = NoTenant]
  /\ IF stage[r] = "admitted" THEN Goto(r, "done") ELSE UNCHANGED stage
  /\ UNCHANGED <<now, minted, req, outcome>>

Serve(r) == Check(r) \/ Spawn(r) \/ Tool(r) \/ Finish(r)

Next ==
  \/ Tick
  \/ \E tenant \in Tenants : Mint(tenant)
  \/ \E r \in Requests : Arrive(r) \/ Serve(r) \/ HangUp(r)

Spec == Init /\ [][Next]_vars

FairSpec == Spec /\ \A r \in Requests : WF_vars(Serve(r))

-----------------------------------------------------------------------------
(* Properties. *)

\* A tool answer is for the tenant of a token this service minted and this very request
\* carried, whoever else's call runs at the same time.
AnswersItsCaller ==
  \A r \in Requests :
    outcome[r].status = 200 => /\ req[r].bearer \in minted
                               /\ outcome[r].tenant = req[r].bearer.tenant

\* A token opens the door from its minting to the end of its lifetime, give or take the
\* leeway and not a second more, whenever the request that carries it was sent.
AdmittedInLifetime ==
  [][\A r \in Requests : stage[r] = "arrived" /\ stage'[r] = "admitted" =>
       LET age == now - req[r].bearer.iat IN -Leeway <= age /\ age < Ttl + Leeway]_vars

\* The Host values that spell, as an authority, a host the settings list, and the Origin
\* values that spell the same host as an origin they list.
Served == {v \in HostValues : \E h \in AllowedHosts : SpellsAuthority(Strip(v), Lower(h))}

Trusted ==
  {v \in OriginValues : \E o \in AllowedOrigins : \E i, j \in 1 .. Len(o) :
     LET h == Lower(SubSeq(o, i, j)) IN SpellsOrigin(o, h) /\ SpellsOrigin(v, h)}

\* The rebinding defence: no request gets past the middleware, and no tool runs, under a
\* Host or from an Origin that merely contains a listed one, begins or ends with it or
\* has it as its user or port; a browserless caller may leave Origin out.
AdmittedFromListed ==
  \A r \in Requests :
    stage[r] \in {"admitted", "spawned", "answered"} =>
      req[r].host \in Served /\ req[r].origin \in Trusted \cup {Absent}

\* errors.py:71, "the single RFC 9457 error envelope every client parses": no refusal
\* is a bare 500.
RefusalsAreProblems == \A r \in Requests : outcome[r].status # 500

\* A request that reached the middleware is answered or refused.
EveryRequestEnds == \A r \in Requests : stage[r] = "arrived" ~> stage[r] = "done"
=============================================================================
