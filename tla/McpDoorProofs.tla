---------------------------- MODULE McpDoorProofs ----------------------------
(***************************************************************************)
(* What the external-caller door admits, and for whom its tool answers,    *)
(* for any number of interleaved requests, tenants and tokens.             *)
(***************************************************************************)
EXTENDS McpDoor, HostMatchingProofs

\* Minted tokens live for Ttl.
MintedWellFormed ==
  \A jwt \in minted : jwt.iat \in Nat /\ jwt.exp = jwt.iat + Ttl

\* A request carries one of the tokens there are, or none.
Carries ==
  \A r \in Requests : req[r].bearer \in minted \cup ForeignTokens \cup {Absent}

\* From the check on, the request's token is a minted one, and the contextvar of the
\* task that will read it next holds its tenant.
ContextFollows ==
  \A r \in Requests :
    /\ stage[r] \in {"admitted", "spawned"} => req[r].bearer \in minted
    /\ stage[r] = "admitted" => context[RequestTask(r)] = req[r].bearer.tenant
    /\ stage[r] = "spawned" => context[ServerTask(r)] = req[r].bearer.tenant

\* Only a tool that ran has answered.
AnsweredIsOver ==
  \A r \in Requests : outcome[r].status = 200 => stage[r] \in {"answered", "done"}

Shaped ==
  /\ now \in Nat
  /\ stage \in [Requests -> Stages]
  /\ DOMAIN req = Requests
  /\ DOMAIN context = Tasks
  /\ DOMAIN outcome = Requests

IInv ==
  /\ Shaped
  /\ MintedWellFormed
  /\ Carries
  /\ ContextFollows
  /\ AnsweredIsOver
  /\ AnswersItsCaller

LEMMA TasksApart ==
  ASSUME NEW r \in Requests, NEW q \in Requests
  PROVE  /\ RequestTask(r) \in Tasks /\ ServerTask(r) \in Tasks
         /\ RequestTask(r) # ServerTask(q)
         /\ RequestTask(r) = RequestTask(q) => r = q
         /\ ServerTask(r) = ServerTask(q) => r = q
  BY DEF RequestTask, ServerTask, Tasks

\* The verifier refuses every token of another domain.
LEMMA ForeignRefused ==
  ASSUME NEW jwt \in ForeignTokens, NEW t PROVE ~Verified(jwt, t)
<1>1. CASE \E u \in Tenants : jwt = Foreign("other", TRUE, u)
  <2>1. jwt.signed = "other"
    BY <1>1 DEF Foreign
  <2> QED BY <2>1 DEF Verified
<1>2. CASE \E u \in Tenants : jwt = Foreign("hs256", FALSE, u)
  <2>1. jwt.audience = FALSE
    BY <1>2 DEF Foreign
  <2> QED BY <2>1 DEF Verified, AddressedHere
<1>3. CASE jwt = Foreign("hs256", TRUE, NoTenant)
  <2>1. jwt.tenant = NoTenant
    BY <1>3 DEF Foreign
  <2> QED BY <2>1 DEF Verified
<1> QED BY <1>1, <1>2, <1>3 DEF ForeignTokens

\* So the middleware admits minted tokens only, and in their lifetime only.
LEMMA AdmitsMinted ==
  ASSUME IInv, NEW r \in Requests, Verified(req[r].bearer, now)
  PROVE  /\ req[r].bearer \in minted
         /\ LET age == now - req[r].bearer.iat IN -Leeway <= age /\ age < Ttl + Leeway
<1>1. req[r].bearer \in minted
  BY ForeignRefused DEF IInv, Carries, Verified
<1>2. InTime(req[r].bearer, now)
  BY DEF Verified
<1> QED BY <1>1, <1>2, McpAssumption DEF InTime, IInv, MintedWellFormed, Shaped

LEMMA InitIInv == Init => IInv
  BY DEF Init, IInv, Shaped, MintedWellFormed, Carries, ContextFollows, AnsweredIsOver,
     AnswersItsCaller, Stages, NoRequest, Nothing

LEMMA TickIInv == ASSUME IInv, Tick PROVE IInv'
  BY DEF Tick, IInv, Shaped, MintedWellFormed, Carries, ContextFollows, AnsweredIsOver,
     AnswersItsCaller

LEMMA MintIInv == ASSUME IInv, NEW tenant \in Tenants, Mint(tenant) PROVE IInv'
<1>1. PICK skew \in 0 .. MaxSkew : minted' = minted \cup {Minted(tenant, now + skew)}
  BY DEF Mint
<1>2. MintedWellFormed'
  BY <1>1, McpAssumption DEF IInv, Shaped, MintedWellFormed, Minted
<1>3. minted \subseteq minted'
  BY <1>1
<1> QED BY <1>2, <1>3 DEF Mint, IInv, Shaped, Carries, ContextFollows, AnsweredIsOver,
           AnswersItsCaller

LEMMA ArriveIInv == ASSUME IInv, NEW r \in Requests, Arrive(r) PROVE IInv'
<1>1. PICK s \in Shapes(minted \cup ForeignTokens) : req' = [req EXCEPT ![r] = s]
  BY DEF Arrive
<1>2. s.bearer \in minted \cup ForeignTokens \cup {Absent}
  BY DEF Shapes
<1> QED BY <1>1, <1>2 DEF Arrive, Goto, IInv, Shaped, MintedWellFormed, Carries,
           ContextFollows, AnsweredIsOver, AnswersItsCaller, Stages

LEMMA CheckIInv == ASSUME IInv, NEW r \in Requests, Check(r) PROVE IInv'
<1>1. /\ stage[r] = "arrived"
      /\ UNCHANGED <<now, minted, req>>
  BY DEF Check
<1>2. CASE stage' = [stage EXCEPT ![r] = "done"] /\ UNCHANGED context
           /\ \E status \in {401, 403, 500} : Respond(r, status, NoTenant)
  BY <1>1, <1>2 DEF Respond, IInv, Shaped, MintedWellFormed, Carries, ContextFollows,
     AnsweredIsOver, AnswersItsCaller, Stages
<1>3. CASE /\ Verified(req[r].bearer, now)
           /\ context' = [context EXCEPT ![RequestTask(r)] = req[r].bearer.tenant]
           /\ stage' = [stage EXCEPT ![r] = "admitted"] /\ UNCHANGED outcome
  <2>1. req[r].bearer \in minted
    BY <1>3, AdmitsMinted
  <2>2. ContextFollows'
    BY <1>1, <1>3, <2>1, TasksApart DEF IInv, Shaped, ContextFollows
  <2> QED BY <1>1, <1>3, <2>2 DEF IInv, Shaped, MintedWellFormed, Carries,
             AnsweredIsOver, AnswersItsCaller, Stages
<1> QED BY <1>2, <1>3 DEF Check, Goto

LEMMA SpawnIInv == ASSUME IInv, NEW r \in Requests, Spawn(r) PROVE IInv'
<1>1. ContextFollows'
  BY TasksApart DEF Spawn, Goto, IInv, Shaped, ContextFollows
<1> QED BY <1>1 DEF Spawn, Goto, IInv, Shaped, MintedWellFormed, Carries, AnsweredIsOver,
           AnswersItsCaller, Stages

LEMMA ToolIInv == ASSUME IInv, NEW r \in Requests, Tool(r) PROVE IInv'
<1>1. /\ req[r].bearer \in minted
      /\ context[ServerTask(r)] = req[r].bearer.tenant
  BY DEF Tool, IInv, ContextFollows
<1>2. (AnswersItsCaller /\ AnsweredIsOver)'
  BY <1>1 DEF Tool, Respond, Goto, IInv, Shaped, AnswersItsCaller, AnsweredIsOver
<1> QED BY <1>2 DEF Tool, Respond, Goto, IInv, Shaped, MintedWellFormed, Carries,
           ContextFollows, Stages

LEMMA FinishIInv == ASSUME IInv, NEW r \in Requests, Finish(r) PROVE IInv'
<1>1. ContextFollows'
  BY TasksApart DEF Finish, Goto, IInv, Shaped, ContextFollows
<1> QED BY <1>1 DEF Finish, Goto, IInv, Shaped, MintedWellFormed, Carries, AnsweredIsOver,
           AnswersItsCaller, Stages

LEMMA HangUpIInv == ASSUME IInv, NEW r \in Requests, HangUp(r) PROVE IInv'
<1>1. ContextFollows'
  BY TasksApart DEF HangUp, Goto, IInv, Shaped, ContextFollows
<1> QED BY <1>1 DEF HangUp, Goto, IInv, Shaped, MintedWellFormed, Carries, AnsweredIsOver,
           AnswersItsCaller, Stages

LEMMA NextIInv == IInv /\ [Next]_vars => IInv'
<1> SUFFICES ASSUME IInv, [Next]_vars PROVE IInv'
  OBVIOUS
<1>1. CASE UNCHANGED vars
  BY <1>1 DEF vars, IInv, Shaped, MintedWellFormed, Carries, ContextFollows,
     AnsweredIsOver, AnswersItsCaller
<1>2. CASE Next
  BY <1>2, TickIInv, MintIInv, ArriveIInv, CheckIInv, SpawnIInv, ToolIInv, FinishIInv,
     HangUpIInv DEF Next, Serve
<1> QED BY <1>1, <1>2

LEMMA AlwaysIInv == Spec => []IInv
  BY InitIInv, NextIInv, PTL DEF Spec

-----------------------------------------------------------------------------
(* Hosts and types. *)

\* What the middleware lets pass is what the settings list, said without parsing.
LEMMA PassedIsListed == PassHost \subseteq Served /\ PassOrigin \subseteq Trusted \cup {Absent}
<1>1. ASSUME NEW v \in PassHost PROVE v \in Served
  <2>1. v \in Seq(Text) /\ v \in HostValues
    BY HeaderAssumption DEF PassHost, HostValues
  <2>2. PICK h \in AllowedHosts : Lower(h) \in AuthorityHost(v)
    BY DEF PassHost, AuthorityAllowed, mcp_request_hosts
  <2>3. Lower(h) # <<>>
    <3>1. h \in Seq(Text) /\ h # <<>>
      BY HeaderAssumption
    <3>2. Len(Lower(h)) = Len(h)
      BY <3>1, LowerKeeps
    <3>3. Len(h) # 0 /\ Len(<<>>) = 0
      BY <3>1
    <3> QED BY <3>2, <3>3
  <2>4. SpellsAuthority(Strip(v), Lower(h))
    BY <2>1, <2>2, <2>3, AuthorityMatching
  <2> QED BY <2>1, <2>4 DEF Served
<1>2. ASSUME NEW v \in PassOrigin, v # Absent PROVE v \in Trusted
  <2>1. v \in Seq(Text) /\ v \in OriginValues
    BY <1>2, HeaderAssumption DEF PassOrigin, OriginValues
  <2>2. PICK o \in AllowedOrigins : \E h \in OriginHost(o) : h \in OriginHost(v)
    BY <1>2 DEF PassOrigin, HostAllowed, mcp_allowed_origin_hosts
  <2> PICK h \in OriginHost(o) : h \in OriginHost(v)
    BY <2>2
  <2>3. o \in Seq(Text) /\ h # <<>>
    BY HeaderAssumption
  <2>4. SpellsOrigin(o, h) /\ SpellsOrigin(v, h)
    BY <2>1, <2>2, <2>3, OriginMatching
  <2>5. \E i, j \in 1 .. Len(o) : h = Lower(SubSeq(o, i, j))
    BY <2>3, <2>4, OriginHolds
  <2> QED BY <2>1, <2>4, <2>5 DEF Trusted
<1> QED BY <1>1, <1>2

\* Past the middleware, a request keeps the headers it was let in with.
LEMMA NextAdmits == IInv /\ AdmittedFromListed /\ [Next]_vars => AdmittedFromListed'
<1> SUFFICES ASSUME IInv, AdmittedFromListed, [Next]_vars PROVE AdmittedFromListed'
  OBVIOUS
<1> DEFINE Past == {"admitted", "spawned", "answered"}
<1>1. CASE UNCHANGED vars
  BY <1>1 DEF vars, AdmittedFromListed
<1>2. CASE Tick \/ \E tenant \in Tenants : Mint(tenant)
  BY <1>2 DEF Tick, Mint, AdmittedFromListed
<1>3. ASSUME NEW r \in Requests, Arrive(r) PROVE AdmittedFromListed'
  <2>1. /\ \A q \in Requests \ {r} : stage'[q] = stage[q] /\ req'[q] = req[q]
        /\ stage'[r] = "arrived"
    BY <1>3 DEF Arrive, Goto, IInv, Shaped
  <2> QED BY <2>1 DEF AdmittedFromListed
<1>4. ASSUME NEW r \in Requests, Check(r) PROVE AdmittedFromListed'
  <2>1. /\ \A q \in Requests \ {r} : stage'[q] = stage[q]
        /\ stage'[r] \in Past => req[r].host \in PassHost /\ req[r].origin \in PassOrigin
        /\ UNCHANGED req
    BY <1>4 DEF Check, Goto, IInv, Shaped
  <2> QED BY <2>1, PassedIsListed DEF AdmittedFromListed
<1>5. ASSUME NEW r \in Requests, Spawn(r) \/ Tool(r) \/ Finish(r) \/ HangUp(r)
      PROVE  AdmittedFromListed'
  <2>1. /\ \A q \in Requests \ {r} : stage'[q] = stage[q]
        /\ stage'[r] \in Past => stage[r] \in Past
        /\ UNCHANGED req
    BY <1>5 DEF Spawn, Tool, Finish, HangUp, Goto, IInv, Shaped
  <2> QED BY <2>1 DEF AdmittedFromListed
<1> QED BY <1>1, <1>2, <1>3, <1>4, <1>5 DEF Next, Serve

LEMMA MintedTyped ==
  ASSUME now \in 0 .. MaxTime, NEW tenant \in Tenants, NEW skew \in 0 .. MaxSkew
  PROVE  Minted(tenant, now + skew) \in JWTs
<1>1. /\ now + skew \in 0 .. MaxTime + MaxSkew
      /\ now + skew + Ttl \in 0 .. MaxTime + MaxSkew + Ttl
  BY McpAssumption
<1> QED BY <1>1 DEF Minted, JWTs

\* A token that passes names a tenant.
LEMMA BearerTenant ==
  ASSUME TypeOK, NEW r \in Requests, req[r].bearer \in minted
  PROVE  req[r].bearer.tenant \in Tenants \cup {NoTenant}
  BY DEF TypeOK, JWTs

LEMMA NextTyped == IInv /\ TypeOK /\ [Next]_vars => TypeOK'
<1> SUFFICES ASSUME IInv, TypeOK, [Next]_vars PROVE TypeOK'
  OBVIOUS
<1>1. CASE UNCHANGED vars
  BY <1>1 DEF vars, TypeOK
<1>2. CASE Tick
  <2>1. now' \in 0 .. MaxTime
    BY <1>2, McpAssumption DEF Tick, TypeOK
  <2> QED BY <1>2, <2>1 DEF Tick, TypeOK
<1>3. ASSUME NEW tenant \in Tenants, Mint(tenant) PROVE TypeOK'
  <2>1. PICK skew \in 0 .. MaxSkew : minted' = minted \cup {Minted(tenant, now + skew)}
    BY <1>3 DEF Mint
  <2>2. minted' \subseteq JWTs
    BY <2>1, MintedTyped DEF TypeOK
  <2>3. Shapes(minted \cup ForeignTokens) \subseteq Shapes(minted' \cup ForeignTokens)
    BY <2>1 DEF Shapes
  <2> QED BY <1>3, <2>2, <2>3 DEF Mint, TypeOK
<1>4. ASSUME NEW r \in Requests, Arrive(r) PROVE TypeOK'
  <2>1. PICK s \in Shapes(minted \cup ForeignTokens) : req' = [req EXCEPT ![r] = s]
    BY <1>4 DEF Arrive
  <2>2. stage' \in [Requests -> Stages]
    BY <1>4 DEF Arrive, Goto, TypeOK, Stages
  <2>3. UNCHANGED <<now, minted, context, outcome>>
    BY <1>4 DEF Arrive
  <2>4. \A q \in Requests : req'[q] \in Shapes(minted \cup ForeignTokens) \cup {NoRequest}
    BY <2>1 DEF TypeOK, IInv, Shaped
  <2> QED BY <2>2, <2>3, <2>4 DEF TypeOK
<1>5. ASSUME NEW r \in Requests, Check(r) PROVE TypeOK'
  <2>1. stage[r] = "arrived" /\ UNCHANGED <<now, minted, req>>
    BY <1>5 DEF Check
  <2>2. CASE stage' = [stage EXCEPT ![r] = "done"] /\ UNCHANGED context
             /\ \E status \in {401, 403, 500} : Respond(r, status, NoTenant)
    <3>1. PICK status \in {401, 403, 500} :
            outcome' = [outcome EXCEPT ![r] = [status |-> status, tenant |-> NoTenant]]
      BY <2>2 DEF Respond
    <3>2. outcome' \in [Requests -> [status : {0, 200, 401, 403, 500},
                                     tenant : Tenants \cup {NoTenant}]]
      BY <3>1 DEF TypeOK
    <3>3. stage' \in [Requests -> Stages]
      BY <2>2 DEF TypeOK, Stages
    <3> QED BY <2>1, <2>2, <3>2, <3>3 DEF TypeOK
  <2>3. CASE /\ Verified(req[r].bearer, now)
             /\ context' = [context EXCEPT ![RequestTask(r)] = req[r].bearer.tenant]
             /\ stage' = [stage EXCEPT ![r] = "admitted"] /\ UNCHANGED outcome
    <3>1. req[r].bearer.tenant \in Tenants \cup {NoTenant}
      BY <2>3, AdmitsMinted, BearerTenant
    <3> QED BY <2>1, <2>3, <3>1 DEF TypeOK, Stages
  <2> QED BY <1>5, <2>2, <2>3 DEF Check, Goto
<1>6. ASSUME NEW r \in Requests, Spawn(r) \/ Finish(r) \/ HangUp(r) PROVE TypeOK'
  <2>1. context[RequestTask(r)] \in Tenants \cup {NoTenant}
    BY TasksApart DEF TypeOK
  <2>2. stage' \in [Requests -> Stages]
    BY <1>6 DEF Spawn, Finish, HangUp, Goto, TypeOK, Stages
  <2>3. context' \in [Tasks -> Tenants \cup {NoTenant}]
    BY <1>6, <2>1 DEF Spawn, Finish, HangUp, TypeOK
  <2>4. UNCHANGED <<now, minted, req, outcome>>
    BY <1>6 DEF Spawn, Finish, HangUp
  <2> QED BY <2>2, <2>3, <2>4 DEF TypeOK
<1>7. ASSUME NEW r \in Requests, Tool(r) PROVE TypeOK'
  <2>1. context[ServerTask(r)] \in Tenants \cup {NoTenant}
    BY TasksApart DEF TypeOK
  <2>2. outcome' \in [Requests -> [status : {0, 200, 401, 403, 500},
                                   tenant : Tenants \cup {NoTenant}]]
    BY <1>7, <2>1 DEF Tool, Respond, TypeOK
  <2>3. stage' \in [Requests -> Stages]
    BY <1>7 DEF Tool, Goto, TypeOK, Stages
  <2>4. UNCHANGED <<now, minted, req, context>>
    BY <1>7 DEF Tool
  <2> QED BY <2>2, <2>3, <2>4 DEF TypeOK
<1> QED BY <1>1, <1>2, <1>3, <1>4, <1>5, <1>6, <1>7 DEF Next, Serve

LEMMA InitRest == Init => TypeOK /\ AdmittedFromListed
<1> SUFFICES ASSUME Init PROVE TypeOK /\ AdmittedFromListed
  OBVIOUS
<1>1. Nothing \in [status : {0, 200, 401, 403, 500}, tenant : Tenants \cup {NoTenant}]
  BY DEF Nothing
<1>2. TypeOK
  BY <1>1, McpAssumption DEF Init, TypeOK, Stages
<1> QED BY <1>2 DEF Init, AdmittedFromListed

\* Every variable keeps its type.
THEOREM DoorTyped == Spec => []TypeOK
  BY InitRest, NextTyped, AlwaysIInv, PTL DEF Spec

\* Whatever the headers and the settings are, no request gets past the middleware under a
\* Host or from an Origin that does not spell a listed one.
THEOREM ListedOnly == Spec => []AdmittedFromListed
  BY InitRest, NextAdmits, AlwaysIInv, PTL DEF Spec

\* Every tool answer is for the tenant of a minted token its own request carried.
THEOREM OwnAnswers == Spec => []AnswersItsCaller
  BY AlwaysIInv, PTL DEF IInv

\* No token is admitted a second before or after its lifetime and the leeway.
THEOREM InLifetime == Spec => AdmittedInLifetime
<1> DEFINE A == \A r \in Requests : stage[r] = "arrived" /\ stage'[r] = "admitted" =>
                  LET age == now - req[r].bearer.iat IN -Leeway <= age /\ age < Ttl + Leeway
<1>1. ASSUME IInv, [Next]_vars PROVE [A]_vars
  <2> SUFFICES ASSUME Next, NEW r \in Requests, stage[r] = "arrived", stage'[r] = "admitted"
               PROVE  Verified(req[r].bearer, now)
    BY <1>1, AdmitsMinted
  <2>1. Check(r)
    BY <1>1 DEF Next, Serve, Tick, Mint, Arrive, Check, Spawn, Tool, Finish, HangUp, Goto,
       IInv, Shaped
  <2> QED BY <1>1, <2>1 DEF Check, Goto, IInv, Shaped
<1> QED BY <1>1, AlwaysIInv, PTL DEF Spec, AdmittedInLifetime
=============================================================================
