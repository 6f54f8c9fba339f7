----------------------------- MODULE VisitorGate -----------------------------
(***************************************************************************)
(* The visitor door: the middleware and VisitorGate of tenants/gate.py,    *)
(* the key lookup of tenants/widget_keys.py, the route of                  *)
(* tenants/widget_router.py and the in-process adapter of agent/adapters.py*)
(*                                                                         *)
(* Requests interleave at every await, and widget_keys is re-seeded        *)
(* (scripts/seed_local.py) while they are in flight.  The reference is     *)
(* Verdict: the answer a request deserves under one version of the key row *)
(* when the documented checks are taken in the documented order.           *)
(***************************************************************************)
EXTENDS HostMatching

CONSTANTS Requests,
          Keys, Tenants,
          Hosts,         \* what an entry of allowed_hosts may be, as the row spells it
          Values,        \* the Origin and Referer values a client may send
          Shapes,        \* the requests a client may send, a subset of AllShapes
          MaxBody,       \* visitor_max_body_bytes, in units of received data
          MaxSent,       \* bound: the most a client sends
          RateAnswers,   \* what the installed limiter may answer; AllowAll: {TRUE}
          Absent,        \* a header that is not there (or an empty key)
          NoRecord, NoShape, NoTenant

Headers == Values \cup {Absent}

\* What json.loads makes of the body, in the order _sanitize_query looks at it.
Bodies == {"raises", "not_json", "not_object", "no_query", "query"}

AllShapes ==
  {s \in [key : Keys \cup {Absent}, origin : Headers, referer : Headers,
          size : 0 .. MaxSent, declared : BOOLEAN, body : Bodies] :
     s.size = 0 => s.body = "not_json"}

ASSUME GateAssumption ==
  /\ MaxBody \in Nat /\ MaxSent \in Nat
  /\ Shapes \subseteq AllShapes
  /\ RateAnswers \subseteq BOOLEAN /\ RateAnswers # {}
  /\ Absent \notin Keys \cup Values /\ NoTenant \notin Tenants /\ NoShape \notin AllShapes

\* Values are text; a row lists no empty name, which "https://." would pass for.
ASSUME TextAssumption ==
  Values \subseteq Seq(Text) /\ Hosts \subseteq Seq(Text) \ {<<>>}

Records == [tenant : Tenants, hosts : SUBSET Hosts]

ASSUME NoRecordAssumption == NoRecord \notin Records

VARIABLES
  keys,       \* the widget_keys table: a row or none per key
  stage,      \* what each request waits for
  req,        \* the request
  buffered,   \* how much of its body the process holds
  record,     \* the row lookup returned
  outcome,    \* the response: its status and the tenant it was answered for
  during      \* history: the versions of the key's row since the request arrived

vars == <<keys, stage, req, buffered, record, outcome, during>>

Stages == {"idle", "body", "lookup", "rate", "route", "done"}

\* 500: an exception that is no AppError left the middleware.  0: no response yet, or
\* the client went away.
Statuses == {0, 200, 400, 401, 403, 413, 429, 500}

Nothing == [status |-> 0, tenant |-> NoTenant]

TypeOK ==
  /\ keys \in [Keys -> Records \cup {NoRecord}]
  /\ stage \in [Requests -> Stages]
  /\ req \in [Requests -> Shapes \cup {NoShape}]
  /\ buffered \in [Requests -> 0 .. MaxSent]
  /\ record \in [Requests -> Records \cup {NoRecord}]
  /\ outcome \in [Requests -> [status : Statuses, tenant : Tenants \cup {NoTenant}]]
  /\ during \in [Requests -> SUBSET (Records \cup {NoRecord})]

Init ==
  /\ keys \in [Keys -> Records \cup {NoRecord}]
  /\ stage = [r \in Requests |-> "idle"]
  /\ req = [r \in Requests |-> NoShape]
  /\ buffered = [r \in Requests |-> 0]
  /\ record = [r \in Requests |-> NoRecord]
  /\ outcome = [r \in Requests |-> Nothing]
  /\ during = [r \in Requests |-> {}]

-----------------------------------------------------------------------------
Goto(r, s) == stage' = [stage EXCEPT ![r] = s] /\ UNCHANGED outcome

\* The response is sent and the body freed.
Respond(r, status, tenant) ==
  /\ stage' = [stage EXCEPT ![r] = "done"]
  /\ outcome' = [outcome EXCEPT ![r] = [status |-> status, tenant |-> tenant]]

Row(s) == IF s.key = Absent THEN NoRecord ELSE keys[s.key]

\* The middleware looks at a declared length before it reads the body.  Of the bodies
\* without one (chunked) it knows nothing yet.
Arrive(r) ==
  /\ stage[r] = "idle"
  /\ \E s \in Shapes :
       /\ req' = [req EXCEPT ![r] = s]
       /\ during' = [during EXCEPT ![r] = {Row(s)}]
       /\ IF s.declared /\ s.size > MaxBody
          THEN Respond(r, 413, NoTenant)
          ELSE Goto(r, "body")
  /\ UNCHANGED <<keys, buffered, record>>

\* await request.body() takes in another piece.
Receive(r) ==
  /\ stage[r] = "body"
  /\ buffered[r] < req[r].size
  /\ buffered' = [buffered EXCEPT ![r] = @ + 1]
  /\ UNCHANGED <<keys, stage, req, record, outcome, during>>

\* The client closed the connection before the end of the body.
Disconnect(r) ==
  /\ stage[r] = "body"
  /\ Respond(r, 0, NoTenant)
  /\ UNCHANGED <<keys, req, buffered, record, during>>

\* The body is complete: authorize, up to its first await.
Authorize(r) ==
  /\ stage[r] = "body"
  /\ buffered[r] = req[r].size
  /\ IF buffered[r] > MaxBody THEN Respond(r, 413, NoTenant)
     ELSE IF req[r].key = Absent THEN Respond(r, 401, NoTenant)
     ELSE Goto(r, "lookup")
  /\ UNCHANGED <<keys, req, buffered, record, during>>

\* The header _check_origin decides by: a present Origin is authoritative.
Claimed(s) == IF s.origin # Absent THEN s.origin ELSE s.referer

\* The entries of a row that admit each value; lookup lowercases them.
AdmittedBy == [v \in Values |-> {h \in Hosts : HostAllowed(v, {Lower(h)})}]

Raising == {v \in Values : OriginRaises(v)}

\* Variant: an unknown key is waited for.
LookupKnown(r) ==
  LET s == req[r] IN
  /\ stage[r] = "lookup"
  /\ Row(s) # NoRecord
  /\ record' = [record EXCEPT ![r] = Row(s)]
  /\ Goto(r, "rate")
  /\ UNCHANGED <<keys, req, buffered, during>>

\* SELECT tenant_id, allowed_hosts: one row, read at one instant.  urlsplit's ValueError
\* is no AppError.
Lookup(r) ==
  LET s == req[r] IN
  /\ stage[r] = "lookup"
  /\ record' = [record EXCEPT ![r] = Row(s)]
  /\ IF Row(s) = NoRecord THEN Respond(r, 401, NoTenant)
     ELSE IF Claimed(s) = Absent THEN Respond(r, 403, NoTenant)
     ELSE IF Claimed(s) \in Raising THEN Respond(r, 500, NoTenant)
     ELSE IF AdmittedBy[Claimed(s)] \cap Row(s).hosts = {} THEN Respond(r, 403, NoTenant)
     ELSE Goto(r, "rate")
  /\ UNCHANGED <<keys, req, buffered, during>>

\* The database does not answer; asyncpg raises through the middleware.
LookupFails(r) ==
  /\ stage[r] = "lookup"
  /\ Respond(r, 500, NoTenant)
  /\ UNCHANGED <<keys, req, buffered, record, during>>

\* Variant: a refused query answered like a schema error.
BodyUnprocessable(s) == IF s.body = "query" THEN 200 ELSE 422

\* _sanitize_query; json.loads raises what is no JSONDecodeError for bytes that are no
\* text (UnicodeDecodeError) and for nesting that is too deep (RecursionError).
BodyStatus(s) ==
  IF s.body = "query" THEN 200 ELSE IF s.body = "raises" THEN 500 ELSE 400

CheckRate(r) ==
  /\ stage[r] = "rate"
  /\ \E allowed \in RateAnswers :
       IF ~allowed THEN Respond(r, 429, NoTenant)
       ELSE IF BodyStatus(req[r]) # 200 THEN Respond(r, BodyStatus(req[r]), NoTenant)
       ELSE Goto(r, "route")
  /\ UNCHANGED <<keys, req, buffered, record, during>>

\* Variant: the route looks the key up again for the tenant.
RouteAgain(r) ==
  /\ stage[r] = "route"
  /\ Respond(r, 200, Row(req[r]).tenant)
  /\ UNCHANGED <<keys, req, buffered, record, during>>

\* widget_answer finds the context on request.state and answers for its tenant.
Route(r) ==
  /\ stage[r] = "route"
  /\ Respond(r, 200, record[r].tenant)
  /\ UNCHANGED <<keys, req, buffered, record, during>>

\* A seeding run inserts or updates a key (ON CONFLICT (key) DO UPDATE).
Upsert(k, rec) ==
  /\ keys' = [keys EXCEPT ![k] = rec]
  /\ during' = [r \in Requests |->
                  IF stage[r] \notin {"idle", "done"} /\ req[r].key = k
                  THEN during[r] \cup {rec} ELSE during[r]]
  /\ UNCHANGED <<stage, req, buffered, record, outcome>>

Serve(r) == Lookup(r) \/ CheckRate(r) \/ Route(r)

Next ==
  \/ \E r \in Requests :
       Arrive(r) \/ Receive(r) \/ Disconnect(r) \/ Authorize(r) \/ LookupFails(r) \/ Serve(r)
  \/ \E k \in Keys, rec \in Records : Upsert(k, rec)

Spec == Init /\ [][Next]_vars

\* The server's own steps are taken; a client need not send the rest of its body.
Fairness == \A r \in Requests : WF_vars(Authorize(r)) /\ WF_vars(Serve(r))

FairSpec == Spec /\ Fairness

-----------------------------------------------------------------------------
(* Properties. *)

\* The hosts each value spells, in whatever case a row has them.
SpelledHosts == [v \in Values |-> {h \in Hosts : SpellsOrigin(v, Lower(h))}]

\* The checks a request fails, ranked in the order of gate.py:3-4 and tests.
Failures(s, rec, allowed) ==
  LET when(cond, rank, status) == IF cond THEN {<<rank, status>>} ELSE {}
      hosts == IF rec = NoRecord THEN {} ELSE rec.hosts
      header == IF s.origin = Absent THEN s.referer ELSE s.origin
      named == IF header = Absent THEN {} ELSE SpelledHosts[header]
  IN  when(s.size > MaxBody, 1, 413)
        \cup when(rec = NoRecord, 2, 401)
        \cup when(named \cap hosts = {}, 3, 403)
        \cup when(~allowed, 4, 429)
        \cup when(s.body # "query", 5, 400)

Verdict(s, rec, allowed) ==
  LET failures == Failures(s, rec, allowed)
  IN  IF failures = {} THEN 200
      ELSE (CHOOSE f \in failures : \A g \in failures : f[1] <= g[1])[2]

\* Every deliberate response is the verdict under a single version of the key's row
\* that was in force while the request was in flight, and a served visitor gets that
\* version's tenant: a re-seed never pairs one version's hosts with another's tenant.
\* The header a verdict goes by spells a listed host, in whatever case and with whatever
\* user, port, path or trailing dot, and in no other way.
OneVersionDecides ==
  \A r \in Requests :
    LET o == outcome[r] IN
    o.status \notin {0, 500} =>
      \E rec \in during[r], allowed \in RateAnswers :
        /\ o.status = Verdict(req[r], rec, allowed)
        /\ o.status = 200 => o.tenant = rec.tenant

\* settings.py:78-79: the cap keeps an anonymous visitor from exhausting memory, so the
\* process never holds more of a body than the limit and the piece that exceeds it.
BufferBounded == \A r \in Requests : buffered[r] <= MaxBody + 1

\* A request whose body has arrived gets a response, even while keys are re-seeded.
CompleteIsAnswered ==
  \A r \in Requests :
    stage[r] = "body" /\ buffered[r] = req[r].size ~> stage[r] = "done"
=============================================================================
