-------------------------- MODULE VisitorGateProofs --------------------------
(***************************************************************************)
(* What the visitor door answers, for any number of interleaved requests   *)
(* and re-seeds, any hosts and any header values.                          *)
(***************************************************************************)
EXTENDS VisitorGate, HostMatchingProofs

-----------------------------------------------------------------------------
(* Verdicts. *)

Named(s) == IF Claimed(s) = Absent THEN {} ELSE SpelledHosts[Claimed(s)]
HostsOf(rec) == IF rec = NoRecord THEN {} ELSE rec.hosts
OriginFits(s, rec) == Named(s) \cap HostsOf(rec) # {}

\* The code admits a value for an entry exactly where the value spells it.
LEMMA AdmitsWhatIsSpelt == AdmittedBy = SpelledHosts
<1>1. ASSUME NEW v \in Values, NEW h \in Hosts
      PROVE  HostAllowed(v, {Lower(h)}) <=> SpellsOrigin(v, Lower(h))
  <2>1. v \in Seq(Text) /\ h \in Seq(Text) /\ h # <<>>
    BY TextAssumption
  <2>2. Lower(h) # <<>>
    <3>1. Len(Lower(h)) = Len(h)
      BY <2>1, LowerKeeps
    <3>2. Len(h) # 0 /\ Len(<<>>) = 0
      BY <2>1
    <3> QED BY <3>1, <3>2
  <2>3. Lower(h) \in OriginHost(v) <=> SpellsOrigin(v, Lower(h))
    BY <2>1, <2>2, OriginMatching
  <2> QED BY <2>3 DEF HostAllowed
<1> QED BY <1>1 DEF AdmittedBy, SpelledHosts

LEMMA FailuresAre ==
  ASSUME NEW s, NEW rec, NEW allowed \in BOOLEAN, NEW f
  PROVE  f \in Failures(s, rec, allowed) <=>
           \/ s.size > MaxBody /\ f = <<1, 413>>
           \/ rec = NoRecord /\ f = <<2, 401>>
           \/ ~OriginFits(s, rec) /\ f = <<3, 403>>
           \/ ~allowed /\ f = <<4, 429>>
           \/ s.body # "query" /\ f = <<5, 400>>
  BY DEF Failures, OriginFits, Named, HostsOf, Claimed

\* The verdict is the status of the first check that fails.
LEMMA FirstFailureDecides ==
  ASSUME NEW s, NEW rec, NEW allowed \in BOOLEAN, NEW rank \in 1 .. 5, NEW status,
         <<rank, status>> \in Failures(s, rec, allowed),
         \A f \in Failures(s, rec, allowed) :
           f = <<rank, status>> \/ f[1] \in (rank + 1) .. 5
  PROVE  Verdict(s, rec, allowed) = status
<1> DEFINE F == Failures(s, rec, allowed)
           x == CHOOSE f \in F : \A g \in F : f[1] <= g[1]
<1>1. Verdict(s, rec, allowed) = x[2]
  BY DEF Verdict
<1> HIDE DEF F
<1>2. \A f \in F : rank <= f[1] /\ f[1] \in Nat
  BY DEF F
<1>3. \A f \in F : f[1] <= rank => f = <<rank, status>>
  BY DEF F
<1>4. <<rank, status>> \in F /\ \A g \in F : <<rank, status>>[1] <= g[1]
  BY <1>2 DEF F
<1>5. x \in F /\ x[1] <= rank
  BY <1>4
<1> HIDE DEF x
<1>6. x = <<rank, status>>
  BY <1>3, <1>5
<1> QED BY <1>1, <1>6

LEMMA VerdictIs ==
  ASSUME NEW s, NEW rec, NEW allowed \in BOOLEAN
  PROVE  /\ s.size > MaxBody => Verdict(s, rec, allowed) = 413
         /\ ~(s.size > MaxBody) /\ rec = NoRecord => Verdict(s, rec, allowed) = 401
         /\ ~(s.size > MaxBody) /\ rec # NoRecord /\ ~OriginFits(s, rec)
              => Verdict(s, rec, allowed) = 403
         /\ ~(s.size > MaxBody) /\ rec # NoRecord /\ OriginFits(s, rec) /\ ~allowed
              => Verdict(s, rec, allowed) = 429
<1>1. CASE s.size > MaxBody
  <2>1. <<1, 413>> \in Failures(s, rec, allowed)
    BY <1>1, FailuresAre
  <2>2. \A f \in Failures(s, rec, allowed) : f = <<1, 413>> \/ f[1] \in (1 + 1) .. 5
    BY FailuresAre
  <2> QED BY <1>1, <2>1, <2>2, FirstFailureDecides
<1>2. CASE ~(s.size > MaxBody) /\ rec = NoRecord
  <2>1. <<2, 401>> \in Failures(s, rec, allowed)
    BY <1>2, FailuresAre
  <2>2. \A f \in Failures(s, rec, allowed) : f = <<2, 401>> \/ f[1] \in (2 + 1) .. 5
    BY <1>2, FailuresAre
  <2> QED BY <1>2, <2>1, <2>2, FirstFailureDecides
<1>3. CASE ~(s.size > MaxBody) /\ rec # NoRecord /\ ~OriginFits(s, rec)
  <2>1. <<3, 403>> \in Failures(s, rec, allowed)
    BY <1>3, FailuresAre
  <2>2. \A f \in Failures(s, rec, allowed) : f = <<3, 403>> \/ f[1] \in (3 + 1) .. 5
    BY <1>3, FailuresAre
  <2> QED BY <1>3, <2>1, <2>2, FirstFailureDecides
<1>4. CASE ~(s.size > MaxBody) /\ rec # NoRecord /\ OriginFits(s, rec) /\ ~allowed
  <2>1. <<4, 429>> \in Failures(s, rec, allowed)
    BY <1>4, FailuresAre
  <2>2. \A f \in Failures(s, rec, allowed) : f = <<4, 429>> \/ f[1] \in (4 + 1) .. 5
    BY <1>4, FailuresAre
  <2> QED BY <1>4, <2>1, <2>2, FirstFailureDecides
<1> QED BY <1>1, <1>2, <1>3, <1>4

OnBody(s) == IF s.body = "query" THEN 200 ELSE 400

LEMMA VerdictOnBody ==
  ASSUME NEW s, NEW rec, NEW allowed \in BOOLEAN,
         ~(s.size > MaxBody), rec # NoRecord, OriginFits(s, rec)
  PROVE  allowed => Verdict(s, rec, allowed) = OnBody(s)
<1>1. ASSUME allowed, NEW f
      PROVE  f \in Failures(s, rec, allowed) <=> s.body # "query" /\ f = <<5, 400>>
  <2>1. f \in Failures(s, rec, allowed) <=>
          \/ s.size > MaxBody /\ f = <<1, 413>>
          \/ rec = NoRecord /\ f = <<2, 401>>
          \/ ~OriginFits(s, rec) /\ f = <<3, 403>>
          \/ ~allowed /\ f = <<4, 429>>
          \/ s.body # "query" /\ f = <<5, 400>>
    BY FailuresAre
  <2> QED BY <1>1, <2>1, Zenon
<1>2. ASSUME \A f : f \in Failures(s, rec, allowed) <=> s.body # "query" /\ f = <<5, 400>>
      PROVE  Verdict(s, rec, allowed) = OnBody(s)
  <2>1. CASE s.body # "query"
    <3>1. <<5, 400>> \in Failures(s, rec, allowed)
      BY <1>2, <2>1
    <3>2. \A f \in Failures(s, rec, allowed) : f = <<5, 400>> \/ f[1] \in (5 + 1) .. 5
      BY <1>2
    <3>3. Verdict(s, rec, allowed) = 400
      BY <3>1, <3>2, FirstFailureDecides
    <3> QED BY <2>1, <3>3 DEF OnBody
  <2>2. CASE s.body = "query"
    <3>1. Failures(s, rec, allowed) = {}
      BY <1>2, <2>2
    <3> QED BY <2>2, <3>1 DEF Verdict, OnBody
  <2> QED BY <2>1, <2>2
<1> QED BY <1>1, <1>2, Zenon

-----------------------------------------------------------------------------
(* The inductive invariant: what each stage knows of the request and of a  *)
(* version of its key's row that was in force while it was in flight.      *)

Active == Stages \ {"idle", "done"}

Flight(r) ==
  /\ stage[r] # "idle" => req[r] \in Shapes
  /\ stage[r] \in Active => Row(req[r]) \in during[r]
  /\ stage[r] # "done" => outcome[r] = Nothing
  /\ stage[r] \in {"lookup", "rate", "route"} =>
       ~(req[r].size > MaxBody) /\ req[r].key # Absent
  /\ stage[r] \in {"rate", "route"} =>
       record[r] \in during[r] /\ record[r] # NoRecord /\ OriginFits(req[r], record[r])
  /\ stage[r] = "route" => TRUE \in RateAnswers /\ req[r].body = "query"

IInv ==
  /\ TypeOK
  /\ \A r \in Requests : Flight(r)
  /\ OneVersionDecides

\* A response of this status and for this tenant is one that some version deserves.
Deserved(r, status, tenant) ==
  \/ status \in {0, 500}
  \/ \E rec \in during[r], allowed \in RateAnswers :
       /\ status = Verdict(req[r], rec, allowed)
       /\ status = 200 => tenant = rec.tenant

LEMMA RowTyped ==
  ASSUME TypeOK, NEW s \in AllShapes
  PROVE  Row(s) \in Records \cup {NoRecord} /\ s.key \in Keys \cup {Absent}
  BY DEF TypeOK, Row, AllShapes

LEMMA InitIInv == Init => IInv
<1> SUFFICES ASSUME Init PROVE IInv
  OBVIOUS
<1>1. Nothing \in [status : Statuses, tenant : Tenants \cup {NoTenant}]
  BY DEF Nothing, Statuses
<1>2. TypeOK
  BY <1>1, GateAssumption DEF Init, TypeOK, Stages
<1>3. \A r \in Requests : Flight(r)
  BY DEF Init, Flight, Active
<1>4. OneVersionDecides
  BY DEF Init, OneVersionDecides, Nothing
<1> QED BY <1>2, <1>3, <1>4 DEF IInv

LEMMA RespondIInv ==
  ASSUME IInv, NEW r \in Requests, stage[r] # "idle",
         NEW status \in Statuses, NEW tenant \in Tenants \cup {NoTenant},
         NEW rec \in Records \cup {NoRecord},
         Respond(r, status, tenant), Deserved(r, status, tenant),
         record' = [record EXCEPT ![r] = rec], UNCHANGED <<keys, req, buffered, during>>
  PROVE  IInv'
<1>1. TypeOK'
  <2>1. stage' \in [Requests -> Stages]
    BY DEF IInv, TypeOK, Respond, Stages
  <2>2. outcome' \in [Requests -> [status : Statuses, tenant : Tenants \cup {NoTenant}]]
    BY DEF IInv, TypeOK, Respond
  <2>3. record' \in [Requests -> Records \cup {NoRecord}]
    BY DEF IInv, TypeOK
  <2> QED BY <2>1, <2>2, <2>3 DEF IInv, TypeOK
<1>2. stage'[r] = "done" /\ outcome'[r] = [status |-> status, tenant |-> tenant]
      /\ \A q \in Requests \ {r} : stage'[q] = stage[q] /\ outcome'[q] = outcome[q]
                                   /\ record'[q] = record[q]
  BY DEF IInv, TypeOK, Respond
<1>3. ASSUME NEW q \in Requests PROVE Flight(q)'
  <2>1. CASE q = r
    BY <1>2, <2>1 DEF IInv, Flight, Active
  <2>2. CASE q # r
    BY <1>2, <2>2 DEF IInv, Flight, Row
  <2> QED BY <2>1, <2>2
<1>4. OneVersionDecides'
  <2> SUFFICES ASSUME NEW q \in Requests, outcome'[q].status \notin {0, 500}
               PROVE  \E version \in during[q], allowed \in RateAnswers :
                        /\ outcome'[q].status = Verdict(req[q], version, allowed)
                        /\ outcome'[q].status = 200 => outcome'[q].tenant = version.tenant
    BY DEF OneVersionDecides
  <2>1. CASE q = r
    BY <1>2, <2>1 DEF Deserved
  <2>2. CASE q # r
    BY <1>2, <2>2 DEF IInv, OneVersionDecides
  <2> QED BY <2>1, <2>2
<1> QED BY <1>1, <1>3, <1>4 DEF IInv

LEMMA GotoIInv ==
  ASSUME IInv, NEW r \in Requests, stage[r] \in Active,
         NEW next \in {"lookup", "rate", "route"}, NEW rec \in Records \cup {NoRecord},
         Goto(r, next), ~(req[r].size > MaxBody), req[r].key # Absent,
         next # "lookup" =>
           rec \in during[r] /\ rec # NoRecord /\ OriginFits(req[r], rec),
         next = "route" => TRUE \in RateAnswers /\ req[r].body = "query",
         record' = [record EXCEPT ![r] = rec], UNCHANGED <<keys, req, buffered, during>>
  PROVE  IInv'
<1>1. TypeOK'
  <2>1. stage' \in [Requests -> Stages] /\ UNCHANGED outcome
    BY DEF IInv, TypeOK, Goto, Stages
  <2>2. record' \in [Requests -> Records \cup {NoRecord}]
    BY DEF IInv, TypeOK
  <2> QED BY <2>1, <2>2 DEF IInv, TypeOK
<1>2. stage'[r] = next /\ record'[r] = rec /\ UNCHANGED outcome
      /\ \A q \in Requests \ {r} : stage'[q] = stage[q] /\ record'[q] = record[q]
  BY DEF IInv, TypeOK, Goto
<1>3. ASSUME NEW q \in Requests PROVE Flight(q)'
  <2>1. CASE q = r
    <3>1. next # "idle" /\ next # "done" /\ next \in Active
      BY DEF Active, Stages
    <3>2. stage[r] # "idle" /\ stage[r] # "done"
      BY DEF Active
    <3>3. req[r] \in Shapes /\ outcome[r] = Nothing /\ Row(req[r]) \in during[r]
      BY <3>2 DEF IInv, Flight
    <3> QED BY <1>2, <2>1, <3>1, <3>3 DEF Flight, Row
  <2>2. CASE q # r
    BY <1>2, <2>2 DEF IInv, Flight, Row
  <2> QED BY <2>1, <2>2
<1>4. OneVersionDecides'
  BY <1>2 DEF IInv, OneVersionDecides
<1> QED BY <1>1, <1>3, <1>4 DEF IInv

-----------------------------------------------------------------------------
(* Each action preserves it. *)

\* What holds of a request that was let past the middleware's first look.
LEMMA InFlight ==
  ASSUME IInv, NEW r \in Requests, stage[r] # "idle"
  PROVE  /\ req[r] \in AllShapes /\ outcome[r].status \in Statuses
         /\ record = [record EXCEPT ![r] = record[r]] /\ record[r] \in Records \cup {NoRecord}
         /\ req[r].body \in Bodies /\ req[r].size \in Nat
<1>1. req[r] \in AllShapes
  BY GateAssumption DEF IInv, Flight
<1>2. req[r].body \in Bodies /\ req[r].size \in Nat
  BY <1>1, GateAssumption DEF AllShapes
<1>3. outcome[r].status \in Statuses
  BY DEF IInv, TypeOK
<1>4. record = [record EXCEPT ![r] = record[r]] /\ record[r] \in Records \cup {NoRecord}
  BY DEF IInv, TypeOK
<1> QED BY <1>1, <1>2, <1>3, <1>4

LEMMA ArriveIInv == ASSUME IInv, NEW r \in Requests, Arrive(r) PROVE IInv'
<1>1. PICK s \in Shapes :
        /\ req' = [req EXCEPT ![r] = s]
        /\ during' = [during EXCEPT ![r] = {Row(s)}]
        /\ IF s.declared /\ s.size > MaxBody
           THEN Respond(r, 413, NoTenant)
           ELSE Goto(r, "body")
  BY DEF Arrive
<1>2. stage[r] = "idle" /\ UNCHANGED <<keys, buffered, record>>
  BY DEF Arrive
<1>3. s \in AllShapes /\ Row(s) \in Records \cup {NoRecord}
  BY GateAssumption, RowTyped DEF IInv
<1>4. /\ req' \in [Requests -> Shapes \cup {NoShape}]
      /\ during' \in [Requests -> SUBSET (Records \cup {NoRecord})]
      /\ req'[r] = s /\ during'[r] = {Row(s)}
      /\ \A q \in Requests \ {r} : req'[q] = req[q] /\ during'[q] = during[q]
  BY <1>1, <1>3 DEF IInv, TypeOK
<1>5. CASE Goto(r, "body")
  <2>1. stage' \in [Requests -> Stages] /\ stage'[r] = "body" /\ UNCHANGED outcome
        /\ \A q \in Requests \ {r} : stage'[q] = stage[q]
    BY <1>5 DEF Goto, IInv, TypeOK, Stages
  <2>2. TypeOK'
    BY <1>2, <1>4, <2>1 DEF IInv, TypeOK
  <2>3. outcome[r] = Nothing
    BY <1>2 DEF IInv, Flight
  <2>4. ASSUME NEW q \in Requests PROVE Flight(q)'
    <3>1. CASE q = r
      BY <1>2, <1>4, <2>1, <2>3, <3>1 DEF Flight, Row
    <3>2. CASE q # r
      BY <1>2, <1>4, <2>1, <3>2 DEF IInv, Flight, Row
    <3> QED BY <3>1, <3>2
  <2>5. OneVersionDecides'
    <3> SUFFICES ASSUME NEW q \in Requests, outcome[q].status \notin {0, 500}
                 PROVE  \E rec \in during'[q], allowed \in RateAnswers :
                          /\ outcome[q].status = Verdict(req'[q], rec, allowed)
                          /\ outcome[q].status = 200 => outcome[q].tenant = rec.tenant
      BY <2>1 DEF OneVersionDecides
    <3>1. q # r
      BY <2>3 DEF Nothing
    <3> QED BY <1>4, <3>1 DEF IInv, OneVersionDecides
  <2> QED BY <2>2, <2>4, <2>5 DEF IInv
<1>6. CASE s.size > MaxBody /\ Respond(r, 413, NoTenant)
  <2>1. /\ stage' \in [Requests -> Stages] /\ stage'[r] = "done"
        /\ outcome' \in [Requests -> [status : Statuses, tenant : Tenants \cup {NoTenant}]]
        /\ outcome'[r] = [status |-> 413, tenant |-> NoTenant]
        /\ \A q \in Requests \ {r} : stage'[q] = stage[q] /\ outcome'[q] = outcome[q]
    BY <1>6 DEF Respond, IInv, TypeOK, Stages, Statuses
  <2>2. TypeOK'
    BY <1>2, <1>4, <2>1 DEF IInv, TypeOK
  <2>3. ASSUME NEW q \in Requests PROVE Flight(q)'
    <3>1. CASE q = r
      <4>1. stage'[q] = "done" /\ req'[q] \in Shapes
        BY <1>4, <2>1, <3>1
      <4> QED BY <4>1 DEF Flight, Active
    <3>2. CASE q # r
      <4>1. Flight(q) /\ Row(req[q])' = Row(req[q])
        BY <1>2, <1>4, <3>2 DEF IInv, Row
      <4>2. /\ stage'[q] = stage[q] /\ req'[q] = req[q] /\ outcome'[q] = outcome[q]
            /\ record'[q] = record[q] /\ during'[q] = during[q]
        BY <1>2, <1>4, <2>1, <3>2
      <4> QED BY <4>1, <4>2 DEF Flight
    <3> QED BY <3>1, <3>2
  <2>4. OneVersionDecides'
    <3> SUFFICES ASSUME NEW q \in Requests, outcome'[q].status \notin {0, 500}
                 PROVE  \E rec \in during'[q], allowed \in RateAnswers :
                          /\ outcome'[q].status = Verdict(req'[q], rec, allowed)
                          /\ outcome'[q].status = 200 => outcome'[q].tenant = rec.tenant
      BY DEF OneVersionDecides
    <3>1. CASE q = r
      <4>1. PICK allowed \in RateAnswers : allowed \in BOOLEAN
        BY GateAssumption
      <4>2. Verdict(s, Row(s), allowed) = 413
        BY <1>6, <4>1, VerdictIs
      <4>3. Row(s) \in during'[q] /\ outcome'[q].status = Verdict(req'[q], Row(s), allowed)
            /\ outcome'[q].status # 200
        BY <1>4, <2>1, <3>1, <4>2
      <4> QED BY <4>1, <4>3, Zenon
    <3>2. CASE q # r
      BY <1>4, <2>1, <3>2 DEF IInv, OneVersionDecides
    <3> QED BY <3>1, <3>2
  <2> QED BY <2>2, <2>3, <2>4 DEF IInv
<1> QED BY <1>1, <1>5, <1>6

LEMMA ReceiveIInv == ASSUME IInv, NEW r \in Requests, Receive(r) PROVE IInv'
<1>1. buffered' \in [Requests -> 0 .. MaxSent]
  <2>1. req[r] \in AllShapes
    BY InFlight DEF Receive
  <2>2. buffered[r] + 1 \in 0 .. MaxSent
    BY <2>1, GateAssumption DEF Receive, IInv, TypeOK, AllShapes
  <2> QED BY <2>2 DEF Receive, IInv, TypeOK
<1>2. TypeOK'
  BY <1>1 DEF Receive, IInv, TypeOK
<1>3. ASSUME NEW q \in Requests PROVE Flight(q)'
  BY DEF Receive, IInv, Flight, Row
<1>4. OneVersionDecides'
  BY DEF Receive, IInv, OneVersionDecides
<1> QED BY <1>2, <1>3, <1>4 DEF IInv

LEMMA DisconnectIInv == ASSUME IInv, NEW r \in Requests, Disconnect(r) PROVE IInv'
  BY InFlight, RespondIInv DEF Disconnect, Deserved, Statuses

LEMMA LookupFailsIInv == ASSUME IInv, NEW r \in Requests, LookupFails(r) PROVE IInv'
  BY InFlight, RespondIInv DEF LookupFails, Deserved, Statuses

\* The answer some version of the row deserves, where one of its checks fails.
LEMMA DeservedBy ==
  ASSUME IInv, NEW r \in Requests, NEW rec \in during[r], NEW status, NEW tenant,
         NEW allowed \in RateAnswers, status = Verdict(req[r], rec, allowed),
         status # 200
  PROVE  Deserved(r, status, tenant)
  BY DEF Deserved

LEMMA AuthorizeIInv == ASSUME IInv, NEW r \in Requests, Authorize(r) PROVE IInv'
<1>1. /\ stage[r] = "body" /\ buffered[r] = req[r].size
      /\ UNCHANGED <<keys, req, buffered, record, during>>
  BY DEF Authorize
<1>2. /\ stage[r] # "idle" /\ stage[r] \in Active
      /\ record' = [record EXCEPT ![r] = record[r]] /\ record[r] \in Records \cup {NoRecord}
      /\ Row(req[r]) \in during[r]
  BY <1>1, InFlight DEF Active, Stages, IInv, Flight
<1>3. PICK allowed \in RateAnswers : allowed \in BOOLEAN
  BY GateAssumption
<1> {401, 413} \subseteq Statuses /\ NoTenant \in Tenants \cup {NoTenant}
  BY DEF Statuses
<1>4. CASE req[r].size > MaxBody /\ Respond(r, 413, NoTenant)
  <2>1. Verdict(req[r], Row(req[r]), allowed) = 413
    BY <1>3, <1>4, VerdictIs
  <2>2. Deserved(r, 413, NoTenant)
    BY <1>2, <2>1, DeservedBy
  <2> QED BY <1>1, <1>2, <1>4, <2>2, RespondIInv
<1>5. CASE ~(req[r].size > MaxBody) /\ req[r].key = Absent /\ Respond(r, 401, NoTenant)
  <2>1. Verdict(req[r], Row(req[r]), allowed) = 401
    BY <1>3, <1>5, VerdictIs DEF Row
  <2>2. Deserved(r, 401, NoTenant)
    BY <1>2, <2>1, DeservedBy
  <2> QED BY <1>1, <1>2, <1>5, <2>2, RespondIInv
<1>6. CASE ~(req[r].size > MaxBody) /\ req[r].key # Absent /\ Goto(r, "lookup")
  BY <1>1, <1>2, <1>6, GotoIInv
<1> QED BY <1>1, <1>4, <1>5, <1>6 DEF Authorize

LEMMA LookupIInv == ASSUME IInv, NEW r \in Requests, Lookup(r) PROVE IInv'
<1> DEFINE s == req[r]
           rec == Row(s)
<1>1. /\ stage[r] = "lookup"
      /\ record' = [record EXCEPT ![r] = rec]
      /\ UNCHANGED <<keys, req, buffered, during>>
  BY DEF Lookup
<1>2. /\ stage[r] # "idle" /\ stage[r] \in Active
      /\ rec \in during[r] /\ ~(s.size > MaxBody) /\ s.key # Absent
  BY <1>1 DEF Active, Stages, IInv, Flight
<1>3. s \in AllShapes /\ rec \in Records \cup {NoRecord}
  BY <1>2, InFlight, RowTyped DEF IInv
<1>4. PICK allowed \in RateAnswers : allowed \in BOOLEAN
  BY GateAssumption
<1>5. {401, 403, 500} \subseteq Statuses /\ NoTenant \in Tenants \cup {NoTenant}
  BY DEF Statuses
<1> HIDE DEF rec
<1>6. CASE rec = NoRecord /\ Respond(r, 401, NoTenant)
  <2>1. Verdict(s, rec, allowed) = 401
    BY <1>2, <1>4, <1>6, VerdictIs
  <2>2. Deserved(r, 401, NoTenant)
    BY <1>2, <2>1, DeservedBy
  <2> QED BY <1>1, <1>2, <1>3, <1>5, <1>6, <2>2, RespondIInv
<1>7. CASE rec # NoRecord /\ ~OriginFits(s, rec) /\ Respond(r, 403, NoTenant)
  <2>1. Verdict(s, rec, allowed) = 403
    BY <1>2, <1>4, <1>7, VerdictIs
  <2>2. Deserved(r, 403, NoTenant)
    BY <1>2, <2>1, DeservedBy
  <2> QED BY <1>1, <1>2, <1>3, <1>5, <1>7, <2>2, RespondIInv
<1>8. CASE Respond(r, 500, NoTenant)
  <2>1. Deserved(r, 500, NoTenant)
    BY DEF Deserved
  <2> QED BY <1>1, <1>2, <1>3, <1>5, <1>8, <2>1, RespondIInv
<1>9. CASE rec # NoRecord /\ OriginFits(s, rec) /\ Goto(r, "rate")
  BY <1>1, <1>2, <1>3, <1>9, GotoIInv
<1>10. rec # NoRecord => (OriginFits(s, rec) <=>
         Claimed(s) # Absent /\ AdmittedBy[Claimed(s)] \cap rec.hosts # {})
  BY AdmitsWhatIsSpelt DEF OriginFits, Named, HostsOf
<1> QED BY <1>6, <1>7, <1>8, <1>9, <1>10 DEF Lookup, rec

LEMMA CheckRateIInv == ASSUME IInv, NEW r \in Requests, CheckRate(r) PROVE IInv'
<1>1. PICK allowed \in RateAnswers :
        IF ~allowed THEN Respond(r, 429, NoTenant)
        ELSE IF BodyStatus(req[r]) # 200 THEN Respond(r, BodyStatus(req[r]), NoTenant)
        ELSE Goto(r, "route")
  BY DEF CheckRate
<1>2. stage[r] = "rate" /\ UNCHANGED <<keys, req, buffered, record, during>>
  BY DEF CheckRate
<1>3. /\ stage[r] # "idle" /\ stage[r] \in Active /\ allowed \in BOOLEAN
      /\ record' = [record EXCEPT ![r] = record[r]] /\ record[r] \in Records \cup {NoRecord}
      /\ record[r] \in during[r] /\ record[r] # NoRecord /\ OriginFits(req[r], record[r])
      /\ ~(req[r].size > MaxBody) /\ req[r].key # Absent
  BY <1>2, InFlight, GateAssumption DEF Active, Stages, IInv, Flight
<1>4. {400, 429, 500} \subseteq Statuses /\ NoTenant \in Tenants \cup {NoTenant}
  BY DEF Statuses
<1>5. CASE ~allowed
  <2>1. Respond(r, 429, NoTenant)
    BY <1>1, <1>5, Zenon
  <2>2. Verdict(req[r], record[r], allowed) = 429
    BY <1>3, <1>5, VerdictIs
  <2>3. Deserved(r, 429, NoTenant)
    BY <1>3, <2>2, DeservedBy
  <2> QED BY <1>2, <1>3, <1>4, <2>1, <2>3, RespondIInv
<1>6. CASE allowed
  <2>1. IF BodyStatus(req[r]) # 200 THEN Respond(r, BodyStatus(req[r]), NoTenant)
        ELSE Goto(r, "route")
    BY <1>1, <1>6, Zenon
  <2>2. CASE req[r].body = "raises"
    <3>1. Respond(r, 500, NoTenant)
      BY <2>1, <2>2 DEF BodyStatus
    <3>2. Deserved(r, 500, NoTenant)
      BY DEF Deserved
    <3> QED BY <1>2, <1>3, <1>4, <3>1, <3>2, RespondIInv
  <2>3. CASE req[r].body \notin {"raises", "query"}
    <3>1. Respond(r, 400, NoTenant)
      BY <2>1, <2>3 DEF BodyStatus
    <3>2. Verdict(req[r], record[r], allowed) = 400
      <4>1. Verdict(req[r], record[r], allowed) = OnBody(req[r])
        <5>1. allowed => Verdict(req[r], record[r], allowed) = OnBody(req[r])
          BY <1>3, VerdictOnBody, Zenon
        <5> QED BY <1>6, <5>1, Zenon
      <4> QED BY <2>3, <4>1 DEF OnBody
    <3>3. Deserved(r, 400, NoTenant)
      BY <1>3, <3>2, DeservedBy
    <3> QED BY <1>2, <1>3, <1>4, <3>1, <3>3, RespondIInv
  <2>4. CASE req[r].body = "query"
    <3>1. Goto(r, "route")
      BY <2>1, <2>4 DEF BodyStatus
    <3>2. TRUE \in RateAnswers
      <4>1. allowed = TRUE
        BY <1>3, <1>6, Zenon
      <4> QED BY <4>1
    <3> QED BY <1>2, <1>3, <2>4, <3>1, <3>2, GotoIInv
  <2> QED BY <2>2, <2>3, <2>4
<1> QED BY <1>3, <1>5, <1>6

LEMMA RouteIInv == ASSUME IInv, NEW r \in Requests, Route(r) PROVE IInv'
<1>1. /\ stage[r] = "route" /\ Respond(r, 200, record[r].tenant)
      /\ UNCHANGED <<keys, req, buffered, record, during>>
  BY DEF Route
<1>2. /\ stage[r] # "idle"
      /\ record' = [record EXCEPT ![r] = record[r]] /\ record[r] \in Records \cup {NoRecord}
      /\ record[r] \in during[r] /\ record[r] # NoRecord /\ OriginFits(req[r], record[r])
      /\ ~(req[r].size > MaxBody) /\ TRUE \in RateAnswers /\ req[r].body = "query"
  BY <1>1, InFlight DEF IInv, Flight
<1>3. record[r].tenant \in Tenants \cup {NoTenant} /\ 200 \in Statuses
  BY <1>2 DEF Records, Statuses
<1>4. ASSUME NEW allowed \in BOOLEAN
      PROVE  allowed => Verdict(req[r], record[r], allowed) = 200
  <2>1. allowed => Verdict(req[r], record[r], allowed) = OnBody(req[r])
    BY <1>2, VerdictOnBody, Zenon
  <2> QED BY <1>2, <2>1, Zenon DEF OnBody
<1>5. Verdict(req[r], record[r], TRUE) = 200
  <2>1. TRUE \in BOOLEAN
    OBVIOUS
  <2> QED BY <1>4, <2>1, Zenon
<1>6. Deserved(r, 200, record[r].tenant)
  <2>1. TRUE \in RateAnswers /\ record[r] \in during[r]
    BY <1>2
  <2>2. \E rec \in during[r], allowed \in RateAnswers :
          /\ 200 = Verdict(req[r], rec, allowed)
          /\ 200 = 200 => record[r].tenant = rec.tenant
    <3>1. 200 = Verdict(req[r], record[r], TRUE)
      BY <1>5
    <3> QED BY <2>1, <3>1, Zenon
  <2> QED BY <2>2, Zenon DEF Deserved
<1> QED BY <1>1, <1>2, <1>3, <1>6, RespondIInv

\* A re-seed adds a version to the history of every request of that key in flight.
LEMMA UpsertIInv == ASSUME IInv, NEW k \in Keys, NEW rec \in Records, Upsert(k, rec) PROVE IInv'
<1>1. /\ keys' = [keys EXCEPT ![k] = rec]
      /\ during' = [r \in Requests |->
                      IF stage[r] \notin {"idle", "done"} /\ req[r].key = k
                      THEN during[r] \cup {rec} ELSE during[r]]
      /\ UNCHANGED <<stage, req, buffered, record, outcome>>
  BY DEF Upsert
<1>2. TypeOK'
  BY <1>1 DEF IInv, TypeOK
<1>3. \A r \in Requests : during[r] \subseteq during'[r]
  BY <1>1
<1>4. ASSUME NEW r \in Requests PROVE Flight(r)'
  <2>1. Flight(r)
    BY DEF IInv
  <2>2. stage[r] \in Active => Row(req[r])' \in during'[r]
    <3> SUFFICES ASSUME stage[r] \in Active PROVE Row(req[r])' \in during'[r]
      OBVIOUS
    <3>1. Row(req[r]) \in during[r] /\ stage[r] \notin {"idle", "done"}
      BY <2>1 DEF Flight, Active
    <3>2. req[r].key \in Keys \cup {Absent} /\ Absent \notin Keys
      BY <3>1, InFlight, RowTyped, GateAssumption DEF IInv
    <3>3. CASE req[r].key = k
      <4>1. Row(req[r])' = rec
        BY <1>1, <3>2, <3>3 DEF Row, IInv, TypeOK
      <4> QED BY <1>1, <3>1, <3>3, <4>1
    <3>4. CASE req[r].key # k
      <4>1. Row(req[r])' = Row(req[r])
        BY <1>1, <3>2, <3>4 DEF Row, IInv, TypeOK
      <4> QED BY <1>3, <3>1, <4>1
    <3> QED BY <3>3, <3>4
  <2> QED BY <1>1, <1>3, <2>1, <2>2 DEF Flight
<1>5. OneVersionDecides'
  BY <1>1, <1>3 DEF IInv, OneVersionDecides
<1> QED BY <1>2, <1>4, <1>5 DEF IInv

LEMMA NextIInv == IInv /\ [Next]_vars => IInv'
<1> SUFFICES ASSUME IInv, [Next]_vars PROVE IInv'
  OBVIOUS
<1>1. CASE UNCHANGED vars
  <2>1. TypeOK' /\ OneVersionDecides'
    BY <1>1 DEF vars, IInv, TypeOK, OneVersionDecides
  <2>2. ASSUME NEW r \in Requests PROVE Flight(r)'
    BY <1>1 DEF vars, IInv, Flight, Row
  <2> QED BY <2>1, <2>2 DEF IInv
<1>2. CASE Next
  BY <1>2, ArriveIInv, ReceiveIInv, DisconnectIInv, AuthorizeIInv, LookupFailsIInv,
     LookupIInv, CheckRateIInv, RouteIInv, UpsertIInv DEF Next, Serve
<1> QED BY <1>1, <1>2

LEMMA AlwaysIInv == Spec => []IInv
  BY InitIInv, NextIInv, PTL DEF Spec

\* Every variable keeps its type.
THEOREM GateTyped == Spec => []TypeOK
  BY AlwaysIInv, PTL DEF IInv

\* Every deliberate response is the verdict under one version of the key's row that was
\* in force while the request was in flight, for that version's tenant, and the hosts of
\* that version are matched as a reference without any parsing says.
THEOREM OneVersion == Spec => []OneVersionDecides
  BY AlwaysIInv, PTL DEF IInv
=============================================================================
