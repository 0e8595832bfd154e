-------------------------- MODULE Admission_proofs --------------------------
(***************************************************************************)
(* That Admission lets in only who is entitled and audits its refusals,    *)
(* for any tenants, requests, inputs and connections.  A request's own     *)
(* facts are inductive request by request: where it is says what its       *)
(* input has passed (Judged) and what it has recorded (Recorded).  The     *)
(* audit also needs that a connection is one request's alone, so that the  *)
(* tenant set on it is still the request's own when the row is inserted    *)
(* (Held, Exclusive).  The last part is about the pool: who waits for it   *)
(* waits for somebody who does not (LentIsHeld).                           *)
(***************************************************************************)
EXTENDS Admission, TLAPS

Holding == {"tenant_read", "domain_read", "audit_set", "audit_insert", "audit_commit"}
Auditing == {"audit", "audit_set", "audit_insert", "audit_commit"}
PCs == {"new", "body", "tenant", "domain"} \cup Holding \cup Auditing \cup Over

(* A request's connection is out of the pool and set up for its tenant.    *)
Held(r) ==
    LET s == req[r] IN
    /\ s.conn \in Connections <=> s.pc \in Holding
    /\ s.conn \in Connections => s.conn \in lent
    /\ s.pc = "audit_set" => s.conn \in open
    /\ s.pc \in {"audit_insert", "audit_commit"} => context[s.conn] = s.input.tenant

Exclusive == \A r, q \in Requests : r # q /\ req[r].conn \in Connections => req[q].conn # req[r].conn

(* What a request has shown by the time it is where it is.                 *)
Judged(r) ==
    LET s == req[r]
        in == s.pc = "served" /\ s.input.path = "guarded"
    IN  /\ s.pc \notin Over \cup {"new"} => Status(s.input, active, allowed) \subseteq s.seen
        /\ s.pc \in {"body", "tenant", "tenant_read", "domain", "domain_read"} \/ in =>
               s.input.headers = "all" /\ s.input.time = "fresh"
        /\ s.pc \in {"tenant", "tenant_read", "domain", "domain_read"} \/ in =>
               s.input.signature = "good"
        /\ s.pc \in {"domain", "domain_read"} \/ in => "active" \in s.seen
        /\ in => "allowed" \in s.seen

Silent(s) ==
    \/ s.input.headers = "missing" \/ s.input.time = "no_number"
    \/ s.input.time = "fresh" /\ s.input.signature = "good" /\ "inactive" \in s.seen

(* Its row is written with its refusal, and not before.                    *)
Recorded(r) ==
    LET s == req[r] IN
    /\ s.pc # "refused" => \A x \in Tenants \X Events : audit[r][x] = 0
    /\ \A x \in Tenants \X Events : audit[r][x] # 0 =>
           x = <<s.input.tenant, s.event>> /\ audit[r][x] = 1
    /\ s.pc \in Auditing => s.event \in Events
    /\ s.pc = "refused" /\ s.input.tenant \in Guids /\ ~s.degraded =>
           Silent(s) \/ (s.event \in Events /\ audit[r][<<s.input.tenant, s.event>>] = 1)

Inv ==
    /\ TypeOK
    /\ \A r \in Requests : Held(r) /\ Judged(r) /\ Recorded(r)
    /\ Exclusive

-----------------------------------------------------------------------------
LEMMA StatusType ==
    ASSUME NEW i, NEW T, NEW D
    PROVE  Status(i, T, D) \subseteq {"active", "inactive", "allowed", "barred"}
  BY DEF Status

(* A step of one request leaves the others' facts alone.                   *)
LEMMA Others ==
    ASSUME Inv, NEW r \in Requests, NEW q \in Requests, q # r,
           req'[q] = req[q], audit'[q] = audit[q], active' = active, allowed' = allowed,
           \A n \in Connections : n # req[r].conn /\ n \in lent =>
               /\ context'[n] = context[n]
               /\ n \in lent'
               /\ n \in open => n \in open'
    PROVE  Held(q)' /\ Judged(q)' /\ Recorded(q)'
<1>1. req[q].conn \in Connections => req[q].conn # req[r].conn /\ req[q].conn \in lent
  BY DEF Inv, Exclusive, Held
<1>2. Held(q)'
  BY <1>1 DEF Inv, Held, Holding
<1>3. Judged(q)'
  BY DEF Inv, Judged
<1>4. Recorded(q)'
  BY DEF Inv, Recorded, Silent
<1> QED
  BY <1>2, <1>3, <1>4

(* What a step of a request leaves alone, and whose connection it takes.   *)
Framed(r) ==
    /\ \A q \in Requests : q # r => req'[q] = req[q] /\ audit'[q] = audit[q]
    /\ active' = active /\ allowed' = allowed
    /\ \A n \in Connections : n # req[r].conn /\ n \in lent =>
           /\ context'[n] = context[n]
           /\ n \in lent'
           /\ n \in open => n \in open'
    /\ req'[r].conn \in Connections => req'[r].conn = req[r].conn \/ req'[r].conn \notin lent

LEMMA FramedStep ==
    ASSUME Inv, NEW r \in Requests, Framed(r), TypeOK', Held(r)' /\ Judged(r)' /\ Recorded(r)'
    PROVE  Inv'
<1>1. \A q \in Requests : Held(q)' /\ Judged(q)' /\ Recorded(q)'
  <2> SUFFICES ASSUME NEW q \in Requests, q # r PROVE Held(q)' /\ Judged(q)' /\ Recorded(q)'
    OBVIOUS
  <2> QED
    BY Others DEF Framed
<1>2. Exclusive'
  BY DEF Inv, Exclusive, Held, Framed
<1> QED
  BY <1>1, <1>2 DEF Inv

(* A request that only moves on, with nothing done to a connection.        *)
LEMMA Quiet ==
    ASSUME Inv, NEW r \in Requests, NEW s \in RequestState, Become(r, s),
           s.conn = req[r].conn, s.pc \in Holding <=> req[r].pc \in Holding,
           s.pc \notin Holding,
           UNCHANGED <<contextVars, tables, audit>>
    PROVE  TypeOK' /\ req'[r] = s /\ Framed(r) /\ Held(r)' /\ audit'[r] = audit[r]
<1>1. req'[r] = s /\ TypeOK' /\ audit'[r] = audit[r]
  BY DEF Inv, TypeOK, ContextTypeOK, Become, contextVars, tables
<1>2. Framed(r)
  BY DEF Inv, TypeOK, Become, contextVars, tables, Framed
<1>3. Held(r)'
  BY <1>1 DEF Inv, Held, Holding
<1> QED
  BY <1>1, <1>2, <1>3

LEMMA ArriveStep == ASSUME Inv, NEW r \in Requests, Arrive(r) PROVE Inv'
<1>1. PICK i \in Sent :
          LET s == [req[r] EXCEPT !.input = i, !.seen = Status(i, active, allowed)] IN
          \/ i.path = "skipped" /\ Become(r, [s EXCEPT !.pc = "served"])
          \/ i.path = "guarded" /\ Unreadable(i) /\ Become(r, [s EXCEPT !.pc = "refused"])
          \/ i.path = "guarded" /\ ~Unreadable(i) /\ i.time = "stale"
               /\ Become(r, Audited(s, "TIMESTAMP_EXPIRED"))
          \/ i.path = "guarded" /\ ~Unreadable(i) /\ i.time = "fresh"
               /\ Become(r, [s EXCEPT !.pc = "body"])
  BY DEF Arrive
<1> DEFINE s == [req[r] EXCEPT !.input = i, !.seen = Status(i, active, allowed)]
<1>2. i \in Inputs /\ req[r] \in RequestState /\ req[r].pc = "new"
  BY SentAssumption DEF Inv, TypeOK, Arrive
<1>3. Status(i, active, allowed) \in SUBSET {"active", "inactive", "allowed", "barred"}
  BY StatusType
<1>4. /\ s \in RequestState /\ s.input = i /\ s.pc = "new" /\ s.conn = req[r].conn
      /\ s.seen = Status(i, active, allowed) /\ s.degraded = req[r].degraded
  BY <1>2, <1>3 DEF RequestState
<1>5. UNCHANGED <<contextVars, tables, audit>>
  BY DEF Arrive
<1>6. \A x \in Tenants \X Events : audit[r][x] = 0
  BY <1>2 DEF Inv, Recorded
<1> HIDE DEF s
<1>7. CASE i.path = "skipped" /\ Become(r, [s EXCEPT !.pc = "served"])
  <2> DEFINE z == [s EXCEPT !.pc = "served"]
  <2>1. z \in RequestState /\ z.pc = "served" /\ z.input = i /\ z.conn = req[r].conn
    BY <1>4 DEF RequestState, Over
  <2> HIDE DEF z
  <2>2. TypeOK' /\ req'[r] = z /\ Framed(r) /\ Held(r)' /\ audit'[r] = audit[r]
    BY <1>2, <1>5, <1>7, <2>1, Quiet DEF Holding, z
  <2>3. Judged(r)' /\ Recorded(r)'
    BY <1>6, <1>7, <2>1, <2>2 DEF Judged, Recorded, Over, Auditing
  <2> QED
    BY <2>2, <2>3, FramedStep
<1>8. CASE i.path = "guarded" /\ Unreadable(i) /\ Become(r, [s EXCEPT !.pc = "refused"])
  <2> DEFINE z == [s EXCEPT !.pc = "refused"]
  <2>1. z \in RequestState /\ z.pc = "refused" /\ z.input = i /\ z.conn = req[r].conn
    BY <1>4 DEF RequestState, Over
  <2> HIDE DEF z
  <2>2. TypeOK' /\ req'[r] = z /\ Framed(r) /\ Held(r)' /\ audit'[r] = audit[r]
    BY <1>2, <1>5, <1>8, <2>1, Quiet DEF Holding, z
  <2>3. Silent(z)
    BY <1>8, <2>1 DEF Silent, Unreadable
  <2>4. Judged(r)' /\ Recorded(r)'
    BY <1>6, <2>1, <2>2, <2>3 DEF Judged, Recorded, Over, Auditing
  <2> QED
    BY <2>2, <2>4, FramedStep
<1>9. CASE i.path = "guarded" /\ ~Unreadable(i) /\ i.time = "stale"
               /\ Become(r, Audited(s, "TIMESTAMP_EXPIRED"))
  <2> DEFINE z == Audited(s, "TIMESTAMP_EXPIRED")
  <2>1. z \in RequestState /\ z.pc = "audit" /\ z.input = i /\ z.conn = req[r].conn
        /\ z.event \in Events /\ z.seen = s.seen
    BY <1>4 DEF RequestState, Audited, Events
  <2> HIDE DEF z
  <2>2. TypeOK' /\ req'[r] = z /\ Framed(r) /\ Held(r)' /\ audit'[r] = audit[r]
    BY <1>2, <1>5, <1>9, <2>1, Quiet DEF Holding, z
  <2>3. Status(i, active', allowed') \subseteq z.seen
    BY <1>4, <1>5, <2>1 DEF tables
  <2>4. Judged(r)' /\ Recorded(r)'
    BY <1>6, <2>1, <2>2, <2>3 DEF Judged, Recorded, Over, Auditing
  <2> QED
    BY <2>2, <2>4, FramedStep
<1>10. CASE i.path = "guarded" /\ ~Unreadable(i) /\ i.time = "fresh"
               /\ Become(r, [s EXCEPT !.pc = "body"])
  <2> DEFINE z == [s EXCEPT !.pc = "body"]
  <2>1. z \in RequestState /\ z.pc = "body" /\ z.input = i /\ z.conn = req[r].conn
        /\ z.seen = s.seen
    BY <1>4 DEF RequestState
  <2> HIDE DEF z
  <2>2. TypeOK' /\ req'[r] = z /\ Framed(r) /\ Held(r)' /\ audit'[r] = audit[r]
    BY <1>2, <1>5, <1>10, <2>1, Quiet DEF Holding, z
  <2>3. Status(i, active', allowed') \subseteq z.seen /\ i.headers = "all"
    BY <1>2, <1>4, <1>5, <1>10, <2>1 DEF tables, Unreadable, Inputs
  <2>4. Judged(r)' /\ Recorded(r)'
    BY <1>6, <1>10, <2>1, <2>2, <2>3 DEF Judged, Recorded, Over, Auditing
  <2> QED
    BY <2>2, <2>4, FramedStep
<1> QED
  BY <1>1, <1>7, <1>8, <1>9, <1>10 DEF s

LEMMA ReadBodyStep == ASSUME Inv, NEW r \in Requests, ReadBody(r) PROVE Inv'
<1>1. req[r] \in RequestState /\ req[r].pc = "body" /\ UNCHANGED <<contextVars, tables, audit>>
  BY DEF Inv, TypeOK, ReadBody
<1>2. Held(r) /\ Judged(r) /\ Recorded(r)
  BY DEF Inv
<1>3. CASE req[r].input.signature = "good" /\ Goto(r, "tenant")
  <2> DEFINE z == [req[r] EXCEPT !.pc = "tenant"]
  <2>1. z \in RequestState /\ z.pc = "tenant" /\ z.input = req[r].input /\ z.conn = req[r].conn
        /\ z.seen = req[r].seen /\ Become(r, z)
    BY <1>1, <1>3 DEF RequestState, Goto
  <2> HIDE DEF z
  <2>2. TypeOK' /\ req'[r] = z /\ Framed(r) /\ Held(r)' /\ audit'[r] = audit[r]
    BY <1>1, <2>1, Quiet DEF Holding
  <2>3. Judged(r)' /\ Recorded(r)'
    BY <1>1, <1>2, <1>3, <2>1, <2>2 DEF Judged, Recorded, Over, Auditing, tables
  <2> QED
    BY <2>2, <2>3, FramedStep
<1>4. CASE req[r].input.signature = "bad" /\ Become(r, Audited(req[r], "HMAC_FAIL"))
  <2> DEFINE z == Audited(req[r], "HMAC_FAIL")
  <2>1. z \in RequestState /\ z.pc = "audit" /\ z.input = req[r].input /\ z.conn = req[r].conn
        /\ z.seen = req[r].seen /\ z.event \in Events
    BY <1>1 DEF RequestState, Audited, Events
  <2> HIDE DEF z
  <2>2. TypeOK' /\ req'[r] = z /\ Framed(r) /\ Held(r)' /\ audit'[r] = audit[r]
    BY <1>1, <1>4, <2>1, Quiet DEF Holding, z
  <2>3. Judged(r)' /\ Recorded(r)'
    BY <1>1, <1>2, <2>1, <2>2 DEF Judged, Recorded, Over, Auditing, tables
  <2> QED
    BY <2>2, <2>3, FramedStep
<1>5. CASE Goto(r, "failed")
  <2> DEFINE z == [req[r] EXCEPT !.pc = "failed"]
  <2>1. z \in RequestState /\ z.pc = "failed" /\ z.input = req[r].input /\ z.conn = req[r].conn
        /\ Become(r, z)
    BY <1>1, <1>5 DEF RequestState, Goto, Over
  <2> HIDE DEF z
  <2>2. TypeOK' /\ req'[r] = z /\ Framed(r) /\ Held(r)' /\ audit'[r] = audit[r]
    BY <1>1, <2>1, Quiet DEF Holding
  <2>3. Judged(r)' /\ Recorded(r)'
    BY <1>1, <1>2, <2>1, <2>2 DEF Judged, Recorded, Over, Auditing
  <2> QED
    BY <2>2, <2>3, FramedStep
<1> QED
  BY <1>3, <1>4, <1>5 DEF ReadBody

(* A request that takes a connection: nobody else has it.                  *)
LEMMA Taken ==
    ASSUME Inv, NEW r \in Requests, NEW n \in Connections, NEW s \in RequestState,
           Take(n), Become(r, s), s.conn = n, s.pc \in Holding \ {"audit_insert", "audit_commit"},
           s.pc = "audit_set" => n \in open', open \subseteq open', open' \subseteq open \cup {n},
           UNCHANGED <<context, tables, audit>>
    PROVE  TypeOK' /\ req'[r] = s /\ Framed(r) /\ Held(r)' /\ audit'[r] = audit[r]
<1>1. req'[r] = s /\ TypeOK' /\ audit'[r] = audit[r]
  BY DEF Inv, TypeOK, ContextTypeOK, Become, Take, tables
<1>2. Framed(r)
  BY DEF Inv, TypeOK, Become, Take, tables, Framed
<1>3. Held(r)'
  BY <1>1 DEF Held, Take
<1> QED
  BY <1>1, <1>2, <1>3

LEMMA AcquireForReadStep == ASSUME Inv, NEW r \in Requests, AcquireForRead(r) PROVE Inv'
<1>1. /\ req[r] \in RequestState /\ UNCHANGED <<context, open, tables, audit>>
      /\ Held(r) /\ Judged(r) /\ Recorded(r)
  BY DEF Inv, TypeOK, AcquireForRead
<1>2. ASSUME NEW here \in {"tenant", "domain"}, NEW next \in {"tenant_read", "domain_read"},
             here = "tenant" <=> next = "tenant_read", Acquire(r, here, next)
      PROVE  Inv'
  <2>1. PICK n \in Connections :
            Take(n) /\ Become(r, [req[r] EXCEPT !.pc = next, !.conn = n])
    BY <1>2 DEF Acquire
  <2> DEFINE z == [req[r] EXCEPT !.pc = next, !.conn = n]
  <2>2. z \in RequestState /\ z.pc = next /\ z.input = req[r].input /\ z.conn = n
        /\ z.seen = req[r].seen /\ req[r].pc = here
    BY <1>1, <1>2 DEF RequestState, Acquire
  <2> HIDE DEF z
  <2>3. TypeOK' /\ req'[r] = z /\ Framed(r) /\ Held(r)' /\ audit'[r] = audit[r]
    BY <1>1, <2>1, <2>2, Taken DEF Holding, z
  <2>4. Judged(r)' /\ Recorded(r)'
    BY <1>1, <2>2, <2>3, <1>2 DEF Judged, Recorded, Over, Auditing, tables
  <2> QED
    BY <2>3, <2>4, FramedStep
<1> QED
  BY <1>2 DEF AcquireForRead

LEMMA AuditBeginStep == ASSUME Inv, NEW r \in Requests, AuditBegin(r) PROVE Inv'
<1>1. /\ req[r] \in RequestState /\ UNCHANGED <<context, tables, audit>>
      /\ Held(r) /\ Judged(r) /\ Recorded(r)
  BY DEF Inv, TypeOK, AuditBegin
<1>2. PICK n \in Connections :
          Take(n) /\ Become(r, [req[r] EXCEPT !.pc = "audit_set", !.conn = n])
  BY DEF AuditBegin, Acquire
<1> DEFINE z == [req[r] EXCEPT !.pc = "audit_set", !.conn = n]
<1>3. /\ z \in RequestState /\ z.pc = "audit_set" /\ z.input = req[r].input /\ z.conn = n
      /\ z.seen = req[r].seen /\ z.event = req[r].event /\ req[r].pc = "audit"
  BY <1>1 DEF RequestState, AuditBegin, Acquire
<1> HIDE DEF z
<1>4. req'[r] = z /\ open' = open \cup {n}
  BY <1>2, <1>3 DEF Inv, TypeOK, AuditBegin, Become, z
<1>5. TypeOK' /\ req'[r] = z /\ Framed(r) /\ Held(r)' /\ audit'[r] = audit[r]
  BY <1>1, <1>2, <1>3, <1>4, Taken DEF Holding, z
<1>6. Judged(r)' /\ Recorded(r)'
  BY <1>1, <1>3, <1>5 DEF Judged, Recorded, Over, Auditing, tables
<1> QED
  BY <1>5, <1>6, FramedStep

(* A request that leaves its connection, however that ends.                *)
LEMMA Left ==
    ASSUME Inv, NEW r \in Requests, NEW s \in RequestState, Become(r, s),
           s.conn = NoConnection, s.pc \notin Holding, req[r].pc \in Holding,
           GiveBack(req[r].conn) \/ Replace(req[r].conn), UNCHANGED tables,
           audit' \in [Requests -> [Tenants \X Events -> Nat]],
           \A q \in Requests : q # r => audit'[q] = audit[q]
    PROVE  TypeOK' /\ req'[r] = s /\ Framed(r) /\ Held(r)'
<1>1. req[r].conn \in Connections
  BY DEF Inv, Held
<1>2. ContextTypeOK'
  BY <1>1 DEF Inv, TypeOK, ContextTypeOK, GiveBack, Replace, Ended
<1>3. req'[r] = s /\ TypeOK'
  BY <1>2 DEF Inv, TypeOK, Become, tables
<1>4. \A n \in Connections : n # req[r].conn /\ n \in lent =>
          context'[n] = context[n] /\ n \in lent' /\ (n \in open => n \in open')
  BY <1>1 DEF Inv, TypeOK, ContextTypeOK, GiveBack, Replace
<1>5. Framed(r)
  BY <1>3, <1>4, NoConnectionAssumption DEF Inv, TypeOK, Become, tables, Framed
<1>6. Held(r)'
  BY <1>3, NoConnectionAssumption DEF Held, Holding
<1> QED
  BY <1>3, <1>5, <1>6

LEMMA ReadTenantStep == ASSUME Inv, NEW r \in Requests, ReadTenant(r) PROVE Inv'
<1> DEFINE t == req[r].input.tenant
           z == [req[r] EXCEPT !.pc = IF t \in active THEN "domain" ELSE "refused",
                               !.conn = NoConnection]
<1>1. /\ req[r] \in RequestState /\ UNCHANGED <<tables, audit>>
      /\ Held(r) /\ Judged(r) /\ Recorded(r) /\ req[r].pc = "tenant_read"
      /\ audit \in [Requests -> [Tenants \X Events -> Nat]]
  BY DEF Inv, TypeOK, ReadTenant
<1>2. /\ z \in RequestState /\ z.input = req[r].input /\ z.conn = NoConnection
      /\ z.pc = IF t \in active THEN "domain" ELSE "refused"
      /\ z.seen = req[r].seen
  BY <1>1 DEF RequestState, Over
<1>3. Become(r, z) /\ GiveBack(req[r].conn)
  BY <1>1 DEF ReadTenant, Leave, RequestState
<1> HIDE DEF z
<1>4. TypeOK' /\ req'[r] = z /\ Framed(r) /\ Held(r)' /\ audit'[r] = audit[r]
  BY <1>1, <1>2, <1>3, Left DEF Holding
<1>5. Status(req[r].input, active, allowed) \subseteq req[r].seen
  BY <1>1 DEF Judged, Over
<1>6. t \in active => "active" \in req[r].seen
  BY <1>5 DEF Status
<1>7. t \notin active => "inactive" \in req[r].seen
  BY <1>5 DEF Status
<1>8. Judged(r)'
  BY <1>1, <1>2, <1>4, <1>6 DEF Judged, Over, tables
<1>9. t \notin active => Silent(z)
  BY <1>1, <1>2, <1>7 DEF Judged, Silent
<1>10. Recorded(r)'
  BY <1>1, <1>2, <1>4, <1>9 DEF Recorded, Auditing
<1> QED
  BY <1>4, <1>8, <1>10, FramedStep

LEMMA ReadDomainStep == ASSUME Inv, NEW r \in Requests, ReadDomain(r) PROVE Inv'
<1> DEFINE i == req[r].input
<1>1. /\ req[r] \in RequestState /\ UNCHANGED <<tables, audit>>
      /\ Held(r) /\ Judged(r) /\ Recorded(r) /\ req[r].pc = "domain_read"
      /\ audit \in [Requests -> [Tenants \X Events -> Nat]]
  BY DEF Inv, TypeOK, ReadDomain
<1>2. Status(i, active, allowed) \subseteq req[r].seen
  BY <1>1 DEF Judged, Over
<1>3. CASE <<i.tenant, i.domain>> \in allowed
  <2> DEFINE z == [req[r] EXCEPT !.pc = "served", !.conn = NoConnection]
  <2>1. /\ z \in RequestState /\ z.input = i /\ z.conn = NoConnection /\ z.pc = "served"
        /\ z.seen = req[r].seen
    BY <1>1 DEF RequestState, Over
  <2>2. Become(r, z) /\ GiveBack(req[r].conn)
    BY <1>1, <1>3 DEF ReadDomain, Leave, RequestState
  <2> HIDE DEF z
  <2>3. TypeOK' /\ req'[r] = z /\ Framed(r) /\ Held(r)' /\ audit'[r] = audit[r]
    BY <1>1, <2>1, <2>2, Left DEF Holding
  <2>4. "allowed" \in req[r].seen
    BY <1>2, <1>3 DEF Status
  <2>5. Judged(r)' /\ Recorded(r)'
    BY <1>1, <2>1, <2>3, <2>4 DEF Judged, Recorded, Over, Auditing
  <2> QED
    BY <2>3, <2>5, FramedStep
<1>4. CASE <<i.tenant, i.domain>> \notin allowed
  <2> DEFINE y == Audited(req[r], "DOMAIN_NOT_ALLOWED")
             z == [y EXCEPT !.conn = NoConnection]
  <2>1. /\ z \in RequestState /\ z.input = i /\ z.conn = NoConnection /\ z.pc = "audit"
        /\ z.seen = req[r].seen /\ z.event \in Events
    BY <1>1 DEF RequestState, Audited, Events
  <2>2. Become(r, z) /\ GiveBack(req[r].conn)
    BY <1>1, <1>4 DEF ReadDomain, Leave
  <2> HIDE DEF z
  <2>3. TypeOK' /\ req'[r] = z /\ Framed(r) /\ Held(r)' /\ audit'[r] = audit[r]
    BY <1>1, <2>1, <2>2, Left DEF Holding
  <2>4. Judged(r)' /\ Recorded(r)'
    BY <1>1, <1>2, <2>1, <2>3 DEF Judged, Recorded, Over, Auditing, tables
  <2> QED
    BY <2>3, <2>4, FramedStep
<1> QED
  BY <1>3, <1>4

LEMMA ReadFailsStep == ASSUME Inv, NEW r \in Requests, ReadFails(r) PROVE Inv'
<1> DEFINE z == [req[r] EXCEPT !.pc = "failed", !.conn = NoConnection,
                               !.degraded = ~Malformed(r)]
<1>1. /\ req[r] \in RequestState /\ UNCHANGED <<tables, audit>>
      /\ Held(r) /\ Judged(r) /\ Recorded(r) /\ Become(r, z)
      /\ req[r].pc \in {"tenant", "domain", "tenant_read", "domain_read"}
      /\ audit \in [Requests -> [Tenants \X Events -> Nat]]
  BY DEF Inv, TypeOK, ReadFails
<1>2. Malformed(r) \in BOOLEAN
  BY DEF Malformed
<1>3. z \in RequestState /\ z.input = req[r].input /\ z.conn = NoConnection /\ z.pc = "failed"
  BY <1>1, <1>2 DEF RequestState, Over
<1> HIDE DEF z
<1>4. TypeOK' /\ req'[r] = z /\ Framed(r) /\ Held(r)' /\ audit'[r] = audit[r]
  <2>1. CASE req[r].pc \in {"tenant_read", "domain_read"}
    <3>1. GiveBack(req[r].conn) \/ Replace(req[r].conn)
      BY <2>1 DEF ReadFails
    <3> QED
      BY <1>1, <1>3, <2>1, <3>1, Left DEF Holding
  <2>2. CASE req[r].pc \in {"tenant", "domain"}
    <3>1. UNCHANGED contextVars /\ req[r].conn = NoConnection
      BY <1>1, <2>2 DEF ReadFails, Held, Holding, RequestState
    <3> QED
      BY <1>1, <1>3, <2>2, <3>1, Quiet DEF Holding
  <2> QED
    BY <1>1, <2>1, <2>2
<1>5. Judged(r)' /\ Recorded(r)'
  BY <1>1, <1>3, <1>4 DEF Judged, Recorded, Over, Auditing
<1> QED
  BY <1>4, <1>5, FramedStep

LEMMA AuditSetStep == ASSUME Inv, NEW r \in Requests, AuditSet(r) PROVE Inv'
<1> DEFINE z == [req[r] EXCEPT !.pc = "audit_insert"]
<1>1. /\ req[r] \in RequestState /\ UNCHANGED <<tables, audit>> /\ Become(r, z)
      /\ Held(r) /\ Judged(r) /\ Recorded(r) /\ req[r].pc = "audit_set"
      /\ audit \in [Requests -> [Tenants \X Events -> Nat]]
      /\ SetConfig(req[r].conn, req[r].input.tenant)
  BY DEF Inv, TypeOK, AuditSet, Goto
<1>2. /\ z \in RequestState /\ z.input = req[r].input /\ z.conn = req[r].conn
      /\ z.pc = "audit_insert" /\ z.seen = req[r].seen /\ z.event = req[r].event
  BY <1>1 DEF RequestState
<1>3. z.conn \in Connections /\ z.conn \in lent /\ z.conn \in open /\ z.input.tenant \in Tenants
  BY <1>1, <1>2 DEF Held, Holding, RequestState, Inputs
<1> HIDE DEF z
<1>4. req'[r] = z /\ TypeOK'
  BY <1>1, <1>2, <1>3 DEF Inv, TypeOK, ContextTypeOK, Become, SetConfig, tables
<1>5. Framed(r)
  BY <1>1, <1>2, <1>4 DEF Inv, TypeOK, ContextTypeOK, Become, SetConfig, tables, Framed
<1>6. Held(r)'
  BY <1>1, <1>2, <1>3, <1>4 DEF Inv, TypeOK, ContextTypeOK, Held, Holding, SetConfig
<1>7. Judged(r)' /\ Recorded(r)'
  BY <1>1, <1>2, <1>4 DEF Judged, Recorded, Over, Auditing, tables
<1> QED
  BY <1>4, <1>5, <1>6, <1>7, FramedStep

LEMMA AuditInsertStep == ASSUME Inv, NEW r \in Requests, AuditInsert(r) PROVE Inv'
<1> DEFINE z == [req[r] EXCEPT !.pc = "audit_commit"]
<1>1. /\ req[r] \in RequestState /\ UNCHANGED <<contextVars, tables, audit>> /\ Become(r, z)
      /\ Held(r) /\ Judged(r) /\ Recorded(r) /\ req[r].pc = "audit_insert"
  BY DEF Inv, TypeOK, AuditInsert, Goto
<1>2. /\ z \in RequestState /\ z.input = req[r].input /\ z.conn = req[r].conn
      /\ z.pc = "audit_commit" /\ z.seen = req[r].seen /\ z.event = req[r].event
  BY <1>1 DEF RequestState
<1> HIDE DEF z
<1>3. req'[r] = z /\ TypeOK'
  BY <1>1, <1>2 DEF Inv, TypeOK, ContextTypeOK, Become, contextVars, tables
<1>4. Framed(r)
  BY <1>1, <1>2, <1>3 DEF Inv, TypeOK, Become, contextVars, tables, Framed
<1>5. Held(r)'
  BY <1>1, <1>2, <1>3 DEF Held, Holding, contextVars
<1>6. Judged(r)' /\ Recorded(r)'
  BY <1>1, <1>2, <1>3 DEF Judged, Recorded, Over, Auditing, tables
<1> QED
  BY <1>3, <1>4, <1>5, <1>6, FramedStep

(* The row that is written is the only one, and under the tenant claimed.  *)
LEMMA RecordRow ==
    ASSUME Inv, NEW r \in Requests, req[r].pc = "audit_commit", Record(r)
    PROVE  /\ audit' \in [Requests -> [Tenants \X Events -> Nat]]
           /\ \A q \in Requests : q # r => audit'[q] = audit[q]
           /\ req[r].event \in Events
           /\ audit'[r][<<req[r].input.tenant, req[r].event>>] = 1
           /\ \A x \in Tenants \X Events :
                  x # <<req[r].input.tenant, req[r].event>> => audit'[r][x] = 0
<1> DEFINE y == <<req[r].input.tenant, req[r].event>>
<1>1. /\ audit \in [Requests -> [Tenants \X Events -> Nat]] /\ req[r].event \in Events
      /\ \A x \in Tenants \X Events : audit[r][x] = 0
  BY DEF Inv, TypeOK, Recorded, Auditing
<1>2. y \in Tenants \X Events
  BY <1>1 DEF Inv, TypeOK, RequestState, Inputs
<1>3. audit' = [audit EXCEPT ![r] = [audit[r] EXCEPT ![y] = audit[r][y] + 1]]
  BY <1>1, <1>2 DEF Record
<1> HIDE DEF y
<1>4. [audit[r] EXCEPT ![y] = audit[r][y] + 1] \in [Tenants \X Events -> Nat]
  BY <1>1, <1>2
<1>5. /\ [audit[r] EXCEPT ![y] = audit[r][y] + 1][y] = 1
      /\ \A x \in Tenants \X Events : x # y => [audit[r] EXCEPT ![y] = audit[r][y] + 1][x] = 0
  BY <1>1, <1>2
<1> QED
  BY <1>1, <1>3, <1>4, <1>5 DEF y

LEMMA AuditCommitStep == ASSUME Inv, NEW r \in Requests, AuditCommit(r) PROVE Inv'
<1> DEFINE z == [req[r] EXCEPT !.pc = "refused", !.conn = NoConnection]
<1>1. /\ req[r] \in RequestState /\ UNCHANGED tables /\ Record(r) /\ req[r].pc = "audit_commit"
  BY DEF Inv, TypeOK, AuditCommit
<1>2. /\ z \in RequestState /\ z.input = req[r].input /\ z.conn = NoConnection
      /\ z.pc = "refused" /\ z.event = req[r].event
  BY <1>1 DEF RequestState, Over
<1>3. Become(r, z) /\ GiveBack(req[r].conn)
  BY <1>1 DEF AuditCommit, Leave, RequestState
<1> HIDE DEF z
<1>4. TypeOK' /\ req'[r] = z /\ Framed(r) /\ Held(r)'
  BY <1>1, <1>2, <1>3, Left, RecordRow DEF Holding
<1>5. Judged(r)' /\ Recorded(r)'
  BY <1>1, <1>2, <1>4, RecordRow DEF Judged, Recorded, Over, Auditing
<1> QED
  BY <1>4, <1>5, FramedStep

LEMMA AuditFailsStep == ASSUME Inv, NEW r \in Requests, AuditFails(r) PROVE Inv'
<1> DEFINE b == req[r].degraded \/ ~AuditRefused(r)
           z == [req[r] EXCEPT !.pc = "refused", !.conn = NoConnection, !.degraded = b]
<1>1. /\ req[r] \in RequestState /\ UNCHANGED tables /\ Held(r) /\ Judged(r) /\ Recorded(r)
      /\ req[r].pc \in Auditing
      /\ audit \in [Requests -> [Tenants \X Events -> Nat]]
  BY DEF Inv, TypeOK, AuditFails, Auditing
<1>2. b \in BOOLEAN
  BY <1>1 DEF RequestState, AuditRefused
<1>3. Become(r, z)
  BY <1>1 DEF AuditFails, RequestState
<1>4. /\ z \in RequestState /\ z.input = req[r].input /\ z.conn = NoConnection
      /\ z.pc = "refused" /\ z.event = req[r].event /\ z.degraded = b
  BY <1>1, <1>2 DEF RequestState, Over
<1>5. req[r].input.tenant \in Guids => b
  BY <1>1 DEF AuditRefused, Held, Sees
<1> HIDE DEF z, b
<1>6. CASE req[r].pc = "audit" /\ UNCHANGED <<contextVars, audit>>
  <2>1. TypeOK' /\ req'[r] = z /\ Framed(r) /\ Held(r)' /\ audit'[r] = audit[r]
    <3>1. req[r].conn = NoConnection
      BY <1>1, <1>6 DEF Held, Holding, RequestState
    <3> QED
      BY <1>1, <1>3, <1>4, <1>6, <3>1, Quiet DEF Holding
  <2>2. Judged(r)' /\ Recorded(r)'
    BY <1>1, <1>4, <1>5, <1>6, <2>1 DEF Judged, Recorded, Over, Auditing
  <2> QED
    BY <2>1, <2>2, FramedStep
<1>7. CASE /\ req[r].pc \in {"audit_set", "audit_insert", "audit_commit"}
           /\ GiveBack(req[r].conn) \/ Replace(req[r].conn)
           /\ UNCHANGED audit
  <2>1. TypeOK' /\ req'[r] = z /\ Framed(r) /\ Held(r)' /\ audit'[r] = audit[r]
    BY <1>1, <1>3, <1>4, <1>7, Left DEF Holding
  <2>2. Judged(r)' /\ Recorded(r)'
    BY <1>1, <1>4, <1>5, <1>7, <2>1 DEF Judged, Recorded, Over, Auditing
  <2> QED
    BY <2>1, <2>2, FramedStep
<1>8. CASE req[r].pc = "audit_commit" /\ Replace(req[r].conn) /\ Record(r)
  <2>1. TypeOK' /\ req'[r] = z /\ Framed(r) /\ Held(r)'
    BY <1>1, <1>3, <1>4, <1>8, Left, RecordRow DEF Holding
  <2>2. Judged(r)' /\ Recorded(r)'
    BY <1>1, <1>4, <1>5, <1>8, <2>1, RecordRow DEF Judged, Recorded, Over, Auditing
  <2> QED
    BY <2>1, <2>2, FramedStep
<1> QED
  BY <1>6, <1>7, <1>8 DEF AuditFails

(* An administrator's change: a request only comes to have seen more.      *)
LEMMA WitnessedStep ==
    ASSUME Inv, Witnessed, UNCHANGED <<contextVars, audit>>,
           active' \subseteq Guids, allowed' \subseteq Guids \X Domains
    PROVE  Inv'
<1> DEFINE grown(r) == req[r].seen \cup Status(req[r].input, active', allowed')
           kept(r) == req[r].pc \in Over \cup {"new"}
<1>1. ASSUME NEW r \in Requests
      PROVE  /\ req'[r] = IF kept(r) THEN req[r] ELSE [req[r] EXCEPT !.seen = grown(r)]
             /\ req[r] \in RequestState /\ grown(r) \in SUBSET {"active", "inactive", "allowed", "barred"}
  <2>1. req[r] \in RequestState
    BY DEF Inv, TypeOK
  <2>2. grown(r) \in SUBSET {"active", "inactive", "allowed", "barred"}
    BY <2>1, StatusType DEF RequestState
  <2> QED
    BY <2>1, <2>2 DEF Witnessed, RequestState
<1> HIDE DEF grown, kept
<1>2. ASSUME NEW r \in Requests
      PROVE  /\ req'[r] \in RequestState
             /\ req'[r].pc = req[r].pc /\ req'[r].input = req[r].input
             /\ req'[r].conn = req[r].conn /\ req'[r].event = req[r].event
             /\ req'[r].degraded = req[r].degraded
             /\ req'[r].seen = IF kept(r) THEN req[r].seen ELSE grown(r)
  <2>1. CASE kept(r)
    BY <1>1, <2>1
  <2>2. CASE ~kept(r)
    <3>1. req'[r] = [req[r] EXCEPT !.seen = grown(r)]
      BY <1>1, <2>2
    <3> QED
      BY <1>1, <2>2, <3>1 DEF RequestState
  <2> QED
    BY <2>1, <2>2
<1>3. TypeOK'
  <2>1. req' \in [Requests -> RequestState]
    BY <1>2 DEF Witnessed
  <2> QED
    BY <2>1 DEF Inv, TypeOK, ContextTypeOK, contextVars
<1>4. ASSUME NEW r \in Requests PROVE Held(r)' /\ Judged(r)' /\ Recorded(r)'
  <2>1. Held(r) /\ Judged(r) /\ Recorded(r)
    BY DEF Inv
  <2>2. req[r].seen \subseteq req'[r].seen
    BY <1>2 DEF grown
  <2>3. ~kept(r) => Status(req'[r].input, active', allowed') \subseteq req'[r].seen
    BY <1>2 DEF grown
  <2>4. Held(r)'
    BY <1>2, <2>1 DEF Held, contextVars
  <2>5. Judged(r)'
    BY <1>2, <2>1, <2>2, <2>3 DEF Judged, kept
  <2>6. Recorded(r)'
    BY <1>2, <2>1, <2>2 DEF Recorded, Silent
  <2> QED
    BY <2>4, <2>5, <2>6
<1>5. Exclusive'
  BY <1>2 DEF Inv, Exclusive
<1> QED
  BY <1>3, <1>4, <1>5 DEF Inv

LEMMA InitInv == Init => Inv
<1> SUFFICES ASSUME Init PROVE Inv
  OBVIOUS
<1>1. (CHOOSE i \in Sent : TRUE) \in Inputs
  BY SentAssumption
<1>2. ASSUME NEW r \in Requests
      PROVE  /\ req[r] \in RequestState /\ req[r].pc = "new" /\ req[r].conn = NoConnection
             /\ \A x \in Tenants \X Events : audit[r][x] = 0
  BY <1>1 DEF Init, RequestState
<1>3. TypeOK
  <2>1. req \in [Requests -> RequestState]
    BY <1>2 DEF Init
  <2>2. audit \in [Requests -> [Tenants \X Events -> Nat]]
    BY DEF Init
  <2> QED
    BY <2>1, <2>2, OpeningAssumption, GuidsAssumption
    DEF Init, TypeOK, ContextInit, ContextTypeOK
<1>4. ASSUME NEW r \in Requests PROVE Held(r) /\ Judged(r) /\ Recorded(r)
  BY <1>2, NoConnectionAssumption DEF Held, Judged, Recorded, Holding, Auditing, Over
<1>5. Exclusive
  BY <1>2, NoConnectionAssumption DEF Exclusive
<1> QED
  BY <1>3, <1>4, <1>5 DEF Inv

LEMMA NextInv == Inv /\ [Next]_vars => Inv'
<1> SUFFICES ASSUME Inv, [Next]_vars PROVE Inv'
  OBVIOUS
<1>1. ASSUME NEW r \in Requests, Arrive(r) \/ Proceed(r) \/ Wait(r) \/ Raise(r) PROVE Inv'
  BY <1>1, ArriveStep, ReadBodyStep, ReadTenantStep, ReadDomainStep, AuditSetStep,
     AuditInsertStep, AuditCommitStep, AcquireForReadStep, AuditBeginStep, ReadFailsStep,
     AuditFailsStep DEF Proceed, Wait, Raise
<1>2. ASSUME NEW t \in Changing, SetStatus(t) PROVE Inv'
  <2>1. active' \subseteq Guids /\ allowed' \subseteq Guids \X Domains
    BY <1>2, GuidsAssumption DEF SetStatus, Inv, TypeOK
  <2> QED
    BY <1>2, <2>1, WitnessedStep DEF SetStatus
<1>3. ASSUME NEW t \in Changing, NEW d \in Domains, SetDomain(t, d) PROVE Inv'
  <2>1. active' \subseteq Guids /\ allowed' \subseteq Guids \X Domains
    BY <1>3, GuidsAssumption DEF SetDomain, Inv, TypeOK
  <2> QED
    BY <1>3, <2>1, WitnessedStep DEF SetDomain
<1>4. CASE UNCHANGED vars
  <2>1. UNCHANGED <<context, open, lent, active, allowed, audit, req>>
    BY <1>4 DEF vars, contextVars, tables
  <2>2. TypeOK' /\ Exclusive'
    BY <2>1 DEF Inv, TypeOK, ContextTypeOK, Exclusive
  <2>3. ASSUME NEW r \in Requests PROVE Held(r)' /\ Judged(r)' /\ Recorded(r)'
    BY <2>1 DEF Inv, Held, Judged, Recorded, Silent
  <2> QED
    BY <2>2, <2>3 DEF Inv
<1> QED
  BY <1>1, <1>2, <1>3, <1>4 DEF Next

(* The fields of the middleware's requests and of the tables keep their    *)
(* types: log_audit_event is only ever called with one of its three events. *)
THEOREM TypeCorrect == Spec => []TypeOK
<1>1. Inv => TypeOK
  BY DEF Inv
<1> QED
  BY <1>1, InitInv, NextInv, PTL DEF Spec

(* HMACMiddleware serves a guarded path only to a request with all the     *)
(* headers, a fresh timestamp and a good signature, whose tenant was       *)
(* active and whose domain was allowed while it was looked at.             *)
THEOREM AdmittedEntitled == Spec => []AdmittedWasEntitled
<1>1. Inv => AdmittedWasEntitled
  <2> SUFFICES ASSUME Inv, NEW r \in Requests, req[r].pc = "served",
                      req[r].input.path = "guarded"
               PROVE  /\ req[r].input.headers = "all" /\ req[r].input.time = "fresh"
                      /\ req[r].input.signature = "good"
                      /\ {"active", "allowed"} \subseteq req[r].seen
    BY DEF AdmittedWasEntitled
  <2> QED
    BY DEF Inv, Judged
<1> QED
  BY <1>1, InitInv, NextInv, PTL DEF Spec

(* log_audit_event leaves one row per audited refusal, under the tenant    *)
(* that was claimed, whatever other requests do with the connections, and  *)
(* the refusals without a row are those that the code does not audit.      *)
THEOREM RefusalsAudited == Spec => []RefusalsAreAudited
<1>1. Inv => RefusalsAreAudited
  <2> SUFFICES ASSUME Inv, NEW r \in Requests
               PROVE  LET i == req[r].input
                          rows == {x \in Tenants \X Events : audit[r][x] > 0}
                      IN  /\ rows \subseteq {<<i.tenant, req[r].event>>}
                          /\ \A x \in rows : audit[r][x] = 1 /\ req[r].pc = "refused"
                          /\ req[r].pc = "refused" /\ i.tenant \in Guids
                               /\ ~req[r].degraded /\ rows = {} =>
                                 \/ i.headers = "missing" \/ i.time = "no_number"
                                 \/ /\ i.time = "fresh" /\ i.signature = "good"
                                    /\ "inactive" \in req[r].seen
    BY DEF RefusalsAreAudited
  <2> DEFINE i == req[r].input
             rows == {x \in Tenants \X Events : audit[r][x] > 0}
  <2>1. Recorded(r) /\ \A x \in Tenants \X Events : audit[r][x] \in Nat
    BY DEF Inv, TypeOK
  <2>2. i.tenant \in Tenants
    BY DEF Inv, TypeOK, RequestState, Inputs
  <2>3. rows \subseteq {<<i.tenant, req[r].event>>}
    BY <2>1 DEF Recorded
  <2>4. \A x \in rows : audit[r][x] = 1 /\ req[r].pc = "refused"
    BY <2>1 DEF Recorded
  <2>5. ASSUME req[r].pc = "refused", i.tenant \in Guids, ~req[r].degraded, rows = {}
        PROVE  Silent(req[r])
    BY <2>1, <2>2, <2>5 DEF Recorded
  <2> QED
    BY <2>3, <2>4, <2>5 DEF Silent
<1> QED
  BY <1>1, InitInv, NextInv, PTL DEF Spec

-----------------------------------------------------------------------------
(* A connection that is out of the pool is out with a request.             *)
LentIsHeld == \A n \in lent : \E r \in Requests : req[r].conn = n

(* What a step does to a request's connection, and to the pool.            *)
Moves(r) ==
    /\ \A q \in Requests : q # r => req'[q] = req[q]
    /\ \/ lent' = lent /\ req'[r].conn = req[r].conn
       \/ lent' = lent \ {req[r].conn}
       \/ lent' = lent \cup {req'[r].conn} /\ req[r].conn \notin Connections

LEMMA MovesKeepHeld ==
    ASSUME Inv, LentIsHeld, NEW r \in Requests, Moves(r)
    PROVE  LentIsHeld'
<1> SUFFICES ASSUME NEW n \in lent' PROVE \E q \in Requests : req'[q].conn = n
  BY DEF LentIsHeld
<1>1. lent \subseteq Connections
  BY DEF Inv, TypeOK, ContextTypeOK
<1>2. CASE n \in lent /\ (n = req[r].conn => req'[r].conn = n)
  <2>1. PICK q \in Requests : req[q].conn = n
    BY <1>2 DEF LentIsHeld
  <2> QED
    BY <1>2, <2>1 DEF Moves
<1>3. CASE n = req'[r].conn
  BY <1>3
<1> QED
  BY <1>1, <1>2, <1>3 DEF Moves

LEMMA AcquireMoves ==
    ASSUME Inv, NEW r \in Requests, NEW here, NEW next, Acquire(r, here, next), here \notin Holding
    PROVE  Moves(r)
<1>1. req[r] \in RequestState /\ req \in [Requests -> RequestState]
  BY DEF Inv, TypeOK
<1>2. PICK n \in Connections :
          Take(n) /\ Become(r, [req[r] EXCEPT !.pc = next, !.conn = n])
  BY DEF Acquire
<1>3. req[r].conn \notin Connections
  BY DEF Inv, Held, Acquire
<1>4. [req[r] EXCEPT !.pc = next, !.conn = n].conn = n
  BY <1>1 DEF RequestState
<1>5. /\ req'[r] = [req[r] EXCEPT !.pc = next, !.conn = n]
      /\ \A q \in Requests : q # r => req'[q] = req[q]
  BY <1>1, <1>2 DEF Become
<1> QED
  BY <1>2, <1>3, <1>4, <1>5 DEF Moves, Take

LEMMA Fields ==
    ASSUME NEW s \in RequestState, NEW l, NEW e, NEW d
    PROVE  /\ [s EXCEPT !.pc = l].conn = s.conn
           /\ Audited(s, e).conn = s.conn
           /\ [s EXCEPT !.pc = l, !.conn = NoConnection, !.degraded = d].conn = NoConnection
  BY DEF RequestState, Audited

LEMMA StayMoves ==
    ASSUME Inv, NEW r \in Requests, NEW s, Become(r, s), s.conn = req[r].conn, lent' = lent
    PROVE  Moves(r)
  BY DEF Inv, TypeOK, Become, Moves

LEMMA ArriveMoves == ASSUME Inv, NEW r \in Requests, Arrive(r) PROVE Moves(r)
<1>1. PICK i \in Sent :
          LET s == [req[r] EXCEPT !.input = i, !.seen = Status(i, active, allowed)] IN
          \/ Become(r, [s EXCEPT !.pc = "served"]) \/ Become(r, [s EXCEPT !.pc = "refused"])
          \/ Become(r, Audited(s, "TIMESTAMP_EXPIRED")) \/ Become(r, [s EXCEPT !.pc = "body"])
  BY DEF Arrive
<1> DEFINE s == [req[r] EXCEPT !.input = i, !.seen = Status(i, active, allowed)]
<1>2. /\ i \in Inputs /\ req \in [Requests -> RequestState] /\ req[r] \in RequestState
      /\ Status(i, active, allowed) \in SUBSET {"active", "inactive", "allowed", "barred"}
  BY SentAssumption, StatusType DEF Inv, TypeOK
<1>3. s \in RequestState /\ s.conn = req[r].conn
  BY <1>2 DEF RequestState
<1> HIDE DEF s
<1>4. lent' = lent
  BY DEF Arrive, contextVars
<1>5. CASE Become(r, [s EXCEPT !.pc = "served"])
  BY <1>3, <1>4, <1>5, Fields, StayMoves
<1>6. CASE Become(r, [s EXCEPT !.pc = "refused"])
  BY <1>3, <1>4, <1>6, Fields, StayMoves
<1>7. CASE Become(r, Audited(s, "TIMESTAMP_EXPIRED"))
  BY <1>3, <1>4, <1>7, Fields, StayMoves
<1>8. CASE Become(r, [s EXCEPT !.pc = "body"])
  BY <1>3, <1>4, <1>8, Fields, StayMoves
<1> QED
  BY <1>1, <1>5, <1>6, <1>7, <1>8 DEF s

LEMMA StatementMoves ==
    ASSUME Inv, NEW r \in Requests, ReadBody(r) \/ AuditSet(r) \/ AuditInsert(r)
    PROVE  Moves(r)
<1>1. req[r] \in RequestState
  BY DEF Inv, TypeOK
<1>2. lent' = lent
  BY DEF ReadBody, AuditSet, AuditInsert, SetConfig, contextVars
<1>3. ASSUME NEW l, Goto(r, l) PROVE Moves(r)
  BY <1>1, <1>2, <1>3, Fields, StayMoves DEF Goto
<1>4. CASE Become(r, Audited(req[r], "HMAC_FAIL"))
  BY <1>1, <1>2, <1>4, Fields, StayMoves
<1> QED
  BY <1>3, <1>4 DEF ReadBody, AuditSet, AuditInsert

LEMMA RaiseMoves == ASSUME Inv, NEW r \in Requests, Raise(r) PROVE Moves(r)
<1>1. req[r] \in RequestState /\ req \in [Requests -> RequestState]
  BY DEF Inv, TypeOK
<1>2. req'[r].conn = NoConnection /\ \A q \in Requests : q # r => req'[q] = req[q]
  <2>1. ASSUME NEW l, NEW d,
               Become(r, [req[r] EXCEPT !.pc = l, !.conn = NoConnection, !.degraded = d])
        PROVE  req'[r].conn = NoConnection /\ \A q \in Requests : q # r => req'[q] = req[q]
    BY <1>1, <2>1, Fields DEF Become
  <2>2. CASE ReadFails(r)
    BY <2>1, <2>2 DEF ReadFails
  <2>3. CASE AuditFails(r)
    BY <2>1, <2>3 DEF AuditFails
  <2> QED
    BY <2>2, <2>3 DEF Raise
<1>3. CASE req[r].pc \in Holding
  BY <1>2, <1>3 DEF Raise, ReadFails, AuditFails, GiveBack, Replace, Holding, Moves
<1>4. CASE req[r].pc \notin Holding
  <2>1. req[r].conn = NoConnection
    BY <1>1, <1>4 DEF Inv, Held, RequestState
  <2>2. lent' = lent
    BY <1>4 DEF Raise, ReadFails, AuditFails, Holding, contextVars
  <2> QED
    BY <1>2, <2>1, <2>2 DEF Moves
<1> QED
  BY <1>3, <1>4

LEMMA LentIsHeldStep ==
    ASSUME Inv, LentIsHeld, [Next]_vars
    PROVE  LentIsHeld'
<1>1. req \in [Requests -> RequestState] /\ \A r \in Requests : req[r] \in RequestState
  BY DEF Inv, TypeOK
<1>2. ASSUME NEW r \in Requests, Wait(r) PROVE Moves(r)
  BY <1>2, AcquireMoves DEF Wait, AcquireForRead, AuditBegin, Holding
<1>3. ASSUME NEW r \in Requests, ReadTenant(r) \/ ReadDomain(r) \/ AuditCommit(r)
      PROVE  Moves(r)
  <2>1. PICK s : Leave(r, s)
    BY <1>3 DEF ReadTenant, ReadDomain, AuditCommit
  <2> QED
    BY <1>1, <2>1 DEF Moves, Become, Leave, GiveBack
<1>4. ASSUME NEW r \in Requests, Arrive(r) \/ Proceed(r) \/ Wait(r) \/ Raise(r)
      PROVE  LentIsHeld'
  <2>1. Moves(r)
    BY <1>2, <1>3, <1>4, ArriveMoves, StatementMoves, RaiseMoves DEF Proceed
  <2> QED
    BY <2>1, MovesKeepHeld
<1>5. ASSUME lent' = lent, \A q \in Requests : req'[q].conn = req[q].conn
      PROVE  LentIsHeld'
  BY <1>5 DEF LentIsHeld
<1>6. ASSUME Witnessed, UNCHANGED contextVars PROVE LentIsHeld'
  <2>1. ASSUME NEW q \in Requests PROVE req'[q].conn = req[q].conn
    <3>1. \/ req'[q] = req[q]
          \/ req'[q] = [req[q] EXCEPT !.seen = @ \cup Status(req[q].input, active', allowed')]
      BY <1>6 DEF Witnessed
    <3> QED
      BY <1>1, <3>1 DEF RequestState
  <2> QED
    BY <1>5, <1>6, <2>1 DEF contextVars
<1>7. CASE UNCHANGED vars
  BY <1>5, <1>7 DEF vars, contextVars
<1> QED
  BY <1>4, <1>6, <1>7 DEF Next, SetStatus, SetDomain

(* A request that needs no connection from the pool, or finds one there.   *)
GoesOn(r) ==
    \/ req[r].pc \in {"body"} \cup Holding
    \/ req[r].pc \in {"tenant", "domain", "audit"} /\ lent # Connections

SomeoneGoesOn ==
    (\E r \in Requests : req[r].pc \notin Over \cup {"new"}) => \E r \in Requests : GoesOn(r)

(* HMACMiddleware asks for each of its three connections after it has      *)
(* given the last one back, the audit's too, so requests can wait for each *)
(* other but never all at once, however small the pool.                    *)
THEOREM OneConnectionSuffices ==
    ASSUME Connections # {}
    PROVE  Spec => []SomeoneGoesOn
<1>1. Init => LentIsHeld
  BY DEF Init, ContextInit, LentIsHeld
<1>2. Inv /\ LentIsHeld => SomeoneGoesOn
  <2> SUFFICES ASSUME Inv, LentIsHeld, NEW r \in Requests, req[r].pc \notin Over \cup {"new"}
               PROVE  \E q \in Requests : GoesOn(q)
    BY DEF SomeoneGoesOn
  <2>1. req[r].pc \in {"body", "tenant", "domain", "audit"} \cup Holding
    BY DEF Inv, TypeOK, RequestState, Holding
  <2>2. CASE lent = Connections
    <3>1. PICK n \in Connections, q \in Requests : req[q].conn = n
      BY <2>2 DEF LentIsHeld
    <3>2. req[q].pc \in Holding
      BY <3>1 DEF Inv, Held
    <3> QED
      BY <3>2 DEF GoesOn
  <2>3. CASE lent # Connections
    BY <2>1, <2>3 DEF GoesOn
  <2> QED
    BY <2>2, <2>3
<1> QED
  BY <1>1, <1>2, InitInv, NextInv, LentIsHeldStep, PTL DEF Spec
=============================================================================
