------------------------------ MODULE Admission ------------------------------
(***************************************************************************)
(* HMACMiddleware (src/middleware/tenant.py): a request is let in if its   *)
(* headers are there, its timestamp is fresh and its signature good, and   *)
(* then if the database has its tenant active and its domain allowed, on   *)
(* a pooled connection for each of the two reads.  Three of the refusals   *)
(* are recorded by log_audit_event (src/services/audit.py), in a           *)
(* transaction that sets the tenant for the policy of audit_log, and       *)
(* whose failure nobody hears of.  Administrators change both tables       *)
(* meanwhile.  Here Tenants are the names an X-Company-GUID may give, and  *)
(* a domain is one up to case and trailing slashes.                        *)
(***************************************************************************)
EXTENDS Naturals, TenantContext

CONSTANTS
    Guids,          \* the tenant names that are UUIDs
    Domains,
    OpeningActive,  \* the tenants that are active at the start
    OpeningAllowed, \* the domains allowed then
    Changing,       \* the tenants whose status and domains change
    Sent,           \* what clients send
    Requests,
    NoConnection

Inputs ==
    [path : {"skipped", "guarded"}, headers : {"all", "missing"},
     time : {"fresh", "stale", "no_number"}, signature : {"good", "bad"},
     tenant : Tenants, domain : Domains]

ASSUME GuidsAssumption == Guids \subseteq Tenants /\ Changing \subseteq Guids
ASSUME OpeningAssumption == OpeningActive \subseteq Guids /\ OpeningAllowed \subseteq Guids \X Domains
ASSUME SentAssumption == Sent \subseteq Inputs /\ Sent # {}
ASSUME NoConnectionAssumption == NoConnection \notin Connections

VARIABLES
    active,     \* the tenants whose status is "active"
    allowed,    \* the active rows of allowed_domains
    audit,      \* [Requests -> the rows it left in audit_log]
    req         \* [Requests -> the request's local state]

tables == <<active, allowed>>
vars == <<contextVars, tables, audit, req>>

Events == {"TIMESTAMP_EXPIRED", "HMAC_FAIL", "DOMAIN_NOT_ALLOWED"}
NoEvent == "none"
Over == {"served", "refused", "failed"}

(* event is what is to be audited.  Of history, seen is what the tables    *)
(* have said while the request ran; degraded: the database failed it.      *)
RequestState ==
    [pc : {"new", "body", "tenant", "tenant_read", "domain", "domain_read",
           "audit", "audit_set", "audit_insert", "audit_commit"} \cup Over,
     input : Inputs, conn : Connections \cup {NoConnection}, event : Events \cup {NoEvent},
     seen : SUBSET {"active", "inactive", "allowed", "barred"}, degraded : BOOLEAN]

TypeOK ==
    /\ ContextTypeOK
    /\ active \subseteq Guids
    /\ allowed \subseteq Guids \X Domains
    /\ audit \in [Requests -> [Tenants \X Events -> Nat]]
    /\ req \in [Requests -> RequestState]

Init ==
    /\ ContextInit
    /\ active = OpeningActive /\ allowed = OpeningAllowed
    /\ audit = [r \in Requests |-> [x \in Tenants \X Events |-> 0]]
    /\ req = [r \in Requests |->
                 [pc |-> "new", input |-> CHOOSE i \in Sent : TRUE, conn |-> NoConnection,
                  event |-> NoEvent, seen |-> {}, degraded |-> FALSE]]

Become(r, state) == req' = [req EXCEPT ![r] = state]
Goto(r, l) == Become(r, [req[r] EXCEPT !.pc = l])
Audited(state, event) == [state EXCEPT !.pc = "audit", !.event = event]

(* What the two tables say of an input.                                    *)
Status(i, tenants, domains) ==
    {IF i.tenant \in tenants THEN "active" ELSE "inactive",
     IF <<i.tenant, i.domain>> \in domains THEN "allowed" ELSE "barred"}

-----------------------------------------------------------------------------
Unreadable(i) == i.headers = "missing" \/ i.time = "no_number"

(* Mutation: a timestamp that is no number is audited, too.                *)
ArriveAndAudit(r) ==
    /\ req[r].pc = "new"
    /\ \E i \in Sent :
           LET state == [req[r] EXCEPT !.input = i, !.seen = Status(i, active, allowed)] IN
           \/ i.path = "skipped" /\ Become(r, [state EXCEPT !.pc = "served"])
           \/ i.path = "guarded" /\ i.headers = "missing" /\ Become(r, [state EXCEPT !.pc = "refused"])
           \/ i.path = "guarded" /\ i.headers = "all" /\ i.time = "no_number"
               /\ Become(r, Audited(state, "INVALID_TIMESTAMP"))
           \/ i.path = "guarded" /\ ~Unreadable(i) /\ i.time = "stale"
               /\ Become(r, Audited(state, "TIMESTAMP_EXPIRED"))
           \/ i.path = "guarded" /\ ~Unreadable(i) /\ i.time = "fresh"
               /\ Become(r, [state EXCEPT !.pc = "body"])
    /\ UNCHANGED <<contextVars, tables, audit>>

(* __call__ and _verify up to the first await.                             *)
Arrive(r) ==
    /\ req[r].pc = "new"
    /\ \E i \in Sent :
           LET state == [req[r] EXCEPT !.input = i, !.seen = Status(i, active, allowed)] IN
           \/ i.path = "skipped" /\ Become(r, [state EXCEPT !.pc = "served"])
           \/ i.path = "guarded" /\ Unreadable(i) /\ Become(r, [state EXCEPT !.pc = "refused"])
           \/ i.path = "guarded" /\ ~Unreadable(i) /\ i.time = "stale"
               /\ Become(r, Audited(state, "TIMESTAMP_EXPIRED"))
           \/ i.path = "guarded" /\ ~Unreadable(i) /\ i.time = "fresh"
               /\ Become(r, [state EXCEPT !.pc = "body"])
    /\ UNCHANGED <<contextVars, tables, audit>>

(* The body has come and its signature is looked at; or the client has     *)
(* left, or the body is no UTF-8, and an exception ends the request.       *)
ReadBody(r) ==
    /\ req[r].pc = "body"
    /\ \/ req[r].input.signature = "good" /\ Goto(r, "tenant")
       \/ req[r].input.signature = "bad" /\ Become(r, Audited(req[r], "HMAC_FAIL"))
       \/ Goto(r, "failed")
    /\ UNCHANGED <<contextVars, tables, audit>>

Acquire(r, here, next) ==
    /\ req[r].pc = here
    /\ \E n \in Connections :
           Take(n) /\ Become(r, [req[r] EXCEPT !.pc = next, !.conn = n])

(* The two reads' pool.acquire(), without a transaction.                   *)
AcquireForRead(r) ==
    /\ Acquire(r, "tenant", "tenant_read") \/ Acquire(r, "domain", "domain_read")
    /\ UNCHANGED <<context, open, tables, audit>>

(* Leaving the connection's "async with".                                  *)
Leave(r, state) == Become(r, [state EXCEPT !.conn = NoConnection]) /\ GiveBack(req[r].conn)

(* Mutation: it is enough that the tenant exists.                          *)
ReadTenantAnyStatus(r) ==
    /\ req[r].pc = "tenant_read" /\ req[r].input.tenant \in Guids
    /\ Leave(r, [req[r] EXCEPT !.pc = "domain"])
    /\ UNCHANGED <<tables, audit>>

(* _get_tenant and the look at its status.                                 *)
ReadTenant(r) ==
    LET t == req[r].input.tenant IN
    /\ req[r].pc = "tenant_read" /\ t \in Guids
    /\ Leave(r, [req[r] EXCEPT !.pc = IF t \in active THEN "domain" ELSE "refused"])
    /\ UNCHANGED <<tables, audit>>

(* Mutation: the refusal is audited inside the read's "async with".        *)
ReadDomainNested(r) ==
    LET i == req[r].input IN
    /\ req[r].pc = "domain_read"
    /\ IF <<i.tenant, i.domain>> \in allowed THEN Leave(r, [req[r] EXCEPT !.pc = "served"])
       ELSE Become(r, Audited(req[r], "DOMAIN_NOT_ALLOWED")) /\ UNCHANGED contextVars
    /\ UNCHANGED <<tables, audit>>

ReadDomain(r) ==
    LET i == req[r].input IN
    /\ req[r].pc = "domain_read"
    /\ Leave(r, IF <<i.tenant, i.domain>> \in allowed THEN [req[r] EXCEPT !.pc = "served"]
                ELSE Audited(req[r], "DOMAIN_NOT_ALLOWED"))
    /\ UNCHANGED <<tables, audit>>

(* ::uuid refuses the name.                                                *)
Malformed(r) == req[r].pc = "tenant_read" /\ req[r].input.tenant \notin Guids

(* A read raises, and so does the middleware.                              *)
ReadFails(r) ==
    LET state == [req[r] EXCEPT !.pc = "failed", !.conn = NoConnection,
                                !.degraded = ~Malformed(r)]
    IN  /\ \/ /\ req[r].pc \in {"tenant_read", "domain_read"}
              /\ Become(r, state)
              /\ GiveBack(req[r].conn) \/ Replace(req[r].conn)
           \/ /\ req[r].pc \in {"tenant", "domain"}
              /\ Become(r, state) /\ UNCHANGED contextVars
        /\ UNCHANGED <<tables, audit>>

-----------------------------------------------------------------------------
(* Mutation: the statements commit one by one, as in resolve_for_tenant.   *)
AuditWithoutTransaction(r) ==
    /\ Acquire(r, "audit", "audit_set")
    /\ UNCHANGED <<context, open, tables, audit>>

(* log_audit_event: pool.acquire() and conn.transaction().                 *)
AuditBegin(r) ==
    /\ Acquire(r, "audit", "audit_set")
    /\ open' = open \cup {req'[r].conn}
    /\ UNCHANGED <<context, tables, audit>>

AuditSet(r) ==
    /\ req[r].pc = "audit_set"
    /\ SetConfig(req[r].conn, req[r].input.tenant)
    /\ Goto(r, "audit_insert")
    /\ UNCHANGED <<tables, audit>>

(* The policy's USING checks new rows, too.                                *)
AuditInsert(r) ==
    LET t == req[r].input.tenant IN
    /\ req[r].pc = "audit_insert" /\ t \in Guids /\ Sees(req[r].conn, t)
    /\ Goto(r, "audit_commit")
    /\ UNCHANGED <<contextVars, tables, audit>>

Record(r) == audit' = [audit EXCEPT ![r][<<req[r].input.tenant, req[r].event>>] = @ + 1]

AuditCommit(r) ==
    /\ req[r].pc = "audit_commit"
    /\ Record(r)
    /\ Leave(r, [req[r] EXCEPT !.pc = "refused"])
    /\ UNCHANGED tables

(* The insert is refused, as no UUID or by the policy.                     *)
AuditRefused(r) ==
    LET t == req[r].input.tenant IN
    req[r].pc = "audit_insert" /\ ~(t \in Guids /\ Sees(req[r].conn, t))

(* Every exception of log_audit_event is swallowed, also that of a commit  *)
(* whose answer is lost: the request is refused all the same.              *)
AuditFails(r) ==
    LET n == req[r].conn
        state == [req[r] EXCEPT !.pc = "refused", !.conn = NoConnection,
                                !.degraded = @ \/ ~AuditRefused(r)]
    IN  /\ Become(r, state)
        /\ \/ req[r].pc = "audit" /\ UNCHANGED <<contextVars, audit>>
           \/ /\ req[r].pc \in {"audit_set", "audit_insert", "audit_commit"}
              /\ GiveBack(n) \/ Replace(n)
              /\ UNCHANGED audit
           \/ req[r].pc = "audit_commit" /\ Replace(n) /\ Record(r)
        /\ UNCHANGED tables

-----------------------------------------------------------------------------
(* What an administrator changes, the requests under way could have read.  *)
Witnessed ==
    req' = [r \in Requests |->
               IF req[r].pc \in Over \cup {"new"} THEN req[r]
               ELSE [req[r] EXCEPT !.seen = @ \cup Status(req[r].input, active', allowed')]]

SetStatus(t) ==
    /\ active' = IF t \in active THEN active \ {t} ELSE active \cup {t}
    /\ UNCHANGED <<contextVars, allowed, audit>>
    /\ Witnessed

SetDomain(t, d) ==
    /\ allowed' = IF <<t, d>> \in allowed THEN allowed \ {<<t, d>>} ELSE allowed \cup {<<t, d>>}
    /\ UNCHANGED <<contextVars, active, audit>>
    /\ Witnessed

Proceed(r) ==
    \/ ReadBody(r) \/ ReadTenant(r) \/ ReadDomain(r)
    \/ AuditSet(r) \/ AuditInsert(r) \/ AuditCommit(r)

(* A statement that raises; AuditFails also ends what AuditInsert cannot.  *)
Raise(r) == ReadFails(r) \/ AuditFails(r)

(* Steps that wait for a connection.                                       *)
Wait(r) == AcquireForRead(r) \/ AuditBegin(r)

Next ==
    \/ \E r \in Requests : Arrive(r) \/ Proceed(r) \/ Wait(r) \/ Raise(r)
    \/ \E t \in Changing : SetStatus(t) \/ \E d \in Domains : SetDomain(t, d)

(* Coroutines run on, the pool serves in turn, and a client sends its body *)
(* or closes the connection.                                               *)
Fairness ==
    \A r \in Requests :
        /\ WF_vars(Proceed(r)) /\ SF_vars(Wait(r))
        /\ WF_vars((Malformed(r) \/ AuditRefused(r)) /\ Raise(r))

Spec == Init /\ [][Next]_vars
FairSpec == Spec /\ Fairness

-----------------------------------------------------------------------------
(* Whoever is let in has shown what is asked for, and while the request    *)
(* was looked at the tenant was active and the domain allowed, though not  *)
(* necessarily at the same moment.                                         *)
AdmittedWasEntitled ==
    \A r \in Requests :
        LET i == req[r].input IN
        req[r].pc = "served" /\ i.path = "guarded" =>
            /\ i.headers = "all" /\ i.time = "fresh" /\ i.signature = "good"
            /\ {"active", "allowed"} \subseteq req[r].seen

(* A refusal leaves one row, under the tenant that was claimed, unless the *)
(* database failed it or the tenant's name is no UUID; those that leave    *)
(* none are the refusals of missing headers, of a timestamp that is no     *)
(* number and of a tenant that is not active.  A row is of a refusal.      *)
RefusalsAreAudited ==
    \A r \in Requests :
        LET i == req[r].input
            rows == {x \in Tenants \X Events : audit[r][x] > 0}
        IN  /\ rows \subseteq {<<i.tenant, req[r].event>>}
            /\ \A x \in rows : audit[r][x] = 1 /\ req[r].pc = "refused"
            /\ req[r].pc = "refused" /\ i.tenant \in Guids /\ ~req[r].degraded /\ rows = {} =>
                   \/ i.headers = "missing" \/ i.time = "no_number"
                   \/ i.time = "fresh" /\ i.signature = "good" /\ "inactive" \in req[r].seen

(* No request waits for ever for a connection, whatever the others do.     *)
EveryRequestIsAnswered ==
    <>[](\A r \in Requests : req[r].pc \in Over \cup {"new"})
=============================================================================
