------------------------- MODULE ToolConfig_proofs -------------------------
(***************************************************************************)
(* That the tenant set on a connection is the one of the request that      *)
(* holds it, and that readers of tenant_tool_configs answer from a state   *)
(* that the tenant's rows had, for any tenants, tools, requests and        *)
(* connections.  The invariant has a part for each request (Held for its   *)
(* connection, Answering for what it knows) and one for the pool: a        *)
(* connection is one request's alone, and an idle one has no tenant.       *)
(***************************************************************************)
EXTENDS ToolConfig, TLAPS

Resolving == {"resolve_set", "resolve_read"}
Holding == Resolving \cup {"set", "query", "commit"}

(* A transaction has the tenant set once it queries, and nothing else has. *)
Held(r) ==
    LET s == req[r] IN
    /\ s.conn \in Connections <=> s.pc \in Holding
    /\ s.conn \in Connections => s.conn \in lent
    /\ s.pc \in {"set", "query", "commit"} => s.conn \in open
    /\ s.pc \in Resolving => s.conn \notin open
    /\ s.pc \in Resolving \cup {"set"} => context[s.conn] \notin Tenants
    /\ s.pc \in {"query", "commit"} => context[s.conn] = s.tenant
    /\ s.pc \in Resolving \cup {"resolve"} => s.kind = "chat"

Exclusive == \A r, q \in Requests : r # q /\ req[r].conn \in Connections => req[q].conn # req[r].conn

PoolOK ==
    \A n \in Connections :
        IF n \in lent THEN \E r \in Requests : req[r].conn = n
        ELSE n \notin open /\ context[n] \notin Tenants

(* A reader that runs could answer from the rows as they are, and from     *)
(* those that it has read.                                                 *)
AnswerIsTrue(s) ==
    s.pc \in Over /\ ~s.degraded /\ s.kind \notin Writers =>
        /\ s.kind = "mcp_spec" => s.pc = "answered"
        /\ s.pc = "answered" => \E c \in s.could :
               s.offered = IF s.kind = "chat" THEN s.whitelist \cap Having(c, "none")
                           ELSE Having(c, "on")

Answering(r) ==
    LET s == req[r] IN
    /\ s.pc \notin Over => s.offered = {} /\ ~s.degraded
    /\ s.pc \notin Over \cup {"new"} /\ s.kind \notin Writers => config[s.tenant] \in s.could
    /\ s.pc = "commit" /\ s.kind \notin Writers => s.rows \in s.could
    /\ s.pc \notin Resolving \cup {"resolve", "new"} /\ s.kind = "chat" => PackServed(s)
    /\ AnswerIsTrue(s)

Inv ==
    /\ TypeOK
    /\ \A r \in Requests : Held(r) /\ Answering(r)
    /\ Exclusive
    /\ PoolOK

-----------------------------------------------------------------------------
(* Another request's step: it may only add to what q could answer from.    *)
Same(q) ==
    /\ req'[q].pc = req[q].pc /\ req'[q].conn = req[q].conn /\ req'[q].kind = req[q].kind
    /\ req'[q].tenant = req[q].tenant /\ req'[q].rows = req[q].rows
    /\ req'[q].offered = req[q].offered /\ req'[q].whitelist = req[q].whitelist
    /\ req'[q].degraded = req[q].degraded
    /\ req[q].could \subseteq req'[q].could
    /\ req[q].pc \notin Over \cup {"new"} /\ req[q].kind \notin Writers =>
           config'[req[q].tenant] \in req'[q].could

(* What a step of r does to the pool.                                      *)
Framed(r) ==
    /\ \A q \in Requests : q # r => Same(q)
    /\ \A n \in Connections : n # req[r].conn /\ n # req'[r].conn =>
           /\ context'[n] = context[n]
           /\ n \in lent' <=> n \in lent
           /\ n \in open' <=> n \in open
    /\ req'[r].conn \in Connections /\ req'[r].conn # req[r].conn => req'[r].conn \notin lent
    /\ req[r].conn \in Connections /\ req'[r].conn # req[r].conn =>
           LET n == req[r].conn IN n \notin lent' /\ n \notin open' /\ context'[n] \notin Tenants

LEMMA Unchanged ==
    ASSUME Inv, NEW q \in Requests, req'[q] = req[q], config' = config
    PROVE  Same(q)
BY DEF Inv, Answering, Same

LEMMA Others ==
    ASSUME Inv, NEW r \in Requests, Framed(r), NEW q \in Requests, q # r
    PROVE  Held(q)' /\ Answering(q)'
<1>1. Same(q) /\ Held(q) /\ Answering(q)
  BY DEF Framed, Inv
<1>2. req[q].conn \in Connections =>
          /\ req[q].conn # req[r].conn /\ req[q].conn \in lent
          /\ req[q].conn # req'[r].conn
  BY <1>1 DEF Inv, Exclusive, Held, Framed
<1>3. Held(q)'
  BY <1>1, <1>2 DEF Held, Same, Framed, Holding, Resolving
<1>4. Answering(q)'
  BY <1>1 DEF Answering, AnswerIsTrue, Same, PackServed
<1> QED
  BY <1>3, <1>4

LEMMA FramedStep ==
    ASSUME Inv, NEW r \in Requests, Framed(r), TypeOK', Held(r)', Answering(r)'
    PROVE  Inv'
<1>1. \A q \in Requests : Held(q)' /\ Answering(q)'
  BY Others
<1>2. Exclusive'
  BY DEF Inv, Exclusive, Held, Framed, Same
<1>3. PoolOK'
  <2> SUFFICES ASSUME NEW n \in Connections
               PROVE  IF n \in lent' THEN \E q \in Requests : req'[q].conn = n
                      ELSE n \notin open' /\ context'[n] \notin Tenants
    BY DEF PoolOK
  <2>1. CASE n = req'[r].conn
    BY <2>1 DEF Held
  <2>2. CASE n # req'[r].conn /\ n = req[r].conn
    BY <2>2 DEF Framed
  <2>3. CASE n # req'[r].conn /\ n # req[r].conn
    <3>1. n \in lent => \E q \in Requests : q # r /\ req'[q].conn = n
      BY <2>3 DEF Inv, PoolOK, Framed, Same
    <3> QED
      BY <2>3, <3>1 DEF Inv, PoolOK, Framed
  <2> QED
    BY <2>1, <2>2, <2>3
<1> QED
  BY <1>1, <1>2, <1>3 DEF Inv

(* A request that only moves on, outside the pool or with its connection.  *)
LEMMA Quiet ==
    ASSUME Inv, NEW r \in Requests, NEW s \in RequestState, Become(r, s),
           s.conn = req[r].conn, UNCHANGED <<contextVars, config>>
    PROVE  TypeOK' /\ req'[r] = s /\ Framed(r)
<1>1. req'[r] = s /\ TypeOK' /\ \A q \in Requests : q # r => req'[q] = req[q]
  BY DEF Inv, TypeOK, ContextTypeOK, Become, contextVars
<1>2. \A q \in Requests : q # r => Same(q)
  BY <1>1, Unchanged
<1> QED
  BY <1>1, <1>2 DEF Framed, contextVars

LEMMA Taken ==
    ASSUME Inv, NEW r \in Requests, NEW n \in Connections, NEW s \in RequestState,
           Take(n), Become(r, s), s.conn = n, req[r].pc \notin Holding,
           open' = open \/ open' = open \cup {n}, UNCHANGED <<context, config>>
    PROVE  TypeOK' /\ req'[r] = s /\ Framed(r) /\ n \in lent'
           /\ n \notin open /\ context'[n] \notin Tenants
<1>1. /\ req'[r] = s /\ TypeOK' /\ n \in lent' /\ n \notin lent
      /\ \A q \in Requests : q # r => req'[q] = req[q]
  BY DEF Inv, TypeOK, ContextTypeOK, Become, Take
<1>2. \A q \in Requests : q # r => Same(q)
  BY <1>1, Unchanged
<1>3. req[r].conn \notin Connections
  BY DEF Inv, Held
<1>4. n \notin open /\ context'[n] \notin Tenants
  BY <1>1 DEF Inv, PoolOK
<1>5. Framed(r)
  BY <1>1, <1>2, <1>3 DEF Framed, Take
<1> QED
  BY <1>1, <1>4, <1>5

LEMMA Left ==
    ASSUME Inv, NEW r \in Requests, NEW s \in RequestState, req'[r] = s,
           req' \in [Requests -> RequestState], config' \in [Tenants -> [Tools -> RowStates]],
           s.conn = NoConnection, s.pc \notin Holding, req[r].pc \in Holding,
           GiveBack(req[r].conn) \/ Replace(req[r].conn),
           s.pc \in Resolving \cup {"resolve"} => s.kind = "chat",
           \A q \in Requests : q # r => Same(q)
    PROVE  TypeOK' /\ Framed(r) /\ Held(r)'
<1> DEFINE n == req[r].conn
<1>1. n \in Connections
  BY DEF Inv, Held
<1>2. TypeOK'
  BY <1>1 DEF Inv, TypeOK, ContextTypeOK, GiveBack, Replace, Ended
<1>3. n \notin lent' /\ n \notin open' /\ context'[n] \notin Tenants
  BY <1>1, MarkersAssumption DEF Inv, TypeOK, ContextTypeOK, GiveBack, Replace, Ended
<1>4. \A m \in Connections : m # n =>
          context'[m] = context[m] /\ (m \in lent' <=> m \in lent) /\ (m \in open' <=> m \in open)
  BY <1>1 DEF Inv, TypeOK, ContextTypeOK, GiveBack, Replace
<1>5. Framed(r)
  BY <1>3, <1>4, NoConnectionAssumption DEF Framed
<1>6. Held(r)'
  BY NoConnectionAssumption DEF Held, Holding
<1> QED
  BY <1>2, <1>5, <1>6

(* The same, when nothing is written.                                      *)
LEMMA LeftAlone ==
    ASSUME Inv, NEW r \in Requests, NEW s \in RequestState, Become(r, s), UNCHANGED config,
           s.conn = NoConnection, s.pc \notin Holding, req[r].pc \in Holding,
           GiveBack(req[r].conn) \/ Replace(req[r].conn),
           s.pc \in Resolving \cup {"resolve"} => s.kind = "chat"
    PROVE  TypeOK' /\ req'[r] = s /\ Framed(r) /\ Held(r)'
<1>1. /\ req'[r] = s /\ req' \in [Requests -> RequestState]
      /\ config' \in [Tenants -> [Tools -> RowStates]]
      /\ \A q \in Requests : q # r => req'[q] = req[q]
  BY DEF Inv, TypeOK, Become
<1>2. \A q \in Requests : q # r => Same(q)
  BY <1>1, Unchanged
<1> QED
  BY <1>1, <1>2, Left

-----------------------------------------------------------------------------
LEMMA ArriveStep == ASSUME Inv, NEW r \in Requests, Arrive(r) PROVE Inv'
<1>1. PICK k \in Kinds, t \in Tenants, tool \in Tools :
          Become(r, [req[r] EXCEPT !.pc = IF k = "chat" THEN "resolve" ELSE "enter",
                        !.kind = k, !.tenant = t, !.tool = tool,
                        !.could = IF k \in Writers THEN {} ELSE {config[t]}])
  BY DEF Arrive
<1> DEFINE z == [req[r] EXCEPT !.pc = IF k = "chat" THEN "resolve" ELSE "enter",
                     !.kind = k, !.tenant = t, !.tool = tool,
                     !.could = IF k \in Writers THEN {} ELSE {config[t]}]
<1>2. /\ req[r] \in RequestState /\ req[r].pc = "new" /\ UNCHANGED <<contextVars, config>>
      /\ Held(r) /\ Answering(r) /\ config[t] \in [Tools -> RowStates]
  BY DEF Inv, TypeOK, Arrive
<1>3. /\ z \in RequestState /\ z.pc = IF k = "chat" THEN "resolve" ELSE "enter"
      /\ z.kind = k /\ z.tenant = t /\ z.conn = req[r].conn
      /\ z.offered = req[r].offered /\ z.degraded = req[r].degraded
      /\ z.could = IF k \in Writers THEN {} ELSE {config[t]}
  BY <1>2 DEF RequestState
<1>4. Become(r, z)
  BY <1>1
<1> HIDE DEF z
<1>5. TypeOK' /\ req'[r] = z /\ Framed(r)
  BY <1>2, <1>3, <1>4, Quiet
<1>6. Held(r)'
  BY <1>2, <1>3, <1>5 DEF Held, Holding, Resolving
<1>7. Answering(r)'
  BY <1>2, <1>3, <1>5 DEF Answering, AnswerIsTrue, Over, Resolving, Writers, PackServed
<1> QED
  BY <1>5, <1>6, <1>7, FramedStep

LEMMA ResolveTakeStep == ASSUME Inv, NEW r \in Requests, ResolveTake(r) PROVE Inv'
<1>1. PICK n \in Connections :
          Take(n) /\ Become(r, [req[r] EXCEPT !.pc = "resolve_set", !.conn = n])
  BY DEF ResolveTake
<1> DEFINE z == [req[r] EXCEPT !.pc = "resolve_set", !.conn = n]
<1>2. /\ req[r] \in RequestState /\ req[r].pc = "resolve" /\ UNCHANGED <<context, open, config>>
      /\ Held(r) /\ Answering(r)
  BY DEF Inv, TypeOK, ResolveTake
<1>3. /\ z \in RequestState /\ z.pc = "resolve_set" /\ z.kind = req[r].kind
      /\ z.tenant = req[r].tenant /\ z.conn = n /\ z.offered = req[r].offered
      /\ z.degraded = req[r].degraded /\ z.could = req[r].could
      /\ z.whitelist = req[r].whitelist
  BY <1>2 DEF RequestState
<1>4. Become(r, z)
  BY <1>1
<1> HIDE DEF z
<1>5. /\ TypeOK' /\ req'[r] = z /\ Framed(r)
      /\ n \in lent' /\ n \notin open /\ context'[n] \notin Tenants
  BY <1>1, <1>2, <1>3, <1>4, Taken DEF Holding, Resolving
<1>6. Held(r)'
  BY <1>2, <1>3, <1>5 DEF Held, Holding, Resolving
<1>7. Answering(r)'
  BY <1>2, <1>3, <1>5 DEF Answering, AnswerIsTrue, Over, Resolving, Writers, PackServed
<1> QED
  BY <1>5, <1>6, <1>7, FramedStep

LEMMA EnterStep == ASSUME Inv, NEW r \in Requests, Enter(r) PROVE Inv'
<1>1. PICK n \in Connections :
          /\ Take(n) /\ open' = open \cup {n}
          /\ Become(r, [req[r] EXCEPT !.pc = "set", !.conn = n])
  BY DEF Enter
<1> DEFINE z == [req[r] EXCEPT !.pc = "set", !.conn = n]
<1>2. /\ req[r] \in RequestState /\ req[r].pc = "enter" /\ UNCHANGED <<context, config>>
      /\ Held(r) /\ Answering(r)
  BY DEF Inv, TypeOK, Enter
<1>3. /\ z \in RequestState /\ z.pc = "set" /\ z.kind = req[r].kind
      /\ z.tenant = req[r].tenant /\ z.conn = n /\ z.offered = req[r].offered
      /\ z.degraded = req[r].degraded /\ z.could = req[r].could
      /\ z.whitelist = req[r].whitelist
  BY <1>2 DEF RequestState
<1>4. Become(r, z)
  BY <1>1
<1> HIDE DEF z
<1>5. /\ TypeOK' /\ req'[r] = z /\ Framed(r)
      /\ n \in lent' /\ context'[n] \notin Tenants
  BY <1>1, <1>2, <1>3, <1>4, Taken DEF Holding, Resolving
<1>6. Held(r)'
  BY <1>1, <1>2, <1>3, <1>5 DEF Held, Holding, Resolving
<1>7. Answering(r)'
  BY <1>2, <1>3, <1>5 DEF Answering, AnswerIsTrue, Over, Resolving, Writers, PackServed
<1> QED
  BY <1>5, <1>6, <1>7, FramedStep

(* set_config, in a transaction and outside one.                           *)
LEMMA Setting ==
    ASSUME Inv, NEW r \in Requests, NEW s \in RequestState, Become(r, s),
           s.conn = req[r].conn, req[r].conn \in Connections,
           SetConfig(req[r].conn, req[r].tenant), UNCHANGED config
    PROVE  /\ TypeOK' /\ req'[r] = s /\ Framed(r) /\ UNCHANGED <<open, lent>>
           /\ context'[req[r].conn] = IF req[r].conn \in open THEN req[r].tenant ELSE Blank
<1>1. req[r].tenant \in Tenants
  BY DEF Inv, TypeOK, RequestState
<1>2. /\ req'[r] = s /\ TypeOK' /\ UNCHANGED <<open, lent>>
      /\ \A q \in Requests : q # r => req'[q] = req[q]
  BY <1>1 DEF Inv, TypeOK, ContextTypeOK, Become, SetConfig
<1>3. \A q \in Requests : q # r => Same(q)
  BY <1>2, Unchanged
<1>4. /\ context'[req[r].conn] = IF req[r].conn \in open THEN req[r].tenant ELSE Blank
      /\ \A n \in Connections : n # req[r].conn => context'[n] = context[n]
  BY DEF Inv, TypeOK, ContextTypeOK, SetConfig
<1> QED
  BY <1>2, <1>3, <1>4 DEF Framed

LEMMA ResolveSetStep == ASSUME Inv, NEW r \in Requests, ResolveSet(r) PROVE Inv'
<1> DEFINE z == [req[r] EXCEPT !.pc = "resolve_read"]
<1>1. /\ req[r] \in RequestState /\ req[r].pc = "resolve_set" /\ UNCHANGED config
      /\ Held(r) /\ Answering(r) /\ SetConfig(req[r].conn, req[r].tenant) /\ Become(r, z)
  BY DEF Inv, TypeOK, ResolveSet, Goto
<1>2. /\ z \in RequestState /\ z.pc = "resolve_read" /\ z.kind = req[r].kind
      /\ z.tenant = req[r].tenant /\ z.conn = req[r].conn /\ z.offered = req[r].offered
      /\ z.degraded = req[r].degraded /\ z.could = req[r].could
      /\ z.whitelist = req[r].whitelist
  BY <1>1 DEF RequestState
<1> HIDE DEF z
<1>3. req[r].conn \in Connections /\ req[r].conn \in lent /\ req[r].conn \notin open
  BY <1>1 DEF Held, Holding, Resolving
<1>4. /\ TypeOK' /\ req'[r] = z /\ Framed(r) /\ UNCHANGED <<open, lent>>
      /\ context'[req[r].conn] = Blank
  BY <1>1, <1>2, <1>3, Setting
<1>5. Held(r)'
  BY <1>1, <1>2, <1>3, <1>4, MarkersAssumption DEF Held, Holding, Resolving
<1>6. Answering(r)'
  BY <1>1, <1>2, <1>4 DEF Answering, AnswerIsTrue, Over, Resolving, Writers, PackServed
<1> QED
  BY <1>4, <1>5, <1>6, FramedStep

LEMMA SetTenantStep == ASSUME Inv, NEW r \in Requests, SetTenant(r) PROVE Inv'
<1> DEFINE z == [req[r] EXCEPT !.pc = "query"]
<1>1. /\ req[r] \in RequestState /\ req[r].pc = "set" /\ UNCHANGED config
      /\ Held(r) /\ Answering(r) /\ SetConfig(req[r].conn, req[r].tenant) /\ Become(r, z)
  BY DEF Inv, TypeOK, SetTenant, Goto
<1>2. /\ z \in RequestState /\ z.pc = "query" /\ z.kind = req[r].kind
      /\ z.tenant = req[r].tenant /\ z.conn = req[r].conn /\ z.offered = req[r].offered
      /\ z.degraded = req[r].degraded /\ z.could = req[r].could
      /\ z.whitelist = req[r].whitelist
  BY <1>1 DEF RequestState
<1> HIDE DEF z
<1>3. req[r].conn \in Connections /\ req[r].conn \in lent /\ req[r].conn \in open
  BY <1>1 DEF Held, Holding, Resolving
<1>4. /\ TypeOK' /\ req'[r] = z /\ Framed(r) /\ UNCHANGED <<open, lent>>
      /\ context'[req[r].conn] = req[r].tenant
  BY <1>1, <1>2, <1>3, Setting
<1>5. Held(r)'
  BY <1>1, <1>2, <1>3, <1>4 DEF Held, Holding, Resolving
<1>6. Answering(r)'
  BY <1>1, <1>2, <1>4 DEF Answering, AnswerIsTrue, Over, Resolving, Writers, PackServed
<1> QED
  BY <1>4, <1>5, <1>6, FramedStep

(* The pack is resolved, or taken to be generic@1.0.0: a pack without      *)
(* tools has nothing to offer, whatever the rows.                          *)
LEMMA ResolvedStep ==
    ASSUME Inv, NEW r \in Requests, req[r].pc \in Resolving, NEW tools \in SUBSET Tools,
           tools = GenericTools \/ (AppBypassesRls /\ tools = PackTools[req[r].tenant]),
           Resolved(r, tools), GiveBack(req[r].conn) \/ Replace(req[r].conn), UNCHANGED config
    PROVE  Inv'
<1> DEFINE z == [req[r] EXCEPT !.pc = IF tools = {} THEN "answered" ELSE "enter",
                               !.conn = NoConnection, !.whitelist = tools]
<1>1. req[r] \in RequestState /\ Held(r) /\ Answering(r) /\ Become(r, z)
  BY DEF Inv, TypeOK, Resolved
<1>2. /\ z \in RequestState /\ z.pc = IF tools = {} THEN "answered" ELSE "enter"
      /\ z.kind = req[r].kind /\ z.tenant = req[r].tenant /\ z.conn = NoConnection
      /\ z.offered = req[r].offered /\ z.degraded = req[r].degraded
      /\ z.could = req[r].could /\ z.whitelist = tools
  BY <1>1 DEF RequestState, Over
<1> HIDE DEF z
<1>3. TypeOK' /\ req'[r] = z /\ Framed(r) /\ Held(r)'
  BY <1>1, <1>2, LeftAlone DEF Holding, Resolving
<1>4. req[r].kind = "chat" /\ z.offered = {} /\ ~z.degraded /\ config[z.tenant] \in z.could
  BY <1>1, <1>2 DEF Held, Answering, Resolving, Over, Writers
<1>5. PackServed(z)
  BY <1>2 DEF PackServed
<1>6. Answering(r)'
  BY <1>2, <1>3, <1>4, <1>5 DEF Answering, AnswerIsTrue, Over, Resolving, Writers, PackServed
<1> QED
  BY <1>3, <1>6, FramedStep

LEMMA ResolveReadStep == ASSUME Inv, NEW r \in Requests, ResolveRead(r) PROVE Inv'
<1> DEFINE tools == IF Sees(req[r].conn, req[r].tenant) THEN PackTools[req[r].tenant]
                    ELSE GenericTools
<1>1. req[r] \in RequestState /\ req[r].pc = "resolve_read"
      /\ Resolved(r, tools) /\ GiveBack(req[r].conn) /\ UNCHANGED config
  BY DEF Inv, TypeOK, ResolveRead
<1>2. tools \in SUBSET Tools
  BY <1>1, PacksAssumption DEF RequestState
<1>3. tools = GenericTools \/ (AppBypassesRls /\ tools = PackTools[req[r].tenant])
  <2>1. context[req[r].conn] # req[r].tenant
    BY <1>1 DEF Inv, Held, Resolving, RequestState
  <2> QED
    BY <2>1 DEF Sees
<1> QED
  BY <1>1, <1>2, <1>3, ResolvedStep DEF Resolving

LEMMA ResolveFailsStep == ASSUME Inv, NEW r \in Requests, ResolveFails(r) PROVE Inv'
BY ResolvedStep, PacksAssumption DEF ResolveFails, Resolving

LEMMA QueryStep == ASSUME Inv, NEW r \in Requests, Query(r) PROVE Inv'
<1>1. /\ req[r] \in RequestState /\ req[r].pc = "query" /\ UNCHANGED <<contextVars, config>>
      /\ Held(r) /\ Answering(r) /\ config[req[r].tenant] \in [Tools -> RowStates]
  BY DEF Inv, TypeOK, Query, RequestState
<1>2. CASE req[r].kind \notin Writers
            /\ Become(r, [req[r] EXCEPT !.pc = "commit", !.rows = config[req[r].tenant]])
  <2> DEFINE z == [req[r] EXCEPT !.pc = "commit", !.rows = config[req[r].tenant]]
  <2>1. /\ z \in RequestState /\ z.pc = "commit" /\ z.kind = req[r].kind
        /\ z.tenant = req[r].tenant /\ z.conn = req[r].conn /\ z.offered = req[r].offered
        /\ z.degraded = req[r].degraded /\ z.could = req[r].could
        /\ z.whitelist = req[r].whitelist
        /\ z.rows = config[req[r].tenant]
    BY <1>1 DEF RequestState
  <2> HIDE DEF z
  <2>2. TypeOK' /\ req'[r] = z /\ Framed(r)
    BY <1>1, <1>2, <2>1, Quiet DEF z
  <2>3. Held(r)'
    BY <1>1, <2>1, <2>2 DEF Held, Holding, Resolving, contextVars
  <2>4. Answering(r)'
    BY <1>1, <1>2, <2>1, <2>2 DEF Answering, AnswerIsTrue, Over, Resolving, Writers, PackServed
  <2> QED
    BY <2>2, <2>3, <2>4, FramedStep
<1>3. CASE req[r].kind \in Writers /\ Goto(r, "commit")
  <2> DEFINE z == [req[r] EXCEPT !.pc = "commit"]
  <2>1. /\ z \in RequestState /\ z.pc = "commit" /\ z.kind = req[r].kind
        /\ z.tenant = req[r].tenant /\ z.conn = req[r].conn /\ z.offered = req[r].offered
        /\ z.degraded = req[r].degraded
    BY <1>1 DEF RequestState
  <2> HIDE DEF z
  <2>2. TypeOK' /\ req'[r] = z /\ Framed(r)
    BY <1>1, <1>3, <2>1, Quiet DEF z, Goto
  <2>3. Held(r)'
    BY <1>1, <2>1, <2>2 DEF Held, Holding, Resolving, contextVars
  <2>4. Answering(r)'
    BY <1>1, <1>3, <2>1, <2>2 DEF Answering, AnswerIsTrue, Over, Resolving, Writers, PackServed
  <2> QED
    BY <2>2, <2>3, <2>4, FramedStep
<1> QED
  BY <1>2, <1>3 DEF Query

-----------------------------------------------------------------------------
LEMMA OfferType == ASSUME NEW s \in RequestState PROVE Offer(s) \in SUBSET Tools
<1>1. \A x : Having(s.rows, x) \in SUBSET Tools
  BY DEF Having
<1> QED
  BY <1>1 DEF Offer

(* What a request ends as when it makes its answer of the rows.            *)
LEMMA Answered ==
    ASSUME Inv, NEW r \in Requests, NEW s \in RequestState, Answer(r, s)
    PROVE  \E z \in RequestState :
               /\ Become(r, z) /\ z.conn = NoConnection
               /\ z.pc = IF Raises(s) THEN "failed" ELSE "answered"
               /\ z.offered = IF Raises(s) THEN s.offered ELSE Offer(s)
               /\ z.kind = s.kind /\ z.tenant = s.tenant /\ z.whitelist = s.whitelist
               /\ z.degraded = s.degraded /\ z.could = s.could
<1>1. CASE Raises(s)
  <2> DEFINE y == [s EXCEPT !.pc = "failed"]
             z == [y EXCEPT !.conn = NoConnection]
  <2>1. Become(r, z)
    BY <1>1 DEF Answer, Finish
  <2>2. /\ z \in RequestState /\ z.conn = NoConnection /\ z.pc = "failed" /\ z.offered = s.offered
        /\ z.kind = s.kind /\ z.tenant = s.tenant /\ z.whitelist = s.whitelist
        /\ z.degraded = s.degraded /\ z.could = s.could
    BY DEF RequestState, Over
  <2> HIDE DEF z
  <2> QED
    BY <1>1, <2>1, <2>2
<1>2. CASE ~Raises(s)
  <2> DEFINE o == Offer(s)
             y == [s EXCEPT !.pc = "answered", !.offered = o]
             z == [y EXCEPT !.conn = NoConnection]
  <2>1. Become(r, z)
    BY <1>2 DEF Answer, Finish
  <2>2. o \in SUBSET Tools
    BY OfferType
  <2> HIDE DEF o
  <2>3. /\ z \in RequestState /\ z.conn = NoConnection /\ z.pc = "answered" /\ z.offered = o
        /\ z.kind = s.kind /\ z.tenant = s.tenant /\ z.whitelist = s.whitelist
        /\ z.degraded = s.degraded /\ z.could = s.could
    BY <2>2 DEF RequestState, Over
  <2> HIDE DEF z
  <2> QED
    BY <1>2, <2>1, <2>3 DEF o
<1> QED
  BY <1>1, <1>2

LEMMA ReaderCommits ==
    ASSUME Inv, NEW r \in Requests, req[r].pc = "commit", req[r].kind \notin Writers,
           Answer(r, req[r]), UNCHANGED config, GiveBack(req[r].conn)
    PROVE  Inv'
<1> DEFINE s == req[r]
<1>1. s \in RequestState /\ Held(r) /\ Answering(r)
  BY DEF Inv, TypeOK
<1>2. PICK z \in RequestState :
          /\ Become(r, z) /\ z.conn = NoConnection
          /\ z.pc = IF Raises(s) THEN "failed" ELSE "answered"
          /\ z.offered = IF Raises(s) THEN s.offered ELSE Offer(s)
          /\ z.kind = s.kind /\ z.tenant = s.tenant /\ z.whitelist = s.whitelist
          /\ z.degraded = s.degraded /\ z.could = s.could
  BY <1>1, Answered
<1>3. TypeOK' /\ req'[r] = z /\ Framed(r) /\ Held(r)'
  BY <1>2, LeftAlone DEF Holding, Resolving
<1>4. s.rows \in s.could /\ s.kind \in {"tool_list", "mcp_spec", "chat"}
  BY <1>1 DEF Answering, RequestState, Kinds
<1>5. s.kind = "mcp_spec" => ~Raises(s)
  BY DEF Raises
<1>6. Offer(s) = IF s.kind = "chat" THEN s.whitelist \cap Having(s.rows, "none")
                 ELSE Having(s.rows, "on")
  BY <1>4 DEF Offer
<1>7. AnswerIsTrue(z)
  BY <1>2, <1>4, <1>5, <1>6 DEF AnswerIsTrue
<1>8. z.kind = "chat" => PackServed(z)
  BY <1>1, <1>2 DEF Answering, Resolving, PackServed
<1>9. Answering(r)'
  BY <1>2, <1>3, <1>7, <1>8 DEF Answering, Over
<1> QED
  BY <1>3, <1>9, FramedStep

(* A write: whoever reads the tenant's rows at the time could see it.      *)
LEMMA WriterEnds ==
    ASSUME Inv, NEW r \in Requests, req[r].pc = "commit", req[r].kind \in Writers, Write(r),
           NEW end \in {"answered", "failed"},
           req' = Notice([req EXCEPT ![r].pc = end, ![r].conn = NoConnection]),
           GiveBack(req[r].conn) \/ Replace(req[r].conn)
    PROVE  Inv'
<1> DEFINE mid == [req EXCEPT ![r].pc = end, ![r].conn = NoConnection]
           z == [req[r] EXCEPT !.pc = end, !.conn = NoConnection]
<1>1. req \in [Requests -> RequestState] /\ Held(r) /\ Answering(r)
  BY DEF Inv, TypeOK
<1>2. config' \in [Tenants -> [Tools -> RowStates]]
  <2> DEFINE t == req[r].tenant
             x == [enable |-> "on", disable |-> "off", delete |-> "none"][req[r].kind]
  <2>1. t \in Tenants /\ req[r].tool \in Tools
    BY <1>1 DEF RequestState
  <2>2. x \in RowStates
    BY DEF RowStates, Writers
  <2> HIDE DEF x
  <2>3. config \in [Tenants -> [Tools -> RowStates]] /\ config' = [config EXCEPT ![t][req[r].tool] = x]
    BY DEF Inv, TypeOK, Write, x
  <2> QED
    BY <2>1, <2>2, <2>3
<1>3. /\ z \in RequestState /\ z.pc = end /\ z.conn = NoConnection /\ z.kind = req[r].kind
      /\ z.tenant = req[r].tenant
  BY <1>1 DEF RequestState, Over
<1>4. mid = [req EXCEPT ![r] = z]
  BY <1>1 DEF RequestState
<1>5. mid[r] = z /\ \A q \in Requests : q # r => mid[q] = req[q]
  BY <1>1, <1>4
<1> HIDE DEF mid, z
<1>6. req' = [q \in Requests |->
                IF mid[q].pc \notin Over \cup {"new"} /\ mid[q].kind \notin Writers
                THEN [mid[q] EXCEPT !.could = mid[q].could \cup {config'[mid[q].tenant]}]
                ELSE mid[q]]
  BY DEF Notice, mid
<1>7. req'[r] = z
  BY <1>3, <1>5, <1>6
<1>8. ASSUME NEW q \in Requests, q # r PROVE Same(q) /\ req'[q] \in RequestState
  <2>1. mid[q] = req[q] /\ req[q] \in RequestState
    BY <1>1, <1>5, <1>8
  <2>2. config'[req[q].tenant] \in [Tools -> RowStates]
    BY <1>2, <2>1 DEF RequestState
  <2>3. CASE req[q].pc \notin Over \cup {"new"} /\ req[q].kind \notin Writers
    <3> DEFINE c == req[q].could \cup {config'[req[q].tenant]}
    <3>1. req'[q] = [req[q] EXCEPT !.could = c]
      BY <1>6, <2>1, <2>3
    <3>2. c \in SUBSET [Tools -> RowStates]
      BY <2>1, <2>2 DEF RequestState
    <3> HIDE DEF c
    <3> DEFINE y == [req[q] EXCEPT !.could = c]
    <3>3. /\ y \in RequestState /\ y.could = c
          /\ y.pc = req[q].pc /\ y.conn = req[q].conn /\ y.kind = req[q].kind
          /\ y.tenant = req[q].tenant /\ y.rows = req[q].rows /\ y.offered = req[q].offered
          /\ y.whitelist = req[q].whitelist /\ y.degraded = req[q].degraded
      BY <2>1, <3>2 DEF RequestState
    <3> HIDE DEF y
    <3>4. req'[q] = y
      BY <3>1 DEF y
    <3> QED
      BY <3>3, <3>4 DEF Same, c
  <2>4. CASE ~(req[q].pc \notin Over \cup {"new"} /\ req[q].kind \notin Writers)
    BY <1>6, <2>1, <2>4 DEF Same
  <2> QED
    BY <2>3, <2>4
<1>9. req' \in [Requests -> RequestState]
  BY <1>3, <1>6, <1>7, <1>8
<1>10. TypeOK' /\ Framed(r) /\ Held(r)'
  BY <1>2, <1>3, <1>7, <1>8, <1>9, Left DEF Holding, Resolving
<1>11. Answering(r)'
  BY <1>3, <1>7 DEF Answering, AnswerIsTrue, Over, Resolving, Writers, PackServed
<1> QED
  BY <1>10, <1>11, FramedStep

LEMMA AbortStep == ASSUME Inv, NEW r \in Requests, Abort(r) PROVE Inv'
<1> DEFINE s == [req[r] EXCEPT !.degraded = ~Refused(r)]
<1>1. /\ req[r] \in RequestState /\ Held(r) /\ req[r].pc \in {"set", "query", "commit"}
      /\ UNCHANGED config /\ Except(r, s)
      /\ GiveBack(req[r].conn) \/ Replace(req[r].conn)
  BY DEF Inv, TypeOK, Abort
<1>2. Refused(r) => req[r].kind = "delete"
  BY <1>1 DEF Held, Refused, Permitted, Sees
<1>3. PICK d \in BOOLEAN : d = ~Refused(r)
  OBVIOUS
<1>4. /\ s \in RequestState /\ s.kind = req[r].kind /\ (s.degraded \/ s.kind = "delete")
      /\ s.whitelist = req[r].whitelist /\ s.tenant = req[r].tenant
  <2>1. s = [req[r] EXCEPT !.degraded = d]
    BY <1>3
  <2>2. d \/ req[r].kind = "delete"
    BY <1>2, <1>3
  <2> HIDE DEF s
  <2> QED
    BY <1>1, <2>1, <2>2 DEF RequestState
<1> HIDE DEF s
<1>5. \E z \in RequestState :
          /\ Become(r, z) /\ z.conn = NoConnection /\ z.pc \in {"answered", "failed"}
          /\ z.kind = s.kind /\ z.degraded = s.degraded
          /\ z.whitelist = s.whitelist /\ z.tenant = s.tenant
  <2>1. CASE s.kind = "chat"
    <3> DEFINE y == [s EXCEPT !.rows = NoRows]
    <3>1. NoRows \in [Tools -> RowStates]
      BY DEF NoRows, RowStates
    <3>2. /\ y \in RequestState /\ y.kind = s.kind /\ y.degraded = s.degraded
          /\ y.whitelist = s.whitelist /\ y.tenant = s.tenant
      BY <1>4, <3>1 DEF RequestState
    <3>3. Answer(r, y)
      BY <1>1, <2>1 DEF Except
    <3> HIDE DEF y
    <3> QED
      BY <3>2, <3>3, Answered
  <2>2. CASE s.kind # "chat"
    <3> DEFINE y == [s EXCEPT !.pc = "failed"]
               z == [y EXCEPT !.conn = NoConnection]
    <3>1. Become(r, z)
      BY <1>1, <2>2 DEF Except, Finish
    <3>2. /\ z \in RequestState /\ z.conn = NoConnection /\ z.pc = "failed"
          /\ z.kind = s.kind /\ z.degraded = s.degraded
          /\ z.whitelist = s.whitelist /\ z.tenant = s.tenant
      BY <1>4 DEF RequestState, Over
    <3> HIDE DEF z
    <3> QED
      BY <3>1, <3>2
  <2> QED
    BY <2>1, <2>2
<1>6. PICK z \in RequestState :
          /\ Become(r, z) /\ z.conn = NoConnection /\ z.pc \in {"answered", "failed"}
          /\ z.kind = req[r].kind /\ (z.degraded \/ z.kind = "delete")
          /\ z.whitelist = req[r].whitelist /\ z.tenant = req[r].tenant
  BY <1>4, <1>5
<1>7. TypeOK' /\ req'[r] = z /\ Framed(r) /\ Held(r)'
  BY <1>1, <1>6, LeftAlone DEF Holding, Resolving
<1>8. Answering(r)'
  <2>1. Answering(r)
    BY DEF Inv
  <2>2. z.kind = "chat" => PackServed(z)
    BY <1>1, <1>6, <2>1 DEF Answering, Resolving, PackServed
  <2>3. AnswerIsTrue(z)
    BY <1>6 DEF AnswerIsTrue, Writers
  <2> QED
    BY <1>6, <1>7, <2>2, <2>3 DEF Answering, Over
<1> QED
  BY <1>7, <1>8, FramedStep

-----------------------------------------------------------------------------
LEMMA InitInv == Init => Inv
<1> SUFFICES ASSUME Init PROVE Inv
  OBVIOUS
<1> DEFINE first == [pc |-> "new", kind |-> "chat", tenant |-> CHOOSE t \in Tenants : TRUE,
                     tool |-> SomeTool, conn |-> NoConnection, whitelist |-> {}, rows |-> NoRows,
                     offered |-> {}, degraded |-> FALSE, could |-> {}]
<1>1. SomeTool \in Tools /\ (CHOOSE t \in Tenants : TRUE) \in Tenants
  BY SomethingAssumption DEF SomeTool
<1>2. NoRows \in [Tools -> RowStates]
  BY DEF NoRows, RowStates
<1>3. first \in RequestState
  BY <1>1, <1>2 DEF RequestState, Kinds
<1>4. req = [r \in Requests |-> first]
  BY DEF Init
<1>5. TypeOK
  BY <1>3, <1>4, OpeningConfigAssumption DEF TypeOK, Init, ContextInit, ContextTypeOK, RowStates
<1>6. ASSUME NEW r \in Requests PROVE Held(r) /\ Answering(r)
  BY <1>4, NoConnectionAssumption
  DEF Held, Answering, AnswerIsTrue, Holding, Resolving, Over
<1>7. Exclusive
  BY <1>4, NoConnectionAssumption DEF Exclusive
<1>8. PoolOK
  BY MarkersAssumption DEF PoolOK, Init, ContextInit
<1> QED
  BY <1>5, <1>6, <1>7, <1>8 DEF Inv

LEMMA NextInv == Inv /\ [Next]_vars => Inv'
<1> SUFFICES ASSUME Inv, [Next]_vars PROVE Inv'
  OBVIOUS
<1>1. ASSUME NEW r \in Requests, Commit(r) PROVE Inv'
  BY <1>1, ReaderCommits, WriterEnds DEF Commit
<1>2. ASSUME NEW r \in Requests, CommitLost(r) PROVE Inv'
  BY <1>2, WriterEnds DEF CommitLost
<1>3. ASSUME NEW r \in Requests, Arrive(r) \/ Proceed(r) \/ Wait(r) \/ ResolveFails(r) \/ Abort(r)
      PROVE  Inv'
  BY <1>1, <1>3, ArriveStep, ResolveTakeStep, ResolveSetStep, ResolveReadStep, ResolveFailsStep,
     EnterStep, SetTenantStep, QueryStep, AbortStep DEF Proceed, Wait
<1>4. CASE UNCHANGED vars
  <2>1. UNCHANGED <<context, open, lent, config, req>>
    BY <1>4 DEF vars, contextVars
  <2>2. TypeOK' /\ Exclusive' /\ PoolOK'
    BY <2>1 DEF Inv, TypeOK, ContextTypeOK, Exclusive, PoolOK
  <2>3. ASSUME NEW r \in Requests PROVE Held(r)' /\ Answering(r)'
    BY <2>1 DEF Inv, Held, Answering, AnswerIsTrue
  <2> QED
    BY <2>2, <2>3 DEF Inv
<1> QED
  BY <1>2, <1>3, <1>4 DEF Next

(* The variables of the pool, the rows and the requests keep their types.  *)
THEOREM TypeCorrect == Spec => []TypeOK
<1>1. Inv => TypeOK
  BY DEF Inv
<1> QED
  BY <1>1, InitInv, NextInv, PTL DEF Spec

(* acquire_with_tenant, the admin endpoints and ToolConfigService leave no *)
(* tenant on a connection that they give back, and none sees another's.    *)
THEOREM ContextBelongs == Spec => []ContextIsOwn
<1>1. Inv => ContextIsOwn
  <2> SUFFICES ASSUME Inv, NEW n \in Connections, context[n] \in Tenants
               PROVE  n \in open /\ \E r \in Requests : req[r].conn = n /\ req[r].tenant = context[n]
    BY DEF ContextIsOwn
  <2>1. PICK r \in Requests : req[r].conn = n
    BY DEF Inv, PoolOK
  <2>2. Held(r)
    BY DEF Inv
  <2> QED
    BY <2>1, <2>2 DEF Held, Holding, Resolving
<1> QED
  BY <1>1, InitInv, NextInv, PTL DEF Spec

(* A reader of tenant_tool_configs that the database did not fail answers  *)
(* from one state that the tenant's rows had while it ran, a chat turn for *)
(* the pack it was served: under the policies always generic@1.0.0.        *)
THEOREM AnswersTrue == Spec => []AnswersAreTrue
<1>1. Inv => AnswersAreTrue
  BY DEF Inv, Answering, AnswerIsTrue, AnswersAreTrue, Over, Resolving
<1> QED
  BY <1>1, InitInv, NextInv, PTL DEF Spec

-----------------------------------------------------------------------------
(* A request that needs neither a connection from the pool nor a row that  *)
(* another writes: it has its connection, or there is one to have.         *)
GoesOn(r) ==
    \/ req[r].pc \in Holding \ {"query"}
    \/ Refused(r)
    \/ /\ req[r].pc = "query" /\ Permitted(r)
       /\ req[r].kind \in Writers => RowIsFree(r)
    \/ req[r].pc \in {"resolve", "enter"} /\ lent # Connections

SomeoneGoesOn ==
    (\E r \in Requests : req[r].pc \notin Over \cup {"new"}) => \E r \in Requests : GoesOn(r)

(* Whoever has a connection can go on, or waits for one that can.          *)
LEMMA HolderGoesOn ==
    ASSUME Inv, NEW r \in Requests, req[r].pc \in Holding
    PROVE  \E q \in Requests : GoesOn(q)
<1>1. CASE req[r].pc # "query" \/ (req[r].kind \in Writers => RowIsFree(r))
  BY <1>1 DEF GoesOn, Refused
<1>2. CASE req[r].pc = "query" /\ ~RowIsFree(r)
  <2>1. PICK q \in Requests : req[q].pc = "commit"
    BY <1>2 DEF RowIsFree
  <2> QED
    BY <2>1 DEF GoesOn, Holding
<1> QED
  BY <1>1, <1>2

(* Requests wait for the pool and, in a transaction, for each other's rows; *)
(* but nobody who holds a connection waits for another, so a pool of one   *)
(* is enough for some request to go on.                                    *)
THEOREM OneConnectionSuffices ==
    ASSUME Connections # {}
    PROVE  Spec => []SomeoneGoesOn
<1>1. Inv => SomeoneGoesOn
  <2> SUFFICES ASSUME Inv, NEW r \in Requests, req[r].pc \notin Over \cup {"new"}
               PROVE  \E q \in Requests : GoesOn(q)
    BY DEF SomeoneGoesOn
  <2>1. req[r].pc \in {"resolve", "enter"} \cup Holding
    BY DEF Inv, TypeOK, RequestState, Holding, Resolving
  <2>2. CASE lent = Connections
    <3>1. PICK n \in Connections, q \in Requests : req[q].conn = n
      BY <2>2 DEF Inv, PoolOK
    <3>2. req[q].pc \in Holding
      BY <3>1 DEF Inv, Held
    <3> QED
      BY <3>2, HolderGoesOn
  <2>3. CASE lent # Connections
    BY <2>1, <2>3, HolderGoesOn DEF GoesOn
  <2> QED
    BY <2>2, <2>3
<1> QED
  BY <1>1, InitInv, NextInv, PTL DEF Spec
=============================================================================
