----------------------------- MODULE ToolConfig -----------------------------
(***************************************************************************)
(* The tools a tenant has: tenant_tool_configs, written by the admin       *)
(* endpoints (src/api/admin_tools.py), read by their MCP export and, at    *)
(* each chat turn, by ToolConfigService (src/services/tool_config.py) for  *)
(* the tools of the pack that resolve_for_tenant (src/packs/resolver.py)   *)
(* finds.  Every use of the database takes a connection of its own and     *)
(* can fail or be cancelled at each await.                                 *)
(***************************************************************************)
EXTENDS TenantContext

CONSTANTS
    Tools,            \* registered, and active in tool_definitions
    PackTools,        \* [Tenants -> tools of the pack assigned to it]
    GenericTools,     \* tools of generic@1.0.0
    OpeningConfig,    \* [Tenants -> [Tools -> row states]], at the start
    Requests,
    NoConnection

ASSUME PacksAssumption ==
    /\ PackTools \in [Tenants -> SUBSET Tools]
    /\ GenericTools \subseteq Tools
ASSUME SomethingAssumption == Tenants # {} /\ Tools # {}
ASSUME NoConnectionAssumption == NoConnection \notin Connections
ASSUME OpeningConfigAssumption == OpeningConfig \in [Tenants -> [Tools -> {"none", "on", "off"}]]

(* What tenant_tool_configs has of a tool: no row, or is_enabled.          *)
RowStates == {"none", "on", "off"}
NoRows == [tool \in Tools |-> "none"]

VARIABLES
    config,     \* [Tenants -> [Tools -> RowStates]], committed
    req         \* [Requests -> the request's local state]

vars == <<contextVars, config, req>>

Writers == {"enable", "disable", "delete"}
Kinds == Writers \cup {"tool_list", "mcp_spec", "chat"}
Over == {"answered", "failed"}

(* could is history: what the tenant's rows have been since the request    *)
(* arrived; degraded: the database failed it.                             *)
RequestState ==
    [pc : {"new", "resolve", "resolve_set", "resolve_read", "enter", "set", "query", "commit"}
          \cup Over,
     kind : Kinds, tenant : Tenants, tool : Tools, conn : Connections \cup {NoConnection},
     whitelist : SUBSET Tools, rows : [Tools -> RowStates], offered : SUBSET Tools,
     degraded : BOOLEAN, could : SUBSET [Tools -> RowStates]]

TypeOK ==
    /\ ContextTypeOK
    /\ config \in [Tenants -> [Tools -> RowStates]]
    /\ req \in [Requests -> RequestState]

SomeTool == CHOOSE tool \in Tools : TRUE

Init ==
    /\ ContextInit
    /\ config = OpeningConfig
    /\ req = [r \in Requests |->
                 [pc |-> "new", kind |-> "chat", tenant |-> CHOOSE t \in Tenants : TRUE,
                  tool |-> SomeTool, conn |-> NoConnection, whitelist |-> {}, rows |-> NoRows,
                  offered |-> {}, degraded |-> FALSE, could |-> {}]]

Become(r, state) == req' = [req EXCEPT ![r] = state]
Goto(r, l) == Become(r, [req[r] EXCEPT !.pc = l])

Arrive(r) ==
    /\ req[r].pc = "new"
    /\ \E k \in Kinds, t \in Tenants, tool \in Tools :
           /\ k \in Writers \/ tool = SomeTool
           /\ Become(r, [req[r] EXCEPT !.pc = IF k = "chat" THEN "resolve" ELSE "enter",
                             !.kind = k, !.tenant = t, !.tool = tool,
                             !.could = IF k \in Writers THEN {} ELSE {config[t]}])
    /\ UNCHANGED <<contextVars, config>>

-----------------------------------------------------------------------------
(* resolve_for_tenant: the setting is gone when the assignment is read.    *)
ResolveTake(r) ==
    /\ req[r].pc = "resolve"
    /\ \E n \in Connections :
           Take(n) /\ Become(r, [req[r] EXCEPT !.pc = "resolve_set", !.conn = n])
    /\ UNCHANGED <<context, open, config>>

ResolveSet(r) ==
    /\ req[r].pc = "resolve_set"
    /\ SetConfig(req[r].conn, req[r].tenant)
    /\ Goto(r, "resolve_read")
    /\ UNCHANGED config

(* get_tools_for_tenant asks the database only if there are tools.         *)
Resolved(r, tools) ==
    Become(r, [req[r] EXCEPT !.pc = IF tools = {} THEN "answered" ELSE "enter",
                             !.conn = NoConnection, !.whitelist = tools])

(* Mutation: the tools are read inside resolve_for_tenant's "async with".  *)
ResolveReadNested(r) ==
    LET n == req[r].conn IN
    /\ req[r].pc = "resolve_read"
    /\ Resolved(r, IF Sees(n, req[r].tenant) THEN PackTools[req[r].tenant] ELSE GenericTools)
    /\ UNCHANGED <<contextVars, config>>

ResolveRead(r) ==
    LET n == req[r].conn IN
    /\ req[r].pc = "resolve_read"
    /\ Resolved(r, IF Sees(n, req[r].tenant) THEN PackTools[req[r].tenant] ELSE GenericTools)
    /\ GiveBack(n)
    /\ UNCHANGED config

(* Every exception of the two statements means generic@1.0.0.              *)
ResolveFails(r) ==
    LET n == req[r].conn IN
    /\ req[r].pc \in {"resolve_set", "resolve_read"}
    /\ Resolved(r, GenericTools)
    /\ GiveBack(n) \/ Replace(n)
    /\ UNCHANGED config

-----------------------------------------------------------------------------
(* Mutation: the statements commit one by one, as in resolve_for_tenant.   *)
EnterWithoutTransaction(r) ==
    /\ req[r].pc = "enter"
    /\ \E n \in Connections :
           Take(n) /\ Become(r, [req[r] EXCEPT !.pc = "set", !.conn = n])
    /\ UNCHANGED <<context, open, config>>

(* pool.acquire() and conn.transaction().                                  *)
Enter(r) ==
    /\ req[r].pc = "enter"
    /\ \E n \in Connections :
           /\ Take(n) /\ open' = open \cup {n}
           /\ Become(r, [req[r] EXCEPT !.pc = "set", !.conn = n])
    /\ UNCHANGED <<context, config>>

SetTenant(r) ==
    /\ req[r].pc = "set"
    /\ SetConfig(req[r].conn, req[r].tenant)
    /\ Goto(r, "query")
    /\ UNCHANGED config

Finish(r, state) == Become(r, [state EXCEPT !.conn = NoConnection])

Having(rows, x) == {tool \in Tools : rows[tool] = x}

(* The reader trips over its rows.  A row's config is JSONB, which asyncpg *)
(* hands over as a string, and no tool is configured with a string; the    *)
(* tool list parses it, and trips over the {} of a tool without a row.     *)
Raises(state) ==
    \/ state.kind = "chat" /\ state.whitelist \cap Having(state.rows, "on") # {}
    \/ state.kind = "tool_list" /\ Having(state.rows, "none") # {}

Offer(state) ==
    CASE state.kind = "chat" -> state.whitelist \cap Having(state.rows, "none")
      [] state.kind \in {"mcp_spec", "tool_list"} -> Having(state.rows, "on")
      [] OTHER -> {}

(* What the request makes of the rows.                                     *)
Answer(r, state) ==
    Finish(r, IF Raises(state) THEN [state EXCEPT !.pc = "failed"]
              ELSE [state EXCEPT !.pc = "answered", !.offered = Offer(state)])

(* An exception: a chat turn goes on as if there were no rows.             *)
Except(r, state) ==
    IF state.kind = "chat" THEN Answer(r, [state EXCEPT !.rows = NoRows])
    ELSE Finish(r, [state EXCEPT !.pc = "failed"])

(* A row, or the key of one to be inserted, waits for whoever writes it.   *)
RowIsFree(r) ==
    \A q \in Requests : ~ /\ req[q].pc = "commit" /\ req[q].kind \in Writers
                          /\ req[q].tenant = req[r].tenant /\ req[q].tool = req[r].tool

(* The policy shows the tenant's rows, and the role may do it: migration   *)
(* 006 grants ai_app, the role under the policies, no DELETE.              *)
Permitted(r) ==
    /\ Sees(req[r].conn, req[r].tenant)
    /\ req[r].kind = "delete" => AppBypassesRls

Query(r) ==
    /\ req[r].pc = "query" /\ Permitted(r)
    /\ \/ /\ req[r].kind \notin Writers
          /\ Become(r, [req[r] EXCEPT !.pc = "commit", !.rows = config[req[r].tenant]])
       \/ req[r].kind \in Writers /\ RowIsFree(r) /\ Goto(r, "commit")
    /\ UNCHANGED <<contextVars, config>>

(* Mutation: a tool is disabled by a NULL in is_enabled.                   *)
WriteNull(r) ==
    LET t == req[r].tenant
        state == [enable |-> "on", disable |-> "null", delete |-> "none"][req[r].kind]
    IN config' = [config EXCEPT ![t][req[r].tool] = state]

Write(r) ==
    LET t == req[r].tenant
        state == [enable |-> "on", disable |-> "off", delete |-> "none"][req[r].kind]
    IN config' = [config EXCEPT ![t][req[r].tool] = state]

(* What the commit changes, the readers of the tenant could see.           *)
Notice(states) ==
    [q \in Requests |->
        IF states[q].pc \notin Over \cup {"new"} /\ states[q].kind \notin Writers
        THEN [states[q] EXCEPT !.could = @ \cup {config'[states[q].tenant]}]
        ELSE states[q]]

Commit(r) ==
    /\ req[r].pc = "commit"
    /\ IF req[r].kind \in Writers
       THEN /\ Write(r)
            /\ req' = Notice([req EXCEPT ![r].pc = "answered", ![r].conn = NoConnection])
       ELSE Answer(r, req[r]) /\ UNCHANGED config
    /\ GiveBack(req[r].conn)

(* The commit stands, but its answer is lost.                              *)
CommitLost(r) ==
    /\ req[r].pc = "commit" /\ req[r].kind \in Writers
    /\ Write(r)
    /\ req' = Notice([req EXCEPT ![r].pc = "failed", ![r].conn = NoConnection])
    /\ Replace(req[r].conn)

(* The policy raises where no tenant is set, or a privilege is missing.    *)
Refused(r) == req[r].pc = "query" /\ ~Permitted(r)

(* Mutation: the connection is given back without leaving "async with".    *)
AbortUnreleased(r) ==
    /\ req[r].pc \in {"set", "query", "commit"}
    /\ Except(r, [req[r] EXCEPT !.degraded = ~Refused(r)])
    /\ UNCHANGED <<contextVars, config>>

(* A statement fails, is refused or times out, or the connection breaks.   *)
Abort(r) ==
    LET n == req[r].conn IN
    /\ req[r].pc \in {"set", "query", "commit"}
    /\ Except(r, [req[r] EXCEPT !.degraded = ~Refused(r)])
    /\ GiveBack(n) \/ Replace(n)
    /\ UNCHANGED config

Proceed(r) ==
    ResolveSet(r) \/ ResolveRead(r) \/ SetTenant(r) \/ Commit(r)

(* Steps that wait for others: for a connection, for a row.                *)
Wait(r) == ResolveTake(r) \/ Enter(r) \/ Query(r)

Next ==
    \E r \in Requests :
        \/ Arrive(r) \/ Proceed(r) \/ Wait(r)
        \/ ResolveFails(r) \/ CommitLost(r) \/ Abort(r)

(* Coroutines run on, PostgreSQL answers a statement that it refuses, and  *)
(* the pool and the row locks serve in turn.                               *)
Fairness ==
    \A r \in Requests :
        /\ WF_vars(Proceed(r)) /\ WF_vars(Refused(r) /\ Abort(r))
        /\ SF_vars(Wait(r))

Spec == Init /\ [][Next]_vars
FairSpec == Spec /\ Fairness

-----------------------------------------------------------------------------
(* A connection works for the tenant of the request that holds it and for  *)
(* no other, and idle ones for none: whatever fails or is cancelled, no    *)
(* context outlives its transaction.                                       *)
ContextIsOwn ==
    \A n \in Connections : context[n] \in Tenants =>
        /\ n \in open
        /\ \E r \in Requests : req[r].conn = n /\ req[r].tenant = context[n]

(* What resolve_for_tenant may come to.  Its setting is over before its     *)
(* SELECT, so a role under the policies never sees the pack assigned to the *)
(* tenant and has generic@1.0.0 instead; a failure ends there as well.      *)
PackServed(state) ==
    \/ state.whitelist = GenericTools
    \/ AppBypassesRls /\ state.whitelist = PackTools[state.tenant]

(* A reader that the database did not fail answers from one state that the *)
(* tenant's rows had while it ran.  The export lists those enabled.  A chat *)
(* turn offers the tools without a row of the pack it was served, which is *)
(* the assigned one only where the role is exempt from the policies: that  *)
(* is what the code does, and not what assigning a pack is meant to do.    *)
AnswersAreTrue ==
    \A r \in Requests : req[r].pc \in Over /\ ~req[r].degraded /\ req[r].kind \notin Writers =>
        /\ req[r].kind = "mcp_spec" => req[r].pc = "answered"
        /\ req[r].kind = "chat" => PackServed(req[r])
        /\ req[r].pc = "answered" => \E c \in req[r].could :
               req[r].offered = IF req[r].kind = "chat" THEN req[r].whitelist \cap Having(c, "none")
                                ELSE Having(c, "on")

(* No request waits for ever, for a connection or for a row.               *)
EveryRequestEnds ==
    <>[](\A r \in Requests : req[r].pc \in Over \cup {"new"})

(* HOW_TO_BUILD_TOOL_PLUGIN.md:70: an enabled tool is configured and       *)
(* offered.                                                                *)
EnabledToolIsOffered ==
    \A r \in Requests : req[r].kind = "chat" /\ req[r].pc = "failed" => req[r].degraded
=============================================================================
