--------------------------- MODULE TenantContext ---------------------------
(***************************************************************************)
(* The tenant a connection of the pool works for: app.current_tenant, set  *)
(* by set_config(..., true), by which the row-level security policies of   *)
(* the migrations select rows.  acquire_with_tenant (src/db/session.py)    *)
(* and its copies set it in a transaction, resolve_for_tenant and the      *)
(* tenant's wallet pages set it outside one.                               *)
(***************************************************************************)
EXTENDS FiniteSets

CONSTANTS
    Tenants,
    Connections,      \* of the pool
    Unset,            \* the setting of a connection that never had one
    Blank,            \* '', what is left when a transaction that set it ends
    AppBypassesRls    \* the database role is exempt from row-level security

ASSUME MarkersAssumption == Unset # Blank /\ {Unset, Blank} \cap Tenants = {}
ASSUME RoleAssumption == AppBypassesRls \in BOOLEAN

VARIABLES
    context,    \* [Connections -> app.current_tenant]
    open,       \* the connections in a transaction block
    lent        \* the connections that the pool has given out

contextVars == <<context, open, lent>>

ContextTypeOK ==
    /\ context \in [Connections -> Tenants \cup {Unset, Blank}]
    /\ open \subseteq Connections
    /\ lent \subseteq Connections

ContextInit ==
    /\ context = [n \in Connections |-> Unset]
    /\ open = {}
    /\ lent = {}

Ended(n) == IF context[n] = Unset THEN Unset ELSE Blank

Take(n) == n \notin lent /\ lent' = lent \cup {n}

(* set_config with is_local: until the end of the transaction, which       *)
(* outside a transaction block is that of the statement.                   *)
SetConfig(n, t) ==
    /\ context' = [context EXCEPT ![n] = IF n \in open THEN t ELSE Blank]
    /\ UNCHANGED <<open, lent>>

(* Leaving "async with", by whatever way: the transaction ends and the     *)
(* pool resets the session.                                                *)
GiveBack(n) ==
    /\ context' = [context EXCEPT ![n] = Ended(n)]
    /\ open' = open \ {n}
    /\ lent' = lent \ {n}

(* The connection is broken: the pool opens another one in its place.      *)
Replace(n) ==
    /\ context' = [context EXCEPT ![n] = Unset]
    /\ open' = open \ {n}
    /\ lent' = lent \ {n}

(* USING (company_guid = current_setting('app.current_tenant', TRUE)::UUID): *)
(* no rows without a setting, and an error on '', which is no UUID.        *)
Sees(n, t) == AppBypassesRls \/ context[n] = t
=============================================================================
