--------------------------- MODULE PackTemplates ---------------------------
(***************************************************************************)
(* The prompt templates of one industry pack, and its entry in the Redis   *)
(* cache: upsert_template and disable_pack (src/api/admin_packs.py) beside *)
(* load_pack and invalidate_pack_cache (src/packs/loader.py).  An upsert   *)
(* is three statements with no transaction around them, then a DEL; a load *)
(* is a GET, two SELECTs and a SETEX.  Nothing orders one after another    *)
(* but the table's UNIQUE (pack_id, intent, role, version).                *)
(***************************************************************************)
EXTENDS Integers

CONSTANTS
    Keys,       \* (intent, role) pairs of the pack
    Admins,     \* admin requests, each an upsert of a key or a disable
    Loaders,    \* chat requests that load the pack
    Empty       \* no cache entry

ASSUME EmptyAssumption == Empty \notin [Keys -> Nat]

VARIABLES
    rows,         \* the pack's rows of prompt_templates
    pack_active,  \* industry_packs.is_active
    cache,        \* the entry pack:<pack_id>: a prompt version for each key
    admin,        \* [Admins -> coroutine state]
    loader        \* [Loaders -> coroutine state]

(* History, for StaleOnlyIfOvertaken.                                      *)
VARIABLES
    unsettled,    \* requests that have written to the tables since the last DEL
    overtaken,    \* loads that a DEL came upon between their reads and their SETEX
    late          \* whether such a load filled the cache

historyVars == <<unsettled, overtaken, late>>
vars == <<rows, pack_active, cache, admin, loader, historyVars>>

Rows == [key : Keys, version : Nat \ {0}, is_active : BOOLEAN]
Prompts == [Keys -> Nat]     \* the active version of each key, 0 for none

AdminStates ==
    [pc : {"new", "deactivate", "insert", "invalidate", "ok", "error", "broken"},
     key : Keys, next : Nat]

LoaderStates ==
    [pc : {"new", "select_pack", "select_templates", "setex", "loaded", "fallback", "failed"},
     prompts : Prompts]

TypeOK ==
    /\ rows \subseteq Rows
    /\ pack_active \in BOOLEAN
    /\ cache \in Prompts \cup {Empty}
    /\ admin \in [Admins -> AdminStates]
    /\ loader \in [Loaders -> LoaderStates]
    /\ unsettled \subseteq Admins
    /\ overtaken \subseteq Loaders
    /\ late \in BOOLEAN

NoPrompts == [k \in Keys |-> 0]

(* The seed script gave some of the keys their first version.              *)
Init ==
    /\ \E seeded \in SUBSET Keys :
           rows = {[key |-> k, version |-> 1, is_active |-> TRUE] : k \in seeded}
    /\ pack_active = TRUE
    /\ cache = Empty
    /\ admin \in [Admins -> [pc : {"new"}, key : Keys, next : {0}]]
    /\ loader = [l \in Loaders |-> [pc |-> "new", prompts |-> NoPrompts]]
    /\ unsettled = {} /\ overtaken = {} /\ late = FALSE

-----------------------------------------------------------------------------
Versions(k) == {r.version : r \in {q \in rows : q.key = k}}
ActiveVersions(k) == {r.version : r \in {q \in rows : q.key = k /\ q.is_active}}

(* The newest of a set of versions, 0 for none: COALESCE(MAX(version), 0), *)
(* and the first row of ORDER BY version DESC that load_pack keeps.        *)
Newest(vs) == IF vs = {} THEN 0 ELSE CHOOSE v \in vs : \A w \in vs : w <= v

ActivePrompts == [k \in Keys |-> Newest(ActiveVersions(k))]

AdminBecomes(a, s) == admin' = [admin EXCEPT ![a] = s]
LoaderBecomes(l, s) == loader' = [loader EXCEPT ![l] = s]

Writes(a) == unsettled' = unsettled \cup {a} /\ UNCHANGED <<overtaken, late>>

-----------------------------------------------------------------------------
(* Mutation: the newest version is not counted up.                         *)
ReadMaxVersionOnly(a) ==
    /\ admin[a].pc = "new"
    /\ AdminBecomes(a, [pc |-> "deactivate", key |-> admin[a].key,
                        next |-> Newest(Versions(admin[a].key))])
    /\ UNCHANGED <<rows, pack_active, cache, loader, historyVars>>

(* upsert_template                                                         *)
ReadMaxVersion(a) ==
    /\ admin[a].pc = "new"
    /\ AdminBecomes(a, [pc |-> "deactivate", key |-> admin[a].key,
                        next |-> Newest(Versions(admin[a].key)) + 1])
    /\ UNCHANGED <<rows, pack_active, cache, loader, historyVars>>

(* Mutation: the version before stays active.                              *)
DeactivateNone(a) ==
    /\ admin[a].pc = "deactivate"
    /\ AdminBecomes(a, [admin[a] EXCEPT !.pc = "insert"])
    /\ UNCHANGED <<rows, pack_active, cache, loader, historyVars>>

Deactivate(a) ==
    /\ admin[a].pc = "deactivate"
    /\ rows' = {[r EXCEPT !.is_active = r.is_active /\ r.key # admin[a].key] : r \in rows}
    /\ AdminBecomes(a, [admin[a] EXCEPT !.pc = "insert"])
    /\ Writes(a)
    /\ UNCHANGED <<pack_active, cache, loader>>

(* Mutation: the table has no unique key.                                  *)
InsertAnyVersion(a) ==
    LET s == admin[a] IN
    /\ s.pc = "insert"
    /\ rows' = rows \cup {[key |-> s.key, version |-> s.next, is_active |-> TRUE]}
    /\ AdminBecomes(a, [admin[a] EXCEPT !.pc = "invalidate"])
    /\ Writes(a)
    /\ UNCHANGED <<pack_active, cache, loader>>

(* Mutation: the new version is not active.                                *)
InsertInactiveVersion(a) ==
    LET s == admin[a] IN
    /\ s.pc = "insert" /\ s.next \notin Versions(s.key)
    /\ rows' = rows \cup {[key |-> s.key, version |-> s.next, is_active |-> FALSE]}
    /\ AdminBecomes(a, [admin[a] EXCEPT !.pc = "invalidate"])
    /\ Writes(a)
    /\ UNCHANGED <<pack_active, cache, loader>>

InsertVersion(a) ==
    LET s == admin[a] IN
    /\ s.pc = "insert" /\ s.next \notin Versions(s.key)
    /\ rows' = rows \cup {[key |-> s.key, version |-> s.next, is_active |-> TRUE]}
    /\ AdminBecomes(a, [admin[a] EXCEPT !.pc = "invalidate"])
    /\ Writes(a)
    /\ UNCHANGED <<pack_active, cache, loader>>

(* Mutation: ON CONFLICT DO NOTHING on the INSERT.                         *)
IgnoreDuplicateVersion(a) ==
    /\ admin[a].pc = "insert" /\ admin[a].next \in Versions(admin[a].key)
    /\ AdminBecomes(a, [admin[a] EXCEPT !.pc = "invalidate"])
    /\ UNCHANGED <<rows, pack_active, cache, loader, historyVars>>

(* Another upsert took the version: the INSERT violates the unique key and *)
(* the request fails, with the UPDATE before it already committed.         *)
DuplicateVersion(a) ==
    /\ admin[a].pc = "insert" /\ admin[a].next \in Versions(admin[a].key)
    /\ AdminBecomes(a, [admin[a] EXCEPT !.pc = "broken"])
    /\ UNCHANGED <<rows, pack_active, cache, loader, historyVars>>

(* disable_pack                                                            *)
DisablePack(a) ==
    /\ admin[a].pc = "new"
    /\ pack_active' = FALSE
    /\ AdminBecomes(a, [admin[a] EXCEPT !.pc = "invalidate"])
    /\ Writes(a)
    /\ UNCHANGED <<rows, cache, loader>>

(* Mutation: a request is answered and the cache left as it is.            *)
AnswerOnly(a) ==
    /\ admin[a].pc = "invalidate"
    /\ AdminBecomes(a, [admin[a] EXCEPT !.pc = "ok"])
    /\ UNCHANGED <<rows, pack_active, cache, loader, historyVars>>

(* invalidate_pack_cache, and the answer.                                  *)
InvalidateCache(a) ==
    /\ admin[a].pc = "invalidate"
    /\ cache' = Empty
    /\ AdminBecomes(a, [admin[a] EXCEPT !.pc = "ok"])
    /\ unsettled' = {}
    /\ overtaken' = overtaken \cup
           {l \in Loaders : loader[l].pc \in {"select_templates", "setex"}}
    /\ UNCHANGED <<rows, pack_active, loader, late>>

(* The request dies between two statements: a lost connection, a crash.    *)
AdminFails(a) ==
    /\ admin[a].pc \in {"deactivate", "insert", "invalidate"}
    /\ AdminBecomes(a, [admin[a] EXCEPT !.pc =
                            IF admin[a].pc = "insert" THEN "broken" ELSE "error"])
    /\ UNCHANGED <<rows, pack_active, cache, loader, historyVars>>

-----------------------------------------------------------------------------
(* load_pack                                                               *)
GetCached(l) ==
    /\ loader[l].pc = "new"
    /\ LoaderBecomes(l,
           IF cache # Empty THEN [pc |-> "loaded", prompts |-> cache]
                            ELSE [pc |-> "select_pack", prompts |-> NoPrompts])
    /\ UNCHANGED <<rows, pack_active, cache, admin, historyVars>>

(* A pack that is not active is a ValueError, and resolve_for_tenant loads *)
(* generic@1.0.0 in its place.                                             *)
SelectPack(l) ==
    /\ loader[l].pc = "select_pack"
    /\ LoaderBecomes(l, [loader[l] EXCEPT !.pc =
                             IF pack_active THEN "select_templates" ELSE "fallback"])
    /\ UNCHANGED <<rows, pack_active, cache, admin, historyVars>>

SelectTemplates(l) ==
    /\ loader[l].pc = "select_templates"
    /\ LoaderBecomes(l, [pc |-> "setex", prompts |-> ActivePrompts])
    /\ UNCHANGED <<rows, pack_active, cache, admin, historyVars>>

SetCache(l) ==
    /\ loader[l].pc = "setex"
    /\ cache' = loader[l].prompts
    /\ LoaderBecomes(l, [loader[l] EXCEPT !.pc = "loaded"])
    /\ late' = (l \in overtaken)
    /\ UNCHANGED <<rows, pack_active, admin, unsettled, overtaken>>

LoadFails(l) ==
    /\ loader[l].pc \in {"new", "select_pack", "select_templates", "setex"}
    /\ LoaderBecomes(l, [loader[l] EXCEPT !.pc = "failed"])
    /\ UNCHANGED <<rows, pack_active, cache, admin, historyVars>>

(* CACHE_TTL passes.                                                       *)
ExpireCache ==
    /\ cache # Empty
    /\ cache' = Empty
    /\ UNCHANGED <<rows, pack_active, admin, loader, historyVars>>

AdminStep(a) ==
    \/ Deactivate(a) \/ InsertVersion(a) \/ DuplicateVersion(a) \/ InvalidateCache(a)

LoaderStep(l) == SelectPack(l) \/ SelectTemplates(l) \/ SetCache(l)

Next ==
    \/ \E a \in Admins : ReadMaxVersion(a) \/ DisablePack(a) \/ AdminStep(a) \/ AdminFails(a)
    \/ \E l \in Loaders : GetCached(l) \/ LoaderStep(l) \/ LoadFails(l)
    \/ ExpireCache

Spec == Init /\ [][Next]_vars

-----------------------------------------------------------------------------
(* However upserts of a key interleave, at most one version of it is       *)
(* active, and it is the newest: the unique key, not a transaction, is     *)
(* what makes the second of two racing upserts give up.                    *)
ActiveIsNewest ==
    \A q, r \in rows : q.key = r.key /\ q.is_active => r.version <= q.version

(* No version number is skipped or given out twice.                        *)
VersionsContiguous ==
    /\ \A q, r \in rows : q.key = r.key /\ q.version = r.version => q = r
    /\ \A r \in rows : \A v \in 1..r.version : \E q \in rows : q.key = r.key /\ q.version = v

(* A key that loses its active version lost it to an upsert that is still  *)
(* to insert the next one, or that failed right there.                     *)
NoneActiveOnlyIfBroken ==
    \A k \in Keys : Versions(k) # {} /\ ActiveVersions(k) = {} =>
        \E a \in Admins : admin[a].key = k /\ admin[a].pc \in {"insert", "broken"}

(* An upsert that was answered "ok" has its version in the table, and no   *)
(* other answered upsert of the key has the same one.                      *)
AnsweredIsStored ==
    \A a \in Admins : admin[a].pc = "ok" /\ admin[a].next # 0 =>
        /\ admin[a].next \in Versions(admin[a].key)
        /\ \A b \in Admins : admin[b].pc = "ok" /\ admin[b].key = admin[a].key
                             /\ admin[b].next = admin[a].next => a = b

(* The cache never holds anything but what the tables hold, and nothing of *)
(* a disabled pack, except where one of two things is to blame: a load     *)
(* that read before a DEL and filled the cache after it, or a request that *)
(* has written to the tables and is still to clear the cache, or died      *)
(* before it did.  So what an answered upsert or disable replaced can come *)
(* back only with a load that its DEL overtook.                            *)
StaleOnlyIfOvertaken ==
    cache # Empty /\ ~(pack_active /\ cache = ActivePrompts) =>
        late \/ \E a \in unsettled : admin[a].pc # "ok"
=============================================================================
