--------------------------- MODULE ModelSelection ---------------------------
(***************************************************************************)
(* Which intent, prompt and model a chat turn gets.  The turn reads its    *)
(* tenant's pack assignment (src/packs/resolver.py), merges the overrides  *)
(* into the pack, asks an LLM for the intent unless the client's hint will *)
(* do (src/agents/orchestrator.py, classifier.py), and only then reads the *)
(* tenant's own model (src/llm/selector.py) and picks a provider of those  *)
(* that have a key (src/llm/registry.py).  Administrators reassign packs   *)
(* and models meanwhile.  One tenant; of the models, those of executors,   *)
(* since no code reads those of the other roles.  The role is exempt from  *)
(* row-level security (ToolConfig has what becomes of the assignment       *)
(* otherwise), and a pack keeps its content (PackTemplates changes it).    *)
(***************************************************************************)
EXTENDS Sequences, SequencesExt

CONSTANTS
    Turns,
    Intents,        \* of the packs and of the hints
    Answers,        \* what the classifier's LLM may name
    Prompts,        \* template texts
    Tools,
    Packs,          \* [pack ids -> their PackConfig]
    Generic,        \* "generic@1.0.0"
    Assignments,    \* rows that an administrator gives the tenant
    NoAssignment,
    Rows,           \* models that tenant_model_overrides may give it
    NoModel,
    Deployments,    \* the sets of providers that have an API key
    MaxWrites       \* bound of the administrators' writes

(* LLMRegistry.register_all's order, and _CLASSIFIER_PRIORITY's.           *)
RegisterOrder == <<"gemini", "openai", "anthropic", "deepseek", "groq">>
ClassifierPriority == <<"groq", "deepseek", "gemini", "openai", "anthropic">>

Model(p, name) == [provider |-> p, model |-> name]
DefaultExecutor == Model("deepseek", "deepseek-chat")
FallbackModel ==
    [gemini |-> "gemini-2.5-flash-lite", openai |-> "gpt-4o-mini",
     anthropic |-> "claude-haiku-4-5", deepseek |-> "deepseek-chat",
     groq |-> "llama-3.1-8b-instant"]

NoProvider == "none"
NoIntent == "none"

PackIds == DOMAIN Packs
Models == Rows \cup {DefaultExecutor} \cup {Packs[k].executor : k \in PackIds}
          \cup {a.executor : a \in Assignments}
          \cup {Model(p, FallbackModel[p]) : p \in ToSet(RegisterOrder)}
DefaultPrompt == "Ban la AI assistant huu ich."

(* EffectiveConfig; executor is default_models["executor"], prompts has    *)
(* the "<intent>:system" keys.                                             *)
Configs ==
    [pack : PackIds, intents : SUBSET Intents, tools : SUBSET Tools,
     executor : Models \cup {NoModel},
     prompts : UNION {[keys -> Prompts] : keys \in SUBSET Intents}]

ASSUME IntentsAssumption == "general_chat" \in Intents /\ NoIntent \notin Intents
ASSUME PacksAssumption == Generic \in PackIds /\ \A k \in PackIds : Packs[k] \in Configs
ASSUME AssignmentsAssumption == Assignments \subseteq Configs /\ NoAssignment \notin Assignments
ASSUME NoModelAssumption ==
    NoModel \notin Rows \cup {DefaultExecutor}
                  \cup {Model(p, FallbackModel[p]) : p \in ToSet(RegisterOrder)}
ASSUME MaxWritesAssumption == MaxWrites \in Nat
ASSUME DeploymentsAssumption == Deployments \subseteq SUBSET ToSet(RegisterOrder)

VARIABLES
    registered,   \* the providers that LLMRegistry has
    classifier,   \* Orchestrator._classifier's provider
    assigned,     \* the tenant's row in tenant_pack_assignments
    row,          \* its executor in tenant_model_overrides
    writes,       \* of the administrators
    turn          \* [Turns -> the turn's local state]

vars == <<registered, classifier, assigned, row, writes, turn>>

(* Of history: assignments and rows are what the tenant had while the turn *)
(* ran, generic and blind say that the database failed the turn.           *)
TurnState ==
    [pc : {"new", "resolve", "load", "intent", "render", "build", "stream",
           "done", "failed", "unserved"},
     hint : Intents \cup {NoIntent}, read : Assignments \cup {NoAssignment},
     effective : Configs, intent : Intents \cup {NoIntent}, prompt : Prompts \cup {DefaultPrompt},
     executor : Models \cup {NoModel},
     assignments : SUBSET (Assignments \cup {NoAssignment}),
     rows : SUBSET (Rows \cup {NoModel}), generic : BOOLEAN, blind : BOOLEAN]

TypeOK ==
    /\ registered \in Deployments
    /\ classifier \in ToSet(RegisterOrder) \cup {NoProvider}
    /\ assigned \in Assignments \cup {NoAssignment}
    /\ row \in Rows \cup {NoModel}
    /\ writes \in 0..MaxWrites
    /\ turn \in [Turns -> TurnState]

Init ==
    /\ registered \in Deployments
    /\ classifier = NoProvider
    /\ assigned = NoAssignment
    /\ row = NoModel
    /\ writes = 0
    /\ turn = [t \in Turns |->
           [pc |-> "new", hint |-> NoIntent, read |-> NoAssignment, effective |-> Packs[Generic],
            intent |-> NoIntent, prompt |-> DefaultPrompt, executor |-> NoModel,
            assignments |-> {}, rows |-> {}, generic |-> FALSE, blind |-> FALSE]]

Become(t, state) ==
    turn' = [turn EXCEPT ![t] = state] /\ UNCHANGED <<registered, assigned, row, writes>>

Over == {"done", "failed", "unserved"}

-----------------------------------------------------------------------------
(* What an administrator changes, the turns under way could have read.     *)
Witnessed ==
    turn' = [t \in Turns |->
                IF turn[t].pc \in Over \cup {"new"} THEN turn[t]
                ELSE [turn[t] EXCEPT !.assignments = @ \cup {assigned'}, !.rows = @ \cup {row'}]]

MayWrite == writes < MaxWrites /\ writes' = writes + 1

(* assign_pack: an upsert.                                                 *)
AssignPack(a) ==
    /\ MayWrite
    /\ assigned' = a
    /\ UNCHANGED <<registered, classifier, row>>
    /\ Witnessed

(* A statement on tenant_model_overrides.                                  *)
OverrideModel(m) ==
    /\ MayWrite
    /\ row' = m
    /\ UNCHANGED <<registered, classifier, assigned>>
    /\ Witnessed

-----------------------------------------------------------------------------
Begin(t) ==
    /\ turn[t].pc = "new"
    /\ \E hint \in Intents \cup {NoIntent} :
           Become(t, [turn[t] EXCEPT !.pc = "resolve", !.hint = hint,
                                     !.assignments = {assigned}, !.rows = {row}])
    /\ UNCHANGED classifier

(* resolve_for_tenant, first part: a failure counts as no row.             *)
ReadAssignment(t) ==
    /\ turn[t].pc = "resolve"
    /\ \/ Become(t, [turn[t] EXCEPT !.pc = "load", !.read = assigned])
       \/ Become(t, [turn[t] EXCEPT !.pc = "load", !.read = NoAssignment, !.generic = TRUE])
    /\ UNCHANGED classifier

(* The keys of q replace those of p.                                       *)
Updated(p, q) ==
    [i \in DOMAIN p \cup DOMAIN q |-> IF i \in DOMAIN q THEN q[i] ELSE p[i]]

(* _to_effective; {} and NoModel are keys that the overrides lack.         *)
ToEffective(k, a) ==
    [pack |-> k, intents |-> IF a.intents = {} THEN Packs[k].intents ELSE a.intents,
     tools |-> Packs[k].tools \cup a.tools,
     executor |-> IF a.executor = NoModel THEN Packs[k].executor ELSE a.executor,
     prompts |-> Updated(Packs[k].prompts, a.prompts)]

Effective(k, a) == IF a = NoAssignment THEN Packs[k] ELSE ToEffective(k, a)

(* load_pack; one that is disabled, or whose read fails, is replaced by    *)
(* generic, under the tenant's overrides all the same.  If that fails too, *)
(* so does the turn.                                                       *)
LoadPack(t) ==
    LET a == turn[t].read IN
    /\ turn[t].pc = "load"
    /\ \/ a # NoAssignment /\ Become(t, [turn[t] EXCEPT !.pc = "intent",
                                                        !.effective = Effective(a.pack, a)])
       \/ Become(t, [turn[t] EXCEPT !.pc = "intent", !.effective = Effective(Generic, a),
                                    !.generic = @ \/ a # NoAssignment])
       \/ Become(t, [turn[t] EXCEPT !.pc = "failed"])
    /\ UNCHANGED classifier

(* The first of a sequence that LLMRegistry has.                           *)
FirstOf(s) == s[SelectInSeq(s, LAMBDA p : p \in registered)]

HintIsEnough(t) == turn[t].hint \in turn[t].effective.intents

TakeHint(t) ==
    /\ turn[t].pc = "intent" /\ HintIsEnough(t)
    /\ Become(t, [turn[t] EXCEPT !.pc = "render", !.intent = turn[t].hint])
    /\ UNCHANGED classifier

(* _get_classifier: one for the process, made by the first turn that needs *)
(* it.  Without any provider it raises, and so does the turn.              *)
NoClassifier(t) ==
    /\ turn[t].pc = "intent" /\ ~HintIsEnough(t) /\ registered = {}
    /\ Become(t, [turn[t] EXCEPT !.pc = "unserved"])
    /\ UNCHANGED classifier

(* Mutation: the classifier is trusted.                                    *)
ClassifyTrusting(t) ==
    /\ turn[t].pc = "intent" /\ ~HintIsEnough(t) /\ registered # {}
    /\ classifier' = IF classifier \in registered THEN classifier ELSE FirstOf(ClassifierPriority)
    /\ \E answer \in Answers : Become(t, [turn[t] EXCEPT !.pc = "render", !.intent = answer])

(* classify: an answer that is not what was asked for is general_chat, and *)
(* so is an intent that the pack does not have.                            *)
Classify(t) ==
    /\ turn[t].pc = "intent" /\ ~HintIsEnough(t) /\ registered # {}
    /\ classifier' = IF classifier \in registered THEN classifier ELSE FirstOf(ClassifierPriority)
    /\ \E answer \in Answers \cup {"general_chat"} :
           Become(t, [turn[t] EXCEPT !.pc = "render",
                      !.intent = IF answer \in turn[t].effective.intents THEN answer
                                 ELSE "general_chat"])

(* Mutation: the assignment is resolved anew for the prompt.               *)
RenderAnew(t) ==
    LET prompts == IF assigned = NoAssignment THEN Packs[Generic].prompts
                   ELSE Effective(assigned.pack, assigned).prompts
        key == turn[t].intent
    IN  /\ turn[t].pc = "render"
        /\ Become(t, [turn[t] EXCEPT !.pc = "build",
                      !.prompt = IF key \in DOMAIN prompts THEN prompts[key] ELSE DefaultPrompt])
        /\ UNCHANGED classifier

(* _render_system_prompt, _load_tools and the memory are ChatTurn's and    *)
(* ToolConfig's; of the prompt it matters which template it is.            *)
Render(t) ==
    LET prompts == turn[t].effective.prompts
        key == turn[t].intent
    IN  /\ turn[t].pc = "render"
        /\ Become(t, [turn[t] EXCEPT !.pc = "build",
                      !.prompt = IF key \in DOMAIN prompts THEN prompts[key] ELSE DefaultPrompt])
        /\ UNCHANGED classifier

(* _build_executor: the pack's models fill the roles that have no row.     *)
Overriding(own, pack) == IF own # NoModel THEN own ELSE pack

(* list_providers()[0], which is in the order of registration.             *)
Fallback == Model(FirstOf(RegisterOrder), FallbackModel[FirstOf(RegisterOrder)])

(* Mutation: the override is returned without a look at the registry.      *)
SelectUnchecked(override) ==
    IF override # NoModel THEN override
    ELSE IF DefaultExecutor.provider \in registered THEN DefaultExecutor ELSE Fallback

(* ModelSelector.select.                                                   *)
Select(override) ==
    IF override # NoModel /\ override.provider \in registered THEN override
    ELSE IF DefaultExecutor.provider \in registered THEN DefaultExecutor ELSE Fallback

(* from_db sees no overrides when its query fails.                         *)
BuildExecutor(t) ==
    /\ turn[t].pc = "build" /\ registered # {}
    /\ \E own \in {row, NoModel} :
           Become(t, [turn[t] EXCEPT !.pc = "stream", !.blind = own # row,
                      !.executor = Select(Overriding(own, turn[t].effective.executor))])
    /\ UNCHANGED classifier

NoExecutor(t) ==
    /\ turn[t].pc = "build" /\ registered = {}
    /\ Become(t, [turn[t] EXCEPT !.pc = "unserved"])
    /\ UNCHANGED classifier

(* BaseAgent.stream: LLMRegistry.get raises for a provider it lacks.       *)
Stream(t) ==
    /\ turn[t].pc = "stream"
    /\ Become(t, [turn[t] EXCEPT !.pc = IF turn[t].executor.provider \in registered THEN "done"
                                        ELSE "unserved"])
    /\ UNCHANGED classifier

(* The LLM, the memory or the tools fail, or the client leaves.            *)
Fail(t) ==
    /\ turn[t].pc \in {"intent", "render", "build", "stream"}
    /\ Become(t, [turn[t] EXCEPT !.pc = "failed"])
    /\ UNCHANGED classifier

Next ==
    \/ \E a \in Assignments : AssignPack(a)
    \/ \E m \in Rows \cup {NoModel} : OverrideModel(m)
    \/ \E t \in Turns :
           \/ Begin(t) \/ ReadAssignment(t) \/ LoadPack(t) \/ TakeHint(t) \/ NoClassifier(t)
           \/ Classify(t) \/ Render(t) \/ BuildExecutor(t) \/ NoExecutor(t) \/ Stream(t) \/ Fail(t)

Spec == Init /\ [][Next]_vars

-----------------------------------------------------------------------------
(* With a single key in the environment every turn finds a provider, and   *)
(* calls no other, whatever models packs, tenants and the defaults ask     *)
(* for.                                                                    *)
AlwaysAProvider ==
    /\ classifier \in registered \cup {NoProvider}
    /\ registered # {} => \A t \in Turns : turn[t].pc # "unserved"

(* What a turn should prefer to call, best first, and the first of it that *)
(* there is and that it can call.                                          *)
Preferences(own, a, k) ==
    LET pack == IF a # NoAssignment /\ a.executor # NoModel THEN a.executor ELSE Packs[k].executor
    IN  <<IF own # NoModel THEN own ELSE pack, DefaultExecutor>>
            \o [i \in DOMAIN RegisterOrder |->
                   Model(RegisterOrder[i], FallbackModel[RegisterOrder[i]])]

Callable(m) == m # NoModel /\ m.provider \in registered
Best(s) == s[SelectInSeq(s, Callable)]

(* What a turn serves belongs together: its intent, its prompt and its     *)
(* model all follow from one assignment and one row of the tenant's own    *)
(* that were in force while the turn ran, however they changed meanwhile.  *)
(* The tenant's overrides go before the pack, also where the database      *)
(* failed the turn and generic took the pack's place.                      *)
TurnIsOfOneAssignment ==
    \A t \in Turns : turn[t].pc = "stream" =>
        \E a \in turn[t].assignments \cup (IF turn[t].generic THEN {NoAssignment} ELSE {}),
           own \in IF turn[t].blind THEN {NoModel} ELSE turn[t].rows,
           k \in PackIds :
            LET intents == IF a = NoAssignment \/ a.intents = {} THEN Packs[k].intents ELSE a.intents
                i == turn[t].intent
            IN  /\ k = Generic \/ (a # NoAssignment /\ k = a.pack)
                /\ k = Generic => turn[t].generic \/ a = NoAssignment \/ a.pack = Generic
                /\ i \in intents \cup {"general_chat"}
                /\ turn[t].hint \in intents => i = turn[t].hint
                /\ turn[t].prompt =
                       IF a # NoAssignment /\ i \in DOMAIN a.prompts THEN a.prompts[i]
                       ELSE IF i \in DOMAIN Packs[k].prompts THEN Packs[k].prompts[i]
                       ELSE DefaultPrompt
                /\ turn[t].executor = Best(Preferences(own, a, k))
=============================================================================
