-------------------------- MODULE MCModelSelection --------------------------
(* Instances of ModelSelection for TLC.                                    *)
EXTENDS ModelSelection, TLC

CONSTANT q1

Tourism == "tourism@1.0.0"

(* The seeded packs, generic on a provider that not every deployment has.  *)
SomePacks ==
    Tourism :> [pack |-> Tourism, intents |-> {"general_chat", "api_action"}, tools |-> {"http"},
                executor |-> Model("anthropic", "sonnet"),
                prompts |-> "general_chat" :> "tour" @@ "api_action" :> "book"]
    @@ Generic :> [pack |-> Generic, intents |-> {"general_chat"}, tools |-> {},
                   executor |-> NoModel, prompts |-> "general_chat" :> "chat"]

Assigned(k, intents, m, prompts) ==
    [pack |-> k, intents |-> intents, executor |-> m, prompts |-> prompts, tools |-> {"web"}]

(* As it comes, with a prompt and a model of its own, with other intents,  *)
(* and generic with a model that nobody has.                               *)
SomeAssignments ==
    {Assigned(Tourism, {}, NoModel, <<>>),
     Assigned(Tourism, {}, Model("groq", "mixtral"), "api_action" :> "ours"),
     Assigned(Tourism, {"api_action"}, NoModel, "general_chat" :> "ours"),
     Assigned(Generic, {}, Model("mistral", "large"), <<>>)}

SomeRows == {Model("openai", "gpt-4o"), Model("groq", "mixtral")}

SomeDeployments == {{}, {"groq"}, {"openai", "anthropic"}, {"deepseek", "groq", "gemini"}}
=============================================================================
