CONSTANTS
    q1 = q1
    Turns = {q1}
    Intents = {"general_chat", "api_action"}
    Answers = {"general_chat", "api_action", "weather"}
    Prompts = {"tour", "book", "chat", "ours"}
    Tools = {"http", "web"}
    Generic = "generic@1.0.0"
    Packs <- SomePacks
    Assignments <- SomeAssignments
    NoAssignment = NoAssignment
    Rows <- SomeRows
    NoModel = NoModel
    Deployments <- SomeDeployments
    MaxWrites = 3
SPECIFICATION Spec
CHECK_DEADLOCK FALSE
INVARIANTS TypeOK AlwaysAProvider TurnIsOfOneAssignment
