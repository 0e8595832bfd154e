CONSTANTS
    k1 = k1  r1 = r1  r2 = r2  r3 = r3
    NoConversation = NoConversation
    Conversations = {k1}
    Turns = {r1, r2, r3}
    Window = 2
    Streaming = {r1}
SPECIFICATION FairSpec
CHECK_DEADLOCK FALSE
INVARIANTS TypeOK MemoryIsWindow FinishedCallIsCounted
PROPERTIES HistoryHasAnswered EveryTurnEnds
