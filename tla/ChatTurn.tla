------------------------------ MODULE ChatTurn ------------------------------
(***************************************************************************)
(* A turn of a chat: POST /chat and /chat/stream (src/api/chat.py) driving *)
(* Orchestrator.run_stream (src/agents/orchestrator.py) over the           *)
(* conversation memory, and the background task that logs its usage        *)
(* (src/services/usage_logger.py).  Turns of one conversation run at the   *)
(* same time.  A step that awaits a provider, Redis or PostgreSQL can      *)
(* fail; the client of a stream can leave, which cancels the turn at the   *)
(* await it is at; the process can die.                                    *)
(***************************************************************************)
EXTENDS ConversationMemory

CONSTANTS
    NoConversation,   \* the request has no conversation_id
    Streaming         \* the turns requested at /chat/stream

ASSUME ConversationAssumption == NoConversation \notin Conversations
ASSUME StreamingAssumption == Streaming \subseteq Turns

VARIABLES
    turn,       \* [Turns -> the coroutine's local state]
    usage,      \* [Turns -> what became of its usage record]
    answered,   \* history: [Conversations -> the turns whose "done" reached
                \* the client since the key last expired]
    due         \* history: the turns whose stream ended, and of which neither
                \* the append, the process nor the database failed since

vars == <<memoryVars, turn, usage, answered, due>>

Preparing == {"resolve", "classify", "history"}
InFlight == Preparing \cup {"stream", "append"}
Ended == {"answered", "failed", "gone"}

(* seen is history: the turns of the conversation already answered when    *)
(* this one began.                                                         *)
TurnState ==
    [pc : {"new", "deliver"} \cup InFlight \cup Ended,
     conversation : Conversations \cup {NoConversation},
     history : Seq(Messages), seen : SUBSET Turns]

TypeOK ==
    /\ MemoryTypeOK
    /\ turn \in [Turns -> TurnState]
    /\ usage \in [Turns -> {"none", "task", "logged", "lost"}]
    /\ answered \in [Conversations -> SUBSET Turns]
    /\ due \subseteq Turns

Init ==
    /\ MemoryInit
    /\ turn = [r \in Turns |-> [pc |-> "new", conversation |-> NoConversation,
                                history |-> <<>>, seen |-> {}]]
    /\ usage = [r \in Turns |-> "none"]
    /\ answered = [k \in Conversations |-> {}]
    /\ due = {}

HasConversation(r) == turn[r].conversation # NoConversation

Become(r, state) == turn' = [turn EXCEPT ![r] = state]
Goto(r, l) == Become(r, [turn[r] EXCEPT !.pc = l])

(* The generator's frame is gone.                                          *)
Over(state, l) == [state EXCEPT !.pc = l, !.history = <<>>, !.seen = {}]

-----------------------------------------------------------------------------
(* Orchestrator.run_stream                                                 *)
Begin(r) ==
    /\ turn[r].pc = "new"
    /\ \E k \in Conversations \cup {NoConversation} :
           Become(r, [turn[r] EXCEPT !.pc = "resolve", !.conversation = k, !.seen =
                          IF k \in Conversations THEN answered[k] ELSE {}])
    /\ UNCHANGED <<memoryVars, usage, answered, due>>

(* The pack decides whether the intent hint spares the classifier.         *)
Resolve(r) ==
    /\ turn[r].pc = "resolve"
    /\ Goto(r, "classify") \/ Goto(r, "history")
    /\ UNCHANGED <<memoryVars, usage, answered, due>>

(* Mutation: an answer that is no JSON is asked for again.                 *)
ClassifyAgain(r) ==
    /\ turn[r].pc = "classify"
    /\ UNCHANGED vars

(* An answer that is no JSON counts as general_chat.                       *)
Classify(r) ==
    /\ turn[r].pc = "classify"
    /\ Goto(r, "history")
    /\ UNCHANGED <<memoryVars, usage, answered, due>>

ReadHistory(r) ==
    /\ turn[r].pc = "history"
    /\ Become(r, [turn[r] EXCEPT !.pc = "stream", !.history =
                      IF HasConversation(r) THEN memory[turn[r].conversation] ELSE <<>>])
    /\ UNCHANGED <<memoryVars, usage, answered, due>>

(* The "done" event: the endpoint starts the usage task, then sends it.    *)
Done(r) ==
    /\ Become(r, Over(turn[r], "deliver"))
    /\ usage' = [usage EXCEPT ![r] = "task"]

(* The deltas are left out: the turn is the same after each.               *)
EndStream(r) ==
    /\ turn[r].pc = "stream"
    /\ \/ /\ HasConversation(r)
          /\ Become(r, Over(turn[r], "append"))
          /\ UNCHANGED usage
       \/ ~HasConversation(r) /\ Done(r)
    /\ due' = due \cup {r}
    /\ UNCHANGED <<memoryVars, answered>>

Persist(r) ==
    /\ turn[r].pc = "append"
    /\ AppendTurn(turn[r].conversation, r)
    /\ Done(r)
    /\ UNCHANGED <<answered, due>>

(* Redis did append the turn, but its answer is lost or nobody waits for   *)
(* it any more.                                                            *)
PersistUnacknowledged(r) ==
    /\ turn[r].pc = "append"
    /\ AppendTurn(turn[r].conversation, r)
    /\ Become(r, Over(turn[r], "failed"))
    /\ due' = due \ {r}
    /\ UNCHANGED <<usage, answered>>

(* An exception: /chat answers 500, /chat/stream sends an error event.     *)
(* Neither logs usage: in event_generator final_usage is always None.      *)
Fail(r) ==
    /\ turn[r].pc \in InFlight
    /\ Become(r, Over(turn[r], "failed"))
    /\ due' = due \ {r}
    /\ UNCHANGED <<memoryVars, usage, answered>>

-----------------------------------------------------------------------------
(* What reaches the client.                                                *)
Deliver(r) ==
    /\ turn[r].pc = "deliver"
    /\ Goto(r, "answered")
    /\ answered' = [k \in Conversations |->
                       IF k = turn[r].conversation THEN answered[k] \cup {r} ELSE answered[k]]
    /\ UNCHANGED <<memoryVars, usage, due>>

MayLeave(r) == turn[r].pc = "deliver" \/ (r \in Streaming /\ turn[r].pc \in InFlight)

(* Mutation: usage is logged by a background task of the response, which   *)
(* is not run for a client that has left.                                  *)
DisconnectDropsTask(r) ==
    /\ MayLeave(r)
    /\ Become(r, Over(turn[r], "gone"))
    /\ usage' = [usage EXCEPT ![r] = IF @ = "task" THEN "lost" ELSE @]
    /\ due' = IF turn[r].pc = "deliver" THEN due ELSE due \ {r}
    /\ UNCHANGED <<memoryVars, answered>>

(* A client that leaves cancels a stream; /chat runs to its end unheard.   *)
(* The usage task is not the response's and stays.                         *)
Disconnect(r) ==
    /\ MayLeave(r)
    /\ Become(r, Over(turn[r], "gone"))
    /\ due' = IF turn[r].pc = "deliver" THEN due ELSE due \ {r}
    /\ UNCHANGED <<memoryVars, usage, answered>>

(* Mutation: log_usage lets an error of the database out.                  *)
LogUsageRaises(r) ==
    /\ usage[r] = "task"
    /\ \E outcome \in {"logged", "raised"} : usage' = [usage EXCEPT ![r] = outcome]
    /\ UNCHANGED <<memoryVars, turn, answered, due>>

(* log_usage: an error of the database is logged and swallowed.            *)
LogUsage(r) ==
    /\ usage[r] = "task"
    /\ \/ usage' = [usage EXCEPT ![r] = "logged"] /\ UNCHANGED due
       \/ usage' = [usage EXCEPT ![r] = "lost"] /\ due' = due \ {r}
    /\ UNCHANGED <<memoryVars, turn, answered>>

(* The process dies or is stopped: its turns and tasks go with it, and the *)
(* next one serves the rest.                                               *)
Crash ==
    /\ \E r \in Turns : turn[r].pc \in InFlight \cup {"deliver"} \/ usage[r] = "task"
    /\ turn' = [r \in Turns |-> IF turn[r].pc \in InFlight \cup {"deliver"}
                                THEN Over(turn[r], "gone") ELSE turn[r]]
    /\ usage' = [r \in Turns |-> IF usage[r] = "task" THEN "lost" ELSE usage[r]]
    /\ due' = {r \in due : turn[r].pc # "append" /\ usage[r] # "task"}
    /\ UNCHANGED <<memoryVars, answered>>

(* The TTL is a day: no response is on its way to the client that long.    *)
ExpireMemory(k) ==
    /\ \A r \in Turns : turn[r].pc = "deliver" => turn[r].conversation # k
    /\ Expire(k)
    /\ answered' = [answered EXCEPT ![k] = {}]
    /\ UNCHANGED <<turn, usage, due>>

Proceed(r) ==
    \/ Resolve(r) \/ Classify(r) \/ ReadHistory(r) \/ EndStream(r)
    \/ Persist(r) \/ Deliver(r)

Next ==
    \/ \E r \in Turns :
           \/ Begin(r) \/ Proceed(r) \/ LogUsage(r)
           \/ PersistUnacknowledged(r) \/ Fail(r) \/ Disconnect(r)
    \/ \E k \in Conversations : ExpireMemory(k)
    \/ Crash

(* Coroutines and tasks run on, and a provider ends what it streams.       *)
Fairness == \A r \in Turns : WF_vars(Proceed(r)) /\ WF_vars(LogUsage(r))

Spec == Init /\ [][Next]_vars
FairSpec == Spec /\ Fairness

-----------------------------------------------------------------------------
(* A turn is given what the user already has: every turn of the             *)
(* conversation whose "done" had arrived when this one was sent is in the   *)
(* history it reads, unless the window was full or the key has expired.     *)
HistoryHasAnswered ==
    [][\A r \in Turns : turn[r].pc = "history" /\ turn'[r].pc = "stream" /\ HasConversation(r) =>
          LET history == turn'[r].history
          IN  \/ turn[r].seen \cap answered[turn[r].conversation] \subseteq TurnsIn(history)
              \/ Len(history) = 2 * Window]_vars

(* A call to the model that was finished is counted, heard or not: once the *)
(* stream has ended, only a failed or cancelled append, the death of the    *)
(* process or an error of the database keeps its usage out of the log; a    *)
(* client that leaves before "done" has reached it does not.  README.md:50  *)
(* has every call logged; chat.py counts none of these exceptions, nor the  *)
(* calls that broke off, since final_usage is always None at line 126.      *)
FinishedCallIsCounted ==
    \A r \in due : turn[r].pc = "append" \/ usage[r] \in {"task", "logged"}

(* Whatever fails, every turn that began comes to an end and no usage task  *)
(* stays behind: from some time on nothing is in flight.                    *)
EveryTurnEnds ==
    <>[](\A r \in Turns : turn[r].pc \in {"new"} \cup Ended /\ usage[r] # "task")
=============================================================================
