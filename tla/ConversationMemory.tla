------------------------- MODULE ConversationMemory -------------------------
(***************************************************************************)
(* ConversationMemory (src/memory/conversation.py): a Redis list for each  *)
(* conversation, to which append_turn adds a user's and an assistant's     *)
(* message and which it trims to the newest WINDOW_SIZE turns, in one      *)
(* MULTI/EXEC pipeline.  Contents are left out: a message is known by the  *)
(* turn it is of and its role.                                             *)
(***************************************************************************)
EXTENDS Integers, Sequences

CONSTANTS
    Conversations,
    Turns,
    Window          \* WINDOW_SIZE, in turns

ASSUME WindowAssumption == Window \in Nat \ {0}

VARIABLES
    memory,     \* [Conversations -> Seq of messages], as Redis has it
    log,        \* history: [Conversations -> Seq of the turns appended]
    expired     \* history: how many of them had been when the key last expired

memoryVars == <<memory, log, expired>>

Messages == [turn : Turns, role : {"user", "assistant"}]

MemoryTypeOK ==
    /\ memory \in [Conversations -> Seq(Messages)]
    /\ log \in [Conversations -> Seq(Turns)]
    /\ expired \in [Conversations -> Nat]

MemoryInit ==
    /\ memory = [k \in Conversations |-> <<>>]
    /\ log = [k \in Conversations |-> <<>>]
    /\ expired = [k \in Conversations |-> 0]

(* LTRIM key -n -1                                                         *)
Newest(s, n) == SubSeq(s, IF Len(s) > n THEN Len(s) - n + 1 ELSE 1, Len(s))

(* Mutation: the list is trimmed to WINDOW_SIZE messages, not turns.       *)
AppendTurnHalfWindow(k, r) ==
    /\ memory' = [memory EXCEPT ![k] =
           Newest(@ \o <<[turn |-> r, role |-> "user"], [turn |-> r, role |-> "assistant"]>>,
                  Window)]
    /\ log' = [log EXCEPT ![k] = Append(@, r)]
    /\ UNCHANGED expired

(* Mutation: the pipeline is filled and never executed.                    *)
AppendNothing(k, r) == UNCHANGED memoryVars

AppendTurn(k, r) ==
    /\ memory' = [memory EXCEPT ![k] =
           Newest(@ \o <<[turn |-> r, role |-> "user"], [turn |-> r, role |-> "assistant"]>>,
                  2 * Window)]
    /\ log' = [log EXCEPT ![k] = Append(@, r)]
    /\ UNCHANGED expired

(* TTL_SECONDS after the last append.                                      *)
Expire(k) ==
    /\ memory[k] # <<>>
    /\ memory' = [memory EXCEPT ![k] = <<>>]
    /\ expired' = [expired EXCEPT ![k] = Len(log[k])]
    /\ UNCHANGED log

TurnsIn(messages) == {messages[i].turn : i \in 1..Len(messages)}

(* The memory holds the newest turns appended since it last expired, each   *)
(* whole, the user's message before the assistant's, and no more than the   *)
(* window: concurrent appends never tear a turn, nor does the trim.         *)
MemoryIsWindow ==
    \A k \in Conversations :
        LET kept == Newest(SubSeq(log[k], expired[k] + 1, Len(log[k])), Window)
        IN  /\ Len(memory[k]) = 2 * Len(kept)
            /\ \A i \in 1..Len(kept) :
                   /\ memory[k][2 * i - 1] = [turn |-> kept[i], role |-> "user"]
                   /\ memory[k][2 * i] = [turn |-> kept[i], role |-> "assistant"]
=============================================================================
