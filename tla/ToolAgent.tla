------------------------------ MODULE ToolAgent ------------------------------
(***************************************************************************)
(* tool_calling: batch runs agent.chat on each observation, a few at a     *)
(* time.  A chat asks the model, runs the tool calls of its answer in      *)
(* parallel, appends what they return and asks again, until the model      *)
(* stops calling tools.  The model is external: it calls what it likes,    *)
(* with the arguments it likes, and its API may fail.  A conversation is   *)
(* what a chat has appended to its copy of the observation.                *)
(***************************************************************************)
EXTENDS Integers, Sequences, FiniteSets, FiniteSetsExt, SequencesExt

CONSTANTS
  MaxGiven,       \* bound: observations in a batch
  MaxConcurrent,
  MaxToolRetries,
  MaxCalls,       \* bound: tool calls in an answer
  MaxRounds       \* bound: answers that call tools, in a chat

AgentAssumption ==
  MaxGiven \in Nat /\ MaxConcurrent \in Nat /\ MaxToolRetries \in Nat /\ MaxCalls \in Nat

VARIABLES
  given,          \* observations of the batch, chosen initially
  slots,          \* max_concurrent, chosen initially
  debug,          \* chosen initially
  offered,        \* the tool is one of the agent's tools
  chat,           \* what each chat is doing
  log,            \* its conversation
  calls,          \* the calls of the answer it is at: each one's status
  retries,        \* retry_count
  batch,          \* "gathering", "returned" or "raised"
  returned

agentVars == <<given, slots, debug, offered, chat, log, calls, retries, batch, returned>>

Message(role, ids, error) == [role |-> role, ids |-> ids, error |-> error]

(* What the model may ask for: arguments that are no JSON, that do not fit *)
(* the tool, that are JSON but no object; "g" is of a tool that takes one. *)
Arguments == {"unparsable", "misfit", "list", "list_for_g", "fit"}

(* A TypeError is answered with the names of the arguments given: of a     *)
(* list there are none, and that raises out of the handler.  When          *)
(* debugging they are asked for before the call, where that is caught.     *)
OfList == IF debug THEN "error" ELSE "raises"

(* _execute_tool_call up to the call of the tool. *)
Begun(argument) ==
  CASE argument = "unparsable"                             -> "error"
    [] argument # "unparsable" /\ ~offered                 -> "error"
    [] offered /\ argument = "misfit"                      -> "error"
    [] offered /\ argument = "list"                        -> OfList
    [] offered /\ argument = "list_for_g"                  -> "raises"
    [] offered /\ argument = "fit"                         -> "running"

AgentInit ==
  /\ given \in 0..MaxGiven /\ slots \in 0..MaxConcurrent
  /\ debug \in BOOLEAN /\ offered \in BOOLEAN
  /\ chat = [c \in 1..MaxGiven |-> "waiting"]
  /\ log = [c \in 1..MaxGiven |-> <<>>]
  /\ calls = [c \in 1..MaxGiven |-> <<>>]
  /\ retries = [c \in 1..MaxGiven |-> 0]
  /\ batch = IF given = 0 \/ slots = 0 THEN "raised" ELSE "gathering"
  /\ returned = <<>>

Chats == 1..given
Busy == {c \in Chats : chat[c] \in {"asking", "calling"}}
Become(c, s) == chat' = [chat EXCEPT ![c] = s]
Say(c, msgs) == log' = [log EXCEPT ![c] = @ \o msgs]
ModelAnswers(c) == Cardinality({i \in 1..Len(log[c]) : log[c][i].role = "assistant"})

(* add_tool, remove_tool: any time, by a tool too. *)
ChangeTools ==
  /\ offered' = ~offered
  /\ UNCHANGED <<given, slots, debug, chat, log, calls, retries, batch, returned>>

(* The semaphore lets them in in their order. *)
Acquire(c) ==
  /\ slots > 0
  /\ chat[c] = "waiting" /\ \A d \in 1..(c - 1) : chat[d] # "waiting"
  /\ Cardinality(Busy) < slots
  /\ Become(c, "asking")
  /\ UNCHANGED <<given, slots, debug, offered, log, calls, retries, batch, returned>>

ModelFails(c) ==
  /\ chat[c] = "asking" /\ Become(c, "raised")
  /\ UNCHANGED <<given, slots, debug, offered, log, calls, retries, batch, returned>>

(* Any other finish_reason ends the chat: cut off at its length limit, the *)
(* answer may still have calls in it.                                      *)
FinalAnswer(c) ==
  /\ chat[c] = "asking" /\ Become(c, "done")
  /\ \E n \in {0, 1} :
       Say(c, <<Message("assistant", [k \in 1..n |-> <<Len(log[c]), k>>], FALSE)>>)
  /\ UNCHANGED <<given, slots, debug, offered, calls, retries, batch, returned>>

(* finish_reason is tool_calls, also if there are none. *)
ToolCalls(c) ==
  /\ chat[c] = "asking" /\ ModelAnswers(c) < MaxRounds
  /\ \E n \in 0..MaxCalls : \E arguments \in [1..n -> Arguments] :
       /\ Say(c, <<Message("assistant", [k \in 1..n |-> <<Len(log[c]), k>>], FALSE)>>)
       /\ calls' = [calls EXCEPT ![c] = [k \in 1..n |-> Begun(arguments[k])]]
  /\ Become(c, "calling")
  /\ UNCHANGED <<given, slots, debug, offered, retries, batch, returned>>

(* A tool returns or raises; what it returns may look like an error.       *)
(* Nobody stops it when its chat has raised.                               *)
ToolEnds(c, k) ==
  /\ calls[c][k] = "running"
  /\ \E s \in {"ok", "error"} : calls' = [calls EXCEPT ![c][k] = s]
  /\ UNCHANGED <<given, slots, debug, offered, chat, log, retries, batch, returned>>

Replies(c) ==
  LET ids == Last(log[c]).ids
  IN [k \in 1..Len(calls[c]) |-> Message("tool", <<ids[k]>>, calls[c][k] = "error")]

(* Mutant: the model is told of an error as often as there is one. *)
HintAlways(c) ==
  IF \E k \in 1..Len(calls[c]) : calls[c][k] = "error" THEN <<Message("user", <<>>, FALSE)>> ELSE <<>>

(* The errors are summed up for the model while it has retries left. *)
Hint(c) ==
  IF (\E k \in 1..Len(calls[c]) : calls[c][k] = "error") /\ retries[c] < MaxToolRetries
  THEN <<Message("user", <<>>, FALSE)>> ELSE <<>>

Gathered(c) ==
  /\ chat[c] = "calling" /\ \A k \in 1..Len(calls[c]) : calls[c][k] \in {"ok", "error"}
  /\ Say(c, Replies(c) \o Hint(c))
  /\ retries' = [retries EXCEPT ![c] = @ + Len(Hint(c))]
  /\ calls' = [calls EXCEPT ![c] = <<>>]
  /\ Become(c, "asking")
  /\ UNCHANGED <<given, slots, debug, offered, batch, returned>>

(* gather raises with the first call that does, and leaves the others be. *)
GatherRaises(c) ==
  /\ chat[c] = "calling" /\ \E k \in 1..Len(calls[c]) : calls[c][k] = "raises"
  /\ Become(c, "raised")
  /\ UNCHANGED <<given, slots, debug, offered, log, calls, retries, batch, returned>>

BatchReturns ==
  /\ batch = "gathering" /\ \A c \in Chats : chat[c] = "done"
  /\ batch' = "returned" /\ returned' = [c \in Chats |-> log[c]]
  /\ UNCHANGED <<given, slots, debug, offered, chat, log, calls, retries>>

(* The first chat to raise ends the batch; the others go on, and those     *)
(* that wait still get their slot.                                         *)
BatchRaises ==
  /\ batch = "gathering" /\ \E c \in Chats : chat[c] = "raised"
  /\ batch' = "raised"
  /\ UNCHANGED <<given, slots, debug, offered, chat, log, calls, retries, returned>>

AgentNext ==
  \/ ChangeTools \/ BatchReturns \/ BatchRaises
  \/ \E c \in Chats :
       \/ Acquire(c) \/ ModelFails(c) \/ FinalAnswer(c)
       \/ ToolCalls(c) \/ Gathered(c) \/ GatherRaises(c)
       \/ \E k \in 1..Len(calls[c]) : ToolEnds(c, k)

-----------------------------------------------------------------------------
Hints(msgs) == {i \in 1..Len(msgs) : msgs[i].role = "user"}
WithError(msgs) ==
  {i \in 1..Len(msgs) : msgs[i].role = "assistant"
     /\ \E k \in 1..Len(msgs[i].ids) : i + k <= Len(msgs) /\ msgs[i + k].error}

(* The calls of every answer but the last are answered right behind it,    *)
(* once each and in their order, and nothing else is.                      *)
Answered(msgs) ==
  /\ \A i \in 1..(Len(msgs) - 1) : msgs[i].role = "assistant" =>
       \A k \in 1..Len(msgs[i].ids) :
         i + k <= Len(msgs) /\ msgs[i + k].role = "tool" /\ msgs[i + k].ids = <<msgs[i].ids[k]>>
  /\ \A i \in 1..Len(msgs) : msgs[i].role = "tool" =>
       \E j \in 1..(i - 1) : msgs[j].role = "assistant" /\ i - j <= Len(msgs[j].ids)

(* Whatever the tools and the other chats do, every request to the model   *)
(* carries a conversation in which each earlier call is answered once, and *)
(* has been told of as many errors as there were answers with one, up to   *)
(* max_tool_retries.  What batch returns is each observation's own whole   *)
(* conversation, with no open call but in its last message; it returns     *)
(* only if none of them raised, and raises only if one did.                *)
ConversationSound ==
  /\ \A c \in Chats : chat[c] \in {"asking", "done"} =>
       /\ Answered(log[c])
       /\ Cardinality(Hints(log[c])) = Min({Cardinality(WithError(log[c])), MaxToolRetries})
  /\ batch = "returned" => \A c \in Chats : chat[c] = "done" /\ returned[c] = log[c]
  /\ batch = "raised" => Chats = {} \/ slots = 0 \/ \E c \in Chats : chat[c] = "raised"
=============================================================================
