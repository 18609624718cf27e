---------------------------- MODULE ModelClient ----------------------------
(***************************************************************************)
(* How a transcript becomes a request of a language model and a response   *)
(* becomes a reply (pkg/llm): the OpenAI, Anthropic and echo completers.   *)
(*                                                                         *)
(* A message is a record: its role, whether it has text, the tool calls it *)
(* makes (assistant) or the call it answers (tool).  Wording is left out.  *)
(***************************************************************************)
EXTENDS Integers, Sequences, SequencesExt

CONSTANT NoCall    \* the ToolCallID of a message that answers no call

Message(role, text, calls, callID, by) ==
  [role |-> role, text |-> text, calls |-> calls, callID |-> callID, by |-> by]

UserMessage(by)            == Message("user", TRUE, <<>>, NoCall, by)
AssistantMessage(t, cs, by) == Message("assistant", t, cs, NoCall, by)
ToolResultMessage(id, by)  == Message("tool", TRUE, <<>>, id, by)

-----------------------------------------------------------------------------
(* Requests.  A parameter of the wire format is one block: who speaks, the    *)
(* tool uses in it and the tool results in it.                                *)

Block(m) ==
  [role    |-> IF m.role = "tool" THEN "user" ELSE m.role,
   uses    |-> m.calls,
   answers |-> IF m.role = "tool" THEN <<m.callID>> ELSE <<>>]

\* A plausible bug: each tool result becomes a user message of its own.
MapMessagesApart(out, m) == Append(out, Block(m))

\* Consecutive tool results become one user message.
MapMessagesStep(out, m) ==
  IF m.role = "tool" /\ out # <<>> /\ Last(out).answers # <<>>
  THEN Append(Front(out), [Last(out) EXCEPT !.answers = Append(@, m.callID)])
  ELSE Append(out, Block(m))

\* Anthropic: mapMessages.
AnthropicParams(messages) == FoldLeft(MapMessagesStep, <<>>, messages)

\* OpenAI: one parameter for each message; a tool result keeps its own.
OpenAIBlock(m) == [Block(m) EXCEPT !.role = m.role]

OpenAIParams(messages) == [i \in DOMAIN messages |-> OpenAIBlock(messages[i])]

(* What the services accept (external).  Each refuses a request in which a    *)
(* tool use is not answered by what directly follows it, an answer that does  *)
(* not belong to what directly precedes it, and two answers to one use.       *)

\* The same uses and answers, each once.
Answers(answers, uses) ==
  /\ Len(answers) = Len(uses)
  /\ ToSet(answers) = ToSet(uses)

AnthropicAccepts(params) ==
  \A i \in DOMAIN params :
     /\ params[i].uses # <<>> =>
          i < Len(params) /\ Answers(params[i + 1].answers, params[i].uses)
     /\ params[i].answers # <<>> => i > 1 /\ params[i - 1].uses # <<>>

OpenAIAccepts(params) ==
  LET \* the assistant message whose answers may stand at i
      asker(i) == CHOOSE j \in 0..(i - 1) :
                    /\ j = 0 \/ params[j].role # "tool"
                    /\ \A k \in (j + 1)..(i - 1) : params[k].role = "tool"
  IN  \A i \in DOMAIN params :
        /\ params[i].role = "tool" =>
             /\ asker(i) # 0
             /\ ToSet(params[i].answers) \subseteq ToSet(params[asker(i)].uses)
        /\ params[i].uses # <<>> =>
             LET n == Len(params[i].uses) IN
             /\ i + n <= Len(params)
             /\ Answers([k \in 1..n |-> IF params[i + k].answers = <<>>
                                        THEN NoCall
                                        ELSE params[i + k].answers[1]],
                        params[i].uses)
             /\ i + n < Len(params) => params[i + n + 1].role # "tool"

-----------------------------------------------------------------------------
(* Replies.                                                                   *)

\* Why a service says it stopped, and the finish reason it is mapped to; any
\* other reason ("" below) has none.
OpenAIFinish ==
  [stop |-> "stop", tool_calls |-> "tool_calls", length |-> "length",
   content_filter |-> ""]

AnthropicFinish ==
  [end_turn |-> "stop", tool_use |-> "tool_calls", max_tokens |-> "length",
   refusal |-> ""]

FinishReason(provider, why) ==
  IF provider = "openai" THEN OpenAIFinish[why] ELSE AnthropicFinish[why]

\* The echo completer: stops after a tool result, and otherwise calls reply,
\* or says the text of the last user message when there is no reply tool.
EchoReply(messages, replyTool) ==
  LET nothing == [finish |-> "stop", text |-> FALSE, calls |-> 0]
  IN  IF messages = <<>> \/ Last(messages).role = "tool" THEN nothing
      ELSE IF \A i \in DOMAIN messages : messages[i].role # "user" THEN nothing
      ELSE IF replyTool THEN [finish |-> "tool_calls", text |-> FALSE, calls |-> 1]
      ELSE [finish |-> "stop", text |-> TRUE, calls |-> 0]

\* What Complete may return for a request.  A service says something, uses up to
\* maxCalls tools or neither, whatever its reason to stop; if that is tool use
\* there is one.  (Text beside tool uses makes no difference here.)
Replies(provider, messages, replyTool, maxCalls) ==
  IF provider = "echo" THEN {EchoReply(messages, replyTool)}
  ELSE {r \in {[finish |-> FinishReason(provider, why), text |-> t, calls |-> n] :
                 why \in DOMAIN (IF provider = "openai" THEN OpenAIFinish
                                                        ELSE AnthropicFinish),
                 t \in BOOLEAN, n \in 0..maxCalls} :
          /\ r.finish = "tool_calls" => r.calls > 0
          /\ r.calls > 0 => ~r.text}

\* What Extract may make of a reply that was forced to call the tool of the
\* schema: a value, or nothing when the model failed, called no tool, or its
\* arguments do not decode.
Nothing == <<>>
Extractions(values) == {Nothing} \union {<<v>> : v \in values}

=============================================================================
