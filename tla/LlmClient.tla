----------------------------- MODULE LlmClient ------------------------------
(***************************************************************************)
(* services/llm_client.py: one interface over the Anthropic and the OpenAI *)
(* SDK.  What a provider answers is normalised to a list of content blocks *)
(* in Anthropic's shape, and a history kept in that shape is converted for *)
(* OpenAI.  Texts and JSON arguments are sequences of the pieces that the  *)
(* provider sends; an empty sequence is the empty string.                  *)
(***************************************************************************)
EXTENDS Rankings, SequencesExt

CONSTANTS
  JsonTexts,  \* the texts that are JSON: an object, but also any other value
  NULL

Provider == {"anthropic", "openai"}
Method == {"tool_call", "messages", "messages_stream"}

TextBlock(text) ==
  [type |-> "text", text |-> text, id |-> NULL, name |-> NULL, input |-> <<>>]

ToolBlock(id, name, input) ==
  [type |-> "tool_use", text |-> <<>>, id |-> id, name |-> name,
   input |-> input]

\* The blocks of a type, in their order.
OfType(content, type) ==
  Pick(content, {i \in DOMAIN content : content[i].type = type})

\* json.loads of the arguments.  A value stands for itself as its text, and <<>>
\* for {}: what does not parse becomes {}, as "" does, but a value that is no
\* object, a list or a number, is handed on as it is.
JsonLoads(args) == IF args \in JsonTexts THEN args ELSE <<>>
-----------------------------------------------------------------------------
(***************************************************************************)
(* What a provider answers: Anthropic a list of blocks, also of types that *)
(* the client drops, and OpenAI a text and a list of function calls.       *)
(***************************************************************************)
AnthropicContent(reply) ==
  Keep(reply.content, {b \in Range(reply.content) : b.type \in {"text", "tool_use"}})

OpenAiContent(text, calls) ==
  (IF text = <<>> THEN <<>> ELSE <<TextBlock(text)>>)
    \o [i \in DOMAIN calls |->
          ToolBlock(calls[i].id, calls[i].name, JsonLoads(calls[i].args))]

FinishReasons == [stop |-> "end_turn", tool_calls |-> "tool_use",
                  length |-> "max_tokens", content_filter |-> "stop_sequence"]

FinishReason(reason) ==
  IF reason \in DOMAIN FinishReasons THEN FinishReasons[reason] ELSE reason

\* messages(): the blocks and the reason, in Anthropic's vocabulary.
AnthropicMessages(reply) ==
  [content |-> AnthropicContent(reply), stop_reason |-> reply.stop]

OpenAiMessages(reply) ==
  [content     |-> OpenAiContent(reply.text, reply.calls),
   stop_reason |-> FinishReason(reply.stop)]

\* tool_call(): one call with the text around it, or only the text.  Anthropic's
\* client keeps the last call of a reply and OpenAI's the first, and OpenAI's
\* finish reason is not translated here.
ToolResult(block, text, stop) ==
  [tool |-> block.name, input |-> block.input, raw_text |-> text,
   stop_reason |-> stop]

TextOnly(text, stop) ==
  [tool |-> NULL, input |-> <<>>, raw_text |-> text, stop_reason |-> stop]

AnthropicToolCall(reply) ==
  LET tools == OfType(reply.content, "tool_use")
      texts == OfType(reply.content, "text")
      text  == Flat([i \in DOMAIN texts |-> texts[i].text])
  IN  IF tools = <<>> THEN TextOnly(text, reply.stop)
                      ELSE ToolResult(Last(tools), text, reply.stop)

OpenAiToolCall(reply) ==
  LET content == OpenAiContent(<<>>, reply.calls)
  IN  IF content = <<>> THEN TextOnly(reply.text, reply.stop)
                        ELSE ToolResult(Head(content), reply.text, reply.stop)

Answer(provider, method, reply) ==
  CASE provider = "anthropic" /\ method = "tool_call" -> AnthropicToolCall(reply)
    [] provider = "anthropic" /\ method # "tool_call" -> AnthropicMessages(reply)
    [] provider = "openai" /\ method = "tool_call" -> OpenAiToolCall(reply)
    [] provider = "openai" /\ method # "tool_call" -> OpenAiMessages(reply)
-----------------------------------------------------------------------------
(***************************************************************************)
(* OpenAI's stream: fragments of the function calls, keyed by their index. *)
(* The first fragment of a call names it, the next ones append to its      *)
(* arguments, and fragments of several calls may alternate.                *)
(***************************************************************************)
\* What no chunk has brought yet.
Unset == ""

NewFragment == [id |-> Unset, name |-> Unset, args |-> <<>>]

\* A mutant: a later piece of the arguments replaces the earlier ones.
AddFragmentOverwrites(frags, f) ==
  [i \in DOMAIN frags \cup {f.index} |->
     IF i # f.index THEN frags[i]
     ELSE LET old == IF i \in DOMAIN frags THEN frags[i] ELSE NewFragment
          IN  [id   |-> IF f.id = Unset THEN old.id ELSE f.id,
               name |-> IF f.name = Unset THEN old.name ELSE f.name,
               args |-> IF f.args = <<>> THEN old.args ELSE f.args]]

AddFragment(frags, f) ==
  [i \in DOMAIN frags \cup {f.index} |->
     IF i # f.index THEN frags[i]
     ELSE LET old == IF i \in DOMAIN frags THEN frags[i] ELSE NewFragment
          IN  [id   |-> IF f.id = Unset THEN old.id ELSE f.id,
               name |-> IF f.name = Unset THEN old.name ELSE f.name,
               args |-> old.args \o f.args]]

\* The content of message_stop: the text, then the calls by their index.
StreamedMessages(text, frags, finish) ==
  [content     |-> OpenAiContent(text, Pick(frags, DOMAIN frags)),
   stop_reason |-> FinishReason(finish)]
-----------------------------------------------------------------------------
(***************************************************************************)
(* A history for OpenAI.  The content of a message is a plain string, a    *)
(* list of blocks, or something else that is skipped.                      *)
(***************************************************************************)
OpenAiMessage(role, text, calls, answers) ==
  [role |-> role, text |-> text, tool_calls |-> calls, tool_call_id |-> answers]

ToolMessages(content) ==
  LET results == OfType(content, "tool_result")
  IN  [i \in DOMAIN results |-> OpenAiMessage("tool", TRUE, <<>>, results[i].id)]

UserText(content) ==
  IF OfType(content, "text") = <<>> THEN <<>>
  ELSE <<OpenAiMessage("user", TRUE, <<>>, NULL)>>

\* A mutant: the user's text comes before the results of the tools.
UserMessagesTextFirst(content) == UserText(content) \o ToolMessages(content)

UserMessages(content) == ToolMessages(content) \o UserText(content)

AssistantMessages(content) ==
  LET texts == OfType(content, "text")
      tools == OfType(content, "tool_use")
  IN  IF texts = <<>> /\ tools = <<>> THEN <<>>
      ELSE <<OpenAiMessage("assistant", texts # <<>>,
                           [i \in DOMAIN tools |-> tools[i].id], NULL)>>

ConvertMessage(m) ==
  CASE m.form = "str" -> <<OpenAiMessage(m.role, TRUE, <<>>, NULL)>>
    [] m.form = "list" /\ m.role = "user" -> UserMessages(m.content)
    [] m.form = "list" /\ m.role = "assistant" -> AssistantMessages(m.content)
    [] OTHER -> <<>>

MessagesToOpenAi(system, history) ==
  (IF system THEN <<OpenAiMessage("system", TRUE, <<>>, NULL)>> ELSE <<>>)
    \o Flat([i \in DOMAIN history |-> ConvertMessage(history[i])])
-----------------------------------------------------------------------------
\* create_llm_client: the client of a provider with its API key, else an error.
CreateClient(provider, keys) ==
  IF provider \in Provider /\ provider \in keys THEN provider ELSE "error"
=============================================================================
