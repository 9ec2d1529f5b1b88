----------------------------- MODULE MCLlmCalls ------------------------------
(***************************************************************************)
(* A small instance of LlmCalls: replies with text, with two function      *)
(* calls, with arguments that were cut off and with nothing at all.  An    *)
(* object and a value that is none are JSON alike.                         *)
(***************************************************************************)
EXTENDS LlmCalls

CONSTANTS c1, c2, c3

Args == <<"a", "b">>

\* The text of an object, in two pieces, and that of another value.
MCJsonTexts == {Args, <<"b">>}

Function(id, name, args) == [id |-> id, name |-> name, args |-> args]

Reply(text, functions, stop) ==
  [text |-> text, calls |-> functions, stop |-> stop,
   content |-> <<>>]

Plain == Reply(<<"y">>, <<>>, "other")
Cut == Reply(<<>>, <<Function("i", "f", <<"a">>)>>, "length")
Empty == Reply(<<>>, <<>>, "content_filter")
Two == Reply(<<"x">>, <<Function("i", "f", Args), Function("j", "g", <<"b">>)>>,
             "tool_calls")
Long == [Two EXCEPT !.text = <<"x", "y">>]

\* Anthropic's blocks of a reply, with a block that the client drops in front.
Blocks(r) == <<[TextBlock(<<>>) EXCEPT !.type = "thinking"]>>
               \o OpenAiContent(r.text, r.calls)

Anthropic(r) == [r EXCEPT !.content = Blocks(r), !.stop = FinishReason(r.stop)]

Message(role, form, content) == [role |-> role, form |-> form, content |-> content]

Use(ids) == [i \in DOMAIN ids |-> ToolBlock(ids[i], "f", <<>>)]

Results(ids) ==
  [i \in DOMAIN ids |->
     [ToolBlock(ids[i], NULL, <<>>) EXCEPT !.type = "tool_result"]]

Say == <<TextBlock(<<"x">>)>>

\* The steps of a conversation: texts, an empty answer, and tool calls with all
\* of their results, also together with text of the user.
Exchanges ==
  {<<Message("user", "str", <<>>)>>, <<Message("user", "list", Say)>>,
   <<Message("assistant", "list", <<>>)>>, <<Message("user", "other", <<>>)>>}
  \cup
  {<<Message("assistant", "list", use), Message("user", "list", told)>> :
       use \in {Use(<<"i">>), Say \o Use(<<"i", "j">>)},
       told \in {Results(<<"j", "i">>), Say \o Results(<<"i">>)}}

Histories ==
  LET steps == {e \in Exchanges : PairedHistory(e)}
  IN  {d \o e : d \in {x \in steps : Len(x) = 2}, e \in steps}

Request(provider, method, reply, history) ==
  [provider |-> provider, method |-> method, reply |-> reply,
   history |-> history]

\* One call streams from OpenAI, one uses the other methods and Anthropic, and
\* one is there to fill the ring buffer.
MCRequests ==
  c1 :> {Request("openai", "messages_stream", r, <<>>) : r \in {Two, Cut, Empty}}
  @@ c2 :> {Request("anthropic", "messages_stream", Anthropic(Long), <<>>)}
           \cup {Request("anthropic", m, Anthropic(r), <<>>) :
                   m \in {"tool_call", "messages"}, r \in {Two, Empty}}
           \cup {Request("openai", m, r, <<>>) :
                   m \in {"tool_call", "messages"}, r \in {Two, Cut}}
           \cup {Request("openai", "tool_call", Empty, <<>>)}
           \cup {Request("openai", "messages", Empty, h) : h \in Histories}
  @@ c3 :> {Request("openai", "tool_call", Plain, <<>>)}
=============================================================================
