------------------------------ MODULE LlmCalls -------------------------------
(***************************************************************************)
(* Calls of the language model in flight: the client's methods wrapped by  *)
(* obs/tracing.py, which reports every call to the ring buffer of          *)
(* obs/metrics.py, which GET /ai/stats sums up.  A plain method reports    *)
(* when it returns or raises.  A stream is a generator that runs only      *)
(* while its consumer asks for the next event; it reports in a finally     *)
(* block, when it is exhausted, when the provider fails and when its       *)
(* consumer closes it.                                                     *)
(***************************************************************************)
EXTENDS LlmClient

CONSTANTS
  Call,        \* the calls of a behaviour, each on a thread of its own
  Requests,    \* what each call may ask and what the provider would answer
  MaxRecords,  \* the size of the ring buffer
  Windows,     \* the windows, in seconds, asked of /ai/stats
  MaxNow       \* bound: the last second

\* A function call of a reply of OpenAI, its arguments in pieces.
FunctionCall == [id : STRING, name : STRING, args : Seq(STRING)]

IsList(s) == s \in Seq(Range(s))

ASSUME CallsAssumption ==
  /\ MaxRecords \in Nat \ {0} /\ MaxNow \in Nat
  /\ Windows \subseteq Nat
  /\ \A c \in Call : \A r \in Requests[c] :
       /\ r.provider \in Provider /\ r.method \in Method
       /\ r.reply.text \in Seq(STRING) /\ r.reply.calls \in Seq(FunctionCall)
       /\ IsList(r.history)
       /\ \A m \in Range(r.history) :
            m.role \in {"user", "assistant"} /\ IsList(m.content)

VARIABLES
  calls,    \* the state of each call
  records,  \* the ring buffer, the oldest record first
  now

vars == <<calls, records, now>>

Idle == [pc |-> "idle"]

PC == {"idle", "created", "waiting", "reading", "yielded", "stopped",
       "returned", "append", "done", "unused"}

Init ==
  /\ calls = [c \in Call |-> Idle]
  /\ records = <<>>
  /\ now = 0

\* A new call.  "sent" is how much of its reply the provider has streamed; "text",
\* "frags" and "finish" are the buffers of messages_stream; "events" are the text
\* deltas that the consumer got; "result" is what the caller got in the end.
NewCall(r) ==
  [pc     |-> IF r.method = "messages_stream" THEN "created" ELSE "waiting",
   req    |-> r,
   start  |-> now,
   sent   |-> [text |-> 0, finish |-> FALSE,
               calls |-> [i \in DOMAIN r.reply.calls |-> 0]],
   text   |-> <<>>,
   frags  |-> [i \in {} |-> NewFragment],
   finish |-> Unset,
   events |-> <<>>,
   result |-> NULL,
   error  |-> FALSE,
   ts     |-> 0]

Only(c, new) == calls' = [calls EXCEPT ![c] = new] /\ UNCHANGED <<records, now>>

\* The wrapped method has ended: _record takes the time and the error, and what
\* the method had buffered is gone.
Ended(call, error) ==
  [pc |-> "append", provider |-> call.req.provider, error |-> error, ts |-> now,
   latency |-> now - call.start]

Begin(c, r) == calls[c].pc = "idle" /\ Only(c, NewCall(r))
-----------------------------------------------------------------------------
(***************************************************************************)
(* Plain methods.                                                          *)
(***************************************************************************)
Return(c) ==
  LET r == calls[c].req IN
  /\ calls[c].pc = "waiting"
  /\ Only(c, [calls[c] EXCEPT !.pc = "returned",
                             !.result = Answer(r.provider, r.method, r.reply)])

\* A mutant: a wrapper without an except clause, the call is never reported.
RaiseUnreported(c) ==
  /\ calls[c].pc \in {"waiting", "reading"}
  /\ Only(c, [pc |-> "unused"])

\* The SDK raises, or the reply has not the shape the client expects.
Raise(c) ==
  /\ calls[c].pc \in {"waiting", "reading"}
  /\ Only(c, Ended(calls[c], TRUE))
-----------------------------------------------------------------------------
(***************************************************************************)
(* Streams.                                                                *)
(***************************************************************************)
\* The consumer's first next(): only now the generator starts to run.
Iterate(c) ==
  /\ calls[c].pc = "created"
  /\ Only(c, [calls[c] EXCEPT !.pc = "reading", !.start = now])

\* A chunk with text is kept and passed on.
TextChunk(c) ==
  LET call == calls[c]
      k    == call.sent.text + 1
  IN  /\ call.pc = "reading"
      /\ k <= Len(call.req.reply.text)
      /\ Only(c, [call EXCEPT !.pc        = "yielded",
                              !.sent.text = k,
                              !.text      = Append(@, call.req.reply.text[k]),
                              !.events    = Append(@, call.req.reply.text[k])])

\* The chunks of function call i: its id and name, then its arguments piece by
\* piece.  Anthropic's SDK collects the blocks of a reply, the client sees none.
Fragment(call, i) ==
  LET n == call.sent.calls[i]
      f == call.req.reply.calls[i]
  IN  IF n = 0 THEN [index |-> i, id |-> f.id, name |-> f.name, args |-> <<>>]
      ELSE [index |-> i, id |-> Unset, name |-> Unset, args |-> <<f.args[n]>>]

ToolChunk(c, i) ==
  LET call == calls[c] IN
  /\ call.pc = "reading"
  /\ call.req.provider = "openai"
  /\ call.sent.calls[i] <= Len(call.req.reply.calls[i].args)
  /\ Only(c, [call EXCEPT !.sent.calls[i] = @ + 1,
                          !.frags = AddFragment(@, Fragment(call, i))])

AllSent(call) ==
  /\ call.sent.text = Len(call.req.reply.text)
  /\ \A i \in DOMAIN call.req.reply.calls :
       call.req.provider = "openai" =>
         call.sent.calls[i] = Len(call.req.reply.calls[i].args) + 1

LastChunk(c) ==
  LET call == calls[c] IN
  /\ call.pc = "reading"
  /\ AllSent(call) /\ ~call.sent.finish
  /\ Only(c, [call EXCEPT !.sent.finish = TRUE, !.finish = call.req.reply.stop])

\* The stream is exhausted: message_stop with the whole content.
StopEvent(c) ==
  LET call == calls[c] IN
  /\ call.pc = "reading"
  /\ call.sent.finish
  /\ Only(c, [call EXCEPT
                !.pc = "stopped",
                !.result = IF call.req.provider = "openai"
                           THEN StreamedMessages(call.text, call.frags,
                                                 call.finish)
                           ELSE AnthropicMessages(call.req.reply)])

\* The consumer asks for the next event; after the last one, and after a plain
\* method, the call is reported.
Resume(c) ==
  \/ /\ calls[c].pc = "yielded"
     /\ Only(c, [calls[c] EXCEPT !.pc = "reading"])
  \/ /\ calls[c].pc \in {"stopped", "returned"}
     /\ Only(c, Ended(calls[c], FALSE))

\* A mutant: the report follows the loop instead of standing in a finally block.
CloseUnreported(c) ==
  /\ calls[c].pc \in {"created", "yielded", "stopped"}
  /\ Only(c, [Ended(calls[c], FALSE) EXCEPT !.pc = "done"])

\* The consumer drops the generator: GeneratorExit is raised at the yield, and
\* it is no Exception.  A generator that never ran has no finally block to run.
Close(c) ==
  \/ /\ calls[c].pc \in {"yielded", "stopped"}
     /\ Only(c, Ended(calls[c], FALSE))
  \/ /\ calls[c].pc = "created"
     /\ Only(c, [calls[c] EXCEPT !.pc = "unused"])
-----------------------------------------------------------------------------
(***************************************************************************)
(* Metrics.                                                                *)
(***************************************************************************)
\* A mutant: a list without a bound.
RecordCallForever(c) ==
  LET done == [calls[c] EXCEPT !.pc = "done"]
  IN  /\ calls[c].pc = "append"
      /\ records' = Append(records, done)
      /\ calls' = [calls EXCEPT ![c] = done]
      /\ UNCHANGED now

\* record_llm_call: the deque drops its oldest record when it is full.
RecordCall(c) ==
  LET kept == IF Len(records) = MaxRecords THEN Tail(records) ELSE records
      done == [calls[c] EXCEPT !.pc = "done"]
  IN  /\ calls[c].pc = "append"
      /\ records' = Append(kept, done)
      /\ calls' = [calls EXCEPT ![c] = done]
      /\ UNCHANGED now

Tick == now < MaxNow /\ now' = now + 1 /\ UNCHANGED <<calls, records>>

\* sorted(): the places of the numbers of a list, those of smaller ones first.
ByValue(values) ==
  Sorted(DOMAIN values,
         {p \in (DOMAIN values) \X (DOMAIN values) :
            \/ values[p[1]] < values[p[2]]
            \/ values[p[1]] = values[p[2]] /\ p[1] < p[2]})

\* A mutant: the rank is rounded down.
PercentileFloor(values, pct) ==
  LET n == Cardinality(DOMAIN values)
      k == Max({1, (pct * n) \div 100})
  IN  IF n = 0 THEN 0 ELSE values[ByValue(values)[Min({k, n})]]

\* The nearest-rank percentile of the numbers at some places of a list.
Percentile(values, pct) ==
  LET n == Cardinality(DOMAIN values)
      k == Max({1, (pct * n + 99) \div 100})
  IN  IF n = 0 THEN 0 ELSE values[ByValue(values)[Min({k, n})]]

\* The numbers of summary() that count calls; rows are places in the buffer.
Summary(window) ==
  LET rows == {i \in DOMAIN records : records[i].ts >= now - Max({1, window})}
  IN  [total_calls |-> Cardinality(rows),
       errors      |-> Cardinality({i \in rows : records[i].error}),
       p95         |-> Percentile([i \in rows |-> records[i].latency], 95),
       by_provider |-> [p \in Provider |->
                          Cardinality({i \in rows : records[i].provider = p})]]

\* GET /ai/stats is for administrators only.
GetStats(role, window) == IF role = "admin" THEN Summary(window) ELSE NULL
-----------------------------------------------------------------------------
CallStep(c) ==
  \/ Return(c) \/ Raise(c)
  \/ Iterate(c) \/ TextChunk(c) \/ LastChunk(c) \/ StopEvent(c)
  \/ calls[c].pc = "reading"
       /\ \E i \in DOMAIN calls[c].req.reply.calls : ToolChunk(c, i)
  \/ Resume(c) \/ Close(c)
  \/ RecordCall(c)

Next ==
  \/ \E c \in Call : \E r \in Requests[c] : Begin(c, r)
  \/ \E c \in Call : CallStep(c)
  \/ Tick

Spec == Init /\ [][Next]_vars

\* The provider's SDK returns, raises or times out, and a consumer asks for the
\* next event or drops the generator.
FairSpec == Spec /\ \A c \in Call : WF_vars(CallStep(c))
-----------------------------------------------------------------------------
\* The states of the calls, and the ring buffer stays within its size.
TypeOK ==
  /\ \A c \in Call : calls[c].pc \in PC
  /\ now \in 0..MaxNow
  /\ Len(records) <= MaxRecords

Started(c) == calls[c].pc \notin {"idle", "created", "unused"}

Running(c) == Started(c) /\ calls[c].pc \notin {"append", "done"}

\* A stream that was read to its end gives the caller what the plain method
\* would have given for the same reply, however the provider cut it into chunks
\* and whatever order the fragments of its function calls came in; and the
\* consumer has been shown all of the text.
StreamIsTheReply ==
  \A c \in Call :
    Running(c) /\ calls[c].result # NULL =>
      LET r == calls[c].req IN
      /\ calls[c].result = Answer(r.provider, r.method, r.reply)
      /\ r.method = "messages_stream" => calls[c].events = r.reply.text

\* The order of messages that OpenAI accepts: the results of tools follow the
\* assistant message that called them, one for each call and no others.
Accepts(out) ==
  \A k \in DOMAIN out :
    /\ out[k].role = "tool" =>
         \E j \in 1..(k - 1) :
           /\ out[k].tool_call_id \in Range(out[j].tool_calls)
           /\ \A i \in (j + 1)..k : out[i].role = "tool"
    /\ \A n \in DOMAIN out[k].tool_calls :
         \E j \in DOMAIN out :
           /\ out[j].tool_call_id = out[k].tool_calls[n]
           /\ j > k /\ \A i \in (k + 1)..j : out[i].role = "tool"
    /\ out[k].role = "assistant" => out[k].text \/ out[k].tool_calls # <<>>

Ids(m, role, type) ==
  {m.content[i].id : i \in {k \in DOMAIN m.content : /\ m.form = "list" /\ m.role = role
                                                    /\ m.content[k].type = type}}

\* What an assistant message calls is what the next message answers, and nothing
\* else is answered.
PairedHistory(h) ==
  \A i \in 0..Len(h) :
    (IF i = 0 THEN {} ELSE Ids(h[i], "assistant", "tool_use"))
      = (IF i = Len(h) THEN {} ELSE Ids(h[i + 1], "user", "tool_result"))

\* A history whose tool calls are answered stays one when it is converted.
HistoryAccepted ==
  \A c \in Call :
    Running(c) /\ PairedHistory(calls[c].req.history) =>
      Accepts(MessagesToOpenAi(TRUE, calls[c].req.history))

Done == {c \in Call : calls[c].pc = "done"}

Recent(window) == {c \in Done : calls[c].ts >= now - Max({1, window})}

\* /ai/stats counts every call that ran exactly once, with an error exactly when
\* the caller got one, until the ring buffer is full; then it counts as many as
\* the buffer holds.
StatsCountEveryCall ==
  /\ Len(records) = Min({MaxRecords, Cardinality(Done)})
  /\ \A w \in Windows :
       LET s == GetStats("admin", w) IN
       Cardinality(Done) <= MaxRecords =>
         /\ s.total_calls = Cardinality(Recent(w))
         /\ s.errors = Cardinality({c \in Recent(w) : calls[c].error})
         /\ \A p \in Provider :
              s.by_provider[p] = Cardinality({c \in Recent(w) : calls[c].provider = p})

\* The 95th percentile of /ai/stats is one of the latencies and no less than 95
\* of 100 of them.
NearestRank ==
  \A w \in Windows :
    LET p95 == GetStats("admin", w).p95 IN
    Cardinality(Done) <= MaxRecords /\ Recent(w) # {} =>
      /\ p95 \in {calls[c].latency : c \in Recent(w)}
      /\ 100 * Cardinality({c \in Recent(w) : calls[c].latency <= p95})
           >= 95 * Cardinality(Recent(w))

\* Every call that began to run is reported in the end, whatever its consumer
\* does with the stream.
EveryCallReported ==
  \A c \in Call : Started(c) ~> calls[c].pc = "done"
=============================================================================
