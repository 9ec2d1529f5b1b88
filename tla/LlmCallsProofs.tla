--------------------------- MODULE LlmCallsProofs ---------------------------
(***************************************************************************)
(* Proofs about LlmCalls: what a stream gives its caller, what the         *)
(* statistics count and rank, and what a converted history is, for any     *)
(* replies and histories, any way a provider cuts its replies into chunks, *)
(* any number of concurrent calls and any size of the buffer.              *)
(***************************************************************************)
EXTENDS LlmCalls, RankingsProofs, FunctionTheorems

\* A row of the ring buffer.
CallRecord == [pc : {"done"}, provider : Provider, error : BOOLEAN, ts : Int,
               latency : Int]

\* The fields of a call in flight.
Field == {"pc", "req", "start", "sent", "text", "frags", "finish", "events",
          "result", "error", "ts"}

\* The text is a beginning of the reply's, and so is each function call.
TextOK(call) ==
  LET text == call.req.reply.text
      n    == call.sent.text
  IN  /\ call.text \in Seq(STRING) /\ n \in Nat
      /\ Len(call.text) = n /\ n <= Len(text)
      /\ \A k \in 1..n : call.text[k] = text[k]
      /\ call.events = call.text

FragmentOK(fragment, f, n) ==
  /\ fragment.id = f.id /\ fragment.name = f.name
  /\ fragment.args \in Seq(STRING) /\ Len(fragment.args) = n - 1
  /\ n - 1 <= Len(f.args)
  /\ \A k \in 1..(n - 1) : fragment.args[k] = f.args[k]

ToolsOK(call) ==
  LET functions == call.req.reply.calls
      sent      == call.sent.calls
  IN  /\ sent \in [DOMAIN functions -> Nat]
      /\ DOMAIN call.frags = {i \in DOMAIN functions : sent[i] # 0}
      /\ \A i \in DOMAIN call.frags : FragmentOK(call.frags[i], functions[i], sent[i])

\* A stream that is being read.
ReadOK(call) ==
  /\ DOMAIN call.sent = {"text", "calls", "finish"}
  /\ TextOK(call) /\ ToolsOK(call)
  /\ call.sent.finish => AllSent(call) /\ call.finish = call.req.reply.stop
  /\ call.result = NULL

\* What a call in flight keeps of its request, at each label.
FlightOK(c, call) ==
  /\ DOMAIN call = Field
  /\ call.req \in Requests[c] /\ call.start \in Int
  /\ call.pc \in {"waiting", "returned"} => call.req.method # "messages_stream"
  /\ call.pc \notin {"waiting", "returned"} => call.req.method = "messages_stream"
  /\ call.pc = "waiting" => call.result = NULL
  /\ call.pc \in {"created", "reading", "yielded"} => ReadOK(call)
  /\ call.pc \in {"returned", "stopped"} =>
       call.result = Answer(call.req.provider, call.req.method, call.req.reply)
  /\ call.pc = "stopped" => call.events = call.req.reply.text

Flight == {"created", "waiting", "reading", "yielded", "stopped", "returned"}

CallOK(c, call) ==
  /\ call.pc \in PC
  /\ call.pc \in Flight => FlightOK(c, call)
  /\ call.pc = "append" => [call EXCEPT !.pc = "done"] \in CallRecord
  /\ call.pc = "done" => call \in CallRecord

CallsInv == DOMAIN calls = Call /\ \A c \in Call : CallOK(c, calls[c])

\* The places of the reports in the ring buffer, as long as none has left it.
RecordsInv ==
  /\ records \in Seq(CallRecord) /\ IsFiniteSet(Done)
  /\ Len(records) = Min({MaxRecords, Cardinality(Done)})
  /\ Cardinality(Done) <= MaxRecords =>
       \E place \in Bijection(Done, DOMAIN records) :
         \A c \in Done : records[place[c]] = calls[c]

LlmInv == now \in 0..MaxNow /\ CallsInv /\ RecordsInv
-----------------------------------------------------------------------------
(***************************************************************************)
(* One call.                                                               *)
(***************************************************************************)
\* What is known of the requests.
LEMMA RequestFacts ==
  ASSUME NEW c \in Call, NEW r \in Requests[c]
  PROVE  /\ r.provider \in Provider /\ r.method \in Method
         /\ r.reply.text \in Seq(STRING) /\ r.reply.calls \in Seq(FunctionCall)
  BY CallsAssumption

\* A step of one call that reports nothing.
LEMMA OnlyStep ==
  ASSUME LlmInv, NEW c \in Call, NEW new, Only(c, new), CallOK(c, new),
         calls[c].pc # "done", new.pc # "done"
  PROVE  LlmInv'
  <1>1. /\ calls' = [calls EXCEPT ![c] = new] /\ records' = records /\ now' = now
        /\ DOMAIN calls = Call
    BY DEF Only, LlmInv, CallsInv
  <1>2. /\ DOMAIN calls' = Call /\ calls'[c] = new
        /\ \A d \in Call \ {c} : calls'[d] = calls[d]
    BY <1>1
  <1>3. CallsInv'
    <2>1. ASSUME NEW d \in Call
          PROVE  CallOK(d, calls'[d])
      BY <1>2 DEF LlmInv, CallsInv
    <2>2. QED
      BY <1>2, <2>1 DEF CallsInv, CallOK, FlightOK, ReadOK, TextOK, ToolsOK,
                        FragmentOK, AllSent
  <1>4. Done' = Done /\ \A d \in Done : calls'[d] = calls[d]
    BY <1>2 DEF Done
  <1>5. RecordsInv'
    <2>1. /\ records' \in Seq(CallRecord) /\ IsFiniteSet(Done')
          /\ Len(records') = Min({MaxRecords, Cardinality(Done')})
      BY <1>1, <1>4 DEF LlmInv, RecordsInv
    <2>2. ASSUME Cardinality(Done') <= MaxRecords
          PROVE  \E place \in Bijection(Done', DOMAIN records') :
                   \A d \in Done' : records'[place[d]] = calls'[d]
      <3>1. PICK place \in Bijection(Done, DOMAIN records) :
              \A d \in Done : records[place[d]] = calls[d]
        BY <1>4, <2>2 DEF LlmInv, RecordsInv
      <3>2. QED
        BY <1>1, <1>4, <3>1
    <2>3. QED
      BY <2>1, <2>2 DEF RecordsInv
  <1>6. QED
    BY <1>1, <1>3, <1>5 DEF LlmInv

\* A call begins.
LEMMA BeginStep ==
  ASSUME LlmInv, NEW c \in Call, NEW r \in Requests[c], Begin(c, r)
  PROVE  LlmInv'
  <1> DEFINE sent == [text |-> 0, finish |-> FALSE,
                      calls |-> [i \in DOMAIN r.reply.calls |-> 0]]
  <1>1. PICK new : new = NewCall(r)
    OBVIOUS
  <1>2. calls[c].pc = "idle" /\ Only(c, new) /\ now \in Int
    BY <1>1, CallsAssumption DEF Begin, LlmInv
  <1>3. /\ DOMAIN new = Field /\ new.req = r /\ new.start = now
        /\ new.pc = IF r.method = "messages_stream" THEN "created" ELSE "waiting"
        /\ new.sent = sent /\ new.text = <<>> /\ new.events = <<>>
        /\ new.frags = [i \in {} |-> NewFragment] /\ new.result = NULL
    BY <1>1 DEF NewCall, Field
  <1>4. /\ DOMAIN sent = {"text", "calls", "finish"} /\ sent.text = 0
        /\ sent.calls = [i \in DOMAIN r.reply.calls |-> 0]
        /\ sent.finish = FALSE
    OBVIOUS
  <1> HIDE DEF sent
  <1>5. TextOK(new)
    <2>1. r.reply.text \in Seq(STRING)
      BY RequestFacts
    <2>2. Len(r.reply.text) \in Nat
      BY <2>1
    <2>3. QED
      BY <1>3, <1>4, <2>2 DEF TextOK
  <1>6. ToolsOK(new)
    BY <1>3, <1>4 DEF ToolsOK
  <1>7. ReadOK(new)
    BY <1>3, <1>4, <1>5, <1>6 DEF ReadOK
  <1>8. CallOK(c, new)
    BY <1>2, <1>3, <1>7 DEF CallOK, FlightOK, PC
  <1>9. QED
    BY <1>2, <1>3, <1>8, OnlyStep

\* A call in flight.
LEMMA InFlight ==
  ASSUME LlmInv, NEW c \in Call, calls[c].pc \in Flight
  PROVE  /\ FlightOK(c, calls[c]) /\ DOMAIN calls[c] = Field
         /\ calls[c].req \in Requests[c] /\ calls[c].start \in Int /\ now \in Int
  <1>1. FlightOK(c, calls[c])
    BY DEF LlmInv, CallsInv, CallOK
  <1>2. now \in Int
    BY CallsAssumption DEF LlmInv
  <1>3. QED
    BY <1>1, <1>2 DEF FlightOK

\* The method has ended and its report is ready.
LEMMA EndedOK ==
  ASSUME LlmInv, NEW c \in Call, calls[c].pc \in Flight, NEW error \in BOOLEAN,
         Only(c, Ended(calls[c], error))
  PROVE  LlmInv'
  <1>1. PICK new : new = Ended(calls[c], error)
    OBVIOUS
  <1>2. /\ calls[c].req \in Requests[c] /\ calls[c].start \in Int /\ now \in Int
    BY InFlight
  <1>3. calls[c].req.provider \in Provider
    BY <1>2, RequestFacts
  <1>4. /\ new \in [pc : {"append"}, provider : Provider, error : BOOLEAN, ts : Int,
                    latency : Int]
    BY <1>1, <1>2, <1>3 DEF Ended
  <1>5. new.pc = "append" /\ [new EXCEPT !.pc = "done"] \in CallRecord
    BY <1>4 DEF CallRecord
  <1>6. CallOK(c, new)
    BY <1>5 DEF CallOK, PC, Flight
  <1>7. QED
    BY <1>1, <1>5, <1>6, OnlyStep DEF Flight

\* A plain method returns the reply, or raises.
LEMMA PlainStep ==
  ASSUME LlmInv, NEW c \in Call, Return(c) \/ Raise(c)
  PROVE  LlmInv'
  <1>1. CASE Return(c)
    <2>1. PICK call, new :
            /\ call = calls[c]
            /\ new = [call EXCEPT !.pc = "returned",
                                  !.result = Answer(call.req.provider,
                                               call.req.method, call.req.reply)]
      OBVIOUS
    <2>2. call.pc = "waiting" /\ Only(c, new)
      BY <1>1, <2>1 DEF Return
    <2>3. FlightOK(c, call)
      BY <2>1, <2>2, InFlight DEF Flight
    <2>4. /\ DOMAIN new = Field /\ new.pc = "returned" /\ new.req = call.req
          /\ new.start = call.start
          /\ new.result = Answer(call.req.provider, call.req.method, call.req.reply)
      BY <2>1, <2>3 DEF FlightOK, Field
    <2>5. CallOK(c, new)
      BY <2>2, <2>3, <2>4 DEF CallOK, FlightOK, PC
    <2>6. QED
      BY <2>1, <2>2, <2>4, <2>5, OnlyStep
  <1>2. CASE Raise(c)
    BY <1>2, EndedOK DEF Raise, Flight
  <1>3. QED
    BY <1>1, <1>2

\* The stream goes from one label to another, or its clock is set.
LEMMA MoveStep ==
  ASSUME LlmInv, NEW c \in Call, NEW new, Only(c, new),
         calls[c].pc \in {"created", "yielded"}, new.pc = "reading",
         DOMAIN new = Field, new.start \in Int,
         \A f \in Field \ {"pc", "start"} : new[f] = calls[c][f]
  PROVE  LlmInv'
  <1>1. FlightOK(c, calls[c]) /\ ReadOK(calls[c])
    BY InFlight DEF Flight, FlightOK
  <1>2. /\ new.req = calls[c].req /\ new.sent = calls[c].sent
        /\ new.text = calls[c].text /\ new.frags = calls[c].frags
        /\ new.finish = calls[c].finish /\ new.events = calls[c].events
        /\ new.result = calls[c].result
    BY DEF Field
  <1>3. ReadOK(new)
    <2>1. TextOK(new)
      BY <1>1, <1>2 DEF ReadOK, TextOK
    <2>2. ToolsOK(new)
      BY <1>1, <1>2 DEF ReadOK, ToolsOK
    <2>3. AllSent(new) <=> AllSent(calls[c])
      BY <1>2 DEF AllSent
    <2>4. QED
      BY <1>1, <1>2, <2>1, <2>2, <2>3 DEF ReadOK
  <1>4. CallOK(c, new)
    BY <1>1, <1>2, <1>3 DEF CallOK, FlightOK, PC
  <1>5. QED
    BY <1>4, OnlyStep

\* The consumer asks for the first event, or for the next one.
LEMMA ConsumerStep ==
  ASSUME LlmInv, NEW c \in Call, Iterate(c) \/ Resume(c) \/ Close(c)
  PROVE  LlmInv'
  <1>1. CASE Iterate(c)
    <2>1. PICK new : new = [calls[c] EXCEPT !.pc = "reading", !.start = now]
      OBVIOUS
    <2>2. calls[c].pc = "created" /\ Only(c, new)
      BY <1>1, <2>1 DEF Iterate
    <2>3. DOMAIN calls[c] = Field /\ now \in Int
      BY <2>2, InFlight DEF Flight
    <2>4. /\ DOMAIN new = Field /\ new.pc = "reading" /\ new.start = now
          /\ \A f \in Field \ {"pc", "start"} : new[f] = calls[c][f]
      BY <2>1, <2>3 DEF Field
    <2>5. QED
      BY <2>2, <2>3, <2>4, MoveStep
  <1>2. CASE calls[c].pc = "yielded" /\ Only(c, [calls[c] EXCEPT !.pc = "reading"])
    <2>1. PICK new : new = [calls[c] EXCEPT !.pc = "reading"]
      OBVIOUS
    <2>2. DOMAIN calls[c] = Field /\ calls[c].start \in Int
      BY <1>2, InFlight DEF Flight
    <2>3. /\ DOMAIN new = Field /\ new.pc = "reading" /\ new.start = calls[c].start
          /\ \A f \in Field \ {"pc", "start"} : new[f] = calls[c][f]
      BY <2>1, <2>2 DEF Field
    <2>4. QED
      BY <1>2, <2>1, <2>2, <2>3, MoveStep
  <1>3. CASE /\ calls[c].pc \in {"yielded", "stopped", "returned"}
             /\ Only(c, Ended(calls[c], FALSE))
    BY <1>3, EndedOK DEF Flight
  <1>4. CASE calls[c].pc = "created" /\ Only(c, [calls[c] EXCEPT !.pc = "unused"])
    <2>1. PICK new : new = [calls[c] EXCEPT !.pc = "unused"]
      OBVIOUS
    <2>2. DOMAIN calls[c] = Field
      BY <1>4, InFlight DEF Flight
    <2>3. new.pc = "unused"
      BY <2>1, <2>2 DEF Field
    <2>4. CallOK(c, new)
      BY <2>3 DEF CallOK, PC, Flight
    <2>5. QED
      BY <1>4, <2>1, <2>3, <2>4, OnlyStep
  <1>5. QED
    BY <1>1, <1>2, <1>3, <1>4 DEF Resume, Close
-----------------------------------------------------------------------------
(***************************************************************************)
(* The chunks of a stream.                                                 *)
(***************************************************************************)
\* What is known of a stream that is being read.
LEMMA Reading ==
  ASSUME LlmInv, NEW c \in Call, NEW call, call = calls[c], call.pc = "reading"
  PROVE  /\ FlightOK(c, call) /\ ReadOK(call) /\ TextOK(call) /\ ToolsOK(call)
         /\ DOMAIN call = Field /\ DOMAIN call.sent = {"text", "calls", "finish"}
         /\ call.req \in Requests[c] /\ call.req.provider \in Provider
         /\ call.req.method = "messages_stream"
         /\ call.req.reply.text \in Seq(STRING)
         /\ call.req.reply.calls \in Seq(FunctionCall)
  <1>1. FlightOK(c, call)
    BY InFlight DEF Flight
  <1>2. /\ ReadOK(call) /\ DOMAIN call = Field /\ call.req \in Requests[c]
        /\ call.req.method = "messages_stream"
    BY <1>1 DEF FlightOK
  <1>3. TextOK(call) /\ ToolsOK(call) /\ DOMAIN call.sent = {"text", "calls", "finish"}
    BY <1>2 DEF ReadOK
  <1>4. QED
    BY <1>1, <1>2, <1>3, RequestFacts

\* A chunk of text.
LEMMA TextStep ==
  ASSUME LlmInv, NEW c \in Call, TextChunk(c)
  PROVE  LlmInv'
  <1>1. PICK call, k : call = calls[c] /\ k = call.sent.text + 1
    OBVIOUS
  <1>2. PICK x : x = call.req.reply.text[k]
    OBVIOUS
  <1>3. PICK new : new = [call EXCEPT !.pc = "yielded", !.sent.text = k,
                                      !.text = Append(@, x), !.events = Append(@, x)]
    OBVIOUS
  <1>4. /\ call.pc = "reading" /\ k <= Len(call.req.reply.text) /\ Only(c, new)
    BY <1>1, <1>2, <1>3 DEF TextChunk
  <1>5. /\ FlightOK(c, call) /\ ReadOK(call) /\ TextOK(call) /\ ToolsOK(call)
        /\ DOMAIN call = Field /\ DOMAIN call.sent = {"text", "calls", "finish"}
        /\ call.req.reply.text \in Seq(STRING)
    BY <1>1, <1>4, Reading
  <1>6. /\ DOMAIN new = Field /\ new.pc = "yielded" /\ new.req = call.req
        /\ new.start = call.start /\ new.frags = call.frags
        /\ new.finish = call.finish /\ new.result = call.result
        /\ new.text = Append(call.text, x) /\ new.events = Append(call.events, x)
        /\ new.sent = [call.sent EXCEPT !.text = k]
    BY <1>3, <1>5 DEF Field
  <1>7. /\ DOMAIN new.sent = {"text", "calls", "finish"} /\ new.sent.text = k
        /\ new.sent.calls = call.sent.calls /\ new.sent.finish = call.sent.finish
    BY <1>5, <1>6
  <1>8. PICK s, t, n : s = call.text /\ t = call.req.reply.text /\ n = call.sent.text
    OBVIOUS
  <1>9. /\ s \in Seq(STRING) /\ t \in Seq(STRING) /\ n \in Nat /\ Len(s) = n
        /\ k = n + 1 /\ k <= Len(t) /\ x = t[k] /\ \A j \in 1..n : s[j] = t[j]
    BY <1>1, <1>2, <1>4, <1>5, <1>8 DEF TextOK
  <1>10. x \in STRING
    BY <1>9, ElementOfSeq
  <1>11. /\ Append(s, x) \in Seq(STRING) /\ Len(Append(s, x)) = k /\ k \in Nat
         /\ \A j \in 1..k : Append(s, x)[j] = t[j]
    BY <1>9, <1>10
  <1>12. TextOK(new)
    <2>1. call.events = s
      BY <1>5, <1>8 DEF TextOK
    <2>2. /\ new.req.reply.text = t /\ new.sent.text = k
          /\ new.text = Append(s, x) /\ new.events = Append(s, x)
      BY <1>6, <1>7, <1>8, <2>1
    <2>3. QED
      BY <1>9, <1>11, <2>2 DEF TextOK
  <1>13. ToolsOK(new)
    BY <1>5, <1>6, <1>7 DEF ToolsOK
  <1>14. ~call.sent.finish
    <2>1. ASSUME call.sent.finish
          PROVE  FALSE
      <3>1. call.sent.text = Len(call.req.reply.text)
        BY <1>5, <2>1 DEF ReadOK, AllSent
      <3>2. QED
        BY <1>8, <1>9, <3>1
    <2>2. QED
      BY <2>1
  <1>15. ReadOK(new)
    BY <1>5, <1>6, <1>7, <1>12, <1>13, <1>14 DEF ReadOK
  <1>16. CallOK(c, new)
    BY <1>4, <1>5, <1>6, <1>15 DEF CallOK, FlightOK, PC
  <1>17. QED
    BY <1>1, <1>4, <1>6, <1>16, OnlyStep

\* The fragment g is the first of function call i, or brings its n-th piece.
Names(g, i, f) == g.index = i /\ g.id = f.id /\ g.name = f.name /\ g.args = <<>>

Brings(g, i, f, n) ==
  /\ g.index = i /\ g.id = Unset /\ g.name = Unset
  /\ g.args \in Seq(STRING) /\ Len(g.args) = 1 /\ g.args[1] = f.args[n]

\* The fragments new are frags, with n pieces of function call i.
Added(new, frags, i, f, n) ==
  /\ DOMAIN new = DOMAIN frags \cup {i} /\ FragmentOK(new[i], f, n)
  /\ \A j \in DOMAIN frags \ {i} : new[j] = frags[j]

\* The first fragment of a function call names it.
LEMMA FirstFragment ==
  ASSUME NEW frags, NEW i, i \notin DOMAIN frags, NEW f \in FunctionCall,
         NEW g, Names(g, i, f)
  PROVE  Added(AddFragment(frags, g), frags, i, f, 1)
  <1>1. PICK new, args : /\ new = AddFragment(frags, g)
                         /\ args = NewFragment.args \o g.args
    OBVIOUS
  <1>2. g.index = i /\ g.id = f.id /\ g.name = f.name /\ g.args = <<>>
    BY DEF Names
  <1>3. NewFragment.id = Unset /\ NewFragment.name = Unset /\ NewFragment.args = <<>>
    BY DEF NewFragment
  <1>4. /\ DOMAIN new = DOMAIN frags \cup {i}
        /\ \A j \in DOMAIN frags \ {i} : new[j] = frags[j]
    BY <1>1, <1>2 DEF AddFragment
  <1>5. new[i] = [id   |-> IF g.id = Unset THEN NewFragment.id ELSE g.id,
                  name |-> IF g.name = Unset THEN NewFragment.name ELSE g.name,
                  args |-> args]
    BY <1>1, <1>2 DEF AddFragment
  <1>6. new[i].id = f.id /\ new[i].name = f.name /\ new[i].args = args
    BY <1>2, <1>3, <1>5
  <1>7. args = <<>>
    <2>1. <<>> \in Seq(STRING)
      OBVIOUS
    <2>2. <<>> \o <<>> = <<>>
      BY <2>1, ConcatEmptySeq
    <2>3. QED
      BY <1>1, <1>2, <1>3, <2>2
  <1>8. f.args \in Seq(STRING)
    BY DEF FunctionCall
  <1>9. Len(f.args) \in Nat
    BY <1>8
  <1>10. FragmentOK(new[i], f, 1)
    BY <1>6, <1>7, <1>9 DEF FragmentOK
  <1>11. QED
    BY <1>1, <1>4, <1>10 DEF Added

\* A later fragment goes to the end of the arguments.
LEMMA NextFragment ==
  ASSUME NEW frags, NEW i \in DOMAIN frags, NEW f \in FunctionCall,
         NEW n \in Nat \ {0}, n <= Len(f.args), FragmentOK(frags[i], f, n),
         NEW g, Brings(g, i, f, n)
  PROVE  Added(AddFragment(frags, g), frags, i, f, n + 1)
  <1>1. PICK new, piece, old, args : /\ new = AddFragment(frags, g)
                                     /\ piece = g.args /\ args = f.args
                                     /\ old = frags[i].args
    OBVIOUS
  <1>2. PICK all : all = old \o piece
    OBVIOUS
  <1>3. /\ g.index = i /\ g.id = Unset /\ g.name = Unset
        /\ piece \in Seq(STRING) /\ Len(piece) = 1 /\ piece[1] = args[n]
    BY <1>1 DEF Brings
  <1>4. args \in Seq(STRING)
    BY <1>1 DEF FunctionCall
  <1>5. /\ DOMAIN new = DOMAIN frags \cup {i}
        /\ \A j \in DOMAIN frags \ {i} : new[j] = frags[j]
    BY <1>1, <1>3 DEF AddFragment
  <1>6. new[i] = [id |-> frags[i].id, name |-> frags[i].name, args |-> all]
    BY <1>1, <1>2, <1>3 DEF AddFragment
  <1>7. /\ frags[i].id = f.id /\ frags[i].name = f.name
        /\ old \in Seq(STRING) /\ Len(old) = n - 1
        /\ \A k \in 1..(n - 1) : old[k] = args[k]
    BY <1>1 DEF FragmentOK
  <1>8. /\ all \in Seq(STRING) /\ Len(all) = Len(old) + Len(piece)
        /\ \A k \in 1..(Len(old) + Len(piece)) :
             all[k] = IF k <= Len(old) THEN old[k] ELSE piece[k - Len(old)]
    <2>1. old \in Seq(STRING) /\ piece \in Seq(STRING)
      BY <1>3, <1>7
    <2>2. /\ old \o piece \in Seq(STRING)
          /\ Len(old \o piece) = Len(old) + Len(piece)
          /\ \A k \in 1..(Len(old) + Len(piece)) :
               (old \o piece)[k] = IF k <= Len(old) THEN old[k]
                                   ELSE piece[k - Len(old)]
      BY <2>1, ConcatProperties
    <2>3. QED
      BY <1>2, <2>2, Zenon
  <1>9. Len(old) + Len(piece) = n /\ Len(old) = n - 1
    BY <1>3, <1>7
  <1>10. ASSUME NEW k \in 1..n
         PROVE  all[k] = args[k]
    <2>1. CASE k <= n - 1
      <3>1. k \in 1..(n - 1) /\ all[k] = old[k]
        BY <1>8, <1>9, <2>1
      <3>2. QED
        BY <1>7, <3>1
    <2>2. CASE ~(k <= n - 1)
      <3>1. k = n
        BY <2>2
      <3>2. ~(n <= n - 1) /\ n - (n - 1) = 1
        OBVIOUS
      <3>3. all[n] = piece[n - (n - 1)]
        BY <1>8, <1>9, <3>2
      <3>4. QED
        BY <1>3, <3>1, <3>2, <3>3
    <2>3. QED
      BY <2>1, <2>2
  <1>11. new[i].id = f.id /\ new[i].name = f.name /\ new[i].args = all
    BY <1>6, <1>7
  <1>12. FragmentOK(new[i], f, n + 1)
    <2>1. n + 1 - 1 = n /\ Len(all) = n
      BY <1>8, <1>9
    <2>2. /\ new[i].args \in Seq(STRING) /\ Len(new[i].args) = n
          /\ \A k \in 1..n : new[i].args[k] = f.args[k]
      BY <1>1, <1>8, <1>10, <1>11, <2>1
    <2>3. QED
      BY <1>11, <2>1, <2>2 DEF FragmentOK
  <1>13. QED
    BY <1>1, <1>5, <1>12 DEF Added

\* A fragment of a function call, under its index.
LEMMA ToolStep ==
  ASSUME LlmInv, NEW c \in Call, calls[c].pc = "reading",
         NEW i \in DOMAIN calls[c].req.reply.calls, ToolChunk(c, i)
  PROVE  LlmInv'
  <1>1. PICK call, f, n, g : /\ call = calls[c] /\ f = call.req.reply.calls[i]
                             /\ n = call.sent.calls[i] /\ g = Fragment(call, i)
    OBVIOUS
  <1>2. PICK frags, new : /\ frags = AddFragment(call.frags, g)
                          /\ new = [call EXCEPT !.sent.calls[i] = @ + 1,
                                                !.frags = frags]
    OBVIOUS
  <1>3. /\ call.pc = "reading" /\ call.req.provider = "openai" /\ n <= Len(f.args)
        /\ Only(c, new)
    BY <1>1, <1>2 DEF ToolChunk
  <1>4. /\ FlightOK(c, call) /\ ReadOK(call) /\ TextOK(call) /\ ToolsOK(call)
        /\ DOMAIN call = Field /\ DOMAIN call.sent = {"text", "calls", "finish"}
        /\ call.req.reply.calls \in Seq(FunctionCall)
    BY <1>1, <1>3, Reading
  <1>5. PICK functions, sent, old : /\ functions = call.req.reply.calls
                                    /\ sent = call.sent.calls /\ old = call.frags
    OBVIOUS
  <1>6. /\ sent \in [DOMAIN functions -> Nat] /\ i \in DOMAIN functions
        /\ n = sent[i] /\ n \in Nat /\ f = functions[i]
        /\ DOMAIN old = {j \in DOMAIN functions : sent[j] # 0}
        /\ \A j \in DOMAIN old : FragmentOK(old[j], functions[j], sent[j])
    BY <1>1, <1>4, <1>5 DEF ToolsOK
  <1>7. f \in FunctionCall
    BY <1>4, <1>5, <1>6, ElementOfSeq, LenProperties
  <1>8. Added(frags, old, i, f, n + 1)
    <2>1. frags = AddFragment(old, g)
      BY <1>2, <1>5
    <2>2. CASE n = 0
      <3>1. Names(g, i, f)
        BY <1>1, <2>2 DEF Fragment, Names
      <3>2. i \notin DOMAIN old
        BY <1>6, <2>2
      <3>3. Added(frags, old, i, f, 1)
        BY <1>7, <2>1, <3>1, <3>2, FirstFragment
      <3>4. QED
        BY <2>2, <3>3
    <2>3. CASE n # 0
      <3>1. PICK piece : piece = <<f.args[n]>>
        OBVIOUS
      <3>2. f.args \in Seq(STRING)
        BY <1>7 DEF FunctionCall
      <3>3. n \in 1..Len(f.args) /\ n \in Nat \ {0}
        BY <1>3, <1>6, <2>3, <3>2, LenProperties
      <3>4. f.args[n] \in STRING
        BY <3>2, <3>3, ElementOfSeq
      <3>5. piece \in Seq(STRING) /\ Len(piece) = 1 /\ piece[1] = f.args[n]
        BY <3>1, <3>4
      <3>6. g.index = i /\ g.id = Unset /\ g.name = Unset /\ g.args = piece
        BY <1>1, <2>3, <3>1 DEF Fragment
      <3>7. Brings(g, i, f, n)
        BY <3>5, <3>6 DEF Brings
      <3>8. i \in DOMAIN old /\ FragmentOK(old[i], f, n)
        BY <1>6, <2>3
      <3>9. QED
        BY <1>3, <1>7, <2>1, <3>3, <3>7, <3>8, NextFragment
    <2>4. QED
      BY <2>2, <2>3
  <1>9. /\ DOMAIN new = Field /\ new.pc = "reading" /\ new.req = call.req
        /\ new.start = call.start /\ new.frags = frags /\ new.text = call.text
        /\ new.finish = call.finish /\ new.result = call.result
        /\ new.events = call.events
        /\ new.sent = [call.sent EXCEPT !.calls = [sent EXCEPT ![i] = n + 1]]
    BY <1>2, <1>3, <1>4, <1>5, <1>6 DEF Field
  <1>10. /\ DOMAIN new.sent = {"text", "calls", "finish"}
         /\ new.sent.calls = [sent EXCEPT ![i] = n + 1]
         /\ new.sent.text = call.sent.text /\ new.sent.finish = call.sent.finish
    BY <1>4, <1>9
  <1>11. TextOK(new)
    BY <1>4, <1>9, <1>10 DEF TextOK
  <1>12. ToolsOK(new)
    <2>1. PICK sent2 : sent2 = [sent EXCEPT ![i] = n + 1]
      OBVIOUS
    <2>2. /\ sent2 \in [DOMAIN functions -> Nat] /\ sent2[i] = n + 1
          /\ \A j \in DOMAIN functions \ {i} : sent2[j] = sent[j]
      BY <1>6, <2>1
    <2>3. DOMAIN frags = {j \in DOMAIN functions : sent2[j] # 0}
      BY <1>6, <1>8, <2>2 DEF Added
    <2>4. ASSUME NEW j \in DOMAIN frags
          PROVE  FragmentOK(frags[j], functions[j], sent2[j])
      <3>1. CASE j = i
        BY <1>6, <1>8, <2>2, <3>1 DEF Added
      <3>2. CASE j # i
        <4>1. j \in DOMAIN old /\ frags[j] = old[j] /\ sent2[j] = sent[j]
          BY <1>6, <1>8, <2>2, <2>3, <3>2 DEF Added
        <4>2. QED
          BY <1>6, <4>1
      <3>3. QED
        BY <3>1, <3>2
    <2>5. QED
      BY <1>5, <1>9, <1>10, <2>1, <2>2, <2>3, <2>4 DEF ToolsOK
  <1>13. ~call.sent.finish
    <2>1. ASSUME call.sent.finish
          PROVE  FALSE
      <3>1. sent[i] = Len(functions[i].args) + 1
        BY <1>3, <1>4, <1>5, <1>6, <2>1 DEF ReadOK, AllSent
      <3>2. Len(f.args) \in Nat
        BY <1>7 DEF FunctionCall
      <3>3. QED
        BY <1>3, <1>6, <3>1, <3>2
    <2>2. QED
      BY <2>1
  <1>14. ReadOK(new)
    BY <1>4, <1>9, <1>10, <1>11, <1>12, <1>13 DEF ReadOK
  <1>15. CallOK(c, new)
    BY <1>3, <1>4, <1>9, <1>14 DEF CallOK, FlightOK, PC
  <1>16. QED
    BY <1>1, <1>3, <1>9, <1>15, OnlyStep

\* The chunk with the finish reason.
LEMMA LastStep ==
  ASSUME LlmInv, NEW c \in Call, LastChunk(c)
  PROVE  LlmInv'
  <1>1. PICK call, stop : call = calls[c] /\ stop = call.req.reply.stop
    OBVIOUS
  <1>2. PICK new : new = [call EXCEPT !.sent.finish = TRUE, !.finish = stop]
    OBVIOUS
  <1>3. call.pc = "reading" /\ AllSent(call) /\ Only(c, new)
    BY <1>1, <1>2 DEF LastChunk
  <1>4. /\ FlightOK(c, call) /\ ReadOK(call) /\ TextOK(call) /\ ToolsOK(call)
        /\ DOMAIN call = Field /\ DOMAIN call.sent = {"text", "calls", "finish"}
    BY <1>1, <1>3, Reading
  <1>5. /\ DOMAIN new = Field /\ new.pc = "reading" /\ new.req = call.req
        /\ new.start = call.start /\ new.frags = call.frags /\ new.text = call.text
        /\ new.finish = stop /\ new.result = call.result /\ new.events = call.events
        /\ new.sent = [call.sent EXCEPT !.finish = TRUE]
    BY <1>2, <1>3, <1>4 DEF Field
  <1>6. /\ DOMAIN new.sent = {"text", "calls", "finish"}
        /\ new.sent.calls = call.sent.calls /\ new.sent.text = call.sent.text
    BY <1>4, <1>5
  <1>7. TextOK(new) /\ ToolsOK(new) /\ AllSent(new)
    BY <1>3, <1>4, <1>5, <1>6 DEF TextOK, ToolsOK, AllSent
  <1>8. ReadOK(new)
    BY <1>1, <1>4, <1>5, <1>6, <1>7 DEF ReadOK
  <1>9. CallOK(c, new)
    BY <1>3, <1>4, <1>5, <1>8 DEF CallOK, FlightOK, PC
  <1>10. QED
    BY <1>1, <1>3, <1>5, <1>9, OnlyStep

\* The content depends on the id, the name and the arguments of each call only.
LEMMA SameContent ==
  ASSUME NEW text, NEW a, NEW b, DOMAIN a = DOMAIN b,
         \A i \in DOMAIN a : /\ a[i].id = b[i].id /\ a[i].name = b[i].name
                             /\ a[i].args = b[i].args
  PROVE  OpenAiContent(text, a) = OpenAiContent(text, b)
  <1>1. [i \in DOMAIN a |-> ToolBlock(a[i].id, a[i].name, JsonLoads(a[i].args))]
          = [i \in DOMAIN b |-> ToolBlock(b[i].id, b[i].name, JsonLoads(b[i].args))]
    OBVIOUS
  <1>2. QED
    BY <1>1, Zenon DEF OpenAiContent

\* When everything was sent, the buffers hold the reply.
LEMMA WholeReply ==
  ASSUME LlmInv, NEW c \in Call, NEW call, call = calls[c], call.pc = "reading",
         call.sent.finish, call.req.provider = "openai"
  PROVE  StreamedMessages(call.text, call.frags, call.finish)
           = OpenAiMessages(call.req.reply)
  <1>1. PICK functions, sent, frags : /\ functions = call.req.reply.calls
                                      /\ sent = call.sent.calls
                                      /\ frags = call.frags
    OBVIOUS
  <1>2. /\ ReadOK(call) /\ TextOK(call) /\ ToolsOK(call) /\ AllSent(call)
        /\ call.finish = call.req.reply.stop
        /\ call.req.reply.text \in Seq(STRING) /\ functions \in Seq(FunctionCall)
    BY <1>1, Reading DEF ReadOK
  <1>3. call.text = call.req.reply.text
    <2>1. /\ call.text \in Seq(STRING) /\ Len(call.text) = Len(call.req.reply.text)
          /\ \A k \in 1..Len(call.text) : call.text[k] = call.req.reply.text[k]
      BY <1>2 DEF TextOK, AllSent
    <2>2. QED
      BY <1>2, <2>1, SeqEqual
  <1>4. PICK m \in Nat : m = Len(functions)
    BY <1>2, LenProperties
  <1>5. DOMAIN functions = 1..m /\ \A i \in 1..m : functions[i] \in FunctionCall
    BY <1>2, <1>4, LenProperties, ElementOfSeq
  <1>6. \A i \in 1..m : sent[i] = Len(functions[i].args) + 1
    BY <1>1, <1>2, <1>5 DEF AllSent
  <1>7. /\ DOMAIN frags = {i \in DOMAIN functions : sent[i] # 0}
        /\ \A i \in DOMAIN frags : FragmentOK(frags[i], functions[i], sent[i])
    BY <1>1, <1>2 DEF ToolsOK
  <1>8. ASSUME NEW i \in 1..m
        PROVE  /\ i \in DOMAIN frags
               /\ frags[i].id = functions[i].id /\ frags[i].name = functions[i].name
               /\ frags[i].args = functions[i].args
    <2>1. functions[i].args \in Seq(STRING)
      BY <1>5 DEF FunctionCall
    <2>2. PICK n \in Nat : n = Len(functions[i].args)
      BY <2>1, LenProperties
    <2>3. sent[i] = n + 1 /\ n + 1 # 0 /\ n + 1 - 1 = n
      BY <1>6, <2>2
    <2>4. i \in DOMAIN frags
      BY <1>5, <1>7, <2>3
    <2>5. FragmentOK(frags[i], functions[i], n + 1)
      BY <1>7, <2>3, <2>4
    <2>6. /\ frags[i].id = functions[i].id /\ frags[i].name = functions[i].name
          /\ frags[i].args \in Seq(STRING) /\ Len(frags[i].args) = n
          /\ \A k \in 1..n : frags[i].args[k] = functions[i].args[k]
      BY <2>3, <2>5 DEF FragmentOK
    <2>7. frags[i].args = functions[i].args
      BY <2>1, <2>2, <2>6, SeqEqual
    <2>8. QED
      BY <2>4, <2>6, <2>7
  <1>9. DOMAIN frags = 1..m /\ Cardinality(DOMAIN frags) = m
    <2>1. DOMAIN frags = 1..m
      BY <1>5, <1>7, <1>8
    <2>2. Cardinality(1..m) = m
      BY FS_Interval, SMTT(30)
    <2>3. QED
      BY <2>1, <2>2
  <1>10. PICK put : put = Pick(frags, DOMAIN frags)
    OBVIOUS
  <1>11. DOMAIN put = 1..m /\ \A k \in 1..m : put[k] = frags[k]
    <2>1. DOMAIN frags \in SUBSET Int /\ IsFiniteSet(DOMAIN frags)
      BY <1>9, FS_Interval
    <2>2. DOMAIN put = 1..m
      BY <1>9, <1>10, <2>1, PickFacts
    <2>3. \A k \in 1..m : put[k] = frags[Ascending(DOMAIN frags)[k]]
      BY <1>9, <1>10, <2>1, PickFacts
    <2>4. \A k \in 1..m : Ascending(DOMAIN frags)[k] = k
      BY <1>9, AscendingInterval
    <2> QED
      BY <2>2, <2>3, <2>4
  <1>12. OpenAiContent(call.text, put) = OpenAiContent(call.text, functions)
    BY <1>5, <1>8, <1>11, SameContent
  <1>13. StreamedMessages(call.text, frags, call.finish)
           = [content |-> OpenAiContent(call.text, put),
              stop_reason |-> FinishReason(call.finish)]
    BY <1>10 DEF StreamedMessages
  <1>14. QED
    BY <1>1, <1>2, <1>3, <1>12, <1>13 DEF OpenAiMessages

\* The stream is exhausted.
LEMMA StopStep ==
  ASSUME LlmInv, NEW c \in Call, StopEvent(c)
  PROVE  LlmInv'
  <1>1. PICK call : call = calls[c]
    OBVIOUS
  <1>2. PICK res : res = IF call.req.provider = "openai"
                         THEN StreamedMessages(call.text, call.frags, call.finish)
                         ELSE AnthropicMessages(call.req.reply)
    OBVIOUS
  <1>3. PICK new : new = [call EXCEPT !.pc = "stopped", !.result = res]
    OBVIOUS
  <1>4. call.pc = "reading" /\ call.sent.finish /\ Only(c, new)
    BY <1>1, <1>2, <1>3 DEF StopEvent
  <1>5. /\ FlightOK(c, call) /\ ReadOK(call) /\ TextOK(call) /\ DOMAIN call = Field
        /\ call.req.provider \in Provider /\ call.req.method = "messages_stream"
        /\ call.req.reply.text \in Seq(STRING)
    BY <1>1, <1>4, Reading
  <1>6. res = Answer(call.req.provider, call.req.method, call.req.reply)
    <2>1. CASE call.req.provider = "openai"
      <3>1. res = OpenAiMessages(call.req.reply)
        BY <1>1, <1>2, <1>4, <2>1, WholeReply
      <3>2. QED
        BY <1>5, <2>1, <3>1 DEF Answer
    <2>2. CASE call.req.provider = "anthropic"
      <3>1. res = AnthropicMessages(call.req.reply)
        BY <1>2, <2>2
      <3>2. QED
        BY <1>5, <2>2, <3>1 DEF Answer
    <2>3. QED
      BY <1>5, <2>1, <2>2 DEF Provider
  <1>7. call.events = call.req.reply.text
    <2>1. /\ call.text \in Seq(STRING) /\ Len(call.text) = Len(call.req.reply.text)
          /\ \A k \in 1..Len(call.text) : call.text[k] = call.req.reply.text[k]
          /\ call.events = call.text
      BY <1>4, <1>5 DEF ReadOK, TextOK, AllSent
    <2>2. QED
      BY <1>5, <2>1, SeqEqual
  <1>8. /\ DOMAIN new = Field /\ new.pc = "stopped" /\ new.req = call.req
        /\ new.start = call.start /\ new.result = res /\ new.events = call.events
    BY <1>3, <1>5 DEF Field
  <1>9. CallOK(c, new)
    BY <1>4, <1>5, <1>6, <1>7, <1>8 DEF CallOK, FlightOK, PC
  <1>10. QED
    BY <1>1, <1>4, <1>8, <1>9, OnlyStep
-----------------------------------------------------------------------------
(***************************************************************************)
(* The ring buffer.                                                        *)
(***************************************************************************)
\* The smaller of two numbers.
LEMMA SmallerOfTwo ==
  ASSUME NEW a \in Int, NEW b \in Int
  PROVE  Min({a, b}) = IF a <= b THEN a ELSE b
  BY DEF Min

\* How full the buffer is.
LEMMA Filled ==
  ASSUME LlmInv
  PROVE  /\ records \in Seq(CallRecord) /\ Len(records) \in Nat
         /\ DOMAIN records = 1..Len(records)
         /\ IsFiniteSet(Done) /\ Cardinality(Done) \in Nat
         /\ MaxRecords \in Nat \ {0}
         /\ Len(records) = IF MaxRecords <= Cardinality(Done) THEN MaxRecords
                           ELSE Cardinality(Done)
  <1>1. /\ records \in Seq(CallRecord) /\ IsFiniteSet(Done)
        /\ Len(records) = Min({MaxRecords, Cardinality(Done)})
    BY DEF LlmInv, RecordsInv
  <1>2. Cardinality(Done) \in Nat /\ MaxRecords \in Nat \ {0}
    BY <1>1, FS_CardinalityType, CallsAssumption
  <1>3. Min({MaxRecords, Cardinality(Done)})
          = IF MaxRecords <= Cardinality(Done) THEN MaxRecords ELSE Cardinality(Done)
    BY <1>2, SmallerOfTwo
  <1>4. QED
    BY <1>1, <1>2, <1>3, LenProperties

\* What a bijection is.
LEMMA BijectionFacts ==
  ASSUME NEW S, NEW T, NEW f \in Bijection(S, T)
  PROVE  /\ f \in [S -> T] /\ \A a, b \in S : f[a] = f[b] => a = b
         /\ \A t \in T : \E d \in S : f[d] = t
  BY DEF Bijection, Injection, Surjection, IsInjective

\* One more place for one more call.
LEMMA OneMorePlace ==
  ASSUME NEW S, NEW n \in Nat, NEW f \in Bijection(S, 1..n), NEW x, x \notin S,
         NEW g, g = [d \in S \cup {x} |-> IF d = x THEN n + 1 ELSE f[d]]
  PROVE  g \in Bijection(S \cup {x}, 1..(n + 1))
  <1>1. /\ f \in [S -> 1..n] /\ \A a, b \in S : f[a] = f[b] => a = b
        /\ \A t \in 1..n : \E d \in S : f[d] = t
    <2>1. PICK T : T = 1..n
      OBVIOUS
    <2>2. f \in Bijection(S, T)
      BY <2>1
    <2>3. /\ f \in [S -> T] /\ \A a, b \in S : f[a] = f[b] => a = b
          /\ \A t \in T : \E d \in S : f[d] = t
      BY <2>2, BijectionFacts
    <2>4. QED
      BY <2>1, <2>3
  <1>2. g[x] = n + 1 /\ \A d \in S : g[d] = f[d] /\ g[d] \in 1..n
    BY <1>1
  <1>3. g \in [S \cup {x} -> 1..(n + 1)]
    BY <1>1
  <1>4. \A a, b \in S \cup {x} : g[a] = g[b] => a = b
    BY <1>1, <1>2
  <1>5. ASSUME NEW t \in 1..(n + 1)
        PROVE  \E d \in S \cup {x} : g[d] = t
    <2>1. CASE t = n + 1
      BY <1>2, <2>1
    <2>2. CASE t # n + 1
      <3>1. t \in 1..n
        BY <2>2
      <3>2. PICK d \in S : f[d] = t
        BY <1>1, <3>1
      <3>3. QED
        BY <1>2, <3>2
    <2>3. QED
      BY <2>1, <2>2
  <1>6. QED
    BY <1>3, <1>4, <1>5, Fun_IsBij

\* A call is reported: it takes a new place, or the place of the oldest report.
LEMMA RecordStep ==
  ASSUME LlmInv, NEW c \in Call, RecordCall(c)
  PROVE  LlmInv'
  <1>1. PICK new, kept : /\ new = [calls[c] EXCEPT !.pc = "done"]
                         /\ kept = IF Len(records) = MaxRecords THEN Tail(records)
                                   ELSE records
    OBVIOUS
  <1>2. /\ calls[c].pc = "append" /\ records' = Append(kept, new)
        /\ calls' = [calls EXCEPT ![c] = new] /\ now' = now /\ DOMAIN calls = Call
    BY <1>1 DEF RecordCall, LlmInv, CallsInv
  <1>3. new \in CallRecord /\ new.pc = "done"
    <2>1. new \in CallRecord
      BY <1>1, <1>2 DEF LlmInv, CallsInv, CallOK
    <2>2. QED
      BY <2>1 DEF CallRecord
  <1>4. /\ DOMAIN calls' = Call /\ calls'[c] = new
        /\ \A d \in Call \ {c} : calls'[d] = calls[d]
    BY <1>2
  <1>5. CallsInv'
    <2>1. CallOK(c, new)
      BY <1>3 DEF CallOK, PC, Flight
    <2>2. ASSUME NEW d \in Call
          PROVE  CallOK(d, calls'[d])
      BY <1>4, <2>1 DEF LlmInv, CallsInv
    <2>3. QED
      BY <1>4, <2>2 DEF CallsInv, CallOK, FlightOK, ReadOK, TextOK, ToolsOK,
                        FragmentOK, AllSent
  <1>6. /\ c \notin Done /\ Done' = Done \cup {c}
        /\ \A d \in Done : calls'[d] = calls[d]
    BY <1>2, <1>3, <1>4 DEF Done
  <1>7. PICK n, m : n = Len(records) /\ m = Cardinality(Done)
    OBVIOUS
  <1>8. /\ records \in Seq(CallRecord) /\ n \in Nat /\ m \in Nat
        /\ IsFiniteSet(Done) /\ MaxRecords \in Nat \ {0}
        /\ n = IF MaxRecords <= m THEN MaxRecords ELSE m
        /\ DOMAIN records = 1..n
    BY <1>7, Filled
  <1>9. IsFiniteSet(Done') /\ Cardinality(Done') = m + 1
    BY <1>6, <1>7, <1>8, FS_AddElement
  <1>10. Min({MaxRecords, m + 1}) = IF MaxRecords <= m + 1 THEN MaxRecords ELSE m + 1
    BY <1>8, SmallerOfTwo
  <1>11. CASE n = MaxRecords
    <2>1. kept = Tail(records) /\ records # <<>>
      BY <1>1, <1>7, <1>8, <1>11
    <2>2. kept \in Seq(CallRecord) /\ Len(kept) = n - 1
      BY <1>7, <1>8, <2>1, HeadTailProperties
    <2>3. records' \in Seq(CallRecord) /\ Len(records') = n - 1 + 1
      BY <1>2, <1>3, <2>2, AppendProperties
    <2>4. MaxRecords <= m /\ ~(m + 1 <= MaxRecords) /\ n - 1 + 1 = MaxRecords
      BY <1>8, <1>11
    <2>5. QED
      <3>1. /\ Len(records') = Min({MaxRecords, Cardinality(Done')})
            /\ ~(Cardinality(Done') <= MaxRecords)
        BY <1>8, <1>9, <1>10, <2>3, <2>4
      <3>2. RecordsInv'
        BY <1>9, <2>3, <3>1 DEF RecordsInv
      <3>3. QED
        BY <1>2, <1>5, <3>2 DEF LlmInv
  <1>12. CASE n # MaxRecords
    <2>1. kept = records /\ n = m /\ m + 1 <= MaxRecords /\ m <= MaxRecords
      BY <1>1, <1>7, <1>8, <1>12
    <2>2. /\ records' \in Seq(CallRecord) /\ Len(records') = n + 1
          /\ \A i \in 1..n : records'[i] = records[i]
          /\ records'[n + 1] = new
      BY <1>2, <1>3, <1>7, <1>8, <2>1, AppendProperties
    <2>3. DOMAIN records' = 1..(n + 1)
      BY <2>2, LenProperties
    <2>4. PICK place \in Bijection(Done, 1..n) :
            \A d \in Done : records[place[d]] = calls[d]
      BY <1>7, <1>8, <2>1 DEF LlmInv, RecordsInv
    <2>5. PICK place2 : place2 = [d \in Done \cup {c} |-> IF d = c THEN n + 1
                                                         ELSE place[d]]
      OBVIOUS
    <2>6. place2 \in Bijection(Done \cup {c}, 1..(n + 1))
      BY <1>6, <1>8, <2>4, <2>5, OneMorePlace
    <2>7. ASSUME NEW d \in Done \cup {c}
          PROVE  records'[place2[d]] = calls'[d]
      <3>1. CASE d = c
        BY <1>4, <2>2, <2>5, <3>1
      <3>2. CASE d # c
        <4>1. d \in Done /\ place2[d] = place[d] /\ place[d] \in 1..n
          <5>1. place \in [Done -> 1..n]
            BY BijectionFacts
          <5>2. QED
            BY <2>5, <3>2, <5>1
        <4>2. QED
          BY <1>6, <2>2, <2>4, <4>1
      <3>3. QED
        BY <3>1, <3>2
    <2>8. \E q \in Bijection(Done', DOMAIN records') :
            \A d \in Done' : records'[q[d]] = calls'[d]
      BY <1>6, <2>3, <2>6, <2>7
    <2>9. Len(records') = Min({MaxRecords, Cardinality(Done')})
      <3>1. Min({MaxRecords, m + 1}) = m + 1
        BY <1>8, <1>10, <2>1
      <3>2. QED
        BY <1>9, <2>1, <2>2, <3>1
    <2>10. RecordsInv'
      BY <1>9, <2>2, <2>8, <2>9 DEF RecordsInv
    <2>11. QED
      BY <1>2, <1>5, <2>10 DEF LlmInv
  <1>13. QED
    BY <1>11, <1>12

\* Time passes, or nothing happens.
LEMMA ClockStep ==
  ASSUME LlmInv, Tick \/ UNCHANGED vars
  PROVE  LlmInv'
  <1>1. calls' = calls /\ records' = records
    BY DEF Tick, vars
  <1>2. now' \in 0..MaxNow
    BY CallsAssumption DEF LlmInv, Tick, vars
  <1>3. CallsInv'
    BY <1>1 DEF LlmInv, CallsInv
  <1>4. Done' = Done
    BY <1>1 DEF Done
  <1>5. RecordsInv'
    <2>1. /\ records' \in Seq(CallRecord) /\ IsFiniteSet(Done')
          /\ Len(records') = Min({MaxRecords, Cardinality(Done')})
      BY <1>1, <1>4 DEF LlmInv, RecordsInv
    <2>2. ASSUME Cardinality(Done') <= MaxRecords
          PROVE  \E place \in Bijection(Done', DOMAIN records') :
                   \A d \in Done' : records'[place[d]] = calls'[d]
      <3>1. PICK place \in Bijection(Done, DOMAIN records) :
              \A d \in Done : records[place[d]] = calls[d]
        BY <1>4, <2>2 DEF LlmInv, RecordsInv
      <3>2. QED
        BY <1>1, <1>4, <3>1
    <2>3. QED
      BY <2>1, <2>2 DEF RecordsInv
  <1>6. QED
    BY <1>2, <1>3, <1>5 DEF LlmInv

\* Calls that have a property, and rows that have it.
LEMMA SameCount ==
  ASSUME NEW S, IsFiniteSet(S), NEW T, NEW f \in Bijection(S, T),
         NEW A \in SUBSET S, NEW B \in SUBSET T, \A x \in S : x \in A <=> f[x] \in B
  PROVE  Cardinality(B) = Cardinality(A)
  <1>1. /\ f \in [S -> T] /\ \A a, b \in S : f[a] = f[b] => a = b
        /\ \A t \in T : \E d \in S : f[d] = t
    BY BijectionFacts
  <1>2. PICK g : g = [x \in A |-> f[x]]
    OBVIOUS
  <1>3. g \in [A -> B] /\ \A a, b \in A : g[a] = g[b] => a = b
    BY <1>1, <1>2
  <1>4. \A t \in B : \E d \in A : g[d] = t
    BY <1>1, <1>2
  <1>5. g \in Bijection(A, B)
    BY <1>3, <1>4, Fun_IsBij
  <1>6. IsFiniteSet(A) /\ ExistsBijection(A, B)
    BY <1>5, FS_Subset DEF ExistsBijection
  <1>7. QED
    BY <1>6, FS_Bijection

\* As long as no report has left the buffer, the rows of a window are the calls
\* of that window.
LEMMA StatsRight ==
  ASSUME LlmInv, NEW w \in Windows, Cardinality(Done) <= MaxRecords,
         NEW s, s = GetStats("admin", w)
  PROVE  /\ s.total_calls = Cardinality(Recent(w))
         /\ s.errors = Cardinality({c \in Recent(w) : calls[c].error})
         /\ \A p \in Provider :
              s.by_provider[p] = Cardinality({c \in Recent(w) : calls[c].provider = p})
  <1>1. PICK cutoff, rows :
          /\ cutoff = now - Max({1, w})
          /\ rows = {i \in DOMAIN records : records[i].ts >= cutoff}
    OBVIOUS
  <1>2. /\ s.total_calls = Cardinality(rows)
        /\ s.errors = Cardinality({i \in rows : records[i].error})
        /\ \A p \in Provider :
             s.by_provider[p] = Cardinality({i \in rows : records[i].provider = p})
    BY <1>1 DEF GetStats, Summary
  <1>3. Recent(w) = {c \in Done : calls[c].ts >= cutoff}
    BY <1>1 DEF Recent
  <1>4. PICK place \in Bijection(Done, DOMAIN records) :
          \A c \in Done : records[place[c]] = calls[c]
    BY DEF LlmInv, RecordsInv
  <1>5. IsFiniteSet(Done) /\ place \in [Done -> DOMAIN records]
    BY <1>4, BijectionFacts DEF LlmInv, RecordsInv
  <1>6. Cardinality(rows) = Cardinality(Recent(w))
    <2>1. \A c \in Done : c \in Recent(w) <=> place[c] \in rows
      BY <1>1, <1>3, <1>4, <1>5
    <2>2. Recent(w) \in SUBSET Done /\ rows \in SUBSET DOMAIN records
      BY <1>1, <1>3
    <2>3. QED
      BY <1>4, <1>5, <2>1, <2>2, SameCount
  <1>7. Cardinality({i \in rows : records[i].error})
          = Cardinality({c \in Recent(w) : calls[c].error})
    <2>1. PICK A, B : /\ A = {c \in Recent(w) : calls[c].error}
                      /\ B = {i \in rows : records[i].error}
      OBVIOUS
    <2>2. \A c \in Done : c \in A <=> place[c] \in B
      BY <1>1, <1>3, <1>4, <1>5, <2>1
    <2>3. A \in SUBSET Done /\ B \in SUBSET DOMAIN records
      BY <1>1, <1>3, <2>1
    <2>4. Cardinality(B) = Cardinality(A)
      BY <1>4, <1>5, <2>2, <2>3, SameCount
    <2>5. QED
      BY <2>1, <2>4
  <1>8. ASSUME NEW p \in Provider
        PROVE  Cardinality({i \in rows : records[i].provider = p})
                 = Cardinality({c \in Recent(w) : calls[c].provider = p})
    <2>1. PICK A, B : /\ A = {c \in Recent(w) : calls[c].provider = p}
                      /\ B = {i \in rows : records[i].provider = p}
      OBVIOUS
    <2>2. \A c \in Done : c \in A <=> place[c] \in B
      BY <1>1, <1>3, <1>4, <1>5, <2>1
    <2>3. A \in SUBSET Done /\ B \in SUBSET DOMAIN records
      BY <1>1, <1>3, <2>1
    <2>4. Cardinality(B) = Cardinality(A)
      BY <1>4, <1>5, <2>2, <2>3, SameCount
    <2>5. QED
      BY <2>1, <2>4
  <1>9. QED
    BY <1>2, <1>6, <1>7, <1>8

\* The percentile of some numbers is one of them, and as many of them as the percentage
\* says are no larger.
LEMMA PercentileFacts ==
  ASSUME NEW R \in SUBSET Int, IsFiniteSet(R), R # {}, NEW values \in [R -> Int],
         NEW pct \in 0..100
  PROVE  /\ \E i \in R : Percentile(values, pct) = values[i]
         /\ 100 * Cardinality({i \in R : values[i] <= Percentile(values, pct)})
              >= pct * Cardinality(R)
<1>1. PICK n \in Nat \ {0} : n = Cardinality(R)
  BY FS_CardinalityType, FS_EmptySet
<1>2. PICK before : before = {p \in (DOMAIN values) \X (DOMAIN values) :
                               \/ values[p[1]] < values[p[2]]
                               \/ values[p[1]] = values[p[2]] /\ p[1] < p[2]}
  OBVIOUS
<1>3. \A i, j \in R : <<i, j>> \in before <=> \/ values[i] < values[j]
                                              \/ values[i] = values[j] /\ i < j
  <2>1. TAKE i, j \in R
  <2>2. PICK p : p = <<i, j>>
    OBVIOUS
  <2>3. p \in (DOMAIN values) \X (DOMAIN values) /\ p[1] = i /\ p[2] = j
    BY <2>2
  <2>4. p \in before <=> \/ values[p[1]] < values[p[2]]
                         \/ values[p[1]] = values[p[2]] /\ p[1] < p[2]
    BY <1>2, <2>3, Zenon
  <2> QED
    BY <2>2, <2>3, <2>4
<1>4. \A i \in R : values[i] \in Int /\ i \in Int
  OBVIOUS
<1>5. StrictOrder(before, R)
  BY <1>3, <1>4 DEF StrictOrder
<1>6. PICK so : so = ByValue(values)
  OBVIOUS
<1>7. so = Sorted(R, before)
  <2>1. so = Sorted(DOMAIN values, before)
    BY <1>2, <1>6 DEF ByValue
  <2>2. DOMAIN values = R
    OBVIOUS
  <2> QED
    BY <2>1, <2>2
<1>8. /\ so \in [1..n -> R]
      /\ \A i, j \in 1..n : i < j <=> <<so[i], so[j]>> \in before
      /\ \A i, j \in 1..n : so[i] = so[j] => i = j
  <2>1. so \in [1..n -> R]
    BY <1>1, <1>5, <1>7, SortedFacts
  <2>2. \A i, j \in 1..n : i < j <=> <<so[i], so[j]>> \in before
    BY <1>1, <1>5, <1>7, SortedFacts
  <2>3. \A i, j \in 1..n : so[i] = so[j] => i = j
    BY <1>1, <1>5, <1>7, SortedFacts
  <2> QED
    BY <2>1, <2>2, <2>3
<1>9. PICK x \in Nat : x = pct * n /\ x <= 100 * n
  OBVIOUS
<1>10. PICK up \in Nat : up = (x + 99) \div 100 /\ 100 * up >= x
  BY <1>9
<1>11. PICK k \in 1..n : k = Min({Max({1, up}), n}) /\ 100 * k >= x
  <2>1. Max({1, up}) = IF 1 >= up THEN 1 ELSE up
    BY RankMax
  <2>2. PICK top \in Nat \ {0} : top = Max({1, up}) /\ top >= up
    BY <2>1
  <2>3. Min({top, n}) = IF top <= n THEN top ELSE n
    BY RankMin
  <2> QED
    BY <1>9, <1>10, <2>2, <2>3
<1>12. PICK v : v = Percentile(values, pct)
  OBVIOUS
<1>13. v = values[so[k]] /\ so[k] \in R
  BY <1>1, <1>6, <1>8, <1>9, <1>10, <1>11, <1>12 DEF Percentile
<1>14. PICK low : low = {i \in R : values[i] <= v}
  OBVIOUS
<1>15. IsFiniteSet(low) /\ Cardinality(low) \in Nat
  BY <1>14, FS_Subset, FS_CardinalityType
<1>16. PICK first : first = [i \in 1..k |-> so[i]]
  OBVIOUS
<1>17. ASSUME NEW i \in 1..k PROVE so[i] \in low
  <2>1. so[i] \in R /\ i \in 1..n /\ k \in 1..n
    BY <1>8, <1>11
  <2>2. CASE i = k
    BY <1>4, <1>13, <1>14, <2>1, <2>2
  <2>3. CASE i # k
    <3>1. <<so[i], so[k]>> \in before
      BY <1>8, <2>1, <2>3
    <3>2. values[so[i]] < values[so[k]] \/ values[so[i]] = values[so[k]]
      BY <1>3, <1>13, <2>1, <3>1
    <3>3. values[so[i]] \in Int /\ v \in Int
      BY <1>4, <1>13, <2>1
    <3>4. values[so[i]] <= v
      BY <1>13, <3>2, <3>3
    <3> QED
      BY <1>14, <2>1, <3>4
  <2> QED
    BY <2>2, <2>3
<1>18. first \in Injection(1..k, low)
  <2>1. first \in [1..k -> low]
    BY <1>16, <1>17
  <2>2. \A i, j \in 1..k : first[i] = first[j] => i = j
    BY <1>8, <1>16
  <2> QED
    BY <2>1, <2>2 DEF Injection, IsInjective
<1>19. Cardinality(low) >= k
  <2>1. IsFiniteSet(1..k) /\ Cardinality(1..k) = k
    BY FS_Interval
  <2>2. Cardinality(1..k) <= Cardinality(low)
    BY <1>15, <1>18, <2>1, FS_Injection
  <2> QED
    BY <2>1, <2>2
<1>20. 100 * Cardinality(low) >= x
  BY <1>11, <1>15, <1>19
<1> QED
  BY <1>1, <1>9, <1>12, <1>13, <1>14, <1>20

\* As long as no report has left the buffer, the 95th percentile of a window is that of
\* the calls of the window.
LEMMA P95Right ==
  ASSUME LlmInv, NEW w \in Windows, Cardinality(Done) <= MaxRecords, Recent(w) # {},
         NEW p95, p95 = GetStats("admin", w).p95
  PROVE  /\ p95 \in {calls[c].latency : c \in Recent(w)}
         /\ 100 * Cardinality({c \in Recent(w) : calls[c].latency <= p95})
              >= 95 * Cardinality(Recent(w))
<1>1. PICK cutoff, rows :
        /\ cutoff = now - Max({1, w})
        /\ rows = {i \in DOMAIN records : records[i].ts >= cutoff}
  OBVIOUS
<1>2. PICK values : values = [i \in rows |-> records[i].latency]
  OBVIOUS
<1>3. p95 = Percentile(values, 95)
  BY <1>1, <1>2 DEF GetStats, Summary
<1>4. Recent(w) = {c \in Done : calls[c].ts >= cutoff}
  BY <1>1 DEF Recent
<1>5. PICK place \in Bijection(Done, DOMAIN records) :
        \A c \in Done : records[place[c]] = calls[c]
  BY DEF LlmInv, RecordsInv
<1>6. /\ IsFiniteSet(Done) /\ place \in [Done -> DOMAIN records]
      /\ \A i \in DOMAIN records : \E c \in Done : place[c] = i
  <2>1. IsFiniteSet(Done)
    BY DEF LlmInv, RecordsInv
  <2>2. PICK D : D = DOMAIN records /\ place \in Bijection(Done, D)
    BY <1>5
  <2>3. /\ place \in [Done -> D]
        /\ \A i \in D : \E c \in Done : place[c] = i
    BY <2>2, BijectionFacts
  <2> QED
    BY <2>1, <2>2, <2>3
<1>7. /\ records \in Seq(CallRecord) /\ DOMAIN records = 1..Len(records)
      /\ Len(records) \in Nat
  BY Filled
<1>8. \A i \in DOMAIN records : records[i].latency \in Int
  <2>1. ASSUME NEW i \in 1..Len(records) PROVE records[i].latency \in Int
    <3>1. records[i] \in CallRecord
      BY <1>7, <2>1, ElementOfSeq
    <3> QED
      BY <3>1 DEF CallRecord
  <2> QED
    BY <1>7, <2>1
<1>9. rows \in SUBSET Int /\ IsFiniteSet(rows)
  <2>1. IsFiniteSet(DOMAIN records)
    BY <1>7, FS_Interval
  <2>2. rows \in SUBSET DOMAIN records
    BY <1>1
  <2> QED
    BY <1>7, <2>1, <2>2, FS_Subset
<1>10. values \in [rows -> Int]
  BY <1>1, <1>2, <1>8
<1>11. \A c \in Done : c \in Recent(w) <=> place[c] \in rows
  BY <1>1, <1>4, <1>5, <1>6
<1>12. Recent(w) \in SUBSET Done /\ rows \in SUBSET DOMAIN records
  BY <1>1, <1>4
<1>13. Cardinality(rows) = Cardinality(Recent(w))
  BY <1>5, <1>6, <1>11, <1>12, SameCount
<1>14. rows # {}
  BY <1>6, <1>11, <1>12
<1>15. PICK pct \in 0..100 : pct = 95
  OBVIOUS
<1>16. /\ \E i \in rows : p95 = values[i]
       /\ 100 * Cardinality({i \in rows : values[i] <= p95}) >= 95 * Cardinality(rows)
  <2>1. p95 = Percentile(values, pct)
    BY <1>3, <1>15
  <2>2. \E i \in rows : Percentile(values, pct) = values[i]
    BY <1>9, <1>10, <1>14, PercentileFacts
  <2>3. 100 * Cardinality({i \in rows : values[i] <= Percentile(values, pct)})
          >= pct * Cardinality(rows)
    BY <1>9, <1>10, <1>14, PercentileFacts
  <2>4. 100 * Cardinality({i \in rows : values[i] <= p95}) >= pct * Cardinality(rows)
    BY <2>1, <2>3, Zenon
  <2> QED
    BY <1>15, <2>1, <2>2, <2>4
<1>17. p95 \in {calls[c].latency : c \in Recent(w)}
  <2>1. PICK i \in rows : p95 = values[i]
    BY <1>16
  <2>2. PICK c \in Done : place[c] = i
    BY <1>6, <1>12, <2>1
  <2>3. c \in Recent(w) /\ calls[c].latency = p95
    BY <1>2, <1>5, <1>11, <2>1, <2>2
  <2> QED
    BY <2>3
<1>18. Cardinality({i \in rows : values[i] <= p95})
         = Cardinality({c \in Recent(w) : calls[c].latency <= p95})
  <2>1. PICK A, B : /\ A = {c \in Recent(w) : calls[c].latency <= p95}
                    /\ B = {i \in rows : values[i] <= p95}
    OBVIOUS
  <2>2. \A c \in Done : c \in A <=> place[c] \in B
    BY <1>2, <1>5, <1>6, <1>11, <2>1
  <2>3. A \in SUBSET Done /\ B \in SUBSET DOMAIN records
    BY <1>12, <2>1
  <2>4. Cardinality(B) = Cardinality(A)
    BY <1>5, <1>6, <2>2, <2>3, SameCount
  <2> QED
    BY <2>1, <2>4
<1> QED
  BY <1>13, <1>16, <1>17, <1>18
-----------------------------------------------------------------------------
(***************************************************************************)
(* Histories for OpenAI.                                                   *)
(***************************************************************************)
\* The places of the blocks of a type.
PlacesOf(content, type) == {i \in DOMAIN content : content[i].type = type}

\* A list and its places.
LEMMA ListPlaces ==
  ASSUME NEW s, IsList(s)
  PROVE  Len(s) \in Nat /\ DOMAIN s = 1..Len(s) /\ \A i \in 1..Len(s) : s[i] \in Range(s)
<1>1. PICK T : T = Range(s) /\ s \in Seq(T)
  BY DEF IsList
<1> QED
  BY <1>1, LenProperties, ElementOfSeq

\* The blocks of a type are those at their places.
LEMMA OfTypeFacts ==
  ASSUME NEW content, IsList(content), NEW type
  PROVE  /\ Cardinality(PlacesOf(content, type)) \in Nat
         /\ DOMAIN OfType(content, type) = 1..Cardinality(PlacesOf(content, type))
         /\ Range(OfType(content, type)) = {content[i] : i \in PlacesOf(content, type)}
         /\ OfType(content, type) = <<>> <=> PlacesOf(content, type) = {}
<1>1. PICK P, blocks : P = PlacesOf(content, type) /\ blocks = OfType(content, type)
  OBVIOUS
<1>2. P \in SUBSET DOMAIN content /\ blocks = Pick(content, P)
  BY <1>1 DEF PlacesOf, OfType
<1>3. P \in SUBSET Int /\ IsFiniteSet(P)
  <2>1. PICK T : content \in Seq(T)
    BY DEF IsList
  <2> QED
    BY <1>2, <2>1, PlacesFinite
<1>4. PICK n \in Nat : n = Cardinality(P)
  BY <1>3, FS_CardinalityType
<1>5. DOMAIN blocks = 1..n /\ Range(blocks) = {content[i] : i \in P}
  BY <1>2, <1>3, <1>4, PickFacts
<1>6. blocks \in Seq(Range(content)) /\ Len(blocks) = n
  <2>1. PICK T : T = Range(content) /\ content \in Seq(T)
    BY DEF IsList
  <2>2. \A i \in P : content[i] \in T
    BY <1>2, <2>1, ElementOfSeq
  <2>3. blocks \in Seq(T)
    BY <1>2, <1>3, <2>2, PickFacts
  <2>4. Len(blocks) = n
    BY <1>2, <1>3, <1>4, PickFacts
  <2> QED
    BY <2>1, <2>3, <2>4
<1>7. blocks = <<>> <=> P = {}
  <2>1. P = {} <=> n = 0
    BY <1>3, <1>4, FS_EmptySet
  <2>2. blocks = <<>> <=> n = 0
    BY <1>6, EmptySeq
  <2> QED
    BY <2>1, <2>2
<1> QED
  BY <1>1, <1>4, <1>5, <1>7

\* What is answered in a message.
Answered(m) == Ids(m, "user", "tool_result")

\* What a message calls.
Called(m) == Ids(m, "assistant", "tool_use")

\* How many of the messages that a message is converted to are for its results.
Results(m) ==
  IF m.form = "list" /\ m.role = "user" THEN Cardinality(PlacesOf(m.content, "tool_result"))
                                        ELSE 0

\* The conversion of one message: results first, and calls in a message of their own.
Converted(m, c) ==
  /\ IsList(c) /\ Results(m) \in Nat /\ Results(m) <= Len(c)
  /\ \A b \in 1..Len(c) :
       /\ c[b].role = "tool" <=> b <= Results(m)
       /\ b <= Results(m) => c[b].tool_call_id \in Answered(m)
       /\ DOMAIN c[b].tool_calls # {} => Len(c) = 1
       /\ Range(c[b].tool_calls) \subseteq Called(m)
       /\ c[b].role = "assistant" => c[b].text \/ c[b].tool_calls # <<>>
  /\ \A id \in Answered(m) : \E b \in 1..Results(m) : c[b].tool_call_id = id
  /\ Called(m) # {} => Len(c) = 1 /\ Range(c[1].tool_calls) = Called(m)

\* Ids are those of the blocks of a type.
LEMMA IdsFacts ==
  ASSUME NEW m, m.form = "list", NEW type
  PROVE  /\ Ids(m, m.role, type)
              = {m.content[i].id : i \in PlacesOf(m.content, type)}
         /\ \A role : role # m.role => Ids(m, role, type) = {}
  BY DEF Ids, PlacesOf

\* A list of one message.
LEMMA OneMessage ==
  ASSUME NEW x
  PROVE  IsList(<<x>>) /\ Len(<<x>>) = 1 /\ <<x>>[1] = x
<1>1. PICK s : s = <<x>>
  OBVIOUS
<1>2. s \in Seq({x}) /\ Len(s) = 1 /\ s[1] = x /\ DOMAIN s = 1..1
  BY <1>1
<1>3. Range(s) = {x}
  BY <1>2 DEF Range
<1> QED
  BY <1>1, <1>2, <1>3 DEF IsList

\* No message.
LEMMA NoMessage == IsList(<<>>) /\ Len(<<>>) = 0
  BY DEF IsList

\* A plain text, and what is skipped.
LEMMA PlainConverted ==
  ASSUME NEW m, m.role \in {"user", "assistant"}, m.form # "list"
  PROVE  Converted(m, ConvertMessage(m))
<1>1. PICK c : c = ConvertMessage(m)
  OBVIOUS
<1>2. Results(m) = 0 /\ Answered(m) = {} /\ Called(m) = {}
  BY DEF Results, Answered, Called, Ids
<1>3. CASE m.form = "str"
  <2>1. PICK x : x = OpenAiMessage(m.role, TRUE, <<>>, NULL)
    OBVIOUS
  <2>2. c = <<x>>
    BY <1>1, <1>3, <2>1 DEF ConvertMessage
  <2>3. IsList(c) /\ Len(c) = 1 /\ c[1] = x
    BY <2>2, OneMessage
  <2>4. x.role # "tool" /\ x.text /\ x.tool_calls = <<>> /\ Range(x.tool_calls) = {}
    BY <2>1 DEF OpenAiMessage, Range
  <2>5. DOMAIN x.tool_calls = {}
    BY <2>4
  <2> QED
    BY <1>1, <1>2, <2>3, <2>4, <2>5 DEF Converted
<1>4. CASE m.form # "str"
  <2>1. c = <<>>
    BY <1>1, <1>4 DEF ConvertMessage
  <2>2. IsList(c) /\ Len(c) = 0
    BY <2>1, NoMessage
  <2> QED
    BY <1>1, <1>2, <2>2 DEF Converted
<1> QED
  BY <1>3, <1>4

\* An assistant's blocks: a message with the text and the calls, or nothing.
LEMMA AssistantConverted ==
  ASSUME NEW m, IsList(m.content), m.role = "assistant", m.form = "list"
  PROVE  Converted(m, ConvertMessage(m))
<1>1. PICK c, texts, tools : /\ c = ConvertMessage(m)
                             /\ texts = OfType(m.content, "text")
                             /\ tools = OfType(m.content, "tool_use")
  OBVIOUS
<1>2. PICK n \in Nat : /\ n = Cardinality(PlacesOf(m.content, "tool_use"))
                       /\ DOMAIN tools = 1..n
  BY <1>1, OfTypeFacts
<1>3. /\ Range(tools) = {m.content[i] : i \in PlacesOf(m.content, "tool_use")}
      /\ tools = <<>> <=> PlacesOf(m.content, "tool_use") = {}
  BY <1>1, OfTypeFacts
<1>4. Results(m) = 0 /\ Answered(m) = {}
  BY IdsFacts DEF Results, Answered
<1>5. Called(m) = {m.content[i].id : i \in PlacesOf(m.content, "tool_use")}
  BY IdsFacts DEF Called
<1>6. PICK x : x = OpenAiMessage("assistant", texts # <<>>,
                                 [i \in DOMAIN tools |-> tools[i].id], NULL)
  OBVIOUS
<1>7. c = IF texts = <<>> /\ tools = <<>> THEN <<>> ELSE <<x>>
  BY <1>1, <1>6 DEF ConvertMessage, AssistantMessages
<1>8. /\ x.role = "assistant" /\ x.text = (texts # <<>>)
      /\ x.tool_calls = [i \in DOMAIN tools |-> tools[i].id]
  BY <1>6 DEF OpenAiMessage
<1>9. Range(x.tool_calls) = Called(m)
  <2>1. Range(x.tool_calls) = {tools[i].id : i \in 1..n}
    BY <1>2, <1>8 DEF Range
  <2>2. {t.id : t \in Range(tools)} = {tools[i].id : i \in 1..n}
    BY <1>2 DEF Range
  <2>3. {t.id : t \in Range(tools)} = Called(m)
    BY <1>3, <1>5
  <2> QED
    BY <2>1, <2>2, <2>3
<1>10. CASE texts = <<>> /\ tools = <<>>
  <2>1. IsList(c) /\ Len(c) = 0
    BY <1>7, <1>10, NoMessage
  <2>2. Called(m) = {}
    BY <1>3, <1>5, <1>10
  <2> QED
    BY <1>1, <1>4, <2>1, <2>2 DEF Converted
<1>11. CASE texts # <<>> \/ tools # <<>>
  <2>1. IsList(c) /\ Len(c) = 1 /\ c[1] = x
    BY <1>7, <1>11, OneMessage
  <2>2. tools # <<>> => x.tool_calls # <<>>
    <3>1. ASSUME tools # <<>> PROVE x.tool_calls # <<>>
      <4>1. PICK i \in PlacesOf(m.content, "tool_use") : TRUE
        BY <1>3, <3>1
      <4>2. m.content[i].id \in Range(x.tool_calls)
        BY <1>5, <1>9, <4>1
      <4>3. Range(<<>>) = {}
        BY DEF Range
      <4> QED
        BY <4>2, <4>3
    <3> QED
      BY <3>1
  <2>3. x.text \/ x.tool_calls # <<>>
    <3>1. texts # <<>> => x.text
      BY <1>8
    <3> QED
      BY <1>11, <2>2, <3>1
  <2>4. ASSUME NEW b \in 1..Len(c)
        PROVE  /\ c[b].role = "assistant" /\ ~(b <= Results(m))
               /\ Range(c[b].tool_calls) = Called(m)
               /\ c[b].text \/ c[b].tool_calls # <<>>
    <3>1. b = 1
      BY <2>1
    <3> QED
      BY <1>4, <1>8, <1>9, <2>1, <2>3, <3>1
  <2> QED
    BY <1>1, <1>4, <1>9, <2>1, <2>4 DEF Converted
<1> QED
  BY <1>10, <1>11

\* A user's blocks: the results, and then the text.
LEMMA UserConverted ==
  ASSUME NEW m, IsList(m.content), m.role = "user", m.form = "list"
  PROVE  Converted(m, ConvertMessage(m))
<1>1. PICK c, results, tools, text :
        /\ c = ConvertMessage(m) /\ results = OfType(m.content, "tool_result")
        /\ tools = ToolMessages(m.content) /\ text = UserText(m.content)
  OBVIOUS
<1>2. PICK n \in Nat : /\ n = Cardinality(PlacesOf(m.content, "tool_result"))
                       /\ DOMAIN results = 1..n
  BY <1>1, OfTypeFacts
<1>3. Range(results) = {m.content[i] : i \in PlacesOf(m.content, "tool_result")}
  BY <1>1, OfTypeFacts
<1>4. Results(m) = n /\ Called(m) = {}
  BY <1>2, IdsFacts DEF Results, Called
<1>5. Answered(m) = {m.content[i].id : i \in PlacesOf(m.content, "tool_result")}
  BY IdsFacts DEF Answered
<1>6. Answered(m) = {results[i].id : i \in 1..n}
  <2>1. {t.id : t \in Range(results)} = {results[i].id : i \in 1..n}
    BY <1>2 DEF Range
  <2> QED
    BY <1>3, <1>5, <2>1
<1>7. tools = [i \in 1..n |-> OpenAiMessage("tool", TRUE, <<>>, results[i].id)]
  BY <1>1, <1>2 DEF ToolMessages
<1>8. PICK said : said = OpenAiMessage("user", TRUE, <<>>, NULL)
  OBVIOUS
<1>9. text = <<>> \/ text = <<said>>
  BY <1>1, <1>8 DEF UserText
<1>10. c = tools \o text
  BY <1>1 DEF ConvertMessage, UserMessages
<1>11. PICK T : T = {tools[i] : i \in 1..n} \cup {said}
  OBVIOUS
<1>12. /\ tools \in Seq(T) /\ Len(tools) = n
       /\ text \in Seq(T) /\ Len(text) \in {0, 1} /\ (Len(text) = 0 \/ text = <<said>>)
  <2>1. \A i \in 1..n : tools[i] \in T
    BY <1>11
  <2>2. tools = [i \in 1..n |-> tools[i]]
    BY <1>7
  <2>3. tools \in Seq(T) /\ Len(tools) = n
    BY <2>1, <2>2
  <2>4. <<>> \in Seq(T) /\ <<said>> \in Seq(T) /\ Len(<<>>) = 0 /\ Len(<<said>>) = 1
    BY <1>11
  <2> QED
    BY <1>9, <2>3, <2>4
<1>13. /\ c \in Seq(T) /\ Len(c) = n + Len(text)
       /\ \A b \in 1..(n + Len(text)) : c[b] = IF b <= n THEN tools[b] ELSE text[b - n]
  BY <1>10, <1>12, ConcatProperties
<1>14. IsList(c)
  BY <1>13, SeqOfRange DEF IsList
<1>15. ASSUME NEW b \in 1..n
       PROVE  /\ c[b].role = "tool" /\ c[b].tool_call_id = results[b].id
              /\ c[b].tool_calls = <<>>
  <2>1. c[b] = tools[b]
    BY <1>12, <1>13
  <2> QED
    BY <1>7, <2>1 DEF OpenAiMessage
<1>16. ASSUME NEW b \in 1..Len(c), ~(b <= n) PROVE c[b] = said
  <2>1. Len(text) = 1 /\ b = n + 1
    BY <1>12, <1>13, <1>16
  <2>2. text = <<said>>
    BY <1>12, <2>1
  <2> QED
    BY <1>13, <2>1, <2>2
<1>17. said.role = "user" /\ said.tool_calls = <<>>
  BY <1>8 DEF OpenAiMessage
<1>18. DOMAIN <<>> = {} /\ Range(<<>>) = {}
  BY DEF Range
<1>19. Len(c) \in Nat /\ n <= Len(c)
  BY <1>12, <1>13
<1>20. ASSUME NEW b \in 1..Len(c)
       PROVE  /\ c[b].role = "tool" <=> b <= n
              /\ b <= n => c[b].tool_call_id \in Answered(m)
              /\ DOMAIN c[b].tool_calls = {} /\ Range(c[b].tool_calls) = {}
              /\ c[b].role # "assistant"
  <2>1. CASE b <= n
    <3>1. b \in 1..n
      BY <1>19, <2>1
    <3> QED
      BY <1>6, <1>15, <1>18, <2>1, <3>1
  <2>2. CASE ~(b <= n)
    BY <1>16, <1>17, <1>18, <2>2
  <2> QED
    BY <2>1, <2>2
<1>21. \A id \in Answered(m) : \E b \in 1..n : c[b].tool_call_id = id
  BY <1>6, <1>15
<1> QED
  BY <1>1, <1>4, <1>14, <1>19, <1>20, <1>21 DEF Converted

\* Every form of a message.
LEMMA ConvertedFacts ==
  ASSUME NEW m, m.role \in {"user", "assistant"}, IsList(m.content)
  PROVE  Converted(m, ConvertMessage(m))
  BY PlainConverted, AssistantConverted, UserConverted

\* The order of two places.
LEMMA EarlierPlaces ==
  ASSUME NEW a, NEW b, NEW c, NEW d
  PROVE  Earlier(<<a, b>>, <<c, d>>) <=> a < c \/ (a = c /\ b < d)
  BY DEF Earlier

\* In a paired history, what is called is what the next message answers.
LEMMA PairedFacts ==
  ASSUME NEW h, NEW n \in Nat, n = Len(h), PairedHistory(h), NEW i \in 1..n
  PROVE  /\ Called(h[i]) # {} => i + 1 \in 1..n /\ Answered(h[i + 1]) = Called(h[i])
         /\ Answered(h[i]) # {} => i - 1 \in 1..n /\ Called(h[i - 1]) = Answered(h[i])
<1>1. \A k \in 0..n : (IF k = 0 THEN {} ELSE Called(h[k]))
                        = (IF k = n THEN {} ELSE Answered(h[k + 1]))
  BY DEF PairedHistory, Called, Answered
<1>2. Called(h[i]) = IF i = n THEN {} ELSE Answered(h[i + 1])
  BY <1>1
<1>3. (IF i - 1 = 0 THEN {} ELSE Called(h[i - 1])) = Answered(h[i])
  <2>1. PICK k \in 0..n : k = i - 1 /\ k # n /\ k + 1 = i
    OBVIOUS
  <2>2. (IF k = 0 THEN {} ELSE Called(h[k])) = Answered(h[k + 1])
    BY <1>1, <2>1
  <2> QED
    BY <2>1, <2>2
<1> QED
  BY <1>2, <1>3

\* From J to M there are only results.
Follows(flat, N, J, M) ==
  J < M /\ \A i \in (J + 1)..M : i \in 1..N /\ flat[i].role = "tool"

\* The results follow the message that called them.
LEMMA AnswersFollow ==
  ASSUME NEW h, NEW n \in Nat, NEW conv, DOMAIN conv = 1..n,
         \A i \in 1..n : Converted(h[i], conv[i]),
         NEW flat, NEW N \in Nat, NEW at, InOrder(conv, flat, N, at),
         NEW a \in 1..n, a + 1 \in 1..n, Called(h[a]) # {}
  PROVE  \A b \in 1..Results(h[a + 1]) : \A J, M \in 1..N :
           at[J] = <<a, 1>> /\ at[M] = <<a + 1, b>> => Follows(flat, N, J, M)
<1> SUFFICES ASSUME NEW b \in 1..Results(h[a + 1]), NEW J \in 1..N, NEW M \in 1..N,
                    at[J] = <<a, 1>>, at[M] = <<a + 1, b>>
             PROVE  Follows(flat, N, J, M)
  OBVIOUS
<1>1. /\ at \in [1..N -> Elements(conv)]
      /\ \A k \in 1..N : flat[k] = conv[at[k][1]][at[k][2]]
      /\ \A j, k \in 1..N : j < k <=> Earlier(at[j], at[k])
  BY DEF InOrder
<1>2. Earlier(at[J], at[M])
  BY DEF Earlier
<1>3. J < M
  BY <1>2, <1>1
<1>4. Len(conv[a]) = 1 /\ Results(h[a + 1]) \in Nat
  BY DEF Converted
<1>5. ASSUME NEW i \in (J + 1)..M PROVE i \in 1..N /\ flat[i].role = "tool"
  <2>1. i \in 1..N /\ J < i /\ (i = M \/ i < M)
    BY <1>5
  <2>2. PICK c \in 1..n : at[i] \in {c} \X DOMAIN conv[c]
    BY <1>1, <2>1, SMTT(30) DEF Elements
  <2>3. PICK d \in DOMAIN conv[c] : at[i] = <<c, d>>
    BY <2>2
  <2>4. Converted(h[c], conv[c])
    OBVIOUS
  <2>5. DOMAIN conv[c] = 1..Len(conv[c]) /\ Len(conv[c]) \in Nat
    BY <2>4, ListPlaces DEF Converted
  <2>6. a < c \/ (a = c /\ 1 < d)
    <3>1. Earlier(at[J], at[i])
      BY <1>1, <2>1
    <3>2. Earlier(<<a, 1>>, <<c, d>>)
      BY <2>3, <3>1, Zenon
    <3> QED
      BY <3>2, EarlierPlaces
  <2>7. at[i] = at[M] \/ Earlier(at[i], at[M])
    BY <1>1, <2>1
  <2>8. c < a + 1 \/ (c = a + 1 /\ d <= b)
    <3>1. CASE at[i] = at[M]
      <4>1. <<c, d>> = <<a + 1, b>>
        BY <2>3, <3>1, Zenon
      <4>2. c = a + 1 /\ d = b /\ b \in Int
        BY <4>1
      <4> QED
        BY <4>2
    <3>2. CASE Earlier(at[i], at[M])
      <4>1. Earlier(<<c, d>>, <<a + 1, b>>)
        BY <2>3, <3>2, Zenon
      <4>2. c < a + 1 \/ (c = a + 1 /\ d < b)
        BY <4>1, EarlierPlaces
      <4>3. d \in Int /\ b \in Int
        BY <2>5
      <4> QED
        BY <4>2, <4>3
    <3> QED
      BY <2>7, <3>1, <3>2
  <2>9. c = a + 1 /\ d <= b
    <3>1. a # c
      <4>1. a = c => d \in 1..1
        BY <1>4, <2>5
      <4> QED
        BY <2>6, <4>1
    <3>2. a \in Int /\ c \in Int
      OBVIOUS
    <3> QED
      BY <2>6, <2>8, <3>1, <3>2
  <2>10. d \in 1..Len(conv[c]) /\ d <= Results(h[c])
    BY <1>4, <2>5, <2>9
  <2>11. conv[c][d].role = "tool"
    BY <2>4, <2>10 DEF Converted
  <2>12. flat[i] = conv[c][d]
    BY <1>1, <2>1, <2>3
  <2> QED
    BY <2>1, <2>11, <2>12
<1> QED
  BY <1>3, <1>5 DEF Follows

\* OpenAI accepts what a history becomes whose calls are answered.
LEMMA PairedAccepted ==
  ASSUME NEW h, IsList(h), PairedHistory(h),
         \A m \in Range(h) : m.role \in {"user", "assistant"} /\ IsList(m.content)
  PROVE  Accepts(MessagesToOpenAi(TRUE, h))
<1>1. PICK n \in Nat : n = Len(h) /\ DOMAIN h = 1..n /\ \A i \in 1..n : h[i] \in Range(h)
  BY ListPlaces
<1>2. PICK conv : conv = [i \in DOMAIN h |-> ConvertMessage(h[i])]
  OBVIOUS
<1>3. DOMAIN conv = 1..n /\ \A i \in 1..n : Converted(h[i], conv[i])
  BY <1>1, <1>2, ConvertedFacts
<1>4. \A i \in 1..n : conv[i] \in Seq(Range(conv[i]))
  BY <1>3 DEF Converted, IsList
<1>5. PICK flat : flat = Flat(conv)
  OBVIOUS
<1>6. PICK N \in Nat : \E at : InOrder(conv, flat, N, at)
  <2>1. DOMAIN conv = 1..n
    BY <1>3
  <2> QED
    BY <1>4, <1>5, <2>1, FlatFacts
<1>7. PICK at : InOrder(conv, flat, N, at)
  BY <1>6
<1>8. /\ at \in [1..N -> Elements(conv)]
      /\ DOMAIN flat = 1..N /\ Len(flat) = N /\ flat \in Seq(Range(flat))
      /\ \A k \in 1..N : flat[k] = conv[at[k][1]][at[k][2]]
      /\ \A j, k \in 1..N : j < k <=> Earlier(at[j], at[k])
      /\ \A p \in Elements(conv) : \E k \in 1..N : at[k] = p
  BY <1>7 DEF InOrder
<1>9. ASSUME NEW k \in 1..N
      PROVE  \E a \in 1..n : \E b \in 1..Len(conv[a]) :
               at[k] = <<a, b>> /\ flat[k] = conv[a][b]
  <2>4. at[k] \in Elements(conv)
    BY <1>8
  <2>1. PICK a \in 1..n : at[k] \in {a} \X DOMAIN conv[a]
    BY <1>3, <2>4 DEF Elements
  <2>2. PICK b \in DOMAIN conv[a] : at[k] = <<a, b>>
    BY <2>1
  <2>3. DOMAIN conv[a] = 1..Len(conv[a])
    BY <1>3, ListPlaces DEF Converted
  <2> QED
    BY <1>8, <2>2, <2>3
<1>10. ASSUME NEW a \in 1..n, NEW b \in 1..Len(conv[a])
       PROVE  \E k \in 1..N : at[k] = <<a, b>> /\ flat[k] = conv[a][b]
  <2>1. DOMAIN conv[a] = 1..Len(conv[a])
    BY <1>3, ListPlaces DEF Converted
  <2>2. <<a, b>> \in Elements(conv)
    BY <1>3, <2>1 DEF Elements
  <2> QED
    BY <1>8, <2>2, SMTT(30)
<1>11. PICK out, system : /\ out = MessagesToOpenAi(TRUE, h)
                          /\ system = OpenAiMessage("system", TRUE, <<>>, NULL)
  OBVIOUS
<1>12. out = <<system>> \o flat
  BY <1>2, <1>5, <1>11 DEF MessagesToOpenAi
<1>13. system.role = "system" /\ DOMAIN system.tool_calls = {}
  BY <1>11 DEF OpenAiMessage
<1>14. /\ DOMAIN out = 1..(N + 1) /\ out[1] = system
       /\ \A k \in 1..N : out[k + 1] = flat[k]
  <2>1. PICK T : T = Range(flat) \cup {system}
    OBVIOUS
  <2>2. flat \in Seq(T)
    BY <1>8, <2>1, SeqMonotonic
  <2>3. <<system>> \in Seq(T) /\ Len(<<system>>) = 1 /\ <<system>>[1] = system
    BY <2>1
  <2>4. /\ out \in Seq(T) /\ Len(out) = 1 + N
        /\ \A k \in 1..(1 + N) : out[k] = IF k <= 1 THEN <<system>>[k] ELSE flat[k - 1]
    BY <1>8, <1>12, <2>2, <2>3, ConcatProperties
  <2>5. out[1] = system
    BY <2>3, <2>4
  <2>6. \A k \in 1..N : out[k + 1] = flat[k]
    BY <2>4
  <2> QED
    BY <2>4, <2>5, <2>6
<1>15. ASSUME NEW k \in DOMAIN out, k # 1
       PROVE  \E m \in 1..N : k = m + 1 /\ out[k] = flat[m]
  <2>1. k \in 1..(N + 1) /\ k # 1
    BY <1>14, <1>15
  <2>2. k - 1 \in 1..N /\ k = (k - 1) + 1
    BY <2>1
  <2>3. PICK m \in 1..N : k = m + 1
    BY <2>2
  <2> QED
    BY <1>14, <2>3
<1>16. ASSUME NEW a \in 1..n, a + 1 \in 1..n, Called(h[a]) # {}
       PROVE  \A b \in 1..Results(h[a + 1]) : \A J, M \in 1..N :
                at[J] = <<a, 1>> /\ at[M] = <<a + 1, b>> => Follows(flat, N, J, M)
  <2>1. DOMAIN conv = 1..n
    BY <1>3
  <2>2. \A i \in 1..n : Converted(h[i], conv[i])
    BY <1>3
  <2> QED
    BY <1>7, <1>16, <2>1, <2>2, AnswersFollow
<1>17. ASSUME NEW k \in DOMAIN out, out[k].role = "tool"
       PROVE  \E j \in 1..(k - 1) :
                /\ out[k].tool_call_id \in Range(out[j].tool_calls)
                /\ \A i \in (j + 1)..k : out[i].role = "tool"
  <2>1. PICK m \in 1..N : k = m + 1 /\ out[k] = flat[m]
    BY <1>13, <1>14, <1>15, <1>17
  <2>2. PICK x \in 1..n : \E b \in 1..Len(conv[x]) :
          at[m] = <<x, b>> /\ flat[m] = conv[x][b]
    BY <1>9
  <2>3. PICK b \in 1..Len(conv[x]) : at[m] = <<x, b>> /\ flat[m] = conv[x][b]
    BY <2>2
  <2>4. Converted(h[x], conv[x])
    BY <1>3
  <2>5. b <= Results(h[x]) /\ out[k].tool_call_id \in Answered(h[x])
    BY <1>17, <2>1, <2>3, <2>4 DEF Converted
  <2>6. PICK a \in 1..n : a = x - 1 /\ Called(h[a]) = Answered(h[x])
    BY <1>1, <2>5, PairedFacts
  <2>7. Len(conv[a]) = 1 /\ Range(conv[a][1].tool_calls) = Called(h[a])
    <3>1. Converted(h[a], conv[a])
      BY <1>3
    <3>2. Called(h[a]) # {}
      BY <2>5, <2>6
    <3> QED
      BY <3>1, <3>2 DEF Converted
  <2>8. PICK J \in 1..N : at[J] = <<a, 1>> /\ flat[J] = conv[a][1]
    <3>1. 1 \in 1..Len(conv[a])
      BY <2>7
    <3> QED
      BY <1>10, <3>1
  <2>9. /\ x = a + 1 /\ a + 1 \in 1..n /\ Called(h[a]) # {}
        /\ b \in 1..Results(h[a + 1]) /\ at[m] = <<a + 1, b>>
    <3>1. x = a + 1
      BY <2>6
    <3>2. Results(h[x]) \in Nat
      BY <2>4 DEF Converted
    <3> QED
      BY <2>3, <2>5, <2>6, <3>1, <3>2
  <2>10. J < m /\ \A i \in (J + 1)..m : i \in 1..N /\ flat[i].role = "tool"
    <3>1. \A p \in 1..Results(h[a + 1]) : \A I, M \in 1..N :
            at[I] = <<a, 1>> /\ at[M] = <<a + 1, p>> => Follows(flat, N, I, M)
      BY <1>16, <2>9
    <3>2. Follows(flat, N, J, m)
      BY <2>8, <2>9, <3>1
    <3> QED
      BY <3>2 DEF Follows
  <2>11. PICK j \in 1..(k - 1) : j = J + 1 /\ out[j] = flat[J]
    BY <1>14, <2>1, <2>10
  <2>12. ASSUME NEW i \in (j + 1)..k PROVE out[i].role = "tool"
    <3>1. PICK l \in (J + 1)..m : i = l + 1
      <4>1. i - 1 \in (J + 1)..m /\ i = (i - 1) + 1
        BY <2>1, <2>11
      <4> QED
        BY <4>1
    <3>2. l \in 1..N /\ flat[l].role = "tool"
      BY <2>10
    <3> QED
      BY <1>14, <3>1, <3>2
  <2>13. out[k].tool_call_id \in Range(out[j].tool_calls)
    BY <2>5, <2>6, <2>7, <2>8, <2>11
  <2> QED
    BY <2>12, <2>13
<1>18. ASSUME NEW k \in DOMAIN out, NEW c \in DOMAIN out[k].tool_calls
       PROVE  \E j \in DOMAIN out :
                /\ out[j].tool_call_id = out[k].tool_calls[c]
                /\ j > k /\ \A i \in (k + 1)..j : out[i].role = "tool"
  <2>1. PICK J \in 1..N : k = J + 1 /\ out[k] = flat[J]
    BY <1>13, <1>14, <1>15, <1>18
  <2>2. PICK a \in 1..n : \E b \in 1..Len(conv[a]) :
          at[J] = <<a, b>> /\ flat[J] = conv[a][b]
    BY <1>9
  <2>3. PICK b1 \in 1..Len(conv[a]) : at[J] = <<a, b1>> /\ flat[J] = conv[a][b1]
    BY <2>2
  <2>4. Converted(h[a], conv[a])
    BY <1>3
  <2>5. Len(conv[a]) = 1 /\ Range(flat[J].tool_calls) \subseteq Called(h[a])
    BY <1>18, <2>1, <2>3, <2>4 DEF Converted
  <2>6. at[J] = <<a, 1>>
    BY <2>3, <2>5
  <2>7. PICK id : id = out[k].tool_calls[c]
    OBVIOUS
  <2>8. id \in Called(h[a])
    BY <1>18, <2>1, <2>5, <2>7 DEF Range
  <2>9. a + 1 \in 1..n /\ Answered(h[a + 1]) = Called(h[a])
    BY <1>1, <2>8, PairedFacts
  <2>10. Converted(h[a + 1], conv[a + 1])
    BY <1>3, <2>9
  <2>11. PICK b \in 1..Results(h[a + 1]) : conv[a + 1][b].tool_call_id = id
    BY <2>8, <2>9, <2>10 DEF Converted
  <2>12. b \in 1..Len(conv[a + 1])
    <3>1. /\ Results(h[a + 1]) \in Nat /\ Results(h[a + 1]) <= Len(conv[a + 1])
          /\ Len(conv[a + 1]) \in Nat
      BY <2>10, ListPlaces DEF Converted
    <3> QED
      BY <3>1
  <2>13. PICK m \in 1..N : at[m] = <<a + 1, b>> /\ flat[m] = conv[a + 1][b]
    BY <1>10, <2>9, <2>12
  <2>14. J < m /\ \A i \in (J + 1)..m : i \in 1..N /\ flat[i].role = "tool"
    <3>1. Called(h[a]) # {}
      BY <2>8
    <3> QED
      <4>1. \A p \in 1..Results(h[a + 1]) : \A I, M \in 1..N :
              at[I] = <<a, 1>> /\ at[M] = <<a + 1, p>> => Follows(flat, N, I, M)
        BY <1>16, <2>9, <3>1
      <4>2. Follows(flat, N, J, m)
        BY <2>6, <2>13, <4>1
      <4> QED
        BY <4>2 DEF Follows
  <2>15. PICK j \in DOMAIN out : j = m + 1 /\ out[j] = flat[m]
    BY <1>14
  <2>16. ASSUME NEW i \in (k + 1)..j PROVE out[i].role = "tool"
    <3>1. PICK l \in (J + 1)..m : i = l + 1
      <4>1. i - 1 \in (J + 1)..m /\ i = (i - 1) + 1
        BY <2>1, <2>15
      <4> QED
        BY <4>1
    <3>2. l \in 1..N /\ flat[l].role = "tool"
      BY <2>14
    <3> QED
      BY <1>14, <3>1, <3>2
  <2>17. out[j].tool_call_id = id /\ j > k
    BY <2>1, <2>11, <2>13, <2>14, <2>15
  <2> QED
    BY <2>7, <2>16, <2>17
<1>19. ASSUME NEW k \in DOMAIN out, out[k].role = "assistant"
       PROVE  out[k].text \/ out[k].tool_calls # <<>>
  <2>1. PICK m \in 1..N : k = m + 1 /\ out[k] = flat[m]
    BY <1>13, <1>14, <1>15, <1>19
  <2>2. PICK a \in 1..n : \E b \in 1..Len(conv[a]) :
          at[m] = <<a, b>> /\ flat[m] = conv[a][b]
    BY <1>9
  <2>3. PICK b \in 1..Len(conv[a]) : flat[m] = conv[a][b]
    BY <2>2
  <2>4. Converted(h[a], conv[a])
    BY <1>3
  <2> QED
    BY <1>19, <2>1, <2>3, <2>4 DEF Converted
<1> QED
  <2>1. \A k \in DOMAIN out : out[k].role = "tool" =>
          \E j \in 1..(k - 1) :
            /\ out[k].tool_call_id \in Range(out[j].tool_calls)
            /\ \A i \in (j + 1)..k : out[i].role = "tool"
    BY <1>17
  <2>2. \A k \in DOMAIN out : \A c \in DOMAIN out[k].tool_calls :
          \E j \in DOMAIN out :
            /\ out[j].tool_call_id = out[k].tool_calls[c]
            /\ j > k /\ \A i \in (k + 1)..j : out[i].role = "tool"
    BY <1>18
  <2>3. \A k \in DOMAIN out :
          out[k].role = "assistant" => out[k].text \/ out[k].tool_calls # <<>>
    BY <1>19
  <2>4. Accepts(out)
    BY <2>1, <2>2, <2>3, Zenon DEF Accepts
  <2> QED
    BY <1>11, <2>4
-----------------------------------------------------------------------------
(***************************************************************************)
(* The theorems.                                                           *)
(***************************************************************************)
\* Nothing was called or reported when the process starts.
LEMMA InitLlm ==
  ASSUME Init
  PROVE  LlmInv
  <1>1. now \in 0..MaxNow
    BY CallsAssumption DEF Init
  <1>2. CallsInv
    <2>1. Idle.pc = "idle"
      BY DEF Idle
    <2>2. \A c \in Call : CallOK(c, Idle)
      BY <2>1 DEF CallOK, PC, Flight
    <2>3. QED
      BY <2>2 DEF Init, CallsInv
  <1>3. Done = {} /\ records = <<>>
    <2>1. Idle.pc = "idle"
      BY DEF Idle
    <2>2. QED
      BY <2>1 DEF Init, Done
  <1>4. records \in Seq(CallRecord) /\ Len(records) = 0 /\ DOMAIN records = {}
    BY <1>3
  <1>5. IsFiniteSet(Done) /\ Cardinality(Done) = 0
    BY <1>3, FS_EmptySet
  <1>6. Min({MaxRecords, 0}) = 0
    <2>1. MaxRecords \in Nat \ {0}
      BY CallsAssumption
    <2>2. Min({MaxRecords, 0}) = IF MaxRecords <= 0 THEN MaxRecords ELSE 0
      BY <2>1, SmallerOfTwo
    <2>3. QED
      BY <2>1, <2>2
  <1>7. \E place \in Bijection(Done, DOMAIN records) :
          \A c \in Done : records[place[c]] = calls[c]
    <2>1. PICK f : f = [c \in {} |-> 1]
      OBVIOUS
    <2>2. f \in Bijection({}, {})
      BY <2>1 DEF Bijection, Injection, Surjection, IsInjective
    <2>3. QED
      BY <1>3, <1>4, <2>2
  <1>8. RecordsInv
    BY <1>4, <1>5, <1>6, <1>7 DEF RecordsInv
  <1>9. QED
    BY <1>1, <1>2, <1>8 DEF LlmInv

\* Every step keeps the invariant.
LEMMA NextLlm ==
  ASSUME LlmInv, [Next]_vars
  PROVE  LlmInv'
  <1>1. ASSUME NEW c \in Call, CallStep(c)
        PROVE  LlmInv'
    BY <1>1, PlainStep, ConsumerStep, TextStep, LastStep, StopStep, ToolStep,
       RecordStep DEF CallStep
  <1>2. QED
    BY <1>1, BeginStep, ClockStep DEF Next

\* The invariant of the calls holds in every state: what a stream has buffered is
\* a beginning of the reply, and the ring buffer holds the latest reports.
THEOREM LlmInvariance == Spec => []LlmInv
  <1>1. Init => LlmInv
    BY InitLlm
  <1>2. LlmInv /\ [Next]_vars => LlmInv'
    BY NextLlm
  <1>3. QED
    BY <1>1, <1>2, PTL DEF Spec

\* Calls keep to their labels and the ring buffer to its size.
THEOREM LlmTypeCorrect == Spec => []TypeOK
  <1>1. LlmInv => TypeOK
    <2>1. ASSUME LlmInv
          PROVE  Len(records) <= MaxRecords
      BY <2>1, Filled
    <2>2. QED
      BY <2>1 DEF LlmInv, CallsInv, CallOK, TypeOK
  <1>2. QED
    BY <1>1, LlmInvariance, PTL

\* A stream that was read to its end gives the plain method's answer and has shown
\* all of the text, for any reply, however it was cut into chunks.
THEOREM StreamsGiveTheReply == Spec => []StreamIsTheReply
  <1>1. LlmInv => StreamIsTheReply
    <2> SUFFICES ASSUME LlmInv, NEW c \in Call, Running(c), calls[c].result # NULL
                 PROVE  /\ calls[c].result = Answer(calls[c].req.provider,
                                     calls[c].req.method, calls[c].req.reply)
                        /\ calls[c].req.method = "messages_stream"
                             => calls[c].events = calls[c].req.reply.text
      BY DEF StreamIsTheReply
    <2>1. calls[c].pc \in Flight
      BY DEF LlmInv, CallsInv, CallOK, Running, Started, PC, Flight
    <2>2. FlightOK(c, calls[c])
      BY <2>1, InFlight
    <2>3. calls[c].pc \in {"returned", "stopped"}
      BY <2>1, <2>2 DEF FlightOK, ReadOK, Flight
    <2>4. QED
      BY <2>2, <2>3 DEF FlightOK
  <1>2. QED
    BY <1>1, LlmInvariance, PTL

\* The statistics count every call that ran exactly once, for any number of
\* concurrent calls, until the ring buffer is full.
THEOREM StatsAreRight == Spec => []StatsCountEveryCall
  <1>1. LlmInv => StatsCountEveryCall
    <2> SUFFICES ASSUME LlmInv
                 PROVE  StatsCountEveryCall
      OBVIOUS
    <2>1. Len(records) = Min({MaxRecords, Cardinality(Done)})
      BY DEF LlmInv, RecordsInv
    <2>2. QED
      BY <2>1, StatsRight DEF StatsCountEveryCall
  <1>2. QED
    BY <1>1, LlmInvariance, PTL

\* The p95 that /ai/stats reports is the latency of one of the calls of the window, and
\* at least 95 of 100 of them took no longer, however many there were.
THEOREM P95IsNearestRank == Spec => []NearestRank
<1>1. LlmInv => NearestRank
  BY P95Right DEF NearestRank
<1> QED
  BY <1>1, LlmInvariance, PTL

\* A history in which every call of a tool is answered by the next message, as the chat
\* agent keeps it, is one that OpenAI accepts after the conversion: each result follows
\* the message that called it, each call has its result, and no assistant message is
\* empty, whatever else the messages hold and however many there are.
THEOREM ConversionsAreAccepted == Spec => []HistoryAccepted
<1>1. LlmInv => HistoryAccepted
  <2> SUFFICES ASSUME LlmInv, NEW c \in Call, Running(c), NEW h,
                      h = calls[c].req.history, PairedHistory(h)
               PROVE  Accepts(MessagesToOpenAi(TRUE, h))
    BY DEF HistoryAccepted
  <2>1. CallOK(c, calls[c]) /\ calls[c].pc \in Flight
    BY DEF LlmInv, CallsInv, CallOK, Running, Started, PC, Flight
  <2>2. calls[c].req \in Requests[c]
    BY <2>1 DEF CallOK, FlightOK
  <2>3. /\ IsList(h)
        /\ \A m \in Range(h) : m.role \in {"user", "assistant"} /\ IsList(m.content)
    BY <2>2, CallsAssumption
  <2> QED
    BY <2>3, PairedAccepted
<1> QED
  BY <1>1, LlmInvariance, PTL
=============================================================================
