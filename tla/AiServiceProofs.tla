--------------------------- MODULE AiServiceProofs --------------------------
(***************************************************************************)
(* Proofs about AiService: what the answers of parse-order, search,        *)
(* recommend and intent promise, for any menu, settings, language model    *)
(* answers, threads and failing steps of the startup.                      *)
(***************************************************************************)
EXTENDS AiService, RankingsProofs

Phase == {"config", "connect", "menu", "corpus", "qdrant", "rerank", "llm",
          "intent", "serving", "stopped", "aborted"}

Up == {"serving", "stopped"}

Wired == [conn : {"none", "open", "lost"}, menu : {<<>>, DbMenu},
          embedder : BOOLEAN, corpus : {<<>>, DbMenu}, vector_store : BOOLEAN,
          reranker : BOOLEAN, llm : BOOLEAN, intent : {"none", "lora", "fallback"}]

LoraLabel == {"load", "assign", "labels", "classify"}

ReadLabel == {"execute", "send", "header", "fetch"}

Label == {"idle", "lookup", "ask", "guess"} \cup ReadLabel \cup LoraLabel

\* What DraftsScoped and NothingDropped say of one draft.
Scoped(d) ==
  0 \notin d.issues =>
    /\ d.restaurant_id \in RestaurantsOf(d.restaurant_name)
    /\ \A k \in DOMAIN d.items : d.items[k].food_id \in FoodsOf(d.restaurant_name)

Complete(d, asked) ==
  /\ Cardinality(DOMAIN d.items) + Cardinality(d.issues \ {0}) = Len(asked.items)
  /\ d.confidence = 100 <=> d.issues = {}
  /\ d.confidence \in 0..100
  /\ \A k \in DOMAIN d.items : d.items[k].quantity >= 1

DraftOK(b) == Scoped(b.draft) /\ Complete(b.draft, b.asked)

\* What IntentValid says of one answer.
IntentOK(b) ==
  /\ b.label \in Labels /\ b.confidence \in 0..100
  /\ b.source \in {"lora", "fallback"}
  /\ b.source = "lora" => lora.model /\ lora.labels
  /\ b.source = "fallback" => wired.llm

\* What the answer a promises.
AnswerOK(a) ==
  /\ a.status = "200" /\ a.req.kind = "parse" =>
       /\ a.body.text = a.req.text /\ a.body.hint = a.req.hint
       /\ DraftOK(a.body)
  /\ a.status = "200" /\ a.req.kind = "intent" => IntentOK(a.body)
  /\ wired.corpus # <<>> /\ a.req.kind \in {"search", "recommend"} /\ ~a.req.tool
       => a.status = "200"

\* What a thread at a label works on, and what has been tested for it.
WorkOK(label, r) ==
  /\ label # "idle" => r \in Requests
  /\ label \in {"lookup", "ask"} => r.kind = "parse"
  /\ label \in ReadLabel => r.kind = "recommend"
  /\ label \in LoraLabel => r.kind = "intent" /\ wired.intent = "lora"
  /\ label \in {"labels", "classify"} => lora.model
  /\ label = "guess" => r.kind = "intent" /\ wired.intent = "fallback"

\* The startup: a corpus is there only with its embedder, and a classifier that
\* asks the language model only with a client.
StartupOK ==
  /\ phase \in Phase /\ wired \in Wired
  /\ wired.corpus # <<>> => wired.embedder
  /\ wired.intent # "none" => phase \in Up
  /\ wired.intent = "fallback" => wired.llm

LoraOK == lora \in [model : BOOLEAN, labels : BOOLEAN] /\ (lora.labels => lora.model)

ThreadsOK ==
  /\ pc \in [Thread -> Label] /\ DOMAIN job = Thread /\ DOMAIN answer = Thread
  /\ phase \notin Up => \A t \in Thread : pc[t] = "idle" /\ answer[t] = NULL
  /\ \A t \in Thread : WorkOK(pc[t], job[t])

\* The cache of parse-order holds each draft under its own text and hint.
ParsedOK ==
  \A r \in Requests :
    CacheKey(r) \in DOMAIN parsed =>
      /\ parsed[CacheKey(r)].text = r.text /\ parsed[CacheKey(r)].hint = r.hint
      /\ DraftOK(parsed[CacheKey(r)])

AnswersOK == \A t \in Thread : answer[t] # NULL => AnswerOK(answer[t])

ServiceInv == StartupOK /\ LoraOK /\ ThreadsOK /\ ParsedOK /\ AnswersOK
-----------------------------------------------------------------------------
(***************************************************************************)
(* The parser.                                                             *)
(***************************************************************************)
\* The larger of two numbers.
LEMMA LargerOfTwo ==
  ASSUME NEW a \in Int, NEW b \in Int
  PROVE  Max({a, b}) = IF b <= a THEN a ELSE b
  BY DEF Max

\* The smaller of two numbers.
LEMMA SmallerOfTwo ==
  ASSUME NEW a \in Int, NEW b \in Int
  PROVE  Min({a, b}) = IF a <= b THEN a ELSE b
  BY DEF Min

\* The menu of the database is a sequence of foods on numbered places.
LEMMA MenuFacts ==
  /\ DbMenu \in Seq(MenuItem) /\ Len(DbMenu) \in Nat
  /\ DOMAIN DbMenu = 1..Len(DbMenu) /\ DOMAIN DbMenu \in SUBSET Nat
  /\ \A i \in DOMAIN DbMenu : DbMenu[i] \in MenuItem
  <1>1. DbMenu \in Seq(MenuItem)
    BY AiAssumption
  <1>2. Len(DbMenu) \in Nat /\ DOMAIN DbMenu = 1..Len(DbMenu)
    BY <1>1, LenProperties
  <1>3. QED
    BY <1>1, <1>2, ElementOfSeq

\* Where _resolve_food looks.
Candidates(restaurant) ==
  LET there == {i \in DOMAIN DbMenu : Lower[DbMenu[i].restaurant_name]
                                        = Lower[restaurant]}
  IN  IF there = {} THEN DOMAIN DbMenu ELSE there

\* A food that was resolved is one of the candidates.
LEMMA ResolvedFood ==
  ASSUME NEW name, NEW restaurant, ResolveFood(name, DbMenu, restaurant) # NoFood
  PROVE  \E i \in Candidates(restaurant) :
           ResolveFood(name, DbMenu, restaurant) = DbMenu[i]
  <1> DEFINE c     == Candidates(restaurant)
             low   == Strip[Lower[name]]
             exact == {i \in c : DbMenu[i].food_name = name}
             same  == {i \in c : Lower[DbMenu[i].food_name] = low}
             part  == {i \in c : \/ <<low, Lower[DbMenu[i].food_name]>> \in Within
                                 \/ <<Lower[DbMenu[i].food_name], low>> \in Within}
             found == FirstOf(exact, same, part)
  <1>1. ResolveFood(name, DbMenu, restaurant)
          = IF found = {} THEN NoFood ELSE DbMenu[Min(found)]
    BY DEF ResolveFood, Candidates
  <1>2. c \subseteq Nat
    BY MenuFacts DEF Candidates
  <1>3. found \subseteq c
    BY DEF FirstOf
  <1> HIDE DEF found, c
  <1>4. found # {}
    BY <1>1
  <1>5. Min(found) \in found
    BY <1>2, <1>3, <1>4, MinIn
  <1>6. QED
    BY <1>1, <1>3, <1>4, <1>5 DEF c

\* A restaurant that was found has the id of a restaurant of its name.
LEMMA ResolvedRestaurant ==
  ASSUME NEW name, NEW hint, NEW r, r = ResolveRestaurant(name, DbMenu, hint),
         r.found
  PROVE  \E i \in DOMAIN DbMenu :
           /\ Lower[DbMenu[i].restaurant_name] = Lower[r.name]
           /\ DbMenu[i].restaurant_id = r.id
  <1> DEFINE same == {i \in DOMAIN DbMenu : Lower[DbMenu[i].restaurant_name]
                                              = Lower[name]}
             part == {i \in DOMAIN DbMenu :
                        <<Lower[name], Lower[DbMenu[i].restaurant_name]>> \in Within}
  <1>1. same \in SUBSET Nat /\ part \in SUBSET Nat
    BY MenuFacts
  <1>2. CASE same # {}
    <2>1. r = [id |-> DbMenu[Min(same)].restaurant_id, name |-> name, found |-> TRUE]
      BY <1>2 DEF ResolveRestaurant
    <2>2. Min(same) \in same
      BY <1>1, <1>2, MinIn
    <2>3. r.id = DbMenu[Min(same)].restaurant_id /\ r.name = name
      BY <2>1
    <2>4. QED
      BY <2>2, <2>3
  <1>3. CASE same = {} /\ part # {}
    <2>1. r = [id |-> DbMenu[Min(part)].restaurant_id,
               name |-> DbMenu[Min(part)].restaurant_name, found |-> TRUE]
      BY <1>3 DEF ResolveRestaurant
    <2>2. Min(part) \in part
      BY <1>1, <1>3, MinIn
    <2>3. /\ r.id = DbMenu[Min(part)].restaurant_id
          /\ r.name = DbMenu[Min(part)].restaurant_name
      BY <2>1
    <2>4. QED
      BY <2>2, <2>3
  <1>4. CASE same = {} /\ part = {}
    <2>1. r.found = FALSE
      BY <1>4 DEF ResolveRestaurant
    <2>2. QED
      BY <2>1
  <1>5. QED
    BY <1>2, <1>3, <1>4

\* The draft of an answer of the language model is complete, and scoped to its
\* restaurant when it has found one.
LEMMA DraftFacts ==
  ASSUME NEW reply \in Replies, NEW hint, NEW menu \in {<<>>, DbMenu},
         NEW d, d = ParseOrder(reply, menu, hint), d.kind = "draft"
  PROVE  Scoped(d) /\ Complete(d, reply)
  <1>1. /\ reply.tool = "create_order_draft" /\ d = Draft(reply, menu, hint)
        /\ d # Refused /\ d # Invalid
    BY DEF ParseOrder, Refused, Invalid
  <1>2. reply.items \in Seq(NamedItem)
    BY <1>1, AiAssumption
  <1> DEFINE r      == ResolveRestaurant(reply.restaurant_name, menu, hint)
             asked  == reply.items
             food   == [i \in DOMAIN asked |->
                          ResolveFood(asked[i].food_name, menu, r.name)]
             found  == {i \in DOMAIN asked : food[i] # NoFood}
             items  == [i \in found |-> [food_id    |-> food[i].food_id,
                                         unit_price |-> food[i].unit_price,
                                         quantity   |-> asked[i].quantity]]
             issues == Issues(r, DOMAIN asked \ found)
  <1>3. /\ ~\E i \in found : asked[i].quantity < 1
        /\ found # {}
        /\ d = [kind |-> "draft", restaurant_id |-> r.id, restaurant_name |-> r.name,
                items |-> items, estimated_total |-> Total(items),
                issues |-> issues,
                confidence |-> Max({0, 100 - 15 * Cardinality(issues)})]
    BY <1>1 DEF Draft
  <1> HIDE DEF r, asked, food, found, items, issues
  <1>4. /\ d.restaurant_id = r.id /\ d.restaurant_name = r.name /\ d.items = items
        /\ d.issues = issues
        /\ d.confidence = Max({0, 100 - 15 * Cardinality(issues)})
    BY <1>3
  <1>5. /\ Len(asked) \in Nat /\ DOMAIN asked = 1..Len(asked)
        /\ \A i \in DOMAIN asked : asked[i].quantity \in Int
    <2>1. asked \in Seq(NamedItem)
      BY <1>2 DEF asked
    <2>2. Len(asked) \in Nat /\ DOMAIN asked = 1..Len(asked)
      BY <2>1, LenProperties
    <2>3. \A i \in DOMAIN asked : asked[i] \in NamedItem
      BY <2>1, <2>2, ElementOfSeq
    <2>4. QED
      BY <2>2, <2>3 DEF NamedItem
  <1>6. /\ DOMAIN d.items = found
        /\ \A i \in found : /\ d.items[i].food_id = food[i].food_id
                            /\ d.items[i].quantity = asked[i].quantity
    BY <1>4 DEF items
  <1>7. menu = DbMenu
    <2>1. CASE menu = <<>>
      <3>1. \A n, m : ResolveFood(n, <<>>, m) = NoFood
        BY DEF ResolveFood, FirstOf
      <3>2. found = {}
        BY <2>1, <3>1 DEF found, food
      <3>3. QED
        BY <1>3, <3>2
    <2>2. QED
      BY <2>1
  <1>8. Scoped(d)
    <2> SUFFICES ASSUME 0 \notin d.issues
                 PROVE  /\ d.restaurant_id \in RestaurantsOf(d.restaurant_name)
                        /\ \A k \in DOMAIN d.items :
                             d.items[k].food_id \in FoodsOf(d.restaurant_name)
      BY DEF Scoped
    <2>1. r.found
      BY <1>4 DEF Issues, issues
    <2>2. PICK i \in DOMAIN DbMenu : /\ Lower[DbMenu[i].restaurant_name] = Lower[r.name]
                                     /\ DbMenu[i].restaurant_id = r.id
      BY <1>7, <2>1, ResolvedRestaurant DEF r
    <2>3. d.restaurant_id \in RestaurantsOf(d.restaurant_name)
      BY <1>4, <2>2 DEF RestaurantsOf
    <2>4. Candidates(r.name) = {k \in DOMAIN DbMenu :
                                  Lower[DbMenu[k].restaurant_name] = Lower[r.name]}
      BY <2>2 DEF Candidates
    <2>5. ASSUME NEW k \in found
          PROVE  food[k].food_id \in FoodsOf(r.name)
      <3>1. /\ food[k] = ResolveFood(asked[k].food_name, DbMenu, r.name)
            /\ food[k] # NoFood
        BY <1>7 DEF found, food
      <3>2. PICK n \in Candidates(r.name) : food[k] = DbMenu[n]
        BY <3>1, ResolvedFood
      <3>3. QED
        BY <2>4, <3>2 DEF FoodsOf
    <2>6. QED
      BY <1>4, <1>6, <2>3, <2>5
  <1>9. Complete(d, reply)
    <2> DEFINE missing == DOMAIN asked \ found
    <2>1. IsFiniteSet(DOMAIN asked) /\ Cardinality(DOMAIN asked) = Len(asked)
      BY <1>5, FS_Interval, SMTT(30)
    <2>2. found \subseteq DOMAIN asked /\ missing \subseteq DOMAIN asked
      BY DEF found
    <2>3. /\ IsFiniteSet(found) /\ IsFiniteSet(missing)
          /\ Cardinality(found) \in Nat /\ Cardinality(missing) \in Nat
      BY <2>1, <2>2, FS_Subset, FS_CardinalityType
    <2>4. found \cup missing = DOMAIN asked /\ found \cap missing = {}
      BY <2>2
    <2>5. Cardinality(found) + Cardinality(missing) = Len(asked)
      <3>1. Cardinality(found \cup missing)
              = Cardinality(found) + Cardinality(missing)
                - Cardinality(found \cap missing)
        BY <2>3, FS_Union
      <3>2. /\ Cardinality(found \cup missing) = Len(asked)
            /\ Cardinality(found \cap missing) = 0
        BY <2>1, <2>4, FS_EmptySet
      <3>3. QED
        BY <2>3, <3>1, <3>2
    <2>6. issues \ {0} = missing /\ issues \subseteq missing \cup {0}
      BY <1>5, <2>2 DEF issues, Issues
    <2>7. IsFiniteSet(issues) /\ Cardinality(issues) \in Nat
      <3>1. IsFiniteSet(missing \cup {0})
        BY <2>3, FS_AddElement
      <3>2. QED
        BY <2>6, <3>1, FS_Subset, FS_CardinalityType
    <2>8. Cardinality(issues) = 0 <=> issues = {}
      BY <2>7, FS_EmptySet
    <2>9. d.confidence \in 0..100 /\ (d.confidence = 100 <=> Cardinality(issues) = 0)
      <3>1. PICK c \in Nat : c = Cardinality(issues)
        BY <2>7
      <3>2. d.confidence = Max({0, 100 - 15 * c}) /\ 100 - 15 * c \in Int
        BY <1>4, <3>1
      <3>3. d.confidence = IF 100 - 15 * c <= 0 THEN 0 ELSE 100 - 15 * c
        BY <3>2, LargerOfTwo
      <3>4. d.confidence \in 0..100 /\ (d.confidence = 100 <=> c = 0)
        BY <3>3
      <3>5. QED
        BY <3>1, <3>4
    <2>10. \A k \in DOMAIN d.items : d.items[k].quantity >= 1
      BY <1>3, <1>5, <1>6, <2>2
    <2>11. QED
      BY <1>4, <1>6, <2>5, <2>6, <2>8, <2>9, <2>10 DEF Complete, asked
  <1>10. QED
    BY <1>8, <1>9
-----------------------------------------------------------------------------
(***************************************************************************)
(* Steps that leave the startup, or the threads, alone.                    *)
(***************************************************************************)
\* A step of the startup: nobody is served yet.
LEMMA StartedStep ==
  ASSUME ServiceInv, NEW from \in Phase \ Up, NEW to \in Phase, NEW new \in Wired,
         Started(from, to, new), new.corpus # <<>> => new.embedder,
         new.intent # "none" => to \in Up, new.intent = "fallback" => new.llm
  PROVE  ServiceInv'
  <1>1. /\ phase = from /\ phase' = to /\ wired' = new
        /\ UNCHANGED <<lora, parsed, pc, job, answer>>
    BY DEF Started, threads
  <1>2. \A t \in Thread : pc[t] = "idle" /\ answer[t] = NULL
    BY <1>1 DEF ServiceInv, ThreadsOK
  <1>3. StartupOK'
    BY <1>1 DEF StartupOK
  <1>4. LoraOK'
    BY <1>1 DEF ServiceInv, LoraOK
  <1>5. ThreadsOK'
    BY <1>1, <1>2 DEF ServiceInv, ThreadsOK, WorkOK, LoraLabel
  <1>6. ParsedOK'
    BY <1>1 DEF ServiceInv, ParsedOK, CacheKey, DraftOK, Scoped, Complete
  <1>7. AnswersOK'
    BY <1>1, <1>2 DEF AnswersOK
  <1>8. QED
    BY <1>3, <1>4, <1>5, <1>6, <1>7 DEF ServiceInv

\* An answer stays right while the singletons stay and the classifier loads.
LEMMA AnswerStays ==
  ASSUME NEW a, AnswerOK(a), wired'.corpus = wired.corpus, wired'.llm = wired.llm,
         lora.model => lora'.model, lora.labels => lora'.labels
  PROVE  AnswerOK(a)'
  BY DEF AnswerOK, IntentOK, DraftOK, Scoped, Complete

\* The connection is lost or closed.
LEMMA ConnStep ==
  ASSUME ServiceInv, phase \in Up, phase' \in Up, NEW c \in {"none", "lost"},
         wired' = [wired EXCEPT !.conn = c],
         UNCHANGED <<lora, parsed, pc, job, answer>>
  PROVE  ServiceInv'
  <1>1. wired \in Wired
    BY DEF ServiceInv, StartupOK
  <1>2. /\ wired' \in Wired /\ wired'.corpus = wired.corpus
        /\ wired'.embedder = wired.embedder /\ wired'.llm = wired.llm
        /\ wired'.intent = wired.intent
    BY <1>1 DEF Wired
  <1>3. StartupOK'
    BY <1>2 DEF ServiceInv, StartupOK, Up, Phase
  <1>4. LoraOK'
    BY DEF ServiceInv, LoraOK
  <1>5. ThreadsOK'
    BY <1>2 DEF ServiceInv, ThreadsOK, WorkOK
  <1>6. ParsedOK'
    BY DEF ServiceInv, ParsedOK, CacheKey, DraftOK, Scoped, Complete
  <1>7. AnswersOK'
    BY <1>2, AnswerStays DEF ServiceInv, AnswersOK
  <1>8. QED
    BY <1>3, <1>4, <1>5, <1>6, <1>7 DEF ServiceInv

\* Nothing that the invariant is about.
LEMMA OutsideStep ==
  ASSUME ServiceInv, UNCHANGED <<phase, wired, lora, parsed, pc, job, answer>>
  PROVE  ServiceInv'
  <1>1. StartupOK' /\ LoraOK' /\ ThreadsOK'
    BY DEF ServiceInv, StartupOK, LoraOK, ThreadsOK, WorkOK
  <1>2. ParsedOK'
    BY DEF ServiceInv, ParsedOK, CacheKey, DraftOK, Scoped, Complete
  <1>3. AnswersOK'
    BY AnswerStays DEF ServiceInv, AnswersOK
  <1>4. QED
    BY <1>1, <1>2, <1>3 DEF ServiceInv

\* A thread goes on; the classifier may be loaded meanwhile.
LEMMA GotoStep ==
  ASSUME ServiceInv, NEW t \in Thread, NEW label \in Label, pc[t] # "idle",
         Goto(t, label), UNCHANGED <<phase, wired, parsed>>, LoraOK',
         lora.model => lora'.model, lora.labels => lora'.labels,
         WorkOK(label, job[t])'
  PROVE  ServiceInv'
  <1>1. /\ pc' = [pc EXCEPT ![t] = label] /\ job' = job /\ answer' = answer
        /\ pc \in [Thread -> Label]
    BY DEF Goto, ServiceInv, ThreadsOK
  <1>2. /\ pc' \in [Thread -> Label] /\ pc'[t] = label
        /\ \A x \in Thread \ {t} : pc'[x] = pc[x]
    BY <1>1
  <1>3. phase \in Up
    BY DEF ServiceInv, ThreadsOK
  <1>4. StartupOK'
    BY DEF ServiceInv, StartupOK
  <1>5. ASSUME NEW x \in Thread
        PROVE  WorkOK(pc[x], job[x])'
    <2>1. CASE x = t
      BY <1>2, <2>1
    <2>2. CASE x # t
      <3>1. WorkOK(pc[x], job[x]) /\ pc'[x] = pc[x] /\ job'[x] = job[x]
        BY <1>1, <1>2, <2>2 DEF ServiceInv, ThreadsOK
      <3>2. QED
        BY <3>1 DEF WorkOK
    <2>3. QED
      BY <2>1, <2>2
  <1>6. ThreadsOK'
    BY <1>1, <1>2, <1>3, <1>5 DEF ServiceInv, ThreadsOK
  <1>7. ParsedOK'
    BY DEF ServiceInv, ParsedOK, CacheKey, DraftOK, Scoped, Complete
  <1>8. AnswersOK'
    BY <1>1, AnswerStays DEF ServiceInv, AnswersOK
  <1>9. QED
    BY <1>4, <1>6, <1>7, <1>8 DEF ServiceInv

\* A thread answers.
LEMMA AnswerStep ==
  ASSUME ServiceInv, NEW t \in Thread, phase \in Up, NEW r, NEW status, NEW body,
         Answer(t, r, status, body), UNCHANGED <<phase, wired, lora>>, ParsedOK',
         AnswerOK([req |-> r, status |-> status, body |-> body])
  PROVE  ServiceInv'
  <1> DEFINE a == [req |-> r, status |-> status, body |-> body]
  <1>1. /\ pc' = [pc EXCEPT ![t] = "idle"] /\ job' = [job EXCEPT ![t] = NULL]
        /\ answer' = [answer EXCEPT ![t] = a] /\ pc \in [Thread -> Label]
        /\ DOMAIN job = Thread /\ DOMAIN answer = Thread
    BY DEF Answer, ServiceInv, ThreadsOK
  <1> HIDE DEF a
  <1>2. /\ pc' \in [Thread -> Label] /\ DOMAIN job' = Thread
        /\ DOMAIN answer' = Thread /\ pc'[t] = "idle" /\ answer'[t] = a
        /\ \A x \in Thread \ {t} : /\ pc'[x] = pc[x] /\ job'[x] = job[x]
                                   /\ answer'[x] = answer[x]
    BY <1>1 DEF Label
  <1>3. StartupOK' /\ LoraOK'
    BY DEF ServiceInv, StartupOK, LoraOK
  <1>4. ASSUME NEW x \in Thread
        PROVE  WorkOK(pc[x], job[x])'
    <2>1. CASE x = t
      BY <1>2, <2>1 DEF WorkOK, LoraLabel, ReadLabel
    <2>2. CASE x # t
      <3>1. WorkOK(pc[x], job[x]) /\ pc'[x] = pc[x] /\ job'[x] = job[x]
        BY <1>2, <2>2 DEF ServiceInv, ThreadsOK
      <3>2. QED
        BY <3>1 DEF WorkOK
    <2>3. QED
      BY <2>1, <2>2
  <1>5. ThreadsOK'
    BY <1>2, <1>4 DEF ServiceInv, ThreadsOK
  <1>6. ASSUME NEW x \in Thread, answer'[x] # NULL
        PROVE  AnswerOK(answer[x])'
    <2>1. CASE x = t
      BY <1>2, <2>1, AnswerStays DEF a
    <2>2. CASE x # t
      BY <1>2, <1>6, <2>2, AnswerStays DEF ServiceInv, AnswersOK
    <2>3. QED
      BY <2>1, <2>2
  <1>7. QED
    BY <1>3, <1>5, <1>6 DEF ServiceInv, AnswersOK
-----------------------------------------------------------------------------
(***************************************************************************)
(* The startup, the shutdown and the world.                                *)
(***************************************************************************)
\* Every step of the startup, whether it succeeds or fails.
LEMMA StartupStep ==
  ASSUME ServiceInv, Startup
  PROVE  ServiceInv'
  <1>1. /\ wired \in Wired /\ (wired.corpus # <<>> => wired.embedder)
        /\ (wired.intent # "none" => phase \in Up)
        /\ (wired.intent = "fallback" => wired.llm)
    BY DEF ServiceInv, StartupOK
  <1>2. ASSUME NEW from \in Phase \ Up, NEW to \in Phase, Started(from, to, wired)
        PROVE  ServiceInv'
    BY <1>1, <1>2, StartedStep DEF Started
  <1>3. CASE ValidateLlm
    <2>1. PICK to \in {"connect", "aborted"} : Started("config", to, wired)
      BY <1>3 DEF ValidateLlm
    <2>2. QED
      BY <1>2, <2>1 DEF Phase, Up
  <1>4. CASE ConnectDb
    <2>1. CASE Started("connect", "menu", [wired EXCEPT !.conn = "open"])
      <3> DEFINE new == [wired EXCEPT !.conn = "open"]
      <3>1. /\ new \in Wired /\ new.corpus = wired.corpus /\ new.intent = wired.intent
            /\ new.embedder = wired.embedder /\ new.llm = wired.llm
        BY <1>1 DEF Wired
      <3>2. Started("connect", "menu", new) /\ phase = "connect"
        BY <2>1 DEF Started
      <3> HIDE DEF new
      <3>3. QED
        BY <1>1, <3>1, <3>2, StartedStep DEF Phase, Up
    <2>2. CASE Started("connect", "corpus", wired)
      BY <1>2, <2>2 DEF Phase, Up
    <2>3. QED
      BY <1>4, <2>1, <2>2 DEF ConnectDb
  <1>5. CASE FetchMenu
    <2>1. CASE Started("menu", "corpus", [wired EXCEPT !.menu = DbMenu])
      <3> DEFINE new == [wired EXCEPT !.menu = DbMenu]
      <3>1. /\ new \in Wired /\ new.corpus = wired.corpus /\ new.intent = wired.intent
            /\ new.embedder = wired.embedder /\ new.llm = wired.llm
        BY <1>1 DEF Wired
      <3>2. Started("menu", "corpus", new) /\ phase = "menu"
        BY <2>1 DEF Started
      <3> HIDE DEF new
      <3>3. QED
        BY <1>1, <3>1, <3>2, StartedStep DEF Phase, Up
    <2>2. CASE Started("menu", "corpus", wired)
      BY <1>2, <2>2 DEF Phase, Up
    <2>3. QED
      BY <1>5, <2>1, <2>2 DEF FetchMenu
  <1>6. CASE BuildCorpus
    <2>1. CASE Started("corpus", "qdrant", wired)
      BY <1>2, <2>1 DEF Phase, Up
    <2>2. ASSUME NEW corpus \in BuiltFrom(wired.menu),
                 Started("corpus", "qdrant",
                         [wired EXCEPT !.embedder = TRUE, !.corpus = corpus])
          PROVE  ServiceInv'
      <3> DEFINE new == [wired EXCEPT !.embedder = TRUE, !.corpus = corpus]
      <3>1. corpus \in {<<>>, DbMenu}
        BY <1>1 DEF BuiltFrom, Wired
      <3>2. /\ new \in Wired /\ new.intent = wired.intent
            /\ new.embedder /\ new.llm = wired.llm
        BY <1>1, <3>1 DEF Wired
      <3>3. Started("corpus", "qdrant", new) /\ phase = "corpus"
        BY <2>2 DEF Started
      <3> HIDE DEF new
      <3>4. QED
        BY <1>1, <3>2, <3>3, StartedStep DEF Phase, Up
    <2>3. QED
      BY <1>6, <2>1, <2>2 DEF BuildCorpus
  <1>7. CASE WireVectorStore
    <2>1. PICK b \in BOOLEAN : Started("qdrant", "rerank",
                                      [wired EXCEPT !.vector_store = b])
      BY <1>7 DEF WireVectorStore
    <2> DEFINE new == [wired EXCEPT !.vector_store = b]
    <2>2. /\ new \in Wired /\ new.corpus = wired.corpus /\ new.intent = wired.intent
          /\ new.embedder = wired.embedder /\ new.llm = wired.llm
      BY <1>1 DEF Wired
    <2>3. Started("qdrant", "rerank", new) /\ phase = "qdrant"
      BY <2>1 DEF Started
    <2> HIDE DEF new
    <2>4. QED
      BY <1>1, <2>2, <2>3, StartedStep DEF Phase, Up
  <1>8. CASE WireReranker
    <2>1. PICK b \in BOOLEAN : Started("rerank", "llm",
                                      [wired EXCEPT !.reranker = b])
      BY <1>8 DEF WireReranker
    <2> DEFINE new == [wired EXCEPT !.reranker = b]
    <2>2. /\ new \in Wired /\ new.corpus = wired.corpus /\ new.intent = wired.intent
          /\ new.embedder = wired.embedder /\ new.llm = wired.llm
      BY <1>1 DEF Wired
    <2>3. Started("rerank", "llm", new) /\ phase = "rerank"
      BY <2>1 DEF Started
    <2> HIDE DEF new
    <2>4. QED
      BY <1>1, <2>2, <2>3, StartedStep DEF Phase, Up
  <1>9. CASE CreateLlm
    <2>1. CASE Started("llm", "aborted", wired)
      BY <1>2, <2>1 DEF Phase, Up
    <2>2. ASSUME NEW b \in BOOLEAN,
                 Started("llm", "intent", [wired EXCEPT !.llm = b])
          PROVE  ServiceInv'
      <3> DEFINE new == [wired EXCEPT !.llm = b]
      <3>1. /\ new \in Wired /\ new.corpus = wired.corpus
            /\ new.intent = wired.intent /\ new.embedder = wired.embedder
        BY <1>1 DEF Wired
      <3>2. Started("llm", "intent", new) /\ phase = "llm"
        BY <2>2 DEF Started
      <3> HIDE DEF new
      <3>3. wired.intent = "none"
        BY <1>1, <3>2 DEF Up
      <3>4. QED
        BY <1>1, <3>1, <3>2, <3>3, StartedStep DEF Phase, Up
    <2>3. PICK b \in BOOLEAN : \/ Started("llm", "aborted", wired)
                              \/ Started("llm", "intent", [wired EXCEPT !.llm = b])
      BY <1>9 DEF CreateLlm
    <2>4. QED
      BY <2>1, <2>2, <2>3
  <1>10. CASE WireIntentClassifier
    <2>1. PICK s \in {"none", "lora", "fallback"} :
            /\ s = "fallback" => wired.llm
            /\ Started("intent", "serving", [wired EXCEPT !.intent = s])
      BY <1>10 DEF WireIntentClassifier, Lora
    <2> DEFINE new == [wired EXCEPT !.intent = s]
    <2>2. /\ new \in Wired /\ new.corpus = wired.corpus /\ new.intent = s
          /\ new.embedder = wired.embedder /\ new.llm = wired.llm
      BY <1>1 DEF Wired
    <2>3. Started("intent", "serving", new) /\ phase = "intent"
      BY <2>1 DEF Started
    <2> HIDE DEF new
    <2>4. QED
      BY <1>1, <2>1, <2>2, <2>3, StartedStep DEF Phase, Up
  <1>11. QED
    BY <1>3, <1>4, <1>5, <1>6, <1>7, <1>8, <1>9, <1>10 DEF Startup

\* The connection is lost, or closed at the shutdown.
LEMMA ConnectionStep ==
  ASSUME ServiceInv, LoseConnection \/ Shutdown
  PROVE  ServiceInv'
  <1>1. CASE LoseConnection
    <2>1. /\ phase \in Up /\ phase' \in Up /\ wired' = [wired EXCEPT !.conn = "lost"]
          /\ UNCHANGED <<lora, parsed, pc, job, answer>>
      BY <1>1 DEF LoseConnection, threads, Up
    <2>2. QED
      BY <2>1, ConnStep
  <1>2. CASE Shutdown
    <2>1. /\ phase \in Up /\ phase' \in Up /\ wired' = [wired EXCEPT !.conn = "none"]
          /\ UNCHANGED <<lora, parsed, pc, job, answer>>
      BY <1>2 DEF Shutdown, threads, Up
    <2>2. QED
      BY <2>1, ConnStep
  <1>3. QED
    BY <1>1, <1>2
-----------------------------------------------------------------------------
(***************************************************************************)
(* The requests.                                                           *)
(***************************************************************************)
\* Steps that leave the parse cache alone keep it right.
LEMMA CacheStays ==
  ASSUME ServiceInv, parsed' = parsed
  PROVE  ParsedOK'
  BY DEF ServiceInv, ParsedOK, CacheKey, DraftOK, Scoped, Complete

\* What the tests before the first step of a request establish.
LEMMA ReceiveStep ==
  ASSUME ServiceInv, NEW t \in Thread, NEW r \in Requests, Receive(t, r)
  PROVE  ServiceInv'
  <1>1. /\ phase = "serving" /\ pc[t] = "idle"
        /\ UNCHANGED <<phase, wired, lora, parsed>>
    BY DEF Receive, process
  <1>2. ParsedOK'
    BY <1>1, CacheStays
  <1>3. /\ r.kind \in {"health", "search", "parse", "recommend", "intent"}
        /\ r.tool \in BOOLEAN /\ (r.tool => r.kind \in {"parse", "recommend"})
    BY AiAssumption
  <1>4. /\ wired.corpus # <<>> => wired.embedder
        /\ wired.intent \in {"none", "lora", "fallback"}
    BY DEF ServiceInv, StartupOK, Wired
  <1>5. /\ Checks(r) \in {"200", "500", "503", "ask", "execute", "lookup", "load",
                          "guess"}
        /\ Checks(r) \in {"200", "500", "503"} =>
             /\ Checks(r) = "200" => r.kind \notin {"parse", "intent"}
             /\ wired.corpus # <<>> /\ r.kind \in {"search", "recommend"} /\ ~r.tool
                  => Checks(r) = "200"
        /\ Checks(r) \in {"lookup", "ask"} => r.kind = "parse"
        /\ Checks(r) = "execute" => r.kind = "recommend"
        /\ Checks(r) = "load" => r.kind = "intent" /\ wired.intent = "lora"
        /\ Checks(r) = "guess" => r.kind = "intent" /\ wired.intent = "fallback"
    <2>1. CASE r.tool
      BY <1>3, <2>1 DEF Checks
    <2>2. CASE ~r.tool /\ r.kind = "health"
      BY <2>2 DEF Checks
    <2>3. CASE ~r.tool /\ r.kind = "search"
      BY <1>4, <2>3 DEF Checks
    <2>4. CASE ~r.tool /\ r.kind = "parse"
      BY <2>4 DEF Checks
    <2>5. CASE ~r.tool /\ r.kind = "recommend"
      BY <2>5 DEF Checks
    <2>6. CASE ~r.tool /\ r.kind = "intent"
      BY <1>4, <2>6 DEF Checks
    <2>7. QED
      BY <1>3, <2>1, <2>2, <2>3, <2>4, <2>5, <2>6
  <1>6. PICK label : label = Checks(r)
    OBVIOUS
  <1>7. CASE label \in {"200", "500", "503"}
    <2>1. Answer(t, r, label, Health)
      BY <1>6, <1>7 DEF Receive
    <2>2. AnswerOK([req |-> r, status |-> label, body |-> Health])
      <3> DEFINE a == [req |-> r, status |-> label, body |-> Health]
      <3>1. a.req = r /\ a.status = label
        OBVIOUS
      <3> HIDE DEF a
      <3>2. QED
        BY <1>5, <1>6, <1>7, <3>1 DEF AnswerOK, a
    <2>3. QED
      BY <1>1, <1>2, <2>1, <2>2, AnswerStep DEF Up
  <1>8. CASE label \notin {"200", "500", "503"}
    <2>1. /\ pc' = [pc EXCEPT ![t] = label] /\ job' = [job EXCEPT ![t] = r]
          /\ answer' = [answer EXCEPT ![t] = NULL] /\ pc \in [Thread -> Label]
          /\ DOMAIN job = Thread /\ DOMAIN answer = Thread
      BY <1>6, <1>8 DEF Receive, ServiceInv, ThreadsOK
    <2>2. label \in {"ask", "execute", "lookup", "load", "guess"}
      BY <1>5, <1>6, <1>8
    <2>3. WorkOK(label, r)'
      <3>1. wired' = wired /\ lora' = lora
        BY <1>1
      <3>2. QED
        BY <1>5, <1>6, <2>2, <3>1 DEF WorkOK, LoraLabel, ReadLabel
    <2>4. /\ pc' \in [Thread -> Label] /\ DOMAIN job' = Thread
          /\ DOMAIN answer' = Thread /\ pc'[t] = label /\ job'[t] = r
          /\ answer'[t] = NULL
          /\ \A x \in Thread \ {t} : /\ pc'[x] = pc[x] /\ job'[x] = job[x]
                                     /\ answer'[x] = answer[x]
      BY <2>1, <2>2 DEF Label, LoraLabel, ReadLabel
    <2>5. ASSUME NEW x \in Thread
          PROVE  WorkOK(pc[x], job[x])'
      <3>1. CASE x = t
        BY <2>3, <2>4, <3>1 DEF WorkOK
      <3>2. CASE x # t
        <4>1. WorkOK(pc[x], job[x]) /\ pc'[x] = pc[x] /\ job'[x] = job[x]
          BY <2>4, <3>2 DEF ServiceInv, ThreadsOK
        <4>2. QED
          BY <1>1, <4>1 DEF WorkOK
      <3>3. QED
        BY <3>1, <3>2
    <2>6. StartupOK' /\ LoraOK'
      BY <1>1 DEF ServiceInv, StartupOK, LoraOK
    <2>7. ThreadsOK'
      BY <1>1, <2>4, <2>5 DEF ThreadsOK, Up
    <2>8. AnswersOK'
      BY <1>1, <2>4, AnswerStays DEF ServiceInv, AnswersOK
    <2>9. QED
      BY <1>2, <2>6, <2>7, <2>8 DEF ServiceInv
  <1>9. QED
    BY <1>7, <1>8

\* A busy thread works on a request, for a service that is up.
LEMMA Busy ==
  ASSUME ServiceInv, NEW t \in Thread, pc[t] # "idle"
  PROVE  /\ phase \in Up /\ job[t] \in Requests /\ WorkOK(pc[t], job[t])
         /\ wired \in Wired /\ job[t].tool \in BOOLEAN
  <1>1. phase \in Up /\ WorkOK(pc[t], job[t]) /\ wired \in Wired
    BY DEF ServiceInv, ThreadsOK, StartupOK
  <1>2. job[t] \in Requests
    BY <1>1 DEF WorkOK
  <1>3. QED
    BY <1>1, <1>2, AiAssumption

\* A thread answers with an error, which search and recommend may not.
LEMMA ErrorStep ==
  ASSUME ServiceInv, NEW t \in Thread, pc[t] # "idle", NEW status, NEW body,
         status # "200", Reply(t, status, body),
         job[t].kind \in {"parse", "intent"} \/ job[t].tool,
         UNCHANGED <<phase, wired, lora, parsed>>
  PROVE  ServiceInv'
  <1>1. PICK r : r = job[t]
    OBVIOUS
  <1> DEFINE a == [req |-> r, status |-> status, body |-> body]
  <1>2. a.req = r /\ a.status = status
    OBVIOUS
  <1> HIDE DEF a
  <1>3. AnswerOK(a)
    BY <1>1, <1>2 DEF AnswerOK
  <1>4. Answer(t, r, status, body)
    BY <1>1 DEF Reply
  <1>5. phase \in Up /\ ParsedOK'
    BY Busy, CacheStays
  <1>6. QED
    BY <1>3, <1>4, <1>5, AnswerStep DEF a

\* parse-order answers from its cache, or asks.
LEMMA LookupStep ==
  ASSUME ServiceInv, NEW t \in Thread, LookupParse(t)
  PROVE  ServiceInv'
  <1>1. pc[t] = "lookup" /\ UNCHANGED <<phase, wired, lora, parsed>>
    BY DEF LookupParse, Same, process
  <1>2. phase \in Up /\ job[t] \in Requests /\ job[t].kind = "parse"
    BY <1>1, Busy DEF WorkOK
  <1>3. CASE CacheKey(job[t]) \in DOMAIN parsed
             /\ Reply(t, "200", parsed[CacheKey(job[t])])
    <2>1. PICK r \in Requests : r = job[t]
      BY <1>2
    <2>2. PICK b : b = parsed[CacheKey(r)]
      OBVIOUS
    <2>3. b.text = r.text /\ b.hint = r.hint /\ DraftOK(b)
      BY <1>3, <2>1, <2>2 DEF ServiceInv, ParsedOK
    <2> DEFINE a == [req |-> r, status |-> "200", body |-> b]
    <2>4. a.req = r /\ a.status = "200" /\ a.body = b
      OBVIOUS
    <2> HIDE DEF a
    <2>5. AnswerOK(a)
      BY <1>2, <2>1, <2>3, <2>4 DEF AnswerOK
    <2>6. Answer(t, r, "200", b)
      BY <1>3, <2>1, <2>2 DEF Reply
    <2>7. QED
      BY <1>1, <1>2, <2>5, <2>6, CacheStays, AnswerStep DEF a
  <1>4. CASE Goto(t, "ask")
    <2>1. job' = job
      BY <1>4 DEF Goto
    <2>2. WorkOK("ask", job[t])'
      BY <1>2, <2>1 DEF WorkOK, LoraLabel, ReadLabel
    <2>3. LoraOK'
      BY <1>1 DEF ServiceInv, LoraOK
    <2>4. QED
      BY <1>1, <1>4, <2>2, <2>3, GotoStep DEF Label
  <1>5. QED
    BY <1>3, <1>4 DEF LookupParse

\* parse-order drafts the language model's answer and caches the draft.
LEMMA AskStep ==
  ASSUME ServiceInv, NEW t \in Thread, NEW reply \in Replies, AskForDraft(t, reply)
  PROVE  ServiceInv'
  <1>1. PICK r, result : r = job[t] /\ result = ParseOrder(reply, wired.menu, r.hint)
    OBVIOUS
  <1>2. pc[t] = "ask" /\ UNCHANGED <<phase, wired, lora>>
    BY DEF AskForDraft, Same, process
  <1>3. /\ phase \in Up /\ r \in Requests /\ r.kind = "parse" /\ wired \in Wired
    BY <1>1, <1>2, Busy DEF WorkOK
  <1>4. PICK b : b = [draft |-> result, asked |-> reply, text |-> r.text,
                      hint |-> r.hint]
    OBVIOUS
  <1>5. CASE /\ result.kind = "draft" /\ Reply(t, "200", b)
             /\ parsed' = IF r.tool THEN parsed ELSE Put(parsed, CacheKey(r), b)
    <2>1. wired.menu \in {<<>>, DbMenu}
      BY <1>3 DEF Wired
    <2>2. Scoped(result) /\ Complete(result, reply)
      BY <1>1, <1>5, <2>1, DraftFacts
    <2>3. b.text = r.text /\ b.hint = r.hint /\ DraftOK(b)
      BY <1>4, <2>2 DEF DraftOK
    <2>4. ParsedOK'
      <3>1. CASE parsed' = parsed
        BY <3>1, CacheStays
      <3>2. CASE parsed' = Put(parsed, CacheKey(r), b)
        <4>1. ASSUME NEW q \in Requests, CacheKey(q) \in DOMAIN parsed'
              PROVE  /\ parsed'[CacheKey(q)].text = q.text
                     /\ parsed'[CacheKey(q)].hint = q.hint
                     /\ DraftOK(parsed'[CacheKey(q)])
          <5>1. CASE CacheKey(q) = CacheKey(r)
            <6>1. parsed'[CacheKey(q)] = b
              BY <3>2, <5>1 DEF Put
            <6>2. q.text = r.text /\ q.hint = r.hint
              BY <5>1 DEF CacheKey
            <6>3. QED
              BY <2>3, <6>1, <6>2
          <5>2. CASE CacheKey(q) # CacheKey(r)
            <6>1. /\ CacheKey(q) \in DOMAIN parsed
                  /\ parsed'[CacheKey(q)] = parsed[CacheKey(q)]
              BY <3>2, <4>1, <5>2 DEF Put
            <6>2. QED
              BY <6>1 DEF ServiceInv, ParsedOK
          <5>3. QED
            BY <5>1, <5>2
        <4>2. QED
          BY <4>1 DEF ParsedOK, CacheKey, DraftOK, Scoped, Complete
      <3>3. QED
        BY <1>5, <3>1, <3>2
    <2> DEFINE a == [req |-> r, status |-> "200", body |-> b]
    <2>5. a.req = r /\ a.status = "200" /\ a.body = b
      OBVIOUS
    <2> HIDE DEF a
    <2>6. AnswerOK(a)
      BY <1>3, <2>3, <2>5 DEF AnswerOK
    <2>7. Answer(t, r, "200", b)
      BY <1>1, <1>5 DEF Reply
    <2>8. QED
      BY <1>2, <1>3, <2>4, <2>6, <2>7, AnswerStep DEF a
  <1>6. CASE (Fail(t, "422") \/ Fail(t, "400")) /\ UNCHANGED parsed
    <2>1. PICK status \in {"422", "400", "tool_error"} : Reply(t, status, NULL)
      BY <1>6 DEF Fail
    <2>2. QED
      BY <1>1, <1>2, <1>3, <1>6, <2>1, ErrorStep
  <1>7. QED
    BY <1>1, <1>4, <1>5, <1>6 DEF AskForDraft

\* The language model raises.
LEMMA RaisesStep ==
  ASSUME ServiceInv, NEW t \in Thread, AskRaises(t)
  PROVE  ServiceInv'
  <1>1. pc[t] = "ask" /\ UNCHANGED <<phase, wired, lora, parsed>>
    BY DEF AskRaises, Same, process
  <1>2. job[t].kind = "parse"
    BY <1>1, Busy DEF WorkOK
  <1>3. PICK status \in {"502", "400", "tool_error"} : Reply(t, status, NULL)
    BY DEF AskRaises, Fail
  <1>4. QED
    BY <1>1, <1>2, <1>3, ErrorStep

\* recommend answers 200 whatever becomes of its query.
LEMMA RecommendStep ==
  ASSUME ServiceInv, NEW t \in Thread,
         Execute(t) \/ Send(t) \/ ReadHeader(t) \/ Fetch(t)
  PROVE  ServiceInv'
  <1>1. /\ pc[t] \in ReadLabel /\ pc[t] # "idle"
        /\ UNCHANGED <<phase, wired, lora, parsed>>
    BY DEF Execute, Send, ReadHeader, Fetch, Same, process, ReadLabel
  <1>2. /\ phase \in Up /\ job[t] \in Requests /\ job[t].kind = "recommend"
        /\ job[t].tool \in BOOLEAN
    BY <1>1, Busy DEF WorkOK, ReadLabel
  <1>3. ASSUME NEW body, Reply(t, "200", body)
        PROVE  ServiceInv'
    <2>1. PICK r : r = job[t]
      OBVIOUS
    <2> DEFINE a == [req |-> r, status |-> "200", body |-> body]
    <2>2. a.req = r /\ a.status = "200"
      OBVIOUS
    <2> HIDE DEF a
    <2>3. AnswerOK(a)
      BY <1>2, <2>1, <2>2 DEF AnswerOK
    <2>4. Answer(t, r, "200", body)
      BY <1>3, <2>1 DEF Reply
    <2>5. QED
      BY <1>1, <1>2, <2>3, <2>4, CacheStays, AnswerStep DEF a
  <1>4. CASE NoHistory(t)
    <2>1. CASE job[t].tool
      <3>1. Reply(t, "tool_error", NULL)
        BY <1>4, <2>1 DEF NoHistory
      <3>2. QED
        BY <1>1, <2>1, <3>1, ErrorStep
    <2>2. CASE ~job[t].tool
      <3>1. PICK body : Reply(t, "200", body)
        BY <1>4, <2>2 DEF NoHistory, Recommended
      <3>2. QED
        BY <1>3, <3>1
    <2>3. QED
      BY <2>1, <2>2
  <1>5. ASSUME NEW label \in ReadLabel, Goto(t, label)
        PROVE  ServiceInv'
    <2>1. job' = job
      BY <1>5 DEF Goto
    <2>2. WorkOK(label, job[t])'
      BY <1>2, <2>1 DEF WorkOK, LoraLabel, ReadLabel
    <2>3. LoraOK'
      BY <1>1 DEF ServiceInv, LoraOK
    <2>4. label \in Label /\ label # "idle"
      BY DEF Label, ReadLabel
    <2>5. QED
      BY <1>1, <1>5, <2>2, <2>3, <2>4, GotoStep
  <1>6. \/ NoHistory(t) \/ \E body : Reply(t, "200", body)
        \/ \E label \in ReadLabel : Goto(t, label)
    <2>1. CASE Execute(t)
      BY <2>1 DEF Execute, ReadLabel
    <2>2. CASE Send(t)
      BY <2>2 DEF Send, ReadLabel
    <2>3. CASE ReadHeader(t)
      BY <2>3 DEF ReadHeader, ReadLabel
    <2>4. CASE Fetch(t)
      BY <2>4 DEF Fetch, Recommended
    <2>5. QED
      BY <2>1, <2>2, <2>3, <2>4
  <1>7. QED
    BY <1>3, <1>4, <1>5, <1>6

\* A thread loads the classifier: it is used once both parts are assigned.
LEMMA LoadStep ==
  ASSUME ServiceInv, NEW t \in Thread,
         EnsureLoaded(t) \/ AssignModel(t) \/ AssignLabels(t)
  PROVE  ServiceInv'
  <1>1. pc[t] \in {"load", "assign", "labels"} /\ UNCHANGED <<phase, wired, parsed>>
    BY DEF EnsureLoaded, AssignModel, AssignLabels, Same, process
  <1>2. /\ job[t] \in Requests /\ job[t].kind = "intent" /\ wired.intent = "lora"
        /\ pc[t] = "labels" => lora.model
    BY <1>1, Busy DEF WorkOK, LoraLabel, ReadLabel
  <1>3. lora \in [model : BOOLEAN, labels : BOOLEAN] /\ (lora.labels => lora.model)
    BY DEF ServiceInv, LoraOK
  <1>4. ASSUME NEW label \in LoraLabel, Goto(t, label),
               lora' \in [model : BOOLEAN, labels : BOOLEAN],
               lora.model => lora'.model, lora.labels => lora'.labels,
               lora'.labels => lora'.model,
               label \in {"labels", "classify"} => lora'.model
        PROVE  ServiceInv'
    <2>1. job' = job
      BY <1>4 DEF Goto
    <2>2. WorkOK(label, job[t])'
      BY <1>1, <1>2, <1>4, <2>1 DEF WorkOK, LoraLabel, ReadLabel
    <2>3. LoraOK'
      BY <1>4 DEF LoraOK
    <2>4. QED
      BY <1>1, <1>4, <2>2, <2>3, GotoStep DEF Label
  <1>5. CASE EnsureLoaded(t)
    <2>1. lora' = lora /\ parsed' = parsed
      BY <1>5 DEF EnsureLoaded
    <2>2. CASE lora.model /\ Goto(t, "classify")
      BY <1>3, <1>4, <2>1, <2>2 DEF LoraLabel
    <2>3. CASE Goto(t, "assign")
      BY <1>3, <1>4, <2>1, <2>3 DEF LoraLabel
    <2>4. CASE Reply(t, "502", NULL)
      BY <1>1, <1>2, <2>1, <2>4, ErrorStep
    <2>5. QED
      BY <1>5, <2>2, <2>3, <2>4 DEF EnsureLoaded
  <1>6. CASE AssignModel(t)
    <2>1. lora' = [lora EXCEPT !.model = TRUE] /\ Goto(t, "labels")
      BY <1>6 DEF AssignModel
    <2>2. /\ lora' \in [model : BOOLEAN, labels : BOOLEAN]
          /\ lora'.model /\ lora'.labels = lora.labels
      BY <1>3, <2>1
    <2>3. QED
      BY <1>4, <2>1, <2>2 DEF LoraLabel
  <1>7. CASE AssignLabels(t)
    <2>1. /\ lora' = [lora EXCEPT !.labels = TRUE] /\ Goto(t, "classify")
          /\ pc[t] = "labels"
      BY <1>7 DEF AssignLabels
    <2>2. /\ lora' \in [model : BOOLEAN, labels : BOOLEAN]
          /\ lora'.model /\ lora'.labels
      BY <1>2, <1>3, <2>1
    <2>3. QED
      BY <1>4, <2>1, <2>2 DEF LoraLabel
  <1>8. QED
    BY <1>5, <1>6, <1>7

\* An intent that is right is a right answer.
LEMMA IntentStep ==
  ASSUME ServiceInv, NEW t \in Thread, pc[t] # "idle", NEW b, IntentOK(b),
         Reply(t, "200", b), job[t].kind = "intent",
         UNCHANGED <<phase, wired, lora, parsed>>
  PROVE  ServiceInv'
  <1>1. PICK r : r = job[t]
    OBVIOUS
  <1> DEFINE a == [req |-> r, status |-> "200", body |-> b]
  <1>2. a.req = r /\ a.status = "200" /\ a.body = b
    OBVIOUS
  <1> HIDE DEF a
  <1>3. AnswerOK(a)
    BY <1>1, <1>2 DEF AnswerOK
  <1>4. Answer(t, r, "200", b)
    BY <1>1 DEF Reply
  <1>5. phase \in Up /\ ParsedOK'
    BY Busy, CacheStays
  <1>6. QED
    BY <1>3, <1>4, <1>5, AnswerStep DEF a

\* The loaded classifier answers.
LEMMA ClassifyStep ==
  ASSUME ServiceInv, NEW t \in Thread, Classify(t)
  PROVE  ServiceInv'
  <1>1. pc[t] = "classify" /\ UNCHANGED <<phase, wired, lora, parsed>>
    BY DEF Classify, Same, process
  <1>2. job[t].kind = "intent" /\ wired.intent = "lora" /\ lora.model
    BY <1>1, Busy DEF WorkOK, LoraLabel, ReadLabel
  <1>3. CASE Reply(t, "502", NULL)
    BY <1>1, <1>2, <1>3, ErrorStep
  <1>4. CASE lora.labels /\ \E label \in Labels, confidence \in {0, 100} :
               Reply(t, "200", [label |-> label, confidence |-> confidence,
                                source |-> wired.intent])
    <2>1. PICK label \in Labels, confidence \in {0, 100} :
            Reply(t, "200", [label |-> label, confidence |-> confidence,
                             source |-> wired.intent])
      BY <1>4
    <2> DEFINE b == [label |-> label, confidence |-> confidence,
                     source |-> wired.intent]
    <2>2. b.label = label /\ b.confidence = confidence /\ b.source = "lora"
      BY <1>2
    <2>3. Reply(t, "200", b)
      BY <2>1
    <2> HIDE DEF b
    <2>4. IntentOK(b)
      BY <1>2, <1>4, <2>2 DEF IntentOK
    <2>5. QED
      BY <1>1, <1>2, <2>3, <2>4, IntentStep
  <1>5. QED
    BY <1>3, <1>4 DEF Classify

\* The language model's guess is clipped or refused.
LEMMA GuessStep ==
  ASSUME ServiceInv, NEW t \in Thread, NEW g \in Guesses, Guess(t, g)
  PROVE  ServiceInv'
  <1>1. pc[t] = "guess" /\ UNCHANGED <<phase, wired, lora, parsed>>
    BY DEF Guess, Same, process
  <1>2. job[t].kind = "intent" /\ wired.intent = "fallback"
    BY <1>1, Busy DEF WorkOK
  <1>3. CASE Reply(t, "502", NULL)
    BY <1>1, <1>2, <1>3, ErrorStep
  <1>4. CASE /\ g.tool /\ g.label \in Labels /\ g.numeric
             /\ Reply(t, "200", [label |-> g.label, confidence |-> Clip(g.confidence),
                                 source |-> wired.intent])
    <2>1. g.confidence \in Int
      BY <1>4, AiAssumption
    <2>2. Clip(g.confidence) \in 0..100
      <3>1. PICK m \in Int : /\ m = Min({100, g.confidence})
                             /\ m = IF 100 <= g.confidence THEN 100
                                    ELSE g.confidence
        BY <2>1, SmallerOfTwo
      <3>2. Clip(g.confidence) = Max({0, m})
        BY <3>1 DEF Clip
      <3>3. Max({0, m}) = IF m <= 0 THEN 0 ELSE m
        BY LargerOfTwo
      <3>4. QED
        BY <2>1, <3>1, <3>2, <3>3
    <2>3. PICK b : /\ b = [label |-> g.label, confidence |-> Clip(g.confidence),
                           source |-> wired.intent]
                   /\ Reply(t, "200", b)
      BY <1>4
    <2>4. /\ b.label = g.label /\ b.confidence = Clip(g.confidence)
          /\ b.source = "fallback"
      BY <1>2, <2>3
    <2>5. wired.llm
      BY <1>2 DEF ServiceInv, StartupOK
    <2>6. IntentOK(b)
      BY <1>4, <2>2, <2>4, <2>5 DEF IntentOK
    <2>7. QED
      BY <1>1, <1>2, <2>3, <2>6, IntentStep
  <1>5. QED
    BY <1>3, <1>4 DEF Guess
-----------------------------------------------------------------------------
(***************************************************************************)
(* Recommendations: the one cursor of the connection and what it reads.    *)
(***************************************************************************)
\* What NewToUser says of one answer.
Advice(a) ==
  a.body.strategy = "content_based" =>
    /\ snapshot[a.req.user] \cap Range(Ids(wired.corpus)) # {}
    /\ Range(a.body.items) \cap snapshot[a.req.user] = {}
    /\ Len(a.body.items)
         = Min({RecommendLimit(a.req.limit),
                Cardinality(Range(Ids(wired.corpus)) \ snapshot[a.req.user])})

\* A corpus comes from a menu, and the query for the menu opened the transaction.
SnapshotOK ==
  /\ ordered \in [User -> SUBSET Foods]
  /\ wired.corpus # <<>> => wired.menu # <<>>
  /\ wired.menu # <<>> => snapshot \in [User -> SUBSET Foods]

\* No two queries were on the connection at once, and it still answers.
Sound == ~overlapped /\ (phase \notin Up \/ wired.conn = "open")

\* The rows on the wire are those of the one thread that waits for them, and the
\* driver marks them unread only while it fetches them.
DriverOK ==
  /\ \A t \in Thread : pc[t] \in ReadLabel => wired.corpus # <<>>
  /\ Sound => /\ \A t, x \in Thread : InDriver(t) /\ InDriver(x) => t = x
              /\ \A t \in Thread : InDriver(t) =>
                   \E had \in SUBSET Foods :
                     wire = <<[user |-> job[t].user, had |-> had]>>
              /\ (\A t \in Thread : ~InDriver(t)) => wire = <<>>
              /\ (\A t \in Thread : pc[t] # "fetch") => ~unread

AdviceOK ==
  ~overlapped =>
    \A t \in Thread :
      answer[t] # NULL /\ answer[t].req.kind = "recommend" /\ answer[t].status = "200"
        => Advice(answer[t])

HistoryInv == SnapshotOK /\ DriverOK /\ AdviceOK

\* The limit of the recommender is a number.
LEMMA LimitFacts ==
  ASSUME NEW limit \in Int
  PROVE  RecommendLimit(limit) \in Nat
<1>1. RecommendMax \in Nat
  BY AiAssumption
<1>2. PICK m \in Int : m = Min({limit, RecommendMax})
  BY <1>1, RankMin
<1>3. Max({1, m}) \in Int /\ Max({1, m}) >= 1
  BY RankMax
<1> QED
  BY <1>2, <1>3 DEF RecommendLimit

\* A content-based recommendation for a user who has ordered the foods S: foods of
\* the menu without S, as many as there are or as were asked for.
LEMMA RecommendFacts ==
  ASSUME NEW S \in SUBSET Foods, NEW limit \in Int, NEW corpus, corpus = DbMenu,
         Recommend(Ids(corpus), S, limit).strategy = "content_based"
  PROVE  /\ S \cap Range(Ids(corpus)) # {}
         /\ Range(Recommend(Ids(corpus), S, limit).items) \cap S = {}
         /\ Len(Recommend(Ids(corpus), S, limit).items)
              = Min({RecommendLimit(limit), Cardinality(Range(Ids(corpus)) \ S)})
<1>1. Range(Ids(corpus)) = Foods /\ S \cap Foods = S
  BY DEF Foods
<1>2. PICK k \in Nat : k = RecommendLimit(limit)
  BY LimitFacts
<1>3. S \cap Range(Ids(corpus)) # {}
  BY DEF Recommend, PopularityFallback
<1>4. PICK sim : sim = Similar[S]
  OBVIOUS
<1>5. sim \in Seq(Foods) /\ Range(sim) = Foods /\ IsInjective(sim)
  BY <1>4, AiAssumption DEF Lists
<1>6. PICK kept : kept = Keep(sim, Foods \ S)
  OBVIOUS
<1>7. Range(sim) \cap (Foods \ S) = Foods \ S
  BY <1>5
<1>8. kept \in Seq(Foods)
  BY <1>5, <1>6, KeepFacts
<1>9. Range(kept) = Foods \ S
  BY <1>5, <1>6, <1>7, KeepFacts
<1>10. Len(kept) = Cardinality(Foods \ S)
  BY <1>5, <1>6, <1>7, KeepOnce
<1>11. Recommend(Ids(corpus), S, limit).items = Top(kept, k)
  BY <1>1, <1>2, <1>3, <1>4, <1>6 DEF Recommend, ContentBased
<1>12. Len(kept) \in Nat
  BY <1>8, LenProperties
<1>13. /\ Range(Top(kept, k)) \subseteq Range(kept)
       /\ Len(Top(kept, k)) = IF k <= Len(kept) THEN k ELSE Len(kept)
  BY <1>8, TopFacts
<1>14. Len(Top(kept, k)) = Min({k, Len(kept)})
  BY <1>12, <1>13, RankMin
<1> QED
  BY <1>1, <1>2, <1>3, <1>9, <1>10, <1>11, <1>13, <1>14

\* A step of the startup: nobody has been answered yet.
LEMMA HistoryStartup ==
  ASSUME ServiceInv, HistoryInv, Startup
  PROVE  HistoryInv'
<1>1. wired \in Wired
  BY DEF ServiceInv, StartupOK
<1>2. /\ phase \notin Up /\ UNCHANGED <<ordered, driver, pc, job, answer>>
      /\ wired'.corpus # <<>> => wired'.menu # <<>>
      /\ snapshot' = ordered \/ (snapshot' = snapshot /\ wired'.menu = wired.menu)
  <2>1. wired.corpus # <<>> => wired.menu # <<>>
    BY DEF HistoryInv, SnapshotOK
  <2>2. ASSUME NEW from \in Phase \ Up, NEW to, NEW new, Started(from, to, new)
        PROVE  /\ phase \notin Up /\ UNCHANGED <<ordered, driver, pc, job, answer>>
               /\ wired' = new
    BY <2>2 DEF Started, threads
  <2>3. CASE ValidateLlm \/ ConnectDb
    BY <1>1, <2>1, <2>2, <2>3 DEF ValidateLlm, ConnectDb, Phase, Up, Wired
  <2>4. CASE FetchMenu
    <3>1. CASE Started("menu", "corpus", [wired EXCEPT !.menu = DbMenu])
      <4>1. [wired EXCEPT !.menu = DbMenu].corpus = wired.corpus
        BY <1>1 DEF Wired
      <4>2. wired.corpus # <<>> => DbMenu # <<>>
        BY <1>1 DEF Wired
      <4>3. [wired EXCEPT !.menu = DbMenu].menu = DbMenu
        BY <1>1 DEF Wired
      <4>4. phase = "menu"
        BY <3>1 DEF Started
      <4>5. snapshot' = ordered \/ (snapshot' = snapshot /\ wired' = wired)
        BY <2>4, <2>2 DEF FetchMenu, Phase, Up
      <4>6. /\ phase \notin Up /\ UNCHANGED <<ordered, driver, pc, job, answer>>
            /\ wired' = [wired EXCEPT !.menu = DbMenu]
        BY <2>2, <3>1 DEF Phase, Up
      <4>7. wired'.corpus = wired.corpus /\ wired'.menu = DbMenu
        BY <4>1, <4>3, <4>6
      <4>8. wired'.corpus # <<>> => wired'.menu # <<>>
        BY <4>2, <4>7
      <4>9. snapshot' = ordered \/ (snapshot' = snapshot /\ wired'.menu = wired.menu)
        BY <4>5
      <4> QED
        BY <4>6, <4>8, <4>9
    <3>2. CASE Started("menu", "corpus", wired)
      <4>1. snapshot' = ordered \/ (snapshot' = snapshot /\ wired' = wired)
        BY <2>4, <2>2 DEF FetchMenu, Phase, Up
      <4> QED
        BY <2>1, <2>2, <3>2, <4>1 DEF Phase, Up
    <3> QED
      BY <2>4, <3>1, <3>2 DEF FetchMenu
  <2>5. CASE BuildCorpus
    <3>1. snapshot' = snapshot
      BY <2>5 DEF BuildCorpus
    <3>2. CASE Started("corpus", "qdrant", wired)
      BY <2>1, <2>2, <3>1, <3>2 DEF Phase, Up
    <3>3. ASSUME NEW corpus \in BuiltFrom(wired.menu),
                 Started("corpus", "qdrant",
                         [wired EXCEPT !.embedder = TRUE, !.corpus = corpus])
          PROVE  /\ phase \notin Up /\ UNCHANGED <<ordered, driver, pc, job, answer>>
                 /\ wired'.corpus # <<>> => wired'.menu # <<>>
                 /\ wired'.menu = wired.menu
      <4>1. corpus # <<>> => wired.menu # <<>>
        BY DEF BuiltFrom
      <4>2. PICK new : new = [wired EXCEPT !.embedder = TRUE, !.corpus = corpus]
        OBVIOUS
      <4>3. new.corpus = corpus /\ new.menu = wired.menu
        BY <1>1, <4>2 DEF Wired
      <4> QED
        BY <2>2, <3>3, <4>1, <4>2, <4>3 DEF Phase, Up
    <3> QED
      BY <2>5, <3>1, <3>2, <3>3 DEF BuildCorpus
  <2>6. CASE WireVectorStore \/ WireReranker \/ CreateLlm \/ WireIntentClassifier
    <3>1. \E b : \/ Started("llm", "aborted", wired)
                 \/ Started("qdrant", "rerank", [wired EXCEPT !.vector_store = b])
                 \/ Started("rerank", "llm", [wired EXCEPT !.reranker = b])
                 \/ Started("llm", "intent", [wired EXCEPT !.llm = b])
                 \/ Started("intent", "serving", [wired EXCEPT !.intent = b])
      BY <2>6, Zenon DEF WireVectorStore, WireReranker, CreateLlm, WireIntentClassifier
    <3>2. snapshot' = snapshot
      BY <2>6 DEF WireVectorStore, WireReranker, CreateLlm, WireIntentClassifier
    <3> QED
      BY <1>1, <2>1, <2>2, <3>1, <3>2 DEF Phase, Up, Wired
  <2> QED
    BY <2>3, <2>4, <2>5, <2>6 DEF Startup
<1>3. \A t \in Thread : pc[t] = "idle" /\ answer[t] = NULL
  BY <1>2 DEF ServiceInv, ThreadsOK
<1>4. SnapshotOK'
  BY <1>2 DEF HistoryInv, SnapshotOK
<1>5. DriverOK' /\ AdviceOK'
  BY <1>2, <1>3 DEF HistoryInv, DriverOK, AdviceOK, Sound, InDriver, driver, ReadLabel
<1> QED
  BY <1>4, <1>5 DEF HistoryInv

\* Steps that leave the threads alone: the connection and the customers.
LEMMA HistoryWorld ==
  ASSUME ServiceInv, HistoryInv, UNCHANGED <<snapshot, driver, pc, job, answer>>,
         wired'.menu = wired.menu, wired'.corpus = wired.corpus, Sound' => Sound,
         ordered' \in [User -> SUBSET Foods]
  PROVE  HistoryInv'
<1>1. UNCHANGED <<unread, wire, overlapped>>
  BY DEF driver
<1>2. SnapshotOK'
  BY DEF HistoryInv, SnapshotOK
<1>3. DriverOK'
  BY <1>1 DEF HistoryInv, DriverOK, InDriver
<1>4. AdviceOK'
  BY <1>1 DEF HistoryInv, AdviceOK, Advice
<1> QED
  BY <1>2, <1>3, <1>4 DEF HistoryInv

\* The other threads, and what a step of a thread leaves alone.
OnlyThread(t) ==
  /\ UNCHANGED <<ordered, snapshot, wired, phase>>
  /\ \A x \in Thread \ {t} : /\ pc'[x] = pc[x] /\ job'[x] = job[x]
                              /\ answer'[x] = answer[x]

\* The recommendations stay right when the one that t makes is.
LEMMA AdviceStep ==
  ASSUME HistoryInv, NEW t \in Thread, OnlyThread(t), overlapped => overlapped',
         ~overlapped' =>
           \/ answer'[t] \in {answer[t], NULL} \/ answer'[t].req.kind # "recommend"
           \/ answer'[t].status # "200" \/ Advice(answer'[t])
  PROVE  SnapshotOK' /\ AdviceOK'
<1>1. SnapshotOK'
  BY DEF HistoryInv, SnapshotOK, OnlyThread
<1>2. ASSUME NEW a PROVE Advice(a)' <=> Advice(a)
  BY DEF Advice, OnlyThread
<1>3. AdviceOK'
  BY <1>2 DEF HistoryInv, AdviceOK, OnlyThread
<1> QED
  BY <1>1, <1>3

\* A step of a thread t that has no query on the connection before it, nor after
\* it, and that answers no recommendation.
LEMMA HistoryThread ==
  ASSUME ServiceInv, HistoryInv, NEW t \in Thread,
         UNCHANGED driver, OnlyThread(t),
         pc[t] \notin {"header", "fetch"}, pc'[t] \notin {"header", "fetch"},
         pc'[t] \in ReadLabel => wired.corpus # <<>>,
         \/ answer'[t] \in {answer[t], NULL} \/ answer'[t].req.kind # "recommend"
         \/ answer'[t].status # "200" \/ Advice(answer'[t])
  PROVE  HistoryInv'
<1>1. UNCHANGED <<unread, wire, overlapped>> /\ (Sound' <=> Sound)
  BY DEF driver, OnlyThread, Sound
<1>2. \A x \in Thread : InDriver(x)' <=> InDriver(x)
  BY DEF InDriver, OnlyThread
<1>3. \A x \in Thread : (pc'[x] = "fetch") <=> (pc[x] = "fetch")
  BY DEF OnlyThread
<1>4. \A x \in Thread : InDriver(x) => job'[x] = job[x]
  BY DEF InDriver, OnlyThread
<1>5. \A x \in Thread : pc'[x] \in ReadLabel => wired'.corpus # <<>>
  BY DEF HistoryInv, DriverOK, OnlyThread
<1>6. DriverOK'
  BY <1>1, <1>2, <1>3, <1>4, <1>5 DEF HistoryInv, DriverOK
<1> QED
  BY <1>1, <1>6, AdviceStep DEF HistoryInv

\* A thread that leaves the connection leaves it as nobody had used it, unless
\* the connection is unsound already.
LEMMA HistoryLeaves ==
  ASSUME ServiceInv, HistoryInv, NEW t \in Thread, InDriver(t),
         OnlyThread(t), overlapped' = overlapped,
         Sound => wire' = <<>> /\ ~unread',
         pc'[t] = "idle", ~overlapped =>
           (answer'[t].status = "200" => Advice(answer'[t]))
  PROVE  HistoryInv'
<1>1. Sound' <=> Sound
  BY DEF OnlyThread, Sound
<1>2. Sound => \A x \in Thread : ~InDriver(x)'
  BY DEF HistoryInv, DriverOK, InDriver, OnlyThread
<1>3. \A x \in Thread : pc'[x] \in ReadLabel => wired'.corpus # <<>>
  BY DEF HistoryInv, DriverOK, OnlyThread, ReadLabel
<1>4. DriverOK'
  BY <1>1, <1>2, <1>3 DEF DriverOK
<1> QED
  BY <1>4, AdviceStep DEF HistoryInv

\* What a thread's goto and its answer change.
LEMMA ThreadChanges ==
  ASSUME ServiceInv, NEW t \in Thread
  PROVE  /\ \A label : Goto(t, label) =>
              /\ pc'[t] = label /\ answer'[t] = answer[t]
              /\ \A x \in Thread \ {t} : /\ pc'[x] = pc[x] /\ job'[x] = job[x]
                                         /\ answer'[x] = answer[x]
         /\ \A r, status, body : Answer(t, r, status, body) =>
              /\ pc'[t] = "idle"
              /\ answer'[t] = [req |-> r, status |-> status, body |-> body]
              /\ \A x \in Thread \ {t} : /\ pc'[x] = pc[x] /\ job'[x] = job[x]
                                         /\ answer'[x] = answer[x]
<1>1. DOMAIN pc = Thread /\ DOMAIN job = Thread /\ DOMAIN answer = Thread
  BY DEF ServiceInv, ThreadsOK
<1> QED
  BY <1>1 DEF Goto, Answer

\* A request is received: a recommendation starts only with a corpus, and is not
\* answered at once.
LEMMA HistoryReceive ==
  ASSUME ServiceInv, HistoryInv, NEW t \in Thread, NEW r \in Requests, Receive(t, r)
  PROVE  HistoryInv'
<1>1. /\ pc[t] = "idle" /\ UNCHANGED <<ordered, snapshot, wired, phase, driver>>
  BY DEF Receive, process, database
<1>2. /\ r.kind \in {"health", "search", "parse", "recommend", "intent"}
      /\ r.tool \in BOOLEAN /\ (r.tool => r.kind \in {"parse", "recommend"})
      /\ wired.intent \in {"none", "lora", "fallback"}
  BY AiAssumption DEF ServiceInv, StartupOK, Wired
<1>3. /\ Checks(r) \notin {"send", "header", "fetch"}
      /\ Checks(r) = "execute" => wired.corpus # <<>>
      /\ Checks(r) = "200" => r.kind # "recommend"
  <2>1. CASE r.tool
    BY <1>2, <2>1 DEF Checks
  <2>2. CASE ~r.tool /\ r.kind \in {"health", "search"}
    BY <2>2 DEF Checks
  <2>3. CASE ~r.tool /\ r.kind \in {"parse", "recommend"}
    BY <2>3 DEF Checks
  <2>4. CASE ~r.tool /\ r.kind = "intent"
    BY <1>2, <2>4 DEF Checks
  <2> QED
    BY <1>2, <2>1, <2>2, <2>3, <2>4
<1>4. PICK label : label = Checks(r)
  OBVIOUS
<1>5. CASE label \in {"200", "500", "503"}
  <2>1. Answer(t, r, label, Health)
    BY <1>4, <1>5 DEF Receive
  <2>2. /\ pc'[t] = "idle"
        /\ answer'[t] = [req |-> r, status |-> label, body |-> Health]
        /\ \A x \in Thread \ {t} : /\ pc'[x] = pc[x] /\ job'[x] = job[x]
                                   /\ answer'[x] = answer[x]
    BY <2>1, ThreadChanges
  <2>3. answer'[t].req = r /\ answer'[t].status = label
    BY <2>2
  <2>4. answer'[t].req.kind # "recommend" \/ answer'[t].status # "200"
    BY <1>3, <1>4, <2>3
  <2>5. OnlyThread(t)
    BY <1>1, <2>2 DEF OnlyThread
  <2> QED
    BY <1>1, <2>2, <2>4, <2>5, HistoryThread DEF ReadLabel
<1>6. CASE label \notin {"200", "500", "503"}
  <2>1. /\ pc' = [pc EXCEPT ![t] = label] /\ job' = [job EXCEPT ![t] = r]
        /\ answer' = [answer EXCEPT ![t] = NULL]
        /\ DOMAIN pc = Thread /\ DOMAIN job = Thread /\ DOMAIN answer = Thread
    BY <1>4, <1>6 DEF Receive, ServiceInv, ThreadsOK
  <2>2. /\ pc'[t] = label /\ answer'[t] = NULL
        /\ \A x \in Thread \ {t} : /\ pc'[x] = pc[x] /\ job'[x] = job[x]
                                   /\ answer'[x] = answer[x]
    BY <2>1
  <2>3. OnlyThread(t)
    BY <1>1, <2>2 DEF OnlyThread
  <2> QED
    BY <1>1, <1>3, <1>4, <2>2, <2>3, HistoryThread DEF ReadLabel
<1> QED
  BY <1>5, <1>6

\* The steps of the other requests.
LEMMA HistoryOther ==
  ASSUME ServiceInv, HistoryInv, NEW t \in Thread, ServiceStep(t),
         ~Execute(t), ~Send(t), ~ReadHeader(t), ~Fetch(t)
  PROVE  HistoryInv'
<1>1. /\ pc[t] \in {"lookup", "ask", "load", "assign", "labels", "classify", "guess"}
      /\ UNCHANGED <<ordered, snapshot, wired, phase, driver>>
  BY DEF ServiceStep, LookupParse, AskRaises, AskForDraft, EnsureLoaded, AssignModel,
         AssignLabels, Classify, Guess, Same, process, database
<1>2. job[t].kind \in {"parse", "intent"}
  BY <1>1, Busy DEF WorkOK, LoraLabel, ReadLabel
<1>3. \/ \E label \in {"ask", "assign", "labels", "classify"} : Goto(t, label)
      \/ \E status, body : Answer(t, job[t], status, body)
  <2>1. CASE LookupParse(t)
    BY <2>1 DEF LookupParse, Reply
  <2>2. CASE AskRaises(t)
    BY <2>2 DEF AskRaises, Fail, Reply
  <2>3. ASSUME NEW reply, AskForDraft(t, reply)
        PROVE  \E status, body : Answer(t, job[t], status, body)
    BY <2>3 DEF AskForDraft, Fail, Reply
  <2>4. CASE EnsureLoaded(t) \/ AssignModel(t) \/ AssignLabels(t)
    BY <2>4 DEF EnsureLoaded, AssignModel, AssignLabels, Reply
  <2>5. CASE Classify(t)
    BY <2>5 DEF Classify, Reply
  <2>6. ASSUME NEW g, Guess(t, g)
        PROVE  \E status, body : Answer(t, job[t], status, body)
    BY <2>6 DEF Guess, Reply
  <2> QED
    BY <2>1, <2>2, <2>3, <2>4, <2>5, <2>6 DEF ServiceStep
<1>4. ASSUME NEW label \in {"ask", "assign", "labels", "classify"}, Goto(t, label)
      PROVE  HistoryInv'
  <2>1. /\ pc'[t] = label /\ answer'[t] = answer[t] /\ OnlyThread(t)
    BY <1>1, <1>4, ThreadChanges DEF OnlyThread
  <2> QED
    BY <1>1, <2>1, HistoryThread DEF ReadLabel
<1>5. ASSUME NEW status, NEW body, Answer(t, job[t], status, body)
      PROVE  HistoryInv'
  <2>1. /\ pc'[t] = "idle"
        /\ answer'[t] = [req |-> job[t], status |-> status, body |-> body]
        /\ \A x \in Thread \ {t} : /\ pc'[x] = pc[x] /\ job'[x] = job[x]
                                   /\ answer'[x] = answer[x]
    BY <1>5, ThreadChanges
  <2>2. answer'[t].req = job[t]
    BY <2>1
  <2>3. answer'[t].req.kind # "recommend"
    BY <1>2, <2>2
  <2>4. OnlyThread(t)
    BY <1>1, <2>1 DEF OnlyThread
  <2> QED
    BY <1>1, <2>1, <2>3, <2>4, HistoryThread DEF ReadLabel
<1> QED
  BY <1>3, <1>4, <1>5

\* A recommendation without a history promises nothing.
LEMMA NoHistoryAdvice ==
  ASSUME ServiceInv, NEW t \in Thread, NoHistory(t)
  PROVE  /\ pc'[t] = "idle"
         /\ answer'[t].status = "200" => Advice(answer'[t])
         /\ \A x \in Thread \ {t} : /\ pc'[x] = pc[x] /\ job'[x] = job[x]
                                    /\ answer'[x] = answer[x]
<1>1. PICK status, body : /\ Answer(t, job[t], status, body)
                          /\ status = "200" => body.strategy # "content_based"
  BY DEF NoHistory, Recommended, Reply, Recommend, PopularityFallback
<1>2. /\ pc'[t] = "idle"
      /\ answer'[t] = [req |-> job[t], status |-> status, body |-> body]
      /\ \A x \in Thread \ {t} : /\ pc'[x] = pc[x] /\ job'[x] = job[x]
                                 /\ answer'[x] = answer[x]
  BY <1>1, ThreadChanges
<1>3. answer'[t].status = status /\ answer'[t].body = body
  BY <1>2
<1> QED
  BY <1>1, <1>2, <1>3 DEF Advice

\* The driver finds no rows that are unread, or refuses the query.
LEMMA HistoryExecute ==
  ASSUME ServiceInv, HistoryInv, NEW t \in Thread, Execute(t)
  PROVE  HistoryInv'
<1>1. /\ pc[t] = "execute" /\ UNCHANGED <<ordered, snapshot, wired, phase, driver>>
  BY DEF Execute, Same, process, database
<1>2. wired.corpus # <<>>
  BY <1>1 DEF HistoryInv, DriverOK, ReadLabel
<1>3. CASE NoHistory(t)
  <2>1. /\ pc'[t] = "idle" /\ OnlyThread(t)
        /\ answer'[t].status = "200" => Advice(answer'[t])
    BY <1>1, <1>3, NoHistoryAdvice DEF OnlyThread
  <2> QED
    BY <1>1, <2>1, HistoryThread DEF ReadLabel
<1>4. CASE Goto(t, "send")
  <2>1. pc'[t] = "send" /\ answer'[t] = answer[t] /\ OnlyThread(t)
    BY <1>1, <1>4, ThreadChanges DEF OnlyThread
  <2> QED
    BY <1>1, <1>2, <2>1, HistoryThread
<1> QED
  BY <1>3, <1>4 DEF Execute

\* The query is sent.  When another one is on the connection this is remembered;
\* otherwise the answer will be the only one.
LEMMA HistorySend ==
  ASSUME ServiceInv, HistoryInv, NEW t \in Thread, Send(t)
  PROVE  HistoryInv'
<1>1. /\ pc[t] = "send" /\ UNCHANGED <<ordered, snapshot, wired, phase, unread>>
  BY DEF Send, Same, process, database
<1>2. wired.corpus # <<>>
  BY <1>1 DEF HistoryInv, DriverOK, ReadLabel
<1>3. CASE NoHistory(t) /\ UNCHANGED <<wire, overlapped>>
  <2>1. /\ pc'[t] = "idle" /\ OnlyThread(t)
        /\ answer'[t].status = "200" => Advice(answer'[t])
    BY <1>1, <1>3, NoHistoryAdvice DEF OnlyThread
  <2> QED
    BY <1>1, <1>3, <2>1, HistoryThread DEF ReadLabel, driver
<1>4. CASE /\ wire' = Append(wire, Query(t))
           /\ overlapped' = (overlapped \/ \E u \in Thread : InDriver(u))
           /\ Goto(t, "header")
  <2>1. /\ pc'[t] = "header" /\ answer'[t] = answer[t] /\ job' = job /\ OnlyThread(t)
    BY <1>1, <1>4, ThreadChanges DEF OnlyThread, Goto
  <2>2. SnapshotOK' /\ AdviceOK'
    BY <1>4, <2>1, AdviceStep
  <2>3. \A x \in Thread : pc'[x] \in ReadLabel => wired'.corpus # <<>>
    BY <1>1, <1>2, <2>1 DEF HistoryInv, DriverOK, OnlyThread
  <2>4. ASSUME Sound'
        PROVE  Sound /\ \A x \in Thread : ~InDriver(x)
    BY <1>1, <1>4, <2>4 DEF Sound
  <2>5. ASSUME Sound'
        PROVE  /\ \A x \in Thread : InDriver(x)' <=> x = t
               /\ \A x \in Thread : pc'[x] # "fetch"
    BY <2>1, <2>4, <2>5 DEF InDriver, OnlyThread
  <2>6. ASSUME Sound'
        PROVE  ~unread'
    BY <1>1, <2>4, <2>6 DEF HistoryInv, DriverOK, InDriver
  <2>7. ASSUME Sound'
        PROVE  \E had \in SUBSET Foods :
                 wire' = <<[user |-> job'[t].user, had |-> had]>>
    <3>1. job[t].user \in User /\ ordered \in [User -> SUBSET Foods]
      BY <1>1, Busy, AiAssumption DEF WorkOK, ReadLabel, HistoryInv, SnapshotOK
    <3>2. wire = <<>>
      BY <2>4, <2>7 DEF HistoryInv, DriverOK
    <3>3. wire' = <<[user |-> job'[t].user, had |-> ordered[job[t].user]]>>
      BY <1>4, <2>1, <3>2 DEF Query
    <3> QED
      BY <3>1, <3>3
  <2>8. DriverOK'
    BY <2>3, <2>5, <2>6, <2>7 DEF DriverOK
  <2> QED
    BY <2>2, <2>8 DEF HistoryInv
<1> QED
  BY <1>3, <1>4 DEF Send

\* The header of the answer is read, or the answers are torn.
LEMMA HistoryHeader ==
  ASSUME ServiceInv, HistoryInv, NEW t \in Thread, ReadHeader(t)
  PROVE  HistoryInv'
<1>1. /\ pc[t] = "header" /\ InDriver(t)
      /\ UNCHANGED <<ordered, snapshot, wired, phase, overlapped>>
  BY DEF ReadHeader, Same, process, database, InDriver
<1>2. wired.corpus # <<>> /\ phase \in Up
  BY <1>1, Busy DEF HistoryInv, DriverOK, ReadLabel
<1>3. CASE unread' = TRUE /\ Goto(t, "fetch") /\ UNCHANGED wire
  <2>1. /\ pc'[t] = "fetch" /\ answer'[t] = answer[t] /\ job' = job /\ OnlyThread(t)
    BY <1>1, <1>3, ThreadChanges DEF OnlyThread, Goto
  <2>2. SnapshotOK' /\ AdviceOK'
    BY <1>1, <2>1, AdviceStep
  <2>3. Sound' <=> Sound
    BY <1>1 DEF Sound
  <2>4. \A x \in Thread : InDriver(x)' <=> InDriver(x)
    BY <1>1, <2>1 DEF InDriver, OnlyThread
  <2>5. \A x \in Thread : pc'[x] \in ReadLabel => wired'.corpus # <<>>
    BY <1>1, <1>2, <2>1 DEF HistoryInv, DriverOK, OnlyThread
  <2>6. DriverOK'
    BY <1>1, <1>3, <2>1, <2>3, <2>4, <2>5 DEF HistoryInv, DriverOK
  <2> QED
    BY <2>2, <2>6 DEF HistoryInv
<1>4. CASE NoHistory(t) /\ (wired.conn # "open" \/ Len(wire) # 1 \/ unread)
  <2>1. /\ pc'[t] = "idle" /\ OnlyThread(t)
        /\ answer'[t].status = "200" => Advice(answer'[t])
    BY <1>1, <1>4, NoHistoryAdvice DEF OnlyThread
  <2>2. ASSUME Sound
        PROVE  FALSE
    <3>1. wired.conn = "open"
      BY <1>2, <2>2 DEF Sound
    <3>2. \A x \in Thread : pc[x] # "fetch"
      BY <1>1, <2>2 DEF HistoryInv, DriverOK, InDriver
    <3>3. ~unread
      BY <2>2, <3>2 DEF HistoryInv, DriverOK
    <3>4. \E q : wire = <<q>>
      BY <1>1, <2>2 DEF HistoryInv, DriverOK
    <3>5. Len(wire) = 1
      BY <3>4
    <3> QED
      BY <1>4, <3>1, <3>3, <3>5
  <2> QED
    BY <1>1, <2>1, <2>2, HistoryLeaves
<1> QED
  BY <1>3, <1>4 DEF ReadHeader

\* The rows that come first are those of the thread's own user, from the snapshot.
LEMMA HistoryFetch ==
  ASSUME ServiceInv, HistoryInv, NEW t \in Thread, Fetch(t)
  PROVE  HistoryInv'
<1>1. /\ pc[t] = "fetch" /\ InDriver(t)
      /\ UNCHANGED <<ordered, snapshot, wired, phase, overlapped>> /\ unread' = FALSE
  BY DEF Fetch, Same, process, database, InDriver
<1>2. /\ job[t] \in Requests /\ job[t].kind = "recommend" /\ wired \in Wired
      /\ job[t].user \in User /\ job[t].limit \in Int /\ phase \in Up
  BY <1>1, Busy, AiAssumption DEF WorkOK, ReadLabel
<1>3. wired.corpus # <<>> /\ wired.corpus = DbMenu
  BY <1>1, <1>2 DEF HistoryInv, DriverOK, Wired, ReadLabel
<1>4. snapshot \in [User -> SUBSET Foods]
  BY <1>3 DEF HistoryInv, SnapshotOK
<1>5. Sound => \E had : wire = <<[user |-> job[t].user, had |-> had]>>
  BY <1>1 DEF HistoryInv, DriverOK
<1>6. CASE NoHistory(t) /\ (wired.conn # "open" \/ Len(wire) # 1)
  <2>1. /\ pc'[t] = "idle" /\ OnlyThread(t)
        /\ answer'[t].status = "200" => Advice(answer'[t])
    BY <1>1, <1>6, NoHistoryAdvice DEF OnlyThread
  <2>2. ~Sound
    BY <1>2, <1>5, <1>6 DEF Sound
  <2> QED
    BY <1>1, <2>1, <2>2, HistoryLeaves
<1>7. CASE /\ wired.conn = "open" /\ wire' = Tail(wire)
           /\ Recommended(t, snapshot[Head(wire).user], Head(wire).had)
  <2>1. Sound => wire' = <<>> /\ ~unread'
    <3>1. ASSUME NEW q, wire = <<q>>
          PROVE  wire' = <<>>
      BY <1>7, <3>1
    <3>2. ~unread'
      BY <1>1
    <3> QED
      BY <1>5, <3>1, <3>2
  <2>2. PICK status, body : Answer(t, job[t], status, body)
    BY <1>7 DEF Recommended, Reply
  <2>3. pc'[t] = "idle" /\ OnlyThread(t)
    BY <1>1, <2>2, ThreadChanges DEF OnlyThread
  <2>4. ASSUME ~overlapped
        PROVE  Advice(answer'[t])
    <3>1. Head(wire).user = job[t].user
      BY <1>5, <1>7, <2>4 DEF Sound
    <3>2. PICK S \in SUBSET Foods : S = snapshot[job[t].user]
      BY <1>2, <1>4
    <3>3. PICK rec : rec = Recommend(Ids(wired.corpus), S, job[t].limit)
      OBVIOUS
    <3>4. PICK advice : /\ Answer(t, job[t], "200", advice)
                        /\ advice.strategy = rec.strategy /\ advice.items = rec.items
      BY <1>7, <3>1, <3>2, <3>3 DEF Recommended, Reply
    <3>5. answer'[t] = [req |-> job[t], status |-> "200", body |-> advice]
      BY <3>4, ThreadChanges
    <3>6. answer'[t].req = job[t] /\ answer'[t].body = advice
      BY <3>5
    <3>7. rec.strategy = "content_based" =>
            /\ S \cap Range(Ids(wired.corpus)) # {}
            /\ Range(rec.items) \cap S = {}
            /\ Len(rec.items) = Min({RecommendLimit(job[t].limit),
                                     Cardinality(Range(Ids(wired.corpus)) \ S)})
      <4>1. PICK corpus : corpus = wired.corpus
        OBVIOUS
      <4>2. rec = Recommend(Ids(corpus), S, job[t].limit) /\ corpus = DbMenu
        BY <1>3, <3>3, <4>1
      <4>3. rec.strategy = "content_based" =>
              /\ S \cap Range(Ids(corpus)) # {}
              /\ Range(rec.items) \cap S = {}
              /\ Len(rec.items) = Min({RecommendLimit(job[t].limit),
                                       Cardinality(Range(Ids(corpus)) \ S)})
        BY <1>2, <4>2, RecommendFacts
      <4> QED
        BY <4>1, <4>3
    <3> QED
      BY <3>2, <3>4, <3>6, <3>7 DEF Advice
  <2> QED
    BY <1>1, <2>1, <2>3, <2>4, HistoryLeaves
<1> QED
  BY <1>6, <1>7 DEF Fetch

\* Every step keeps the connection and the recommendations right.
LEMMA NextHistory ==
  ASSUME ServiceInv, HistoryInv, [Next]_vars
  PROVE  HistoryInv'
<1>1. wired \in Wired /\ ordered \in [User -> SUBSET Foods]
  BY DEF ServiceInv, StartupOK, HistoryInv, SnapshotOK
<1>2. CASE LoseConnection \/ Shutdown
  <2>1. /\ UNCHANGED <<ordered, snapshot, driver, pc, job, answer>>
        /\ wired'.menu = wired.menu /\ wired'.corpus = wired.corpus
    BY <1>1, <1>2 DEF LoseConnection, Shutdown, database, threads, Wired
  <2>2. ~Sound'
    BY <1>1, <1>2 DEF LoseConnection, Shutdown, Sound, Up, Wired
  <2> QED
    BY <1>1, <2>1, <2>2, HistoryWorld
<1>3. ASSUME NEW u \in User, NEW food \in Foods, PlaceOrder(u, food)
      PROVE  HistoryInv'
  <2>1. /\ UNCHANGED <<wired, phase, snapshot, driver, pc, job, answer>>
        /\ ordered' \in [User -> SUBSET Foods]
    BY <1>1, <1>3 DEF PlaceOrder, process, threads
  <2>2. Sound' => Sound
    BY <2>1 DEF Sound, driver
  <2> QED
    BY <2>1, <2>2, HistoryWorld
<1>4. CASE UNCHANGED vars
  <2>1. UNCHANGED <<wired, phase, ordered, snapshot, driver, pc, job, answer>>
    BY <1>4 DEF vars, process, database, threads
  <2>2. Sound' => Sound
    BY <2>1 DEF Sound, driver
  <2> QED
    BY <1>1, <2>1, <2>2, HistoryWorld
<1>5. ASSUME NEW t \in Thread, ServiceStep(t)
      PROVE  HistoryInv'
  BY <1>5, HistoryExecute, HistorySend, HistoryHeader, HistoryFetch, HistoryOther
<1> QED
  BY <1>2, <1>3, <1>4, <1>5, HistoryStartup, HistoryReceive DEF Next
-----------------------------------------------------------------------------
(***************************************************************************)
(* The theorems.                                                           *)
(***************************************************************************)
\* Nothing is wired, cached or answered when the process starts.
LEMMA InitService ==
  ASSUME Init
  PROVE  ServiceInv
  <1>1. StartupOK
    BY DEF Init, StartupOK, Unwired, Wired, Phase
  <1>2. LoraOK
    BY DEF Init, LoraOK
  <1>3. ThreadsOK
    BY DEF Init, ThreadsOK, WorkOK, Label, LoraLabel, ReadLabel
  <1>4. ParsedOK
    BY DEF Init, ParsedOK
  <1>5. AnswersOK
    BY DEF Init, AnswersOK
  <1>6. QED
    BY <1>1, <1>2, <1>3, <1>4, <1>5 DEF ServiceInv

\* Every step keeps the invariant.
LEMMA NextService ==
  ASSUME ServiceInv, [Next]_vars
  PROVE  ServiceInv'
  <1>1. ASSUME NEW t \in Thread, ServiceStep(t)
        PROVE  ServiceInv'
    BY <1>1, LookupStep, RaisesStep, AskStep, RecommendStep, LoadStep, ClassifyStep,
       GuessStep DEF ServiceStep
  <1>2. ASSUME NEW u, NEW food, PlaceOrder(u, food)
        PROVE  ServiceInv'
    BY <1>2, OutsideStep DEF PlaceOrder, process, threads
  <1>3. CASE UNCHANGED vars
    BY <1>3, OutsideStep DEF vars, process, threads
  <1>4. QED
    BY <1>1, <1>2, <1>3, StartupStep, ConnectionStep, ReceiveStep DEF Next

\* The invariant of the service holds in every state: a singleton is wired only
\* with what it rests on, a thread works on a request of its kind, and each cached
\* draft and each answer is right.
THEOREM ServiceInvariance == Spec => []ServiceInv
  <1>1. Init => ServiceInv
    BY InitService
  <1>2. ServiceInv /\ [Next]_vars => ServiceInv'
    BY NextService
  <1>3. QED
    BY <1>1, <1>2, PTL DEF Spec

\* A service whose health says ready answers search and recommend, whichever steps
\* of its startup have failed and whatever becomes of the connection.
THEOREM ReadyMeansServing == Spec => []ReadyServes
  <1>1. ServiceInv => ReadyServes
    BY DEF ServiceInv, AnswersOK, AnswerOK, ReadyServes
  <1>2. QED
    BY <1>1, ServiceInvariance, PTL

\* A draft whose restaurant was found is an order of that restaurant, for any menu
\* and whatever the language model named.
THEOREM DraftsStayScoped == Spec => []DraftsScoped
  <1>1. ServiceInv => DraftsScoped
    BY DEF ServiceInv, AnswersOK, AnswerOK, DraftOK, Scoped, DraftsScoped, Answered
  <1>2. QED
    BY <1>1, ServiceInvariance, PTL

\* A draft accounts for every item the language model named.
THEOREM DraftsAreComplete == Spec => []NothingDropped
  <1>1. ServiceInv => NothingDropped
    BY DEF ServiceInv, AnswersOK, AnswerOK, DraftOK, Complete, NothingDropped, Answered
  <1>2. QED
    BY <1>1, ServiceInvariance, PTL

\* The cache of parse-order never answers a request with another one's draft.
THEOREM DraftsAnswerTheirRequest == Spec => []DraftsForRequest
  <1>1. ServiceInv => DraftsForRequest
    BY DEF ServiceInv, AnswersOK, AnswerOK, DraftsForRequest, Answered
  <1>2. QED
    BY <1>1, ServiceInvariance, PTL

\* An intent is a known label with a confidence between 0 and 1, from the source
\* that was wired and is completely loaded.
THEOREM IntentsAreValid == Spec => []IntentValid
  <1>1. ServiceInv => IntentValid
    BY DEF ServiceInv, AnswersOK, AnswerOK, IntentOK, IntentValid, Answered
  <1>2. QED
    BY <1>1, ServiceInvariance, PTL

\* Content-based recommendations hold nothing that the user is seen to have
\* ordered and fill the page, for any menu and similarity, as long as the queries
\* of two threads have not met on their one connection: the driver's mark keeps a
\* query away from rows that are unread, and losing the connection harms nothing.
THEOREM RecommendationsAreNew == Spec => []NewToUser
  <1>1. Init => HistoryInv
    BY DEF Init, Unwired, HistoryInv, SnapshotOK, DriverOK, InDriver, ReadLabel, AdviceOK
  <1>2. ServiceInv /\ HistoryInv /\ [Next]_vars => HistoryInv'
    BY NextHistory
  <1>3. HistoryInv => NewToUser
    BY DEF HistoryInv, AdviceOK, Advice, NewToUser, Answered
  <1>4. QED
    BY <1>1, <1>2, <1>3, ServiceInvariance, PTL DEF Spec
=============================================================================
