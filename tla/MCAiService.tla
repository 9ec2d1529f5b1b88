---------------------------- MODULE MCAiService -----------------------------
(***************************************************************************)
(* A small instance of AiService: a menu of three restaurants, two of them *)
(* branches of one name, and names that differ in case or blanks, are      *)
(* parts of one another, unknown or empty.                                 *)
(***************************************************************************)
EXTENDS AiService

On(id, name, rid, rname, price) ==
  [food_id |-> id, food_name |-> name, restaurant_id |-> rid,
   restaurant_name |-> rname, unit_price |-> price]

MCDbMenu == <<On(1, "Duck", 1, "Wok", 3), On(2, "Tofu", 2, "Duck House", 1),
              On(3, "Duck Rice", 2, "Duck House", 2), On(4, "Tofu", 3, "WOK", 1)>>

Lowered == "Duck" :> "duck" @@ "Tofu" :> "tofu" @@ "Duck Rice" :> "duck rice"
           @@ "Wok" :> "wok" @@ "WOK" :> "wok" @@ "Duck House" :> "duck house"
           @@ "House" :> "house"

Name == DOMAIN Lowered \cup Range(Lowered) \cup {" tofu ", "soup", ""}

MCLower == [n \in Name |-> IF n \in DOMAIN Lowered THEN Lowered[n] ELSE n]

MCStrip == [n \in Name |-> IF n = " tofu " THEN "tofu" ELSE n]

MCWithin == {<<n, n>> : n \in Name} \cup {<<"", n>> : n \in Name}
            \cup {<<"duck", "duck rice">>, <<"duck", "duck house">>,
                  <<"house", "duck house">>}

MCSimilar == [S \in SUBSET (1..4) |-> IF 2 \in S THEN <<2, 4, 3, 1>>
                                               ELSE <<1, 3, 4, 2>>]

Config(provider, keys, adapter) ==
  [provider |-> provider, keys |-> keys, qdrant |-> adapter, rerank |-> adapter,
   adapter |-> adapter]

MCConfigs == {Config("anthropic", {"anthropic"}, FALSE), Config("openai", {}, TRUE),
              Config("other", {}, FALSE)}

NoRequest == [kind |-> "health", tool |-> FALSE, text |-> "", hint |-> 0,
              user |-> NULL, limit |-> 0]

MCRequests ==
  {NoRequest, [NoRequest EXCEPT !.kind = "search"],
   [NoRequest EXCEPT !.kind = "intent"]}
  \cup {[NoRequest EXCEPT !.kind = "parse", !.hint = h] : h \in {0, 2}}
  \cup {[NoRequest EXCEPT !.kind = "parse", !.tool = TRUE, !.hint = 9]}
  \cup {[NoRequest EXCEPT !.kind = "recommend", !.user = u, !.limit = 2] : u \in User}
  \cup {[NoRequest EXCEPT !.kind = "recommend", !.user = u, !.limit = 9, !.tool = TRUE] :
          u \in User}

Named(name, quantity) == [food_name |-> name, quantity |-> quantity]

MCReply(restaurant, items) ==
  [tool |-> "create_order_draft", restaurant_name |-> restaurant, items |-> items]

MCReplies ==
  {[tool |-> "none"], [tool |-> "other"], MCReply("Wok", <<>>),
   MCReply("wok", <<Named("duck", 1)>>), MCReply("Wok", <<Named("Duck Rice", 1)>>),
   MCReply("Duck House", <<Named("duck", 2), Named("soup", 1)>>),
   MCReply("House", <<Named(" tofu ", 1), Named("", 2)>>),
   MCReply("soup", <<Named("Duck", 1), Named("Tofu", 1)>>),
   MCReply("", <<Named("soup", 1)>>), MCReply("Wok", <<Named("Duck", 0)>>)}

Guessed(label, confidence) ==
  [tool |-> TRUE, label |-> label, numeric |-> TRUE, confidence |-> confidence]

MCGuesses == {Guessed("order", -20), Guessed("order", 70), Guessed("search", 150),
              Guessed("other", 70), [tool |-> FALSE],
              [tool |-> TRUE, label |-> "order", numeric |-> FALSE]}

Symmetry == Permutations(Thread) \cup Permutations(User)
=============================================================================
