---- MODULE MCSemanticConversation ----
EXTENDS SemanticConversation

MCKeyOf == [a1 |-> "A", a2 |-> "A", a3 |-> "A", a4 |-> "A", b |-> "B", n |-> "none"]
MCSent == [a1 |-> <<"a1">>, a2 |-> <<"a2">>, a3 |-> <<"old", "a3">>, a4 |-> <<"a4">>, b |-> <<"x", "b">>,
           n |-> <<"w", "x", "y", "z">>]

Plan(kind, offsets, found) == [kind |-> kind, offsets |-> offsets, found |-> found]
Fact(offsets) == Plan("fact", offsets, TRUE)
Write == Plan("mutation", {}, FALSE)
Talk == Plan("chat", {}, FALSE)
MCPlansFor ==
  [a1 |-> {Fact({}), Talk}, a2 |-> {Fact({1}), Write}, a3 |-> {Fact({1, 2}), Fact({2})},
   a4 |-> {Fact({1})}, b |-> {Fact({1})}, old |-> {}, w |-> {Fact({})}, x |-> {Fact({}), Write},
   y |-> {Fact({1}), Plan("fact", {}, FALSE)}, z |-> {Fact({1, 2}), Write}]
====
