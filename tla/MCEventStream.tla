---------------------------- MODULE MCEventStream ----------------------------
(* Instances of EventStream. A secret "a" needs escaping, "b" does not, "f" is *)
(* a placeholder this session did not mint.                                    *)
EXTENDS EventStream, TLC

Token(x)  == <<"u", "p", x, "u">>
MCTokens  == {Token("a"), Token("b"), Token("f")}
MCSecret  == Token("a") :> [raw |-> "A", json |-> "E"] @@ Token("b") :> [raw |-> "B", json |-> "B"]

Leaf(id, text)   == [id |-> id, text |-> text, torn |-> FALSE]
Envelope1(leaf)  == [kind |-> "json", leaves |-> <<leaf>>]
Data(kind, text) == [kind |-> kind, leaves |-> <<Leaf("none", text)>>]

MCEvents ==
  {Envelope1(Leaf("c1", t)) : t \in
     {<<"t", "u">>, <<"u", "p">>, <<"a">>, <<"a", "u">>, <<"p", "b", "u", "u">>,
      <<"t", "u", "p", "a", "u">>, <<"p", "f", "u">>}}
  \union
  {Envelope1(Leaf("c2", <<"p", "a", "u">>)), Envelope1(Leaf("c1", <<>>)),
   Envelope1([id |-> "c1", text |-> <<"t", "u", "p">>, torn |-> TRUE]),
   [kind |-> "json", leaves |-> <<Leaf("c1", <<"a", "u">>), Leaf("c2", <<"t", "u">>)>>],
   Data("text", <<"t", "u", "p">>), Data("text", <<"a", "u", "u">>),
   Data("json", <<"(", "u", "p", "a", "u", "u", ")">>),
   [kind |-> "other", leaves |-> <<>>]}
=============================================================================
