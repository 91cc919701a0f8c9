---------------------------- MODULE MCCollector ----------------------------
(* Instances of Collector for TLC. *)
EXTENDS Collector

Card(id, face, grouped, brokers, shown) ==
  [id |-> id, face |-> face, grouped |-> grouped, brokers |-> brokers, shown |-> shown]

TwoTrades == <<"sale", "lease">>
TwoFaces == {"low", "high"}

Group  == Card("group", "low", TRUE, <<"a", "b">>, 2)
Single == Card("single", "low", FALSE, <<"c">>, 1)
Other  == Card("other", "high", FALSE, <<"d">>, 1)
\* looks like Group and has a broker of its own
Twin   == Card("twin", "low", TRUE, <<"e">>, 1)
\* shares a broker's article with Group
Sharing == Card("sharing", "high", TRUE, <<"b", "e">>, 2)
\* does not say how many brokers it has
Silent == Card("silent", "high", TRUE, <<"d", "e">>, None)
Arriving == {Card("new", "high", FALSE, <<"f">>, 1)}

ListOf(sale, lease) == [t \in {"sale", "lease"} |-> IF t = "sale" THEN sale ELSE lease]

SomePages == {
  ListOf(<<Group, Single>>, <<Silent>>),
  ListOf(<<Group, Twin>>, <<>>),
  ListOf(<<Twin, Other, Single>>, <<>>),
  ListOf(<<Single>>, <<Group, Sharing>>)}

Full(details) == [limit |-> None, expected |-> {}, details |-> details]
SomeScopes == {Full(TRUE), Full(FALSE), [limit |-> 1, expected |-> {"c"}, details |-> TRUE]}
=============================================================================
