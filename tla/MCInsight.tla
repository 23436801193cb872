------------------------------ MODULE MCInsight -------------------------------
(* The days of the instance of MarketInsight. *)
EXTENDS MarketInsight

STAR == <<6, 8, 8>>
MAIN == <<6, 0, 0>>

\* A stock of the main board and one of the STAR market, at and below their limits,
\* the first one ST for both, one or no table, in one or two concepts or in none.
SomeFeeds ==
  {[bars |-> b, st |-> s, stocks |-> [robot |-> {MAIN, STAR}, chip |-> {STAR}],
    st_in_concept |-> t] :
     b \in {[c \in {MAIN} |-> 49], [c \in {MAIN, STAR} |-> IF c = MAIN THEN 99 ELSE 198],
           [c \in {MAIN, STAR} |-> IF c = MAIN THEN -20 ELSE 99]},
     s \in {{}, {MAIN}}, t \in {{}, {MAIN}}}
  \cup {[bars |-> b, st |-> {}, stocks |-> [robot |-> {}], st_in_concept |-> {}] :
          b \in {<<>>, [c \in {MAIN} |-> 99]}}

SomePools == {<<1, 3, 1>>}
SomeLists == {<<[code |-> MAIN, net |-> 2, institution |-> FALSE],
               [code |-> STAR, net |-> -3, institution |-> FALSE],
               [code |-> MAIN, net |-> 4, institution |-> TRUE]>>}
===============================================================================
