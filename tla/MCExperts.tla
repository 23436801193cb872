------------------------------- MODULE MCExperts -------------------------------
(* What the stock of the instance of ResearchExperts has stored. *)
EXTENDS ResearchExperts

Bar(close, vol) == [high |-> close + 1, low |-> close - 1, close |-> close, vol |-> vol]

SomeBars == {[i \in DOMAIN c |-> Bar(c[i], v)] :
               c \in UNION {[1..n -> {4, 5, 6}] : n \in {0, 2, 3}}, v \in {0, 7}}

\* The profits of up to four quarters, one of them missing in a table; the other
\* figures go with the profit.
SomeStatements ==
  {[q \in DOMAIN p |-> [profit |-> p[q], eps |-> p[q], bps |-> 2,
                        margin |-> IF p[q] = None THEN None ELSE 60 * p[q]]] :
     p \in UNION {[s -> {None, -1, 0, 2}] : s \in {{}, {8}, {3, 4, 7, 8}}}}
  \cup {[q \in 1..10 |-> [profit |-> IF q < 5 THEN p ELSE q, eps |-> 1, bps |-> 2, margin |-> 30]] :
           p \in {1, -1}}

SomeInfos ==
  {NoStock, [traded |-> FALSE, close |-> None, pct_chg |-> None]}
  \cup {[traded |-> TRUE, close |-> c, pct_chg |-> g] : c \in {1, 9}, g \in {None, 3}}

SomeHistories == {<<>>, <<3, None, 5, 2>>, <<-1, 3>>}

Item(p, t, d) == [page |-> p, titled |-> t, content |-> TRUE, date |-> d]

SomeResults ==
  {<<>>, <<Item("a", FALSE, 1)>>}
  \cup {<<Item("a", t, d), Item("b", TRUE, 2), Item("a", TRUE, 1), Item("c", TRUE, None)>> :
          t \in BOOLEAN, d \in {None, 1, 2, 3}}
===============================================================================
