---------------------------- MODULE LlmJsonProofs ----------------------------
(***************************************************************************)
(* An answer that stands for a document is read as exactly that document.     *)
(*                                                                         *)
(* The scanners of the code are recursive over a text, and so is FlattenSeq.   *)
(* Both are taken to machines that read a text token by token (Scans): what a  *)
(* machine writes on a text is what the function returns (QuotesSound,         *)
(* CharsSound, JsonSound, ObjectSound), what it writes on two texts one after  *)
(* the other is what it writes on each (ScanCat), and so each machine is       *)
(* followed through the text of a document part by part (TextScan).  Induction *)
(* over the places of a text goes by the least place that fails (UpTo).        *)
(***************************************************************************)
EXTENDS LlmJson, FiniteSetTheorems, SequenceTheorems, WellFoundedInduction, TLAPS

-----------------------------------------------------------------------------
(* Induction over the places of a text, and what FlattenSeq joins.  *)

\* A set of numbers has a least one: what fails at no first place fails nowhere.
LEMMA LeastPlace ==
  ASSUME NEW T \in SUBSET Nat, T # {}
  PROVE  \E m \in T : \A k \in T : m <= k
  <1>1. \E R : IsWellFoundedOn(R, Nat) /\ \A x, y \in Nat : y < x => <<y, x>> \in R
    <2> DEFINE R == OpToRel(<, Nat)
    <2>1. \A x, y \in Nat : y < x => <<y, x>> \in R
      BY DEF OpToRel
    <2>2. IsWellFoundedOn(R, Nat)
      BY NatLessThanWellFounded
    <2>3. QED
      BY <2>1, <2>2
  <1>2. PICK R : IsWellFoundedOn(R, Nat) /\ \A x, y \in Nat : y < x => <<y, x>> \in R
    BY <1>1
  <1>3. PICK m \in T : \A k \in T : ~(<<k, m>> \in R)
    BY <1>2, WFMin
  <1>4. ASSUME NEW k \in T PROVE m <= k
    <2>1. m \in Nat /\ k \in Nat
      OBVIOUS
    <2>2. ~(k < m)
      BY <1>2, <1>3, <2>1
    <2>3. QED
      BY <2>1, <2>2
  <1>5. QED
    BY <1>4

\* A set of numbers that has 0, and with a number the next up to n, has all up to n.
LEMMA UpTo ==
  ASSUME NEW n \in Nat, NEW G, 0 \in G, \A i \in 1..n : i - 1 \in G => i \in G
  PROVE  \A i \in 0..n : i \in G
  <1> DEFINE C == {i \in 0..n : i \notin G}
  <1> SUFFICES ASSUME C # {} PROVE FALSE
    OBVIOUS
  <1>1. PICK m \in C : \A k \in C : m <= k
    <2>1. C \in SUBSET Nat
      OBVIOUS
    <2> HIDE DEF C
    <2>2. QED
      BY <2>1, LeastPlace
  <1>2. m \in 1..n /\ m - 1 \in 0..n /\ ~(m <= m - 1)
    OBVIOUS
  <1>3. m - 1 \in G
    BY <1>1, <1>2
  <1>4. QED
    BY <1>2, <1>3

Cat(s, t) == s \o t

\* g[i] joins the first i texts of p.
Joins(g, p) == g[0] = <<>> /\ \A i \in 1..Len(p) : g[i] = Cat(g[i - 1], p[i])

LEMMA CatType ==
  ASSUME NEW S, NEW s \in Seq(S), NEW t \in Seq(S)
  PROVE  Cat(s, t) \in Seq(S) /\ Cat(s, <<>>) = s /\ Cat(<<>>, s) = s
  BY ConcatProperties, ConcatEmptySeq DEF Cat

LEMMA CatAssociates ==
  ASSUME NEW S, NEW s \in Seq(S), NEW t \in Seq(S), NEW u \in Seq(S)
  PROVE  Cat(Cat(s, t), u) = Cat(s, Cat(t, u))
  BY ConcatAssociative DEF Cat

LEMMA JoinsType ==
  ASSUME NEW S, NEW p \in Seq(Seq(S)), NEW g, Joins(g, p)
  PROVE  \A i \in 0..Len(p) : g[i] \in Seq(S)
  <1> DEFINE G == {i \in 0..Len(p) : g[i] \in Seq(S)}
  <1>1. Len(p) \in Nat /\ \A i \in 1..Len(p) : p[i] \in Seq(S)
    BY LenProperties, ElementOfSeq
  <1>2. 0 \in G
    <2>1. g[0] = <<>>
      BY DEF Joins
    <2>2. g[0] \in Seq(S)
      BY <2>1, EmptySeq
    <2>3. 0 \in 0..Len(p)
      BY <1>1
    <2>4. QED
      BY <2>2, <2>3
  <1>3. ASSUME NEW i \in 1..Len(p), i - 1 \in G PROVE i \in G
    BY <1>1, <1>3, CatType DEF Joins
  <1> HIDE DEF G
  <1>4. \A i \in 0..Len(p) : i \in G
    BY <1>1, <1>2, <1>3, UpTo
  <1>5. QED
    BY <1>4 DEF G

\* FlattenSeq joins the texts of p from the first to the last.
LEMMA FlattenIs ==
  ASSUME NEW S, NEW p \in Seq(Seq(S)), NEW g, Joins(g, p)
  PROVE  FlattenSeq(p) = g[Len(p)]
  <1> DEFINE n == Len(p)
             Flattens(f) == f = [i \in 1..n |-> IF i = 1 THEN p[i] ELSE Cat(f[i - 1], p[i])]
             flatten == CHOOSE f : Flattens(f)
             h == [i \in 1..n |-> g[i]]
  <1>1. n \in Nat /\ \A i \in 1..n : p[i] \in Seq(S)
    BY LenProperties, ElementOfSeq
  <1>2. n > 0 => g[1] = p[1]
    <2> SUFFICES ASSUME n > 0 PROVE g[1] = p[1]
      OBVIOUS
    <2>1. 1 \in 1..n /\ 1 - 1 = 0
      BY <1>1
    <2>2. g[1] = Cat(<<>>, p[1])
      BY <2>1 DEF Joins
    <2>3. QED
      BY <1>1, <2>1, <2>2, CatType
  <1>3. Flattens(h)
    <2>1. ASSUME NEW i \in 1..n
          PROVE  h[i] = IF i = 1 THEN p[i] ELSE Cat(h[i - 1], p[i])
      <3>1. CASE i = 1
        BY <1>1, <1>2, <3>1
      <3>2. CASE i # 1
        BY <1>1, <3>2 DEF Joins
      <3>3. QED
        BY <3>1, <3>2
    <2>2. QED
      BY <2>1
  <1> HIDE DEF h
  <1>4. Flattens(flatten)
    BY <1>3
  <1> HIDE DEF flatten
  <1>5. n > 0 => flatten[n] = g[n]
    <2> DEFINE G == {i \in 0..n : i > 0 => flatten[i] = g[i]}
    <2>1. 0 \in G
      BY <1>1
    <2>2. ASSUME NEW i \in 1..n, i - 1 \in G PROVE i \in G
      <3>1. flatten[i] = IF i = 1 THEN p[i] ELSE Cat(flatten[i - 1], p[i])
        BY <1>4
      <3>2. CASE i = 1
        BY <1>1, <1>2, <3>1, <3>2
      <3>3. CASE i # 1
        BY <1>1, <2>2, <3>1, <3>3 DEF Joins
      <3>4. QED
        BY <3>2, <3>3
    <2> HIDE DEF G
    <2>3. \A i \in 0..n : i \in G
      BY <1>1, <2>1, <2>2, UpTo
    <2>4. n \in 0..n
      BY <1>1
    <2>5. QED
      BY <2>3, <2>4 DEF G
  <1>6. CASE n = 0
    <2>1. p = <<>>
      BY <1>6, EmptySeq
    <2>2. FlattenSeq(p) = p
      BY <1>6 DEF FlattenSeq
    <2>3. QED
      BY <1>6, <2>1, <2>2 DEF Joins
  <1>7. CASE n # 0
    <2>1. FlattenSeq(p) = flatten[n]
      BY <1>7 DEF FlattenSeq, flatten, Cat
    <2>2. QED
      BY <1>1, <1>5, <1>7, <2>1
  <1>8. QED
    BY <1>6, <1>7

LEMMA JoinsExists ==
  ASSUME NEW S, NEW p \in Seq(Seq(S))
  PROVE  \E g : Joins(g, p)
  <1> DEFINE n == Len(p)
             Upto(m) == \E g : g[0] = <<>> /\ \A i \in 1..m : g[i] = Cat(g[i - 1], p[i])
             G == {m \in 0..n : Upto(m)}
  <1>1. n \in Nat
    BY LenProperties
  <1>2. 0 \in G
    <2>1. [i \in {0} |-> <<>>][0] = <<>> /\ 1..0 = {}
      OBVIOUS
    <2>2. Upto(0)
      BY <2>1
    <2>3. QED
      BY <1>1, <2>2
  <1>3. ASSUME NEW m \in 1..n, m - 1 \in G PROVE m \in G
    <2>1. PICK g : g[0] = <<>> /\ \A i \in 1..(m - 1) : g[i] = Cat(g[i - 1], p[i])
      BY <1>3
    <2> DEFINE h == [i \in 0..m |-> IF i = m THEN Cat(g[m - 1], p[m]) ELSE g[i]]
    <2>2. h[0] = <<>>
      BY <1>1, <2>1
    <2>3. \A i \in 1..m : h[i] = Cat(h[i - 1], p[i])
      BY <1>1, <2>1
    <2> HIDE DEF h
    <2>4. Upto(m)
      BY <2>2, <2>3
    <2>5. QED
      BY <1>1, <2>4
  <1> HIDE DEF G
  <1>4. \A i \in 0..n : i \in G
    BY <1>1, <1>2, <1>3, UpTo
  <1>5. n \in 0..n
    BY <1>1
  <1>6. Upto(n)
    BY <1>4, <1>5 DEF G
  <1>7. QED
    BY <1>6 DEF Joins

LEMMA FlattenType ==
  ASSUME NEW S, NEW p \in Seq(Seq(S))
  PROVE  FlattenSeq(p) \in Seq(S)
  <1>1. PICK g : Joins(g, p)
    BY JoinsExists
  <1>2. Len(p) \in 0..Len(p)
    BY LenProperties
  <1>3. QED
    BY <1>1, <1>2, JoinsType, FlattenIs

-----------------------------------------------------------------------------
(* The scanners as machines.  Machine k in state s moves on token c to state  *)
(* e and writes w: one takes the stray quotation marks out, one escapes line   *)
(* breaks, one reads JSON, one an object that holds no other and one only how  *)
(* a text starts.  A machine that would leave what a document's text may be    *)
(* has no move.                                                              *)

Text == Seq(Token)

\* In a string, or behind a backslash in one.
StringMove(s, c, e) ==
  \/ s = "in" /\ c = "quote" /\ e = "out"
  \/ s = "in" /\ c = "backslash" /\ e = "escape"
  \/ s = "in" /\ c \notin {"quote", "backslash"} /\ e = "in"
  \/ s = "escape" /\ e = "in"

\* Outside behind a ], a quotation mark is a stray one and a comma follows it.
QuoteMove(s, c, e, w) ==
  \/ StringMove(s, c, e) /\ w = <<c>>
  \/ s \in {"out", "close"} /\ c = "rbracket" /\ e = "close" /\ w = <<c>>
  \/ s \in {"out", "close"} /\ c \notin {"rbracket", "quote"} /\ e = "out" /\ w = <<c>>
  \/ s = "out" /\ c = "quote" /\ e = "in" /\ w = <<c>>
  \/ s = "close" /\ c = "quote" /\ e = "stray" /\ w = <<>>
  \/ s = "stray" /\ c = "comma" /\ e = "out" /\ w = <<c>>

CharMove(s, c, e, w) ==
  \/ /\ StringMove(s, c, e)
     /\ w = IF s = "in" /\ c = "newline" THEN <<"backslash", "n">> ELSE <<c>>
  \/ s = "out" /\ c = "quote" /\ e = "in" /\ w = <<c>>
  \/ s = "out" /\ c # "quote" /\ e = "out" /\ w = <<c>>

JsonMove(s, c, e, w) == e = JsonStep(s, c) /\ w = <<c>>

ObjectMove(s, c, e, w) ==
  /\ w = <<c>>
  /\ \/ StringMove(s, c, e)
     \/ s = "start" /\ c = "lbrace" /\ e = "out"
     \/ s = "out" /\ c = "quote" /\ e = "in"
     \/ s = "out" /\ c = "rbrace" /\ e = "done"
     \/ s = "out" /\ c \notin {"lbrace", "rbrace", "quote"} /\ e = "out"

\* The text of a document starts with a brace and a quotation mark, and opens no thought.
CalmMove(s, c, e, w) ==
  /\ w = <<c>> /\ c # "think"
  /\ \/ s = "start" /\ c = "lbrace" /\ e = "open"
     \/ s = "open" /\ c = "quote" /\ e = "out"
     \/ s = "out" /\ e = "out"

Move(k, s, c, e, w) ==
  \/ k = "quotes" /\ QuoteMove(s, c, e, w)
  \/ k = "calm" /\ CalmMove(s, c, e, w)
  \/ k = "chars" /\ CharMove(s, c, e, w)
  \/ k = "json" /\ JsonMove(s, c, e, w)
  \/ k = "object" /\ ObjectMove(s, c, e, w)

\* The states f and what is written, g, while machine k reads t.
Reads(k, t, f, g) ==
  /\ g[0] = <<>>
  /\ \A i \in 0..Len(t) : g[i] \in Text
  /\ \A i \in 1..Len(t) :
       \E w \in Text : Move(k, f[i - 1], t[i], f[i], w) /\ g[i] = Cat(g[i - 1], w)

\* Machine k reads t from state s to state e and writes u.
Scans(k, t, s, e, u) ==
  /\ t \in Text /\ u \in Text
  /\ \E f, g : f[0] = s /\ f[Len(t)] = e /\ g[Len(t)] = u /\ Reads(k, t, f, g)

LEMMA SingleSeq ==
  ASSUME NEW S, NEW c \in S
  PROVE  <<c>> \in Seq(S) /\ Len(<<c>>) = 1 /\ <<c>>[1] = c
  OBVIOUS

LEMMA ScanEmpty ==
  ASSUME NEW k, NEW s
  PROVE  Scans(k, <<>>, s, s, <<>>)
  <1> DEFINE f == [i \in {0} |-> s]  g == [i \in {0} |-> <<>>]
  <1>1. <<>> \in Text /\ Len(<<>>) = 0
    BY EmptySeq DEF Text
  <1>2. f[0] = s /\ g[0] = <<>> /\ 0..0 = {0} /\ 1..0 = {}
    OBVIOUS
  <1> HIDE DEF f, g
  <1>3. Reads(k, <<>>, f, g)
    BY <1>1, <1>2 DEF Reads
  <1>4. QED
    BY <1>1, <1>2, <1>3 DEF Scans

LEMMA ScanOne ==
  ASSUME NEW k, NEW s, NEW e, NEW c \in Token, NEW w \in Text, Move(k, s, c, e, w)
  PROVE  Scans(k, <<c>>, s, e, w)
  <1> DEFINE t == <<c>>
             f == [i \in 0..1 |-> IF i = 0 THEN s ELSE e]
             g == [i \in 0..1 |-> IF i = 0 THEN <<>> ELSE w]
  <1>1. t \in Text /\ Len(t) = 1 /\ t[1] = c
    BY SingleSeq DEF Text
  <1>2. f[0] = s /\ f[1] = e /\ g[0] = <<>> /\ g[1] = w
    OBVIOUS
  <1>3. <<>> \in Text /\ Cat(<<>>, w) = w
    BY EmptySeq, CatType DEF Text
  <1> HIDE DEF f, g, t
  <1>4. Reads(k, t, f, g)
    <2>1. 0..1 = {0, 1} /\ 1..1 = {1} /\ 1 - 1 = 0
      OBVIOUS
    <2>2. g[0] \in Text /\ g[1] \in Text
      BY <1>2, <1>3
    <2>3. \E v \in Text : Move(k, f[0], t[1], f[1], v) /\ g[1] = Cat(g[0], v)
      BY <1>1, <1>2, <1>3
    <2>4. QED
      BY <1>1, <1>2, <2>1, <2>2, <2>3 DEF Reads
  <1>5. Scans(k, t, s, e, w)
    BY <1>1, <1>2, <1>4 DEF Scans
  <1>6. QED
    BY <1>5 DEF t

\* A machine that reads two texts one after the other reads the two as one.
LEMMA ScanCat ==
  ASSUME NEW k, NEW s, NEW m, NEW e, NEW t1, NEW t2, NEW u1, NEW u2,
         Scans(k, t1, s, m, u1), Scans(k, t2, m, e, u2)
  PROVE  Scans(k, Cat(t1, t2), s, e, Cat(u1, u2))
  <1> DEFINE n1 == Len(t1)  n2 == Len(t2)  t == Cat(t1, t2)
  <1>1. PICK f1, g1 : f1[0] = s /\ f1[n1] = m /\ g1[n1] = u1 /\ Reads(k, t1, f1, g1)
    BY DEF Scans
  <1>2. PICK f2, g2 : f2[0] = m /\ f2[n2] = e /\ g2[n2] = u2 /\ Reads(k, t2, f2, g2)
    BY DEF Scans
  <1>3. /\ t1 \in Text /\ t2 \in Text /\ u1 \in Text /\ u2 \in Text
        /\ n1 \in Nat /\ n2 \in Nat
    BY LenProperties DEF Scans, Text
  <1>4. /\ t \in Text /\ Len(t) = n1 + n2
        /\ \A i \in 1..(n1 + n2) : t[i] = IF i <= n1 THEN t1[i] ELSE t2[i - n1]
    BY <1>3, ConcatProperties DEF Text, Cat
  <1> DEFINE f == [i \in 0..(n1 + n2) |-> IF i <= n1 THEN f1[i] ELSE f2[i - n1]]
             g == [i \in 0..(n1 + n2) |-> IF i <= n1 THEN g1[i] ELSE Cat(u1, g2[i - n1])]
  <1>5. /\ \A i \in 0..n1 : f[i] = f1[i] /\ g[i] = g1[i]
        /\ \A j \in 0..n2 : f[n1 + j] = f2[j] /\ g[n1 + j] = Cat(u1, g2[j])
    <2>1. g2[0] = <<>> /\ Cat(u1, <<>>) = u1
      BY <1>2, <1>3, CatType DEF Reads, Text
    <2>2. \A i \in 0..n1 : f[i] = f1[i] /\ g[i] = g1[i]
      BY <1>3
    <2>3. ASSUME NEW j \in 0..n2 PROVE f[n1 + j] = f2[j] /\ g[n1 + j] = Cat(u1, g2[j])
      <3>1. CASE j = 0
        BY <1>1, <1>2, <1>3, <2>1, <3>1
      <3>2. CASE j # 0
        BY <1>3, <3>2
      <3>3. QED
        BY <3>1, <3>2
    <2>4. QED
      BY <2>2, <2>3
  <1> HIDE DEF f, g
  <1>6. \A i \in 0..(n1 + n2) : g[i] \in Text
    <2>1. ASSUME NEW i \in 0..n1 PROVE g[i] \in Text
      BY <1>1, <1>5 DEF Reads
    <2>2. ASSUME NEW j \in 0..n2 PROVE g[n1 + j] \in Text
      <3>1. g2[j] \in Text
        BY <1>2 DEF Reads
      <3>2. QED
        BY <1>3, <1>5, <3>1, CatType DEF Text
    <2>3. ASSUME NEW i \in 0..(n1 + n2) PROVE i \in 0..n1 \/ \E j \in 0..n2 : i = n1 + j
      <3>1. i <= n1 \/ (i - n1 \in 0..n2 /\ i = n1 + (i - n1))
        BY <1>3
      <3>2. QED
        BY <1>3, <3>1
    <2>4. QED
      BY <2>1, <2>2, <2>3
  <1>7. ASSUME NEW i \in 1..(n1 + n2)
        PROVE  \E w \in Text : Move(k, f[i - 1], t[i], f[i], w) /\ g[i] = Cat(g[i - 1], w)
    <2>1. CASE i <= n1
      <3>1. i \in 1..n1 /\ i - 1 \in 0..n1 /\ i \in 0..n1
        BY <1>3, <2>1
      <3>2. PICK w \in Text : Move(k, f1[i - 1], t1[i], f1[i], w) /\ g1[i] = Cat(g1[i - 1], w)
        BY <1>1, <3>1 DEF Reads
      <3>3. /\ f[i - 1] = f1[i - 1] /\ f[i] = f1[i]
            /\ g[i - 1] = g1[i - 1] /\ g[i] = g1[i]
        BY <1>5, <3>1
      <3>4. t[i] = t1[i]
        BY <1>4, <2>1
      <3>5. QED
        BY <3>2, <3>3, <3>4
    <2>2. CASE ~(i <= n1)
      <3>0. i - n1 \in 1..n2
        BY <1>3, <2>2
      <3>1. PICK j \in 1..n2 : j = i - n1
        BY <3>0
      <3>2. j \in 0..n2 /\ j - 1 \in 0..n2 /\ n1 + j = i /\ n1 + (j - 1) = i - 1
        BY <1>3, <3>1
      <3>3. PICK w \in Text : Move(k, f2[j - 1], t2[j], f2[j], w) /\ g2[j] = Cat(g2[j - 1], w)
        BY <1>2 DEF Reads
      <3>4. f[i - 1] = f2[j - 1] /\ f[i] = f2[j] /\ t[i] = t2[j]
        BY <1>4, <1>5, <2>2, <3>1, <3>2
      <3>5. g[i] = Cat(u1, g2[j]) /\ g[i - 1] = Cat(u1, g2[j - 1])
        BY <1>5, <3>2
      <3>6. g2[j - 1] \in Text
        BY <1>2, <3>2 DEF Reads
      <3>7. Cat(u1, Cat(g2[j - 1], w)) = Cat(Cat(u1, g2[j - 1]), w)
        BY <1>3, <3>6, CatAssociates DEF Text
      <3>8. QED
        BY <3>3, <3>4, <3>5, <3>7
    <2>3. QED
      BY <2>1, <2>2
  <1>8. Reads(k, t, f, g)
    <2>1. g[0] = <<>>
      BY <1>1, <1>3, <1>5 DEF Reads
    <2>2. QED
      BY <1>4, <1>6, <1>7, <2>1 DEF Reads
  <1>9. f[0] = s /\ f[Len(t)] = e /\ g[Len(t)] = Cat(u1, u2)
    <2>1. 0 \in 0..n1 /\ n2 \in 0..n2
      BY <1>3
    <2>2. QED
      BY <1>1, <1>2, <1>4, <1>5, <2>1
  <1>10. Cat(u1, u2) \in Text
    BY <1>3, CatType DEF Text
  <1>11. QED
    BY <1>4, <1>8, <1>9, <1>10 DEF Scans

\* Pieces that machine k reads one after the other.
LEMMA ScanChain ==
  ASSUME NEW k, NEW n \in Nat, NEW p, NEW q, NEW st,
         p = [i \in 1..n |-> p[i]], q = [i \in 1..n |-> q[i]],
         \A i \in 1..n : Scans(k, p[i], st[i - 1], st[i], q[i])
  PROVE  Scans(k, FlattenSeq(p), st[0], st[n], FlattenSeq(q))
  <1>1. \A i \in 1..n : p[i] \in Text /\ q[i] \in Text
    BY DEF Scans
  <1>2. p \in Seq(Text) /\ q \in Seq(Text)
    <2>1. [i \in 1..n |-> p[i]] \in Seq(Text)
      BY <1>1, IsASeq
    <2>2. [i \in 1..n |-> q[i]] \in Seq(Text)
      BY <1>1, IsASeq
    <2>3. QED
      BY <2>1, <2>2
  <1>3. Len(p) = n /\ Len(q) = n
    <2>1. DOMAIN p = 1..n /\ DOMAIN q = 1..n
      OBVIOUS
    <2>2. QED
      BY <1>2, <2>1, LenProperties
  <1>4. PICK g : Joins(g, p)
    BY <1>2, JoinsExists DEF Text
  <1>5. PICK h : Joins(h, q)
    BY <1>2, JoinsExists DEF Text
  <1> DEFINE G == {i \in 0..n : Scans(k, g[i], st[0], st[i], h[i])}
  <1>6. 0 \in G
    BY <1>4, <1>5, ScanEmpty DEF Joins
  <1>7. ASSUME NEW i \in 1..n, i - 1 \in G PROVE i \in G
    <2>1. Scans(k, g[i - 1], st[0], st[i - 1], h[i - 1]) /\ Scans(k, p[i], st[i - 1], st[i], q[i])
      BY <1>7
    <2>2. g[i] = Cat(g[i - 1], p[i]) /\ h[i] = Cat(h[i - 1], q[i])
      BY <1>3, <1>4, <1>5 DEF Joins
    <2>3. Scans(k, Cat(g[i - 1], p[i]), st[0], st[i], Cat(h[i - 1], q[i]))
      BY <2>1, ScanCat
    <2>4. QED
      BY <2>2, <2>3
  <1> HIDE DEF G
  <1>8. \A i \in 0..n : i \in G
    BY <1>6, <1>7, UpTo
  <1>9. Scans(k, g[n], st[0], st[n], h[n])
    BY <1>8 DEF G
  <1>10. FlattenSeq(p) = g[n] /\ FlattenSeq(q) = h[n]
    BY <1>2, <1>3, <1>4, <1>5, FlattenIs DEF Text
  <1>11. QED
    BY <1>9, <1>10

-----------------------------------------------------------------------------
(* What a machine writes is what the scanner of the code returns.  *)

\* The mode of the code's scanner, and how it goes on at place i of t.
Follows(b, t, skipped, i) ==
  b[i] = IF b[i - 1] = "out" /\ i \in skipped THEN "out" ELSE ModeAfter(b[i - 1], t[i])

LEMMA FollowsExists ==
  ASSUME NEW t, NEW skipped, NEW n \in Nat
  PROVE  \E b : b[0] = "out" /\ \A i \in 1..n : Follows(b, t, skipped, i)
  <1> DEFINE After(m, b) == b[0] = "out" /\ \A i \in 1..m : Follows(b, t, skipped, i)
             G == {m \in 0..n : \E b : After(m, b)}
  <1>1. 0 \in G
    <2>1. [i \in {0} |-> "out"][0] = "out" /\ 1..0 = {}
      OBVIOUS
    <2>2. \E b : After(0, b)
      BY <2>1
    <2>3. QED
      BY <2>2
  <1>2. ASSUME NEW m \in 1..n, m - 1 \in G PROVE m \in G
    <2>1. PICK b : After(m - 1, b)
      BY <1>2
    <2> DEFINE h == [i \in 0..m |-> IF i = m
                       THEN IF b[m - 1] = "out" /\ m \in skipped THEN "out"
                            ELSE ModeAfter(b[m - 1], t[m])
                       ELSE b[i]]
    <2>2. h[0] = "out"
      BY <2>1
    <2>3. ASSUME NEW i \in 1..m PROVE Follows(h, t, skipped, i)
      <3>1. h[i - 1] = b[i - 1]
        OBVIOUS
      <3>2. CASE i = m
        BY <3>1, <3>2 DEF Follows
      <3>3. CASE i # m
        <4>1. Follows(b, t, skipped, i) /\ h[i] = b[i]
          BY <2>1, <3>3
        <4>2. QED
          BY <3>1, <4>1 DEF Follows
      <3>4. QED
        BY <3>2, <3>3
    <2> HIDE DEF h
    <2>4. \E c : After(m, c)
      BY <2>2, <2>3
    <2> HIDE DEF After
    <2>5. QED
      BY <2>4
  <1> HIDE DEF G
  <1>3. \A i \in 0..n : i \in G
    BY <1>1, <1>2, UpTo
  <1>4. n \in 0..n
    OBVIOUS
  <1>5. QED
    BY <1>3, <1>4 DEF G

\* A function that follows the scanner up to n is the scanner's mode up to n.
LEMMA ModesAre ==
  ASSUME NEW t \in Text, NEW skipped, NEW n \in 0..Len(t), NEW b, b[0] = "out",
         \A i \in 1..n : Follows(b, t, skipped, i)
  PROVE  \A i \in 1..n : Modes(t, skipped)[i] = b[i - 1]
  <1> DEFINE l == Len(t)
             Next(mode, i) == IF mode = "out" /\ i \in skipped THEN "out" ELSE ModeAfter(mode, t[i])
             Is(f) == f = [i \in 0..l |-> IF i = 0 THEN "out" ELSE Next(f[i - 1], i)]
             after == CHOOSE f : Is(f)
  <1>1. l \in Nat /\ n \in Nat
    BY LenProperties DEF Text
  <1>2. PICK a : a[0] = "out" /\ \A i \in 1..l : Follows(a, t, skipped, i)
    BY <1>1, FollowsExists
  <1>3. Is(after)
    <2> DEFINE h == [i \in 0..l |-> a[i]]
    <2>1. ASSUME NEW i \in 0..l PROVE h[i] = IF i = 0 THEN "out" ELSE Next(h[i - 1], i)
      <3>1. CASE i = 0
        BY <1>1, <1>2, <3>1
      <3>2. CASE i # 0
        <4>1. i \in 1..l /\ h[i] = a[i] /\ h[i - 1] = a[i - 1]
          BY <1>1, <3>2
        <4>2. a[i] = Next(a[i - 1], i)
          BY <1>2, <4>1 DEF Follows
        <4>3. QED
          BY <3>2, <4>1, <4>2
      <3>3. QED
        BY <3>1, <3>2
    <2>2. h = [i \in 0..l |-> IF i = 0 THEN "out" ELSE Next(h[i - 1], i)]
      BY <2>1
    <2> HIDE DEF h
    <2>3. Is(h)
      BY <2>2
    <2> HIDE DEF Is
    <2>4. QED
      BY <2>3
  <1> HIDE DEF after
  <1>4. after[0] = "out" /\ \A i \in 1..l : after[i] = Next(after[i - 1], i)
    BY <1>1, <1>3
  <1> DEFINE G == {i \in 0..n : after[i] = b[i]}
  <1>5. 0 \in G
    BY <1>4
  <1>6. ASSUME NEW i \in 1..n, i - 1 \in G PROVE i \in G
    <2>1. i \in 1..l /\ i \in 0..n
      BY <1>1
    <2>2. after[i] = Next(b[i - 1], i)
      BY <1>4, <1>6, <2>1
    <2>3. b[i] = Next(b[i - 1], i)
      BY <1>6 DEF Follows
    <2>4. QED
      BY <2>1, <2>2, <2>3
  <1> HIDE DEF G
  <1>7. \A i \in 0..n : i \in G
    BY <1>1, <1>5, <1>6, UpTo
  <1>8. Modes(t, skipped) = [i \in 1..l |-> after[i - 1]]
    BY DEF Modes, after
  <1>9. ASSUME NEW i \in 1..n PROVE Modes(t, skipped)[i] = b[i - 1]
    <2>1. i \in 1..l /\ i - 1 \in 0..n
      BY <1>1
    <2>2. after[i - 1] = b[i - 1]
      BY <1>7, <2>1 DEF G
    <2>3. QED
      BY <1>8, <2>1, <2>2
  <1>10. QED
    BY <1>9

\* In the states f, machine k writes w[i] at place i, and the whole is joined of that.
Writes(k, t, f, w) ==
  /\ w = [i \in 1..Len(t) |-> w[i]]
  /\ \A i \in 1..Len(t) : \A v : Move(k, f[i - 1], t[i], f[i], v) => v = w[i]

LEMMA WritesJoined ==
  ASSUME NEW k, NEW t \in Text, NEW f, NEW g, Reads(k, t, f, g), NEW w, Writes(k, t, f, w)
  PROVE  FlattenSeq(w) = g[Len(t)]
  <1> DEFINE n == Len(t)
  <1>1. n \in Nat
    BY LenProperties DEF Text
  <1>2. \A i \in 1..n : w[i] \in Text /\ g[i] = Cat(g[i - 1], w[i])
    BY DEF Reads, Writes
  <1>3. w \in Seq(Text) /\ Len(w) = n
    <2>1. [i \in 1..n |-> w[i]] \in Seq(Text)
      BY <1>1, <1>2, IsASeq
    <2>2. w \in Seq(Text) /\ DOMAIN w = 1..n
      BY <2>1 DEF Writes
    <2>3. QED
      BY <1>1, <2>2, LenProperties
  <1>4. Joins(g, w)
    BY <1>2, <1>3 DEF Joins, Reads
  <1>5. QED
    BY <1>3, <1>4, FlattenIs DEF Text

\* Outside of strings the machine also knows whether it has just read a ] or a stray
\* quotation mark; the code's scanner is then outside.
ModeOf(state) == IF state \in {"in", "escape"} THEN state ELSE "out"

\* RepairTrailingQuote returns what the machine writes, if it does not end behind a stray
\* mark.
LEMMA QuotesSound ==
  ASSUME NEW t, NEW e, NEW u, Scans("quotes", t, "out", e, u), e # "stray"
  PROVE  RepairTrailingQuote(t) = u
  <1> DEFINE n == Len(t)
             stray == {i \in 1..n : StrayQuote(t, i)}
             mode == Modes(t, stray)
  <1>1. PICK f, g : f[0] = "out" /\ f[n] = e /\ g[n] = u /\ Reads("quotes", t, f, g)
    BY DEF Scans
  <1>2. t \in Text /\ n \in Nat
    BY LenProperties DEF Scans, Text
  <1>3. \A i \in 1..n : \E w : QuoteMove(f[i - 1], t[i], f[i], w)
    BY <1>1 DEF Reads, Move
  <1> DEFINE b == [i \in 0..n |-> ModeOf(f[i])]
  <1>4. /\ b[0] = "out"
        /\ \A i \in 1..n : b[i - 1] = ModeOf(f[i - 1]) /\ b[i] = ModeOf(f[i])
    BY <1>1, <1>2 DEF ModeOf
  <1> HIDE DEF b
  \* The stray marks are those that the machine finds behind a ].
  <1>5. ASSUME NEW i \in 1..n
        PROVE  i \in stray /\ b[i - 1] = "out" <=> f[i - 1] = "close" /\ t[i] = "quote"
    <2>1. ASSUME f[i - 1] = "close", t[i] = "quote" PROVE i \in stray /\ b[i - 1] = "out"
      <3>1. i - 1 \in 1..n
        BY <1>1, <1>2, <2>1
      <3>2. t[i - 1] = "rbracket"
        <4>1. \E w : QuoteMove(f[(i - 1) - 1], t[i - 1], f[i - 1], w)
          BY <1>3, <3>1
        <4>2. QED
          BY <2>1, <4>1 DEF QuoteMove, StringMove
      <3>3. f[i] = "stray"
        BY <1>3, <2>1 DEF QuoteMove, StringMove
      <3>4. i + 1 \in 1..n /\ (i + 1) - 1 = i
        BY <1>1, <1>2, <3>3
      <3>5. t[i + 1] = "comma"
        <4>1. \E w : QuoteMove(f[(i + 1) - 1], t[i + 1], f[i + 1], w)
          BY <1>3, <3>4
        <4>2. QED
          BY <3>3, <3>4, <4>1 DEF QuoteMove, StringMove
      <3>6. StrayQuote(t, i)
        <4>1. n \in Nat /\ 1 < i /\ i < n
          BY <1>2, <3>1, <3>4
        <4>2. QED
          BY <2>1, <3>2, <3>5, <4>1 DEF StrayQuote
      <3>7. QED
        BY <1>4, <2>1, <3>6 DEF ModeOf
    <2>2. ASSUME i \in stray, b[i - 1] = "out" PROVE f[i - 1] = "close" /\ t[i] = "quote"
      <3>1. 1 < i /\ t[i] = "quote" /\ t[i - 1] = "rbracket"
        BY <2>2 DEF StrayQuote
      <3>2. i - 1 \in 1..n
        BY <1>2, <3>1
      <3>3. \E w : QuoteMove(f[(i - 1) - 1], t[i - 1], f[i - 1], w)
        BY <1>3, <3>2
      <3>4. f[i - 1] \notin {"in", "escape"}
        BY <1>4, <2>2 DEF ModeOf
      <3>5. QED
        BY <3>1, <3>3, <3>4 DEF QuoteMove, StringMove
    <2>3. QED
      BY <2>1, <2>2
  <1>6. ASSUME NEW i \in 1..n PROVE Follows(b, t, stray, i)
    <2>1. PICK w : QuoteMove(f[i - 1], t[i], f[i], w)
      BY <1>3
    <2>2. CASE f[i - 1] = "close" /\ t[i] = "quote"
      <3>1. f[i] = "stray"
        BY <2>1, <2>2 DEF QuoteMove, StringMove
      <3>2. b[i] = "out"
        BY <1>4, <3>1 DEF ModeOf
      <3>3. QED
        BY <1>5, <2>2, <3>2 DEF Follows
    <2>3. CASE ~(f[i - 1] = "close" /\ t[i] = "quote")
      <3>1. ~(i \in stray /\ b[i - 1] = "out")
        BY <1>5, <2>3
      <3>2. ModeOf(f[i]) = ModeAfter(ModeOf(f[i - 1]), t[i])
        BY <2>1, <2>3 DEF QuoteMove, StringMove, ModeOf, ModeAfter
      <3>3. QED
        BY <1>4, <3>1, <3>2 DEF Follows
    <2>4. QED
      BY <2>2, <2>3
  <1> HIDE DEF stray
  <1>7. \A i \in 1..n : mode[i] = b[i - 1]
    <2>1. n \in 0..n
      BY <1>2
    <2>2. QED
      BY <1>2, <1>4, <1>6, <2>1, ModesAre
  <1> DEFINE dropped == {i \in stray : mode[i] = "out"}
             w == [i \in 1..n |-> IF i \in dropped THEN <<>> ELSE <<t[i]>>]
  <1>8. \A i \in 1..n : i \in dropped <=> f[i - 1] = "close" /\ t[i] = "quote"
    BY <1>5, <1>7
  <1> HIDE DEF dropped
  <1>9. ASSUME NEW i \in 1..n, NEW v, Move("quotes", f[i - 1], t[i], f[i], v) PROVE v = w[i]
    <2>1. QuoteMove(f[i - 1], t[i], f[i], v)
      BY <1>9 DEF Move
    <2>2. v = IF f[i - 1] = "close" /\ t[i] = "quote" THEN <<>> ELSE <<t[i]>>
      BY <2>1 DEF QuoteMove, StringMove
    <2>3. QED
      BY <1>8, <2>2
  <1>10. w = [i \in 1..n |-> w[i]]
    OBVIOUS
  <1>11. RepairTrailingQuote(t) = FlattenSeq(w)
    BY DEF RepairTrailingQuote, Without, dropped, stray
  <1> HIDE DEF w
  <1>12. FlattenSeq(w) = g[n]
    <2>1. \A i \in 1..n : \A v : Move("quotes", f[i - 1], t[i], f[i], v) => v = w[i]
      BY <1>9
    <2>2. Writes("quotes", t, f, w)
      BY <1>10, <2>1 DEF Writes
    <2>3. QED
      BY <1>1, <1>2, <2>2, WritesJoined
  <1>13. QED
    BY <1>1, <1>11, <1>12

\* RepairControlChars returns what the machine writes.
LEMMA CharsSound ==
  ASSUME NEW t, NEW e, NEW u, Scans("chars", t, "out", e, u)
  PROVE  RepairControlChars(t) = u
  <1> DEFINE n == Len(t)
             mode == Modes(t, {})
  <1>1. PICK f, g : f[0] = "out" /\ f[n] = e /\ g[n] = u /\ Reads("chars", t, f, g)
    BY DEF Scans
  <1>2. t \in Text /\ n \in Nat
    BY LenProperties DEF Scans, Text
  <1>3. ASSUME NEW i \in 1..n PROVE Follows(f, t, {}, i)
    <2>1. PICK w : CharMove(f[i - 1], t[i], f[i], w)
      BY <1>1 DEF Reads, Move
    <2>2. f[i] = ModeAfter(f[i - 1], t[i])
      BY <2>1 DEF CharMove, StringMove, ModeAfter
    <2>3. QED
      BY <2>2 DEF Follows
  <1>4. \A i \in 1..n : mode[i] = f[i - 1]
    <2>1. n \in 0..n
      BY <1>2
    <2>2. QED
      BY <1>1, <1>2, <1>3, <2>1, ModesAre
  <1> DEFINE w == [i \in 1..n |-> IF mode[i] = "in" /\ t[i] = "newline"
                                  THEN <<"backslash", "n">> ELSE <<t[i]>>]
  <1>5. ASSUME NEW i \in 1..n, NEW v, Move("chars", f[i - 1], t[i], f[i], v) PROVE v = w[i]
    <2>1. CharMove(f[i - 1], t[i], f[i], v)
      BY <1>5 DEF Move
    <2>2. v = IF f[i - 1] = "in" /\ t[i] = "newline" THEN <<"backslash", "n">> ELSE <<t[i]>>
      BY <2>1 DEF CharMove, StringMove
    <2>3. QED
      BY <1>4, <2>2
  <1>6. w = [i \in 1..n |-> w[i]]
    OBVIOUS
  <1>7. RepairControlChars(t) = FlattenSeq(w)
    BY DEF RepairControlChars
  <1> HIDE DEF w
  <1>8. FlattenSeq(w) = g[n]
    <2>1. \A i \in 1..n : \A v : Move("chars", f[i - 1], t[i], f[i], v) => v = w[i]
      BY <1>5
    <2>2. Writes("chars", t, f, w)
      BY <1>6, <2>1 DEF Writes
    <2>3. QED
      BY <1>1, <1>2, <2>2, WritesJoined
  <1>9. QED
    BY <1>1, <1>7, <1>8

\* A text is JSON when the machine is left with nothing open.
LEMMA JsonSound ==
  ASSUME NEW t, NEW e, NEW u, Scans("json", t, JsonStart, e, u)
  PROVE  IsJson(t) <=> e = [expects |-> "next", open |-> <<>>]
  <1> DEFINE n == Len(t)
             Is(f) == f = [i \in 0..n |-> IF i = 0 THEN JsonStart ELSE JsonStep(f[i - 1], t[i])]
             state == CHOOSE f : Is(f)
  <1>1. PICK f, g : f[0] = JsonStart /\ f[n] = e /\ Reads("json", t, f, g)
    BY DEF Scans
  <1>2. n \in Nat
    BY LenProperties DEF Scans, Text
  <1>3. \A i \in 1..n : f[i] = JsonStep(f[i - 1], t[i])
    BY <1>1 DEF Reads, Move, JsonMove
  <1>4. Is(state)
    <2> DEFINE h == [i \in 0..n |-> f[i]]
    <2>1. ASSUME NEW i \in 0..n PROVE h[i] = IF i = 0 THEN JsonStart ELSE JsonStep(h[i - 1], t[i])
      <3>1. CASE i = 0
        BY <1>1, <1>2, <3>1
      <3>2. CASE i # 0
        <4>1. i \in 1..n /\ h[i] = f[i] /\ h[i - 1] = f[i - 1]
          BY <1>2, <3>2
        <4>2. QED
          BY <1>3, <3>2, <4>1
      <3>3. QED
        BY <3>1, <3>2
    <2>2. h = [i \in 0..n |-> IF i = 0 THEN JsonStart ELSE JsonStep(h[i - 1], t[i])]
      BY <2>1
    <2> HIDE DEF h
    <2>3. Is(h)
      BY <2>2
    <2> HIDE DEF Is
    <2>4. QED
      BY <2>3
  <1> HIDE DEF state
  <1>5. state[0] = JsonStart /\ \A i \in 1..n : state[i] = JsonStep(state[i - 1], t[i])
    BY <1>2, <1>4
  <1> DEFINE G == {i \in 0..n : state[i] = f[i]}
  <1>6. 0 \in G
    BY <1>1, <1>2, <1>5
  <1>7. ASSUME NEW i \in 1..n, i - 1 \in G PROVE i \in G
    <2>1. i \in 0..n /\ state[i - 1] = f[i - 1]
      BY <1>2, <1>7
    <2>2. QED
      BY <1>3, <1>5, <2>1
  <1> HIDE DEF G
  <1>8. \A i \in 0..n : i \in G
    BY <1>2, <1>6, <1>7, UpTo
  <1>9. state[n] = e
    <2>1. n \in 0..n
      BY <1>2
    <2>2. QED
      BY <1>1, <1>8, <2>1 DEF G
  <1>10. IsJson(t) <=> state[n] = [expects |-> "next", open |-> <<>>]
    BY DEF IsJson, state
  <1>11. QED
    BY <1>9, <1>10

LEMMA CatPlaces ==
  ASSUME NEW s \in Text, NEW t \in Text
  PROVE  /\ Cat(s, t) \in Text /\ Len(s) \in Nat /\ Len(t) \in Nat
         /\ Len(Cat(s, t)) = Len(s) + Len(t)
         /\ \A i \in 1..Len(s) : Cat(s, t)[i] = s[i]
         /\ \A i \in 1..Len(t) : Cat(s, t)[Len(s) + i] = t[i]
  <1>1. Len(s) \in Nat /\ Len(t) \in Nat
    BY LenProperties DEF Text
  <1>2. /\ Cat(s, t) \in Text /\ Len(Cat(s, t)) = Len(s) + Len(t)
        /\ \A i \in 1..(Len(s) + Len(t)) :
             Cat(s, t)[i] = IF i <= Len(s) THEN s[i] ELSE t[i - Len(s)]
    BY ConcatProperties DEF Text, Cat
  <1>3. ASSUME NEW i \in 1..Len(s) PROVE Cat(s, t)[i] = s[i]
    BY <1>1, <1>2
  <1>4. ASSUME NEW i \in 1..Len(t) PROVE Cat(s, t)[Len(s) + i] = t[i]
    <2>1. /\ Len(s) + i \in 1..(Len(s) + Len(t)) /\ ~(Len(s) + i <= Len(s))
          /\ (Len(s) + i) - Len(s) = i
      BY <1>1
    <2>2. QED
      BY <1>2, <2>1
  <1>5. QED
    BY <1>1, <1>2, <1>3, <1>4

\* The first number of a set, as the model chooses it.
LEMMA FirstIs ==
  ASSUME NEW T \in SUBSET Int, NEW x \in T, \A y \in T : x <= y
  PROVE  (CHOOSE i \in T : \A j \in T : i <= j) = x
  <1> DEFINE First(i) == i \in T /\ \A j \in T : i <= j
             c == CHOOSE i : First(i)
  <1>1. First(x)
    OBVIOUS
  <1>2. First(c)
    BY <1>1
  <1> HIDE DEF c
  <1>3. x <= c /\ c <= x /\ x \in Int /\ c \in Int
    BY <1>2
  <1>4. c = x
    BY <1>3
  <1>5. QED
    BY <1>4 DEF c

\* Behind a text that has no brace, the object that the machine reads is the one extracted.
LEMMA ObjectSound ==
  ASSUME NEW pre \in Text, NEW t, NEW post \in Text, NEW u,
         \A i \in 1..Len(pre) : pre[i] # "lbrace",
         Scans("object", t, "start", "done", u)
  PROVE  ExtractObject(Cat(Cat(pre, t), post)) = t
  <1> DEFINE a == Len(pre)  n == Len(t)  m == Len(post)
             all == Cat(Cat(pre, t), post)
  <1>1. PICK f, g : f[0] = "start" /\ f[n] = "done" /\ Reads("object", t, f, g)
    BY DEF Scans
  <1>2. t \in Text /\ a \in Nat /\ n \in Nat /\ m \in Nat
    BY LenProperties DEF Scans, Text
  <1>3. /\ all \in Text /\ Len(all) = a + n + m
        /\ \A i \in 1..a : all[i] = pre[i]
        /\ \A i \in 1..n : all[a + i] = t[i]
    <2> DEFINE first == Cat(pre, t)
    <2>1. /\ first \in Text /\ Len(first) = a + n
          /\ \A i \in 1..a : first[i] = pre[i]
          /\ \A i \in 1..n : first[a + i] = t[i]
      BY <1>2, CatPlaces
    <2> HIDE DEF first
    <2>2. /\ Cat(first, post) \in Text /\ Len(Cat(first, post)) = (a + n) + m
          /\ \A i \in 1..(a + n) : Cat(first, post)[i] = first[i]
      <3>1. /\ Cat(first, post) \in Text /\ Len(Cat(first, post)) = Len(first) + Len(post)
            /\ \A i \in 1..Len(first) : Cat(first, post)[i] = first[i]
        BY <2>1, CatPlaces
      <3>2. QED
        BY <2>1, <3>1
    <2>3. \A i \in 1..a : i \in 1..(a + n)
      BY <1>2
    <2>4. \A i \in 1..n : a + i \in 1..(a + n)
      BY <1>2
    <2>5. all = Cat(first, post)
      BY DEF first
    <2>6. QED
      BY <1>2, <2>1, <2>2, <2>3, <2>4, <2>5
  <1> HIDE DEF all
  <1>4. \A i \in 1..n : \E w : ObjectMove(f[i - 1], t[i], f[i], w)
    BY <1>1 DEF Reads, Move
  <1>5. \A i \in 1..n : f[i] # "start"
    BY <1>4 DEF ObjectMove, StringMove
  <1>6. ASSUME NEW i \in 1..n, i # n PROVE f[i] # "done"
    <2>1. i + 1 \in 1..n /\ (i + 1) - 1 = i
      BY <1>2, <1>6
    <2>2. \E w : ObjectMove(f[i], t[i + 1], f[i + 1], w)
      BY <1>4, <2>1
    <2>3. QED
      BY <2>2 DEF ObjectMove, StringMove
  <1>7. n >= 1 /\ 1 \in 1..n /\ n \in 1..n
    BY <1>1, <1>2
  <1>8. t[1] = "lbrace" /\ f[1] = "out"
    <2>1. \E w : ObjectMove(f[1 - 1], t[1], f[1], w)
      BY <1>4, <1>7
    <2>2. QED
      BY <1>1, <2>1 DEF ObjectMove, StringMove
  <1> DEFINE opens == {i \in 1..Len(all) : all[i] = "lbrace"}
             start == CHOOSE i \in opens : \A j \in opens : i <= j
  <1>9. opens # {} /\ start = a + 1
    <2>1. a + 1 \in opens
      BY <1>2, <1>3, <1>7, <1>8
    <2>2. \A j \in opens : a + 1 <= j
      BY <1>2, <1>3
    <2>3. opens \in SUBSET Int
      BY <1>2, <1>3
    <2> HIDE DEF opens
    <2>4. QED
      BY <2>1, <2>2, <2>3, FirstIs
  <1> HIDE DEF opens, start
  <1> DEFINE rest == SubSeq(all, start, Len(all))
  <1>10. rest \in Text /\ Len(rest) = n + m /\ \A i \in 1..n : rest[i] = t[i]
    <2>1. \A i \in (a + 1)..(a + n + m) : all[i] \in Token
      BY <1>2, <1>3, ElementOfSeq DEF Text
    <2>2. /\ SubSeq(all, a + 1, a + n + m) \in Text
          /\ Len(SubSeq(all, a + 1, a + n + m))
               = IF a + 1 <= a + n + m THEN (a + n + m) - (a + 1) + 1 ELSE 0
          /\ \A i \in 1..((a + n + m) - (a + 1) + 1) :
               SubSeq(all, a + 1, a + n + m)[i] = all[a + 1 + i - 1]
      BY <1>2, <2>1, SubSeqProperties DEF Text
    <2>3. rest = SubSeq(all, a + 1, a + n + m)
      BY <1>3, <1>9
    <2>4. a + 1 <= a + n + m /\ (a + n + m) - (a + 1) + 1 = n + m
      BY <1>2, <1>7
    <2>5. rest \in Text /\ Len(rest) = n + m
      BY <2>2, <2>3, <2>4
    <2>6. ASSUME NEW i \in 1..n PROVE rest[i] = t[i]
      <3>1. i \in 1..(n + m) /\ a + 1 + i - 1 = a + i
        BY <1>2
      <3>2. rest[i] = all[a + i]
        BY <2>2, <2>3, <2>4, <3>1
      <3>3. QED
        BY <1>3, <3>2
    <2>7. QED
      BY <2>5, <2>6
  <1> HIDE DEF rest
  <1> DEFINE mode == Modes(rest, {})
             b == [i \in 0..n |-> ModeOf(f[i])]
  <1>11. \A i \in 1..n : mode[i] = ModeOf(f[i - 1])
    <2>1. /\ b[0] = "out"
          /\ \A i \in 1..n : b[i - 1] = ModeOf(f[i - 1]) /\ b[i] = ModeOf(f[i])
      BY <1>1, <1>2 DEF ModeOf
    <2> HIDE DEF b
    <2>2. ASSUME NEW i \in 1..n PROVE Follows(b, rest, {}, i)
      <3>1. \E w : ObjectMove(f[i - 1], t[i], f[i], w)
        BY <1>4
      <3>2. ModeOf(f[i]) = ModeAfter(ModeOf(f[i - 1]), t[i])
        BY <3>1 DEF ObjectMove, StringMove, ModeOf, ModeAfter
      <3>3. QED
        BY <1>10, <2>1, <3>2 DEF Follows
    <2>3. n \in 0..Len(rest)
      BY <1>2, <1>10
    <2>4. \A i \in 1..n : mode[i] = b[i - 1]
      BY <1>10, <2>1, <2>2, <2>3, ModesAre
    <2>5. QED
      BY <2>1, <2>4
  <1> HIDE DEF mode
  <1> DEFINE Outside(token, i) == {k \in 1..i : rest[k] = token /\ mode[k] = "out"}
  <1>12. ASSUME NEW k \in 1..n
         PROVE  /\ rest[k] = "lbrace" /\ mode[k] = "out" <=> k = 1
                /\ rest[k] = "rbrace" /\ mode[k] = "out" <=> k = n
    <2>1. \E w : ObjectMove(f[k - 1], t[k], f[k], w)
      BY <1>4
    <2>2. rest[k] = t[k] /\ mode[k] = ModeOf(f[k - 1])
      BY <1>10, <1>11
    <2>3. k # 1 => f[k - 1] # "start"
      <3>1. k # 1 => k - 1 \in 1..n
        BY <1>2
      <3>2. QED
        BY <1>5, <3>1
    <2>4. k = 1 => f[k - 1] = "start" /\ t[k] = "lbrace"
      BY <1>1, <1>8
    <2>5. f[k] = "done" <=> k = n
      BY <1>1, <1>6
    <2>6. rest[k] = "lbrace" /\ mode[k] = "out" <=> k = 1
      BY <2>1, <2>2, <2>3, <2>4 DEF ObjectMove, StringMove, ModeOf
    <2>7. rest[k] = "rbrace" /\ mode[k] = "out" <=> f[k] = "done"
      BY <2>1, <2>2 DEF ObjectMove, StringMove, ModeOf
    <2>8. QED
      BY <2>5, <2>6, <2>7
  <1>13. ASSUME NEW i \in 1..n
         PROVE  Outside("lbrace", i) = {1} /\ Outside("rbrace", i) = IF i = n THEN {n} ELSE {}
    <2>1. 1 \in 1..i /\ \A k \in 1..i : k \in 1..n
      BY <1>2
    <2>2. Outside("lbrace", i) = {1}
      BY <1>12, <2>1
    <2>3. CASE i = n
      BY <1>7, <1>12, <2>2, <2>3
    <2>4. CASE i # n
      <3>1. n \notin 1..i
        BY <1>2, <2>4
      <3>2. QED
        BY <1>12, <2>1, <2>2, <2>4, <3>1
    <2>5. QED
      BY <2>3, <2>4
  <1> HIDE DEF Outside
  <1> DEFINE closes == {i \in 1..Len(rest) :
                          Cardinality(Outside("lbrace", i)) = Cardinality(Outside("rbrace", i))}
             close == CHOOSE i \in closes : \A j \in closes : i <= j
  <1>14. closes # {} /\ close = n
    <2>1. ASSUME NEW i \in 1..n
          PROVE  /\ Cardinality(Outside("lbrace", i)) = 1
                 /\ Cardinality(Outside("rbrace", i)) = IF i = n THEN 1 ELSE 0
      BY <1>13, FS_Singleton, FS_EmptySet
    <2>2. n \in closes
      BY <1>2, <1>7, <1>10, <2>1
    <2>3. ASSUME NEW j \in closes PROVE n <= j
      <3>1. j \in 1..n => j = n
        BY <2>1
      <3>2. QED
        BY <1>2, <1>10, <3>1
    <2>4. closes \in SUBSET Int
      BY <1>2, <1>10
    <2> HIDE DEF closes
    <2>5. QED
      BY <2>2, <2>3, <2>4, FirstIs
  <1> HIDE DEF closes, close
  <1>15. ExtractObject(all) = SubSeq(rest, 1, close)
    <2>1. ExtractObject(all) = IF opens = {} \/ closes = {} THEN NoText ELSE SubSeq(rest, 1, close)
      BY DEF ExtractObject, opens, start, rest, mode, Outside, closes, close
    <2>2. QED
      BY <1>9, <1>14, <2>1
  <1>16. SubSeq(rest, 1, n) = t
    <2>1. \A i \in 1..n : rest[i] \in Token
      BY <1>2, <1>10, ElementOfSeq DEF Text
    <2>2. /\ SubSeq(rest, 1, n) \in Text
          /\ Len(SubSeq(rest, 1, n)) = IF 1 <= n THEN n - 1 + 1 ELSE 0
          /\ \A i \in 1..(n - 1 + 1) : SubSeq(rest, 1, n)[i] = rest[1 + i - 1]
      BY <1>2, <2>1, SubSeqProperties DEF Text
    <2>3. Len(SubSeq(rest, 1, n)) = n /\ \A i \in 1..n : SubSeq(rest, 1, n)[i] = t[i]
      <3>1. 1 <= n /\ n - 1 + 1 = n /\ \A i \in 1..n : 1 + i - 1 = i
        BY <1>2, <1>7
      <3>2. QED
        BY <1>10, <2>2, <3>1
    <2>4. QED
      BY <1>2, <2>2, <2>3, SeqEqual DEF Text
  <1>17. QED
    BY <1>14, <1>15, <1>16 DEF all

\* Without a closing brace there is no object.
LEMMA NoObject ==
  ASSUME NEW t \in Text, \A i \in 1..Len(t) : t[i] # "rbrace"
  PROVE  ExtractObject(t) = NoText
  <1> DEFINE opens == {i \in 1..Len(t) : t[i] = "lbrace"}
             start == CHOOSE i \in opens : \A j \in opens : i <= j
             rest == SubSeq(t, start, Len(t))
             mode == Modes(rest, {})
             Outside(token, i) == {k \in 1..i : rest[k] = token /\ mode[k] = "out"}
             closes == {i \in 1..Len(rest) :
                          Cardinality(Outside("lbrace", i)) = Cardinality(Outside("rbrace", i))}
             close == CHOOSE i \in closes : \A j \in closes : i <= j
  <1>1. ExtractObject(t) = IF opens = {} \/ closes = {} THEN NoText ELSE SubSeq(rest, 1, close)
    BY DEF ExtractObject
  <1>2. ASSUME opens # {} PROVE closes = {}
    <2> DEFINE l == Len(t)
    <2>1. l \in Nat
      BY LenProperties DEF Text
    <2>2. PICK m \in opens : \A k \in opens : m <= k
      <3>1. opens \in SUBSET Nat
        BY <2>1
      <3> HIDE DEF opens
      <3>2. QED
        BY <1>2, <3>1, LeastPlace
    <2>3. start \in opens
      BY <2>2
    <2>4. start \in 1..Len(t) /\ t[start] = "lbrace"
      BY <2>3
    <2> HIDE DEF opens, start
    <2> DEFINE n == Len(t) - start + 1
    <2>5. n \in Nat /\ n >= 1 /\ start \in Nat /\ start >= 1 /\ start + n = l + 1 /\ start <= l
      BY <2>1, <2>4
    <2>6. rest \in Text /\ Len(rest) = n /\ \A i \in 1..n : rest[i] = t[start + i - 1]
      <3>1. \A i \in start..Len(t) : t[i] \in Token
        BY <2>1, <2>4, ElementOfSeq DEF Text
      <3>2. /\ rest \in Text /\ Len(rest) = IF start <= Len(t) THEN n ELSE 0
            /\ \A i \in 1..n : rest[i] = t[start + i - 1]
        BY <2>1, <2>4, <3>1, SubSeqProperties DEF Text
      <3>3. QED
        BY <2>5, <3>2
    <2> HIDE DEF rest
    <2>7. rest[1] = "lbrace" /\ \A i \in 1..n : rest[i] # "rbrace"
      <3>1. 1 \in 1..n /\ start + 1 - 1 = start
        BY <2>5
      <3>2. ASSUME NEW i \in 1..n PROVE start + i - 1 \in 1..Len(t)
        <4> HIDE DEF n
        <4>1. i \in Nat /\ 1 <= i /\ i <= n
          BY <2>5
        <4>2. QED
          BY <2>1, <2>5, <4>1
      <3>3. QED
        BY <2>4, <2>6, <3>1, <3>2
    <2> HIDE DEF n
    <2>8. mode[1] = "out"
      <3>1. PICK b : b[0] = "out" /\ \A i \in 1..n : Follows(b, rest, {}, i)
        BY <2>5, FollowsExists
      <3>2. n \in 0..Len(rest) /\ 1 \in 1..n /\ 1 - 1 = 0
        BY <2>5, <2>6
      <3>3. \A i \in 1..n : mode[i] = b[i - 1]
        BY <2>6, <3>1, <3>2, ModesAre
      <3>4. QED
        BY <3>1, <3>2, <3>3
    <2> HIDE DEF mode
    <2>9. ASSUME NEW i \in 1..n
          PROVE  Cardinality(Outside("lbrace", i)) # Cardinality(Outside("rbrace", i))
      <3>1. Outside("rbrace", i) = {}
        BY <2>5, <2>7
      <3>2. Outside("lbrace", i) # {}
        BY <2>5, <2>7, <2>8
      <3>3. IsFiniteSet(1..i)
        BY <2>5, FS_Interval
      <3>4. IsFiniteSet(Outside("lbrace", i))
        <4>1. Outside("lbrace", i) \subseteq 1..i
          OBVIOUS
        <4> HIDE DEF Outside
        <4>2. QED
          BY <3>3, <4>1, FS_Subset
      <3> HIDE DEF Outside
      <3>5. QED
        BY <3>1, <3>2, <3>4, FS_EmptySet
    <2> HIDE DEF Outside
    <2>10. QED
      BY <2>6, <2>9
  <1>3. QED
    BY <1>1, <1>2

-----------------------------------------------------------------------------
(* What surrounds the text of a document is stripped.  *)

LEMMA SubTextPlaces ==
  ASSUME NEW t \in Text, NEW m \in Nat, NEW n \in 0..Len(t), m <= n
  PROVE  /\ SubSeq(t, m + 1, n) \in Text /\ Len(SubSeq(t, m + 1, n)) = n - m
         /\ \A i \in 1..(n - m) : SubSeq(t, m + 1, n)[i] = t[m + i]
  <1>1. Len(t) \in Nat /\ n \in Nat
    BY LenProperties DEF Text
  <1>2. \A i \in (m + 1)..n : t[i] \in Token
    BY <1>1, ElementOfSeq DEF Text
  <1>3. /\ SubSeq(t, m + 1, n) \in Text
        /\ Len(SubSeq(t, m + 1, n)) = IF m + 1 <= n THEN n - (m + 1) + 1 ELSE 0
        /\ \A i \in 1..(n - (m + 1) + 1) : SubSeq(t, m + 1, n)[i] = t[(m + 1) + i - 1]
    BY <1>1, <1>2, SubSeqProperties DEF Text
  <1>4. n - (m + 1) + 1 = n - m /\ \A i \in 1..(n - m) : (m + 1) + i - 1 = m + i
    BY <1>1
  <1>5. Len(SubSeq(t, m + 1, n)) = n - m
    BY <1>1, <1>3, <1>4
  <1>6. ASSUME NEW i \in 1..(n - m) PROVE SubSeq(t, m + 1, n)[i] = t[m + i]
    BY <1>3, <1>4
  <1>7. QED
    BY <1>3, <1>5, <1>6

\* Without its first m tokens, a text is the rest.
LEMMA WithoutFirst ==
  ASSUME NEW t \in Text, NEW m \in 0..Len(t)
  PROVE  Without(t, 1..m) = SubSeq(t, m + 1, Len(t))
  <1> DEFINE n == Len(t)
             w == [i \in 1..n |-> IF i \in 1..m THEN <<>> ELSE <<t[i]>>]
             g == [i \in 0..n |-> SubSeq(t, m + 1, i)]
  <1>1. n \in Nat /\ m \in Nat
    BY LenProperties DEF Text
  <1>2. <<>> \in Text /\ Cat(<<>>, <<>>) = <<>>
    BY EmptySeq, CatType DEF Text
  <1>3. \A i \in 1..n : w[i] \in Text
    <2>1. \A i \in 1..n : t[i] \in Token
      BY ElementOfSeq DEF Text
    <2>2. QED
      BY <1>2, <2>1, SingleSeq DEF Text
  <1>4. w \in Seq(Text) /\ Len(w) = n
    <2> HIDE DEF w
    <2>1. w = [i \in 1..n |-> w[i]]
      BY DEF w
    <2>2. [i \in 1..n |-> w[i]] \in Seq(Text)
      BY <1>1, <1>3, IsASeq
    <2>3. w \in Seq(Text) /\ DOMAIN w = 1..n
      BY <2>1, <2>2
    <2>4. QED
      BY <1>1, <2>3, LenProperties
  <1>5. g[0] = <<>>
    <2>1. g[0] = SubSeq(t, m + 1, 0)
      BY <1>1
    <2>2. QED
      BY <1>1, <2>1, SubSeqEmpty
  <1>6. ASSUME NEW i \in 1..n PROVE g[i] = Cat(g[i - 1], w[i])
    <2>1. g[i] = SubSeq(t, m + 1, i) /\ g[i - 1] = SubSeq(t, m + 1, i - 1)
      BY <1>1
    <2>2. CASE i <= m
      <3>1. SubSeq(t, m + 1, i) = <<>> /\ SubSeq(t, m + 1, i - 1) = <<>>
        BY <1>1, <2>2, SubSeqEmpty
      <3>2. w[i] = <<>>
        BY <1>1, <2>2
      <3>3. QED
        BY <1>2, <2>1, <3>1, <3>2
    <2>3. CASE ~(i <= m)
      <3>1. m + 1 \in 1..Len(t) /\ i \in (m + 1)..Len(t)
        BY <1>1, <2>3
      <3>2. SubSeq(t, m + 1, i) = Cat(SubSeq(t, m + 1, i - 1), <<t[i]>>)
        BY <3>1, SubSeqRecursiveSecond DEF Text, Cat
      <3>3. w[i] = <<t[i]>>
        BY <1>1, <2>3
      <3>4. QED
        BY <2>1, <3>2, <3>3
    <2>4. QED
      BY <2>2, <2>3
  <1>7. Without(t, 1..m) = FlattenSeq(w)
    BY DEF Without
  <1>8. g[n] = SubSeq(t, m + 1, n)
    BY <1>1
  <1> HIDE DEF w, g
  <1>9. Joins(g, w)
    BY <1>4, <1>5, <1>6 DEF Joins
  <1>10. FlattenSeq(w) = g[n]
    BY <1>4, <1>9, FlattenIs DEF Text
  <1>11. QED
    BY <1>7, <1>8, <1>10

LEMMA ShortTexts ==
  ASSUME NEW S, NEW a \in S, NEW b \in S, NEW c \in S, NEW d \in S, NEW e \in S
  PROVE  /\ <<a, b>> \in Seq(S) /\ Len(<<a, b>>) = 2 /\ <<a, b>>[1] = a /\ <<a, b>>[2] = b
         /\ <<a, b, c>> \in Seq(S) /\ Len(<<a, b, c>>) = 3
         /\ <<a, b, c, d>> \in Seq(S) /\ Len(<<a, b, c, d>>) = 4
         /\ <<a, b, c, d, e>> \in Seq(S) /\ Len(<<a, b, c, d, e>>) = 5
         /\ <<a, b, c, d, e>>[1] = a /\ <<a, b, c, d, e>>[2] = b /\ <<a, b, c, d, e>>[3] = c
         /\ <<a, b, c, d, e>>[4] = d /\ <<a, b, c, d, e>>[5] = e
  OBVIOUS

\* A text that opens no thought stays as it is.
LEMMA NoThought ==
  ASSUME NEW t \in Text, \A i \in 1..Len(t) : t[i] # "think"
  PROVE  StripThinking(t) = t
  <1> DEFINE n == Len(t)
             thought == {k \in 1..n : \E i \in 1..k, j \in k..n :
                           /\ t[i] = "think" /\ t[j] = "endthink"
                           /\ \A l \in i..(j - 1) : t[l] # "endthink"}
  <1>1. n \in Nat
    BY LenProperties DEF Text
  <1>2. thought = 1..0
    <2>1. \A k \in 1..n : \A i \in 1..k : i \in 1..n
      BY <1>1
    <2>2. QED
      BY <2>1
  <1>3. StripThinking(t) = Without(t, thought)
    BY DEF StripThinking
  <1>4. Without(t, 1..0) = SubSeq(t, 0 + 1, n)
    <2>1. 0 \in 0..n
      BY <1>1
    <2>2. QED
      BY <2>1, WithoutFirst
  <1>5. SubSeq(t, 1, n) = t
    BY SubSeqFull DEF Text
  <1> HIDE DEF thought
  <1>6. QED
    BY <1>2, <1>3, <1>4, <1>5

Thinking == <<"think", "lbrace", "quote", "word", "endthink">>

\* A thought in front of a text that opens none is stripped, and nothing else.
LEMMA OneThought ==
  ASSUME NEW x \in Text, \A i \in 1..Len(x) : x[i] # "think"
  PROVE  StripThinking(Cat(Thinking, x)) = x
  <1> DEFINE t == Cat(Thinking, x)
             m == Len(x)
             n == Len(t)
             thought == {k \in 1..n : \E i \in 1..k, j \in k..n :
                           /\ t[i] = "think" /\ t[j] = "endthink"
                           /\ \A l \in i..(j - 1) : t[l] # "endthink"}
  <1>1. /\ Thinking \in Text /\ Len(Thinking) = 5
        /\ Thinking[1] = "think" /\ Thinking[2] = "lbrace" /\ Thinking[3] = "quote"
        /\ Thinking[4] = "word" /\ Thinking[5] = "endthink"
    <2>1. /\ "think" \in Token /\ "lbrace" \in Token /\ "quote" \in Token
          /\ "word" \in Token /\ "endthink" \in Token
      BY DEF Token
    <2>2. /\ Thinking \in Seq(Token) /\ Len(Thinking) = 5
          /\ Thinking[1] = "think" /\ Thinking[2] = "lbrace" /\ Thinking[3] = "quote"
          /\ Thinking[4] = "word" /\ Thinking[5] = "endthink"
      BY <2>1, ShortTexts DEF Thinking
    <2>3. QED
      BY <2>2 DEF Text
  <1>2. /\ t \in Text /\ m \in Nat /\ n = 5 + m
        /\ \A i \in 1..5 : t[i] = Thinking[i]
        /\ \A i \in 1..m : t[5 + i] = x[i]
    <2> HIDE DEF m
    <2>1. /\ Cat(Thinking, x) \in Text /\ Len(x) \in Nat
          /\ Len(Cat(Thinking, x)) = Len(Thinking) + Len(x)
          /\ \A i \in 1..Len(Thinking) : Cat(Thinking, x)[i] = Thinking[i]
          /\ \A i \in 1..Len(x) : Cat(Thinking, x)[Len(Thinking) + i] = x[i]
      BY <1>1, CatPlaces
    <2>2. QED
      BY <1>1, <2>1 DEF m
  <1> HIDE DEF t
  <1>3. /\ t[1] = "think" /\ t[2] = "lbrace" /\ t[3] = "quote" /\ t[4] = "word"
        /\ t[5] = "endthink"
    BY <1>1, <1>2
  <1>4. ASSUME NEW i \in 1..n PROVE t[i] = "think" <=> i = 1
    <2>1. CASE i <= 5
      <3>1. i \in {1, 2, 3, 4, 5}
        BY <1>2, <2>1
      <3>2. QED
        BY <1>3, <3>1
    <2>2. CASE ~(i <= 5)
      <3>1. i - 5 \in 1..m /\ 5 + (i - 5) = i
        BY <1>2, <2>2
      <3>2. t[i] = x[i - 5]
        BY <1>2, <3>1
      <3>3. QED
        BY <2>2, <3>1, <3>2
    <2>3. QED
      BY <2>1, <2>2
  <1>5. thought = 1..5
    <2>1. ASSUME NEW k \in 1..5 PROVE k \in thought
      <3>1. k \in 1..n /\ 1 \in 1..k /\ 5 \in k..n
        BY <1>2
      <3>2. \A l \in 1..(5 - 1) : t[l] # "endthink"
        <4>1. \A l \in 1..(5 - 1) : l \in {1, 2, 3, 4}
          OBVIOUS
        <4>2. QED
          BY <1>3, <4>1
      <3>3. QED
        BY <1>3, <3>1, <3>2
    <2>2. ASSUME NEW k \in thought PROVE k \in 1..5
      <3>1. PICK i \in 1..k, j \in k..n : /\ t[i] = "think"
                                         /\ \A l \in i..(j - 1) : t[l] # "endthink"
        OBVIOUS
      <3>2. k \in 1..n /\ i \in 1..n
        BY <1>2
      <3>3. i = 1
        BY <1>4, <3>1, <3>2
      <3>4. ~(5 \in 1..(j - 1))
        BY <1>3, <3>1, <3>3
      <3>5. QED
        BY <1>2, <3>2, <3>4
    <2>3. QED
      BY <2>1, <2>2
  <1>6. StripThinking(t) = Without(t, thought)
    BY DEF StripThinking
  <1> HIDE DEF thought
  <1>7. Without(t, 1..5) = SubSeq(t, 5 + 1, Len(t))
    <2>1. 5 \in 0..Len(t)
      BY <1>2
    <2>2. QED
      BY <1>2, <2>1, WithoutFirst
  <1>8. /\ SubSeq(t, 5 + 1, n) \in Text /\ Len(SubSeq(t, 5 + 1, n)) = n - 5
        /\ \A i \in 1..(n - 5) : SubSeq(t, 5 + 1, n)[i] = t[5 + i]
    <2>1. n \in 0..Len(t) /\ 5 <= n /\ 5 \in Nat
      BY <1>2
    <2> HIDE DEF n
    <2>2. QED
      BY <1>2, <2>1, SubTextPlaces
  <1>9. SubSeq(t, 5 + 1, n) = x
    <2>1. n - 5 = m
      BY <1>2
    <2>2. QED
      BY <1>2, <1>8, <2>1, SeqEqual DEF Text
  <1>10. QED
    BY <1>5, <1>6, <1>7, <1>9 DEF t

LEMMA Unfenced ==
  ASSUME NEW t, t = NoText \/ t[1] # "fence"
  PROVE  StripFence(t) = t
  BY DEF StripFence

\* The last number of a set, as the model chooses it.
LEMMA LastIs ==
  ASSUME NEW T \in SUBSET Int, NEW x \in T, \A y \in T : y <= x
  PROVE  (CHOOSE i \in T : \A j \in T : j <= i) = x
  <1> DEFINE Final(i) == i \in T /\ \A j \in T : j <= i
             c == CHOOSE i : Final(i)
  <1>1. Final(x)
    OBVIOUS
  <1>2. Final(c)
    BY <1>1
  <1> HIDE DEF c
  <1>3. x <= c /\ c <= x /\ x \in Int /\ c \in Int
    BY <1>2
  <1>4. c = x
    BY <1>3
  <1>5. QED
    BY <1>4 DEF c

\* Between the fence at the start, which may name its language, and the last one.
LEMMA Fenced ==
  ASSUME NEW language \in {<<>>, <<"json">>}, NEW body \in Text, body # NoText,
         body[1] # "json", NEW post \in Text, \A i \in 1..Len(post) : post[i] # "fence"
  PROVE  StripFence(Cat(Cat(Cat(Cat(<<"fence">>, language), body), <<"fence">>), post)) = body
  <1> DEFINE a == Len(language)  n == Len(body)  m == Len(post)
             t == Cat(Cat(Cat(Cat(<<"fence">>, language), body), <<"fence">>), post)
  <1>1. /\ <<"fence">> \in Text /\ Len(<<"fence">>) = 1 /\ <<"fence">>[1] = "fence"
        /\ <<"json">> \in Text /\ Len(<<"json">>) = 1 /\ <<"json">>[1] = "json"
        /\ <<>> \in Text /\ Len(<<>>) = 0
    <2>1. "fence" \in Token /\ "json" \in Token
      BY DEF Token
    <2>2. <<"fence">> \in Seq(Token) /\ Len(<<"fence">>) = 1 /\ <<"fence">>[1] = "fence"
      BY <2>1, SingleSeq
    <2>3. <<"json">> \in Seq(Token) /\ Len(<<"json">>) = 1 /\ <<"json">>[1] = "json"
      BY <2>1, SingleSeq
    <2>4. <<>> \in Seq(Token) /\ Len(<<>>) = 0
      BY EmptySeq
    <2>5. QED
      BY <2>2, <2>3, <2>4 DEF Text
  <1>2. language \in Text /\ a \in {0, 1} /\ (a = 1 => language[1] = "json")
    BY <1>1
  <1>3. n \in Nat /\ m \in Nat /\ n >= 1
    <2>1. n \in Nat /\ m \in Nat
      BY LenProperties DEF Text
    <2>2. n # 0
      BY EmptySeq DEF Text, NoText
    <2>3. QED
      BY <2>1, <2>2
  <1>4. /\ t \in Text /\ Len(t) = a + n + 2 + m /\ t[1] = "fence"
        /\ (a = 1 => t[2] = "json")
        /\ \A i \in 1..n : t[1 + a + i] = body[i]
        /\ t[a + n + 2] = "fence"
        /\ \A i \in 1..m : t[a + n + 2 + i] = post[i]
    <2> DEFINE t1 == Cat(<<"fence">>, language)
               t2 == Cat(t1, body)
               t3 == Cat(t2, <<"fence">>)
    <2>1. /\ t1 \in Text /\ Len(t1) = 1 + a /\ t1[1] = "fence"
          /\ (a = 1 => t1[2] = "json")
      <3> DEFINE fence == <<"fence">>
      <3>4. fence \in Text /\ Len(fence) = 1 /\ fence[1] = "fence"
        BY <1>1
      <3>5. t1 = Cat(fence, language)
        OBVIOUS
      <3> HIDE DEF fence, t1
      <3>6. /\ t1 \in Text /\ Len(t1) = Len(fence) + a
            /\ \A i \in 1..Len(fence) : t1[i] = fence[i]
            /\ \A i \in 1..a : t1[Len(fence) + i] = language[i]
        BY <1>2, <3>4, <3>5, CatPlaces
      <3>1. /\ t1 \in Text /\ Len(t1) = 1 + a
            /\ \A i \in 1..1 : t1[i] = fence[i]
            /\ \A i \in 1..a : t1[1 + i] = language[i]
        BY <3>4, <3>6
      <3>2. 1 \in 1..1 /\ (a = 1 => 1 \in 1..a) /\ 1 + 1 = 2
        OBVIOUS
      <3>3. QED
        BY <1>2, <3>1, <3>2, <3>4
    <2> HIDE DEF t1
    <2>2. /\ t2 \in Text /\ Len(t2) = (1 + a) + n
          /\ \A i \in 1..(1 + a) : t2[i] = t1[i]
          /\ \A i \in 1..n : t2[(1 + a) + i] = body[i]
      <3>1. /\ t2 \in Text /\ Len(t2) = Len(t1) + n
            /\ \A i \in 1..Len(t1) : t2[i] = t1[i]
            /\ \A i \in 1..n : t2[Len(t1) + i] = body[i]
        BY <2>1, CatPlaces
      <3>2. QED
        BY <2>1, <3>1
    <2> HIDE DEF t2
    <2>3. /\ t3 \in Text /\ Len(t3) = (1 + a) + n + 1
          /\ \A i \in 1..((1 + a) + n) : t3[i] = t2[i]
          /\ t3[(1 + a) + n + 1] = "fence"
      <3> DEFINE fence == <<"fence">>
      <3>1. fence \in Text /\ Len(fence) = 1 /\ fence[1] = "fence"
        BY <1>1
      <3>2. t3 = Cat(t2, fence)
        OBVIOUS
      <3> HIDE DEF fence, t3
      <3>3. /\ t3 \in Text /\ Len(t3) = Len(t2) + Len(fence)
            /\ \A i \in 1..Len(t2) : t3[i] = t2[i]
            /\ \A i \in 1..Len(fence) : t3[Len(t2) + i] = fence[i]
        <4>1. t2 \in Text /\ fence \in Text
          BY <2>2, <3>1
        <4>2. /\ Cat(t2, fence) \in Text /\ Len(Cat(t2, fence)) = Len(t2) + Len(fence)
              /\ \A i \in 1..Len(t2) : Cat(t2, fence)[i] = t2[i]
              /\ \A i \in 1..Len(fence) : Cat(t2, fence)[Len(t2) + i] = fence[i]
          BY <4>1, CatPlaces
        <4>3. QED
          BY <3>2, <4>2
      <3>4. 1 \in 1..Len(fence)
        BY <3>1
      <3>5. QED
        BY <2>2, <3>1, <3>3, <3>4
    <2> HIDE DEF t3
    <2>4. /\ Cat(t3, post) \in Text /\ Len(Cat(t3, post)) = (1 + a) + n + 1 + m
          /\ \A i \in 1..((1 + a) + n + 1) : Cat(t3, post)[i] = t3[i]
          /\ \A i \in 1..m : Cat(t3, post)[(1 + a) + n + 1 + i] = post[i]
      <3>1. /\ Cat(t3, post) \in Text /\ Len(Cat(t3, post)) = Len(t3) + m
            /\ \A i \in 1..Len(t3) : Cat(t3, post)[i] = t3[i]
            /\ \A i \in 1..m : Cat(t3, post)[Len(t3) + i] = post[i]
        BY <2>3, CatPlaces
      <3>2. QED
        BY <2>3, <3>1
    <2>5. t = Cat(t3, post)
      BY DEF t1, t2, t3
    <2> HIDE DEF t
    <2>6. t \in Text /\ Len(t) = a + n + 2 + m
      BY <1>2, <1>3, <2>4, <2>5
    <2>7. ASSUME NEW i \in 1..(1 + a) PROVE t[i] = t1[i]
      <3>1. i \in 1..((1 + a) + n) /\ i \in 1..((1 + a) + n + 1)
        BY <1>2, <1>3
      <3>2. QED
        BY <2>2, <2>3, <2>4, <2>5, <3>1
    <2>8. t[1] = "fence" /\ (a = 1 => t[2] = "json")
      <3>1. 1 \in 1..(1 + a) /\ (a = 1 => 2 \in 1..(1 + a))
        BY <1>2
      <3>2. QED
        BY <2>1, <2>7, <3>1
    <2>9. ASSUME NEW i \in 1..n PROVE t[1 + a + i] = body[i]
      <3>1. (1 + a) + i \in 1..((1 + a) + n) /\ (1 + a) + i \in 1..((1 + a) + n + 1)
        BY <1>2, <1>3
      <3>2. QED
        BY <2>2, <2>3, <2>4, <2>5, <3>1
    <2>10. t[a + n + 2] = "fence"
      <3>1. (1 + a) + n + 1 \in 1..((1 + a) + n + 1) /\ (1 + a) + n + 1 = a + n + 2
        BY <1>2, <1>3
      <3>2. QED
        BY <2>3, <2>4, <2>5, <3>1
    <2>11. ASSUME NEW i \in 1..m PROVE t[a + n + 2 + i] = post[i]
      <3>1. (1 + a) + n + 1 + i = a + n + 2 + i
        BY <1>2, <1>3
      <3>2. QED
        BY <2>4, <2>5, <3>1
    <2>12. QED
      BY <2>6, <2>8, <2>9, <2>10, <2>11
  <1> HIDE DEF t
  <1> DEFINE fences == {i \in 1..Len(t) : t[i] = "fence"}
             last == CHOOSE i \in fences : \A j \in fences : j <= i
             content == SubSeq(t, 2, last - 1)
  <1>5. last = a + n + 2
    <2>1. a + n + 2 \in fences
      BY <1>2, <1>3, <1>4
    <2>2. ASSUME NEW j \in fences PROVE j <= a + n + 2
      <3> SUFFICES ASSUME j > a + n + 2 PROVE FALSE
        BY <1>2, <1>3, <1>4
      <3>1. j - (a + n + 2) \in 1..m /\ a + n + 2 + (j - (a + n + 2)) = j
        BY <1>2, <1>3, <1>4
      <3>2. t[j] = post[j - (a + n + 2)]
        BY <1>4, <3>1
      <3>3. QED
        BY <3>1, <3>2
    <2>3. fences \in SUBSET Int
      BY <1>2, <1>3, <1>4
    <2> HIDE DEF fences
    <2>4. QED
      BY <2>1, <2>2, <2>3, LastIs
  <1> HIDE DEF fences, last
  <1>6. /\ content \in Text /\ Len(content) = a + n
        /\ \A i \in 1..(a + n) : content[i] = t[1 + i]
    <2>1. a + n + 1 \in 0..Len(t) /\ 1 <= a + n + 1 /\ a + n + 1 - 1 = a + n /\ 1 + 1 = 2
          /\ (a + n + 2) - 1 = a + n + 1
      BY <1>2, <1>3, <1>4
    <2>2. content = SubSeq(t, 1 + 1, a + n + 1)
      BY <1>5, <2>1
    <2>3. /\ SubSeq(t, 1 + 1, a + n + 1) \in Text
          /\ Len(SubSeq(t, 1 + 1, a + n + 1)) = (a + n + 1) - 1
          /\ \A i \in 1..((a + n + 1) - 1) : SubSeq(t, 1 + 1, a + n + 1)[i] = t[1 + i]
      <3> DEFINE e == a + n + 1
      <3>1. e \in 0..Len(t) /\ 1 <= e /\ 1 \in Nat
        BY <2>1
      <3> HIDE DEF e
      <3>2. /\ SubSeq(t, 1 + 1, e) \in Text
            /\ Len(SubSeq(t, 1 + 1, e)) = e - 1
            /\ \A i \in 1..(e - 1) : SubSeq(t, 1 + 1, e)[i] = t[1 + i]
        BY <1>4, <3>1, SubTextPlaces
      <3>3. QED
        BY <3>2 DEF e
    <2> HIDE DEF content
    <2>4. QED
      BY <2>1, <2>2, <2>3
  <1> HIDE DEF content
  <1>7. t # NoText /\ content # NoText
    <2>1. Len(t) # 0 /\ Len(content) # 0
      BY <1>2, <1>3, <1>4, <1>6
    <2>2. QED
      BY <1>1, <2>1 DEF NoText
  <1>8. StripFence(t) = IF content[1] = "json" THEN Tail(content) ELSE content
    <2>1. last # 1
      BY <1>2, <1>3, <1>5
    <2>2. StripFence(t) = IF t = NoText \/ t[1] # "fence" \/ last = 1 THEN t
                          ELSE IF content # NoText /\ content[1] = "json" THEN Tail(content)
                          ELSE content
      BY DEF StripFence, fences, last, content
    <2>3. QED
      BY <1>4, <1>7, <2>1, <2>2
  <1>9. CASE a = 0
    <2>1. \A i \in 1..n : content[i] = body[i]
      <3>1. \A i \in 1..n : t[1 + i] = body[i]
        BY <1>4, <1>9
      <3>2. QED
        BY <1>6, <1>9, <3>1
    <2>2. content = body
      BY <1>6, <1>9, <2>1, SeqEqual DEF Text
    <2>3. QED
      BY <1>8, <2>2 DEF t
  <1>10. CASE a = 1
    <2>1. content[1] = "json"
      <3>1. 1 \in 1..(a + n)
        BY <1>3, <1>10
      <3>2. QED
        BY <1>4, <1>6, <1>10, <3>1
    <2>2. /\ Tail(content) \in Text /\ Len(Tail(content)) = n
          /\ \A i \in 1..n : Tail(content)[i] = body[i]
      <3>1. /\ Tail(content) \in Text /\ Len(Tail(content)) = Len(content) - 1
            /\ \A i \in 1..Len(Tail(content)) : Tail(content)[i] = content[i + 1]
        BY <1>6, <1>7, HeadTailProperties DEF Text, NoText
      <3>2. Len(Tail(content)) = n
        BY <1>3, <1>6, <1>10, <3>1
      <3>3. ASSUME NEW i \in 1..n PROVE Tail(content)[i] = body[i]
        <4>1. i + 1 \in 1..(a + n) /\ 1 + (i + 1) = 1 + a + i
          BY <1>3, <1>10
        <4>2. QED
          BY <1>4, <1>6, <3>1, <3>2, <4>1
      <3>4. QED
        BY <3>1, <3>2, <3>3
    <2>3. Tail(content) = body
      BY <2>2, SeqEqual DEF Text
    <2>4. QED
      BY <1>8, <2>1, <2>3 DEF t
  <1>11. QED
    BY <1>2, <1>9, <1>10

-----------------------------------------------------------------------------
(* How a machine reads the text of a document, part by part.  *)

LEMMA Tokens ==
  /\ {"lbrace", "rbrace", "lbracket", "rbracket", "comma", "colon", "quote", "backslash",
      "newline", "n", "word", "fence", "json"} \subseteq Token
  /\ \A c \in Token : <<c>> \in Text /\ Len(<<c>>) = 1 /\ <<c>>[1] = c
  /\ <<>> \in Text
  <1>1. {"lbrace", "rbrace", "lbracket", "rbracket", "comma", "colon", "quote", "backslash",
         "newline", "n", "word", "fence", "json"} \subseteq Token
    BY DEF Token
  <1>2. ASSUME NEW c \in Token PROVE <<c>> \in Text /\ Len(<<c>>) = 1 /\ <<c>>[1] = c
    BY SingleSeq DEF Text
  <1>3. <<>> \in Text
    BY EmptySeq DEF Text
  <1>4. QED
    BY <1>1, <1>2, <1>3

LEMMA TokenScan ==
  ASSUME NEW k, NEW s, NEW e, NEW c \in Token, Move(k, s, c, e, <<c>>)
  PROVE  Scans(k, <<c>>, s, e, <<c>>)
  <1>1. <<c>> \in Text
    BY Tokens
  <1>2. QED
    BY <1>1, ScanOne

LEMMA TwoTokens ==
  ASSUME NEW c \in Token, NEW d \in Token
  PROVE  <<c, d>> = Cat(<<c>>, <<d>>)
  <1> DEFINE first == <<c>>  second == <<d>>  both == <<c, d>>
  <1>1. /\ first \in Text /\ Len(first) = 1 /\ first[1] = c
        /\ second \in Text /\ Len(second) = 1 /\ second[1] = d
    BY Tokens
  <1>2. both \in Text /\ Len(both) = 2 /\ both[1] = c /\ both[2] = d
    BY ShortTexts DEF Text
  <1> HIDE DEF first, second, both
  <1>3. /\ Cat(first, second) \in Text /\ Len(Cat(first, second)) = 2
        /\ Cat(first, second)[1] = c /\ Cat(first, second)[2] = d
    <2>1. /\ Cat(first, second) \in Text
          /\ Len(Cat(first, second)) = Len(first) + Len(second)
          /\ \A i \in 1..Len(first) : Cat(first, second)[i] = first[i]
          /\ \A i \in 1..Len(second) : Cat(first, second)[Len(first) + i] = second[i]
      BY <1>1, CatPlaces
    <2>2. 1 \in 1..1 /\ 1 + 1 = 2
      OBVIOUS
    <2>3. QED
      BY <1>1, <2>1, <2>2
  <1>4. \A i \in 1..2 : both[i] = Cat(first, second)[i]
    <2>1. \A i \in 1..2 : i \in {1, 2}
      OBVIOUS
    <2>2. QED
      BY <1>2, <1>3, <2>1
  <1>5. both = Cat(first, second)
    BY <1>2, <1>3, <1>4, SeqEqual DEF Text
  <1>6. QED
    BY <1>5 DEF first, second, both

LEMMA NameParts ==
  Name = Cat(Cat(<<"quote", "word">>, <<"quote">>), <<"colon">>)
  BY DEF Cat, Name

\* Machine k reads a name from state s, through a and b, to e.
LEMMA NameScan ==
  ASSUME NEW k, NEW s, NEW a, NEW b, NEW e,
         Move(k, s, "quote", a, <<"quote">>), Move(k, a, "word", a, <<"word">>),
         Move(k, a, "quote", b, <<"quote">>), Move(k, b, "colon", e, <<"colon">>)
  PROVE  Scans(k, Name, s, e, Name)
  <1>1. "quote" \in Token /\ "word" \in Token /\ "colon" \in Token
    BY Tokens
  <1>2. Scans(k, <<"quote">>, s, a, <<"quote">>)
    BY <1>1, TokenScan
  <1>3. Scans(k, <<"word">>, a, a, <<"word">>)
    BY <1>1, TokenScan
  <1>4. Scans(k, <<"quote">>, a, b, <<"quote">>)
    BY <1>1, TokenScan
  <1>5. Scans(k, <<"colon">>, b, e, <<"colon">>)
    BY <1>1, TokenScan
  <1>6. Scans(k, Cat(<<"quote">>, <<"word">>), s, a, Cat(<<"quote">>, <<"word">>))
    BY <1>2, <1>3, ScanCat
  <1>7. Cat(<<"quote">>, <<"word">>) = <<"quote", "word">>
    BY <1>1, TwoTokens
  <1> DEFINE q == <<"quote", "word">>
             r == Cat(q, <<"quote">>)
  <1>8. Scans(k, q, s, a, q)
    BY <1>6, <1>7
  <1> HIDE DEF q
  <1>9. Scans(k, r, s, b, r)
    BY <1>4, <1>8, ScanCat
  <1> HIDE DEF r
  <1>10. Scans(k, Cat(r, <<"colon">>), s, e, Cat(r, <<"colon">>))
    BY <1>5, <1>9, ScanCat
  <1>11. Name = Cat(r, <<"colon">>)
    BY NameParts DEF q, r
  <1>12. QED
    BY <1>10, <1>11

\* Machine k reads a string in state b, behind a backslash in state x, and writes its
\* line breaks as a model does that is careless (clean = TRUE) or careful.
InString(k, b, x, raw, clean) ==
  /\ Move(k, b, "backslash", x, <<"backslash">>)
  /\ \A c \in {"quote", "backslash", "n"} : Move(k, x, c, b, <<c>>)
  /\ \A c \in Characters \ {"quote", "backslash", "newline"} : Move(k, b, c, b, <<c>>)
  /\ raw => Move(k, b, "newline", b, Escaped("newline", clean))
  /\ ~raw => ~clean

LEMMA EscapedScan ==
  ASSUME NEW k, NEW b, NEW x, NEW raw \in BOOLEAN, NEW clean \in BOOLEAN,
         InString(k, b, x, raw, clean), NEW c \in Characters
  PROVE  Scans(k, Escaped(c, raw), b, b, Escaped(c, clean))
  <1>1. c \in Token /\ "backslash" \in Token /\ "n" \in Token /\ "newline" \in Token
    BY Tokens DEF Characters
  <1>2. ASSUME NEW d \in {"quote", "backslash", "n"}, d \in Token
        PROVE  Scans(k, <<"backslash", d>>, b, b, <<"backslash", d>>)
    <2>1. Scans(k, <<"backslash">>, b, x, <<"backslash">>)
      BY <1>1, TokenScan DEF InString
    <2>2. Scans(k, <<d>>, x, b, <<d>>)
      BY <1>2, TokenScan DEF InString
    <2>3. Scans(k, Cat(<<"backslash">>, <<d>>), b, b, Cat(<<"backslash">>, <<d>>))
      BY <2>1, <2>2, ScanCat
    <2>4. Cat(<<"backslash">>, <<d>>) = <<"backslash", d>>
      BY <1>1, <1>2, TwoTokens
    <2>5. QED
      BY <2>3, <2>4
  <1>3. CASE c \in {"quote", "backslash"}
    <2>1. Escaped(c, raw) = <<"backslash", c>> /\ Escaped(c, clean) = <<"backslash", c>>
      BY <1>3 DEF Escaped
    <2>2. QED
      BY <1>1, <1>2, <1>3, <2>1
  <1>4. CASE c = "newline" /\ ~raw
    <2>1. ~clean
      BY <1>4 DEF InString
    <2>2. Escaped(c, raw) = <<"backslash", "n">> /\ Escaped(c, clean) = <<"backslash", "n">>
      BY <1>4, <2>1 DEF Escaped
    <2>3. QED
      BY <1>1, <1>2, <2>2
  <1>5. CASE c = "newline" /\ raw
    <2>1. Escaped(c, raw) = <<c>>
      BY <1>5 DEF Escaped
    <2>2. Escaped(c, clean) \in Text
      <3>1. Escaped(c, clean) = <<"newline">> \/ Escaped(c, clean) = <<"backslash", "n">>
        BY <1>5 DEF Escaped
      <3>2. <<"newline">> \in Text /\ <<"backslash", "n">> \in Text
        BY <1>1, SingleSeq, ShortTexts DEF Text
      <3>3. QED
        BY <3>1, <3>2
    <2>3. Move(k, b, c, b, Escaped(c, clean))
      BY <1>5 DEF InString
    <2>4. QED
      BY <1>1, <2>1, <2>2, <2>3, ScanOne
  <1>6. CASE c \notin {"quote", "backslash", "newline"}
    <2>1. Escaped(c, raw) = <<c>> /\ Escaped(c, clean) = <<c>>
      BY <1>6 DEF Escaped
    <2>2. Move(k, b, c, b, <<c>>)
      BY <1>6 DEF InString
    <2>3. Scans(k, <<c>>, b, b, <<c>>)
      BY <1>1, <2>2, TokenScan
    <2>4. QED
      BY <2>1, <2>3
  <1>7. QED
    BY <1>3, <1>4, <1>5, <1>6

\* A string is read from quotation mark to quotation mark, whatever is in it.
LEMMA QuotedScan ==
  ASSUME NEW k, NEW s, NEW b, NEW x, NEW e, NEW raw \in BOOLEAN, NEW clean \in BOOLEAN,
         Move(k, s, "quote", b, <<"quote">>), Move(k, b, "quote", e, <<"quote">>),
         InString(k, b, x, raw, clean), NEW string \in Seq(Characters)
  PROVE  Scans(k, Quoted(string, raw), s, e, Quoted(string, clean))
  <1> DEFINE n == Len(string)
             p == [i \in 1..n |-> Escaped(string[i], raw)]
             q == [i \in 1..n |-> Escaped(string[i], clean)]
             st == [i \in 0..n |-> b]
  <1>1. n \in Nat /\ \A i \in 1..n : string[i] \in Characters
    BY LenProperties, ElementOfSeq
  <1>2. \A i \in 1..n : Scans(k, p[i], st[i - 1], st[i], q[i])
    <2> TAKE i \in 1..n
    <2>1. Scans(k, Escaped(string[i], raw), b, b, Escaped(string[i], clean))
      BY <1>1, EscapedScan
    <2>2. st[i - 1] = b /\ st[i] = b
      BY <1>1
    <2>3. QED
      BY <2>1, <2>2
  <1>3. p = [i \in 1..n |-> p[i]] /\ q = [i \in 1..n |-> q[i]]
    OBVIOUS
  <1>4. st[0] = b /\ st[n] = b
    BY <1>1
  <1> DEFINE inner == FlattenSeq(p)
             outer == FlattenSeq(q)
  <1> HIDE DEF p, q, st
  <1>5. Scans(k, inner, b, b, outer)
    <2>1. Scans(k, FlattenSeq(p), st[0], st[n], FlattenSeq(q))
      BY <1>1, <1>2, <1>3, ScanChain
    <2>2. QED
      BY <1>4, <2>1
  <1>6. Quoted(string, raw) = Cat(Cat(<<"quote">>, inner), <<"quote">>)
    BY DEF Quoted, Cat, inner, p
  <1>7. Quoted(string, clean) = Cat(Cat(<<"quote">>, outer), <<"quote">>)
    BY DEF Quoted, Cat, outer, q
  <1> HIDE DEF inner, outer
  <1>8. "quote" \in Token
    BY Tokens
  <1>9. Scans(k, <<"quote">>, s, b, <<"quote">>)
    BY <1>8, TokenScan
  <1>10. Scans(k, <<"quote">>, b, e, <<"quote">>)
    BY <1>8, TokenScan
  <1>11. Scans(k, Cat(<<"quote">>, inner), s, b, Cat(<<"quote">>, outer))
    BY <1>5, <1>9, ScanCat
  <1>12. Scans(k, Cat(Cat(<<"quote">>, inner), <<"quote">>), s, e,
               Cat(Cat(<<"quote">>, outer), <<"quote">>))
    BY <1>10, <1>11, ScanCat
  <1>13. QED
    BY <1>6, <1>7, <1>12

ReadsStrings(k, s, e, raw, clean) ==
  \A string \in Seq(Characters) : Scans(k, Quoted(string, raw), s, e, Quoted(string, clean))

Items(items, raw) ==
  FlattenSeq([i \in 1..Len(items) |->
                Cat(IF i = 1 THEN <<>> ELSE <<"comma">>, Quoted(items[i], raw))])

\* From state s machine k reads the strings of an array; state e is after a string, m
\* after a comma.
LEMMA ItemsScan ==
  ASSUME NEW k, NEW s, NEW e, NEW m, NEW raw, NEW clean,
         ReadsStrings(k, s, e, raw, clean), ReadsStrings(k, m, e, raw, clean),
         Scans(k, <<"comma">>, e, m, <<"comma">>),
         NEW items \in Seq(Seq(Characters))
  PROVE  Scans(k, Items(items, raw), s, IF items = <<>> THEN s ELSE e, Items(items, clean))
  <1> DEFINE n == Len(items)
             p == [i \in 1..n |-> Cat(IF i = 1 THEN <<>> ELSE <<"comma">>, Quoted(items[i], raw))]
             q == [i \in 1..n |-> Cat(IF i = 1 THEN <<>> ELSE <<"comma">>, Quoted(items[i], clean))]
             st == [i \in 0..n |-> IF i = 0 THEN s ELSE e]
  <1>1. n \in Nat /\ \A i \in 1..n : items[i] \in Seq(Characters)
    BY LenProperties, ElementOfSeq
  <1>2. ASSUME NEW i \in 1..n PROVE Scans(k, p[i], st[i - 1], st[i], q[i])
    <2>1. st[i] = e /\ st[i - 1] = IF i = 1 THEN s ELSE e
      BY <1>1
    <2>2. /\ p[i] = Cat(IF i = 1 THEN <<>> ELSE <<"comma">>, Quoted(items[i], raw))
          /\ q[i] = Cat(IF i = 1 THEN <<>> ELSE <<"comma">>, Quoted(items[i], clean))
      OBVIOUS
    <2> HIDE DEF p, q, st
    <2>3. CASE i = 1
      <3>1. Scans(k, <<>>, s, s, <<>>)
        BY ScanEmpty
      <3>2. Scans(k, Quoted(items[i], raw), s, e, Quoted(items[i], clean))
        BY <1>1 DEF ReadsStrings
      <3>3. Scans(k, Cat(<<>>, Quoted(items[i], raw)), s, e, Cat(<<>>, Quoted(items[i], clean)))
        BY <3>1, <3>2, ScanCat
      <3>4. QED
        BY <2>1, <2>2, <2>3, <3>3
    <2>4. CASE i # 1
      <3>1. Scans(k, Quoted(items[i], raw), m, e, Quoted(items[i], clean))
        BY <1>1 DEF ReadsStrings
      <3>2. Scans(k, Cat(<<"comma">>, Quoted(items[i], raw)), e, e,
                  Cat(<<"comma">>, Quoted(items[i], clean)))
        BY <3>1, ScanCat
      <3>3. QED
        BY <2>1, <2>2, <2>4, <3>2
    <2>5. QED
      BY <2>3, <2>4
  <1>3. p = [i \in 1..n |-> p[i]] /\ q = [i \in 1..n |-> q[i]]
    OBVIOUS
  <1>4. st[0] = s /\ st[n] = IF items = <<>> THEN s ELSE e
    <2>1. n = 0 <=> items = <<>>
      BY EmptySeq
    <2>2. QED
      BY <1>1, <2>1
  <1>5. Items(items, raw) = FlattenSeq(p) /\ Items(items, clean) = FlattenSeq(q)
    BY DEF Items
  <1> HIDE DEF p, q, st
  <1>6. Scans(k, FlattenSeq(p), st[0], st[n], FlattenSeq(q))
    BY <1>1, <1>2, <1>3, ScanChain
  <1>7. QED
    BY <1>4, <1>5, <1>6

Document == [items : Seq(Seq(Characters)), note : Seq(Characters)]

Mark(stray) == IF stray THEN <<"quote">> ELSE <<>>

\* Machine k reads the text of any document, being in the states at at its landmarks.
ReadsText(k, at, raw, stray, clean, tidy) ==
  /\ Scans(k, <<"lbrace">>, at.start, at.object, <<"lbrace">>)
  /\ Scans(k, Name, at.object, at.named, Name)
  /\ Scans(k, <<"lbracket">>, at.named, at.array, <<"lbracket">>)
  /\ ReadsStrings(k, at.array, at.item, raw, clean)
  /\ Scans(k, <<"comma">>, at.item, at.more, <<"comma">>)
  /\ ReadsStrings(k, at.more, at.item, raw, clean)
  /\ Scans(k, <<"rbracket">>, at.array, at.closed, <<"rbracket">>)
  /\ Scans(k, <<"rbracket">>, at.item, at.closed, <<"rbracket">>)
  /\ Scans(k, Mark(stray), at.closed, at.marked, Mark(tidy))
  /\ Scans(k, <<"comma">>, at.marked, at.second, <<"comma">>)
  /\ Scans(k, Name, at.second, at.renamed, Name)
  /\ ReadsStrings(k, at.renamed, at.noted, raw, clean)
  /\ Scans(k, <<"rbrace">>, at.noted, at.end, <<"rbrace">>)

TextIs(doc, raw, stray) ==
  Cat(Cat(Cat(Cat(Cat(Cat(Cat(Cat(Cat(<<"lbrace">>, Name), <<"lbracket">>), Items(doc.items, raw)),
    <<"rbracket">>), Mark(stray)), <<"comma">>), Name), Quoted(doc.note, raw)), <<"rbrace">>)

LEMMA TextParts ==
  ASSUME NEW doc, NEW raw, NEW stray
  PROVE  TextOf(doc, raw, stray) = TextIs(doc, raw, stray)
  BY DEF TextOf, TextIs, Items, Mark, Cat

\* A machine that reads the parts of a text reads the text.
LEMMA TextScan ==
  ASSUME NEW k, NEW at, NEW raw, NEW stray, NEW clean, NEW tidy,
         ReadsText(k, at, raw, stray, clean, tidy), NEW doc \in Document
  PROVE  Scans(k, TextOf(doc, raw, stray), at.start, at.end, TextOf(doc, clean, tidy))
  <1> DEFINE itemsIn == Items(doc.items, raw)    itemsOut == Items(doc.items, clean)
             noteIn == Quoted(doc.note, raw)     noteOut == Quoted(doc.note, clean)
             full == IF doc.items = <<>> THEN at.array ELSE at.item
  <1>1. doc.items \in Seq(Seq(Characters)) /\ doc.note \in Seq(Characters)
    BY DEF Document
  <1>2. Scans(k, itemsIn, at.array, full, itemsOut)
    BY <1>1, ItemsScan DEF ReadsText
  <1>3. Scans(k, noteIn, at.renamed, at.noted, noteOut)
    BY <1>1 DEF ReadsText, ReadsStrings
  <1>4. Scans(k, <<"rbracket">>, full, at.closed, <<"rbracket">>)
    BY DEF ReadsText
  <1>5. /\ Scans(k, <<"lbrace">>, at.start, at.object, <<"lbrace">>)
        /\ Scans(k, Name, at.object, at.named, Name)
        /\ Scans(k, <<"lbracket">>, at.named, at.array, <<"lbracket">>)
        /\ Scans(k, Mark(stray), at.closed, at.marked, Mark(tidy))
        /\ Scans(k, <<"comma">>, at.marked, at.second, <<"comma">>)
        /\ Scans(k, Name, at.second, at.renamed, Name)
        /\ Scans(k, <<"rbrace">>, at.noted, at.end, <<"rbrace">>)
    BY DEF ReadsText
  <1>6. /\ TextOf(doc, raw, stray) = TextIs(doc, raw, stray)
        /\ TextOf(doc, clean, tidy) = TextIs(doc, clean, tidy)
    BY TextParts
  <1> DEFINE in1 == Cat(<<"lbrace">>, Name)    out1 == Cat(<<"lbrace">>, Name)
             in2 == Cat(in1, <<"lbracket">>)   out2 == Cat(out1, <<"lbracket">>)
             in3 == Cat(in2, itemsIn)          out3 == Cat(out2, itemsOut)
             in4 == Cat(in3, <<"rbracket">>)   out4 == Cat(out3, <<"rbracket">>)
             in5 == Cat(in4, Mark(stray))      out5 == Cat(out4, Mark(tidy))
             in6 == Cat(in5, <<"comma">>)      out6 == Cat(out5, <<"comma">>)
             in7 == Cat(in6, Name)             out7 == Cat(out6, Name)
             in8 == Cat(in7, noteIn)           out8 == Cat(out7, noteOut)
             in9 == Cat(in8, <<"rbrace">>)     out9 == Cat(out8, <<"rbrace">>)
  <1>7. TextIs(doc, raw, stray) = in9 /\ TextIs(doc, clean, tidy) = out9
    BY DEF TextIs
  <1> HIDE DEF itemsIn, itemsOut, noteIn, noteOut, full
  <1>8. Scans(k, in1, at.start, at.named, out1)
    BY <1>5, ScanCat
  <1> HIDE DEF in1, out1
  <1>9. Scans(k, in2, at.start, at.array, out2)
    BY <1>5, <1>8, ScanCat
  <1> HIDE DEF in2, out2
  <1>10. Scans(k, in3, at.start, full, out3)
    BY <1>2, <1>9, ScanCat
  <1> HIDE DEF in3, out3
  <1>11. Scans(k, in4, at.start, at.closed, out4)
    BY <1>4, <1>10, ScanCat
  <1> HIDE DEF in4, out4
  <1>12. Scans(k, in5, at.start, at.marked, out5)
    BY <1>5, <1>11, ScanCat
  <1> HIDE DEF in5, out5
  <1>13. Scans(k, in6, at.start, at.second, out6)
    BY <1>5, <1>12, ScanCat
  <1> HIDE DEF in6, out6
  <1>14. Scans(k, in7, at.start, at.renamed, out7)
    BY <1>5, <1>13, ScanCat
  <1> HIDE DEF in7, out7
  <1>15. Scans(k, in8, at.start, at.noted, out8)
    BY <1>3, <1>14, ScanCat
  <1> HIDE DEF in8, out8
  <1>16. Scans(k, in9, at.start, at.end, out9)
    BY <1>5, <1>15, ScanCat
  <1> HIDE DEF in9, out9
  <1>17. QED
    BY <1>6, <1>7, <1>16

\* The machine that takes stray quotation marks out.
QuotesAt(stray) ==
  [start |-> "out", object |-> "out", named |-> "out", array |-> "out", item |-> "out",
   more |-> "out", closed |-> "close", marked |-> IF stray THEN "stray" ELSE "close",
   second |-> "out", renamed |-> "out", noted |-> "out", end |-> "out"]

LEMMA QuotesRead ==
  ASSUME NEW raw \in BOOLEAN, NEW stray \in BOOLEAN
  PROVE  ReadsText("quotes", QuotesAt(stray), raw, stray, raw, FALSE)
  <1> DEFINE at == QuotesAt(stray)
  <1>1. /\ at.start = "out" /\ at.object = "out" /\ at.named = "out" /\ at.array = "out"
        /\ at.item = "out" /\ at.more = "out" /\ at.closed = "close"
        /\ at.marked = (IF stray THEN "stray" ELSE "close")
        /\ at.second = "out" /\ at.renamed = "out" /\ at.noted = "out" /\ at.end = "out"
    BY DEF QuotesAt
  <1> HIDE DEF at
  <1>2. /\ Move("quotes", "out", "quote", "in", <<"quote">>)
        /\ Move("quotes", "in", "word", "in", <<"word">>)
        /\ Move("quotes", "in", "quote", "out", <<"quote">>)
        /\ Move("quotes", "out", "colon", "out", <<"colon">>)
        /\ Move("quotes", "out", "lbrace", "out", <<"lbrace">>)
        /\ Move("quotes", "out", "rbrace", "out", <<"rbrace">>)
        /\ Move("quotes", "out", "lbracket", "out", <<"lbracket">>)
        /\ Move("quotes", "out", "comma", "out", <<"comma">>)
        /\ Move("quotes", "out", "rbracket", "close", <<"rbracket">>)
        /\ Move("quotes", "close", "comma", "out", <<"comma">>)
        /\ Move("quotes", "stray", "comma", "out", <<"comma">>)
        /\ Move("quotes", "close", "quote", "stray", <<>>)
    BY DEF Move, QuoteMove, StringMove
  <1>3. InString("quotes", "in", "escape", raw, raw)
    BY DEF InString, Move, QuoteMove, StringMove, Escaped
  <1>4. ReadsStrings("quotes", "out", "out", raw, raw)
    BY <1>2, <1>3, QuotedScan DEF ReadsStrings
  <1>5. Scans("quotes", Name, "out", "out", Name)
    BY <1>2, NameScan
  <1>6. /\ "lbrace" \in Token /\ "rbrace" \in Token /\ "lbracket" \in Token
        /\ "rbracket" \in Token /\ "comma" \in Token /\ "quote" \in Token /\ <<>> \in Text
    BY Tokens
  <1>7. /\ Scans("quotes", <<"lbrace">>, "out", "out", <<"lbrace">>)
        /\ Scans("quotes", <<"rbrace">>, "out", "out", <<"rbrace">>)
        /\ Scans("quotes", <<"lbracket">>, "out", "out", <<"lbracket">>)
        /\ Scans("quotes", <<"comma">>, "out", "out", <<"comma">>)
        /\ Scans("quotes", <<"rbracket">>, "out", "close", <<"rbracket">>)
        /\ Scans("quotes", <<"comma">>, "close", "out", <<"comma">>)
        /\ Scans("quotes", <<"comma">>, "stray", "out", <<"comma">>)
    BY <1>2, <1>6, TokenScan
  <1>8. Scans("quotes", Mark(stray), at.closed, at.marked, Mark(FALSE))
    <2>1. Mark(FALSE) = <<>> /\ Mark(stray) = IF stray THEN <<"quote">> ELSE <<>>
      BY DEF Mark
    <2>2. CASE stray
      <3>1. Scans("quotes", <<"quote">>, "close", "stray", <<>>)
        BY <1>2, <1>6, ScanOne
      <3>2. QED
        BY <1>1, <2>1, <2>2, <3>1
    <2>3. CASE ~stray
      <3>1. Scans("quotes", <<>>, "close", "close", <<>>)
        BY ScanEmpty
      <3>2. QED
        BY <1>1, <2>1, <2>3, <3>1
    <2>4. QED
      BY <2>2, <2>3
  <1>9. Scans("quotes", <<"comma">>, at.marked, at.second, <<"comma">>)
    BY <1>1, <1>7
  <1>10. QED
    BY <1>1, <1>4, <1>5, <1>7, <1>8, <1>9 DEF ReadsText, at

\* The machine that escapes line breaks, in a text without stray marks.
CharsAt ==
  [start |-> "out", object |-> "out", named |-> "out", array |-> "out", item |-> "out",
   more |-> "out", closed |-> "out", marked |-> "out", second |-> "out", renamed |-> "out",
   noted |-> "out", end |-> "out"]

LEMMA NoMark ==
  ASSUME NEW k, NEW s
  PROVE  Scans(k, Mark(FALSE), s, s, Mark(FALSE))
  BY ScanEmpty DEF Mark

LEMMA CharsRead ==
  ASSUME NEW raw \in BOOLEAN
  PROVE  ReadsText("chars", CharsAt, raw, FALSE, FALSE, FALSE)
  <1> DEFINE at == CharsAt
  <1>1. /\ at.start = "out" /\ at.object = "out" /\ at.named = "out" /\ at.array = "out"
        /\ at.item = "out" /\ at.more = "out" /\ at.closed = "out" /\ at.marked = "out"
        /\ at.second = "out" /\ at.renamed = "out" /\ at.noted = "out" /\ at.end = "out"
    BY DEF CharsAt
  <1> HIDE DEF at
  <1>2. /\ \A c \in {"colon", "lbrace", "rbrace", "lbracket", "comma", "rbracket"} :
             Move("chars", "out", c, "out", <<c>>)
        /\ Move("chars", "out", "quote", "in", <<"quote">>)
        /\ Move("chars", "in", "word", "in", <<"word">>)
        /\ Move("chars", "in", "quote", "out", <<"quote">>)
    BY DEF Move, CharMove, StringMove
  <1>3. InString("chars", "in", "escape", raw, FALSE)
    BY DEF InString, Move, CharMove, StringMove, Escaped
  <1>4. ReadsStrings("chars", "out", "out", raw, FALSE)
    BY <1>2, <1>3, QuotedScan DEF ReadsStrings
  <1>5. Scans("chars", Name, "out", "out", Name)
    BY <1>2, NameScan
  <1>6. \A c \in {"lbrace", "rbrace", "lbracket", "rbracket", "comma"} :
          Scans("chars", <<c>>, "out", "out", <<c>>)
    BY <1>2, Tokens, TokenScan
  <1>7. Scans("chars", Mark(FALSE), "out", "out", Mark(FALSE))
    BY NoMark
  <1>8. QED
    BY <1>1, <1>4, <1>5, <1>6, <1>7 DEF ReadsText, at

\* The machine that finds the end of an object, in a text that is already repaired.
ObjectAt ==
  [start |-> "start", object |-> "out", named |-> "out", array |-> "out", item |-> "out",
   more |-> "out", closed |-> "out", marked |-> "out", second |-> "out", renamed |-> "out",
   noted |-> "out", end |-> "done"]

LEMMA ObjectRead == ReadsText("object", ObjectAt, FALSE, FALSE, FALSE, FALSE)
  <1> DEFINE at == ObjectAt
  <1>1. /\ at.start = "start" /\ at.object = "out" /\ at.named = "out" /\ at.array = "out"
        /\ at.item = "out" /\ at.more = "out" /\ at.closed = "out" /\ at.marked = "out"
        /\ at.second = "out" /\ at.renamed = "out" /\ at.noted = "out" /\ at.end = "done"
    BY DEF ObjectAt
  <1> HIDE DEF at
  <1>2. /\ \A c \in {"colon", "lbracket", "comma", "rbracket"} :
             Move("object", "out", c, "out", <<c>>)
        /\ Move("object", "start", "lbrace", "out", <<"lbrace">>)
        /\ Move("object", "out", "rbrace", "done", <<"rbrace">>)
        /\ Move("object", "out", "quote", "in", <<"quote">>)
        /\ Move("object", "in", "word", "in", <<"word">>)
        /\ Move("object", "in", "quote", "out", <<"quote">>)
    BY DEF Move, ObjectMove, StringMove
  <1>3. InString("object", "in", "escape", FALSE, FALSE)
    BY DEF InString, Move, ObjectMove, StringMove, Escaped
  <1>4. ReadsStrings("object", "out", "out", FALSE, FALSE)
    BY <1>2, <1>3, QuotedScan DEF ReadsStrings
  <1>5. Scans("object", Name, "out", "out", Name)
    BY <1>2, NameScan
  <1>6. /\ \A c \in {"lbracket", "rbracket", "comma"} : Scans("object", <<c>>, "out", "out", <<c>>)
        /\ Scans("object", <<"lbrace">>, "start", "out", <<"lbrace">>)
        /\ Scans("object", <<"rbrace">>, "out", "done", <<"rbrace">>)
    BY <1>2, Tokens, TokenScan
  <1>7. Scans("object", Mark(FALSE), "out", "out", Mark(FALSE))
    BY NoMark
  <1>8. QED
    BY <1>1, <1>4, <1>5, <1>6, <1>7 DEF ReadsText, at

\* The machine that reads JSON, in a text that is already repaired.
Expecting(expected, open) == [expects |-> expected, open |-> open]

JsonAt ==
  [start |-> JsonStart, object |-> Expecting("key", <<"lbrace">>),
   named |-> Expecting("value", <<"lbrace">>),
   array |-> Expecting("item", <<"lbrace", "lbracket">>),
   item |-> Expecting("next", <<"lbrace", "lbracket">>),
   more |-> Expecting("value", <<"lbrace", "lbracket">>),
   closed |-> Expecting("next", <<"lbrace">>), marked |-> Expecting("next", <<"lbrace">>),
   second |-> Expecting("name", <<"lbrace">>), renamed |-> Expecting("value", <<"lbrace">>),
   noted |-> Expecting("next", <<"lbrace">>), end |-> Expecting("next", <<>>)]

\* What leaves the brackets that are open as they are.
LEMMA JsonWithin ==
  ASSUME NEW open
  PROVE  /\ \A e \in {"value", "item"} :
              Move("json", Expecting(e, open), "quote", Expecting("string", open), <<"quote">>)
         /\ \A e \in {"key", "name"} :
              Move("json", Expecting(e, open), "quote", Expecting("in_name", open), <<"quote">>)
         /\ Move("json", Expecting("in_name", open), "word", Expecting("in_name", open), <<"word">>)
         /\ Move("json", Expecting("in_name", open), "quote", Expecting("colon", open), <<"quote">>)
         /\ Move("json", Expecting("colon", open), "colon", Expecting("value", open), <<"colon">>)
         /\ Move("json", Expecting("string", open), "quote", Expecting("next", open), <<"quote">>)
         /\ InString("json", Expecting("string", open), Expecting("escaped", open), FALSE, FALSE)
  <1>1. \A e, f : [Expecting(e, open) EXCEPT !.expects = f] = Expecting(f, open)
    BY DEF Expecting
  <1>2. \A e : Expecting(e, open).expects = e
    BY DEF Expecting
  <1>3. \A e \in {"value", "item"} :
          JsonStep(Expecting(e, open), "quote") = Expecting("string", open)
    BY <1>1, <1>2 DEF JsonStep
  <1>4. \A e \in {"key", "name"} :
          JsonStep(Expecting(e, open), "quote") = Expecting("in_name", open)
    BY <1>1, <1>2 DEF JsonStep
  <1>5. JsonStep(Expecting("in_name", open), "word") = Expecting("in_name", open)
    BY <1>1, <1>2 DEF JsonStep
  <1>6. JsonStep(Expecting("in_name", open), "quote") = Expecting("colon", open)
    BY <1>1, <1>2 DEF JsonStep
  <1>7. JsonStep(Expecting("colon", open), "colon") = Expecting("value", open)
    BY <1>1, <1>2 DEF JsonStep
  <1>8. JsonStep(Expecting("string", open), "quote") = Expecting("next", open)
    BY <1>1, <1>2 DEF JsonStep
  <1>9. JsonStep(Expecting("string", open), "backslash") = Expecting("escaped", open)
    BY <1>1, <1>2 DEF JsonStep
  <1>10. \A c \in {"quote", "backslash", "n"} :
           JsonStep(Expecting("escaped", open), c) = Expecting("string", open)
    BY <1>1, <1>2 DEF JsonStep
  <1>11. \A c \in Characters \ {"quote", "backslash", "newline"} :
           JsonStep(Expecting("string", open), c) = Expecting("string", open)
    BY <1>1, <1>2 DEF JsonStep
  <1>12. \A s, c : Move("json", s, c, JsonStep(s, c), <<c>>)
    BY DEF Move, JsonMove
  <1>13. InString("json", Expecting("string", open), Expecting("escaped", open), FALSE, FALSE)
    BY <1>9, <1>10, <1>11, <1>12 DEF InString
  <1>14. QED
    BY <1>3, <1>4, <1>5, <1>6, <1>7, <1>8, <1>12, <1>13

LEMMA Brackets ==
  /\ Append(<<>>, "lbrace") = <<"lbrace">> /\ Front(<<"lbrace">>) = <<>>
  /\ Last(<<"lbrace">>) = "lbrace" /\ <<"lbrace">> # <<>>
  /\ Append(<<"lbrace">>, "lbracket") = <<"lbrace", "lbracket">>
  /\ Front(<<"lbrace", "lbracket">>) = <<"lbrace">>
  /\ Last(<<"lbrace", "lbracket">>) = "lbracket" /\ <<"lbrace", "lbracket">> # <<>>
  <1>1. Append(<<>>, "lbrace") = <<"lbrace">>
    <2> DEFINE b == <<"lbrace">>
    <2>1. "lbrace" \in Token /\ <<>> \in Seq(Token) /\ b \in Seq(Token)
      BY Tokens DEF Text
    <2>2. Append(<<>>, "lbrace") = Cat(<<>>, b)
      BY <2>1, AppendIsConcat DEF Cat
    <2> HIDE DEF b
    <2>3. Cat(<<>>, b) = b
      BY <2>1, CatType
    <2>4. QED
      BY <2>2, <2>3, Zenon DEF b
  <1>2. Append(<<"lbrace">>, "lbracket") = <<"lbrace", "lbracket">>
    <2> DEFINE b == <<"lbrace">>
    <2>1. "lbrace" \in Token /\ "lbracket" \in Token /\ b \in Seq(Token)
      BY Tokens DEF Text
    <2>2. Cat(<<"lbrace">>, <<"lbracket">>) = <<"lbrace", "lbracket">>
      BY <2>1, TwoTokens
    <2> HIDE DEF b
    <2>3. Append(b, "lbracket") = Cat(b, <<"lbracket">>)
      BY <2>1, AppendIsConcat DEF Cat
    <2>4. QED
      BY <2>2, <2>3, Zenon DEF b
  <1>3. Last(<<"lbrace">>) = "lbrace" /\ Last(<<"lbrace", "lbracket">>) = "lbracket"
    BY DEF Last
  <1>4. <<"lbrace">> # <<>> /\ <<"lbrace", "lbracket">> # <<>>
    OBVIOUS
  <1>5. Front(<<"lbrace">>) = <<>>
    BY DEF Front
  <1>6. Front(<<"lbrace", "lbracket">>) = <<"lbrace">>
    <2> DEFINE b == <<"lbrace">>  d == <<"lbracket">>
    <2>1. /\ "lbrace" \in Token /\ "lbracket" \in Token
          /\ b \in Seq(Token) /\ d \in Seq(Token) /\ Len(b) = 1
      BY Tokens DEF Text
    <2>2. Cat(b, d) = <<"lbrace", "lbracket">>
      BY <2>1, TwoTokens
    <2>3. Front(<<"lbrace", "lbracket">>) = SubSeq(<<"lbrace", "lbracket">>, 1, 1)
      BY DEF Front
    <2> HIDE DEF b, d
    <2>4. SubSeq(b \o d, 1, 1) = SubSeq(b, 1, 1)
      <3>1. 1 \in 1..Len(b)
        BY <2>1
      <3>2. QED
        BY <2>1, <3>1, SubSeqOfConcat1, Zenon
    <2>5. SubSeq(b, 1, Len(b)) = b
      BY <2>1, SubSeqFull
    <2>6. SubSeq(Cat(b, d), 1, 1) = b
      BY <2>1, <2>4, <2>5 DEF Cat
    <2>7. QED
      BY <2>2, <2>3, <2>6 DEF b
  <1>7. QED
    BY <1>1, <1>2, <1>3, <1>4, <1>5, <1>6

\* What opens or closes one, or goes on in it.
LEMMA JsonBrackets ==
  /\ Move("json", JsonStart, "lbrace", Expecting("key", <<"lbrace">>), <<"lbrace">>)
  /\ Move("json", Expecting("value", <<"lbrace">>), "lbracket",
          Expecting("item", <<"lbrace", "lbracket">>), <<"lbracket">>)
  /\ Move("json", Expecting("next", <<"lbrace", "lbracket">>), "comma",
          Expecting("value", <<"lbrace", "lbracket">>), <<"comma">>)
  /\ Move("json", Expecting("item", <<"lbrace", "lbracket">>), "rbracket",
          Expecting("next", <<"lbrace">>), <<"rbracket">>)
  /\ Move("json", Expecting("next", <<"lbrace", "lbracket">>), "rbracket",
          Expecting("next", <<"lbrace">>), <<"rbracket">>)
  /\ Move("json", Expecting("next", <<"lbrace">>), "comma",
          Expecting("name", <<"lbrace">>), <<"comma">>)
  /\ Move("json", Expecting("next", <<"lbrace">>), "rbrace", Expecting("next", <<>>), <<"rbrace">>)
  <1> DEFINE o1 == <<"lbrace">>  o2 == <<"lbrace", "lbracket">>
  <1>1. /\ Append(<<>>, "lbrace") = o1 /\ Front(o1) = <<>> /\ Last(o1) = "lbrace" /\ o1 # <<>>
        /\ Append(o1, "lbracket") = o2 /\ Front(o2) = o1 /\ Last(o2) = "lbracket" /\ o2 # <<>>
    BY Brackets
  <1> HIDE DEF o1, o2
  <1>2. \A e, f, o : [Expecting(e, o) EXCEPT !.expects = f] = Expecting(f, o)
    BY DEF Expecting
  <1>3. \A e, o : Expecting(e, o).expects = e /\ Expecting(e, o).open = o
    BY DEF Expecting
  <1>4. /\ Opened(Expecting("value", <<>>), "lbrace") = Expecting("key", o1)
        /\ Opened(Expecting("value", o1), "lbracket") = Expecting("item", o2)
        /\ Closed(Expecting("item", o2)) = Expecting("next", o1)
        /\ Closed(Expecting("next", o2)) = Expecting("next", o1)
        /\ Closed(Expecting("next", o1)) = Expecting("next", <<>>)
    BY <1>1 DEF Opened, Closed, Expecting
  <1>5. JsonStep(Expecting("value", <<>>), "lbrace") = Expecting("key", o1)
    BY <1>3, <1>4 DEF JsonStep
  <1>6. JsonStep(Expecting("value", o1), "lbracket") = Expecting("item", o2)
    BY <1>3, <1>4 DEF JsonStep
  <1>7. JsonStep(Expecting("next", o2), "comma") = Expecting("value", o2)
    BY <1>1, <1>2, <1>3 DEF JsonStep
  <1>8. JsonStep(Expecting("item", o2), "rbracket") = Expecting("next", o1)
    BY <1>1, <1>3, <1>4 DEF JsonStep
  <1>9. JsonStep(Expecting("next", o2), "rbracket") = Expecting("next", o1)
    BY <1>1, <1>3, <1>4 DEF JsonStep
  <1>10. JsonStep(Expecting("next", o1), "comma") = Expecting("name", o1)
    BY <1>1, <1>2, <1>3 DEF JsonStep
  <1>11. JsonStep(Expecting("next", o1), "rbrace") = Expecting("next", <<>>)
    BY <1>1, <1>3, <1>4 DEF JsonStep
  <1>12. \A s, c : Move("json", s, c, JsonStep(s, c), <<c>>)
    BY DEF Move, JsonMove
  <1>13. JsonStart = Expecting("value", <<>>)
    BY DEF JsonStart, Expecting
  <1>14. QED
    BY <1>5, <1>6, <1>7, <1>8, <1>9, <1>10, <1>11, <1>12, <1>13 DEF o1, o2

LEMMA JsonRead == ReadsText("json", JsonAt, FALSE, FALSE, FALSE, FALSE)
  <1> DEFINE at == JsonAt
             o1 == <<"lbrace">>  o2 == <<"lbrace", "lbracket">>
  <1>1. /\ at.start = JsonStart /\ at.object = Expecting("key", o1)
        /\ at.named = Expecting("value", o1) /\ at.array = Expecting("item", o2)
        /\ at.item = Expecting("next", o2) /\ at.more = Expecting("value", o2)
        /\ at.closed = Expecting("next", o1) /\ at.marked = Expecting("next", o1)
        /\ at.second = Expecting("name", o1) /\ at.renamed = Expecting("value", o1)
        /\ at.noted = Expecting("next", o1) /\ at.end = Expecting("next", <<>>)
    BY DEF JsonAt
  <1>2. /\ Move("json", JsonStart, "lbrace", at.object, <<"lbrace">>)
        /\ Move("json", at.named, "lbracket", at.array, <<"lbracket">>)
        /\ Move("json", at.item, "comma", at.more, <<"comma">>)
        /\ Move("json", at.array, "rbracket", at.closed, <<"rbracket">>)
        /\ Move("json", at.item, "rbracket", at.closed, <<"rbracket">>)
        /\ Move("json", at.marked, "comma", at.second, <<"comma">>)
        /\ Move("json", at.noted, "rbrace", at.end, <<"rbrace">>)
    BY <1>1, JsonBrackets
  <1> HIDE DEF at, o1, o2
  <1>3. ASSUME NEW o, NEW e \in {"value", "item"}
        PROVE  ReadsStrings("json", Expecting(e, o), Expecting("next", o), FALSE, FALSE)
    <2>1. /\ Move("json", Expecting(e, o), "quote", Expecting("string", o), <<"quote">>)
          /\ Move("json", Expecting("string", o), "quote", Expecting("next", o), <<"quote">>)
          /\ InString("json", Expecting("string", o), Expecting("escaped", o), FALSE, FALSE)
      BY JsonWithin
    <2>2. QED
      BY <2>1, QuotedScan DEF ReadsStrings
  <1>4. ASSUME NEW o, NEW e \in {"key", "name"}
        PROVE  Scans("json", Name, Expecting(e, o), Expecting("value", o), Name)
    <2>1. /\ Move("json", Expecting(e, o), "quote", Expecting("in_name", o), <<"quote">>)
          /\ Move("json", Expecting("in_name", o), "word", Expecting("in_name", o), <<"word">>)
          /\ Move("json", Expecting("in_name", o), "quote", Expecting("colon", o), <<"quote">>)
          /\ Move("json", Expecting("colon", o), "colon", Expecting("value", o), <<"colon">>)
      BY JsonWithin
    <2>2. QED
      BY <2>1, NameScan
  <1>5. /\ "lbrace" \in Token /\ "rbrace" \in Token /\ "lbracket" \in Token
        /\ "rbracket" \in Token /\ "comma" \in Token
    BY Tokens
  <1>6. /\ Scans("json", <<"lbrace">>, at.start, at.object, <<"lbrace">>)
        /\ Scans("json", <<"lbracket">>, at.named, at.array, <<"lbracket">>)
        /\ Scans("json", <<"comma">>, at.item, at.more, <<"comma">>)
        /\ Scans("json", <<"rbracket">>, at.array, at.closed, <<"rbracket">>)
        /\ Scans("json", <<"rbracket">>, at.item, at.closed, <<"rbracket">>)
        /\ Scans("json", <<"comma">>, at.marked, at.second, <<"comma">>)
        /\ Scans("json", <<"rbrace">>, at.noted, at.end, <<"rbrace">>)
    BY <1>1, <1>2, <1>5, TokenScan
  <1>7. /\ Scans("json", Name, at.object, at.named, Name)
        /\ Scans("json", Name, at.second, at.renamed, Name)
    BY <1>1, <1>4
  <1>8. /\ ReadsStrings("json", at.array, at.item, FALSE, FALSE)
        /\ ReadsStrings("json", at.more, at.item, FALSE, FALSE)
        /\ ReadsStrings("json", at.renamed, at.noted, FALSE, FALSE)
    BY <1>1, <1>3
  <1>9. Scans("json", Mark(FALSE), at.closed, at.marked, Mark(FALSE))
    BY <1>1, NoMark
  <1>10. QED
    BY <1>6, <1>7, <1>8, <1>9 DEF ReadsText, at

\* The machine that reads how the text starts.
CalmAt ==
  [start |-> "start", object |-> "open", named |-> "out", array |-> "out", item |-> "out",
   more |-> "out", closed |-> "out", marked |-> "out", second |-> "out", renamed |-> "out",
   noted |-> "out", end |-> "out"]

LEMMA CalmRead ==
  ASSUME NEW raw \in BOOLEAN, NEW stray \in BOOLEAN
  PROVE  ReadsText("calm", CalmAt, raw, stray, raw, stray)
  <1> DEFINE at == CalmAt
  <1>1. /\ at.start = "start" /\ at.object = "open" /\ at.named = "out" /\ at.array = "out"
        /\ at.item = "out" /\ at.more = "out" /\ at.closed = "out" /\ at.marked = "out"
        /\ at.second = "out" /\ at.renamed = "out" /\ at.noted = "out" /\ at.end = "out"
    BY DEF CalmAt
  <1> HIDE DEF at
  <1>2. /\ \A c \in Characters : Move("calm", "out", c, "out", <<c>>)
        /\ Move("calm", "start", "lbrace", "open", <<"lbrace">>)
        /\ Move("calm", "open", "quote", "out", <<"quote">>)
    BY DEF Move, CalmMove, Characters
  <1>3. {"quote", "backslash", "n", "newline", "word", "colon", "lbrace", "rbrace", "lbracket",
         "comma", "rbracket"} \subseteq Characters
    BY Tokens DEF Characters
  <1>4. InString("calm", "out", "out", raw, raw)
    BY <1>2, <1>3 DEF InString, Escaped
  <1>5. ReadsStrings("calm", "out", "out", raw, raw)
    BY <1>2, <1>3, <1>4, QuotedScan DEF ReadsStrings
  <1>6. Scans("calm", Name, "out", "out", Name) /\ Scans("calm", Name, "open", "out", Name)
    BY <1>2, <1>3, NameScan
  <1>7. /\ \A c \in {"rbrace", "lbracket", "rbracket", "comma", "quote"} :
             Scans("calm", <<c>>, "out", "out", <<c>>)
        /\ Scans("calm", <<"lbrace">>, "start", "open", <<"lbrace">>)
    BY <1>2, <1>3, Tokens, TokenScan
  <1>8. Scans("calm", Mark(stray), "out", "out", Mark(stray))
    BY <1>7, ScanEmpty DEF Mark
  <1>9. QED
    BY <1>1, <1>5, <1>6, <1>7, <1>8 DEF ReadsText, at

LEMMA CalmSound ==
  ASSUME NEW t, NEW s, NEW e, NEW u, Scans("calm", t, s, e, u)
  PROVE  /\ t \in Text /\ \A i \in 1..Len(t) : t[i] # "think"
         /\ s = "start" /\ e = "out" =>
              /\ Len(t) >= 2 /\ t[1] = "lbrace" /\ t[2] = "quote"
  <1> DEFINE n == Len(t)
  <1>1. PICK f, g : f[0] = s /\ f[n] = e /\ Reads("calm", t, f, g)
    BY DEF Scans
  <1>2. t \in Text /\ n \in Nat
    BY LenProperties DEF Scans, Text
  <1>3. \A i \in 1..n : \E w : CalmMove(f[i - 1], t[i], f[i], w)
    BY <1>1 DEF Reads, Move
  <1>4. \A i \in 1..n : t[i] # "think"
    BY <1>3 DEF CalmMove
  <1>5. ASSUME s = "start", e = "out" PROVE n >= 2 /\ t[1] = "lbrace" /\ t[2] = "quote"
    <2>1. 1 \in 1..n
      BY <1>1, <1>2, <1>5
    <2>2. t[1] = "lbrace" /\ f[1] = "open"
      <3>1. \E w : CalmMove(f[1 - 1], t[1], f[1], w)
        BY <1>3, <2>1
      <3>2. QED
        BY <1>1, <1>5, <3>1 DEF CalmMove
    <2>3. 2 \in 1..n
      BY <1>1, <1>2, <1>5, <2>1, <2>2
    <2>4. t[2] = "quote"
      <3>1. \E w : CalmMove(f[2 - 1], t[2], f[2], w)
        BY <1>3, <2>3
      <3>2. QED
        BY <2>2, <3>1 DEF CalmMove
    <2>5. QED
      BY <1>2, <2>2, <2>3, <2>4
  <1>6. QED
    BY <1>2, <1>4, <1>5

-----------------------------------------------------------------------------
(* What is made of the text of a document alone.  *)

Clean(doc) == TextOf(doc, FALSE, FALSE)

LEMMA TextStarts ==
  ASSUME NEW doc \in Document, NEW raw \in BOOLEAN, NEW stray \in BOOLEAN
  PROVE  LET t == TextOf(doc, raw, stray) IN
         /\ t \in Text /\ \A i \in 1..Len(t) : t[i] # "think"
         /\ Len(t) >= 2 /\ t[1] = "lbrace" /\ t[2] = "quote"
  <1>1. Scans("calm", TextOf(doc, raw, stray), CalmAt.start, CalmAt.end, TextOf(doc, raw, stray))
    BY CalmRead, TextScan
  <1>2. CalmAt.start = "start" /\ CalmAt.end = "out"
    BY DEF CalmAt
  <1>3. QED
    BY <1>1, <1>2, CalmSound

\* With one text of a document between two others, a machine scans the three.
LEMMA ScanAround ==
  ASSUME NEW k, NEW s, NEW m, NEW n, NEW e, NEW a, NEW t, NEW u, NEW b,
         Scans(k, a, s, m, a), Scans(k, t, m, n, u), Scans(k, b, n, e, b)
  PROVE  Scans(k, Cat(Cat(a, t), b), s, e, Cat(Cat(a, u), b))
  <1>1. Scans(k, Cat(a, t), s, n, Cat(a, u))
    BY ScanCat
  <1>2. QED
    BY <1>1, ScanCat

LEMMA CleanScans ==
  ASSUME NEW doc \in Document
  PROVE  /\ Scans("json", Clean(doc), JsonStart, Expecting("next", <<>>), Clean(doc))
         /\ Scans("object", Clean(doc), "start", "done", Clean(doc))
         /\ IsJson(Clean(doc))
  <1>1. JsonAt.start = JsonStart /\ JsonAt.end = Expecting("next", <<>>)
    BY DEF JsonAt
  <1>2. ObjectAt.start = "start" /\ ObjectAt.end = "done"
    BY DEF ObjectAt
  <1>3. Scans("json", Clean(doc), JsonStart, Expecting("next", <<>>), Clean(doc))
    <2>1. Scans("json", Clean(doc), JsonAt.start, JsonAt.end, Clean(doc))
      BY JsonRead, TextScan DEF Clean
    <2>2. QED
      BY <1>1, <2>1
  <1>4. Scans("object", Clean(doc), "start", "done", Clean(doc))
    <2>1. Scans("object", Clean(doc), ObjectAt.start, ObjectAt.end, Clean(doc))
      BY ObjectRead, TextScan DEF Clean
    <2>2. QED
      BY <1>2, <2>1
  <1>5. Expecting("next", <<>>) = [expects |-> "next", open |-> <<>>]
    BY DEF Expecting
  <1>6. QED
    BY <1>3, <1>4, <1>5, JsonSound

\* A text that the machine leaves as it is, in one state from the first token on.
LEMMA VerbatimScan ==
  ASSUME NEW k, NEW s, NEW e, NEW t \in Text,
         \A i \in 1..Len(t) : Move(k, IF i = 1 THEN s ELSE e, t[i], e, <<t[i]>>)
  PROVE  Scans(k, t, s, IF t = NoText THEN s ELSE e, t)
  <1> DEFINE n == Len(t)
             f == [i \in 0..n |-> IF i = 0 THEN s ELSE e]
             g == [i \in 0..n |-> SubSeq(t, 1, i)]
  <1>1. n \in Nat /\ \A i \in 1..n : t[i] \in Token
    BY LenProperties, ElementOfSeq DEF Text
  <1>2. \A i \in 0..n : f[i] = (IF i = 0 THEN s ELSE e) /\ g[i] = SubSeq(t, 1, i)
    OBVIOUS
  <1> HIDE DEF f, g
  <1>3. g[0] = <<>> /\ g[n] = t
    <2>1. SubSeq(t, 1, 0) = <<>>
      BY SubSeqEmpty
    <2>2. SubSeq(t, 1, n) = t
      BY SubSeqFull DEF Text
    <2>3. 0 \in 0..n /\ n \in 0..n
      BY <1>1
    <2>4. QED
      BY <1>2, <2>1, <2>2, <2>3
  <1>4. \A i \in 0..n : g[i] \in Text
    <2> TAKE i \in 0..n
    <2>1. \A j \in 1..i : t[j] \in Token
      BY <1>1
    <2>2. SubSeq(t, 1, i) \in Seq(Token)
      BY <1>1, <2>1, SubSeqProperties
    <2>3. QED
      BY <1>2, <2>2 DEF Text
  <1>5. ASSUME NEW i \in 1..n
        PROVE  \E w \in Text : Move(k, f[i - 1], t[i], f[i], w) /\ g[i] = Cat(g[i - 1], w)
    <2>1. i \in 0..n /\ i - 1 \in 0..n
      BY <1>1
    <2>2. <<t[i]>> \in Text
      BY <1>1, Tokens
    <2>3. Move(k, f[i - 1], t[i], f[i], <<t[i]>>)
      BY <1>1, <1>2, <2>1
    <2>4. SubSeq(t, 1, i) = Cat(SubSeq(t, 1, i - 1), <<t[i]>>)
      <3>1. 1 \in 1..Len(t) /\ i \in 1..Len(t)
        BY <1>1
      <3>2. QED
        BY <3>1, SubSeqRecursiveSecond DEF Text, Cat
    <2>5. QED
      BY <1>2, <2>1, <2>2, <2>3, <2>4
  <1>6. Reads(k, t, f, g)
    BY <1>3, <1>4, <1>5 DEF Reads
  <1>7. f[0] = s /\ f[n] = IF t = NoText THEN s ELSE e
    <2>1. 0 \in 0..n /\ n \in 0..n /\ (n = 0 <=> t = NoText)
      BY <1>1, EmptySeq DEF Text, NoText
    <2>2. QED
      BY <1>2, <2>1
  <1>8. QED
    BY <1>3, <1>6, <1>7 DEF Scans

Plain == {"word", "newline", "fence", "json"}

LEMMA PlainScans ==
  ASSUME NEW t \in Seq(Plain)
  PROVE  /\ t \in Text /\ \A i \in 1..Len(t) : t[i] \in Plain
         /\ Scans("quotes", t, "out", "out", t) /\ Scans("chars", t, "out", "out", t)
         /\ Scans("calm", t, "out", "out", t)
  <1>1. Len(t) \in Nat /\ \A i \in 1..Len(t) : t[i] \in Plain
    BY LenProperties, ElementOfSeq
  <1>2. t \in Text
    <2>1. Plain \subseteq Token
      BY Tokens DEF Plain
    <2>2. QED
      BY <2>1, SeqMonotonic DEF Text
  <1>3. \A c \in Plain : /\ Move("quotes", "out", c, "out", <<c>>)
                         /\ Move("chars", "out", c, "out", <<c>>)
                         /\ Move("calm", "out", c, "out", <<c>>)
    BY DEF Plain, Move, QuoteMove, CharMove, CalmMove
  <1>4. \A e : (IF t = NoText THEN e ELSE e) = e
    OBVIOUS
  <1>5. QED
    BY <1>1, <1>2, <1>3, <1>4, VerbatimScan

\* Between two texts of prose, which come out as they were, the text of a document comes
\* out without its stray mark and its line breaks.
LEMMA Repaired ==
  ASSUME NEW doc \in Document, NEW raw \in BOOLEAN, NEW stray \in BOOLEAN,
         NEW a \in Seq(Plain), NEW b \in Seq(Plain)
  PROVE  RepairControlChars(RepairTrailingQuote(Cat(Cat(a, TextOf(doc, raw, stray)), b)))
           = Cat(Cat(a, Clean(doc)), b)
  <1> DEFINE t == TextOf(doc, raw, stray)  u == TextOf(doc, raw, FALSE)
  <1>1. /\ Scans("quotes", a, "out", "out", a) /\ Scans("quotes", b, "out", "out", b)
        /\ Scans("chars", a, "out", "out", a) /\ Scans("chars", b, "out", "out", b)
    BY PlainScans
  <1>2. Scans("quotes", t, "out", "out", u)
    <2>1. Scans("quotes", t, QuotesAt(stray).start, QuotesAt(stray).end, u)
      BY QuotesRead, TextScan
    <2>2. QuotesAt(stray).start = "out" /\ QuotesAt(stray).end = "out"
      BY DEF QuotesAt
    <2>3. QED
      BY <2>1, <2>2
  <1>3. Scans("chars", u, "out", "out", Clean(doc))
    <2>1. Scans("chars", u, CharsAt.start, CharsAt.end, Clean(doc))
      BY CharsRead, TextScan DEF Clean
    <2>2. CharsAt.start = "out" /\ CharsAt.end = "out"
      BY DEF CharsAt
    <2>3. QED
      BY <2>1, <2>2
  <1> HIDE DEF t, u
  <1>4. Scans("quotes", Cat(Cat(a, t), b), "out", "out", Cat(Cat(a, u), b))
    BY <1>1, <1>2, ScanAround
  <1>5. RepairTrailingQuote(Cat(Cat(a, t), b)) = Cat(Cat(a, u), b)
    BY <1>4, QuotesSound
  <1>6. Scans("chars", Cat(Cat(a, u), b), "out", "out", Cat(Cat(a, Clean(doc)), b))
    BY <1>1, <1>3, ScanAround
  <1>7. RepairControlChars(Cat(Cat(a, u), b)) = Cat(Cat(a, Clean(doc)), b)
    BY <1>6, CharsSound
  <1>8. QED
    BY <1>5, <1>7 DEF t

\* JSON that is wrong at some place is wrong.
LEMMA JsonWrong ==
  ASSUME NEW open, NEW t \in Text
  PROVE  Scans("json", t, Expecting("error", open), Expecting("error", open), t)
  <1> DEFINE s == Expecting("error", open)
  <1>1. \A e, f : [Expecting(e, open) EXCEPT !.expects = f] = Expecting(f, open)
    BY DEF Expecting
  <1>2. s.expects = "error" /\ [s EXCEPT !.expects = "error"] = s
    BY <1>1 DEF Expecting
  <1> HIDE DEF s
  <1>3. \A c : JsonStep(s, c) = s
    BY <1>2 DEF JsonStep
  <1>4. \A i \in 1..Len(t) : Move("json", s, t[i], s, <<t[i]>>)
    BY <1>3 DEF Move, JsonMove
  <1>5. Scans("json", t, s, IF t = NoText THEN s ELSE s, t)
    BY <1>4, VerbatimScan
  <1>6. QED
    BY <1>5 DEF s

LEMMA JsonWord ==
  /\ \A t \in Text : t # NoText /\ t[1] = "word" =>
       Scans("json", t, JsonStart, Expecting("error", <<>>), t)
  /\ Scans("json", <<"newline", "word">>, Expecting("next", <<>>), Expecting("error", <<>>),
           <<"newline", "word">>)
  <1> DEFINE wrong == Expecting("error", <<>>)  ended == Expecting("next", <<>>)
  <1>1. \A e, f, o : [Expecting(e, o) EXCEPT !.expects = f] = Expecting(f, o)
    BY DEF Expecting
  <1>2. \A e, o : Expecting(e, o).expects = e /\ Expecting(e, o).open = o
    BY DEF Expecting
  <1>3. JsonStart = Expecting("value", <<>>)
    BY DEF JsonStart, Expecting
  <1>4. \A c : JsonStep(wrong, c) = wrong
    BY <1>1, <1>2 DEF JsonStep
  <1>5. JsonStep(JsonStart, "word") = wrong
    BY <1>1, <1>2, <1>3 DEF JsonStep
  <1>6. JsonStep(ended, "newline") = ended
    BY <1>1, <1>2 DEF JsonStep
  <1>7. JsonStep(ended, "word") = wrong
    BY <1>1, <1>2 DEF JsonStep
  <1> HIDE DEF wrong, ended
  <1>8. \A s, c : Move("json", s, c, JsonStep(s, c), <<c>>)
    BY DEF Move, JsonMove
  <1>9. ASSUME NEW t \in Text, t # NoText, t[1] = "word"
        PROVE  Scans("json", t, JsonStart, wrong, t)
    <2>1. \A i \in 1..Len(t) :
            Move("json", IF i = 1 THEN JsonStart ELSE wrong, t[i], wrong, <<t[i]>>)
      <3> TAKE i \in 1..Len(t)
      <3>1. CASE i = 1
        BY <1>5, <1>8, <1>9, <3>1
      <3>2. CASE i # 1
        BY <1>4, <1>8, <3>2
      <3>3. QED
        BY <3>1, <3>2
    <2>2. QED
      BY <1>9, <2>1, VerbatimScan
  <1>10. Scans("json", <<"newline", "word">>, ended, wrong, <<"newline", "word">>)
    <2>1. "newline" \in Token /\ "word" \in Token
      BY Tokens
    <2>2. Move("json", ended, "newline", ended, <<"newline">>)
      BY <1>6, <1>8
    <2>3. Move("json", ended, "word", wrong, <<"word">>)
      BY <1>7, <1>8
    <2>4. Scans("json", <<"newline">>, ended, ended, <<"newline">>)
      BY <2>1, <2>2, TokenScan
    <2>5. Scans("json", <<"word">>, ended, wrong, <<"word">>)
      BY <2>1, <2>3, TokenScan
    <2>6. Scans("json", Cat(<<"newline">>, <<"word">>), ended, wrong,
                Cat(<<"newline">>, <<"word">>))
      BY <2>4, <2>5, ScanCat
    <2>7. Cat(<<"newline">>, <<"word">>) = <<"newline", "word">>
      BY <2>1, TwoTokens
    <2>8. QED
      BY <2>6, <2>7
  <1>11. QED
    BY <1>9, <1>10 DEF wrong, ended

\* What is left around an object makes it no JSON; within it, the object is found.
Around(a, b) ==
  \/ a # NoText /\ a[1] = "word"
  \/ a = NoText /\ b = <<"newline", "word">>

LEMMA ObjectFound ==
  ASSUME NEW doc \in Document, NEW a \in Seq(Plain), NEW b \in Seq(Plain), Around(a, b)
  PROVE  /\ ~IsJson(Cat(Cat(a, Clean(doc)), b))
         /\ ExtractObject(Cat(Cat(a, Clean(doc)), b)) = Clean(doc)
  <1> DEFINE c == Clean(doc)  wrong == Expecting("error", <<>>)  ended == Expecting("next", <<>>)
  <1>1. a \in Text /\ b \in Text /\ \A i \in 1..Len(a) : a[i] \in Plain
    BY PlainScans
  <1>2. Scans("json", c, JsonStart, ended, c) /\ c \in Text
    BY CleanScans DEF Scans
  <1> HIDE DEF c
  <1>3. Scans("json", Cat(Cat(a, c), b), JsonStart, wrong, Cat(Cat(a, c), b))
    <2>1. CASE a # NoText /\ a[1] = "word"
      <3>1. Scans("json", a, JsonStart, wrong, a)
        BY <1>1, <2>1, JsonWord
      <3>2. Scans("json", c, wrong, wrong, c) /\ Scans("json", b, wrong, wrong, b)
        BY <1>1, <1>2, JsonWrong
      <3>3. QED
        BY <3>1, <3>2, ScanAround
    <2>2. CASE a = NoText /\ b = <<"newline", "word">>
      <3>1. Scans("json", a, JsonStart, JsonStart, a)
        BY <2>2, ScanEmpty DEF NoText
      <3>2. Scans("json", b, ended, wrong, b)
        BY <2>2, JsonWord
      <3>3. QED
        BY <1>2, <3>1, <3>2, ScanAround
    <2>3. QED
      BY <2>1, <2>2 DEF Around
  <1>4. wrong # [expects |-> "next", open |-> <<>>]
    BY DEF Expecting
  <1>5. ~IsJson(Cat(Cat(a, c), b))
    BY <1>3, <1>4, JsonSound
  <1>6. ExtractObject(Cat(Cat(a, c), b)) = c
    <2>1. \A i \in 1..Len(a) : a[i] # "lbrace"
      BY <1>1 DEF Plain
    <2>2. Scans("object", c, "start", "done", c)
      BY CleanScans DEF c
    <2>3. QED
      BY <1>1, <2>1, <2>2, ObjectSound
  <1>7. QED
    BY <1>5, <1>6 DEF c

\* An answer whose strings are stripped of what surrounds them to the text of a document,
\* or to prose around it, is read as that document.
LEMMA LoadedIs ==
  ASSUME NEW doc \in Document, NEW raw \in BOOLEAN, NEW stray \in BOOLEAN,
         NEW a \in Seq(Plain), NEW b \in Seq(Plain), Around(a, b) \/ (a = NoText /\ b = NoText),
         NEW answer,
         StripFence(StripThinking(answer)) = Cat(Cat(a, TextOf(doc, raw, stray)), b)
  PROVE  LoadedText(answer) = Clean(doc)
  <1> DEFINE t == Cat(Cat(a, Clean(doc)), b)
  <1>1. Prepared(answer) = t
    BY Repaired DEF Prepared
  <1>2. LoadedText(answer) = IF IsJson(t) THEN t
                             ELSE IF IsJson(ExtractObject(t)) THEN ExtractObject(t) ELSE NoText
    BY <1>1 DEF LoadedText
  <1>3. IsJson(Clean(doc)) /\ Clean(doc) \in Text
    BY CleanScans DEF Scans
  <1>4. CASE Around(a, b)
    BY <1>2, <1>3, <1>4, ObjectFound
  <1>5. CASE a = NoText /\ b = NoText
    <2>1. Cat(NoText, Clean(doc)) = Clean(doc) /\ Cat(Clean(doc), NoText) = Clean(doc)
      BY <1>3, CatType DEF Text, NoText
    <2>2. t = Clean(doc)
      BY <1>5, <2>1
    <2>3. QED
      BY <1>2, <1>3, <2>2
  <1>6. QED
    BY <1>4, <1>5

-----------------------------------------------------------------------------
(* What a model writes around the text of a document.  *)

Noise ==
  [think : BOOLEAN, fence : {"none", "plain", "json"}, stray : BOOLEAN, raw : BOOLEAN,
   prose : {"none", "before", "after", "around"}]

Thought(noise) == IF noise.think THEN Thinking ELSE <<>>
Before(noise) == IF noise.prose \in {"before", "around"} THEN <<"word", "newline">> ELSE <<>>
Opening(noise) ==
  CASE noise.fence = "json" -> <<"fence", "json">>
    [] noise.fence = "plain" -> <<"fence">> [] OTHER -> <<>>
Closing(noise) == IF noise.fence # "none" THEN <<"fence">> ELSE <<>>
After(noise) == IF noise.prose \in {"after", "around"} THEN <<"newline", "word">> ELSE <<>>

LEMMA NoisyParts ==
  ASSUME NEW doc, NEW noise
  PROVE  Noisy(doc, noise) =
           Cat(Cat(Cat(Cat(Cat(Thought(noise), Before(noise)), Opening(noise)),
             TextOf(doc, noise.raw, noise.stray)), Closing(noise)), After(noise))
  BY DEF Noisy, Thought, Thinking, Before, Opening, Closing, After, Cat

LEMMA NoiseType ==
  ASSUME NEW noise
  PROVE  /\ Before(noise) \in Seq(Plain) /\ Opening(noise) \in Seq(Plain)
         /\ Closing(noise) \in Seq(Plain) /\ After(noise) \in Seq(Plain)
         /\ Thought(noise) \in Text
  <1>1. /\ "word" \in Plain /\ "newline" \in Plain /\ "fence" \in Plain /\ "json" \in Plain
        /\ "think" \in Token /\ "lbrace" \in Token /\ "quote" \in Token /\ "word" \in Token
        /\ "endthink" \in Token
    BY DEF Plain, Token
  <1>2. <<"word", "newline">> \in Seq(Plain) /\ <<"newline", "word">> \in Seq(Plain)
    BY <1>1, ShortTexts
  <1>3. <<"fence", "json">> \in Seq(Plain)
    BY <1>1, ShortTexts
  <1>4. <<"fence">> \in Seq(Plain) /\ <<>> \in Seq(Plain) /\ <<>> \in Seq(Token)
    BY <1>1, SingleSeq, EmptySeq
  <1>5. Thinking \in Seq(Token)
    BY <1>1, ShortTexts DEF Thinking
  <1>6. QED
    BY <1>2, <1>3, <1>4, <1>5 DEF Before, Opening, Closing, After, Thought, Text

Calm(s) == s \in Text /\ \A i \in 1..Len(s) : s[i] # "think"

LEMMA CalmCat ==
  ASSUME NEW s, NEW t, Calm(s), Calm(t)
  PROVE  Calm(Cat(s, t))
  <1> DEFINE n == Len(s)  m == Len(t)  u == Cat(s, t)
  <1>1. /\ u \in Text /\ n \in Nat /\ m \in Nat /\ Len(u) = n + m
        /\ \A i \in 1..n : u[i] = s[i]
        /\ \A i \in 1..m : u[n + i] = t[i]
    BY CatPlaces DEF Calm
  <1> HIDE DEF u
  <1>2. ASSUME NEW i \in 1..(n + m) PROVE u[i] # "think"
    <2>1. CASE i <= n
      BY <1>1, <2>1 DEF Calm
    <2>2. CASE ~(i <= n)
      <3>1. i - n \in 1..m /\ n + (i - n) = i
        BY <1>1, <2>2
      <3>2. u[i] = t[i - n]
        BY <1>1, <3>1
      <3>3. QED
        BY <3>1, <3>2 DEF Calm
    <2>3. QED
      BY <2>1, <2>2
  <1>3. Calm(u)
    BY <1>1, <1>2 DEF Calm
  <1>4. QED
    BY <1>3 DEF u

LEMMA CalmAfter ==
  ASSUME NEW h \in Text, NEW s, NEW t, Calm(s), Calm(t)
  PROVE  Calm(Cat(s, t)) /\ Cat(Cat(h, s), t) = Cat(h, Cat(s, t))
  <1>1. Calm(Cat(s, t))
    BY CalmCat
  <1>2. h \in Seq(Token) /\ s \in Seq(Token) /\ t \in Seq(Token)
    BY DEF Calm, Text
  <1>3. Cat(Cat(h, s), t) = Cat(h, Cat(s, t))
    BY <1>2, CatAssociates
  <1>4. QED
    BY <1>1, <1>3

\* The first token of a text stays first.
LEMMA FirstOfCat ==
  ASSUME NEW s \in Text, NEW t \in Text, s # NoText
  PROVE  Cat(s, t) \in Text /\ Cat(s, t) # NoText /\ Cat(s, t)[1] = s[1]
  <1>1. /\ Cat(s, t) \in Text /\ Len(s) \in Nat /\ Len(t) \in Nat
        /\ Len(Cat(s, t)) = Len(s) + Len(t)
        /\ \A i \in 1..Len(s) : Cat(s, t)[i] = s[i]
    BY CatPlaces
  <1>2. Len(s) # 0 /\ Len(<<>>) = 0
    BY EmptySeq DEF Text, NoText
  <1>3. 1 \in 1..Len(s) /\ Len(Cat(s, t)) # 0
    BY <1>1, <1>2
  <1>4. QED
    BY <1>1, <1>2, <1>3 DEF NoText

LEMMA ThoughtStripped ==
  ASSUME NEW doc \in Document, NEW noise \in Noise
  PROVE  StripThinking(Noisy(doc, noise)) =
           Cat(Cat(Cat(Cat(Before(noise), Opening(noise)), TextOf(doc, noise.raw, noise.stray)),
             Closing(noise)), After(noise))
  <1> DEFINE h == Thought(noise)  b == Before(noise)  o == Opening(noise)  c == Closing(noise)
             a == After(noise)    t == TextOf(doc, noise.raw, noise.stray)
             x == Cat(Cat(Cat(Cat(b, o), t), c), a)
  <1>1. Noisy(doc, noise) = Cat(Cat(Cat(Cat(Cat(h, b), o), t), c), a)
    BY NoisyParts
  <1>2. h \in Text /\ Calm(b) /\ Calm(o) /\ Calm(c) /\ Calm(a)
    <2>1. \A s \in Seq(Plain) : Calm(s)
      BY PlainScans DEF Calm, Plain
    <2>2. QED
      BY <2>1, NoiseType
  <1>3. Calm(t)
    <2>1. noise.raw \in BOOLEAN /\ noise.stray \in BOOLEAN
      BY DEF Noise
    <2>2. QED
      BY <2>1, TextStarts DEF Calm
  <1>4. h = IF noise.think THEN Thinking ELSE <<>>
    BY DEF Thought
  <1> HIDE DEF h, b, o, c, a, t
  <1> DEFINE x1 == Cat(b, o)  x2 == Cat(x1, t)  x3 == Cat(x2, c)
  <1>5. Calm(x1) /\ Cat(Cat(h, b), o) = Cat(h, x1)
    BY <1>2, CalmAfter
  <1> HIDE DEF x1
  <1>6. Calm(x2) /\ Cat(Cat(h, x1), t) = Cat(h, x2)
    BY <1>2, <1>3, <1>5, CalmAfter
  <1> HIDE DEF x2
  <1>7. Calm(x3) /\ Cat(Cat(h, x2), c) = Cat(h, x3)
    BY <1>2, <1>6, CalmAfter
  <1> HIDE DEF x3
  <1>8. x = Cat(x3, a)
    BY DEF x1, x2, x3
  <1> HIDE DEF x
  <1>9. Calm(x) /\ Cat(Cat(h, x3), a) = Cat(h, x)
    BY <1>2, <1>7, <1>8, CalmAfter
  <1>10. Noisy(doc, noise) = Cat(h, x)
    BY <1>1, <1>5, <1>6, <1>7, <1>9
  <1>11. StripThinking(Cat(h, x)) = x
    <2>1. CASE noise.think
      BY <1>4, <1>9, <2>1, OneThought DEF Calm
    <2>2. CASE ~noise.think
      <3>1. Cat(<<>>, x) = x
        BY <1>9, CatType DEF Calm, Text
      <3>2. QED
        BY <1>4, <1>9, <2>2, <3>1, NoThought DEF Calm
    <2>3. QED
      BY <2>1, <2>2
  <1>12. QED
    BY <1>10, <1>11 DEF x, h, b, o, c, a, t

\* What remains of an answer is the text of the document, with prose around it or none.
LEMMA Stripped ==
  ASSUME NEW doc \in Document, NEW noise \in Noise
  PROVE  \E a, b \in Seq(Plain) :
           /\ Around(a, b) \/ (a = NoText /\ b = NoText)
           /\ StripFence(StripThinking(Noisy(doc, noise)))
                = Cat(Cat(a, TextOf(doc, noise.raw, noise.stray)), b)
  <1> DEFINE p == Before(noise)  o == Opening(noise)  c == Closing(noise)
             q == After(noise)   t == TextOf(doc, noise.raw, noise.stray)
             x == Cat(Cat(Cat(Cat(p, o), t), c), q)
             Result(y) == \E a, b \in Seq(Plain) :
                            /\ Around(a, b) \/ (a = NoText /\ b = NoText)
                            /\ y = Cat(Cat(a, t), b)
  <1>1. StripThinking(Noisy(doc, noise)) = x
    BY ThoughtStripped
  <1>2. /\ p \in Seq(Plain) /\ o \in Seq(Plain) /\ c \in Seq(Plain) /\ q \in Seq(Plain)
        /\ p \in Text /\ o \in Text /\ c \in Text /\ q \in Text
    BY NoiseType, PlainScans
  <1>3. t \in Text /\ Len(t) >= 2 /\ t[1] = "lbrace"
    <2>1. noise.raw \in BOOLEAN /\ noise.stray \in BOOLEAN
      BY DEF Noise
    <2>2. QED
      BY <2>1, TextStarts
  <1>4. t # NoText
    <2>1. Len(<<>>) = 0
      BY EmptySeq
    <2>2. QED
      BY <1>3, <2>1 DEF NoText
  <1>5. /\ p = (IF noise.prose \in {"before", "around"} THEN <<"word", "newline">> ELSE <<>>)
        /\ q = (IF noise.prose \in {"after", "around"} THEN <<"newline", "word">> ELSE <<>>)
        /\ c = (IF noise.fence # "none" THEN <<"fence">> ELSE <<>>)
        /\ noise.fence = "json" => o = <<"fence", "json">>
        /\ noise.fence = "plain" => o = <<"fence">>
        /\ noise.fence = "none" => o = <<>>
    BY DEF Before, After, Closing, Opening
  <1>6. /\ noise.fence \in {"none", "plain", "json"}
        /\ noise.prose \in {"none", "before", "after", "around"}
    BY DEF Noise
  <1> HIDE DEF p, o, c, q, t
  <1>7. /\ NoText \in Seq(Plain) /\ NoText \in Text
        /\ \A s \in Text : Cat(NoText, s) = s /\ Cat(s, NoText) = s
    BY EmptySeq, CatType DEF NoText, Text
  <1>8. CASE noise.prose \in {"before", "around"}
    <2>1. p # NoText /\ p[1] = "word"
      BY <1>5, <1>8 DEF NoText
    <2> DEFINE a == Cat(p, o)  b == Cat(c, q)  at == Cat(a, t)
    <2>2. a \in Seq(Plain) /\ b \in Seq(Plain)
      BY <1>2, CatType
    <2>3. a \in Text /\ a # NoText /\ a[1] = "word"
      BY <1>2, <2>1, FirstOfCat
    <2> HIDE DEF a
    <2>4. at \in Text /\ at # NoText /\ at[1] = "word"
      BY <1>3, <2>3, FirstOfCat
    <2>5. x = Cat(Cat(at, c), q)
      BY DEF at, a
    <2> HIDE DEF at, x
    <2>6. Cat(Cat(at, c), q) = Cat(at, b)
      BY <1>2, <2>4, CatAssociates DEF Text
    <2>7. b \in Text
      BY <2>2, PlainScans
    <2>8. x # NoText /\ x[1] = "word"
      BY <2>4, <2>5, <2>6, <2>7, FirstOfCat
    <2>9. StripFence(x) = x
      BY <2>8, Unfenced
    <2>10. Around(a, b)
      BY <2>3 DEF Around
    <2>11. Result(StripFence(x))
      BY <2>2, <2>5, <2>6, <2>9, <2>10 DEF at
    <2>12. QED
      BY <1>1, <2>11 DEF t
  <1>9. CASE noise.prose \notin {"before", "around"} /\ noise.fence = "none"
    <2>1. p = NoText /\ o = NoText /\ c = NoText
      BY <1>5, <1>9 DEF NoText
    <2>2. q = NoText \/ q = <<"newline", "word">>
      BY <1>5 DEF NoText
    <2>3. x = Cat(t, q)
      BY <1>2, <1>3, <1>7, <2>1
    <2> HIDE DEF x
    <2>4. x # NoText /\ x[1] = "lbrace"
      BY <1>2, <1>3, <1>4, <2>3, FirstOfCat
    <2>5. StripFence(x) = x
      BY <2>4, Unfenced
    <2>6. x = Cat(Cat(NoText, t), q)
      BY <1>3, <1>7, <2>3
    <2>7. Around(NoText, q) \/ (NoText = NoText /\ q = NoText)
      BY <2>2 DEF Around
    <2>8. Result(StripFence(x))
      BY <1>2, <1>7, <2>5, <2>6, <2>7
    <2>9. QED
      BY <1>1, <2>8 DEF t
  <1>10. CASE noise.prose \notin {"before", "around"} /\ noise.fence # "none"
    <2> DEFINE fence == <<"fence">>
               language == IF noise.fence = "json" THEN <<"json">> ELSE <<>>
    <2>1. p = NoText /\ c = fence
      BY <1>5, <1>10 DEF NoText
    <2>2. o = Cat(fence, language)
      <3>1. "fence" \in Token /\ "json" \in Token /\ fence \in Text
        BY Tokens
      <3>2. Cat(<<"fence">>, <<"json">>) = <<"fence", "json">>
        BY <3>1, TwoTokens
      <3>3. Cat(fence, NoText) = fence
        BY <1>7, <3>1
      <3>4. QED
        BY <1>5, <1>6, <1>10, <3>2, <3>3, Zenon DEF NoText
    <2>3. x = Cat(Cat(Cat(o, t), c), q)
      BY <1>2, <1>7, <2>1
    <2>4. x = Cat(Cat(Cat(Cat(<<"fence">>, language), t), <<"fence">>), q)
      BY <2>1, <2>2, <2>3
    <2>5. language \in {<<>>, <<"json">>}
      OBVIOUS
    <2>6. \A i \in 1..Len(q) : q[i] # "fence"
      <3>1. "newline" \in Token /\ "word" \in Token
        BY Tokens
      <3>2. /\ Len(<<"newline", "word">>) = 2 /\ <<"newline", "word">>[1] = "newline"
            /\ <<"newline", "word">>[2] = "word"
        BY <3>1, ShortTexts
      <3>3. Len(<<>>) = 0
        BY EmptySeq
      <3>4. CASE q = <<"newline", "word">>
        <4>1. Len(q) = 2 /\ q[1] = "newline" /\ q[2] = "word"
          BY <3>2, <3>4
        <4>2. \A i \in 1..2 : i \in {1, 2}
          OBVIOUS
        <4>3. QED
          BY <4>1, <4>2
      <3>5. CASE q = <<>>
        BY <3>3, <3>5
      <3>6. QED
        BY <1>5, <3>4, <3>5
    <2> HIDE DEF x, language
    <2>7. StripFence(x) = t
      BY <1>2, <1>3, <1>4, <2>4, <2>5, <2>6, Fenced
    <2>8. t = Cat(Cat(NoText, t), NoText)
      BY <1>3, <1>7
    <2>9. Result(StripFence(x))
      BY <1>7, <2>7, <2>8
    <2>10. QED
      BY <1>1, <2>9 DEF t
  <1>11. QED
    BY <1>8, <1>9, <1>10

-----------------------------------------------------------------------------
(* The whole of parse_llm_json_output.  *)

\* Whatever a model does to the text of a document, it is read as that document.
LEMMA ParseNoisy ==
  ASSUME NEW doc \in Document, NEW noise \in Noise
  PROVE  Parse(Noisy(doc, noise)) = [error |-> Nothing, json |-> Clean(doc)]
  <1> DEFINE raw == Noisy(doc, noise)  c == Clean(doc)
  <1>1. noise.raw \in BOOLEAN /\ noise.stray \in BOOLEAN
    BY DEF Noise
  <1>2. LoadedText(raw) = c
    BY <1>1, Stripped, LoadedIs
  <1>3. c \in Text /\ Len(c) >= 2 /\ c[1] = "lbrace" /\ c[2] = "quote"
    BY TextStarts DEF Clean
  <1>4. c # NoText
    <2>1. Len(<<>>) = 0
      BY EmptySeq
    <2>2. QED
      BY <1>3, <2>1 DEF NoText
  <1>5. FitsContract(c)
    <2>1. "lbrace" \in Token /\ "rbrace" \in Token
      BY Tokens
    <2>2. <<"lbrace", "rbrace">>[2] = "rbrace"
      BY <2>1, ShortTexts
    <2>3. QED
      BY <1>3, <2>2 DEF FitsContract
  <1>6. raw # NoText
    <2>1. StripThinking(NoText) = NoText
      <3>1. NoText \in Text /\ Len(NoText) = 0
        BY EmptySeq DEF NoText, Text
      <3>2. QED
        BY <3>1, NoThought
    <2>2. StripFence(NoText) = NoText
      BY Unfenced
    <2>3. PICK a, b \in Seq(Plain) :
            StripFence(StripThinking(raw)) = Cat(Cat(a, TextOf(doc, noise.raw, noise.stray)), b)
      BY Stripped
    <2> DEFINE t == TextOf(doc, noise.raw, noise.stray)
    <2>4. t \in Text /\ Len(t) >= 2
      BY <1>1, TextStarts
    <2> HIDE DEF t
    <2>5. a \in Text /\ b \in Text
      BY PlainScans
    <2>6. /\ Cat(a, t) \in Text /\ Len(a) \in Nat /\ Len(t) \in Nat /\ Len(b) \in Nat
          /\ Len(Cat(a, t)) = Len(a) + Len(t)
      BY <2>4, <2>5, CatPlaces
    <2>7. Len(Cat(Cat(a, t), b)) = Len(Cat(a, t)) + Len(b)
      BY <2>5, <2>6, CatPlaces
    <2>8. Len(Cat(Cat(a, t), b)) # 0
      BY <2>4, <2>6, <2>7
    <2>9. Len(NoText) = 0
      BY EmptySeq DEF NoText
    <2>10. QED
      BY <2>1, <2>2, <2>3, <2>8, <2>9 DEF t
  <1> HIDE DEF raw, c
  <1>7. Parse(raw) = [error |-> Nothing, json |-> c]
    BY <1>2, <1>3, <1>4, <1>5, <1>6 DEF Parse
  <1>8. QED
    BY <1>7 DEF raw, c

\* A text that no step of the preparation changes.
LEMMA Untouched ==
  ASSUME NEW t, NEW e, NEW f, Calm(t), t = NoText \/ t[1] # "fence",
         Scans("quotes", t, "out", e, t), e # "stray", Scans("chars", t, "out", f, t)
  PROVE  Prepared(t) = t
  <1>1. StripThinking(t) = t
    BY NoThought DEF Calm
  <1>2. StripFence(t) = t
    BY Unfenced
  <1>3. RepairTrailingQuote(t) = t
    BY QuotesSound
  <1>4. RepairControlChars(t) = t
    BY CharsSound
  <1>5. QED
    BY <1>1, <1>2, <1>3, <1>4 DEF Prepared

\* Nothing is loaded from what is no JSON and closes no object.
LEMMA Silent ==
  ASSUME NEW raw, NEW t, Prepared(raw) = t, Calm(t), \A i \in 1..Len(t) : t[i] # "rbrace"
  PROVE  /\ LoadedText(raw) \in {t, NoText}
         /\ ~IsJson(t) => LoadedText(raw) = NoText
  <1>1. ExtractObject(t) = NoText
    BY NoObject DEF Calm
  <1>2. ~IsJson(NoText)
    <2>1. Scans("json", NoText, JsonStart, JsonStart, NoText)
      BY ScanEmpty DEF NoText
    <2>2. JsonStart # [expects |-> "next", open |-> <<>>]
      BY DEF JsonStart
    <2>3. QED
      BY <2>1, <2>2, JsonSound
  <1>3. LoadedText(raw) = IF IsJson(t) THEN t
                          ELSE IF IsJson(ExtractObject(t)) THEN ExtractObject(t) ELSE NoText
    BY DEF LoadedText
  <1>4. QED
    BY <1>1, <1>2, <1>3

Errors == {"empty", "not_json", "not_object", "contract"}

\* What is wrong with an answer, and when something is.
LEMMA ParseError ==
  ASSUME NEW raw
  PROVE  /\ Parse(raw).error \in Errors \cup {Nothing}
         /\ LoadedText(raw) = NoText => Parse(raw).error # Nothing
         /\ LoadedText(raw)[1] # "lbrace" => Parse(raw).error # Nothing
         /\ ~FitsContract(LoadedText(raw)) => Parse(raw).error # Nothing
  <1> DEFINE t == LoadedText(raw)
  <1>1. \/ Parse(raw) = [error |-> "empty", json |-> NoText]
        \/ Parse(raw) = [error |-> "not_json", json |-> NoText]
        \/ Parse(raw) = [error |-> "not_object", json |-> NoText]
        \/ Parse(raw) = [error |-> "contract", json |-> NoText]
        \/ /\ t # NoText /\ t[1] = "lbrace" /\ FitsContract(t)
           /\ Parse(raw) = [error |-> Nothing, json |-> t]
    <2> HIDE DEF t
    <2>1. CASE raw = NoText
      BY <2>1 DEF Parse
    <2>2. CASE raw # NoText /\ t = NoText
      BY <2>2 DEF Parse, t
    <2>3. CASE raw # NoText /\ t # NoText /\ t[1] # "lbrace"
      BY <2>3 DEF Parse, t
    <2>4. CASE raw # NoText /\ t # NoText /\ t[1] = "lbrace" /\ ~FitsContract(t)
      BY <2>4 DEF Parse, t
    <2>5. CASE raw # NoText /\ t # NoText /\ t[1] = "lbrace" /\ FitsContract(t)
      BY <2>5 DEF Parse, t
    <2>6. QED
      BY <2>1, <2>2, <2>3, <2>4, <2>5
  <1> HIDE DEF t
  <1>2. QED
    BY <1>1 DEF Errors, Nothing, t

LEMMA OneTokenCalm ==
  ASSUME NEW c \in Token, c # "think"
  PROVE  /\ Calm(<<c>>) /\ <<c>>[1] = c /\ Len(<<c>>) = 1
         /\ \A i \in 1..Len(<<c>>) : <<c>>[i] = c
  <1>1. <<c>> \in Text /\ Len(<<c>>) = 1 /\ <<c>>[1] = c
    BY Tokens
  <1>2. \A i \in 1..1 : i = 1
    OBVIOUS
  <1>3. QED
    BY <1>1, <1>2 DEF Calm

LEMMA TwoTokensCalm ==
  ASSUME NEW c \in Token, NEW d \in Token, c # "think", d # "think"
  PROVE  /\ Calm(<<c, d>>) /\ <<c, d>>[1] = c /\ Len(<<c, d>>) = 2
         /\ \A i \in 1..Len(<<c, d>>) : <<c, d>>[i] \in {c, d}
  <1>1. <<c, d>> \in Text /\ Len(<<c, d>>) = 2 /\ <<c, d>>[1] = c /\ <<c, d>>[2] = d
    BY ShortTexts DEF Text
  <1>2. \A i \in 1..2 : i \in {1, 2}
    OBVIOUS
  <1>3. QED
    BY <1>1, <1>2 DEF Calm

\* Two tokens that a machine reads one after the other.
LEMMA TwoScan ==
  ASSUME NEW k, NEW s, NEW m, NEW e, NEW c \in Token, NEW d \in Token,
         Move(k, s, c, m, <<c>>), Move(k, m, d, e, <<d>>)
  PROVE  Scans(k, <<c, d>>, s, e, <<c, d>>)
  <1>1. Scans(k, <<c>>, s, m, <<c>>)
    BY TokenScan
  <1>2. Scans(k, <<d>>, m, e, <<d>>)
    BY TokenScan
  <1>3. Scans(k, Cat(<<c>>, <<d>>), s, e, Cat(<<c>>, <<d>>))
    BY <1>1, <1>2, ScanCat
  <1>4. QED
    BY <1>3, TwoTokens

LEMMA OneUseless == Parse(<<"word">>).error # Nothing
  <1> DEFINE t == <<"word">>
  <1>1. "word" \in Token
    BY Tokens
  <1>2. /\ Move("quotes", "out", "word", "out", <<"word">>)
        /\ Move("chars", "out", "word", "out", <<"word">>)
    BY DEF Move, QuoteMove, CharMove
  <1>3. Scans("quotes", t, "out", "out", t) /\ Scans("chars", t, "out", "out", t)
    BY <1>1, <1>2, TokenScan
  <1>4. Calm(t) /\ t[1] = "word" /\ t # NoText /\ \A i \in 1..Len(t) : t[i] # "rbrace"
    <2>1. Len(NoText) = 0
      BY EmptySeq DEF NoText
    <2>2. QED
      BY <1>1, <2>1, OneTokenCalm
  <1> HIDE DEF t
  <1>5. Prepared(t) = t
    BY <1>3, <1>4, Untouched
  <1>6. LoadedText(t) \in {t, NoText}
    BY <1>4, <1>5, Silent
  <1>7. Parse(t).error # Nothing
    BY <1>4, <1>6, ParseError
  <1>8. QED
    BY <1>7 DEF t

LEMMA ArrayUseless == Parse(<<"lbracket", "rbracket">>).error # Nothing
  <1> DEFINE t == <<"lbracket", "rbracket">>
  <1>1. "lbracket" \in Token /\ "rbracket" \in Token
    BY Tokens
  <1>2. /\ Move("quotes", "out", "lbracket", "out", <<"lbracket">>)
        /\ Move("quotes", "out", "rbracket", "close", <<"rbracket">>)
        /\ Move("chars", "out", "lbracket", "out", <<"lbracket">>)
        /\ Move("chars", "out", "rbracket", "out", <<"rbracket">>)
    BY DEF Move, QuoteMove, CharMove
  <1>3. Scans("quotes", t, "out", "close", t) /\ Scans("chars", t, "out", "out", t)
    BY <1>1, <1>2, TwoScan
  <1>4. Calm(t) /\ t[1] = "lbracket" /\ \A i \in 1..Len(t) : t[i] # "rbrace"
    BY <1>1, TwoTokensCalm
  <1> HIDE DEF t
  <1>5. Prepared(t) = t
    BY <1>3, <1>4, Untouched
  <1>6. LoadedText(t) \in {t, NoText}
    BY <1>4, <1>5, Silent
  <1>7. Parse(t).error # Nothing
    BY <1>4, <1>6, ParseError
  <1>8. QED
    BY <1>7 DEF t

\* An empty object is read, but no contract is fulfilled.
LEMMA EmptyUseless == Parse(<<"lbrace", "rbrace">>).error # Nothing
  <1> DEFINE t == <<"lbrace", "rbrace">>
  <1>1. "lbrace" \in Token /\ "rbrace" \in Token
    BY Tokens
  <1>2. /\ Move("quotes", "out", "lbrace", "out", <<"lbrace">>)
        /\ Move("quotes", "out", "rbrace", "out", <<"rbrace">>)
        /\ Move("chars", "out", "lbrace", "out", <<"lbrace">>)
        /\ Move("chars", "out", "rbrace", "out", <<"rbrace">>)
        /\ Move("object", "start", "lbrace", "out", <<"lbrace">>)
        /\ Move("object", "out", "rbrace", "done", <<"rbrace">>)
    BY DEF Move, QuoteMove, CharMove, ObjectMove
  <1>3. /\ Scans("quotes", t, "out", "out", t) /\ Scans("chars", t, "out", "out", t)
        /\ Scans("object", t, "start", "done", t)
    BY <1>1, <1>2, TwoScan
  <1>4. Calm(t) /\ t[1] = "lbrace"
    BY <1>1, TwoTokensCalm
  <1>5. ~FitsContract(t)
    BY DEF FitsContract
  <1> HIDE DEF t
  <1>6. Prepared(t) = t
    BY <1>3, <1>4, Untouched
  <1>7. ExtractObject(t) = t
    <2>1. NoText \in Text /\ Len(NoText) = 0
      BY EmptySeq DEF NoText, Text
    <2>2. ExtractObject(Cat(Cat(NoText, t), NoText)) = t
      BY <1>3, <2>1, ObjectSound
    <2>3. Cat(NoText, t) = t /\ Cat(t, NoText) = t
      BY <1>4, CatType DEF Calm, Text, NoText
    <2>4. QED
      BY <2>2, <2>3
  <1>8. LoadedText(t) \in {t, NoText}
    BY <1>6, <1>7 DEF LoadedText
  <1>9. Parse(t).error # Nothing
    BY <1>5, <1>8, ParseError
  <1>10. QED
    BY <1>9 DEF t

\* The start of a name, with no end.
LEMMA HalfUseless == Parse(<<"lbrace", "quote", "word">>).error # Nothing
  <1> DEFINE t == <<"lbrace", "quote", "word">>
             half == <<"lbrace", "quote">>
  <1>1. "lbrace" \in Token /\ "quote" \in Token /\ "word" \in Token
    BY Tokens
  <1>2. t = Cat(half, <<"word">>)
    BY DEF Cat
  <1>3. /\ Move("quotes", "out", "lbrace", "out", <<"lbrace">>)
        /\ Move("quotes", "out", "quote", "in", <<"quote">>)
        /\ Move("quotes", "in", "word", "in", <<"word">>)
        /\ Move("chars", "out", "lbrace", "out", <<"lbrace">>)
        /\ Move("chars", "out", "quote", "in", <<"quote">>)
        /\ Move("chars", "in", "word", "in", <<"word">>)
    BY DEF Move, QuoteMove, CharMove, StringMove
  <1>4. /\ Move("json", JsonStart, "lbrace", Expecting("key", <<"lbrace">>), <<"lbrace">>)
        /\ Move("json", Expecting("key", <<"lbrace">>), "quote",
                Expecting("in_name", <<"lbrace">>), <<"quote">>)
        /\ Move("json", Expecting("in_name", <<"lbrace">>), "word",
                Expecting("in_name", <<"lbrace">>), <<"word">>)
    BY JsonBrackets, JsonWithin
  <1>5. /\ Scans("quotes", half, "out", "in", half) /\ Scans("chars", half, "out", "in", half)
        /\ Scans("json", half, JsonStart, Expecting("in_name", <<"lbrace">>), half)
    BY <1>1, <1>3, <1>4, TwoScan
  <1>6. /\ Scans("quotes", <<"word">>, "in", "in", <<"word">>)
        /\ Scans("chars", <<"word">>, "in", "in", <<"word">>)
        /\ Scans("json", <<"word">>, Expecting("in_name", <<"lbrace">>),
                 Expecting("in_name", <<"lbrace">>), <<"word">>)
    BY <1>1, <1>3, <1>4, TokenScan
  <1>7. Calm(half) /\ half[1] = "lbrace" /\ half # NoText
    <2>1. Len(NoText) = 0
      BY EmptySeq DEF NoText
    <2>2. QED
      BY <1>1, <2>1, TwoTokensCalm
  <1>8. Calm(<<"word">>)
    BY <1>1, OneTokenCalm
  <1>9. \A i \in 1..Len(t) : t[i] # "rbrace"
    <2>1. Len(t) = 3 /\ t[1] = "lbrace" /\ t[2] = "quote" /\ t[3] = "word"
      OBVIOUS
    <2>2. \A i \in 1..3 : i \in {1, 2, 3}
      OBVIOUS
    <2>3. QED
      BY <2>1, <2>2
  <1> HIDE DEF t, half
  <1>10. /\ Scans("quotes", t, "out", "in", t) /\ Scans("chars", t, "out", "in", t)
         /\ Scans("json", t, JsonStart, Expecting("in_name", <<"lbrace">>), t)
    BY <1>2, <1>5, <1>6, ScanCat
  <1>11. Calm(t) /\ t[1] = "lbrace"
    <2>1. Calm(Cat(half, <<"word">>))
      BY <1>7, <1>8, CalmCat
    <2>2. Cat(half, <<"word">>)[1] = half[1]
      BY <1>7, <1>8, FirstOfCat DEF Calm
    <2>3. QED
      BY <1>2, <1>7, <2>1, <2>2
  <1>12. ~IsJson(t)
    <2>1. Expecting("in_name", <<"lbrace">>) # [expects |-> "next", open |-> <<>>]
      BY DEF Expecting
    <2>2. QED
      BY <1>10, <2>1, JsonSound
  <1>13. Prepared(t) = t
    BY <1>10, <1>11, Untouched
  <1>14. LoadedText(t) = NoText
    BY <1>9, <1>11, <1>12, <1>13, Silent
  <1>15. Parse(t).error # Nothing
    BY <1>14, ParseError
  <1>16. QED
    BY <1>15 DEF t

\* The start of an object in a code block.
LEMMA BlockUseless == Parse(<<"fence", "lbrace", "fence">>).error # Nothing
  <1> DEFINE raw == <<"fence", "lbrace", "fence">>
             t == <<"lbrace">>
             fence == <<"fence">>
  <1>1. "lbrace" \in Token /\ "fence" \in Token
    BY Tokens
  <1>2. Calm(t) /\ t[1] = "lbrace" /\ t # NoText /\ \A i \in 1..Len(t) : t[i] # "rbrace"
    <2>1. Len(NoText) = 0
      BY EmptySeq DEF NoText
    <2>2. QED
      BY <1>1, <2>1, OneTokenCalm
  <1>3. Calm(fence)
    BY <1>1, OneTokenCalm
  <1>4. NoText \in Text /\ Len(NoText) = 0
    BY EmptySeq DEF NoText, Text
  <1>5. raw = Cat(Cat(fence, t), fence)
    BY DEF Cat
  <1>6. StripFence(raw) = t
    <2>1. StripFence(Cat(Cat(Cat(Cat(<<"fence">>, NoText), t), <<"fence">>), NoText)) = t
      <3>1. NoText \in {<<>>, <<"json">>}
        BY DEF NoText
      <3>2. /\ t \in Text /\ t # NoText /\ t[1] # "json"
            /\ \A i \in 1..Len(NoText) : NoText[i] # "fence"
        BY <1>2, <1>4 DEF Calm
      <3> HIDE DEF t
      <3>3. QED
        BY <1>4, <3>1, <3>2, Fenced
    <2> HIDE DEF t, raw
    <2>2. /\ fence \in Text /\ t \in Text
      BY <1>2, <1>3 DEF Calm
    <2>3. Cat(fence, NoText) = fence
      BY <2>2, CatType DEF Text, NoText
    <2>4. Cat(Cat(fence, t), fence) \in Text
      BY <2>2, CatType DEF Text
    <2>5. Cat(Cat(Cat(fence, t), fence), NoText) = Cat(Cat(fence, t), fence)
      BY <2>4, CatType DEF Text, NoText
    <2>6. QED
      BY <1>5, <2>1, <2>3, <2>5
  <1>7. StripThinking(raw) = raw
    <2> HIDE DEF raw, fence, t
    <2>1. Calm(Cat(fence, t))
      BY <1>2, <1>3, CalmCat
    <2>2. Calm(raw)
      BY <1>3, <1>5, <2>1, CalmCat
    <2>3. QED
      BY <2>2, NoThought DEF Calm
  <1>8. /\ Move("quotes", "out", "lbrace", "out", <<"lbrace">>)
        /\ Move("chars", "out", "lbrace", "out", <<"lbrace">>)
    BY DEF Move, QuoteMove, CharMove
  <1>9. Scans("quotes", t, "out", "out", t) /\ Scans("chars", t, "out", "out", t)
    BY <1>1, <1>8, TokenScan
  <1>10. Scans("json", t, JsonStart, Expecting("key", <<"lbrace">>), t)
    BY <1>1, JsonBrackets, TokenScan
  <1> HIDE DEF raw, t, fence
  <1>11. Prepared(raw) = t
    BY <1>6, <1>7, <1>9, QuotesSound, CharsSound DEF Prepared
  <1>12. ~IsJson(t)
    <2>1. Expecting("key", <<"lbrace">>) # [expects |-> "next", open |-> <<>>]
      BY DEF Expecting
    <2>2. QED
      BY <1>10, <2>1, JsonSound
  <1>13. LoadedText(raw) = NoText
    BY <1>2, <1>11, <1>12, Silent
  <1>14. Parse(raw).error # Nothing
    BY <1>13, ParseError
  <1>15. QED
    BY <1>14 DEF raw

\* None of the answers that stand for no document is understood.
LEMMA UselessNeverRead ==
  ASSUME NEW raw \in Useless
  PROVE  Parse(raw).error # Nothing
  <1>1. Parse(NoText).error # Nothing
    BY DEF Parse, Nothing
  <1>2. QED
    BY <1>1, OneUseless, ArrayUseless, EmptyUseless, HalfUseless, BlockUseless DEF Useless

-----------------------------------------------------------------------------
(* generate_and_parse.  *)

\* Beside the types, the invariant is the property itself: a call that has not parsed
\* an answer has none that stands for a document, whatever was answered before.
JsonTyped ==
  /\ answering \in [pc : {"idle", "asked", "parsed", "refused", "raised"},
                    attempt : 0..MaxJsonRetries, told : {Nothing} \cup Errors, json : Text]
  /\ meant = {} \/ \E doc \in Documents : meant = {doc}

JsonInv == JsonTyped /\ RepairsAreExact

LEMMA JsonInvInit == JsonInit => JsonInv
  <1> SUFFICES ASSUME JsonInit PROVE JsonInv
    OBVIOUS
  <1>1. answering = [pc |-> "idle", attempt |-> 0, told |-> Nothing, json |-> NoText] /\ meant = {}
    BY DEF JsonInit
  <1>2. NoText \in Text
    BY Tokens DEF NoText
  <1>3. 0 \in 0..MaxJsonRetries
    BY JsonAssumption
  <1>4. JsonTyped
    BY <1>1, <1>2, <1>3 DEF JsonTyped
  <1>5. RepairsAreExact
    BY <1>1 DEF RepairsAreExact
  <1>6. QED
    BY <1>4, <1>5 DEF JsonInv

\* After an error the model is asked again or the answer is refused; neither is parsed.
LEMMA UnderstandError ==
  ASSUME JsonTyped, NEW raw, Understand(raw), Parse(raw).error # Nothing
  PROVE  /\ answering'.pc # "parsed"
         /\ answering' \in [pc : {"idle", "asked", "parsed", "refused", "raised"},
                            attempt : 0..MaxJsonRetries, told : {Nothing} \cup Errors, json : Text]
  <1>1. Parse(raw).error \in Errors
    BY ParseError
  <1>2. answering' = [answering EXCEPT
                        !.pc = IF answering.attempt < MaxJsonRetries THEN "asked" ELSE "refused",
                        !.attempt = IF answering.attempt < MaxJsonRetries THEN @ + 1 ELSE @,
                        !.told = Parse(raw).error]
    BY DEF Understand
  <1>3. answering.attempt \in 0..MaxJsonRetries /\ MaxJsonRetries \in Nat
    BY JsonAssumption DEF JsonTyped
  <1>4. answering.attempt < MaxJsonRetries => answering.attempt + 1 \in 0..MaxJsonRetries
    BY <1>3
  <1>5. QED
    BY <1>1, <1>2, <1>3, <1>4 DEF JsonTyped

\* Each step keeps the invariant.
LEMMA JsonInvStep ==
  ASSUME JsonInv, [JsonNext]_jsonVars
  PROVE  JsonInv'
  <1>1. CASE AskModel
    <2>1. answering.pc = "idle" /\ answering' = [answering EXCEPT !.pc = "asked"] /\ meant' = meant
      BY <1>1 DEF AskModel
    <2>2. meant = {}
      BY <2>1 DEF JsonInv, JsonTyped, RepairsAreExact
    <2>3. answering'.pc = "asked"
      BY <2>1 DEF JsonInv, JsonTyped
    <2>4. JsonTyped'
      BY <2>1 DEF JsonInv, JsonTyped
    <2>5. RepairsAreExact'
      BY <2>1, <2>2, <2>3 DEF RepairsAreExact
    <2>6. QED
      BY <2>4, <2>5 DEF JsonInv
  <1>2. CASE ModelCallRaises
    <2>1. answering' = [answering EXCEPT !.pc = "raised"] /\ meant' = {}
      BY <1>2 DEF ModelCallRaises
    <2>2. answering'.pc = "raised"
      BY <2>1 DEF JsonInv, JsonTyped
    <2>3. JsonTyped'
      BY <2>1 DEF JsonInv, JsonTyped
    <2>4. RepairsAreExact'
      BY <2>1, <2>2 DEF RepairsAreExact
    <2>5. QED
      BY <2>3, <2>4 DEF JsonInv
  <1>3. ASSUME NEW doc \in Documents, NEW noise \in Noises, ModelWrites(doc, noise)
        PROVE  JsonInv'
    <2>1. doc \in Document /\ noise \in Noise
      BY JsonAssumption DEF Document, Noise
    <2>2. Parse(Noisy(doc, noise)) = [error |-> Nothing, json |-> Clean(doc)]
      BY <2>1, ParseNoisy
    <2>3. meant' = {doc} /\ Understand(Noisy(doc, noise))
      BY <1>3 DEF ModelWrites
    <2>4. answering' = [answering EXCEPT !.pc = "parsed", !.json = Clean(doc)]
      BY <2>2, <2>3 DEF Understand
    <2>5. Clean(doc) \in Text
      BY <2>1, TextStarts DEF Clean
    <2>6. answering'.pc = "parsed" /\ answering'.json = Clean(doc)
      BY <2>4 DEF JsonInv, JsonTyped
    <2>7. JsonTyped'
      BY <2>3, <2>4, <2>5 DEF JsonInv, JsonTyped
    <2>8. RepairsAreExact'
      BY <2>3, <2>6 DEF RepairsAreExact, Clean
    <2>9. QED
      BY <2>7, <2>8 DEF JsonInv
  <1>4. ASSUME NEW raw \in Useless, ModelBabbles(raw)
        PROVE  JsonInv'
    <2>1. Understand(raw) /\ meant' = {}
      BY <1>4 DEF ModelBabbles
    <2>2. Parse(raw).error # Nothing
      BY UselessNeverRead
    <2>3. /\ answering'.pc # "parsed"
          /\ answering' \in [pc : {"idle", "asked", "parsed", "refused", "raised"},
                             attempt : 0..MaxJsonRetries, told : {Nothing} \cup Errors, json : Text]
      BY <2>1, <2>2, UnderstandError DEF JsonInv
    <2>4. JsonTyped'
      BY <2>1, <2>3 DEF JsonTyped
    <2>5. RepairsAreExact'
      BY <2>1, <2>3 DEF RepairsAreExact
    <2>6. QED
      BY <2>4, <2>5 DEF JsonInv
  <1>5. CASE UNCHANGED jsonVars
    BY <1>5 DEF jsonVars, JsonInv, JsonTyped, RepairsAreExact
  <1>6. QED
    BY <1>1, <1>2, <1>3, <1>4, <1>5 DEF JsonNext

\* For every set of documents and of disturbances: an answer that stands for a document is
\* parsed to the text of exactly that document, and one that stands for none is not parsed
\* (parse_llm_json_output and the retries of generate_and_parse).
THEOREM AnswersAreExact == JsonSpec => []RepairsAreExact
  <1>1. JsonInv /\ [JsonNext]_jsonVars => JsonInv'
    BY JsonInvStep
  <1>2. JsonInv => RepairsAreExact
    BY DEF JsonInv
  <1>3. QED
    BY <1>1, <1>2, JsonInvInit, PTL DEF JsonSpec

\* The state of generate_and_parse: never more attempts than the retries, and an error
\* that the parser has.
THEOREM AnswersTyped == JsonSpec => []JsonTypeOK
  <1>1. JsonInv /\ [JsonNext]_jsonVars => JsonInv'
    BY JsonInvStep
  <1>2. JsonInv => JsonTypeOK
    <2> SUFFICES ASSUME JsonInv PROVE JsonTypeOK
      OBVIOUS
    <2>1. Cardinality(meant) <= 1 /\ meant \subseteq Documents
      BY FS_EmptySet, FS_Singleton DEF JsonInv, JsonTyped
    <2>2. QED
      BY <2>1 DEF JsonInv, JsonTyped, JsonTypeOK, Errors
  <1>3. QED
    BY <1>1, <1>2, JsonInvInit, PTL DEF JsonSpec
=============================================================================
