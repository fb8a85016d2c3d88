-------------------------- MODULE LogPatternProofs --------------------------
(***************************************************************************)
(* What LogFormatter::init makes of a pattern, for any alphabet and        *)
(* patterns of any length: what is written is read back, and nothing of an *)
(* accepted pattern is dropped.                                            *)
(*                                                                         *)
(* Parse and FlattenSeq are recursive functions over positions.  What they *)
(* compute is shown from the end (Backwards), or the front (Forwards), of  *)
(* the sequence: the set of positions where it does not hold would have a  *)
(* least element.                                                          *)
(***************************************************************************)
EXTENDS LogPattern, SequenceTheorems, FiniteSetTheorems, WellFoundedInduction, TLAPS

(* A set of numbers that is not empty has a least element. *)
LEMMA LeastElement ==
    ASSUME NEW T \in SUBSET Nat, T # {}
    PROVE  \E n \in T : \A m \in T : n <= m
  <1> DEFINE R == OpToRel(<, Nat)
  <1>1. IsWellFoundedOn(R, Nat)
    BY NatLessThanWellFounded
  <1>2. PICK n \in T : \A m \in T : ~(<<m, n>> \in R)
    BY <1>1, WFMin
  <1>3. \A m \in T : ~(m < n)
    BY <1>2 DEF OpToRel
  <1> QED BY <1>3

(* So Min is one of a set's, and none is less. *)
LEMMA MinIn ==
    ASSUME NEW T \in SUBSET Nat, T # {}
    PROVE  Min(T) \in T /\ \A m \in T : Min(T) <= m
  BY LeastElement DEF Min

(* What holds of a position if it holds of all that are behind it holds of *)
(* every position.                                                         *)
LEMMA Backwards ==
    ASSUME NEW n \in Nat, NEW T,
           \A i \in 1..n : (\A j \in (i + 1)..n : j \in T) => i \in T
    PROVE  \A i \in 1..n : i \in T
  <1> DEFINE B == {d \in 0..(n - 1) : n - d \notin T}
  <1>1. ASSUME B # {} PROVE FALSE
    <2>1. B \in SUBSET Nat
      OBVIOUS
    <2> HIDE DEF B
    <2>2. PICK d \in B : \A e \in B : d <= e
      BY <1>1, <2>1, LeastElement
    <2> USE DEF B
    <2>3. n - d \in 1..n /\ n - d \notin T
      OBVIOUS
    <2>4. ASSUME NEW j \in ((n - d) + 1)..n PROVE j \in T
      <3>1. n - j \in 0..(n - 1) /\ n - j < d /\ n - (n - j) = j
        OBVIOUS
      <3>2. n - j \notin B
        BY <2>2, <3>1
      <3> QED BY <3>1, <3>2
    <2> QED BY <2>3, <2>4
  <1>2. ASSUME NEW i \in 1..n PROVE i \in T
    <2>1. n - i \in 0..(n - 1) /\ n - (n - i) = i
      OBVIOUS
    <2> QED BY <1>1, <2>1
  <1> QED BY <1>2

(* The same from the front. *)
LEMMA Forwards ==
    ASSUME NEW n \in Nat, NEW T,
           \A i \in 1..n : (\A j \in 1..(i - 1) : j \in T) => i \in T
    PROVE  \A i \in 1..n : i \in T
  <1> DEFINE B == {i \in 1..n : i \notin T}
  <1>1. ASSUME B # {} PROVE FALSE
    <2>1. B \in SUBSET Nat
      OBVIOUS
    <2> HIDE DEF B
    <2>2. PICK i \in B : \A j \in B : i <= j
      BY <1>1, <2>1, LeastElement
    <2> USE DEF B
    <2>3. ASSUME NEW j \in 1..(i - 1) PROVE j \in T
      <3>1. j \in 1..n /\ j < i
        OBVIOUS
      <3>2. j \notin B
        BY <2>2, <3>1
      <3> QED BY <3>1, <3>2
    <2> QED BY <2>3
  <1> QED BY <1>1

-----------------------------------------------------------------------------
(* Where a name or a format ends. *)
LEMMA FirstOfIs ==
    ASSUME NEW p, Len(p) \in Nat, NEW i \in 1..(Len(p) + 1), NEW S
    PROVE  /\ FirstOf(p, i, S) \in i..(Len(p) + 1)
           /\ FirstOf(p, i, S) <= Len(p) => p[FirstOf(p, i, S)] \in S
           /\ \A j \in i..(FirstOf(p, i, S) - 1) : p[j] \notin S
  <1> DEFINE T == {j \in i..Len(p) : p[j] \in S} \cup {Len(p) + 1}
  <1>1. T \in SUBSET Nat /\ T # {}
    OBVIOUS
  <1>2. FirstOf(p, i, S) = Min(T)
    BY DEF FirstOf
  <1> HIDE DEF T
  <1>3. Min(T) \in T /\ \A m \in T : Min(T) <= m
    BY <1>1, MinIn
  <1> DEFINE F == FirstOf(p, i, S)
  <1>4. F \in T /\ \A m \in T : F <= m
    BY <1>2, <1>3
  <1> HIDE DEF F
  <1>5. F \in i..(Len(p) + 1) /\ (F <= Len(p) => p[F] \in S)
    BY <1>4 DEF T
  <1>6. ASSUME NEW j \in i..(F - 1) PROVE p[j] \notin S
    <2>1. j \in i..Len(p) /\ j < F
      BY <1>5
    <2>2. j \notin T
      BY <1>4, <1>5, <2>1
    <2> QED BY <2>1, <2>2 DEF T
  <1> QED BY <1>5, <1>6 DEF F

(* FirstOf is the position where one of S is, with none before it. *)
LEMMA FirstOfAt ==
    ASSUME NEW p, Len(p) \in Nat, NEW i \in 1..(Len(p) + 1), NEW S,
           NEW e \in i..(Len(p) + 1), e <= Len(p) => p[e] \in S,
           \A j \in i..(e - 1) : p[j] \notin S
    PROVE  FirstOf(p, i, S) = e
  <1> DEFINE F == FirstOf(p, i, S)
  <1>1. /\ F \in i..(Len(p) + 1)
        /\ F <= Len(p) => p[F] \in S
        /\ \A j \in i..(F - 1) : p[j] \notin S
    BY FirstOfIs
  <1> HIDE DEF F
  <1>2. CASE F < e
    <2>1. F \in i..(e - 1) /\ F <= Len(p)
      BY <1>1, <1>2
    <2> QED BY <1>1, <2>1
  <1>3. CASE F > e
    <2>1. e \in i..(F - 1) /\ e <= Len(p)
      BY <1>1, <1>3
    <2> QED BY <1>1, <2>1
  <1>4. F = e
    BY <1>1, <1>2, <1>3
  <1> QED BY <1>4 DEF F

(* Braces follow the name, and where they close. *)
Braces(p, i) == NameEnd(p, i) <= Len(p) /\ p[NameEnd(p, i)] = "{"
Close(p, i)  == FirstOf(p, NameEnd(p, i) + 1, {"}"})

(* A name ends behind its percent sign and not behind the end. *)
LEMMA NameEndIs ==
    ASSUME NEW p \in Seq(Char), NEW i \in 1..Len(p)
    PROVE  /\ NameEnd(p, i) \in (i + 1)..(Len(p) + 1)
           /\ SubSeq(p, i + 1, NameEnd(p, i) - 1) \in Seq(Char)
  <1> DEFINE e == NameEnd(p, i)
  <1>1. Len(p) \in Nat /\ \A j \in 1..Len(p) : p[j] \in Char
    BY LenProperties, ElementOfSeq
  <1>2. e \in (i + 1)..(Len(p) + 1)
    <2>1. i + 1 \in 1..(Len(p) + 1)
      BY <1>1
    <2> QED BY <1>1, <2>1, FirstOfIs DEF NameEnd
  <1> HIDE DEF e
  <1>3. \A j \in (i + 1)..(e - 1) : p[j] \in Char
    BY <1>1, <1>2
  <1>4. SubSeq(p, i + 1, e - 1) \in Seq(Char)
    BY <1>2, <1>3, SubSeqProperties
  <1> QED BY <1>2, <1>4 DEF e

(* A format ends behind its opening brace and not behind the end. *)
LEMMA CloseIs ==
    ASSUME NEW p \in Seq(Char), NEW i \in 1..Len(p), Braces(p, i)
    PROVE  /\ Close(p, i) \in (NameEnd(p, i) + 1)..(Len(p) + 1)
           /\ Close(p, i) <= Len(p) => p[Close(p, i)] = "}"
           /\ SubSeq(p, NameEnd(p, i) + 1, Close(p, i) - 1) \in Seq(Char)
  <1> DEFINE e == NameEnd(p, i)
             c == Close(p, i)
             n == Len(p)
  <1>1. n \in Nat
    BY LenProperties
  <1>2. \A j \in 1..n : p[j] \in Char
    BY ElementOfSeq
  <1>3. i \in 1..n /\ e \in (i + 1)..(n + 1) /\ e <= n
    BY NameEndIs DEF Braces
  <1>4. c = FirstOf(p, e + 1, {"}"}) /\ n = Len(p)
    BY DEF Close
  <1> HIDE DEF e, c, n
  <1>5. e + 1 \in 1..(n + 1) /\ e \in Int
    BY <1>1, <1>3
  <1>6. c \in (e + 1)..(n + 1) /\ (c <= n => p[c] \in {"}"})
    BY <1>1, <1>4, <1>5, FirstOfIs
  <1>7. c \in (e + 1)..(n + 1)
    BY <1>6
  <1>8. \A j \in (e + 1)..(c - 1) : j \in 1..n
    BY <1>1, <1>3, <1>7
  <1>9. e + 1 \in Int /\ c - 1 \in Int
    BY <1>1, <1>5, <1>7
  <1>10. SubSeq(p, e + 1, c - 1) \in Seq(Char)
    BY <1>2, <1>8, <1>9, SubSeqProperties
  <1>11. c <= n => p[c] = "}"
    BY <1>6
  <1> QED BY <1>4, <1>7, <1>10, <1>11 DEF e, c

(* ItemAt, with the end of the name and the closing brace by name. *)
LEMMA ItemAtIs ==
    ASSUME NEW p, NEW i
    PROVE  LET w == ItemAt(p, i)
           IN  /\ w.str = SubSeq(p, i + 1, NameEnd(p, i) - 1)
               /\ ~Braces(p, i) => w.closed = TRUE /\ w.next = NameEnd(p, i) /\ w.fmt = <<>>
               /\ Braces(p, i) =>
                     /\ w.closed = (Close(p, i) <= Len(p))
                     /\ w.next = Close(p, i) + 1
                     /\ w.fmt = SubSeq(p, NameEnd(p, i) + 1, Close(p, i) - 1)
  <1> DEFINE w == ItemAt(p, i)
  <1>1. w = [str |-> SubSeq(p, i + 1, NameEnd(p, i) - 1),
             fmt |-> IF Braces(p, i) THEN SubSeq(p, NameEnd(p, i) + 1, Close(p, i) - 1) ELSE <<>>,
             next |-> IF Braces(p, i) THEN Close(p, i) + 1 ELSE NameEnd(p, i),
             closed |-> ~Braces(p, i) \/ (IF Braces(p, i) THEN Close(p, i) ELSE NameEnd(p, i)) <= Len(p)]
    BY Zenon DEF ItemAt, Behind, Braces, Close
  <1> HIDE DEF w
  <1>2. w.closed = (~Braces(p, i) \/ (IF Braces(p, i) THEN Close(p, i) ELSE NameEnd(p, i)) <= Len(p))
    BY <1>1
  <1>3. Braces(p, i) => w.closed = (Close(p, i) <= Len(p))
    BY <1>2
  <1>4. ~Braces(p, i) => w.closed = TRUE
    BY <1>2
  <1>5. /\ w.str = SubSeq(p, i + 1, NameEnd(p, i) - 1)
        /\ w.fmt = IF Braces(p, i) THEN SubSeq(p, NameEnd(p, i) + 1, Close(p, i) - 1) ELSE <<>>
        /\ w.next = IF Braces(p, i) THEN Close(p, i) + 1 ELSE NameEnd(p, i)
    BY <1>1
  <1>6. QED BY <1>3, <1>4, <1>5 DEF w

(* What is found is made of characters, and the pattern goes on behind it. *)
LEMMA ItemAtType ==
    ASSUME NEW p \in Seq(Char), NEW i \in 1..Len(p)
    PROVE  /\ ItemAt(p, i).str \in Seq(Char) /\ ItemAt(p, i).fmt \in Seq(Char)
           /\ ItemAt(p, i).closed \in BOOLEAN
           /\ ItemAt(p, i).closed => ItemAt(p, i).next \in (i + 1)..(Len(p) + 1)
  <1> DEFINE e == NameEnd(p, i)
             c == Close(p, i)
             n == Len(p)
             w == ItemAt(p, i)
  <1>1. n \in Nat /\ <<>> \in Seq(Char) /\ i \in 1..n
    BY LenProperties, EmptySeq
  <1>2. e \in (i + 1)..(n + 1) /\ w.str \in Seq(Char)
    BY NameEndIs, ItemAtIs
  <1>3. CASE Braces(p, i)
    <2>1. c \in (e + 1)..(n + 1)
      BY <1>3, CloseIs
    <2>2. w.fmt \in Seq(Char)
      BY <1>3, CloseIs, ItemAtIs
    <2>3. w.closed = (c <= n) /\ w.next = c + 1
      BY <1>3, ItemAtIs
    <2> HIDE DEF e, c, n, w
    <2>4. c <= n => c + 1 \in (i + 1)..(n + 1)
      BY <1>1, <1>2, <2>1
    <2>5. w.closed => w.next \in (i + 1)..(n + 1)
      BY <2>3, <2>4
    <2>6. w.closed \in BOOLEAN
      BY <2>3
    <2> QED BY <1>2, <2>2, <2>5, <2>6 DEF n, w
  <1>4. CASE ~Braces(p, i)
    <2>1. w.closed = TRUE /\ w.next = e /\ w.fmt = <<>>
      BY <1>4, ItemAtIs
    <2> HIDE DEF e, n, w
    <2> QED BY <1>1, <1>2, <2>1 DEF n, w
  <1> QED BY <1>3, <1>4

-----------------------------------------------------------------------------
(* f is the loop of Parse, from position m on. *)
IsLiteral(p, i) == p[i] # "%" \/ (i < Len(p) /\ p[i + 1] = "%")

Rest(p, f, i) ==
    IF i > Len(p) THEN [error |-> FALSE, items |-> <<>>]
    ELSE IF IsLiteral(p, i)
    THEN [f[i + 1] EXCEPT !.items = <<Literal(p[i])>> \o @]
    ELSE IF ~ItemAt(p, i).closed THEN [f[i + 1] EXCEPT !.error = TRUE]
    ELSE [error |-> f[ItemAt(p, i).next].error \/ ~\E k \in Known : ItemAt(p, i).str = <<k>>,
          items |-> <<Item(ItemAt(p, i).str, ItemAt(p, i).fmt)>> \o f[ItemAt(p, i).next].items]

Parsed(p, m, f) == f = [i \in m..(Len(p) + 1) |-> Rest(p, f, i)]

(* It looks at what is behind a position only. *)
LEMMA RestLooksBehind ==
    ASSUME NEW p \in Seq(Char), NEW i \in 1..(Len(p) + 1), NEW f, NEW g,
           \A j \in (i + 1)..(Len(p) + 1) : f[j] = g[j]
    PROVE  Rest(p, f, i) = Rest(p, g, i)
  <1>1. Len(p) \in Nat
    BY LenProperties
  <1>2. CASE i > Len(p)
    BY <1>2 DEF Rest
  <1>3. CASE ~(i > Len(p))
    <2>1. i \in 1..Len(p) /\ i + 1 \in (i + 1)..(Len(p) + 1)
      BY <1>1, <1>3
    <2>2. ItemAt(p, i).closed => ItemAt(p, i).next \in (i + 1)..(Len(p) + 1)
      BY <2>1, ItemAtType
    <2>3. f[i + 1] = g[i + 1]
      BY <2>1
    <2>4. ItemAt(p, i).closed => f[ItemAt(p, i).next] = g[ItemAt(p, i).next]
      BY <2>2
    <2> QED BY <1>3, <2>3, <2>4 DEF Rest
  <1> QED BY <1>2, <1>3

(* There is such a loop. *)
LEMMA ParsedExists ==
    ASSUME NEW p \in Seq(Char)
    PROVE  \E f : Parsed(p, 1, f)
  <1> DEFINE n == Len(p) + 1
             T == {m \in 1..n : \E f : Parsed(p, m, f)}
  <1>1. n \in Nat /\ Len(p) \in Nat /\ 1 \in 1..n
    BY LenProperties
  <1>2. ASSUME NEW i \in 1..n, \A j \in (i + 1)..n : j \in T PROVE i \in T
    <2>1. CASE i = n
      <3> DEFINE g == [j \in n..n |-> [error |-> FALSE, items |-> <<>>]]
      <3>1. \A j \in n..n : j > Len(p)
        BY <1>1
      <3>2. \A j \in n..n : Rest(p, g, j) = [error |-> FALSE, items |-> <<>>]
        BY <3>1 DEF Rest
      <3> HIDE DEF n
      <3>3. g = [j \in n..n |-> Rest(p, g, j)]
        BY <3>2
      <3>4. Parsed(p, i, g)
        BY <2>1, <3>3 DEF Parsed, n
      <3> QED BY <3>4
    <2>2. CASE i # n
      <3>1. i + 1 \in (i + 1)..n /\ i + 1 \in 1..n
        BY <1>1, <2>2
      <3>2. PICK f : Parsed(p, i + 1, f)
        BY <1>2, <3>1
      <3> DEFINE g == [j \in i..n |-> IF j = i THEN Rest(p, f, i) ELSE f[j]]
      <3>3. ASSUME NEW j \in i..n PROVE g[j] = Rest(p, g, j)
        <4>1. j \in 1..n /\ i \in Nat
          BY <1>1
        <4>2. \A l \in (j + 1)..n : l \in i..n /\ l # i
          BY <1>1, <4>1
        <4>3. \A l \in (j + 1)..n : g[l] = f[l]
          BY <4>2
        <4>4. Rest(p, g, j) = Rest(p, f, j)
          <5> HIDE DEF g
          <5> QED BY <4>1, <4>3, RestLooksBehind
        <4>5. CASE j = i
          BY <4>4, <4>5
        <4>6. CASE j # i
          <5>1. j \in (i + 1)..n
            BY <1>1, <4>1, <4>6
          <5>2. f[j] = Rest(p, f, j)
            BY <3>2, <5>1 DEF Parsed
          <5> QED BY <4>4, <4>6, <5>2
        <4> QED BY <4>5, <4>6
      <3>4. Parsed(p, i, g)
        BY <3>3 DEF Parsed
      <3> QED BY <3>4
    <2> QED BY <2>1, <2>2
  <1> HIDE DEF n, T
  <1>3. \A i \in 1..n : i \in T
    BY <1>1, <1>2, Backwards
  <1> QED BY <1>1, <1>3 DEF T

(* And Parse is what it comes to. *)
LEMMA ParseIs ==
    ASSUME NEW p \in Seq(Char)
    PROVE  \E f : Parsed(p, 1, f) /\ Parse(p) = f[1]
  <1> DEFINE F == CHOOSE f : Parsed(p, 1, f)
  <1>1. Parsed(p, 1, F)
    BY ParsedExists
  <1>2. Parse(p) = F[1]
    BY DEF Parse, Parsed, Rest, IsLiteral
  <1> QED BY <1>1, <1>2

-----------------------------------------------------------------------------
(* An item as it is parsed, and as it is written. *)
Parts == [text : Seq(Char), fmt : Seq(Char), item : BOOLEAN]

LEMMA WrittenType ==
    ASSUME NEW x \in Parts
    PROVE  Written(x) \in Seq(Char)
  <1>1. <<"%">> \in Seq(Char) /\ <<"{">> \in Seq(Char) /\ <<"}">> \in Seq(Char) /\ <<>> \in Seq(Char)
    BY DEF Char, Signs
  <1>2. x.text \in Seq(Char) /\ x.fmt \in Seq(Char)
    BY DEF Parts
  <1> QED BY <1>1, <1>2, ConcatProperties DEF Written

(* Literals and items are parts, and a literal is its character. *)
LEMMA PartTypes ==
    /\ \A c \in Char : Literal(c) \in Parts /\ Written(Literal(c)) = <<c>>
    /\ \A t, u \in Seq(Char) : Item(t, u) \in Parts
  <1>1. ASSUME NEW c \in Char PROVE Literal(c) \in Parts /\ Written(Literal(c)) = <<c>>
    BY DEF Literal, Parts, Written
  <1>2. ASSUME NEW t \in Seq(Char), NEW u \in Seq(Char) PROVE Item(t, u) \in Parts
    BY DEF Item, Parts
  <1> QED BY <1>1, <1>2

(* From every position on, the loop has an answer. *)
LEMMA RestType ==
    ASSUME NEW p \in Seq(Char), NEW f, Parsed(p, 1, f)
    PROVE  \A i \in 1..(Len(p) + 1) : f[i] \in [error : BOOLEAN, items : Seq(Parts)]
  <1> DEFINE n == Len(p) + 1
             R == [error : BOOLEAN, items : Seq(Parts)]
             T == {i \in 1..n : f[i] \in R}
  <1>1. n \in Nat /\ Len(p) \in Nat
    BY LenProperties
  <1>2. ASSUME NEW i \in 1..n, \A j \in (i + 1)..n : j \in T PROVE i \in T
    <2>1. f[i] = Rest(p, f, i)
      BY DEF Parsed
    <2>2. CASE i > Len(p)
      <3>1. f[i] = [error |-> FALSE, items |-> <<>>]
        BY <2>1, <2>2 DEF Rest
      <3>2. <<>> \in Seq(Parts) /\ FALSE \in BOOLEAN
        BY EmptySeq
      <3>3. f[i] \in R
        BY <3>1, <3>2
      <3> QED BY <3>3
    <2>3. CASE ~(i > Len(p))
      <3>1. i \in 1..Len(p) /\ i + 1 \in (i + 1)..n
        BY <1>1, <2>3
      <3>2. f[i + 1] \in R
        BY <1>2, <3>1
      <3>3. CASE IsLiteral(p, i)
        <4>1. f[i] = [f[i + 1] EXCEPT !.items = <<Literal(p[i])>> \o @]
          BY <2>1, <2>3, <3>3 DEF Rest
        <4>2. <<Literal(p[i])>> \in Seq(Parts)
          BY <3>1, ElementOfSeq, PartTypes
        <4>3. <<Literal(p[i])>> \o f[i + 1].items \in Seq(Parts)
          BY <3>2, <4>2, ConcatProperties
        <4> QED BY <3>2, <4>1, <4>3
      <3>4. CASE ~IsLiteral(p, i) /\ ~ItemAt(p, i).closed
        <4>1. f[i] = [f[i + 1] EXCEPT !.error = TRUE]
          BY <2>1, <2>3, <3>4 DEF Rest
        <4> QED BY <3>2, <4>1
      <3>5. CASE ~IsLiteral(p, i) /\ ItemAt(p, i).closed
        <4> DEFINE w == ItemAt(p, i)
        <4>1. w.str \in Seq(Char) /\ w.fmt \in Seq(Char) /\ w.next \in (i + 1)..n
          BY <3>1, <3>5, ItemAtType
        <4>2. f[i] = [error |-> f[w.next].error \/ ~\E k \in Known : w.str = <<k>>,
                      items |-> <<Item(w.str, w.fmt)>> \o f[w.next].items]
          BY <2>1, <2>3, <3>5 DEF Rest
        <4>3. f[w.next] \in R
          BY <1>2, <4>1
        <4>4. <<Item(w.str, w.fmt)>> \in Seq(Parts)
          BY <4>1, PartTypes
        <4>5. <<Item(w.str, w.fmt)>> \o f[w.next].items \in Seq(Parts)
          BY <4>3, <4>4, ConcatProperties
        <4> DEFINE e == f[w.next].error \/ ~\E k \in Known : w.str = <<k>>
                   s == <<Item(w.str, w.fmt)>> \o f[w.next].items
        <4>6. e \in BOOLEAN
          OBVIOUS
        <4>7. f[i] = [error |-> e, items |-> s] /\ s \in Seq(Parts)
          BY <4>2, <4>5
        <4> HIDE DEF w, e, s
        <4>8. f[i] \in R
          BY <4>6, <4>7
        <4> QED BY <4>8
      <3> QED BY <3>3, <3>4, <3>5
    <2> QED BY <2>2, <2>3
  <1> HIDE DEF n, T, R
  <1>3. \A i \in 1..n : i \in T
    BY <1>1, <1>2, Backwards
  <1> QED BY <1>3 DEF T, R, n

-----------------------------------------------------------------------------
(* f glues texts together, from the first to the kth. *)
Glue(texts, f, i) == IF i = 1 THEN texts[i] ELSE f[i - 1] \o texts[i]

Glued(texts, k, f) == f = [i \in 1..k |-> Glue(texts, f, i)]

(* There is such a loop for every number of texts. *)
LEMMA GluedExists ==
    ASSUME NEW texts, NEW n \in Nat
    PROVE  \E f : Glued(texts, n, f)
  <1> DEFINE T == {m \in 1..n : \E f : Glued(texts, m, f)}
  <1>1. ASSUME NEW m \in 1..n, \A j \in 1..(m - 1) : j \in T PROVE m \in T
    <2>1. PICK f : m # 1 => Glued(texts, m - 1, f)
      <3>1. m # 1 => m - 1 \in 1..(m - 1)
        OBVIOUS
      <3> QED BY <1>1, <3>1
    <2> DEFINE g == [i \in 1..m |-> IF i = m THEN Glue(texts, f, m) ELSE f[i]]
    <2>2. ASSUME NEW i \in 1..m PROVE g[i] = Glue(texts, g, i)
      <3>1. i # 1 => i - 1 \in 1..m /\ i - 1 # m
        OBVIOUS
      <3>2. i # 1 => g[i - 1] = f[i - 1]
        BY <3>1
      <3>3. Glue(texts, g, i) = Glue(texts, f, i)
        <4> HIDE DEF g
        <4> QED BY <3>2 DEF Glue
      <3>4. CASE i = m
        BY <3>3, <3>4
      <3>5. CASE i # m
        <4>1. i \in 1..(m - 1) /\ m # 1
          BY <3>5
        <4>2. f[i] = Glue(texts, f, i)
          BY <2>1, <4>1 DEF Glued
        <4> QED BY <3>3, <3>5, <4>2
      <3> QED BY <3>4, <3>5
    <2>3. Glued(texts, m, g)
      BY <2>2 DEF Glued
    <2> QED BY <2>3
  <1>2. \A m \in 1..n : m \in T
    <2> HIDE DEF T
    <2> QED BY <1>1, Forwards
  <1>3. Glued(texts, 0, [i \in 1..0 |-> <<>>])
    <2>1. 1..0 = {}
      OBVIOUS
    <2> QED BY <2>1 DEF Glued
  <1>4. CASE n = 0
    BY <1>3, <1>4
  <1>5. CASE n # 0
    <2>1. n \in T
      BY <1>2, <1>5
    <2> QED BY <2>1
  <1> QED BY <1>4, <1>5

(* And FlattenSeq is what it ends with. *)
LEMMA FlattenIs ==
    ASSUME NEW texts, Len(texts) \in Nat \ {0}
    PROVE  \E f : Glued(texts, Len(texts), f) /\ FlattenSeq(texts) = f[Len(texts)]
  <1> DEFINE F == CHOOSE f : Glued(texts, Len(texts), f)
  <1>1. Glued(texts, Len(texts), F)
    BY GluedExists
  <1>2. FlattenSeq(texts) = F[Len(texts)]
    BY DEF FlattenSeq, Glued, Glue
  <1> QED BY <1>1, <1>2

(* Glued texts are a text. *)
LEMMA GluedType ==
    ASSUME NEW S, NEW texts \in Seq(Seq(S)), NEW f, Glued(texts, Len(texts), f)
    PROVE  \A i \in 1..Len(texts) : f[i] \in Seq(S)
  <1> DEFINE n == Len(texts)
             T == {i \in 1..n : f[i] \in Seq(S)}
  <1>1. n \in Nat /\ \A i \in 1..n : texts[i] \in Seq(S)
    BY LenProperties, ElementOfSeq
  <1>2. ASSUME NEW i \in 1..n, \A j \in 1..(i - 1) : j \in T PROVE i \in T
    <2>1. f[i] = Glue(texts, f, i)
      BY DEF Glued
    <2>2. texts[i] \in Seq(S)
      BY <1>1
    <2>3. i # 1 => f[i - 1] \in Seq(S)
      <3>1. i # 1 => i - 1 \in 1..(i - 1)
        BY <1>1
      <3> QED BY <1>2, <3>1
    <2>4. f[i] \in Seq(S)
      BY <2>1, <2>2, <2>3, ConcatProperties DEF Glue
    <2> QED BY <2>4
  <1> HIDE DEF n, T
  <1>3. \A i \in 1..n : i \in T
    BY <1>1, <1>2, Forwards
  <1> QED BY <1>3 DEF n, T

(* No texts are no text. *)
LEMMA FlattenNothing == FlattenSeq(<<>>) = <<>>
  BY EmptySeq DEF FlattenSeq

(* Texts may be glued in any order. *)
LEMMA Associate ==
    ASSUME NEW S, NEW a \in Seq(S), NEW b \in Seq(S), NEW c \in Seq(S),
           NEW ab, NEW bc, ab = a \o b, bc = b \o c
    PROVE  ab \o c = a \o bc
  OBVIOUS

(* One text before the others. *)
LEMMA FlattenNext ==
    ASSUME NEW S, NEW t \in Seq(S), NEW texts \in Seq(Seq(S))
    PROVE  /\ FlattenSeq(texts) \in Seq(S)
           /\ FlattenSeq(<<t>> \o texts) = t \o FlattenSeq(texts)
  <1> DEFINE n == Len(texts)
             all == <<t>> \o texts
  <1>1. n \in Nat /\ \A i \in 1..n : texts[i] \in Seq(S)
    BY LenProperties, ElementOfSeq
  <1>2. <<t>> \in Seq(Seq(S)) /\ Len(<<t>>) = 1 /\ <<t>>[1] = t
    OBVIOUS
  <1>3. /\ all \in Seq(Seq(S)) /\ Len(all) = n + 1
        /\ \A i \in 1..(n + 1) : all[i] = IF i <= 1 THEN <<t>>[i] ELSE texts[i - 1]
    BY <1>1, <1>2, ConcatProperties
  <1> HIDE DEF all
  <1>4. all[1] = t /\ \A i \in 1..n : all[i + 1] = texts[i]
    <2>1. 1 \in 1..(n + 1)
      BY <1>1
    <2>2. ASSUME NEW i \in 1..n PROVE all[i + 1] = texts[i]
      <3>1. i + 1 \in 1..(n + 1) /\ ~(i + 1 <= 1) /\ (i + 1) - 1 = i
        BY <1>1
      <3> QED BY <1>3, <3>1
    <2> QED BY <1>2, <1>3, <2>1, <2>2
  <1>5. n + 1 \in Nat \ {0}
    BY <1>1
  <1>6. PICK g : Glued(all, n + 1, g) /\ FlattenSeq(all) = g[n + 1]
    BY <1>3, <1>5, FlattenIs
  <1>7. g[1] = t
    <2>1. 1 \in 1..(n + 1)
      BY <1>1
    <2>2. g[1] = Glue(all, g, 1)
      BY <1>6, <2>1 DEF Glued
    <2> QED BY <1>4, <2>2 DEF Glue
  <1>8. CASE n = 0
    <2>1. FlattenSeq(texts) = <<>> /\ <<>> \in Seq(S)
      BY <1>8, EmptySeq, FlattenNothing
    <2>2. FlattenSeq(all) = t
      BY <1>6, <1>7, <1>8
    <2> QED BY <2>1, <2>2, ConcatEmptySeq DEF all
  <1>9. CASE n # 0
    <2>1. PICK f : Glued(texts, n, f) /\ FlattenSeq(texts) = f[n]
      BY <1>1, <1>9, FlattenIs
    <2>2. \A i \in 1..n : f[i] \in Seq(S)
      BY <2>1, GluedType
    <2> DEFINE T == {i \in 1..n : g[i + 1] = t \o f[i]}
    <2>3. ASSUME NEW i \in 1..n, \A j \in 1..(i - 1) : j \in T PROVE i \in T
      <3>1. i + 1 \in 1..(n + 1) /\ i + 1 # 1 /\ (i + 1) - 1 = i
        BY <1>1
      <3>2. g[i + 1] = g[i] \o texts[i]
        <4>1. g[i + 1] = Glue(all, g, i + 1)
          BY <1>6, <3>1 DEF Glued
        <4>2. g[i + 1] = g[i] \o all[i + 1]
          BY <3>1, <4>1 DEF Glue
        <4> QED BY <1>4, <4>2
      <3>3. f[i] = Glue(texts, f, i)
        BY <2>1 DEF Glued
      <3>4. CASE i = 1
        BY <1>7, <3>2, <3>3, <3>4 DEF Glue
      <3>5. CASE i # 1
        <4>1. i - 1 \in 1..(i - 1) /\ (i - 1) + 1 = i /\ i - 1 \in 1..n
          BY <1>1, <3>5
        <4>2. g[i] = t \o f[i - 1]
          BY <2>3, <4>1
        <4>3. f[i] = f[i - 1] \o texts[i]
          BY <3>3, <3>5 DEF Glue
        <4>4. f[i - 1] \in Seq(S) /\ texts[i] \in Seq(S)
          BY <1>1, <2>2, <4>1
        <4>5. g[i] \o texts[i] = t \o f[i]
          <5> DEFINE a == f[i - 1]
                     b == texts[i]
                     c == g[i]
                     d == f[i]
          <5>1. a \in Seq(S) /\ b \in Seq(S) /\ c = t \o a /\ d = a \o b
            BY <4>2, <4>3, <4>4
          <5> HIDE DEF a, b, c, d
          <5>2. c \o b = t \o d
            BY ONLY t \in Seq(S), <5>1, SMT
          <5> QED BY <5>2 DEF a, b, c, d
        <4> QED BY <3>2, <4>5
      <3> QED BY <3>4, <3>5
    <2> HIDE DEF T
    <2>4. n \in T
      <3>1. \A i \in 1..n : i \in T
        BY <1>1, <2>3, Forwards
      <3> QED BY <1>1, <1>9, <3>1
    <2>5. n \in 1..n
      BY <1>1, <1>9
    <2> QED BY <1>6, <2>1, <2>2, <2>4, <2>5 DEF T, all
  <1> QED BY <1>8, <1>9

-----------------------------------------------------------------------------
(* What is written, item by item. *)
LEMMA WriteNext ==
    ASSUME NEW x \in Parts, NEW items \in Seq(Parts)
    PROVE  /\ Write(items) \in Seq(Char)
           /\ Write(<<x>> \o items) = Written(x) \o Write(items)
  <1> DEFINE texts == [i \in DOMAIN items |-> Written(items[i])]
             all == <<x>> \o items
             n == Len(items)
  <1>1. n \in Nat /\ DOMAIN items = 1..n /\ \A i \in 1..n : items[i] \in Parts
    BY LenProperties, ElementOfSeq
  <1>2. /\ DOMAIN all = 1..(n + 1)
        /\ \A i \in 1..(n + 1) : all[i] = IF i <= 1 THEN <<x>>[i] ELSE items[i - 1]
    <2>1. <<x>> \in Seq(Parts) /\ Len(<<x>>) = 1
      OBVIOUS
    <2>2. all \in Seq(Parts) /\ Len(all) = 1 + n
      BY <2>1, ConcatProperties
    <2>3. \A i \in 1..(1 + n) : all[i] = IF i <= 1 THEN <<x>>[i] ELSE items[i - 1]
      BY <2>1, ConcatProperties
    <2>4. 1 + n = n + 1
      BY <1>1
    <2> QED BY <2>2, <2>3, <2>4, LenProperties
  <1>3. texts \in Seq(Seq(Char)) /\ Len(texts) = n
    <2>1. texts \in [1..n -> Seq(Char)]
      BY <1>1, WrittenType
    <2> QED BY <1>1, <2>1
  <1>4. Written(x) \in Seq(Char)
    BY WrittenType
  <1>5. [i \in DOMAIN all |-> Written(all[i])] = <<Written(x)>> \o texts
    <2> DEFINE more == [i \in DOMAIN all |-> Written(all[i])]
               glued == <<Written(x)>> \o texts
    <2>1. <<Written(x)>> \in Seq(Seq(Char)) /\ Len(<<Written(x)>>) = 1
      BY <1>4
    <2>2. glued \in Seq(Seq(Char)) /\ Len(glued) = 1 + n
      BY <1>3, <2>1, ConcatProperties
    <2>3. \A i \in 1..(1 + n) : glued[i] = IF i <= 1 THEN <<Written(x)>>[i] ELSE texts[i - 1]
      BY <1>3, <2>1, ConcatProperties
    <2>4. 1 + n = n + 1
      BY <1>1
    <2>5. ASSUME NEW i \in 1..(n + 1) PROVE more[i] = glued[i]
      <3>1. CASE i = 1
        BY <1>2, <2>3, <2>4, <3>1
      <3>2. CASE i # 1
        <4>1. ~(i <= 1) /\ i - 1 \in 1..n
          BY <1>1, <3>2
        <4> QED BY <1>1, <1>2, <2>3, <2>4, <4>1
      <3> QED BY <3>1, <3>2
    <2>6. glued = [i \in 1..(n + 1) |-> glued[i]]
      BY <2>2, <2>4, LenProperties
    <2>7. more = [i \in 1..(n + 1) |-> more[i]]
      BY <1>2
    <2> HIDE DEF more, glued
    <2>8. more = glued
      BY <2>5, <2>6, <2>7
    <2> QED BY <2>8 DEF more, glued
  <1> HIDE DEF texts, all
  <1>6. FlattenSeq(texts) \in Seq(Char) /\ FlattenSeq(<<Written(x)>> \o texts) = Written(x) \o FlattenSeq(texts)
    BY <1>3, <1>4, FlattenNext
  <1> QED BY <1>5, <1>6 DEF Write, texts, all

(* No items are written as nothing. *)
LEMMA WriteNothing == Write(<<>>) = <<>>
  <1>1. [i \in DOMAIN <<>> |-> Written(<<>>[i])] = <<>>
    OBVIOUS
  <1> QED BY <1>1, FlattenNothing DEF Write

-----------------------------------------------------------------------------
(* Nothing is dropped *)

NoEmptyBraces(p) == \A i \in 1..(Len(p) - 1) : ~(p[i] = "{" /\ p[i + 1] = "}")

(* An item is written as the piece of the pattern it was read from. *)
LEMMA ItemSpelled ==
    ASSUME NEW p \in Seq(Char), NEW i \in 1..Len(p), p[i] = "%", NoEmptyBraces(p),
           ItemAt(p, i).closed
    PROVE  Written(Item(ItemAt(p, i).str, ItemAt(p, i).fmt)) = SubSeq(p, i, ItemAt(p, i).next - 1)
  <1> DEFINE n == Len(p)
             e == NameEnd(p, i)
             c == Close(p, i)
             w == ItemAt(p, i)
             x == Item(w.str, w.fmt)
  <1>1. \A j \in 1..n : p[j] \in Char
    BY ElementOfSeq
  <1>2. n \in Nat
    BY LenProperties
  <1>3. i \in 1..n /\ e \in (i + 1)..(n + 1)
    BY NameEndIs
  <1>4. w.str = SubSeq(p, i + 1, e - 1)
    BY ItemAtIs
  <1>5. <<"%">> \o w.str = SubSeq(p, i, e - 1)
    <2>1. e - 1 \in i..n
      BY <1>2, <1>3
    <2> HIDE DEF e, w
    <2> QED BY <1>4, <2>1, SubSeqRecursiveFirst
  <1>6. x.item = TRUE /\ x.text = w.str /\ x.fmt = w.fmt
    BY DEF Item
  <1>7. SubSeq(p, i, e - 1) \in Seq(Char)
    <2>1. \A j \in i..(e - 1) : j \in 1..n
      BY <1>2, <1>3
    <2>2. i \in Int /\ e - 1 \in Int
      BY <1>2, <1>3
    <2> QED BY <1>1, <2>1, <2>2, SubSeqProperties
  <1>8. CASE ~Braces(p, i)
    <2>1. w.fmt = <<>> /\ w.next = e
      BY <1>8, ItemAtIs
    <2>2. Written(x) = SubSeq(p, i, e - 1) \o <<>>
      <3> HIDE DEF x, e, w
      <3> QED BY <1>5, <1>6, <2>1 DEF Written
    <2> QED BY <1>7, <2>1, <2>2, ConcatEmptySeq
  <1>9. CASE Braces(p, i)
    <2>1. e \in 1..n
      <3>1. e <= n
        BY <1>9 DEF Braces
      <3>2. e \in 1..n
        <4> HIDE DEF e, n
        <4> QED BY <1>2, <1>3, <3>1
      <3> QED BY <3>2
    <2>2. p[e] = "{"
      BY <1>9 DEF Braces
    <2>3. w.closed = (c <= n) /\ w.next = c + 1 /\ w.fmt = SubSeq(p, e + 1, c - 1)
      BY <1>9, ItemAtIs
    <2>4. c \in (e + 1)..(n + 1) /\ c <= n
      BY <1>9, <2>3, CloseIs
    <2> HIDE DEF e, c, n, w, x
    <2>5. p[c] = "}"
      BY <1>9, <2>4, CloseIs DEF c, n
    <2>6. c # e + 1
      <3>1. c = e + 1 => e \in 1..(n - 1)
        BY <1>2, <2>1, <2>4
      <3> QED BY <2>2, <2>5, <3>1 DEF NoEmptyBraces, n
    <2>7. c \in (e + 2)..n
      BY <1>2, <2>1, <2>4, <2>6
    <2>8. w.fmt # <<>>
      <3> DEFINE t == SubSeq(p, e + 1, c - 1)
      <3>1. \A j \in (e + 1)..(c - 1) : j \in 1..n
        BY <1>2, <2>1, <2>7
      <3>2. e + 1 \in Int /\ c - 1 \in Int /\ e + 1 <= c - 1 /\ (c - 1) - (e + 1) + 1 # 0
        BY <1>2, <2>1, <2>7
      <3>3. Len(t) = (c - 1) - (e + 1) + 1
        BY <1>1, <3>1, <3>2, SubSeqProperties
      <3>4. t # <<>>
        BY <3>2, <3>3, EmptySeq
      <3> QED BY <2>3, <3>4
    <2>9. <<"{">> \o w.fmt = SubSeq(p, e, c - 1)
      <3>1. c - 1 \in e..n
        BY <1>2, <2>1, <2>7
      <3> QED BY <2>2, <2>1, <2>3, <3>1, SubSeqRecursiveFirst DEF n
    <2>10. <<"{">> \o w.fmt \o <<"}">> = SubSeq(p, e, c)
      <3>1. c \in e..n
        BY <1>2, <2>1, <2>7
      <3>2. SubSeq(p, e, c) = SubSeq(p, e, c - 1) \o <<p[c]>>
        BY <2>1, <3>1, SubSeqRecursiveSecond DEF n
      <3> QED BY <2>5, <2>9, <3>2
    <2>11. Written(x) = SubSeq(p, i, e - 1) \o SubSeq(p, e, c)
      BY <1>5, <1>6, <2>8, <2>10 DEF Written
    <2>12. SubSeq(p, i, e - 1) \o SubSeq(p, e, c) = SubSeq(p, i, c)
      <3>1. i \in 1..(n + 1) /\ e - 1 \in (i - 1)..n /\ c \in (e - 1)..n /\ (e - 1) + 1 = e
        BY <1>2, <1>3, <2>1, <2>7
      <3> QED BY <3>1, ConcatAdjacentSubSeq DEF n
    <2>13. w.next - 1 = c
      BY <1>2, <2>3, <2>7
    <2> QED BY <2>11, <2>12, <2>13 DEF x, w
  <1> QED BY <1>8, <1>9

(* Only a percent sign may be more than a literal. *)
LEMMA LiteralSign ==
    ASSUME NEW p, NEW i, ~IsLiteral(p, i)
    PROVE  p[i] = "%"
  BY DEF IsLiteral

(* What was read from a position on is written as it stood. *)
LEMMA RestSpelled ==
    ASSUME NEW p \in Seq(Char), NEW f, Parsed(p, 1, f), NoEmptyBraces(p)
    PROVE  \A i \in 1..(Len(p) + 1) :
               ~f[i].error => Write(f[i].items) = SubSeq(p, i, Len(p))
  <1> DEFINE n == Len(p) + 1
             T == {i \in 1..n : ~f[i].error => Write(f[i].items) = SubSeq(p, i, Len(p))}
  <1>1. n \in Nat /\ Len(p) \in Nat
    BY LenProperties
  <1>2. \A i \in 1..n : f[i].error \in BOOLEAN /\ f[i].items \in Seq(Parts)
    BY RestType
  <1>3. ASSUME NEW i \in 1..n, \A j \in (i + 1)..n : j \in T PROVE i \in T
    <2>1. f[i] = Rest(p, f, i)
      BY DEF Parsed
    <2>2. CASE i > Len(p)
      <3>1. f[i] = [error |-> FALSE, items |-> <<>>]
        BY <2>1, <2>2 DEF Rest
      <3>2. SubSeq(p, i, Len(p)) = <<>>
        BY <1>1, <2>2, SubSeqEmpty
      <3>3. Write(f[i].items) = SubSeq(p, i, Len(p))
        BY <3>1, <3>2, WriteNothing
      <3> QED BY <3>3
    <2>3. CASE ~(i > Len(p))
      <3>1. i \in 1..Len(p) /\ i + 1 \in (i + 1)..n /\ i + 1 \in 1..n
        BY <1>1, <2>3
      <3>2. CASE IsLiteral(p, i)
        <4>1. f[i] = [f[i + 1] EXCEPT !.items = <<Literal(p[i])>> \o @]
          BY <2>1, <2>3, <3>2 DEF Rest
        <4>2. f[i + 1] \in [error : BOOLEAN, items : Seq(Parts)]
          BY <3>1, RestType
        <4>3. f[i].error = f[i + 1].error /\ f[i].items = <<Literal(p[i])>> \o f[i + 1].items
          BY <4>1, <4>2
        <4>4. p[i] \in Char
          BY <3>1, ElementOfSeq
        <4>5. Write(f[i].items) = <<p[i]>> \o Write(f[i + 1].items)
          <5> DEFINE x == Literal(p[i])
                     r == f[i + 1].items
          <5>1. x \in Parts /\ Written(x) = <<p[i]>> /\ r \in Seq(Parts)
            BY <4>2, <4>4, PartTypes
          <5> HIDE DEF x, r
          <5>2. Write(<<x>> \o r) = Written(x) \o Write(r)
            BY <5>1, WriteNext
          <5> QED BY <4>3, <5>1, <5>2 DEF x, r
        <4>6. SubSeq(p, i, Len(p)) = <<p[i]>> \o SubSeq(p, i + 1, Len(p))
          <5>1. Len(p) \in i..Len(p)
            BY <1>1, <3>1
          <5> QED BY <3>1, <5>1, SubSeqRecursiveFirst
        <4> QED BY <1>3, <3>1, <4>3, <4>5, <4>6
      <3>3. CASE ~IsLiteral(p, i) /\ ~ItemAt(p, i).closed
        <4>1. f[i] = [f[i + 1] EXCEPT !.error = TRUE]
          BY <2>1, <2>3, <3>3 DEF Rest
        <4>2. f[i + 1] \in [error : BOOLEAN, items : Seq(Parts)]
          BY <3>1, RestType
        <4> QED BY <4>1, <4>2
      <3>4. CASE ~IsLiteral(p, i) /\ ItemAt(p, i).closed
        <4> DEFINE w == ItemAt(p, i)
                   k == w.next
        <4>1. w.str \in Seq(Char) /\ w.fmt \in Seq(Char) /\ k \in (i + 1)..n
          BY <3>1, <3>4, ItemAtType
        <4>2. f[i] = [error |-> f[k].error \/ ~\E d \in Known : w.str = <<d>>,
                      items |-> <<Item(w.str, w.fmt)>> \o f[k].items]
          BY <2>1, <2>3, <3>4 DEF Rest
        <4>3. k \in 1..n
          BY <1>1, <4>1
        <4>4. f[i].items = <<Item(w.str, w.fmt)>> \o f[k].items
          BY <4>2
        <4>5. ~f[i].error => ~f[k].error
          <5> DEFINE a == f[k].error
                     b == \E d \in Known : w.str = <<d>>
                     s == <<Item(w.str, w.fmt)>> \o f[k].items
          <5>1. f[i] = [error |-> a \/ ~b, items |-> s]
            BY <4>2
          <5> HIDE DEF a, b, s
          <5>2. f[i].error = (a \/ ~b)
            BY <5>1
          <5>3. ~f[i].error => ~a
            BY <5>2
          <5> QED BY <5>3 DEF a
        <4>6. Write(f[i].items) = Written(Item(w.str, w.fmt)) \o Write(f[k].items)
          BY <1>2, <4>1, <4>3, <4>4, PartTypes, WriteNext
        <4>7. Written(Item(w.str, w.fmt)) = SubSeq(p, i, k - 1)
          BY <3>1, <3>4, LiteralSign, ItemSpelled
        <4>8. k \in T
          BY <1>3, <4>1
        <4> HIDE DEF w, k
        <4>9. SubSeq(p, i, k - 1) \o SubSeq(p, k, Len(p)) = SubSeq(p, i, Len(p))
          <5>1. /\ i \in 1..(Len(p) + 1) /\ k - 1 \in (i - 1)..Len(p)
                /\ Len(p) \in (k - 1)..Len(p) /\ (k - 1) + 1 = k
            BY <1>1, <3>1, <4>1
          <5> QED BY <5>1, ConcatAdjacentSubSeq
        <4> QED BY <4>5, <4>6, <4>7, <4>8, <4>9
      <3> QED BY <3>2, <3>3, <3>4
    <2> QED BY <2>2, <2>3
  <1> HIDE DEF n, T
  <1>4. \A i \in 1..n : i \in T
    BY <1>1, <1>3, Backwards
  <1> QED BY <1>4 DEF T, n

(* So every accepted pattern is written as it was read. *)
LEMMA AcceptedIntact ==
    ASSUME NEW p \in Seq(Char), ~Parse(p).error
    PROVE  Intact(p)
  <1>1. CASE NoEmptyBraces(p)
    <2>1. PICK f : Parsed(p, 1, f) /\ Parse(p) = f[1]
      BY ParseIs
    <2>2. 1 \in 1..(Len(p) + 1)
      BY LenProperties
    <2>3. Write(f[1].items) = SubSeq(p, 1, Len(p))
      BY <1>1, <2>1, <2>2, RestSpelled
    <2>4. SubSeq(p, 1, Len(p)) = p
      BY SubSeqFull
    <2> QED BY <2>1, <2>3, <2>4 DEF Intact
  <1>2. CASE ~NoEmptyBraces(p)
    BY <1>2 DEF NoEmptyBraces, Intact
  <1> QED BY <1>1, <1>2

-----------------------------------------------------------------------------
(* What is written is read back *)

(* What a pattern is written from are parts: a literal, or a letter and a *)
(* format without a closing brace.                                        *)
LEMMA AtomIs ==
    ASSUME NEW x \in Atom
    PROVE  /\ x \in Parts
           /\ \/ \E c \in Char \ {"%"} : x = Literal(c)
              \/ \E k \in Known, f \in Seq(Char \ {"}"}) : x = Item(<<k>>, f)
  <1>1. CASE \E c \in Char \ {"%"} : x = Literal(c)
    BY <1>1, PartTypes
  <1>2. CASE \E k \in Known, f \in Formats : x = Item(<<k>>, f)
    <2>1. PICK k \in Known, f \in Formats : x = Item(<<k>>, f)
      BY <1>2
    <2>2. f \in Seq(Char \ {"}"})
      BY PatternAssumption
    <2>3. f \in Seq(Char)
      BY <2>2, SeqMonotonic
    <2>4. k \in Char /\ <<k>> \in Seq(Char)
      BY DEF Char, Letters
    <2> QED BY <2>1, <2>2, <2>3, <2>4, PartTypes
  <1> DEFINE A == {Literal(c) : c \in Char \ {"%"}}
             B == {Item(<<k>>, f) : k \in Known, f \in Formats}
  <1>3. x \in A \/ x \in B
    BY DEF Atom
  <1>4. x \in A => \E c \in Char \ {"%"} : x = Literal(c)
    OBVIOUS
  <1>5. x \in B => \E k \in Known, f \in Formats : x = Item(<<k>>, f)
    OBVIOUS
  <1> HIDE DEF A, B
  <1> QED BY <1>1, <1>2, <1>3, <1>4, <1>5

(* The signs are no letters, and a format does not end before its brace. *)
LEMMA SignsApart ==
    /\ "%" \in Char \ (Letters \cup {"}"}) /\ "{" \in Char \ (Letters \cup {"}"})
    /\ Other \subseteq Char \ (Letters \cup {"}"}) /\ "{" \notin Other /\ "%" \notin Known
    /\ Known \cap (Char \ (Letters \cup {"}"})) = {}
  BY PatternAssumption DEF Char, Letters, Signs

(* A character is a text. *)
LEMMA Single == \A c \in Char : <<c>> \in Seq(Char)
  OBVIOUS

(* A character before a text, and behind one. *)
LEMMA Prepended ==
    ASSUME NEW a \in Seq(Char), NEW d \in Char
    PROVE  /\ <<d>> \o a \in Seq(Char) /\ Len(<<d>> \o a) = Len(a) + 1
           /\ (<<d>> \o a)[1] = d
           /\ \A j \in 1..Len(a) : (<<d>> \o a)[j + 1] = a[j]
  <1> DEFINE s == <<d>>
             n == Len(a)
             r == s \o a
  <1>1. n \in Nat
    BY LenProperties
  <1>2. s \in Seq(Char) /\ Len(s) = 1 /\ s[1] = d
    OBVIOUS
  <1> HIDE DEF s
  <1>3. /\ r \in Seq(Char) /\ Len(r) = 1 + n
        /\ \A j \in 1..(1 + n) : r[j] = IF j <= 1 THEN s[j] ELSE a[j - 1]
    <2>1. r \in Seq(Char) /\ Len(r) = Len(s) + n
      BY <1>2, ConcatProperties
    <2>2. \A j \in 1..(Len(s) + n) : r[j] = IF j <= Len(s) THEN s[j] ELSE a[j - Len(s)]
      BY <1>2, ConcatProperties
    <2> HIDE DEF r, n
    <2> QED BY <1>2, <2>1, <2>2
  <1> HIDE DEF n, r
  <1>4. Len(r) = n + 1
    BY <1>1, <1>3
  <1>5. r[1] = d
    <2>1. 1 \in 1..(1 + n)
      BY <1>1
    <2> QED BY <1>2, <1>3, <2>1
  <1>6. ASSUME NEW j \in 1..n PROVE r[j + 1] = a[j]
    <2>1. j + 1 \in 1..(1 + n) /\ ~(j + 1 <= 1) /\ (j + 1) - 1 = j
      BY <1>1
    <2> QED BY <1>3, <2>1
  <1> QED BY <1>3, <1>4, <1>5, <1>6 DEF r, n, s

LEMMA Appended ==
    ASSUME NEW a \in Seq(Char), NEW d \in Char
    PROVE  /\ a \o <<d>> \in Seq(Char) /\ Len(a \o <<d>>) = Len(a) + 1
           /\ (a \o <<d>>)[Len(a) + 1] = d
           /\ \A j \in 1..Len(a) : (a \o <<d>>)[j] = a[j]
  <1> DEFINE s == <<d>>
             n == Len(a)
             r == a \o s
  <1>1. n \in Nat
    BY LenProperties
  <1>2. s \in Seq(Char) /\ Len(s) = 1 /\ s[1] = d
    OBVIOUS
  <1> HIDE DEF s
  <1>3. /\ r \in Seq(Char) /\ Len(r) = n + 1
        /\ \A j \in 1..(n + 1) : r[j] = IF j <= n THEN a[j] ELSE s[j - n]
    BY <1>2, ConcatProperties
  <1> HIDE DEF n, r
  <1>4. r[n + 1] = d
    <2>1. n + 1 \in 1..(n + 1) /\ ~(n + 1 <= n) /\ (n + 1) - n = 1
      BY <1>1
    <2> QED BY <1>2, <1>3, <2>1
  <1>5. ASSUME NEW j \in 1..n PROVE r[j] = a[j]
    <2>1. j \in 1..(n + 1) /\ j <= n
      BY <1>1
    <2> QED BY <1>3, <2>1
  <1> QED BY <1>3, <1>4, <1>5 DEF r, n, s

(* Character by character, what is written of an item with a format. *)
Braced(x, k, f) ==
    /\ Len(x) = Len(f) + 4 /\ x[1] = "%" /\ x[2] = k /\ x[3] = "{"
    /\ \A j \in 1..Len(f) : x[j + 3] = f[j]
    /\ x[Len(f) + 4] = "}"

LEMMA WrittenFormat ==
    ASSUME NEW k \in Known, NEW f \in Seq(Char), f # <<>>
    PROVE  Braced(Written(Item(<<k>>, f)), k, f)
  <1> DEFINE x == Written(Item(<<k>>, f))
             a == <<"%">> \o <<k>>
             b == <<"{">> \o f
             c == b \o <<"}">>
             n == Len(f)
  <1>1. n \in Nat
    BY LenProperties
  <1>2. k \in Char /\ "%" \in Char /\ "{" \in Char /\ "}" \in Char
    BY DEF Char, Letters, Signs
  <1>3. a \in Seq(Char) /\ Len(a) = 2 /\ a[1] = "%" /\ a[2] = k
    <2> DEFINE d == <<k>>
    <2>1. <<k>> \in Seq(Char)
      BY <1>2, Single
    <2>2. d \in Seq(Char) /\ Len(d) = 1 /\ d[1] = k
      BY <2>1
    <2> HIDE DEF d
    <2> DEFINE r == <<"%">> \o d
    <2>3. /\ r \in Seq(Char) /\ Len(r) = Len(d) + 1 /\ r[1] = "%"
          /\ \A j \in 1..Len(d) : r[j + 1] = d[j]
      BY <1>2, <2>2, Prepended
    <2> HIDE DEF r
    <2>4. Len(r) = 2 /\ r[2] = k
      <3>1. 1 \in 1..1 /\ 1 + 1 = 2
        OBVIOUS
      <3> QED BY <2>2, <2>3, <3>1
    <2> QED BY <2>3, <2>4 DEF r, d
  <1>4. /\ b \in Seq(Char) /\ Len(b) = n + 1 /\ b[1] = "{"
        /\ \A j \in 1..n : b[j + 1] = f[j]
    BY <1>2, Prepended
  <1> HIDE DEF a, b
  <1>5. /\ c \in Seq(Char) /\ Len(c) = (n + 1) + 1 /\ c[(n + 1) + 1] = "}"
        /\ \A j \in 1..(n + 1) : c[j] = b[j]
    <2>1. /\ c \in Seq(Char) /\ Len(c) = Len(b) + 1 /\ c[Len(b) + 1] = "}"
          /\ \A j \in 1..Len(b) : c[j] = b[j]
      BY <1>2, <1>4, Appended
    <2> HIDE DEF c, n
    <2> QED BY <1>4, <2>1
  <1> HIDE DEF c, n
  <1>6. c[1] = "{" /\ c[n + 2] = "}" /\ Len(c) = n + 2
    <2>1. 1 \in 1..(n + 1) /\ n + 2 = (n + 1) + 1
      BY <1>1
    <2> QED BY <1>4, <1>5, <2>1
  <1>7. \A j \in 1..n : c[j + 1] = f[j]
    <2>1. \A j \in 1..n : j + 1 \in 1..(n + 1)
      BY <1>1
    <2> QED BY <1>4, <1>5, <2>1
  <1>8. x = a \o c
    <2>1. Item(<<k>>, f).item = TRUE /\ Item(<<k>>, f).text = <<k>> /\ Item(<<k>>, f).fmt = f
      BY DEF Item
    <2> QED BY <2>1 DEF Written, a, b, c
  <1> HIDE DEF x
  <1>9. /\ Len(x) = 2 + (n + 2)
        /\ \A j \in 1..(2 + (n + 2)) : x[j] = IF j <= 2 THEN a[j] ELSE c[j - 2]
    <2>1. Len(a \o c) = Len(a) + Len(c)
      BY <1>3, <1>5, ConcatProperties
    <2>2. \A j \in 1..(Len(a) + Len(c)) : (a \o c)[j] = IF j <= Len(a) THEN a[j] ELSE c[j - Len(a)]
      BY <1>3, <1>5, ConcatProperties
    <2> QED BY <1>3, <1>6, <1>8, <2>1, <2>2
  <1>10. x[1] = "%" /\ x[2] = k
    <2>1. 1 \in 1..(2 + (n + 2)) /\ 2 \in 1..(2 + (n + 2))
      BY <1>1
    <2> QED BY <1>3, <1>9, <2>1
  <1>11. x[3] = "{" /\ x[n + 4] = "}"
    <2>1. /\ 3 \in 1..(2 + (n + 2)) /\ ~(3 <= 2) /\ 3 - 2 = 1
          /\ n + 4 \in 1..(2 + (n + 2)) /\ ~(n + 4 <= 2) /\ (n + 4) - 2 = n + 2
      BY <1>1
    <2> QED BY <1>6, <1>9, <2>1
  <1>12. ASSUME NEW j \in 1..n PROVE x[j + 3] = f[j]
    <2>1. j + 3 \in 1..(2 + (n + 2)) /\ ~(j + 3 <= 2) /\ (j + 3) - 2 = j + 1
      BY <1>1
    <2> QED BY <1>7, <1>9, <2>1
  <1>13. Len(x) = n + 4
    BY <1>1, <1>9
  <1> QED BY <1>10, <1>11, <1>12, <1>13 DEF Braced, x, n

(* What is at a position is read as the item of a name and a format. *)
ReadsItem(p, i, k, fmt, next) ==
    /\ ~IsLiteral(p, i) /\ ItemAt(p, i).closed
    /\ ItemAt(p, i).str = <<k>> /\ ItemAt(p, i).fmt = fmt
    /\ ItemAt(p, i).next = next

(* A name of one letter is read from the percent sign before it. *)
LEMMA NameRead ==
    ASSUME NEW p \in Seq(Char), NEW i \in 1..(Len(p) - 1), NEW k \in Known,
           p[i] = "%", p[i + 1] = k,
           i + 2 <= Len(p) => p[i + 2] \in Char \ (Letters \cup {"}"})
    PROVE  ~IsLiteral(p, i) /\ NameEnd(p, i) = i + 2 /\ ItemAt(p, i).str = <<k>>
  <1> DEFINE S == Char \ (Letters \cup {"}"})
             e == i + 2
  <1>1. Len(p) \in Nat /\ i \in 1..(Len(p) - 1)
    BY LenProperties
  <1>2. k \notin S /\ k # "%"
    BY SignsApart
  <1>3. ~IsLiteral(p, i)
    BY <1>2 DEF IsLiteral
  <1>4. i + 1 \in 1..(Len(p) + 1) /\ e \in (i + 1)..(Len(p) + 1)
    BY ONLY <1>1
  <1>5. \A j \in (i + 1)..(e - 1) : p[j] \notin S
    <2>1. \A j \in (i + 1)..(e - 1) : j = i + 1
      BY ONLY <1>1
    <2> QED BY <1>2, <2>1
  <1> HIDE DEF S
  <1>6. e <= Len(p) => p[e] \in S
    BY DEF S
  <1> HIDE DEF e
  <1>7. FirstOf(p, i + 1, S) = e
    BY <1>1, <1>4, <1>5, <1>6, FirstOfAt
  <1>8. NameEnd(p, i) = e
    BY <1>7 DEF NameEnd, S
  <1>9. ItemAt(p, i).str = SubSeq(p, i + 1, i + 1)
    <2>1. e - 1 = i + 1
      BY ONLY <1>1 DEF e
    <2> QED BY <1>8, <2>1, ItemAtIs
  <1>10. SubSeq(p, i + 1, i + 1) = <<k>>
    <2> DEFINE m == i + 1
    <2>1. m \in 1..Len(p) /\ m \in m..Len(p) /\ m + 1 \in Int /\ m \in Int /\ m < m + 1
      BY ONLY <1>1
    <2>2. p[m] = k /\ <<k>> \in Seq(Char)
      BY Single DEF Char, Letters
    <2> HIDE DEF m
    <2>3. SubSeq(p, m, m) = <<p[m]>> \o SubSeq(p, m + 1, m)
      BY <2>1, SubSeqRecursiveFirst
    <2>4. SubSeq(p, m + 1, m) = <<>>
      BY <2>1, SubSeqEmpty
    <2> QED BY <2>2, <2>3, <2>4, ConcatEmptySeq DEF m
  <1> QED BY <1>3, <1>8, <1>9, <1>10 DEF e

(* An item without a format ends where no letter and no brace follows. *)
LEMMA PlainItemRead ==
    ASSUME NEW p \in Seq(Char), NEW i \in 1..(Len(p) - 1), NEW k \in Known,
           p[i] = "%", p[i + 1] = k,
           i + 2 <= Len(p) => p[i + 2] \in Other \cup {"%"}
    PROVE  ReadsItem(p, i, k, <<>>, i + 2)
  <1>1. i + 2 <= Len(p) => p[i + 2] \in Char \ (Letters \cup {"}"}) /\ p[i + 2] # "{"
    BY SignsApart
  <1>2. ~IsLiteral(p, i) /\ NameEnd(p, i) = i + 2 /\ ItemAt(p, i).str = <<k>>
    BY <1>1, NameRead
  <1>3. ~Braces(p, i)
    BY <1>1, <1>2 DEF Braces
  <1>4. ItemAt(p, i).closed /\ ItemAt(p, i).fmt = <<>> /\ ItemAt(p, i).next = i + 2
    BY <1>2, <1>3, ItemAtIs
  <1> QED BY <1>2, <1>4 DEF ReadsItem

(* A format ends at the first closing brace. *)
LEMMA FormatRead ==
    ASSUME NEW p \in Seq(Char), NEW i \in 1..(Len(p) - 1), NEW k \in Known,
           NEW f, f \in Seq(Char \ {"}"}), i + Len(f) + 3 <= Len(p),
           p[i] = "%", p[i + 1] = k, p[i + 2] = "{",
           \A j \in 1..Len(f) : p[i + 2 + j] = f[j],
           p[i + 3 + Len(f)] = "}"
    PROVE  ReadsItem(p, i, k, f, i + 4 + Len(f))
  <1> DEFINE n == Len(f)
             e == i + 2
             c == i + 3 + n
             t == SubSeq(p, e + 1, c - 1)
  <1>1. /\ Len(p) \in Nat /\ n \in Nat /\ i \in 1..(Len(p) - 1)
        /\ i + n + 3 <= Len(p)
    BY LenProperties
  <1>2. ~IsLiteral(p, i) /\ NameEnd(p, i) = e /\ ItemAt(p, i).str = <<k>>
    <2>1. p[i + 2] \in Char \ (Letters \cup {"}"})
      BY SignsApart
    <2> QED BY <2>1, NameRead
  <1>3. e <= Len(p) /\ e + 1 \in 1..(Len(p) + 1) /\ c \in (e + 1)..Len(p)
    BY ONLY <1>1
  <1>4. Braces(p, i)
    BY <1>2, <1>3 DEF Braces
  <1>5. \A j \in (e + 1)..(c - 1) : p[j] = f[j - e] /\ j - e \in 1..n /\ j \in 1..Len(p)
    <2>1. ASSUME NEW j \in (e + 1)..(c - 1)
          PROVE  j - e \in 1..n /\ i + 2 + (j - e) = j /\ j \in 1..Len(p)
      BY ONLY <1>1, j \in (e + 1)..(c - 1)
    <2> QED BY <2>1
  <1>6. \A j \in 1..n : f[j] \in Char \ {"}"}
    BY ElementOfSeq
  <1>7. Close(p, i) = c
    <2>1. \A j \in (e + 1)..(c - 1) : p[j] \notin {"}"}
      BY <1>5, <1>6
    <2>2. p[c] \in {"}"}
      OBVIOUS
    <2>3. c \in (e + 1)..(Len(p) + 1)
      BY ONLY <1>1
    <2> HIDE DEF e, c
    <2>4. FirstOf(p, e + 1, {"}"}) = c
      BY <1>1, <1>3, <2>1, <2>2, <2>3, FirstOfAt
    <2> QED BY <1>2, <2>4 DEF Close
  <1>8. t = f
    <2>1. e + 1 \in Int /\ c - 1 \in Int
      BY ONLY <1>1
    <2>2. \A j \in (e + 1)..(c - 1) : p[j] \in Char
      BY <1>5, ElementOfSeq
    <2>3. /\ t \in Seq(Char)
          /\ Len(t) = IF e + 1 <= c - 1 THEN (c - 1) - (e + 1) + 1 ELSE 0
          /\ \A j \in 1..((c - 1) - (e + 1) + 1) : t[j] = p[(e + 1) + j - 1]
      <3> DEFINE l == e + 1
                 r == c - 1
      <3>1. l \in Int /\ r \in Int /\ \A j \in l..r : p[j] \in Char
        BY <2>1, <2>2
      <3> HIDE DEF l, r
      <3>2. /\ SubSeq(p, l, r) \in Seq(Char)
            /\ Len(SubSeq(p, l, r)) = IF l <= r THEN r - l + 1 ELSE 0
            /\ \A j \in 1..(r - l + 1) : SubSeq(p, l, r)[j] = p[l + j - 1]
        BY ONLY <3>1, SubSeqProperties
      <3> QED BY <3>2 DEF l, r
    <2>4. (c - 1) - (e + 1) + 1 = n /\ (e + 1 <= c - 1 <=> n # 0)
      BY ONLY <1>1
    <2>5. Len(t) = n
      <3> HIDE DEF t, e, c, n
      <3> QED BY <2>3, <2>4
    <2>6. ASSUME NEW j \in 1..n PROVE t[j] = f[j]
      <3>1. (e + 1) + j - 1 = i + 2 + j
        BY ONLY <1>1, j \in 1..n
      <3> QED BY <2>3, <2>4, <3>1
    <2>7. f \in Seq(Char)
      BY SeqMonotonic
    <2> HIDE DEF t, n
    <2> QED BY <2>3, <2>5, <2>6, <2>7, SeqEqual DEF n
  <1>9. c + 1 = i + 4 + n /\ c <= Len(p)
    BY ONLY <1>1
  <1>10. /\ ItemAt(p, i).closed = (Close(p, i) <= Len(p))
         /\ ItemAt(p, i).next = Close(p, i) + 1
         /\ ItemAt(p, i).fmt = SubSeq(p, NameEnd(p, i) + 1, Close(p, i) - 1)
    BY <1>4, ItemAtIs
  <1>11. ItemAt(p, i).closed /\ ItemAt(p, i).fmt = f /\ ItemAt(p, i).next = i + 4 + n
    BY <1>2, <1>7, <1>8, <1>9, <1>10
  <1> QED BY <1>2, <1>11 DEF ReadsItem

(* The same of an item without a format. *)
LEMMA WrittenPlain ==
    ASSUME NEW k \in Known
    PROVE  LET x == Written(Item(<<k>>, <<>>))
           IN  x \in Seq(Char) /\ Len(x) = 2 /\ x[1] = "%" /\ x[2] = k
  <1> DEFINE d == <<k>>
             r == <<"%">> \o d
             x == Written(Item(<<k>>, <<>>))
  <1>1. k \in Char /\ "%" \in Char
    BY DEF Char, Letters, Signs
  <1>2. d \in Seq(Char) /\ Len(d) = 1 /\ d[1] = k
    BY <1>1, Single
  <1>3. Item(<<k>>, <<>>).item = TRUE /\ Item(<<k>>, <<>>).text = d /\ Item(<<k>>, <<>>).fmt = <<>>
    BY DEF Item
  <1> HIDE DEF d
  <1>4. /\ r \in Seq(Char) /\ Len(r) = Len(d) + 1 /\ r[1] = "%"
        /\ \A j \in 1..Len(d) : r[j + 1] = d[j]
    BY <1>1, <1>2, Prepended
  <1>5. x = r \o <<>>
    BY <1>3 DEF Written
  <1> HIDE DEF r, x
  <1>6. Len(r) = 2 /\ r[2] = k
    <2>1. 1 \in 1..1 /\ 1 + 1 = 2
      OBVIOUS
    <2> QED BY <1>2, <1>4, <2>1
  <1>7. x = r
    BY <1>4, <1>5, ConcatEmptySeq
  <1> QED BY <1>4, <1>6, <1>7 DEF x, d

(* What the text of an item, and of all that follow it, begins with. *)
LEMMA FirstWritten ==
    ASSUME NEW x \in Atom, NEW rest \in Seq(Char)
    PROVE  (Written(x) \o rest)[1] = IF x.item THEN "%" ELSE x.text[1]
  <1> DEFINE w == Written(x)
  <1>1. x \in Parts /\ w \in Seq(Char)
    BY AtomIs, WrittenType
  <1>2. Len(w) \in Nat \ {0} => (w \o rest)[1] = w[1]
    <2>1. \A j \in 1..(Len(w) + Len(rest)) : (w \o rest)[j] = IF j <= Len(w) THEN w[j] ELSE rest[j - Len(w)]
      BY <1>1, ConcatProperties
    <2>2. Len(rest) \in Nat
      BY LenProperties
    <2> HIDE DEF w
    <2>3. Len(w) \in Nat \ {0} => 1 \in 1..(Len(w) + Len(rest)) /\ 1 <= Len(w)
      BY <2>2
    <2> QED BY <2>1, <2>3
  <1>3. CASE \E c \in Char \ {"%"} : x = Literal(c)
    <2>1. PICK c \in Char \ {"%"} : x = Literal(c)
      BY <1>3
    <2>2. w = <<c>> /\ x.item = FALSE /\ x.text = <<c>>
      BY <2>1, PartTypes DEF Literal
    <2>3. Len(w) = 1 /\ 1 \in Nat \ {0}
      BY <2>2
    <2> HIDE DEF w
    <2>4. (w \o rest)[1] = w[1]
      BY ONLY <1>2, <2>3
    <2> QED BY <2>2, <2>4 DEF w
  <1>4. CASE \E k \in Known, f \in Seq(Char \ {"}"}) : x = Item(<<k>>, f)
    <2>1. PICK k, f : k \in Known /\ f \in Seq(Char \ {"}"}) /\ x = Item(<<k>>, f)
      BY <1>4
    <2>2. x.item = TRUE /\ f \in Seq(Char) /\ Len(f) \in Nat
      BY <2>1, SeqMonotonic, LenProperties DEF Item
    <2>3. Len(w) \in Nat \ {0} /\ w[1] = "%"
      <3>1. CASE f = <<>>
        BY <2>1, <3>1, WrittenPlain
      <3>2. CASE f # <<>>
        <4>1. Len(w) = Len(f) + 4 /\ w[1] = "%"
          BY <2>1, <2>2, <3>2, WrittenFormat DEF Braced
        <4>2. \A m \in Nat : m + 4 \in Nat \ {0}
          OBVIOUS
        <4> QED BY <2>2, <4>1, <4>2
      <3> QED BY <3>1, <3>2
    <2> HIDE DEF w
    <2> QED BY <1>2, <2>2, <2>3 DEF w
  <1> QED BY <1>3, <1>4, AtomIs

(* Where a text is in what it is a part of. *)
LEMMA Positions ==
    ASSUME NEW a \in Seq(Char), NEW b \in Seq(Char), NEW c \in Seq(Char), NEW p,
           p = (a \o b) \o c
    PROVE  /\ p \in Seq(Char) /\ Len(p) = Len(a) + Len(b) + Len(c)
           /\ Len(a \o b) = Len(a) + Len(b) /\ a \o b \in Seq(Char)
           /\ \A j \in 1..Len(b) : p[Len(a) + j] = b[j]
           /\ c # <<>> => Len(a) + Len(b) + 1 <= Len(p) /\ p[Len(a) + Len(b) + 1] = c[1]
  <1> DEFINE ab == a \o b
             la == Len(a)
             lb == Len(b)
             lc == Len(c)
  <1>1. la \in Nat /\ lb \in Nat /\ lc \in Nat
    BY LenProperties
  <1>2. /\ ab \in Seq(Char) /\ Len(ab) = la + lb
        /\ \A j \in 1..(la + lb) : ab[j] = IF j <= la THEN a[j] ELSE b[j - la]
    BY ConcatProperties
  <1> HIDE DEF ab
  <1>3. p = ab \o c
    BY DEF ab
  <1>4. /\ p \in Seq(Char) /\ Len(p) = Len(ab) + lc
        /\ \A j \in 1..(Len(ab) + lc) : p[j] = IF j <= Len(ab) THEN ab[j] ELSE c[j - Len(ab)]
    <2>1. ab \in Seq(Char) /\ c \in Seq(Char)
      BY <1>2
    <2>2. p \in Seq(Char) /\ Len(p) = Len(ab) + lc
      BY <1>3, <2>1, ConcatProperties
    <2>3. \A j \in 1..(Len(ab) + lc) : (ab \o c)[j] = IF j <= Len(ab) THEN ab[j] ELSE c[j - Len(ab)]
      BY ONLY <2>1, ConcatProperties
    <2> QED BY <1>3, <2>2, <2>3
  <1>5. c # <<>> => lc \in Nat \ {0}
    BY EmptySeq
  <1> HIDE DEF la, lb, lc
  <1>6. Len(p) = la + lb + lc
    BY <1>2, <1>4
  <1>7. ASSUME NEW j \in 1..lb PROVE p[la + j] = b[j]
    <2>1. /\ la + j \in 1..(la + lb) /\ la + j \in 1..((la + lb) + lc)
          /\ la + j <= la + lb /\ ~(la + j <= la) /\ (la + j) - la = j
      BY <1>1
    <2>2. p[la + j] = ab[la + j]
      BY <1>2, <1>4, <2>1
    <2> QED BY <1>2, <2>1, <2>2
  <1>8. ASSUME c # <<>> PROVE la + lb + 1 <= Len(p) /\ p[la + lb + 1] = c[1]
    <2>1. /\ la + lb + 1 \in 1..((la + lb) + lc) /\ ~(la + lb + 1 <= la + lb)
          /\ (la + lb + 1) - (la + lb) = 1 /\ la + lb + 1 <= la + lb + lc
      BY <1>1, <1>5, <1>8
    <2> QED BY <1>2, <1>4, <1>6, <2>1
  <1> QED BY <1>2, <1>4, <1>6, <1>7, <1>8 DEF ab, la, lb, lc

(* One turn: if what follows a literal, or an item, is read back, so is it. *)
Accepts(f, i, items) == f[i] = [error |-> FALSE, items |-> items]

LEMMA LiteralTurn ==
    ASSUME NEW p \in Seq(Char), NEW f, Parsed(p, 1, f), NEW i \in 1..Len(p),
           p[i] # "%", NEW items, Accepts(f, i + 1, items)
    PROVE  Accepts(f, i, <<Literal(p[i])>> \o items)
  <1>1. Len(p) \in Nat /\ i \in 1..Len(p)
    BY LenProperties
  <1>2. i \in 1..(Len(p) + 1) /\ ~(i > Len(p))
    BY ONLY <1>1
  <1>3. f[i] = Rest(p, f, i)
    BY <1>2 DEF Parsed
  <1>4. IsLiteral(p, i)
    BY DEF IsLiteral
  <1>5. f[i] = [f[i + 1] EXCEPT !.items = <<Literal(p[i])>> \o @]
    BY <1>2, <1>3, <1>4 DEF Rest
  <1> DEFINE g == <<Literal(p[i])>> \o items
             r == [error |-> FALSE, items |-> items]
  <1>6. f[i + 1] = r /\ r.items = items
    BY DEF Accepts
  <1>7. f[i] = [r EXCEPT !.items = g]
    BY <1>5, <1>6
  <1> HIDE DEF g
  <1>8. f[i] = [error |-> FALSE, items |-> g]
    BY <1>7
  <1> QED BY <1>8 DEF g, Accepts

LEMMA ItemTurn ==
    ASSUME NEW p \in Seq(Char), NEW f, Parsed(p, 1, f), NEW i \in 1..Len(p),
           NEW k \in Known, NEW fmt, NEW next, NEW items,
           ReadsItem(p, i, k, fmt, next), Accepts(f, next, items)
    PROVE  Accepts(f, i, <<Item(<<k>>, fmt)>> \o items)
  <1>1. Len(p) \in Nat /\ i \in 1..Len(p)
    BY LenProperties
  <1>2. i \in 1..(Len(p) + 1) /\ ~(i > Len(p))
    BY ONLY <1>1
  <1>3. f[i] = Rest(p, f, i)
    BY <1>2 DEF Parsed
  <1>4. f[i] = [error |-> f[next].error \/ ~\E d \in Known : <<k>> = <<d>>,
                items |-> <<Item(<<k>>, fmt)>> \o f[next].items]
    BY <1>2, <1>3 DEF Rest, ReadsItem
  <1>5. f[next].error = FALSE /\ f[next].items = items
    BY DEF Accepts
  <1>6. \E d \in Known : <<k>> = <<d>>
    OBVIOUS
  <1> QED BY <1>4, <1>5, <1>6 DEF Accepts

(* All items from the kth on, whatever is written before them. *)
LEMMA TailRead ==
    ASSUME NEW items \in Seq(Atom), Separated(items),
           NEW p \in Seq(Char), NEW f, Parsed(p, 1, f)
    PROVE  \A k \in 1..(Len(items) + 1) : \A a \in Seq(Char) :
               p = a \o Write(SubSeq(items, k, Len(items)))
                   => Accepts(f, Len(a) + 1, SubSeq(items, k, Len(items)))
  <1> DEFINE n == Len(items)
             tail(k) == SubSeq(items, k, n)
             text(k) == Write(tail(k))
             T == {k \in 1..(n + 1) : \A a \in Seq(Char) :
                       p = a \o text(k) => Accepts(f, Len(a) + 1, tail(k))}
  <1>1. n \in Nat /\ Len(p) \in Nat
    BY LenProperties
  <1>2. \A k \in 1..n : items[k] \in Atom /\ items[k] \in Parts
    BY ElementOfSeq, AtomIs
  <1>3. tail(n + 1) = <<>> /\ text(n + 1) = <<>>
    <2>1. n + 1 \in Int /\ n \in Int /\ n < n + 1
      BY ONLY <1>1
    <2> QED BY <2>1, SubSeqEmpty, WriteNothing
  <1>4. \A k \in 1..(n + 1) : tail(k) \in Seq(Parts) /\ text(k) \in Seq(Char)
    <2>1. ASSUME NEW k \in 1..(n + 1) PROVE tail(k) \in Seq(Parts)
      <3>1. k \in Int /\ n \in Int
        BY ONLY <1>1, k \in 1..(n + 1)
      <3>2. \A j \in k..n : j \in 1..n
        BY ONLY <1>1, k \in 1..(n + 1)
      <3> QED BY <1>2, <3>1, <3>2, SubSeqProperties
    <2>2. ASSUME NEW x \in Parts, NEW t \in Seq(Parts) PROVE Write(t) \in Seq(Char)
      BY WriteNext
    <2>3. "%" \in Char
      BY SignsApart
    <2> HIDE DEF tail
    <2> QED BY <2>1, <2>2, <2>3, PartTypes
  <1>5. \A k \in 1..n : /\ k + 1 \in 1..(n + 1)
                        /\ tail(k) = <<items[k]>> \o tail(k + 1)
                        /\ text(k) = Written(items[k]) \o text(k + 1)
    <2>1. ASSUME NEW k \in 1..n PROVE k + 1 \in 1..(n + 1) /\ n \in k..n
      BY ONLY <1>1, k \in 1..n
    <2>2. ASSUME NEW k \in 1..n PROVE tail(k) = <<items[k]>> \o tail(k + 1)
      BY <2>1, SubSeqRecursiveFirst
    <2> HIDE DEF tail, n
    <2>3. ASSUME NEW k \in 1..n PROVE text(k) = Written(items[k]) \o text(k + 1)
      BY <1>2, <1>4, <2>1, <2>2, WriteNext
    <2> QED BY <2>1, <2>2, <2>3
  <1> HIDE DEF tail, text
  <1>6. n + 1 \in T
    <2>1. ASSUME NEW a \in Seq(Char), p = a \o text(n + 1)
          PROVE  Accepts(f, Len(a) + 1, tail(n + 1))
      <3>1. p = a
        BY <1>3, <2>1, ConcatEmptySeq
      <3>2. Len(p) + 1 \in 1..(Len(p) + 1) /\ Len(p) + 1 > Len(p)
        BY ONLY <1>1
      <3>3. f[Len(p) + 1] = Rest(p, f, Len(p) + 1)
        BY <3>2 DEF Parsed
      <3>4. Rest(p, f, Len(p) + 1) = [error |-> FALSE, items |-> <<>>]
        BY <3>2 DEF Rest
      <3> QED BY <1>3, <3>1, <3>3, <3>4 DEF Accepts
    <2>2. n + 1 \in 1..(n + 1)
      BY ONLY <1>1
    <2> QED BY <2>1, <2>2
  <1>7. ASSUME NEW k \in 1..n, k + 1 \in T PROVE k \in T
    <2>1. SUFFICES ASSUME NEW a \in Seq(Char), p = a \o text(k)
                   PROVE  Accepts(f, Len(a) + 1, tail(k))
      <3>1. k \in 1..(n + 1)
        BY ONLY <1>1, k \in 1..n
      <3> QED BY <3>1
    <2> DEFINE x == items[k]
               b == Written(x)
               c == text(k + 1)
               la == Len(a)
               lb == Len(b)
               i == la + 1
               rest == tail(k + 1)
    <2>2. x \in Atom /\ x \in Parts /\ b \in Seq(Char) /\ c \in Seq(Char)
      BY <1>2, <1>4, <1>5, WrittenType
    <2>3. la \in Nat /\ lb \in Nat
      BY <2>2, LenProperties
    <2>4. p = (a \o b) \o c
      <3> DEFINE ab == a \o b
                 bc == text(k)
      <3>1. bc = b \o c /\ p = a \o bc
        BY <1>5, <2>1
      <3> HIDE DEF ab, b, c, bc
      <3>2. ab = a \o b
        BY DEF ab
      <3>3. ab \o c = a \o bc
        BY ONLY a \in Seq(Char), <2>2, <3>1, <3>2, SMT
      <3> QED BY <3>1, <3>3 DEF ab
    <2> HIDE DEF b, c, x
    <2>5. /\ Len(p) = la + lb + Len(c)
          /\ Len(a \o b) = la + lb /\ a \o b \in Seq(Char)
          /\ \A j \in 1..lb : p[la + j] = b[j]
          /\ c # <<>> => la + lb + 1 <= Len(p) /\ p[la + lb + 1] = c[1]
      BY <2>2, <2>4, Positions
    <2>6. Accepts(f, la + lb + 1, rest)
      BY <1>7, <2>4, <2>5 DEF c
    <2>7. tail(k) = <<x>> \o rest
      BY <1>5 DEF x
    <2> HIDE DEF rest
    <2>8. Len(c) \in Nat
      BY <2>2, LenProperties
    <2>9. CASE \E d \in Char \ {"%"} : x = Literal(d)
      <3>1. PICK d \in Char \ {"%"} : x = Literal(d)
        BY <2>9
      <3>2. b = <<d>>
        BY <3>1, PartTypes DEF b
      <3>3. lb = 1 /\ b[1] = d
        BY <3>2
      <3>4. i \in 1..Len(p) /\ la + lb + 1 = i + 1
        BY ONLY <2>3, <2>5, <2>8, <3>3
      <3>5. p[i] = d
        BY <2>5, <3>3
      <3>6. Accepts(f, i + 1, rest)
        BY <2>6, <3>4
      <3> HIDE DEF i
      <3>7. Accepts(f, i, <<Literal(d)>> \o rest)
        BY <3>4, <3>5, <3>6, LiteralTurn
      <3> QED BY <2>7, <3>1, <3>7 DEF i
    <2>10. CASE \E d \in Known, g \in Seq(Char \ {"}"}) : x = Item(<<d>>, g)
      <3>1. PICK d, g : d \in Known /\ g \in Seq(Char \ {"}"}) /\ x = Item(<<d>>, g)
        BY <2>10
      <3>2. CASE g = <<>>
        <4>1. lb = 2 /\ b[1] = "%" /\ b[2] = d
          BY <3>1, <3>2, WrittenPlain DEF b
        <4>2. /\ i \in 1..Len(p) /\ i \in 1..(Len(p) - 1) /\ la + lb + 1 = i + 2
              /\ i = la + 1 /\ i + 1 = la + 2 /\ 1 \in 1..lb /\ 2 \in 1..lb
          <5>1. Len(p) = la + lb + Len(c) /\ lb = 2
            BY <2>5, <4>1
          <5> QED BY ONLY <2>3, <2>8, <5>1
        <4>3. p[i] = "%" /\ p[i + 1] = d
          BY <2>5, <4>1, <4>2
        <4>4. ASSUME i + 2 <= Len(p) PROVE p[i + 2] \in Other \cup {"%"}
          <5>1. c # <<>>
            <6>1. Len(p) = la + lb + Len(c) /\ lb = 2 /\ i + 2 <= Len(p)
              BY <2>5, <4>1, <4>4
            <6>2. Len(c) # 0
              BY ONLY <2>3, <2>8, <6>1
            <6> QED BY <6>2, EmptySeq
          <5>2. p[i + 2] = c[1]
            BY <2>5, <4>2, <5>1
          <5>3. k + 1 \in 1..n /\ k \in 1..(n - 1)
            <6>1. k + 1 # n + 1
              BY <1>3, <5>1 DEF c
            <6>2. n \in Nat /\ k \in 1..n
              BY <1>1
            <6> HIDE DEF n
            <6> QED BY ONLY <6>1, <6>2
          <5>4. c = Written(items[k + 1]) \o text((k + 1) + 1) /\ text((k + 1) + 1) \in Seq(Char)
            BY <1>4, <1>5, <5>3 DEF c
          <5>5. c[1] = IF items[k + 1].item THEN "%" ELSE items[k + 1].text[1]
            BY <1>2, <5>3, <5>4, FirstWritten
          <5>6. x.item = TRUE /\ x.fmt = <<>>
            BY <3>1, <3>2 DEF Item
          <5>7. items[k + 1].item \/ items[k + 1].text[1] \in Other
            BY <5>3, <5>6 DEF Separated, x
          <5> QED BY <5>2, <5>5, <5>7
        <4> HIDE DEF i
        <4>5. ReadsItem(p, i, d, g, la + lb + 1)
          BY <3>1, <3>2, <4>2, <4>3, <4>4, PlainItemRead
        <4>6. Accepts(f, i, <<Item(<<d>>, g)>> \o rest)
          BY <2>6, <3>1, <4>2, <4>5, ItemTurn
        <4> QED BY <2>7, <3>1, <4>6 DEF i
      <3>3. CASE g # <<>>
        <4>1. g \in Seq(Char) /\ Len(g) \in Nat
          BY <3>1, SeqMonotonic, LenProperties
        <4>2. /\ lb = Len(g) + 4 /\ b[1] = "%" /\ b[2] = d /\ b[3] = "{"
              /\ b[Len(g) + 4] = "}"
              /\ \A j \in 1..Len(g) : b[j + 3] = g[j]
          <5>1. b = Written(Item(<<d>>, g))
            BY <3>1 DEF b
          <5>2. Braced(Written(Item(<<d>>, g)), d, g)
            BY <3>1, <3>3, <4>1, WrittenFormat
          <5> QED BY <5>1, <5>2 DEF Braced
        <4>3. /\ i \in 1..Len(p) /\ i \in 1..(Len(p) - 1) /\ la + lb + 1 = i + 4 + Len(g)
              /\ i + Len(g) + 3 <= Len(p)
              /\ 1 \in 1..lb /\ 2 \in 1..lb /\ 3 \in 1..lb /\ Len(g) + 4 \in 1..lb
              /\ i + 1 = la + 2 /\ i + 2 = la + 3 /\ i + 3 + Len(g) = la + (Len(g) + 4)
          <5>1. Len(p) = la + lb + Len(c) /\ lb = Len(g) + 4
            BY <2>5, <4>2
          <5> QED BY ONLY <2>3, <2>8, <4>1, <5>1
        <4>4. p[i] = "%" /\ p[i + 1] = d /\ p[i + 2] = "{" /\ p[i + 3 + Len(g)] = "}"
          BY <2>5, <4>2, <4>3
        <4>5. ASSUME NEW j \in 1..Len(g) PROVE p[i + 2 + j] = g[j]
          <5>1. j + 3 \in 1..lb /\ i + 2 + j = la + (j + 3)
            <6>1. lb = Len(g) + 4 /\ j \in 1..Len(g)
              BY <4>2
            <6> QED BY ONLY <2>3, <4>1, <6>1
          <5> QED BY <2>5, <4>2, <5>1
        <4> HIDE DEF i
        <4>6. ReadsItem(p, i, d, g, la + lb + 1)
          BY <3>1, <4>3, <4>4, <4>5, FormatRead
        <4>7. Accepts(f, i, <<Item(<<d>>, g)>> \o rest)
          BY <2>6, <3>1, <4>3, <4>6, ItemTurn
        <4> QED BY <2>7, <3>1, <4>7 DEF i
      <3> QED BY <3>2, <3>3
    <2> QED BY <2>2, <2>9, <2>10, AtomIs
  <1>8. ASSUME NEW k \in 1..(n + 1), \A j \in (k + 1)..(n + 1) : j \in T PROVE k \in T
    <2>1. k = n + 1 \/ (k \in 1..n /\ k + 1 \in (k + 1)..(n + 1))
      BY ONLY <1>1, k \in 1..(n + 1)
    <2> QED BY <1>6, <1>7, <1>8, <2>1
  <1>9. \A k \in 1..(n + 1) : k \in T
    <2>1. n + 1 \in Nat
      BY ONLY <1>1
    <2> HIDE DEF T, n
    <2> QED BY <1>8, <2>1, Backwards
  <1> QED BY <1>9 DEF tail, text

(* The bounded sequences are sequences. *)
LEMMA SeqOfIsSeq ==
    ASSUME NEW S, NEW n, NEW s \in SeqOf(S, n), n \in Nat
    PROVE  s \in Seq(S)
  <1>1. PICK m \in 0..n : s \in [1..m -> S]
    BY DEF SeqOf
  <1>2. m \in Nat
    BY ONLY <1>1, n \in Nat
  <1> QED BY <1>1, <1>2, SeqDef

(* What is written of any items that stay apart is read as those items. *)
LEMMA AllReadBack == ReadsBack
  <1> SUFFICES ASSUME NEW items \in SeqOf(Atom, MaxItems), Separated(items)
               PROVE  Parse(Write(items)) = [error |-> FALSE, items |-> items]
    BY DEF ReadsBack
  <1> DEFINE n == Len(items)
             p == Write(items)
  <1>1. items \in Seq(Atom) /\ items \in Seq(Parts) /\ n \in Nat
    <2>1. items \in Seq(Atom)
      BY SeqOfIsSeq, PatternAssumption
    <2>2. Atom \subseteq Parts
      BY AtomIs
    <2> QED BY <2>1, <2>2, SeqMonotonic, LenProperties
  <1>2. p \in Seq(Char)
    <2>1. "%" \in Char
      BY SignsApart
    <2> QED BY <1>1, <2>1, PartTypes, WriteNext
  <1>3. SubSeq(items, 1, n) = items
    BY <1>1, SubSeqFull
  <1>4. <<>> \in Seq(Char) /\ Len(<<>>) + 1 = 1 /\ p = <<>> \o p
    BY <1>2, EmptySeq, ConcatEmptySeq
  <1>5. 1 \in 1..(n + 1)
    BY ONLY <1>1
  <1> HIDE DEF p
  <1>6. PICK f : Parsed(p, 1, f) /\ Parse(p) = f[1]
    BY <1>2, ParseIs
  <1>7. \A a \in Seq(Char) : p = a \o Write(SubSeq(items, 1, n)) => Accepts(f, Len(a) + 1, SubSeq(items, 1, n))
    BY <1>1, <1>2, <1>5, <1>6, TailRead
  <1>8. Accepts(f, Len(<<>>) + 1, items)
    BY <1>3, <1>4, <1>7 DEF p
  <1> QED BY <1>4, <1>6, <1>8 DEF Accepts, p

(* No accepted text is read as less, or more, than it is. *)
LEMMA AllIntact == NothingDropped
  <1> SUFFICES ASSUME NEW p \in SeqOf(Char, MaxText), ~Parse(p).error
               PROVE  Intact(p)
    BY DEF NothingDropped
  <1>1. p \in Seq(Char)
    BY SeqOfIsSeq, PatternAssumption
  <1> QED BY <1>1, AcceptedIntact

(* What is put together from literals and items is read as those, and      *)
(* nothing of an accepted pattern is dropped or made up, whatever the      *)
(* characters, the formats and the length (LogFormatter::init).            *)
THEOREM PatternsReadBack == ReadsBack /\ NothingDropped
BY AllReadBack, AllIntact
=============================================================================
