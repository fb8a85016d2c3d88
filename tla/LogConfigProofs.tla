--------------------------- MODULE LogConfigProofs ---------------------------
(***************************************************************************)
(* Theorems about LogConfig for any threads, loggers, documents and        *)
(* patterns: no appender of a logger is without a formatter, no message    *)
(* that passes the root logger's level is lost while that has an appender, *)
(* between two reloads the loggers are what the value of "logs" says, and  *)
(* what is written of a logger, of the value or of a pattern is read back, *)
(* as far as it is read at all.                                            *)
(*                                                                         *)
(* Types holds the ranges of the variables and what the stage of a reload  *)
(* says of its other fields.  Follow says how far a reload has come: the   *)
(* entries it has dealt with are followed by their loggers, and of the one *)
(* at hand as much as its stage says.  Texts says which appenders the      *)
(* value and the loggers may have, so that their text can be read.         *)
(***************************************************************************)
EXTENDS LogConfig, LogPatternProofs

Outfit == [dest : Dests, level : Levels, formatter : Patterns]
Given  == [dest : Dests, level : Levels, formatter : Patterns \cup {None}]
Busy   == {"level", "format", "clear", "add"}

JobOK ==
    /\ job = [at |-> job.at, new |-> job.new, todo |-> job.todo, gone |-> job.gone,
              name |-> job.name, left |-> job.left]
    /\ job.at \in Stage /\ job.name \in Names
    /\ IsValue(job.new) /\ IsValue(m_val)
    /\ job.todo \subseteq DOMAIN job.new
    /\ job.gone \subseteq Names \ DOMAIN job.new
    /\ job.left \in Seq(Appender)
    /\ job.at \in Busy => job.name \in DOMAIN job.new \ job.todo
    /\ job.at = "clear" => job.left = job.new[job.name].appenders
    /\ job.at = "add" => job.left # <<>>
    /\ job.at = "wipe" => job.name \notin DOMAIN job.new

ListsOK ==
    /\ m_loggers \subseteq Names
    /\ m_level \in [Names -> Levels]
    /\ m_formatter \in [Names -> Patterns]
    /\ \A n \in Names \ ByHand : m_formatter[n] \in ValidPatterns
    /\ m_appenders \in [Names -> Seq(Outfit)]

RestOK ==
    /\ msg \in [Threads -> Message]
    /\ crashed \in BOOLEAN /\ emptied \in BOOLEAN
    /\ lost \subseteq Levels /\ top \in Levels

Types == JobOK /\ ListsOK /\ RestOK

-----------------------------------------------------------------------------
(* Part of a list of appenders *)

(* The appender a logger of pattern p makes of one of an entry's. *)
MadeOf(p, a) == [a EXCEPT !.formatter = IF @ \in ValidPatterns THEN @ ELSE p]

(* The first of all appenders are in the list, the others are left. *)
Partly(p, list, left, all) ==
    /\ Len(list) + Len(left) = Len(all)
    /\ \A i \in 1..Len(list) : list[i] = MadeOf(p, all[i])
    /\ \A j \in 1..Len(left) : left[j] = all[Len(list) + j]

(* Nothing is in the list and everything left. *)
LEMMA PartlyStart ==
    ASSUME NEW p, NEW all \in Seq(Appender)
    PROVE  Partly(p, <<>>, all, all)
  <1>1. Len(all) \in Nat /\ Len(<<>>) = 0
    BY LenProperties
  <1> QED BY <1>1 DEF Partly

(* The first of what is left goes to the end of the list. *)
LEMMA PartlyNext ==
    ASSUME NEW p, NEW list \in Seq(Outfit), NEW left \in Seq(Appender), left # <<>>,
           NEW all \in Seq(Appender), Partly(p, list, left, all)
    PROVE  Partly(p, Append(list, MadeOf(p, Head(left))), Tail(left), all)
  <1> DEFINE x == MadeOf(p, Head(left))
  <1>1. Len(list) \in Nat /\ Len(left) \in Nat /\ Len(all) \in Nat /\ Len(left) # 0
    BY LenProperties, EmptySeq
  <1>2. /\ Len(Append(list, x)) = Len(list) + 1
        /\ \A i \in 1..Len(list) : Append(list, x)[i] = list[i]
        /\ Append(list, x)[Len(list) + 1] = x
    BY AppendProperties
  <1>3. /\ Len(Tail(left)) = Len(left) - 1
        /\ \A i \in 1..Len(Tail(left)) : Tail(left)[i] = left[i + 1]
    BY HeadTailProperties
  <1>4. Head(left) = all[Len(list) + 1]
    <2>1. Head(left) = left[1] /\ 1 \in 1..Len(left)
      BY <1>1
    <2> QED BY <1>1, <2>1 DEF Partly
  <1> HIDE DEF x
  <1>5. \A i \in 1..(Len(list) + 1) : Append(list, x)[i] = MadeOf(p, all[i])
    <2> SUFFICES ASSUME NEW i \in 1..(Len(list) + 1)
                 PROVE  Append(list, x)[i] = MadeOf(p, all[i])
      OBVIOUS
    <2>1. CASE i = Len(list) + 1
      BY <1>2, <1>4, <2>1 DEF x
    <2>2. CASE i \in 1..Len(list)
      BY <1>2, <2>2 DEF Partly
    <2> QED BY <1>1, <2>1, <2>2
  <1>6. \A j \in 1..(Len(left) - 1) : Tail(left)[j] = all[Len(list) + 1 + j]
    <2> SUFFICES ASSUME NEW j \in 1..(Len(left) - 1)
                 PROVE  Tail(left)[j] = all[Len(list) + 1 + j]
      OBVIOUS
    <2>1. Tail(left)[j] = left[j + 1] /\ j + 1 \in 1..Len(left)
      BY <1>1, <1>3
    <2>2. left[j + 1] = all[Len(list) + (j + 1)]
      BY <2>1 DEF Partly
    <2> QED BY <1>1, <2>1, <2>2
  <1>7. Len(list) + 1 + (Len(left) - 1) = Len(all)
    <2>1. Len(list) + Len(left) = Len(all)
      BY DEF Partly
    <2> QED BY <1>1, <2>1
  <1> QED BY <1>2, <1>3, <1>5, <1>6, <1>7 DEF Partly, x

(* With nothing left the list is the entry's. *)
LEMMA PartlyEnd ==
    ASSUME NEW p, NEW list \in Seq(Outfit), NEW all \in Seq(Appender),
           Partly(p, list, <<>>, all)
    PROVE  list = [i \in DOMAIN all |-> MadeOf(p, all[i])]
  <1>1. Len(list) \in Nat /\ Len(all) \in Nat /\ Len(<<>>) = 0
    BY LenProperties
  <1>2. Len(list) = Len(all)
    BY <1>1 DEF Partly
  <1>3. DOMAIN list = 1..Len(all) /\ DOMAIN all = 1..Len(all)
    BY <1>2, LenProperties
  <1>4. \A i \in 1..Len(all) : list[i] = MadeOf(p, all[i])
    BY <1>2 DEF Partly
  <1>5. list = [i \in DOMAIN list |-> list[i]]
    <2>1. PICK k \in Nat : list \in [1..k -> Outfit]
      BY SeqDef
    <2> QED BY <2>1
  <1> QED BY <1>3, <1>4, <1>5

-----------------------------------------------------------------------------
LEMMA ValidArePatterns == ValidPatterns \subseteq Patterns
  BY DEF ValidPatterns

USE LogAssumption, ValidArePatterns DEF LogAssumption

-----------------------------------------------------------------------------
(* What a document converts to                                             *)
(*                                                                         *)
(* A loop over a list is reasoned about at the least turn that is not as   *)
(* it should be.                                                           *)

(* f is the loop of Readable, up to turn k. *)
Turn(list, f, i) ==
    IF i = 0 THEN <<>>
    ELSE IF list[i].dest = None THEN f[i - 1]
    ELSE Append(f[i - 1], Read(list[i]))

Looped(list, k, f) == f = [i \in 0..k |-> Turn(list, f, i)]

(* There is such a loop for every number of turns. *)
LEMMA LoopExists ==
    ASSUME NEW list, NEW k \in Nat
    PROVE  \E f : Looped(list, k, f)
  <1> DEFINE T == {m \in Nat : ~ \E f : Looped(list, m, f)}
  <1>1. SUFFICES ASSUME T # {} PROVE FALSE
    OBVIOUS
  <1>2. PICK m \in T : \A i \in T : m <= i
    BY <1>1, LeastElement
  <1>3. m # 0
    <2>1. Looped(list, 0, [i \in 0..0 |-> <<>>])
      BY DEF Looped, Turn
    <2> QED BY <2>1
  <1>4. PICK f : Looped(list, m - 1, f)
    <2>1. m - 1 \in Nat /\ m - 1 \notin T
      BY <1>2, <1>3
    <2> QED BY <2>1
  <1> DEFINE g == [i \in 0..m |-> IF i = m THEN Turn(list, f, m) ELSE f[i]]
  <1>5. ASSUME NEW i \in 0..m PROVE g[i] = Turn(list, g, i)
    <2>1. i # 0 => i - 1 \in 0..m /\ i - 1 # m /\ g[i - 1] = f[i - 1]
      <3>1. i # 0 => i - 1 \in 0..m /\ i - 1 # m
        OBVIOUS
      <3> QED BY <3>1
    <2>2. Turn(list, g, i) = Turn(list, f, i)
      BY <2>1 DEF Turn
    <2>3. CASE i = m
      BY <2>2, <2>3
    <2>4. CASE i # m
      <3>1. i \in 0..(m - 1)
        BY <2>4
      <3>2. f[i] = Turn(list, f, i)
        BY <1>4, <3>1 DEF Looped
      <3> QED BY <2>2, <2>4, <3>2
    <2> QED BY <2>3, <2>4
  <1>6. Looped(list, m, g)
    BY <1>5 DEF Looped
  <1> QED BY <1>6

(* And Readable is what it ends with. *)
LEMMA ReadableLoops ==
    ASSUME NEW list, Len(list) \in Nat
    PROVE  \E f : Looped(list, Len(list), f) /\ Readable(list) = f[Len(list)]
  <1> DEFINE F == CHOOSE f : Looped(list, Len(list), f)
  <1>1. Looped(list, Len(list), F)
    BY LoopExists
  <1>2. Readable(list) = F[Len(list)]
    BY DEF Readable, Looped, Turn
  <1> QED BY <1>1, <1>2

(* What an entry of a document may have for an appender. *)
EntryAppender ==
    [dest : Dests \cup {None}, level : Levels, formatter : Patterns \cup {None}]

(* Appenders without a level, where only those to files have a formatter   *)
(* of their own.                                                           *)
IsPlain(a) == a.level = UNKNOW /\ (a.dest = Stdout => a.formatter = None)

PlainList(list) == \A i \in DOMAIN list : IsPlain(list[i])

Plain == {a \in Appender : IsPlain(a)}

(* Read leaves an appender that is plain. *)
LEMMA ReadIsPlain ==
    ASSUME NEW a \in EntryAppender, a.dest # None
    PROVE  Read(a) \in Plain
  <1>1. UNKNOW \in Levels
    BY DEF Levels, UNKNOW
  <1> QED BY <1>1 DEF EntryAppender, Plain, IsPlain, Appender, Read

(* The appenders that are read are plain, whatever is written. *)
LEMMA ReadableIsPlain ==
    ASSUME NEW list \in Seq(EntryAppender)
    PROVE  Readable(list) \in Seq(Plain)
  <1> DEFINE len == Len(list)
  <1>1. len \in Nat /\ DOMAIN list = 1..len
    BY LenProperties
  <1>2. PICK f : Looped(list, len, f) /\ Readable(list) = f[len]
    BY <1>1, ReadableLoops
  <1> DEFINE T == {i \in 0..len : f[i] \notin Seq(Plain)}
  <1>3. ASSUME T # {} PROVE FALSE
    <2> T \in SUBSET Nat
      BY <1>1
    <2> HIDE DEF T
    <2>1. PICK i \in T : \A j \in T : i <= j
      BY <1>3, LeastElement
    <2> USE DEF T
    <2>2. f[i] = Turn(list, f, i)
      BY <1>2 DEF Looped
    <2>3. CASE i = 0
      BY <2>2, <2>3, EmptySeq DEF Turn
    <2>4. CASE i # 0
      <3>1. i - 1 \in 0..len /\ i - 1 \notin T /\ i \in 1..len
        BY <1>1, <2>1, <2>4
      <3>2. f[i - 1] \in Seq(Plain)
        BY <3>1
      <3>3. list[i] \in EntryAppender
        BY <1>1, <3>1, ElementOfSeq
      <3>4. list[i].dest # None => Append(f[i - 1], Read(list[i])) \in Seq(Plain)
        BY <3>2, <3>3, ReadIsPlain, AppendProperties
      <3> QED BY <2>1, <2>2, <2>4, <3>2, <3>4 DEF Turn
    <2> QED BY <2>3, <2>4
  <1>4. len \in 0..len
    BY <1>1
  <1> QED BY <1>2, <1>3, <1>4

(* A list where nothing is missing is read one for one. *)
LEMMA ReadableAll ==
    ASSUME NEW list \in Seq(EntryAppender), \A i \in DOMAIN list : list[i].dest # None
    PROVE  Readable(list) = [i \in DOMAIN list |-> Read(list[i])]
  <1> DEFINE len == Len(list)
             R(k) == [i \in 1..k |-> Read(list[i])]
  <1>1. len \in Nat /\ DOMAIN list = 1..len
    BY LenProperties
  <1>2. PICK f : Looped(list, len, f) /\ Readable(list) = f[len]
    BY <1>1, ReadableLoops
  <1> DEFINE T == {k \in 0..len : f[k] # R(k)}
  <1>3. ASSUME T # {} PROVE FALSE
    <2> T \in SUBSET Nat
      BY <1>1
    <2> HIDE DEF T
    <2>1. PICK k \in T : \A j \in T : k <= j
      BY <1>3, LeastElement
    <2> USE DEF T
    <2>2. f[k] = Turn(list, f, k)
      BY <1>2 DEF Looped
    <2>3. CASE k = 0
      <3>1. 1..0 = {}
        OBVIOUS
      <3>2. R(0) = <<>>
        BY <3>1, EmptySeq
      <3> QED BY <2>1, <2>2, <2>3, <3>2 DEF Turn
    <2>4. CASE k # 0
      <3>1. k - 1 \in 0..len /\ k - 1 \notin T /\ k \in 1..len
        BY <1>1, <2>1, <2>4
      <3>2. f[k - 1] = R(k - 1)
        BY <3>1
      <3>3. \A i \in 1..(k - 1) : Read(list[i]) \in Plain
        <4>1. \A i \in 1..(k - 1) : i \in 1..len
          BY <3>1
        <4> QED BY <1>1, <4>1, ElementOfSeq, ReadIsPlain
      <3>4. k - 1 \in Nat
        BY <3>1
      <3>5. R(k - 1) \in Seq(Plain) /\ Len(R(k - 1)) = k - 1
        <4> DEFINE r == R(k - 1)
        <4>1. r \in [1..(k - 1) -> Plain]
          BY <3>3
        <4>2. r \in Seq(Plain) /\ DOMAIN r = 1..(k - 1)
          BY <3>4, <4>1, SeqDef
        <4>3. Len(r) = k - 1
          BY <3>4, <4>2, LenProperties
        <4> QED BY <4>2, <4>3
      <3>6. Read(list[k]) \in Plain
        BY <1>1, <3>1, ElementOfSeq, ReadIsPlain
      <3>7. f[k] = Append(R(k - 1), Read(list[k]))
        BY <1>1, <2>2, <2>4, <3>1, <3>2 DEF Turn
      <3>8. Append(R(k - 1), Read(list[k])) = R(k)
        <4> HIDE DEF R
        <4>1. Append(R(k - 1), Read(list[k])) \in Seq(Plain)
              /\ Len(Append(R(k - 1), Read(list[k]))) = k
              /\ (\A i \in 1..(k - 1) : Append(R(k - 1), Read(list[k]))[i] = R(k - 1)[i])
              /\ Append(R(k - 1), Read(list[k]))[k] = Read(list[k])
          BY <3>1, <3>5, <3>6, AppendProperties
        <4>2. \A i \in 1..k : Append(R(k - 1), Read(list[k]))[i] = Read(list[i])
          BY <3>4, <4>1 DEF R
        <4>3. Append(R(k - 1), Read(list[k])) = [i \in 1..k |-> Append(R(k - 1), Read(list[k]))[i]]
          BY <4>1, SeqDef, LenProperties
        <4> QED BY <4>2, <4>3 DEF R
      <3> QED BY <2>1, <3>7, <3>8
    <2> QED BY <2>3, <2>4
  <1>4. len \in 0..len
    BY <1>1
  <1> QED BY <1>1, <1>2, <1>3, <1>4

(* The values of a function are as finite as its domain. *)
LEMMA FiniteImage ==
    ASSUME NEW f, IsFiniteSet(DOMAIN f), f = [x \in DOMAIN f |-> f[x]]
    PROVE  IsFiniteSet({f[x] : x \in DOMAIN f})
  <1> DEFINE T == DOMAIN f
  <1>1. f \in Surjection(T, {f[x] : x \in T})
    BY DEF Surjection
  <1> QED BY <1>1, FS_Surjection

(* A finite set as a list. *)
LEMMA AsList ==
    ASSUME NEW T, IsFiniteSet(T)
    PROVE  /\ SetToSeq(T) \in Seq(T)
           /\ \A x \in T : \E i \in DOMAIN SetToSeq(T) : SetToSeq(T)[i] = x
  <1>1. Cardinality(T) \in Nat /\ ExistsBijection(1..Cardinality(T), T)
    BY FS_CardinalityType
  <1>2. PICK b \in [1..Cardinality(T) -> T] : IsInjective(b)
    BY <1>1 DEF ExistsBijection, Bijection, Injection, IsInjective
  <1> DEFINE f == SetToSeq(T)
  <1>3. f \in [1..Cardinality(T) -> T] /\ IsInjective(f)
    BY <1>2 DEF SetToSeq
  <1> HIDE DEF f
  <1>4. f \in Injection(1..Cardinality(T), T)
    BY <1>3 DEF Injection, IsInjective
  <1>5. IsFiniteSet(1..Cardinality(T)) /\ Cardinality(1..Cardinality(T)) = Cardinality(T)
    BY <1>1, FS_Interval
  <1>6. f \in Surjection(1..Cardinality(T), T)
    BY <1>4, <1>5, FS_Injection
  <1>7. f \in Seq(T) /\ DOMAIN f = 1..Cardinality(T)
    BY <1>1, <1>3, SeqDef
  <1> QED BY <1>6, <1>7 DEF Surjection, f

(* The entries of a document that have a name. *)
Named(doc) == {i \in DOMAIN doc : doc[i].name # None}

First(doc, n) == Min({i \in Named(doc) : doc[i].name = n})

(* What is made of an entry. *)
Made(d) == [level |-> d.level, formatter |-> d.formatter, appenders |-> Readable(d.appenders)]

(* The document is converted name by name, from the first entry of each. *)
LEMMA ConvertMakes ==
    ASSUME NEW doc \in Seq(Entry)
    PROVE  /\ Convert(doc) = [n \in {doc[i].name : i \in Named(doc)} |-> Made(doc[First(doc, n)])]
           /\ \A n \in DOMAIN Convert(doc) :
                 First(doc, n) \in Named(doc) /\ doc[First(doc, n)].name = n
  <1>1. Convert(doc) = [n \in {doc[i].name : i \in Named(doc)} |-> Made(doc[First(doc, n)])]
    BY DEF Convert, Named, First, Made
  <1>2. ASSUME NEW n \in DOMAIN Convert(doc)
        PROVE  First(doc, n) \in Named(doc) /\ doc[First(doc, n)].name = n
    <2> DEFINE T == {i \in Named(doc) : doc[i].name = n}
    <2>1. PICK i \in Named(doc) : doc[i].name = n
      BY <1>1
    <2>2. T \in SUBSET Nat /\ T # {}
      BY <2>1, LenProperties DEF Named
    <2>3. Min(T) \in T
      BY <2>2, MinIn
    <2> QED BY <2>3 DEF First
  <1> QED BY <1>1, <1>2

(* It is a value of "logs", with finitely many entries, and only their     *)
(* appenders to files have formatters.                                     *)
LEMMA ConvertIsValue ==
    ASSUME NEW doc \in Documents
    PROVE  /\ IsValue(Convert(doc))
           /\ IsFiniteSet(DOMAIN Convert(doc))
           /\ \A n \in DOMAIN Convert(doc) : PlainList(Convert(doc)[n].appenders)
  <1> DEFINE v == Convert(doc)
  <1>1. doc \in Seq(Entry)
    OBVIOUS
  <1>2. Len(doc) \in Nat /\ DOMAIN doc = 1..Len(doc) /\ \A i \in 1..Len(doc) : doc[i] \in Entry
    BY <1>1, LenProperties, ElementOfSeq
  <1>3. v = [n \in {doc[i].name : i \in Named(doc)} |-> Made(doc[First(doc, n)])]
        /\ \A n \in DOMAIN v : First(doc, n) \in Named(doc)
    BY <1>1, ConvertMakes
  <1> HIDE DEF v
  <1>4. DOMAIN v = {doc[i].name : i \in Named(doc)}
    BY <1>3
  <1>5. DOMAIN v \subseteq Names
    BY <1>2, <1>4 DEF Named, Entry
  <1>6. ASSUME NEW n \in DOMAIN v
        PROVE  v[n] \in Define /\ PlainList(v[n].appenders)
    <2>1. doc[First(doc, n)] \in Entry
      BY <1>2, <1>3 DEF Named
    <2> DEFINE d == doc[First(doc, n)]
    <2>2. v[n] = Made(d)
      BY <1>3, <1>4
    <2> HIDE DEF d
    <2>3. d.level \in Levels /\ d.formatter \in Patterns \cup {None} /\ d.appenders \in Seq(EntryAppender)
      BY <2>1 DEF Entry, EntryAppender, d
    <2>4. Readable(d.appenders) \in Seq(Plain)
      BY <2>3, ReadableIsPlain
    <2>5. Plain \subseteq Appender
      BY DEF Plain
    <2>6. Readable(d.appenders) \in Seq(Appender)
      BY <2>4, <2>5, SeqMonotonic
    <2>7. PlainList(Readable(d.appenders))
      BY <2>4, LenProperties, ElementOfSeq DEF PlainList, Plain
    <2> QED BY <2>2, <2>3, <2>6, <2>7 DEF Define, Made
  <1>7. v = [n \in DOMAIN v |-> v[n]]
    BY <1>3
  <1>8. IsValue(v)
    BY <1>5, <1>6, <1>7 DEF IsValue
  <1>9. IsFiniteSet(DOMAIN v)
    <2>1. IsFiniteSet(1..Len(doc))
      BY <1>2, FS_Interval
    <2>2. IsFiniteSet(Named(doc))
      BY <1>2, <2>1, FS_Subset DEF Named
    <2> DEFINE f == [i \in Named(doc) |-> doc[i].name]
    <2>3. DOMAIN v = {f[i] : i \in DOMAIN f} /\ DOMAIN f = Named(doc)
          /\ f = [i \in DOMAIN f |-> f[i]]
      BY <1>4
    <2> HIDE DEF f
    <2> QED BY <2>2, <2>3, FiniteImage
  <1> QED BY <1>6, <1>8, <1>9 DEF v

-----------------------------------------------------------------------------
(* Types *)

(* An appender leaves addAppender with a formatter. *)
LEMMA OutfittedHasFormatter ==
    ASSUME ListsOK, NEW n \in Names, NEW ap \in Given
    PROVE  Outfitted(n, ap) \in Outfit
  BY DEF ListsOK, Given, Outfit, Outfitted

(* clearAppenders leaves a list of the right kind. *)
LEMMA ClearListOK ==
    ASSUME ListsOK, NEW n \in Names, ClearList(n), UNCHANGED <<m_loggers, m_level, m_formatter>>
    PROVE  ListsOK'
  BY EmptySeq DEF ListsOK, ClearList, SetList

(* So does addAppender. *)
LEMMA AppendOK ==
    ASSUME ListsOK, NEW n \in Names, NEW ap \in Given,
           SetList(n, Append(m_appenders[n], Outfitted(n, ap))),
           UNCHANGED <<m_loggers, m_level, m_formatter>>
    PROVE  ListsOK'
  <1>1. Append(m_appenders[n], Outfitted(n, ap)) \in Seq(Outfit)
    BY OutfittedHasFormatter, AppendProperties DEF ListsOK
  <1> QED BY <1>1 DEF ListsOK, SetList

(* And setFormatter of a formatter, which may be in error where the        *)
(* program does it.                                                        *)
LEMMA InstallOK ==
    ASSUME ListsOK, NEW n \in Names, NEW p \in Patterns, Install(n, p),
           n \in ByHand \/ p \in ValidPatterns, UNCHANGED <<m_loggers, m_level>>
    PROVE  ListsOK'
  <1> DEFINE new == [i \in DOMAIN m_appenders[n] |->
                        IF m_appenders[n][i].formatter = None THEN m_appenders[n][i]
                        ELSE [m_appenders[n][i] EXCEPT !.formatter = p]]
  <1>1. m_appenders[n] \in Seq(Outfit)
    BY DEF ListsOK
  <1>2. \A i \in DOMAIN m_appenders[n] : m_appenders[n][i] \in Outfit
    BY <1>1, ElementOfSeq, LenProperties
  <1>3. \A i \in DOMAIN m_appenders[n] : new[i] \in Outfit
    BY <1>2 DEF Outfit
  <1>4. new \in Seq(Outfit)
    <2>1. DOMAIN m_appenders[n] = 1..Len(m_appenders[n]) /\ Len(m_appenders[n]) \in Nat
      BY <1>1, LenProperties
    <2>2. new \in [1..Len(m_appenders[n]) -> Outfit]
      BY <1>3, <2>1
    <2> QED BY <2>1, <2>2, SeqDef
  <1>5. m_formatter' = [m_formatter EXCEPT ![n] = p]
        /\ m_appenders' = [m_appenders EXCEPT ![n] = new]
    BY Zenon DEF Install
  <1> HIDE DEF new
  <1>6. m_appenders' \in [Names -> Seq(Outfit)]
    BY <1>4, <1>5 DEF ListsOK
  <1>7. m_formatter' \in [Names -> Patterns]
    BY <1>5 DEF ListsOK
  <1>8. ASSUME NEW k \in Names \ ByHand PROVE m_formatter'[k] \in ValidPatterns
    BY <1>5 DEF ListsOK
  <1> QED BY <1>6, <1>7, <1>8 DEF ListsOK

(* And that of a pattern. *)
LEMMA ReformatOK ==
    ASSUME ListsOK, NEW n \in Names, NEW p \in Patterns, Reformat(n, p),
           UNCHANGED <<m_loggers, m_level>>
    PROVE  ListsOK'
  <1>1. CASE ~IsPattern(p)
    BY <1>1 DEF Reformat, ListsOK
  <1>2. CASE IsPattern(p)
    BY <1>2, InstallOK DEF Reformat, IsPattern, ValidPatterns
  <1> QED BY <1>1, <1>2

(* setLevel leaves a level, and the highest is still one. *)
LEMMA LevelOK ==
    ASSUME ListsOK, RestOK, NEW n \in Names, NEW l \in Levels, GiveLevel(n, l),
           UNCHANGED <<m_loggers, m_formatter, m_appenders, msg, crashed, lost, emptied>>
    PROVE  ListsOK' /\ RestOK'
  BY DEF ListsOK, RestOK, GiveLevel

(* The empty value is one. *)
LEMMA NoValue == IsValue(<<>>)
  BY DEF IsValue

(* An entry of a value gives its appenders and its level. *)
LEMMA EntryOK ==
    ASSUME NEW v, IsValue(v), NEW n \in DOMAIN v
    PROVE  /\ n \in Names
           /\ v[n].level \in Levels
           /\ v[n].formatter \in Patterns \cup {None}
           /\ v[n].appenders \in Seq(Appender)
  BY DEF IsValue, Define

(* At the start everything is of its kind. *)
LEMMA TypesInit == Init => Types
  <1> SUFFICES ASSUME Init PROVE Types
    OBVIOUS
  <1>1. JobOK
    <2>1. job = [at |-> "ready", new |-> <<>>, todo |-> {}, gone |-> {}, name |-> Root,
                 left |-> <<>>]
          /\ m_val = <<>>
      BY DEF Init, Idle
    <2>2. IsValue(job.new) /\ IsValue(m_val)
      BY <2>1, NoValue
    <2>3. job.left \in Seq(Appender)
      BY <2>1, EmptySeq
    <2> QED BY <2>1, <2>2, <2>3 DEF JobOK, Stage, Busy
  <1>2. ListsOK
    <2>1. m_level \in [Names -> Levels] /\ m_formatter \in [Names -> ValidPatterns]
          /\ m_loggers \subseteq Names
      BY DEF Init, Levels, DEBUG
    <2>2. <<[dest |-> Stdout, level |-> DEBUG, formatter |-> Default]>> \in Seq(Outfit)
          /\ <<>> \in Seq(Outfit)
      BY DEF Outfit, Levels, DEBUG
    <2>3. m_appenders \in [Names -> Seq(Outfit)]
      BY <2>2 DEF Init
    <2> QED BY <2>1, <2>3 DEF ListsOK
  <1>3. RestOK
    <2>1. msg \in [Threads -> Message]
      BY DEF Init, Silent, Message, Levels, UNKNOW
    <2>2. crashed \in BOOLEAN /\ emptied \in BOOLEAN
      BY Zenon DEF Init
    <2>3. lost \subseteq Levels /\ top \in Levels
      BY DEF Init, Levels, DEBUG
    <2> QED BY <2>1, <2>2, <2>3 DEF RestOK
  <1> QED BY <1>1, <1>2, <1>3 DEF Types

(* Logging changes no logger. *)
LEMMA LoggingTypes == Types /\ Logging => Types'
  <1> SUFFICES ASSUME Types, Logging PROVE Types'
    OBVIOUS
  <1> USE DEF Types
  <1>1. PICK t \in Threads :
            (\E n \in Names, l \in DEBUG..MaxLevel : Event(t, n, l)) \/ Log(t) \/ LogRoot(t)
    BY DEF Logging
  <1>2. UNCHANGED <<m_val, m_loggers, loggerVars, job, crashed, emptied, top>>
    BY <1>1 DEF Event, Log, LogRoot
  <1>3. JobOK' /\ ListsOK'
    BY <1>2 DEF JobOK, ListsOK, loggerVars
  <1>4. RestOK'
    <2>1. CASE \E n \in Names, l \in DEBUG..MaxLevel : Event(t, n, l)
      <3> PICK n \in Names, l \in DEBUG..MaxLevel : Event(t, n, l)
        BY <2>1
      <3>1. l \in Levels
        BY DEF Levels, DEBUG
      <3> QED BY <3>1 DEF RestOK, Event, Message
    <2>2. CASE Log(t)
      <3>1. msg[t] \in Message /\ Silent \in Message
        BY DEF RestOK, Message, Silent, Levels, UNKNOW
      <3>2. [msg[t] EXCEPT !.at = "root"] \in Message
        BY <3>1 DEF Message
      <3>3. msg' \in [Threads -> Message]
        BY <2>2, <3>1, <3>2 DEF RestOK, Log
      <3>4. lost' \subseteq Levels
        BY <2>2, <3>1 DEF Log, RestOK, Message
      <3> QED BY <1>2, <3>3, <3>4 DEF RestOK
    <2>3. CASE LogRoot(t)
      <3>1. msg' \in [Threads -> Message]
        BY <2>3 DEF RestOK, LogRoot, Message, Silent, Levels, UNKNOW
      <3>2. lost' \subseteq Levels
        BY <2>3 DEF LogRoot, RestOK, Message
      <3> QED BY <1>2, <3>1, <3>2 DEF RestOK
    <2> QED BY <1>1, <2>1, <2>2, <2>3
  <1> QED BY <1>3, <1>4

(* A change of a list keeps the rest of the kind it is. *)
LEMMA SetListRest ==
    ASSUME RestOK, NEW n, NEW list, SetList(n, list), UNCHANGED <<msg, crashed, lost, top>>
    PROVE  RestOK'
  <1>1. emptied' \in BOOLEAN
    BY Zenon DEF SetList
  <1> QED BY <1>1 DEF RestOK

(* The program's own changes. *)
LEMMA ProgramTypes == Types /\ Program => Types'
  <1> SUFFICES ASSUME Types, Program PROVE Types'
    OBVIOUS
  <1>1. JobOK /\ ListsOK /\ RestOK
    BY DEF Types
  <1>2. PICK n \in Names :
            \/ GetLogger(n)
            \/ \E p \in Patterns \cup {None} :
                   AddAppender(n, [dest |-> Stdout, level |-> DEBUG, formatter |-> p])
            \/ \E i \in DOMAIN m_appenders[n] :
                   \/ DelAppender(n, i)
                   \/ \E p \in Patterns : FormatAppender(n, i, p)
                   \/ \E l \in Levels : LevelAppender(n, i, l)
            \/ ClearAppenders(n)
            \/ \E l \in Levels : SetLevel(n, l)
            \/ \E p \in Patterns : SetFormatter(n, p) \/ SetPattern(n, p)
    BY DEF Program
  <1>3. JobOK' /\ UNCHANGED <<msg, crashed, lost>>
    <2> USE DEF GetLogger, AddAppender, DelAppender, ClearAppenders, SetLevel,
                SetFormatter, SetPattern, FormatAppender, LevelAppender, loggerVars
    <2>1. UNCHANGED <<m_val, job>>
      BY <1>2, Zenon
    <2>2. UNCHANGED <<msg, crashed, lost>>
      BY <1>2, Zenon
    <2> QED BY <1>1, <2>1, <2>2 DEF JobOK
  <1>4. m_appenders[n] \in Seq(Outfit)
    BY <1>1 DEF ListsOK
  <1>5. CASE GetLogger(n)
    BY <1>1, <1>3, <1>5 DEF Types, ListsOK, RestOK, GetLogger, Obtain, loggerVars
  <1>6. ASSUME NEW p \in Patterns \cup {None},
               AddAppender(n, [dest |-> Stdout, level |-> DEBUG, formatter |-> p])
        PROVE  Types'
    <2> DEFINE ap == [dest |-> Stdout, level |-> DEBUG, formatter |-> p]
    <2>1. ap \in Given
      BY DEF Given, Levels, DEBUG
    <2>2. SetList(n, Append(m_appenders[n], Outfitted(n, ap)))
          /\ UNCHANGED <<m_loggers, m_level, m_formatter, top>>
      BY <1>6 DEF AddAppender, GetLogger
    <2> HIDE DEF ap
    <2>3. ListsOK'
      BY <1>1, <2>1, <2>2, AppendOK
    <2>4. RestOK'
      BY <1>1, <1>3, <2>2, SetListRest
    <2> QED BY <1>3, <2>3, <2>4 DEF Types
  <1>7. ASSUME NEW i \in DOMAIN m_appenders[n], DelAppender(n, i)
        PROVE  Types'
    <2>1. SetList(n, RemoveAt(m_appenders[n], i))
          /\ UNCHANGED <<m_loggers, m_level, m_formatter, top>>
      BY <1>7 DEF DelAppender
    <2>2. i \in 1..Len(m_appenders[n]) /\ Len(m_appenders[n]) \in Nat
      BY <1>4, LenProperties
    <2>3. RemoveAt(m_appenders[n], i) \in Seq(Outfit)
      <3>1. SubSeq(m_appenders[n], 1, i - 1) \in Seq(Outfit)
        BY <1>4, <2>2, SubSeqProperties
      <3>2. SubSeq(m_appenders[n], i + 1, Len(m_appenders[n])) \in Seq(Outfit)
        BY <1>4, <2>2, SubSeqProperties
      <3> QED BY <3>1, <3>2, ConcatProperties DEF RemoveAt
    <2>4. ListsOK'
      BY <1>1, <2>1, <2>3 DEF ListsOK, SetList
    <2>5. RestOK'
      BY <1>1, <1>3, <2>1, SetListRest
    <2> QED BY <1>3, <2>4, <2>5 DEF Types
  <1>8. ASSUME NEW i \in DOMAIN m_appenders[n],
               (\E p \in Patterns : FormatAppender(n, i, p))
               \/ (\E l \in Levels : LevelAppender(n, i, l))
        PROVE  Types'
    <2>1. m_appenders[n][i] \in Outfit
      BY <1>4, ElementOfSeq, LenProperties
    <2>2. UNCHANGED <<m_loggers, m_level, m_formatter, msg, crashed, lost, emptied, top>>
      BY <1>8 DEF FormatAppender, LevelAppender
    <2>3. PICK ap \in Outfit : m_appenders' = [m_appenders EXCEPT ![n] =
                                                   [m_appenders[n] EXCEPT ![i] = ap]]
      <3>1. ASSUME NEW p \in Patterns, FormatAppender(n, i, p)
            PROVE  m_appenders' = [m_appenders EXCEPT ![n] = [m_appenders[n] EXCEPT ![i] =
                                      [m_appenders[n][i] EXCEPT !.formatter = p]]]
                   /\ [m_appenders[n][i] EXCEPT !.formatter = p] \in Outfit
        BY <2>1, <3>1 DEF FormatAppender, Outfit
      <3>2. ASSUME NEW l \in Levels, LevelAppender(n, i, l)
            PROVE  m_appenders' = [m_appenders EXCEPT ![n] = [m_appenders[n] EXCEPT ![i] =
                                      [m_appenders[n][i] EXCEPT !.level = l]]]
                   /\ [m_appenders[n][i] EXCEPT !.level = l] \in Outfit
        BY <2>1, <3>2 DEF LevelAppender, Outfit
      <3> QED BY <1>8, <3>1, <3>2
    <2>4. [m_appenders[n] EXCEPT ![i] = ap] \in Seq(Outfit)
      BY <1>4, ExceptSeq, LenProperties
    <2>5. ListsOK'
      BY <1>1, <2>2, <2>3, <2>4 DEF ListsOK
    <2>6. RestOK'
      BY <1>1, <2>2 DEF RestOK
    <2> QED BY <1>3, <2>5, <2>6 DEF Types
  <1>9. CASE ClearAppenders(n)
    <2>1. ClearList(n) /\ UNCHANGED <<m_loggers, m_level, m_formatter, top>>
      BY <1>9 DEF ClearAppenders
    <2>2. RestOK'
      BY <1>1, <1>3, <2>1, SetListRest DEF ClearList
    <2> QED BY <1>1, <1>3, <2>1, <2>2, ClearListOK DEF Types
  <1>10. ASSUME NEW l \in Levels, SetLevel(n, l) PROVE Types'
    BY <1>1, <1>3, <1>10, LevelOK DEF Types, SetLevel
  <1>11. ASSUME NEW p \in Patterns, SetFormatter(n, p) PROVE Types'
    <2>1. Install(n, p) /\ n \in ByHand /\ UNCHANGED <<m_loggers, m_level>>
      BY <1>11 DEF SetFormatter
    <2>2. RestOK'
      BY <1>1, <1>11 DEF RestOK, SetFormatter
    <2> QED BY <1>1, <1>3, <2>1, <2>2, InstallOK DEF Types
  <1>12. ASSUME NEW p \in Patterns, SetPattern(n, p) PROVE Types'
    <2>1. Reformat(n, p) /\ UNCHANGED <<m_loggers, m_level>>
      BY <1>12 DEF SetPattern
    <2>2. RestOK'
      BY <1>1, <1>12 DEF RestOK, SetPattern
    <2> QED BY <1>1, <1>3, <2>1, <2>2, ReformatOK DEF Types
  <1> QED BY <1>2, <1>5, <1>6, <1>7, <1>8, <1>9, <1>10, <1>11, <1>12

(* The steps of a reload. *)
LEMMA ListenerTypes == Types /\ Listener => Types'
  <1> SUFFICES ASSUME Types, Listener PROVE Types'
    OBVIOUS
  <1>1. JobOK /\ ListsOK /\ RestOK
    BY DEF Types
  <1>2. ASSUME NEW doc \in Documents, Reload(doc) PROVE Types'
    <2>1. IsValue(Convert(doc))
      BY ConvertIsValue
    <2> DEFINE new == Convert(doc)
    <2>2. job' = [at |-> "next", new |-> new, todo |-> DOMAIN new,
                  gone |-> DOMAIN m_val \ DOMAIN new, name |-> Root, left |-> <<>>]
      BY <1>2 DEF Reload, Idle
    <2>3. UNCHANGED <<m_val, m_loggers, loggerVars, msg, crashed, lost, emptied, top>>
      BY <1>2 DEF Reload
    <2> HIDE DEF new
    <2>4. DOMAIN m_val \subseteq Names
      BY <1>1 DEF JobOK, IsValue
    <2>5. IsValue(new) /\ (IsValue(job.new))' /\ IsValue(m_val)'
      BY <1>1, <2>1, <2>2, <2>3 DEF JobOK, new, IsValue
    <2>6. job.left' \in Seq(Appender)
      BY <2>2, EmptySeq
    <2>7. JobOK'
      BY <2>2, <2>4, <2>5, <2>6 DEF JobOK, Stage, Busy
    <2> QED BY <1>1, <2>3, <2>7 DEF Types, ListsOK, RestOK, loggerVars
  <1>3. ASSUME NEW n \in Names, TakeEntry(n) PROVE Types'
    <2>1. job' = [at |-> "level", new |-> job.new, todo |-> job.todo \ {n}, gone |-> job.gone,
                  name |-> n, left |-> job.left] /\ n \in job.todo
      BY <1>1, <1>3 DEF TakeEntry, JobOK
    <2>2. UNCHANGED m_val
      BY <1>3 DEF TakeEntry
    <2>3. JobOK'
      BY <1>1, <2>1, <2>2 DEF JobOK, Stage, Busy, IsValue
    <2> QED BY <1>1, <1>3, <2>3 DEF Types, ListsOK, RestOK, TakeEntry, Obtain, loggerVars
  <1>4. ASSUME NEW n \in Names, UseNull(n) PROVE Types'
    <2>1. crashed' \in BOOLEAN
      BY <1>4, Zenon DEF UseNull
    <2> QED BY <1>1, <1>4, <2>1 DEF Types, JobOK, ListsOK, RestOK, UseNull, loggerVars
  <1>5. ASSUME NEW n \in Names, DropEntry(n) PROVE Types'
    <2>1. job' = [at |-> "wipe", new |-> job.new, todo |-> job.todo, gone |-> job.gone \ {n},
                  name |-> n, left |-> job.left] /\ n \in job.gone
      BY <1>1, <1>5 DEF DropEntry, JobOK
    <2>2. UNCHANGED m_val
      BY <1>5 DEF DropEntry
    <2>3. JobOK'
      BY <1>1, <2>1, <2>2 DEF JobOK, Stage, Busy, IsValue
    <2>4. UNKNOW \in Levels
      BY DEF Levels, UNKNOW
    <2> QED BY <1>1, <1>5, <2>3, <2>4, LevelOK DEF Types, DropEntry
  <1>6. CASE TakeLevel
    <2>1. job' = [at |-> "format", new |-> job.new, todo |-> job.todo, gone |-> job.gone,
                  name |-> job.name, left |-> job.left] /\ job.at = "level"
      BY <1>1, <1>6 DEF TakeLevel, JobOK
    <2>2. UNCHANGED m_val
      BY <1>6 DEF TakeLevel
    <2>3. JobOK'
      BY <1>1, <2>1, <2>2 DEF JobOK, Stage, Busy, IsValue
    <2>4. job.new[job.name].level \in Levels
      BY <1>1, <2>1, EntryOK DEF JobOK, Busy
    <2>5. job.name \in Names
      BY <1>1 DEF JobOK
    <2> QED BY <1>1, <1>6, <2>3, <2>4, <2>5, LevelOK DEF Types, TakeLevel
  <1>7. CASE TakeFormatter
    <2> DEFINE d == job.new[job.name]
    <2>1. job' = [at |-> "clear", new |-> job.new, todo |-> job.todo, gone |-> job.gone,
                  name |-> job.name, left |-> d.appenders] /\ job.at = "format"
      BY <1>1, <1>7 DEF TakeFormatter, JobOK
    <2>2. UNCHANGED <<m_val, m_loggers, m_level, msg, crashed, lost, emptied, top>>
      BY <1>7 DEF TakeFormatter
    <2>3. d.appenders \in Seq(Appender) /\ d.formatter \in Patterns \cup {None}
      BY <1>1, <2>1, EntryOK DEF JobOK, Busy
    <2>4. JobOK'
      BY <1>1, <2>1, <2>2, <2>3 DEF JobOK, Stage, Busy, IsValue
    <2>5. ListsOK'
      <3>1. CASE d.formatter = None
        BY <1>1, <1>7, <2>2, <3>1 DEF TakeFormatter, ListsOK
      <3>2. CASE d.formatter # None
        <4>1. Reformat(job.name, d.formatter) /\ d.formatter \in Patterns /\ job.name \in Names
          BY <1>1, <1>7, <2>3, <3>2 DEF TakeFormatter, JobOK
        <4> QED BY <1>1, <2>2, <4>1, ReformatOK
      <3> QED BY <3>1, <3>2
    <2> QED BY <1>1, <2>2, <2>4, <2>5 DEF Types, RestOK
  <1>8. CASE ClearOld
    <2>1. job' = [at |-> IF job.left = <<>> THEN "next" ELSE "add", new |-> job.new,
                  todo |-> job.todo, gone |-> job.gone, name |-> job.name, left |-> job.left]
          /\ job.at = "clear"
      BY <1>1, <1>8 DEF ClearOld, JobOK
    <2>2. ClearList(job.name)
          /\ UNCHANGED <<m_val, m_loggers, m_level, m_formatter, msg, crashed, lost, top>>
      BY <1>8 DEF ClearOld
    <2>3. JobOK'
      BY <1>1, <2>1, <2>2 DEF JobOK, Stage, Busy, IsValue
    <2>4. ListsOK'
      BY <1>1, <2>2, ClearListOK DEF JobOK
    <2>5. RestOK'
      BY <1>1, <2>2, SetListRest DEF ClearList
    <2> QED BY <2>3, <2>4, <2>5 DEF Types
  <1>9. CASE AddNew
    <2> DEFINE h == Head(job.left)
               ap == [dest |-> h.dest, level |-> h.level,
                      formatter |-> IF h.formatter # None /\ IsPattern(h.formatter)
                                    THEN h.formatter ELSE None]
    <2>1. job' = [at |-> IF Len(job.left) = 1 THEN "next" ELSE "add", new |-> job.new,
                  todo |-> job.todo, gone |-> job.gone, name |-> job.name, left |-> Tail(job.left)]
          /\ job.at = "add"
      BY <1>1, <1>9 DEF AddNew, JobOK
    <2>2. SetList(job.name, Append(m_appenders[job.name], Outfitted(job.name, ap)))
          /\ UNCHANGED <<m_val, m_loggers, m_level, m_formatter, msg, crashed, lost, top>>
      BY <1>9 DEF AddNew
    <2>3. job.left \in Seq(Appender) /\ job.left # <<>>
      BY <1>1, <2>1 DEF JobOK
    <2>4. h \in Appender /\ Tail(job.left) \in Seq(Appender)
          /\ (Len(job.left) # 1 => Tail(job.left) # <<>>)
      <3>1. h \in Appender /\ Tail(job.left) \in Seq(Appender)
            /\ Len(Tail(job.left)) = Len(job.left) - 1
        BY <2>3, HeadTailProperties
      <3>2. Len(job.left) \in Nat
        BY <2>3, LenProperties
      <3>3. Len(job.left) # 1 => Len(Tail(job.left)) # 0
        BY <3>1, <3>2
      <3> QED BY <3>1, <3>3, EmptySeq
    <2>5. JobOK'
      BY <1>1, <2>1, <2>2, <2>4 DEF JobOK, Stage, Busy, IsValue
    <2>6. ap \in Given
      BY <2>4 DEF Appender, Given, IsPattern, ValidPatterns
    <2> HIDE DEF ap
    <2>7. ListsOK'
      BY <1>1, <2>2, <2>6, AppendOK DEF JobOK
    <2>8. RestOK'
      BY <1>1, <2>2, SetListRest
    <2> QED BY <2>5, <2>7, <2>8 DEF Types
  <1>10. CASE WipeOld
    <2>1. job' = [at |-> "next", new |-> job.new, todo |-> job.todo, gone |-> job.gone,
                  name |-> job.name, left |-> job.left]
      BY <1>1, <1>10 DEF WipeOld, JobOK
    <2>2. ClearList(job.name)
          /\ UNCHANGED <<m_val, m_loggers, m_level, m_formatter, msg, crashed, lost, top>>
      BY <1>10 DEF WipeOld
    <2>3. JobOK'
      BY <1>1, <2>1, <2>2 DEF JobOK, Stage, Busy, IsValue
    <2>4. ListsOK'
      BY <1>1, <2>2, ClearListOK DEF JobOK
    <2>5. RestOK'
      BY <1>1, <2>2, SetListRest DEF ClearList
    <2> QED BY <2>3, <2>4, <2>5 DEF Types
  <1>11. CASE Assign
    <2>1. job' = [at |-> "ready", new |-> <<>>, todo |-> {}, gone |-> {}, name |-> Root,
                  left |-> <<>>] /\ m_val' = job.new
      BY <1>11 DEF Assign, Idle
    <2>2. IsValue(job.new)' /\ IsValue(m_val)'
      <3>1. IsValue(job'.new)
        BY <2>1, NoValue
      <3>2. IsValue(m_val')
        BY <1>1, <2>1 DEF JobOK
      <3> QED BY <3>1, <3>2 DEF IsValue
    <2>3. job.left' \in Seq(Appender)
      BY <2>1, EmptySeq
    <2>4. JobOK'
      BY <2>1, <2>2, <2>3 DEF JobOK, Stage, Busy
    <2> QED BY <1>1, <1>11, <2>4 DEF Types, ListsOK, RestOK, Assign, loggerVars
  <1> QED BY <1>2, <1>3, <1>4, <1>5, <1>6, <1>7, <1>8, <1>9, <1>10, <1>11 DEF Listener

(* Every step keeps the types. *)
LEMMA TypesStep == Types /\ [Next]_vars => Types'
  <1> SUFFICES ASSUME Types, [Next]_vars PROVE Types'
    OBVIOUS
  <1>1. CASE UNCHANGED vars
    BY <1>1 DEF vars, Types, JobOK, ListsOK, RestOK, loggerVars
  <1>2. CASE Next
    BY <1>1, <1>2, LoggingTypes, ProgramTypes, ListenerTypes DEF Next, Crashed
  <1> QED BY <1>1, <1>2

LEMMA TypesHold == Spec => []Types
  BY TypesInit, TypesStep, PTL DEF Spec

(* The variables keep to their types (the members of LogDefine, Logger,    *)
(* LogAppender and LogManager).                                            *)
THEOREM TypeCorrect == Spec => []TypeOK
  <1>1. Types => TypeOK
    <2> SUFFICES ASSUME Types PROVE TypeOK
      OBVIOUS
    <2>1. Outfit \subseteq Appender
      BY DEF Outfit, Appender
    <2>2. \A n \in Names : m_appenders[n] \in Seq(Appender)
      BY <2>1, SeqMonotonic DEF Types, ListsOK
    <2>3. m_appenders \in [Names -> Seq(Appender)]
      BY <2>2 DEF Types, ListsOK
    <2>4. job.todo \cup job.gone \subseteq Names
      BY DEF Types, JobOK, IsValue
    <2>5. {crashed, emptied} \subseteq BOOLEAN
      BY DEF Types, RestOK
    <2> QED BY <2>3, <2>4, <2>5 DEF TypeOK, Types, JobOK, ListsOK, RestOK
  <1> QED BY <1>1, TypesHold, PTL

(* No appender of a logger is without a formatter: addAppender gives it    *)
(* the logger's, and nothing takes it away (Logger::addAppender,           *)
(* Logger::setFormatter).                                                  *)
THEOREM AlwaysFormatted == Spec => []AppendersFormatted
  <1>1. Types => AppendersFormatted
    <2> SUFFICES ASSUME Types, NEW n \in Names, NEW i \in DOMAIN m_appenders[n]
                 PROVE  m_appenders[n][i].formatter # None
      BY DEF AppendersFormatted
    <2>1. m_appenders[n] \in Seq(Outfit)
      BY DEF Types, ListsOK
    <2>2. m_appenders[n][i] \in Outfit
      BY <2>1, ElementOfSeq, LenProperties
    <2> QED BY <2>2 DEF Outfit
  <1> QED BY <1>1, TypesHold, PTL

-----------------------------------------------------------------------------
(* The root logger takes what nobody else does *)

RootServes ==
    /\ ~emptied => m_appenders[Root] # <<>>
    /\ m_level[Root] <= top
    /\ NoneLost

(* Changing a list records it when the root logger's becomes empty. *)
LEMMA SetListServes ==
    ASSUME Types, RootServes, NEW n \in Names, NEW list, SetList(n, list),
           UNCHANGED <<m_level, lost, top>>
    PROVE  RootServes'
  <1>1. m_appenders'[Root] = IF n = Root THEN list ELSE m_appenders[Root]
    BY DEF SetList, Types, ListsOK
  <1>2. emptied' <=> (emptied \/ (n = Root /\ list = <<>>))
    BY DEF SetList
  <1> QED BY <1>1, <1>2 DEF RootServes, NoneLost

(* A change of formatters leaves as many appenders as there were. *)
LEMMA InstallServes ==
    ASSUME Types, RootServes, NEW n \in Names, NEW p, Install(n, p),
           UNCHANGED <<m_level, lost, emptied, top>>
    PROVE  RootServes'
  <1> DEFINE old == m_appenders[n]
             new == [i \in DOMAIN old |-> IF old[i].formatter = None THEN old[i]
                                          ELSE [old[i] EXCEPT !.formatter = p]]
  <1>1. old # <<>> => new # <<>>
    <2>1. old \in Seq(Outfit)
      BY DEF Types, ListsOK
    <2>2. old # <<>> => 1 \in DOMAIN old
      BY <2>1, EmptySeq, LenProperties
    <2>3. DOMAIN new = DOMAIN old /\ DOMAIN <<>> = {}
      OBVIOUS
    <2> HIDE DEF new
    <2> QED BY <2>2, <2>3
  <1>2. m_appenders' = [m_appenders EXCEPT ![n] = new]
    BY Zenon DEF Install
  <1>3. m_appenders \in [Names -> Seq(Outfit)]
    BY DEF Types, ListsOK
  <1> HIDE DEF new
  <1> QED BY <1>1, <1>2, <1>3 DEF RootServes, NoneLost

(* A pattern in error changes nothing. *)
LEMMA ReformatServes ==
    ASSUME Types, RootServes, NEW n \in Names, NEW p, Reformat(n, p),
           UNCHANGED <<m_level, lost, emptied, top>>
    PROVE  RootServes'
  <1>1. CASE IsPattern(p)
    BY <1>1, InstallServes DEF Reformat
  <1>2. CASE ~IsPattern(p)
    BY <1>2 DEF Reformat, RootServes, NoneLost
  <1> QED BY <1>1, <1>2

(* The highest level is at least the one that is set. *)
LEMMA LevelServes ==
    ASSUME Types, RootServes, NEW n \in Names, NEW l \in Levels, GiveLevel(n, l),
           UNCHANGED <<m_appenders, lost, emptied>>
    PROVE  RootServes'
  <1>1. m_level[Root] \in Int /\ top \in Int /\ l \in Int /\ lost \subseteq Int
    BY DEF Types, ListsOK, RestOK, Levels
  <1>2. m_level'[Root] = IF n = Root THEN l ELSE m_level[Root]
    BY DEF GiveLevel, Types, ListsOK
  <1>3. top' = IF n = Root /\ l > top THEN l ELSE top
    BY DEF GiveLevel
  <1>4. m_level'[Root] <= top' /\ top <= top'
    BY <1>1, <1>2, <1>3 DEF RootServes
  <1>5. top' \in Int
    BY <1>1, <1>3
  <1>6. NoneLost'
    BY <1>1, <1>4, <1>5 DEF RootServes, NoneLost
  <1> QED BY <1>4, <1>6 DEF RootServes

LEMMA ServesStep == Types /\ RootServes /\ [Next]_vars => RootServes'
  <1> SUFFICES ASSUME Types, RootServes, [Next]_vars PROVE RootServes'
    OBVIOUS
  <1>1. CASE UNCHANGED <<m_appenders, m_level, lost, emptied, top>>
    BY <1>1 DEF RootServes, NoneLost
  <1>2. CASE UNCHANGED vars
    BY <1>1, <1>2 DEF vars, loggerVars
  <1>3. ASSUME NEW t \in Threads, Log(t) PROVE RootServes'
    <2> DEFINE n == msg[t].name
               lone == m_appenders[n] = <<>> /\ msg'[t] = Silent
    <2>1. UNCHANGED <<m_appenders, m_level, emptied, top>>
          /\ lost' = IF lone THEN lost \cup {msg[t].level} ELSE lost
      BY <1>3 DEF Log, loggerVars
    <2>2. msg[t] \in Message /\ m_level[Root] \in Int /\ top \in Int /\ msg[t].level \in Int
      BY DEF Types, ListsOK, RestOK, Message, Levels
    <2>3. lone => n = Root \/ ~(msg[t].level >= m_level[Root])
      <3>1. [msg[t] EXCEPT !.at = "root"] # Silent
        BY <2>2 DEF Message, Silent
      <3>2. msg'[t] = IF m_appenders[n] = <<>> /\ n # Root /\ msg[t].level >= m_level[Root]
                      THEN [msg[t] EXCEPT !.at = "root"] ELSE Silent
        BY <1>3 DEF Log, HasRoot, Types, RestOK
      <3> QED BY <3>1, <3>2
    <2>4. lone => emptied \/ msg[t].level < top
      BY <2>2, <2>3 DEF RootServes
    <2> HIDE DEF lone
    <2> QED BY <2>1, <2>4 DEF RootServes, NoneLost
  <1>4. ASSUME NEW t \in Threads, LogRoot(t) PROVE RootServes'
    BY <1>4 DEF LogRoot, RootServes, NoneLost, loggerVars
  <1>5. CASE Logging
    BY <1>1, <1>3, <1>4, <1>5 DEF Logging, Event, loggerVars
  <1>6. CASE Program
    <2>1. ASSUME NEW n \in Names, NEW ap, AddAppender(n, ap)
          PROVE  RootServes'
      BY <2>1, SetListServes DEF AddAppender
    <2>2. ASSUME NEW n \in Names, NEW i, DelAppender(n, i) PROVE RootServes'
      BY <2>2, SetListServes DEF DelAppender
    <2>3. ASSUME NEW n \in Names, NEW i \in DOMAIN m_appenders[n],
                 (\E p \in Patterns : FormatAppender(n, i, p))
                 \/ (\E l \in Levels : LevelAppender(n, i, l))
          PROVE  RootServes'
      <3>1. m_appenders'[Root] # <<>> <=> m_appenders[Root] # <<>>
        <4>1. m_appenders \in [Names -> Seq(Outfit)]
          BY DEF Types, ListsOK
        <4>2. CASE n # Root
          BY <2>3, <4>1, <4>2 DEF FormatAppender, LevelAppender
        <4>3. CASE n = Root
          <5>1. DOMAIN m_appenders'[n] = DOMAIN m_appenders[n]
            BY <2>3, <4>1 DEF FormatAppender, LevelAppender
          <5>2. i \in DOMAIN m_appenders[n] /\ i \in DOMAIN m_appenders'[n] /\ i \notin DOMAIN <<>>
            BY <5>1
          <5> QED BY <4>3, <5>2
        <4> QED BY <4>2, <4>3
      <3> QED BY <2>3, <3>1 DEF FormatAppender, LevelAppender, RootServes, NoneLost
    <2>4. ASSUME NEW n \in Names, ClearAppenders(n) PROVE RootServes'
      BY <2>4, SetListServes DEF ClearAppenders, ClearList
    <2>5. ASSUME NEW n \in Names, NEW p, SetFormatter(n, p) \/ SetPattern(n, p)
          PROVE  RootServes'
      BY <2>5, InstallServes, ReformatServes DEF SetFormatter, SetPattern
    <2>6. ASSUME NEW n \in Names, GetLogger(n) PROVE RootServes'
      BY <1>1, <2>6 DEF GetLogger, loggerVars
    <2>7. ASSUME NEW n \in Names, NEW l \in Levels, SetLevel(n, l) PROVE RootServes'
      BY <2>7, LevelServes DEF SetLevel
    <2> QED BY <1>6, <2>1, <2>2, <2>3, <2>4, <2>5, <2>6, <2>7 DEF Program
  <1>7. CASE Listener
    <2> job.name \in Names
      BY DEF Types, JobOK
    <2>1. CASE TakeFormatter
      <3>1. CASE job.new[job.name].formatter = None
        BY <1>1, <2>1, <3>1 DEF TakeFormatter
      <3>2. CASE job.new[job.name].formatter # None
        BY <2>1, <3>2, ReformatServes DEF TakeFormatter
      <3> QED BY <3>1, <3>2
    <2>2. CASE ClearOld
      BY <2>2, SetListServes DEF ClearOld, ClearList
    <2>3. CASE AddNew
      BY <2>3, SetListServes DEF AddNew
    <2>4. CASE WipeOld
      BY <2>4, SetListServes DEF WipeOld, ClearList
    <2>5. CASE \/ \E doc \in Documents : Reload(doc)
               \/ \E n \in Names : TakeEntry(n) \/ UseNull(n)
               \/ Assign
      BY <1>1, <2>5 DEF Reload, TakeEntry, UseNull, Assign, loggerVars
    <2>6. ASSUME NEW n \in Names, DropEntry(n) PROVE RootServes'
      <3>1. UNKNOW \in Levels
        BY DEF Levels, UNKNOW
      <3> QED BY <2>6, <3>1, LevelServes DEF DropEntry
    <2>7. CASE TakeLevel
      <3>1. job.new[job.name].level \in Levels
        BY <2>7, EntryOK DEF TakeLevel, Types, JobOK, Busy
      <3> QED BY <2>7, <3>1, LevelServes DEF TakeLevel
    <2> QED BY <1>7, <2>1, <2>2, <2>3, <2>4, <2>5, <2>6, <2>7 DEF Listener
  <1> QED BY <1>2, <1>5, <1>6, <1>7 DEF Next, Crashed

(* A message that passes its logger's level is lost only if it is below a  *)
(* level the root logger has had or after the root logger was without      *)
(* appenders, whatever the program and any number of reloads do to the     *)
(* other loggers meanwhile (Logger::log).                                  *)
THEOREM NoMessageLost == Spec => []NoneLost
  <1>1. Init => RootServes
    BY DEF Init, RootServes, NoneLost, DEBUG
  <1>2. RootServes => NoneLost
    BY DEF RootServes
  <1> QED BY <1>1, <1>2, TypesHold, ServesStep, PTL DEF Spec

-----------------------------------------------------------------------------
(* Between two reloads the loggers are what the value says *)

(* A logger of level l, pattern p and these appenders follows d. *)
Fits(l, p, list, d) ==
    /\ l = d.level
    /\ d.formatter \in ValidPatterns => p = d.formatter
    /\ list = [i \in DOMAIN d.appenders |-> MadeOf(p, d.appenders[i])]

(* What a logger has of its entry d when the reload is at this stage. *)
AtHand(at, l, p, list, left, d) ==
    /\ at # "level" => l = d.level
    /\ at \in {"clear", "add"} => (d.formatter \in ValidPatterns => p = d.formatter)
    /\ at = "add" => Partly(p, list, left, d.appenders)

Now(n) == Fits(m_level[n], m_formatter[n], m_appenders[n], job.new[n])

Kept(n) ==
    /\ job.at = "ready" =>
          IF n \in DOMAIN m_val
          THEN n \in m_loggers /\ Fits(m_level[n], m_formatter[n], m_appenders[n], m_val[n])
          ELSE n # Root => m_appenders[n] = <<>>
    /\ job.at # "ready" =>
          /\ n \in DOMAIN job.new \ job.todo => n \in m_loggers
          /\ n \in DOMAIN job.new \ job.todo /\ ~(job.at \in Busy /\ n = job.name) => Now(n)
          /\ n \notin DOMAIN job.new \cup job.gone /\ n # Root
             /\ ~(job.at = "wipe" /\ n = job.name) => m_appenders[n] = <<>>
          /\ job.at \in Busy /\ n = job.name =>
                AtHand(job.at, m_level[n], m_formatter[n], m_appenders[n], job.left, job.new[n])

Follow == \A n \in Names \ ByHand : Kept(n)

(* A logger a step leaves alone, as it does the reload, is kept. *)
LEMMA AloneKept ==
    ASSUME NEW n \in Names, Kept(n), UNCHANGED <<job, m_val>>, m_loggers \subseteq m_loggers',
           m_level'[n] = m_level[n], m_formatter'[n] = m_formatter[n],
           m_appenders'[n] = m_appenders[n]
    PROVE  Kept(n)'
  BY DEF Kept, Now

(* The program's own changes are not to these loggers. *)
LEMMA ListsAlone ==
    ASSUME Types, Logging \/ Program, NEW n \in Names \ ByHand
    PROVE  /\ UNCHANGED <<job, m_val>> /\ m_loggers \subseteq m_loggers'
           /\ m_level'[n] = m_level[n] /\ m_formatter'[n] = m_formatter[n]
           /\ m_appenders'[n] = m_appenders[n]
  <1> DEFINE alone == /\ UNCHANGED <<job, m_val>> /\ m_loggers \subseteq m_loggers'
                      /\ m_level'[n] = m_level[n] /\ m_formatter'[n] = m_formatter[n]
                      /\ m_appenders'[n] = m_appenders[n]
  <1>1. ASSUME Logging PROVE alone
    BY <1>1 DEF Logging, Event, Log, LogRoot, loggerVars
  <1>2. ASSUME Program PROVE alone
    <2>1. PICK k \in Names :
            \/ GetLogger(k)
            \/ \E p \in Patterns \cup {None} :
                   AddAppender(k, [dest |-> Stdout, level |-> DEBUG, formatter |-> p])
            \/ \E i \in DOMAIN m_appenders[k] :
                   \/ DelAppender(k, i)
                   \/ \E p \in Patterns : FormatAppender(k, i, p)
                   \/ \E l \in Levels : LevelAppender(k, i, l)
            \/ ClearAppenders(k)
            \/ \E l \in Levels : SetLevel(k, l)
            \/ \E p \in Patterns : SetFormatter(k, p) \/ SetPattern(k, p)
      BY <1>2 DEF Program
    <2>2. ASSUME GetLogger(k) PROVE alone
      BY <2>2 DEF GetLogger, Obtain, loggerVars
    <2>3. ASSUME NEW ap, AddAppender(k, ap) PROVE alone
      BY <2>3 DEF AddAppender, SetList, Types, ListsOK
    <2>4. ASSUME NEW i, DelAppender(k, i) PROVE alone
      BY <2>4 DEF DelAppender, SetList, Types, ListsOK
    <2>5. ASSUME NEW i, NEW x, FormatAppender(k, i, x) \/ LevelAppender(k, i, x) PROVE alone
      BY <2>5 DEF FormatAppender, LevelAppender, Types, ListsOK
    <2>6. ASSUME ClearAppenders(k) PROVE alone
      BY <2>6 DEF ClearAppenders, ClearList, SetList, Types, ListsOK
    <2>7. ASSUME NEW l, SetLevel(k, l) PROVE alone
      BY <2>7 DEF SetLevel, GiveLevel, Types, ListsOK
    <2>8. ASSUME NEW p, SetFormatter(k, p) \/ SetPattern(k, p) PROVE alone
      BY <2>8 DEF SetFormatter, SetPattern, Reformat, Install, Types, ListsOK
    <2> QED BY <2>1, <2>2, <2>3, <2>4, <2>5, <2>6, <2>7, <2>8
  <1> QED BY <1>1, <1>2

LEMMA ProgramKept == Types /\ Follow /\ (Logging \/ Program) => Follow'
  BY ListsAlone, AloneKept DEF Follow

(* What addAppender makes of a new appender of the reload. *)
LEMMA NewIsMade ==
    ASSUME NEW n, NEW a \in Appender
    PROVE  Outfitted(n, [dest |-> a.dest, level |-> a.level,
                         formatter |-> IF a.formatter # None /\ IsPattern(a.formatter)
                                       THEN a.formatter ELSE None])
           = MadeOf(m_formatter[n], a)
  BY DEF Outfitted, MadeOf, IsPattern, ValidPatterns, Appender

(* Each step of a reload brings the loggers further, or leaves them.       *)
LEMMA ListenerKept == Types /\ Types' /\ Follow /\ Listener => Follow'
  <1> SUFFICES ASSUME Types, Types', Follow, Listener, NEW n \in Names \ ByHand
               PROVE  Kept(n)'
    BY DEF Follow
  <1>1. Kept(n)
    BY DEF Follow
  <1>2. JobOK /\ ListsOK
    BY DEF Types
  <1> DEFINE m == job.name
             d == job.new[m]
  <1>3. job = [at |-> job.at, new |-> job.new, todo |-> job.todo, gone |-> job.gone,
               name |-> m, left |-> job.left]
    BY <1>2 DEF JobOK
  <1>4. ASSUME NEW doc \in Documents, Reload(doc) PROVE Kept(n)'
    <2> DEFINE new == Convert(doc)
    <2>1. job' = [at |-> "next", new |-> new, todo |-> DOMAIN new,
                  gone |-> DOMAIN m_val \ DOMAIN new, name |-> Root, left |-> <<>>]
          /\ job.at = "ready"
      BY <1>4 DEF Reload, Idle
    <2>2. UNCHANGED <<m_val, m_loggers, m_level, m_formatter, m_appenders>>
      BY <1>4 DEF Reload, loggerVars
    <2> HIDE DEF new
    <2> QED BY <1>1, <2>1, <2>2 DEF Kept, Now, Busy
  <1>5. ASSUME NEW k \in Names, TakeEntry(k) PROVE Kept(n)'
    <2>1. job' = [at |-> "level", new |-> job.new, todo |-> job.todo \ {k}, gone |-> job.gone,
                  name |-> k, left |-> job.left] /\ job.at = "next" /\ k \in job.todo
      BY <1>3, <1>5 DEF TakeEntry
    <2>2. UNCHANGED <<m_val, m_level, m_formatter, m_appenders>> /\ m_loggers' = m_loggers \cup {k}
      BY <1>5 DEF TakeEntry, loggerVars, Obtain
    <2> QED BY <1>1, <2>1, <2>2 DEF Kept, Now, Busy, AtHand
  <1>6. ASSUME NEW k \in Names, UseNull(k) PROVE Kept(n)'
    BY <1>1, <1>6, AloneKept DEF UseNull, loggerVars
  <1>7. ASSUME NEW k \in Names, DropEntry(k) PROVE Kept(n)'
    <2>1. job' = [at |-> "wipe", new |-> job.new, todo |-> job.todo, gone |-> job.gone \ {k},
                  name |-> k, left |-> job.left] /\ job.at = "next" /\ k \in job.gone
          /\ k \notin DOMAIN job.new
      BY <1>2, <1>3, <1>7 DEF DropEntry, JobOK
    <2>2. UNCHANGED <<m_val, m_loggers, m_formatter, m_appenders>>
          /\ m_level' = [m_level EXCEPT ![k] = UNKNOW]
      BY <1>7 DEF DropEntry, GiveLevel
    <2>3. n # k => m_level'[n] = m_level[n]
      BY <1>2, <2>2 DEF ListsOK
    <2> QED BY <1>1, <2>1, <2>2, <2>3 DEF Kept, Now, Busy
  <1>8. CASE TakeLevel
    <2>1. job' = [at |-> "format", new |-> job.new, todo |-> job.todo, gone |-> job.gone,
                  name |-> m, left |-> job.left] /\ job.at = "level"
      BY <1>3, <1>8 DEF TakeLevel
    <2>2. UNCHANGED <<m_val, m_loggers, m_formatter, m_appenders>>
          /\ m_level' = [m_level EXCEPT ![m] = d.level]
      BY <1>8 DEF TakeLevel, GiveLevel
    <2>3. m_level'[m] = d.level /\ (n # m => m_level'[n] = m_level[n])
      BY <1>2, <2>2 DEF ListsOK, JobOK
    <2> QED BY <1>1, <1>2, <2>1, <2>2, <2>3 DEF Kept, Now, Busy, AtHand, JobOK
  <1>9. CASE TakeFormatter
    <2>1. job' = [at |-> "clear", new |-> job.new, todo |-> job.todo, gone |-> job.gone,
                  name |-> m, left |-> d.appenders] /\ job.at = "format"
      BY <1>3, <1>9 DEF TakeFormatter
    <2>2. UNCHANGED <<m_val, m_loggers, m_level>>
      BY <1>9 DEF TakeFormatter
    <2>3. n # m => m_formatter'[n] = m_formatter[n] /\ m_appenders'[n] = m_appenders[n]
      BY <1>2, <1>9 DEF TakeFormatter, Reformat, Install, ListsOK
    <2>4. d.formatter \in ValidPatterns => m_formatter'[m] = d.formatter
      BY <1>2, <1>9 DEF TakeFormatter, Reformat, Install, IsPattern, ValidPatterns, ListsOK, JobOK
    <2>5. CASE n # m
      BY <1>1, <1>2, <2>1, <2>2, <2>3, <2>5 DEF Kept, Now, Busy, JobOK
    <2>6. CASE n = m
      <3>1. AtHand("clear", m_level'[n], m_formatter'[n], m_appenders'[n], d.appenders, d)
        BY <1>1, <2>1, <2>2, <2>4, <2>6 DEF Kept, Busy, AtHand
      <3> QED BY <1>1, <1>2, <2>1, <2>2, <2>6, <3>1 DEF Kept, Now, Busy, JobOK
    <2> QED BY <2>5, <2>6
  <1>10. CASE ClearOld
    <2>1. job' = [at |-> IF job.left = <<>> THEN "next" ELSE "add", new |-> job.new,
                  todo |-> job.todo, gone |-> job.gone, name |-> m, left |-> job.left]
          /\ job.at = "clear"
      BY <1>3, <1>10 DEF ClearOld
    <2>2. UNCHANGED <<m_val, m_loggers, m_level, m_formatter>>
          /\ m_appenders' = [m_appenders EXCEPT ![m] = <<>>]
      BY <1>10 DEF ClearOld, ClearList, SetList
    <2>3. m_appenders'[m] = <<>> /\ (n # m => m_appenders'[n] = m_appenders[n])
      BY <1>2, <2>2 DEF ListsOK, JobOK
    <2>4. job.left = d.appenders /\ d.appenders \in Seq(Appender) /\ m \in DOMAIN job.new \ job.todo
      BY <1>2, <2>1 DEF JobOK, Busy
    <2>5. CASE n # m
      BY <1>1, <2>1, <2>2, <2>3, <2>4, <2>5 DEF Kept, Now, Busy
    <2>6. CASE n = m
      <3>1. AtHand("clear", m_level[n], m_formatter[n], m_appenders[n], job.left, d) /\ n \in m_loggers
        BY <1>1, <2>1, <2>4, <2>6 DEF Kept, Busy
      <3>2. Partly(m_formatter[n], <<>>, job.left, d.appenders)
        BY <2>4, PartlyStart
      <3>3. CASE job.left # <<>>
        <4>1. AtHand("add", m_level[n], m_formatter[n], <<>>, job.left, d)
          BY <3>1, <3>2 DEF AtHand
        <4> QED BY <2>1, <2>2, <2>3, <2>4, <2>6, <3>1, <3>3, <4>1 DEF Kept, Busy
      <3>4. CASE job.left = <<>>
        <4>1. <<>> = [i \in DOMAIN d.appenders |-> MadeOf(m_formatter[n], d.appenders[i])]
          <5>1. <<>> \in Seq(Outfit) /\ Partly(m_formatter[n], <<>>, <<>>, d.appenders)
            BY <3>2, <3>4, EmptySeq
          <5> QED BY <2>4, <5>1, PartlyEnd
        <4>2. Fits(m_level[n], m_formatter[n], <<>>, d)
          BY <3>1, <4>1 DEF Fits, AtHand
        <4> QED BY <2>1, <2>2, <2>3, <2>4, <2>6, <3>1, <3>4, <4>2 DEF Kept, Busy, Now
      <3> QED BY <3>3, <3>4
    <2> QED BY <2>5, <2>6
  <1>11. CASE AddNew
    <2> DEFINE made == MadeOf(m_formatter[m], Head(job.left))
               list == Append(m_appenders[m], made)
    <2>1. job' = [at |-> IF Len(job.left) = 1 THEN "next" ELSE "add", new |-> job.new,
                  todo |-> job.todo, gone |-> job.gone, name |-> m, left |-> Tail(job.left)]
          /\ job.at = "add"
      BY <1>3, <1>11 DEF AddNew
    <2>2. job.left \in Seq(Appender) /\ job.left # <<>> /\ m_appenders[m] \in Seq(Outfit)
          /\ m \in DOMAIN job.new \ job.todo /\ d.appenders \in Seq(Appender) /\ m \in Names
      BY <1>2, <2>1, EntryOK DEF JobOK, ListsOK, Busy
    <2>3. Head(job.left) \in Appender
      BY <2>2, HeadTailProperties
    <2>4. UNCHANGED <<m_val, m_loggers, m_level, m_formatter>>
          /\ m_appenders' = [m_appenders EXCEPT ![m] = list]
      BY <1>11, <2>3, NewIsMade DEF AddNew, SetList
    <2>5. m_appenders'[m] = list /\ (n # m => m_appenders'[n] = m_appenders[n])
      BY <1>2, <2>2, <2>4 DEF ListsOK
    <2>6. CASE n # m
      BY <1>1, <2>1, <2>2, <2>4, <2>5, <2>6 DEF Kept, Now, Busy
    <2>7. CASE n = m
      <3>1. AtHand("add", m_level[n], m_formatter[n], m_appenders[n], job.left, d) /\ n \in m_loggers
        BY <1>1, <2>1, <2>2, <2>7 DEF Kept, Busy
      <3>2. Partly(m_formatter[n], m_appenders[n], job.left, d.appenders)
        BY <3>1 DEF AtHand
      <3>3. Partly(m_formatter[n], list, Tail(job.left), d.appenders)
        BY <2>2, <2>7, <3>2, PartlyNext
      <3>4. AtHand("add", m_level[n], m_formatter[n], list, Tail(job.left), d)
        BY <3>1, <3>3 DEF AtHand
      <3>5. m_appenders' \in [Names -> Seq(Outfit)]
        BY DEF Types, ListsOK
      <3>6. list \in Seq(Outfit)
        BY <2>2, <2>5, <3>5
      <3> HIDE DEF list
      <3>7. CASE Len(job.left) # 1
        BY <2>1, <2>2, <2>4, <2>5, <2>7, <3>1, <3>4, <3>7 DEF Kept, Busy
      <3>8. CASE Len(job.left) = 1
        <4>1. Tail(job.left) = <<>>
          <5>1. Tail(job.left) \in Seq(Appender) /\ Len(Tail(job.left)) = 0
            BY <2>2, <3>8, HeadTailProperties
          <5> QED BY <5>1, EmptySeq
        <4>2. list = [i \in DOMAIN d.appenders |-> MadeOf(m_formatter[n], d.appenders[i])]
          <5>1. Partly(m_formatter[n], list, <<>>, d.appenders)
            BY <3>3, <4>1
          <5> QED BY <2>2, <3>6, <5>1, PartlyEnd
        <4>3. Fits(m_level[n], m_formatter[n], list, d)
          BY <3>1, <4>2 DEF Fits, AtHand
        <4> QED BY <2>1, <2>2, <2>4, <2>5, <2>7, <3>1, <3>8, <4>3 DEF Kept, Busy, Now
      <3> QED BY <3>7, <3>8
    <2> QED BY <2>6, <2>7
  <1>12. CASE WipeOld
    <2>1. job' = [at |-> "next", new |-> job.new, todo |-> job.todo, gone |-> job.gone,
                  name |-> m, left |-> job.left] /\ job.at = "wipe" /\ m \notin DOMAIN job.new
      BY <1>2, <1>3, <1>12 DEF WipeOld, JobOK
    <2>2. UNCHANGED <<m_val, m_loggers, m_level, m_formatter>>
          /\ m_appenders' = [m_appenders EXCEPT ![m] = <<>>]
      BY <1>12 DEF WipeOld, ClearList, SetList
    <2>3. m_appenders'[m] = <<>> /\ (n # m => m_appenders'[n] = m_appenders[n])
      BY <1>2, <2>2 DEF ListsOK, JobOK
    <2> QED BY <1>1, <2>1, <2>2, <2>3 DEF Kept, Now, Busy
  <1>13. CASE Assign
    <2>1. job' = [at |-> "ready", new |-> <<>>, todo |-> {}, gone |-> {}, name |-> Root,
                  left |-> <<>>] /\ job.at = "next" /\ job.todo = {} /\ job.gone = {}
          /\ m_val' = job.new
      BY <1>13 DEF Assign, Idle
    <2>2. UNCHANGED <<m_loggers, m_level, m_formatter, m_appenders>>
      BY <1>13 DEF Assign, loggerVars
    <2> QED BY <1>1, <2>1, <2>2 DEF Kept, Now, Busy
  <1> QED BY <1>4, <1>5, <1>6, <1>7, <1>8, <1>9, <1>10, <1>11, <1>12, <1>13 DEF Listener

(* Whenever no reload is under way, the loggers are those the value of     *)
(* "logs" describes, through any sequence of reloads with messages and the *)
(* program's own changes in between (the listener of "logs").              *)
THEOREM LoggersAlwaysFollow == Spec => []LoggersFollow
  <1>1. Init => Follow
    <2> SUFFICES ASSUME Init, NEW n \in Names \ ByHand PROVE Kept(n)
      BY DEF Follow
    <2>1. job.at = "ready" /\ m_val = <<>> /\ (n # Root => m_appenders[n] = <<>>)
      BY DEF Init, Idle
    <2> QED BY <2>1 DEF Kept
  <1>2. Types /\ Types' /\ Follow /\ [Next]_vars => Follow'
    <2> SUFFICES ASSUME Types, Types', Follow, [Next]_vars PROVE Follow'
      OBVIOUS
    <2>1. CASE UNCHANGED vars
      BY <2>1 DEF vars, loggerVars, Follow, Kept, Now
    <2> QED BY <2>1, ProgramKept, ListenerKept DEF Next, Crashed
  <1>3. Types /\ Follow => LoggersFollow
    <2> SUFFICES ASSUME Types, Follow, job.at = "ready", NEW n \in Names \ ByHand
                 PROVE  IF n \in DOMAIN m_val THEN Follows(n, m_val[n], m_appenders[n])
                        ELSE n # Root => m_appenders[n] = <<>>
      BY DEF LoggersFollow
    <2>1. Kept(n)
      BY DEF Follow
    <2> QED BY <2>1 DEF Kept, Fits, MadeOf, Ordered, Follows
  <1> QED BY <1>1, <1>2, <1>3, TypesHold, PTL DEF Spec

-----------------------------------------------------------------------------
(* What is written as text reads back                                      *)

(* No appender has a level, and only those to files have a formatter of    *)
(* their own: in the value of "logs", in the one that is coming, and in    *)
(* what is left of an entry.                                               *)
PlainValue(v) == IsFiniteSet(DOMAIN v) /\ \A n \in DOMAIN v : PlainList(v[n].appenders)

(* The others have their logger's, in the loggers the program keeps its    *)
(* hands off, and none is in error.                                        *)
Alike(p, list) ==
    \A i \in DOMAIN list :
        /\ list[i].formatter \in ValidPatterns
        /\ list[i].dest = Stdout => list[i].formatter = p

Texts ==
    /\ IsFiniteSet(m_loggers)
    /\ PlainValue(m_val) /\ PlainValue(job.new) /\ PlainList(job.left)
    /\ \A n \in Names \ ByHand : Alike(m_formatter[n], m_appenders[n])

LEMMA TextsInit == Init => Texts
  <1> SUFFICES ASSUME Init PROVE Texts
    OBVIOUS
  <1>1. IsFiniteSet({Root}) /\ IsFiniteSet(DOMAIN <<>>)
    <2>1. DOMAIN <<>> = {}
      OBVIOUS
    <2> QED BY <2>1, FS_Singleton, FS_EmptySet
  <1>2. m_loggers = {Root} /\ m_val = <<>> /\ job.new = <<>> /\ job.left = <<>>
    BY DEF Init, Idle
  <1>3. PlainValue(<<>>) /\ PlainList(<<>>)
    BY <1>1 DEF PlainValue, PlainList
  <1>4. ASSUME NEW n \in Names \ ByHand PROVE Alike(m_formatter[n], m_appenders[n])
    BY DEF Init, Alike
  <1> QED BY <1>1, <1>2, <1>3, <1>4 DEF Texts

(* A logger whose formatter and list stay is still alike. *)
LEMMA OwnTexts ==
    ASSUME Types, Texts, Logging \/ Program
    PROVE  Texts'
  <1>1. UNCHANGED <<m_val, job>>
    BY DEF Logging, Program, Event, Log, LogRoot, GetLogger, AddAppender, DelAppender,
           ClearAppenders, SetLevel, SetFormatter, SetPattern, FormatAppender, LevelAppender,
             loggerVars
  <1>2. ASSUME NEW n \in Names \ ByHand
        PROVE  m_formatter'[n] = m_formatter[n] /\ m_appenders'[n] = m_appenders[n]
    BY ListsAlone
  <1>3. IsFiniteSet(m_loggers')
    <2>1. m_loggers' = m_loggers \/ \E n : m_loggers' = m_loggers \cup {n}
      BY DEF Logging, Program, Event, Log, LogRoot, GetLogger, AddAppender, DelAppender, Obtain,
             ClearAppenders, SetLevel, SetFormatter, SetPattern, FormatAppender, LevelAppender,
             loggerVars
    <2> QED BY <2>1, FS_AddElement DEF Texts
  <1> QED BY <1>1, <1>2, <1>3 DEF Texts, PlainValue

(* A new formatter goes to every appender of its logger. *)
LEMMA ReformatTexts ==
    ASSUME Types, Texts, NEW m \in Names, NEW p \in Patterns, Reformat(m, p), NEW n \in Names \ ByHand
    PROVE  Alike(m_formatter'[n], m_appenders'[n])
  <1>1. Alike(m_formatter[n], m_appenders[n])
    BY DEF Texts
  <1>2. CASE ~IsPattern(p) \/ n # m
    <2>1. m_formatter'[n] = m_formatter[n] /\ m_appenders'[n] = m_appenders[n]
      BY <1>2 DEF Reformat, Install, Types, ListsOK
    <2> QED BY <1>1, <2>1
  <1>3. CASE IsPattern(p) /\ n = m
    <2> DEFINE old == m_appenders[n]
               new == [i \in DOMAIN old |-> IF old[i].formatter = None THEN old[i]
                                            ELSE [old[i] EXCEPT !.formatter = p]]
    <2>1. m_formatter'[n] = p /\ m_appenders'[n] = new
      BY <1>3 DEF Reformat, Install, Types, ListsOK
    <2>2. \A i \in DOMAIN old : old[i] \in Outfit
      <3>1. old \in Seq(Outfit)
        BY DEF Types, ListsOK
      <3> QED BY <3>1, LenProperties, ElementOfSeq
    <2>3. \A i \in DOMAIN old : new[i].formatter = p
      BY <2>2 DEF Outfit
    <2>4. DOMAIN new = DOMAIN old
      OBVIOUS
    <2> HIDE DEF new
    <2>5. p \in ValidPatterns
      BY <1>3 DEF IsPattern, ValidPatterns
    <2> QED BY <2>1, <2>3, <2>4, <2>5 DEF Alike
  <1> QED BY <1>2, <1>3

(* So does a list that is cleared. *)
LEMMA ClearTexts ==
    ASSUME Types, Texts, NEW m \in Names, ClearList(m), UNCHANGED m_formatter,
           NEW n \in Names \ ByHand
    PROVE  Alike(m_formatter'[n], m_appenders'[n])
  <1>1. m_appenders'[n] = m_appenders[n] \/ m_appenders'[n] = <<>>
    BY DEF ClearList, SetList, Types, ListsOK
  <1> QED BY <1>1 DEF Alike, Texts

LEMMA ListenerTexts == Types /\ Texts /\ Listener => Texts'
  <1> SUFFICES ASSUME Types, Texts, Listener PROVE Texts'
    OBVIOUS
  <1>1. JobOK /\ ListsOK
    BY DEF Types
  <1>2. job = [at |-> job.at, new |-> job.new, todo |-> job.todo, gone |-> job.gone,
               name |-> job.name, left |-> job.left] /\ job.name \in Names
    BY <1>1 DEF JobOK
  <1> DEFINE m == job.name
             same == UNCHANGED <<m_val, m_loggers>>
             alike == \A n \in Names \ ByHand : Alike(m_formatter'[n], m_appenders'[n])
  <1>3. ASSUME NEW doc \in Documents, Reload(doc) PROVE Texts'
    <2>1. PlainValue(Convert(doc))
      BY ConvertIsValue DEF PlainValue
    <2>2. PlainList(<<>>)
      BY DEF PlainList
    <2>3. job'.new = Convert(doc) /\ job'.left = <<>>
      BY <1>3 DEF Reload, Idle
    <2> QED BY <1>3, <2>1, <2>2, <2>3 DEF Reload, Texts, loggerVars
  <1>4. ASSUME NEW n \in Names, TakeEntry(n) PROVE Texts'
    <2>1. job'.new = job.new /\ job'.left = job.left
      BY <1>2, <1>4 DEF TakeEntry
    <2>2. IsFiniteSet(m_loggers')
      BY <1>4, FS_AddElement DEF TakeEntry, Obtain, Texts
    <2> QED BY <1>4, <2>1, <2>2 DEF TakeEntry, Texts, loggerVars
  <1>5. ASSUME NEW n \in Names, UseNull(n) PROVE Texts'
    BY <1>5 DEF UseNull, Texts, loggerVars
  <1>6. ASSUME NEW n \in Names, DropEntry(n) PROVE Texts'
    <2>1. job'.new = job.new /\ job'.left = job.left
      BY <1>2, <1>6 DEF DropEntry
    <2> QED BY <1>6, <2>1 DEF DropEntry, Texts
  <1>7. CASE TakeLevel
    <2>1. job'.new = job.new /\ job'.left = job.left
      BY <1>2, <1>7 DEF TakeLevel
    <2> QED BY <1>7, <2>1 DEF TakeLevel, Texts
  <1>8. CASE TakeFormatter
    <2>1. job'.new = job.new /\ job'.left = job.new[m].appenders /\ job.at = "format"
      BY <1>2, <1>8 DEF TakeFormatter
    <2>2. PlainList(job'.left)
      BY <1>1, <2>1 DEF Texts, PlainValue, JobOK, Busy
    <2>3. alike
      <3>1. CASE job.new[m].formatter = None
        BY <1>8, <3>1 DEF TakeFormatter, Texts
      <3>2. CASE job.new[m].formatter # None
        <4>1. job.new[m].formatter \in Patterns
          BY <1>1, <2>1, <3>2, EntryOK DEF JobOK, Busy
        <4> QED BY <1>2, <1>8, <3>2, <4>1, ReformatTexts DEF TakeFormatter
      <3> QED BY <3>1, <3>2
    <2> QED BY <1>8, <2>1, <2>2, <2>3 DEF TakeFormatter, Texts
  <1>9. CASE ClearOld
    <2>1. job'.new = job.new /\ job'.left = job.left
      BY <1>2, <1>9 DEF ClearOld
    <2>2. alike
      BY <1>2, <1>9, ClearTexts DEF ClearOld
    <2> QED BY <1>9, <2>1, <2>2 DEF ClearOld, Texts
  <1>10. CASE AddNew
    <2> DEFINE made == MadeOf(m_formatter[m], Head(job.left))
    <2>1. job'.new = job.new /\ job'.left = Tail(job.left) /\ job.at = "add"
      BY <1>2, <1>10 DEF AddNew
    <2>2. job.left \in Seq(Appender) /\ job.left # <<>>
      BY <1>1, <2>1 DEF JobOK
    <2>3. Len(job.left) \in Nat /\ Len(job.left) # 0 /\ DOMAIN job.left = 1..Len(job.left)
      BY <2>2, LenProperties, EmptySeq
    <2>4. /\ Head(job.left) \in Appender /\ Head(job.left) = job.left[1]
          /\ Tail(job.left) \in Seq(Appender) /\ Len(Tail(job.left)) = Len(job.left) - 1
          /\ \A i \in 1..Len(Tail(job.left)) : Tail(job.left)[i] = job.left[i + 1]
      BY <2>2, HeadTailProperties
    <2>5. PlainList(job'.left)
      <3>1. \A i \in 1..(Len(job.left) - 1) : i + 1 \in DOMAIN job.left
        BY <2>3
      <3>2. DOMAIN Tail(job.left) = 1..(Len(job.left) - 1)
        BY <2>4, LenProperties
      <3> QED BY <2>1, <2>4, <3>1, <3>2 DEF PlainList, Texts
    <2>6. /\ made.dest = Stdout => made.formatter = m_formatter[m]
          /\ m \notin ByHand => made.formatter \in ValidPatterns
      <3>1. 1 \in DOMAIN job.left
        BY <2>3
      <3>2. IsPlain(Head(job.left)) /\ None \notin ValidPatterns
        BY <2>4, <3>1 DEF PlainList, Texts
      <3>3. made.dest = Head(job.left).dest
            /\ made.formatter = IF Head(job.left).formatter \in ValidPatterns
                                THEN Head(job.left).formatter ELSE m_formatter[m]
        BY <2>4 DEF MadeOf, Appender
      <3>4. m \notin ByHand => m_formatter[m] \in ValidPatterns
        BY <1>1, <1>2 DEF ListsOK
      <3> HIDE DEF made
      <3> QED BY <3>2, <3>3, <3>4 DEF IsPlain
    <2>7. m_appenders' = [m_appenders EXCEPT ![m] = Append(m_appenders[m], made)]
      BY <1>10, <2>4, NewIsMade DEF AddNew, SetList
    <2>8. alike
      <3> SUFFICES ASSUME NEW n \in Names \ ByHand
                   PROVE  Alike(m_formatter'[n], m_appenders'[n])
        OBVIOUS
      <3>1. m_formatter' = m_formatter /\ Alike(m_formatter[n], m_appenders[n])
        BY <1>10 DEF AddNew, Texts
      <3>2. CASE n # m
        BY <1>1, <2>7, <3>1, <3>2 DEF ListsOK
      <3>3. CASE n = m
        <4> HIDE DEF made
        <4>1. m_appenders'[n] = Append(m_appenders[n], made) /\ m_appenders[n] \in Seq(Outfit)
          BY <1>1, <2>7, <3>3 DEF ListsOK
        <4> DEFINE list == m_appenders[n]
        <4>2. /\ Len(list) \in Nat /\ DOMAIN list = 1..Len(list)
              /\ DOMAIN Append(list, made) = 1..(Len(list) + 1)
              /\ \A i \in 1..Len(list) : Append(list, made)[i] = list[i]
              /\ Append(list, made)[Len(list) + 1] = made
          BY <4>1
        <4>3. \A i \in 1..(Len(list) + 1) : i = Len(list) + 1 \/ i \in 1..Len(list)
          BY <4>2
        <4> HIDE DEF list
        <4>4. Alike(m_formatter[n], Append(list, made))
          BY <2>6, <3>1, <3>3, <4>2, <4>3 DEF Alike, list
        <4> QED BY <3>1, <4>1, <4>4 DEF list
      <3> QED BY <3>2, <3>3
    <2> QED BY <1>10, <2>1, <2>5, <2>8 DEF AddNew, Texts
  <1>11. CASE WipeOld
    <2>1. job'.new = job.new /\ job'.left = job.left
      BY <1>2, <1>11 DEF WipeOld
    <2>2. alike
      BY <1>2, <1>11, ClearTexts DEF WipeOld
    <2> QED BY <1>11, <2>1, <2>2 DEF WipeOld, Texts
  <1>12. CASE Assign
    <2>1. job'.new = <<>> /\ job'.left = <<>> /\ m_val' = job.new
      BY <1>12 DEF Assign, Idle
    <2>2. PlainValue(<<>>) /\ PlainList(<<>>)
      BY FS_EmptySet DEF PlainValue, PlainList
    <2> QED BY <1>12, <2>1, <2>2 DEF Assign, Texts, loggerVars
  <1> QED BY <1>3, <1>4, <1>5, <1>6, <1>7, <1>8, <1>9, <1>10, <1>11, <1>12 DEF Listener

LEMMA TextsHold == Spec => []Texts
  <1>1. Types /\ Texts /\ [Next]_vars => Texts'
    <2> SUFFICES ASSUME Types, Texts, [Next]_vars PROVE Texts'
      OBVIOUS
    <2>1. CASE UNCHANGED vars
      BY <2>1 DEF vars, loggerVars, Texts, PlainValue
    <2> QED BY <2>1, OwnTexts, ListenerTexts DEF Next, Crashed
  <1> QED BY <1>1, TextsInit, TypesHold, PTL DEF Spec

(* An appender made anew from what is read of it. *)
LEMMA AppenderMakesSame ==
    ASSUME NEW p, NEW a \in Outfit, a.formatter \in ValidPatterns,
           a.dest = Stdout => a.formatter = p
    PROVE  [a EXCEPT !.level = UNKNOW] = MadeOf(p, Read(a))
  <1>1. [a EXCEPT !.level = UNKNOW] = [dest |-> a.dest, level |-> UNKNOW, formatter |-> a.formatter]
    BY DEF Outfit
  <1>2. MadeOf(p, Read(a)) = [dest |-> a.dest, level |-> UNKNOW,
                              formatter |-> IF Read(a).formatter \in ValidPatterns
                                            THEN Read(a).formatter ELSE p]
    BY DEF MadeOf, Read
  <1>3. Read(a).formatter = IF a.dest = Stdout THEN None ELSE a.formatter
    BY DEF Read
  <1>4. None \notin ValidPatterns
    OBVIOUS
  <1> QED BY <1>1, <1>2, <1>3, <1>4

(* Where no appender but a file's has a formatter of its own, and every    *)
(* other one its logger's, making the appenders of a logger anew from what *)
(* is read of them gives the same, without their levels.                   *)
LEMMA ReadMakesSame ==
    ASSUME NEW list \in Seq(Outfit), NEW p \in ValidPatterns, Alike(p, list)
    PROVE  /\ Readable(list) = [i \in DOMAIN list |-> Read(list[i])]
           /\ Levelless(list) = [i \in DOMAIN list |-> MadeOf(p, Read(list[i]))]
  <1>1. \A i \in DOMAIN list : list[i] \in Outfit
    BY LenProperties, ElementOfSeq
  <1>2. list \in Seq(EntryAppender) /\ \A i \in DOMAIN list : list[i].dest # None
    <2>1. Outfit \subseteq EntryAppender
      BY DEF Outfit, EntryAppender
    <2> QED BY <1>1, <2>1, SeqMonotonic DEF Outfit
  <1>3. \A i \in DOMAIN list : [list[i] EXCEPT !.level = UNKNOW] = MadeOf(p, Read(list[i]))
    <2> SUFFICES ASSUME NEW i \in DOMAIN list
                 PROVE  [list[i] EXCEPT !.level = UNKNOW] = MadeOf(p, Read(list[i]))
      OBVIOUS
    <2>1. list[i] \in Outfit /\ (list[i].dest = Stdout => list[i].formatter = p)
          /\ list[i].formatter \in ValidPatterns
      BY <1>1 DEF Alike
    <2> QED BY <2>1, AppenderMakesSame
  <1> QED BY <1>2, <1>3, ReadableAll DEF Levelless

(* A set of entries, one for each of some names, written as a list.        *)
LEMMA TextConverts ==
    ASSUME NEW T \in SUBSET Names, IsFiniteSet(T), NEW e, e = [n \in T |-> e[n]],
           \A n \in T : e[n] \in Entry /\ e[n].name = n
    PROVE  Convert(SetToSeq({e[n] : n \in T})) = [n \in T |-> Made(e[n])]
  <1> DEFINE S == {e[n] : n \in T}
             doc == SetToSeq(S)
  <1>1. IsFiniteSet(S)
    BY FiniteImage
  <1>2. doc \in Seq(S) /\ \A x \in S : \E i \in DOMAIN doc : doc[i] = x
    BY <1>1, AsList
  <1>3. doc \in Seq(Entry)
    BY <1>2, SeqMonotonic
  <1> HIDE DEF doc, S
  <1>4. \A i \in DOMAIN doc : doc[i] \in S
    BY <1>2, LenProperties, ElementOfSeq
  <1> USE DEF S
  <1>5. \A i \in DOMAIN doc : doc[i].name \in T /\ doc[i] = e[doc[i].name]
    BY <1>4
  <1>6. Named(doc) = DOMAIN doc
    BY <1>5 DEF Named
  <1>7. {doc[i].name : i \in Named(doc)} = T
    <2>1. \A n \in T : \E i \in DOMAIN doc : doc[i] = e[n]
      BY <1>2
    <2> QED BY <1>5, <1>6, <2>1
  <1>8. /\ Convert(doc) = [n \in T |-> Made(doc[First(doc, n)])]
        /\ \A n \in T : First(doc, n) \in Named(doc) /\ doc[First(doc, n)].name = n
    BY <1>3, <1>7, ConvertMakes
  <1>9. \A n \in T : doc[First(doc, n)] = e[n]
    BY <1>5, <1>6, <1>8
  <1>10. Convert(doc) = [n \in T |-> Made(e[n])]
    BY <1>8, <1>9
  <1> QED BY <1>10 DEF doc

(* What a logger writes of itself. *)
LEMMA LoggerText ==
    ASSUME Types, NEW n \in Names
    PROVE  /\ Text(n) = [name |-> n, level |-> m_level[n], formatter |-> m_formatter[n],
                         appenders |-> m_appenders[n]]
           /\ Text(n) \in Entry
  <1>1. m_appenders[n] \in Seq(Outfit) /\ m_level[n] \in Levels /\ m_formatter[n] \in Patterns
    BY DEF Types, ListsOK
  <1>2. \A i \in DOMAIN m_appenders[n] : m_appenders[n][i] \in Outfit
    BY <1>1, LenProperties, ElementOfSeq
  <1>3. \A i \in DOMAIN m_appenders[n] : AppenderText(m_appenders[n][i]) = m_appenders[n][i]
    BY <1>2 DEF AppenderText, HasFormatter, Outfit
  <1>4. m_appenders[n] = [i \in DOMAIN m_appenders[n] |-> m_appenders[n][i]]
    <2>1. PICK k \in Nat : m_appenders[n] \in [1..k -> Outfit]
      BY <1>1, SeqDef
    <2> QED BY <2>1
  <1>5. Text(n) = [name |-> n, level |-> m_level[n], formatter |-> m_formatter[n],
                   appenders |-> m_appenders[n]]
    BY <1>3, <1>4 DEF Text
  <1>6. m_appenders[n] \in Seq(EntryAppender)
    <2>1. Outfit \subseteq EntryAppender
      BY DEF Outfit, EntryAppender
    <2> QED BY <1>1, <2>1, SeqMonotonic
  <1> QED BY <1>1, <1>5, <1>6 DEF Entry, EntryAppender

(* The text of the loggers, read as a value of "logs", is one they follow. *)
LEMMA LoggersReadBack ==
    ASSUME Types, Texts, NEW n \in m_loggers \ ByHand
    PROVE  Follows(n, Convert(LoggersText)[n], Levelless(m_appenders[n]))
  <1>1. m_loggers \subseteq Names
    BY DEF Types, ListsOK
  <1> DEFINE e == [k \in m_loggers |-> Text(k)]
  <1>2. \A k \in m_loggers : e[k] \in Entry /\ e[k].name = k
    BY <1>1, LoggerText
  <1>3. LoggersText = SetToSeq({e[k] : k \in m_loggers})
    BY DEF LoggersText
  <1>4. Convert(LoggersText) = [k \in m_loggers |-> Made(e[k])]
    <2> e = [k \in m_loggers |-> e[k]]
      OBVIOUS
    <2> HIDE DEF e
    <2> QED BY <1>1, <1>2, <1>3, TextConverts DEF Texts
  <1> DEFINE d == Convert(LoggersText)[n]
             list == m_appenders[n]
  <1>5. d = [level |-> m_level[n], formatter |-> m_formatter[n], appenders |-> Readable(list)]
    BY <1>1, <1>4, LoggerText DEF Made
  <1>6. list \in Seq(Outfit) /\ m_formatter[n] \in ValidPatterns /\ Alike(m_formatter[n], list)
    BY <1>1 DEF Types, ListsOK, Texts
  <1> HIDE DEF d
  <1>7. /\ d.appenders = [i \in DOMAIN list |-> Read(list[i])]
        /\ Levelless(list) = [i \in DOMAIN list |-> MadeOf(m_formatter[n], Read(list[i]))]
    BY <1>5, <1>6, ReadMakesSame
  <1>8. Levelless(list) = [i \in DOMAIN d.appenders |-> MadeOf(m_formatter[n], d.appenders[i])]
    BY <1>7
  <1>9. d.level = m_level[n] /\ d.formatter = m_formatter[n]
    BY <1>5
  <1> QED BY <1>8, <1>9 DEF Follows, Ordered, MadeOf, d

(* Appenders that are plain read as they are. *)
LEMMA PlainReads ==
    ASSUME NEW list \in Seq(Appender), PlainList(list)
    PROVE  Readable(list) = list
  <1>1. \A i \in DOMAIN list : list[i] \in Appender
    BY LenProperties, ElementOfSeq
  <1>2. list \in Seq(EntryAppender) /\ \A i \in DOMAIN list : list[i].dest # None
    <2>1. Appender \subseteq EntryAppender
      BY DEF Appender, EntryAppender
    <2> QED BY <1>1, <2>1, SeqMonotonic DEF Appender
  <1>3. \A i \in DOMAIN list : Read(list[i]) = list[i]
    <2> SUFFICES ASSUME NEW i \in DOMAIN list PROVE Read(list[i]) = list[i]
      OBVIOUS
    <2>1. list[i] \in Appender /\ IsPlain(list[i])
      BY <1>1 DEF PlainList
    <2> QED BY <2>1 DEF IsPlain, Appender, Read
  <1>4. list = [i \in DOMAIN list |-> list[i]]
    <2>1. PICK k \in Nat : list \in [1..k -> Appender]
      BY SeqDef
    <2> QED BY <2>1
  <1> QED BY <1>2, <1>3, <1>4, ReadableAll

(* The text of the value reads back as the value, but for the formatters   *)
(* of the entries.                                                         *)
LEMMA ValueReadsBack ==
    ASSUME Types, Texts
    PROVE  Convert(ValueText(m_val)) = [n \in DOMAIN m_val |-> [m_val[n] EXCEPT !.formatter = None]]
  <1>1. IsValue(m_val) /\ PlainValue(m_val)
    BY DEF Types, JobOK, Texts
  <1>2. DOMAIN m_val \subseteq Names /\ IsFiniteSet(DOMAIN m_val)
        /\ \A n \in DOMAIN m_val : m_val[n] \in Define
    BY <1>1 DEF IsValue, PlainValue
  <1> DEFINE e == [n \in DOMAIN m_val |-> [name |-> n, level |-> m_val[n].level, formatter |-> None,
                                           appenders |-> m_val[n].appenders]]
  <1>3. ASSUME NEW n \in DOMAIN m_val
        PROVE  /\ e[n] \in Entry /\ e[n].name = n
               /\ Made(e[n]) = [m_val[n] EXCEPT !.formatter = None]
    <2> DEFINE d == m_val[n]
    <2>1. d \in Define /\ n \in Names /\ PlainList(d.appenders)
      BY <1>1, <1>2 DEF PlainValue
    <2>2. Appender \subseteq EntryAppender
      BY DEF Appender, EntryAppender
    <2>3. d.appenders \in Seq(Appender) /\ d.appenders \in Seq(EntryAppender)
      BY <2>1, <2>2, SeqMonotonic DEF Define
    <2>4. e[n] = [name |-> n, level |-> d.level, formatter |-> None, appenders |-> d.appenders]
      OBVIOUS
    <2> HIDE DEF e, d
    <2>5. e[n] \in Entry /\ e[n].name = n
      BY <2>1, <2>3, <2>4 DEF Entry, EntryAppender, Define
    <2>6. Made(e[n]) = [level |-> d.level, formatter |-> None, appenders |-> d.appenders]
      BY <2>1, <2>3, <2>4, PlainReads DEF Made
    <2>7. [d EXCEPT !.formatter = None]
          = [level |-> d.level, formatter |-> None, appenders |-> d.appenders]
      BY <2>1 DEF Define
    <2> QED BY <2>5, <2>6, <2>7 DEF d
  <1>4. ValueText(m_val) = SetToSeq({e[n] : n \in DOMAIN m_val})
    BY DEF ValueText
  <1>5. e = [n \in DOMAIN m_val |-> e[n]]
    OBVIOUS
  <1> HIDE DEF e
  <1>6. Convert(ValueText(m_val)) = [n \in DOMAIN m_val |-> Made(e[n])]
    BY <1>2, <1>3, <1>4, <1>5, TextConverts
  <1> QED BY <1>3, <1>6

(* What is written as text reads back as what it was, whenever no reload   *)
(* is under way: the loggers the program keeps its hands off, but for the  *)
(* levels of their appenders, from LogManager::toYamlString; the value of  *)
(* "logs", but for the formatters of its entries, from ConfigVar::toString.*)
THEOREM TextsReadBack == Spec => []TextReadsBack
  <1>1. Types /\ Texts => TextReadsBack
    BY LoggersReadBack, ValueReadsBack DEF TextReadsBack
  <1> QED BY <1>1, TypesHold, TextsHold, PTL

(* The patterns of the loggers are always read right: nothing of them is   *)
(* dropped by LogFormatter::init, nor of any text it accepts, and what is  *)
(* put together from items is read as those items.                         *)
THEOREM PatternsAreRead == Spec => []PatternsRead
  <1>1. ASSUME Types PROVE PatternsRead
    <2>1. ASSUME NEW n \in m_loggers, IsPattern(m_formatter[n]) PROVE Intact(m_formatter[n])
      <3>1. m_formatter[n] \in ValidPatterns
        BY <1>1, <2>1 DEF Types, ListsOK, IsPattern, ValidPatterns
      <3>2. m_formatter[n] \in Seq(Char) /\ ~Parse(m_formatter[n]).error
        BY <3>1, LogAssumption DEF ValidPatterns
      <3> QED BY <3>2, AcceptedIntact
    <2> QED BY <2>1, PatternsReadBack DEF PatternsRead
  <1> QED BY <1>1, TypesHold, PTL
=============================================================================
