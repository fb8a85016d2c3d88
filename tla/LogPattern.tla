----------------------------- MODULE LogPattern -----------------------------
(***************************************************************************)
(* The pattern of a LogFormatter (vity/log.cc, LogFormatter::init): text   *)
(* in which %x, or %x{...}, stands for a part of a message.  The parser    *)
(* walks over the characters once; what matters of a character is whether  *)
(* it is a percent sign, a brace, a letter some item is named by, another  *)
(* letter, or anything else.                                               *)
(***************************************************************************)
EXTENDS Naturals, FiniteSetsExt, SequencesExt

CONSTANTS
    Known,   (* letters that are names of items (m, p, r, c, t, ...)       *)
    Unknown, (* the other letters                                          *)
    Other,   (* neither letters nor one of the three signs                 *)
    Formats, (* what is between braces in the patterns that are read back  *)
    MaxItems, MaxText (* bounds: how long the patterns are that are read   *)
                      (* back, and those in which nothing may be dropped   *)

Letters == Known \cup Unknown
Signs   == {"%", "{", "}"}
Char    == Letters \cup Other \cup Signs

(* A closing brace ends a format. *)
ASSUME PatternAssumption ==
    /\ Letters \cap Signs = {} /\ Other \cap (Letters \cup Signs) = {}
    /\ Formats \subseteq Seq(Char \ {"}"})
    /\ MaxItems \in Nat /\ MaxText \in Nat

Literal(c)     == [text |-> <<c>>, fmt |-> <<>>, item |-> FALSE]
Item(str, fmt) == [text |-> str, fmt |-> fmt, item |-> TRUE]

(* The first position from i on, up to the end, that holds one of S. *)
FirstOf(p, i, S) == Min({j \in i..Len(p) : p[j] \in S} \cup {Len(p) + 1})

(* Where the name that begins behind the percent sign at i ends: a closing *)
(* brace does not end it.                                                  *)
NameEnd(p, i) == FirstOf(p, i + 1, Char \ (Letters \cup {"}"}))

(* Wrong on purpose: the brace that closes a format is read again. *)
BraceAgain(braces, c) == c

(* Where the pattern goes on: behind the closing brace. *)
Behind(braces, c) == IF braces THEN c + 1 ELSE c

(* The item at i: its name, its format if braces follow, where the rest of *)
(* the pattern begins; not closed if the opening brace has no partner.     *)
ItemAt(p, i) ==
    LET e == NameEnd(p, i)
        braces == e <= Len(p) /\ p[e] = "{"
        c == IF braces THEN FirstOf(p, e + 1, {"}"}) ELSE e
    IN  [str    |-> SubSeq(p, i + 1, e - 1),
         fmt    |-> IF braces THEN SubSeq(p, e + 1, c - 1) ELSE <<>>,
         next   |-> Behind(braces, c),
         closed |-> ~braces \/ c <= Len(p)]

(* What LogFormatter::init makes of a pattern: m_error, and m_items with   *)
(* one literal a character.  The first of two percent signs is a literal,  *)
(* the second is looked at again.  What m_items holds of a pattern in      *)
(* error is not modelled.                                                  *)
Parse(p) ==
    LET rest[i \in 1..(Len(p) + 1)] ==
            IF i > Len(p) THEN [error |-> FALSE, items |-> <<>>]
            ELSE IF p[i] # "%" \/ (i < Len(p) /\ p[i + 1] = "%")
            THEN [rest[i + 1] EXCEPT !.items = <<Literal(p[i])>> \o @]
            ELSE LET w == ItemAt(p, i) IN
                 IF ~w.closed THEN [rest[i + 1] EXCEPT !.error = TRUE]
                 ELSE [error |-> rest[w.next].error \/ ~\E k \in Known : w.str = <<k>>,
                       items |-> <<Item(w.str, w.fmt)>> \o rest[w.next].items]
    IN  rest[1]

-----------------------------------------------------------------------------
(* The reference: patterns as they are written *)

Written(x) ==
    IF ~x.item THEN x.text
    ELSE <<"%">> \o x.text \o (IF x.fmt = <<>> THEN <<>> ELSE <<"{">> \o x.fmt \o <<"}">>)

Write(items) == FlattenSeq([i \in DOMAIN items |-> Written(items[i])])

(* The items a pattern may be written from. *)
Atom == {Literal(c) : c \in Char \ {"%"}} \cup {Item(<<k>>, f) : k \in Known, f \in Formats}

(* An item without a format must not run into what follows. *)
Separated(items) ==
    \A i \in 1..(Len(items) - 1) :
        items[i].item /\ items[i].fmt = <<>> =>
            items[i + 1].item \/ items[i + 1].text[1] \in Other

(* What is written is what is read: a pattern put together from literals   *)
(* and items, where no item runs into its neighbour, is accepted and gives *)
(* those items back (LogFormatter::init).                                  *)
ReadsBack ==
    \A items \in SeqOf(Atom, MaxItems) :
        Separated(items) => Parse(Write(items)) = [error |-> FALSE, items |-> items]

(* Every character is in an item, in its place, up to the braces of an     *)
(* empty format.                                                           *)
Intact(p) ==
    Write(Parse(p).items) = p \/ \E i \in 1..(Len(p) - 1) : p[i] = "{" /\ p[i + 1] = "}"

(* Nothing is dropped or made up of a pattern that is accepted             *)
(* (LogFormatter::init).                                                   *)
NothingDropped == \A p \in SeqOf(Char, MaxText) : ~Parse(p).error => Intact(p)
=============================================================================
