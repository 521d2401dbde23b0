------------------------- MODULE MCParserGeneration -------------------------
(***************************************************************************)
(* Small instances of ParserGeneration for TLC.                            *)
(***************************************************************************)
EXTENDS ParserGeneration

CONSTANTS a, b

\* In tenths: a value is similar to itself, to a longer text around it, to a
\* part of it and to another value; a label costs a short value five.
ShortValues ==
  [x \in Grades \X BOOLEAN |->
    IF x[1] = "none" THEN 4
    ELSE IF x[2] THEN 5
    ELSE IF x[1] = "exact" THEN 10 ELSE IF x[1] = "within" THEN 8 ELSE 5]

\* Values of 32 characters and more bear the label.
LongValues ==
  [x \in Grades \X BOOLEAN |->
    IF x[1] = "none" THEN 4 ELSE IF x[1] = "exact" THEN 10 - (IF x[2] THEN 1 ELSE 0)
    ELSE IF x[1] = "within" THEN 8 ELSE 5]

\* A keyword with two examples.
Keyword(content) ==
  [mode |-> "keywords", content |-> content, asked |-> {a}, first |-> {a},
   has |-> [f \in Fields |-> IF f = a THEN Items ELSE {}], texts |-> Fields,
   located |-> {}]

\* A schema: a in every item, b in one of them or in none; strings or not; found
\* in the page or not.
Schema(content, asked, first, hasB, texts, located) ==
  [mode |-> "schema", content |-> content, asked |-> asked, first |-> first,
   has |-> [f \in Fields |-> IF f = a THEN Items ELSE hasB], texts |-> texts,
   located |-> located]

\* Items whose fields are all empty.
Empty(r) == [r EXCEPT !.has = [f \in Fields |-> {}], !.located = {}]

ManyRequests ==
  {Keyword(c) : c \in {"HTML", "JSON", "TEXT"}}
  \cup {Schema(c, asked, Fields, hasB, texts, located) :
         c \in {"HTML", "JSON"}, asked \in {{a}, {a, b}}, hasB \in {{}, {1}, {2}},
         texts \in {{a}, {a, b}}, located \in {{}, {a}}}
  \cup {Schema(c, asked, {a}, hasB, {a, b}, {}) :
         c \in {"HTML", "JSON", "TEXT"}, asked \in {{b}, {a, b}}, hasB \in {{}, {2}}}
  \cup {Empty(Schema("HTML", {a, b}, first, {}, {a, b}, {})) : first \in {{a}, {a, b}}}

OneKeyword == {Keyword("TEXT")}
=============================================================================
