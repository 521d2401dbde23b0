---------------------------- MODULE MCParserCache ----------------------------
(***************************************************************************)
(* Small instances of ParserCache for TLC.                                 *)
(***************************************************************************)
EXTENDS ParserCache, TLC

CONSTANTS u1, h1, f1, f2, w1, w2, p1, p2, p3

OneHost == [u \in Urls |-> h1]

\* The confidences 70 <= 85 < 90 < 100, in their order.
Confidences == [m \in Modes |-> IF m = "schema" THEN 2 ELSE 1]

\* A schema of one field, whose examples may show the other one, too.
OneOfTwo == {<<{f1}, "schema">>}
OneField == {<<{f1}, "keywords">>, <<{f1}, "schema">>}
AllRequests == {<<{f1}, "keywords">>, <<{f1}, "schema">>, <<{f1, f2}, "keywords">>, <<{f1, f2}, "schema">>}

CacheSymmetry == Permutations({w1, w2}) \cup Permutations(Parsers)
=============================================================================
