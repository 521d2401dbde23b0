---------------------------- MODULE ParserDraft ----------------------------
(***************************************************************************)
(* What the generation of parsers promises to those who store them, be it  *)
(* the thread of _cache_parser_from_extraction or run_field_extraction:    *)
(* nothing, or parsers of one source type, either one for each of some     *)
(* fields or a single one for the request. ParserCache relies on no more   *)
(* in GenerateForSchema and GenerateForKeyword.                            *)
(***************************************************************************)
CONSTANTS Fields

VARIABLES
  mode,    \* "schema" or "keywords"
  asked,   \* the fields of the request
  draft    \* whether there are parsers, of which type, and for which fields

vars == <<mode, asked, draft>>

Without(status) == [status |-> status, type |-> "none", sets |-> {}]

Making == draft = Without("making")

\* One parser for the whole request.
Single == [status : {"made"}, type : {"CSS", "JSONPATH", "REGEX"}, sets : {{asked}}]

\* One for each of some fields, be they asked for or not.
Map ==
  [status : {"made"}, type : {"CSS", "REGEX"},
   sets : {{{f} : f \in K} : K \in (SUBSET Fields) \ {{}}}]

Init ==
  /\ mode \in {"schema", "keywords"}
  /\ asked \in SUBSET Fields
  /\ Making

Fail == draft' = Without("nothing")

\* Only the handler lets an unexpected answer escape; the thread catches it.
Raise == mode = "keywords" /\ draft' = Without("raised")

Deliver == draft' \in Single \/ (mode = "schema" /\ draft' \in Map)

Next ==
  /\ Making
  /\ Fail \/ Raise \/ Deliver
  /\ UNCHANGED <<mode, asked>>

Spec == Init /\ [][Next]_vars

FairSpec == Spec /\ WF_vars(Next)
=============================================================================
