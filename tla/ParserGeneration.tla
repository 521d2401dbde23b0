-------------------------- MODULE ParserGeneration --------------------------
(***************************************************************************)
(* The generation of parsers by the language model, for one request:       *)
(* parser_factory, css_selector_generation, json_path_generation and       *)
(* regex_generation, with the two loops of workflows.py around them,       *)
(* _cache_parser_from_extraction (mode "schema") and run_field_extraction  *)
(* (mode "keywords", one keyword).                                         *)
(*                                                                         *)
(* The model proposes a parser, a validator runs it on the page, a         *)
(* rejected one is refined a few times; HTML is tried with CSS selectors,  *)
(* JSON with JSONPath, and what fails with a regex. The result is compared *)
(* with the extracted values once more before it is kept. Of a parser only *)
(* counts what becomes of each value of each field when it is run.         *)
(***************************************************************************)
EXTENDS Integers, FiniteSets, FiniteSetsExt

CONSTANTS
  Fields,       \* keys of the extracted items, and what was asked for
  Items,        \* the items that the model extracted, 1 the first of them
  Shown,        \* those that serve as examples: the first five
  Requests,     \* the requests that may come, see RequestType
  Ratio,        \* Ratio[g, l]: similarity, in tenths, of a value of grade g to the
                \*   expected one, with a label in front of it or without
  Similarity,   \* similarity_threshold, in tenths: 9
  MaxAttempts,  \* max_attempts: 2
  MaxRetries,   \* max_retries of selectors and paths: 2
  MaxIterations \* max_iterations of a regex: 2

\* What becomes of a value: extracted as it is, as a part of a longer text,
\* a part of it, or not at all.
Grades == {"exact", "within", "part", "none"}

\* asked: the fields of the request; first: the keys of the first item;
\* has[f]: the items with a value of f; texts: fields with values of type str;
\* located: fields whose first value is found in the page as it stands.
RequestType ==
  [mode : {"schema", "keywords"}, content : {"HTML", "JSON", "TEXT"},
   asked : SUBSET Fields, first : SUBSET Fields, has : [Fields -> SUBSET Items],
   texts : SUBSET Fields, located : SUBSET Fields]

\* A value that is not extracted may still be like one that is.
Alike == Ratio[<<"none", FALSE>>]

ASSUME GenerationAssumption ==
  /\ IsFiniteSet(Fields) /\ IsFiniteSet(Items)
  /\ 1 \in Shown
  /\ Shown \subseteq Items
  /\ Requests \subseteq RequestType
  /\ \A r \in Requests :
       /\ r.first # {} /\ r.asked # {}
       /\ \A f \in Fields : 1 \in r.has[f] => f \in r.first
       /\ r.located \subseteq {f \in r.first \cap r.texts : 1 \in r.has[f]}
       /\ r.mode = "keywords" => \E f \in Fields : r.asked = {f} /\ r.first = {f}
  /\ Ratio \in [Grades \X BOOLEAN -> 0..10]
  /\ Ratio[<<"none", TRUE>>] <= Alike
  /\ Similarity \in 0..10
  /\ MaxAttempts \in Nat \ {0} /\ MaxRetries \in Nat /\ MaxIterations \in Nat \ {0}

VARIABLES
  request,   \* the request
  pc,        \* which loop the generation is in, or how it ended
  attempt,   \* the attempts that failed
  todo,      \* the targets, sets of fields, without a parser yet
  tries,     \* answers refused for the current target
  made       \* the parsers made in this attempt

vars == <<request, pc, attempt, todo, tries, made>>

Init ==
  /\ request \in Requests
  /\ pc = "generate"
  /\ attempt = 0
  /\ todo = {}
  /\ tries = 0
  /\ made = {}

-----------------------------------------------------------------------------
(***************************************************************************)
(* Examples and candidates                                                 *)
(***************************************************************************)
Keys == request.first \cup {f \in Fields : request.has[f] # {}}

Several == request.mode = "schema" /\ \E f, g \in request.first : f # g

\* Each field gets a parser of its own.
Split(way) == Several /\ way # "jsonpath"

Expected(f) == {f} \X request.has[f]

Values(t) == UNION {Expected(f) : f \in t}

Examples(t) == {e \in Values(t) : e[2] \in Shown}

TypeOf(way) ==
  IF way = "css" THEN "CSS" ELSE IF way = "jsonpath" THEN "JSONPATH" ELSE "REGEX"

\* of: the target; yields: the grade of each value when the parser is run;
\* groups: the named groups of a regex; flags: of a component, "s" alone or
\* others with it.
Parsers(way, t) ==
  [of : {t}, type : {TypeOf(way)}, yields : [Values(t) -> Grades],
   groups : IF way = "regex" /\ ~Split(way) THEN SUBSET Fields ELSE {{}},
   flags : IF way = "regex" /\ Split(way) THEN {"s", "more"} ELSE {"s"}]

Graded(p, G) == {e \in Examples(p.of) : p.yields[e] \in G}

\* Mutant of ValidSelector: one example is enough, as for a path.
ValidAsPath(p) == Graded(p, {"exact", "within"}) # {}

\* _validate_selector; no caller passes expected_count.
ValidSelector(p) ==
  LET found == Graded(p, {"exact", "within"}) IN
  /\ found # {}
  /\ 2 * Cardinality(found) >= Cardinality(Examples(p.of))

\* _validate_path
ValidPath(p) == Graded(p, {"exact", "within"}) # {}

\* validate_regex: an example that is a dictionary never counts as missing.
\* A component is validated with its flags, and later run with "s" alone.
ValidRegex(p) ==
  LET missing == Graded(p, {"none"}) IN
  \/ request.mode = "schema" /\ ~Several
  \/ Several /\ p.flags # "s"
  \/ missing = {}
  \/ /\ missing # Examples(p.of)
     /\ 2 * Cardinality(missing) <= Cardinality(Examples(p.of))

Valid(p) ==
  IF p.type = "CSS" THEN ValidSelector(p)
  ELSE IF p.type = "JSONPATH" THEN ValidPath(p) ELSE ValidRegex(p)

-----------------------------------------------------------------------------
(***************************************************************************)
(* generate_parser                                                         *)
(***************************************************************************)
Targets(way) ==
  IF Split(way)
  THEN LET keys == IF way = "css" THEN {f \in request.first : Examples({f}) # {}}
                   ELSE IF request.located # {} THEN request.located
                   ELSE request.first
       IN {{f} : f \in keys}
  ELSE {Keys}

Enter(way) ==
  /\ pc' = way
  /\ todo' = Targets(way)
  /\ tries' = 0

\* An attempt of the surrounding loop is over without a parser that is kept.
NextAttempt ==
  /\ pc' = IF attempt + 1 < MaxAttempts THEN "generate" ELSE "nothing"
  /\ attempt' = attempt + 1
  /\ todo' = {}
  /\ tries' = 0
  /\ made' = {}

\* An exception: the thread catches it in each attempt, the handler does not.
RaiseOut ==
  IF request.mode = "schema" THEN NextAttempt
  ELSE /\ pc' = "raised"
       /\ todo' = {}
       /\ tries' = 0
       /\ made' = {}
       /\ UNCHANGED attempt

Generate ==
  /\ pc = "generate"
  /\ Enter(IF request.content = "HTML" THEN "css"
           ELSE IF request.content = "JSON" THEN "jsonpath" ELSE "regex")
  /\ UNCHANGED <<request, attempt, made>>

Target == CHOOSE t \in todo : TRUE

\* The answer passed the validator.
Accept ==
  /\ \E p \in Parsers(pc, Target) :
       /\ Valid(p)
       /\ made' = made \cup {p}
  /\ todo' = todo \ {Target}
  /\ tries' = 0
  /\ pc' = IF todo' = {} THEN "similar" ELSE pc
  /\ UNCHANGED attempt

\* Mutant of FallBack: the selectors found so far stay.
FallBackKeeping ==
  /\ tries >= MaxRetries
  /\ Enter("regex")
  /\ UNCHANGED <<attempt, made>>

\* One field without a selector, and all the others are dropped.
FallBack ==
  /\ tries >= MaxRetries
  /\ Enter("regex")
  /\ made' = {}
  /\ UNCHANGED attempt

\* Mutant of Refuse: the answers are not counted.
RefuseForEver(limit) ==
  /\ tries < limit
  /\ UNCHANGED <<pc, attempt, todo, tries, made>>

\* The answer failed the validator, or could not be read.
Refuse(limit) ==
  /\ tries < limit
  /\ tries' = tries + 1
  /\ UNCHANGED <<pc, attempt, todo, made>>

\* generate_css_selector, generate_json_path: an exception, of the provider or
\* in the answer, counts as an answer. A map without any selector is taken for
\* a single parser: an exception, which ends the attempt of the thread.
TrySelector ==
  /\ pc \in {"css", "jsonpath"}
  /\ IF todo = {} THEN NextAttempt
     ELSE Accept \/ Refuse(MaxRetries) \/ FallBack
  /\ UNCHANGED request

\* Mutant of NoRegex: a component that fails is left out, as a partial result.
SkipComponent ==
  IF made = {} THEN NextAttempt
  ELSE /\ todo' = todo \ {Target}
       /\ tries' = 0
       /\ pc' = IF todo' = {} THEN "similar" ELSE pc
       /\ UNCHANGED <<attempt, made>>

\* One component that fails ends the attempt.
NoRegex == NextAttempt

\* iterative_regex_generation, for each component in generate_composite_regex.
\* Values that are no strings raise before the model is asked, and so does an
\* answer that is a list; an exception of the provider ends the loop at once.
TryRegex ==
  /\ pc = "regex"
  /\ IF Several /\ Examples(Target) = {} THEN NoRegex
     ELSE IF Several /\ ~(Target \subseteq request.texts) THEN NextAttempt
     ELSE Accept \/ Refuse(MaxIterations - 1) \/ NoRegex \/ RaiseOut
  /\ UNCHANGED request

-----------------------------------------------------------------------------
(***************************************************************************)
(* The comparison with the extracted values                                *)
(***************************************************************************)
\* execute_parser names no fields: the text of a regex match begins with the
\* name of its group, or with "value".
Labelled(p) == p.type = "REGEX"

\* A parser for several fields, or for the only field of the first item.
Single(p) == request.mode = "schema" /\ (~Several \/ p.type = "JSONPATH")

\* The similarity of what p shows as the value e of f. A single parser shows
\* its named groups, and its whole text only to a request of one field.
Score(p, f, e) ==
  IF Single(p) /\ f \in p.groups THEN Ratio[<<p.yields[e], FALSE>>]
  ELSE IF Single(p) /\ request.asked # {f} THEN 0
  ELSE Ratio[<<p.yields[e], Labelled(p)>>]

\* The values that f is compared with: all of them, or for a keyword the examples.
Compared(f) == IF request.mode = "schema" THEN Expected(f) ELSE Examples({f})

\* _check_values_similarity: the average over the expected values.
SimilarFor(p, f) ==
  MapThenSumSet(LAMBDA e : Score(p, f, e), Compared(f))
    >= Similarity * Cardinality(Compared(f))

\* The fields that p is held to: those that were asked for and have values.
HeldTo(p) == {f \in request.asked : Compared(f) # {} /\ f \in p.of}

\* Mutant of AllSimilar: one field decides.
SomeSimilar ==
  LET held == {x \in made \X request.asked : x[2] \in HeldTo(x[1])} IN
  held # {} => \E x \in held : SimilarFor(x[1], x[2])

\* _validate_parser_similarity
AllSimilar == \A p \in made : \A f \in HeldTo(p) : SimilarFor(p, f)

Compare ==
  /\ pc = "similar"
  /\ IF AllSimilar
     THEN pc' = "kept" /\ UNCHANGED <<attempt, todo, tries, made>>
     ELSE NextAttempt
  /\ UNCHANGED request

-----------------------------------------------------------------------------
Step == Generate \/ TrySelector \/ TryRegex \/ Compare

Ended == pc \in {"kept", "nothing", "raised"} /\ UNCHANGED vars

Next == Step \/ Ended

Spec == Init /\ [][Next]_vars

\* Every chat ends (LlmClient!ChatEnds), and the loops go on after it.
FairSpec == Spec /\ WF_vars(Step)

-----------------------------------------------------------------------------
(***************************************************************************)
(* Properties                                                              *)
(***************************************************************************)
Ways == {"css", "jsonpath", "regex"}

\* The shapes; what is made is made in one way, for targets that are not to do
\* any more.
TypeOK ==
  /\ request \in Requests
  /\ pc \in Ways \cup {"generate", "similar", "kept", "nothing", "raised"}
  /\ attempt \in 0..MaxAttempts
  /\ attempt = MaxAttempts <=> pc = "nothing"
  /\ tries \in 0..(IF pc = "regex" THEN MaxIterations - 1 ELSE MaxRetries)
  /\ \E way \in Ways :
       /\ pc \in Ways => pc = way
       /\ todo \subseteq Targets(way)
       /\ made \subseteq UNION {Parsers(way, t) : t \in Targets(way) \ todo}

Kept(p) == pc = "kept" /\ p \in made

\* A parser is kept only if it misses few of the values that were extracted for
\* each field that was asked for, whichever attempt made it: a tenth of them
\* if they have nothing in common, more the more alike they are. (A field that
\* nobody asked for is compared with nothing.)
KeptMissesFew ==
  \A p \in made : \A f \in p.of \cap request.asked :
    Kept(p) =>
      (10 - Alike) * Cardinality({e \in Compared(f) : p.yields[e] = "none"})
        <= (10 - Similarity) * Cardinality(Compared(f))

\* A selector that is kept shows at least half of its examples, even one of a
\* field that nobody asked for.
KeptShowsExamples ==
  \A p \in made : (Kept(p) /\ p.type = "CSS") =>
    2 * Cardinality(Graded(p, {"exact", "within"})) >= Cardinality(Examples(p.of))

\* No map of parsers lacks a field because its generation failed: there is one
\* for each field with examples, or at least for those located in the page.
MapIsWhole ==
  (pc = "kept" /\ Several) =>
    LET done == UNION {p.of : p \in made} IN
    \/ Keys \subseteq done
    \/ \A f \in request.first : Examples({f}) # {} => f \in done
    \/ request.located # {} /\ request.located \subseteq done

\* The parsers that are kept are for single fields, or one is for the request.
Kinds == {p.type : p \in made}

Drafted ==
  IF pc = "kept"
  THEN [status |-> "made", type |-> CHOOSE k \in Kinds : TRUE,
        sets |-> IF Several /\ "JSONPATH" \notin Kinds
                 THEN {p.of : p \in made} ELSE {request.asked}]
  ELSE [status |-> IF pc \in {"nothing", "raised"} THEN pc ELSE "making",
        type |-> "none", sets |-> {}]

\* What ParserCache relies on.
Draft == INSTANCE ParserDraft WITH
  mode <- request.mode, asked <- request.asked, draft <- Drafted

\* The loops end with what the abstract generation delivers, whatever the
\* model answers.
ImplementsDraft == Draft!FairSpec

\* A parser that shows every expected value as it is is kept.
Exact(f) == \A e \in Compared(f) : \A p \in made : p.yields[e] = "exact"

ExactIsKept ==
  [][(pc = "similar" /\ \A f \in request.asked : f \in Keys /\ Exact(f))
       => pc' = "kept"]_vars
=============================================================================
