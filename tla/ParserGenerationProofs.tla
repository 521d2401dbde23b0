----------------------- MODULE ParserGenerationProofs -----------------------
(***************************************************************************)
(* Theorems about ParserGeneration, for all fields, items, requests and    *)
(* limits: its types, what a kept selector, a kept map and any kept parser *)
(* show, and that the generation delivers what ParserDraft promises.       *)
(*                                                                         *)
(* The invariant follows one attempt: every target has a parser or is      *)
(* still to do (Covers), and every parser passed its validator.            *)
(***************************************************************************)
EXTENDS ParserGeneration, TLAPS, FiniteSetTheorems, WellFoundedInduction

Results == {"similar", "kept"}

\* The parsers of this attempt are made in this way, one for each target that
\* is not to do any more.
Covers(way) ==
  /\ pc \in Ways => pc = way
  /\ todo \subseteq Targets(way)
  /\ made \subseteq UNION {Parsers(way, t) : t \in Targets(way) \ todo}
  /\ pc \in Ways \cup Results =>
       \A t \in Targets(way) \ todo : \E p \in made : p.of = t

Validated == \A p \in made : Valid(p)

Complete ==
  /\ pc \in Results => todo = {} /\ made # {}
  /\ pc = "generate" => made = {}
  /\ pc = "regex" => todo # {}

IInv ==
  /\ TypeOK
  /\ \E way \in Ways : Covers(way)
  /\ Validated
  /\ Complete

-----------------------------------------------------------------------------
(***************************************************************************)
(* What the request determines                                             *)
(***************************************************************************)
\* The targets, the candidates and the validators depend on the request only.
LEMMA RequestStays ==
  ASSUME UNCHANGED request
  PROVE  /\ \A way : Targets(way)' = Targets(way)
         /\ \A way, t : Parsers(way, t)' = Parsers(way, t)
         /\ \A p : Valid(p)' = Valid(p)
  <1>1. Several' = Several BY DEF Several
  <1>2. \A f : Expected(f)' = Expected(f) BY DEF Expected
  <1>3. \A t : Values(t)' = Values(t) BY DEF Values, Expected
  <1>4. \A t : Examples(t)' = Examples(t) BY <1>3 DEF Examples
  <1>5. \A p, G : Graded(p, G)' = Graded(p, G) BY <1>4 DEF Graded
  <1>6. \A way : Split(way)' = Split(way) BY <1>1 DEF Split
  <1>7. Keys' = Keys BY DEF Keys
  <1>8. \A way : Targets(way)' = Targets(way)
    BY <1>4, <1>6, <1>7 DEF Targets
  <1>9. \A way, t : Parsers(way, t)' = Parsers(way, t)
    BY <1>3, <1>6 DEF Parsers
  <1>10. \A p : Valid(p)' = Valid(p)
    BY <1>1, <1>4, <1>5 DEF Valid, ValidSelector, ValidPath, ValidRegex
  <1> QED BY <1>8, <1>9, <1>10

\* A regex is tried for at least one target.
LEMMA RegexHasTargets ==
  ASSUME request \in Requests
  PROVE  Targets("regex") # {}
  <1>1. request.first # {} BY GenerationAssumption
  <1>2. PICK f : f \in IF request.located # {} THEN request.located ELSE request.first
    BY <1>1
  <1>3. CASE Split("regex")
    <2>1. {f} \in Targets("regex") BY <1>2, <1>3 DEF Targets
    <2> QED BY <2>1
  <1>4. CASE ~Split("regex") BY <1>4 DEF Targets
  <1> QED BY <1>3, <1>4

\* The parser of a target is for that target.
LEMMA ParserOf ==
  ASSUME NEW way, NEW t, NEW p \in Parsers(way, t)
  PROVE  p.of = t /\ p.type = TypeOf(way)
  BY DEF Parsers

\* The parts of TypeOK that a step must show anew.
Shape ==
  /\ request \in Requests
  /\ pc \in Ways \cup {"generate", "similar", "kept", "nothing", "raised"}
  /\ attempt \in 0..MaxAttempts
  /\ attempt = MaxAttempts <=> pc = "nothing"
  /\ tries \in 0..(IF pc = "regex" THEN MaxIterations - 1 ELSE MaxRetries)

\* IInv from its parts, in the state after a step.
LEMMA Assembled ==
  ASSUME Shape', NEW way \in Ways, Covers(way)', Validated', Complete'
  PROVE  IInv'
  <1>1. TypeOK' BY DEF TypeOK, Shape, Covers
  <1> QED BY <1>1 DEF IInv

-----------------------------------------------------------------------------
(***************************************************************************)
(* The steps                                                               *)
(***************************************************************************)
\* The attempts are counted, up to the limit.
LEMMA NextAttemptKeeps ==
  ASSUME IInv, NextAttempt, UNCHANGED request,
         pc \notin {"kept", "nothing", "raised"}
  PROVE  IInv'
  <1>1. Shape'
    BY GenerationAssumption DEF IInv, TypeOK, Shape, NextAttempt, Ways
  <1>2. "css" \in Ways BY DEF Ways
  <1>3. Covers("css")' BY DEF NextAttempt, Covers, Ways, Results
  <1>4. Validated' /\ Complete'
    BY DEF NextAttempt, Validated, Complete, Results
  <1> QED BY <1>1, <1>2, <1>3, <1>4, Assembled

\* An exception ends the generation for a keyword.
LEMMA RaiseOutKeeps ==
  ASSUME IInv, RaiseOut, UNCHANGED request, pc \notin {"kept", "nothing", "raised"}
  PROVE  IInv'
  <1>1. CASE request.mode = "schema" BY <1>1, NextAttemptKeeps DEF RaiseOut
  <1>2. CASE request.mode # "schema"
    <2> pc' = "raised" /\ todo' = {} /\ tries' = 0 /\ made' = {} /\ attempt' = attempt
      BY <1>2 DEF RaiseOut
    <2>1. Shape' BY GenerationAssumption DEF IInv, TypeOK, Shape, Ways
    <2>2. "css" \in Ways BY DEF Ways
    <2>3. Covers("css")' BY DEF Covers, Ways, Results
    <2>4. Validated' /\ Complete' BY DEF Validated, Complete, Results
    <2> QED BY <2>1, <2>2, <2>3, <2>4, Assembled
  <1> QED BY <1>1, <1>2

\* A way of generation starts with all its targets to do.
LEMMA EnterKeeps ==
  ASSUME IInv, NEW way \in Ways, Enter(way), made' = {}, UNCHANGED <<request, attempt>>,
         pc \notin {"kept", "nothing", "raised"}
  PROVE  IInv'
  <1> pc' = way /\ todo' = Targets(way) /\ tries' = 0 BY DEF Enter
  <1>1. Shape' BY GenerationAssumption DEF IInv, TypeOK, Shape, Ways
  <1>2. Targets(way)' = Targets(way) BY RequestStays
  <1>3. Covers(way)' BY <1>2 DEF Covers, Ways, Results
  <1>4. way = "regex" => Targets(way) # {} BY RegexHasTargets DEF IInv, TypeOK
  <1>5. Validated' /\ Complete' BY <1>4 DEF Validated, Complete, Results, Ways
  <1> QED BY <1>1, <1>3, <1>5, Assembled

\* The target that is chosen is one that is to do.
LEMMA TargetIsToDo ==
  ASSUME todo # {}
  PROVE  Target \in todo
  BY DEF Target

\* An answer that passes its validator is the parser of its target.
LEMMA AcceptKeeps ==
  ASSUME IInv, pc \in Ways, todo # {}, Accept, UNCHANGED request
  PROVE  IInv'
  <1>1. PICK p \in Parsers(pc, Target) : Valid(p) /\ made' = made \cup {p}
    BY DEF Accept
  <1>2. /\ todo' = todo \ {Target} /\ tries' = 0 /\ attempt' = attempt
        /\ pc' = IF todo' = {} THEN "similar" ELSE pc
    BY DEF Accept
  <1>3. Target \in todo BY TargetIsToDo
  <1>4. p.of = Target BY ParserOf
  <1>5. PICK way \in Ways : Covers(way) BY DEF IInv
  <1>6. pc = way BY <1>5 DEF Covers
  <1>7. /\ Targets(way)' = Targets(way)
        /\ \A t : Parsers(way, t)' = Parsers(way, t)
        /\ \A q : Valid(q)' = Valid(q)
    BY RequestStays
  <1>8. Shape' BY <1>2, GenerationAssumption DEF IInv, TypeOK, Shape, Ways
  <1>9. Covers(way)'
    <2>1. (pc \in Ways => pc = way)' BY <1>2, <1>6 DEF Ways
    <2>2. (todo \subseteq Targets(way))' BY <1>2, <1>5, <1>7 DEF Covers
    <2>3. (made \subseteq UNION {Parsers(way, t) : t \in Targets(way) \ todo})'
      <3>1. \A q \in made : \E t \in Targets(way) \ todo : q \in Parsers(way, t)
        BY <1>5 DEF Covers
      <3>2. Target \in Targets(way) \ todo' /\ p \in Parsers(way, Target)
        BY <1>1, <1>2, <1>3, <1>5, <1>6 DEF Covers
      <3>3. \A q \in made' : \E t \in Targets(way) \ todo' : q \in Parsers(way, t)
        BY <1>1, <1>2, <3>1, <3>2
      <3> QED BY <3>3, <1>7
    <2>4. \A t \in Targets(way) \ todo' : \E q \in made' : q.of = t
      BY <1>1, <1>2, <1>4, <1>5, <1>6 DEF Covers
    <2> QED BY <1>7, <2>1, <2>2, <2>3, <2>4 DEF Covers
  <1>10. Validated' BY <1>1, <1>7 DEF IInv, Validated
  <1>11. Complete' BY <1>1, <1>2 DEF Complete, Results, Ways
  <1> QED BY <1>8, <1>9, <1>10, <1>11, Assembled

\* A refused answer is counted.
LEMMA RefuseKeeps ==
  ASSUME IInv, pc \in Ways, UNCHANGED request,
         Refuse(IF pc = "regex" THEN MaxIterations - 1 ELSE MaxRetries)
  PROVE  IInv'
  <1>1. /\ tries < (IF pc = "regex" THEN MaxIterations - 1 ELSE MaxRetries)
        /\ tries' = tries + 1
        /\ UNCHANGED <<pc, attempt, todo, made>>
    BY DEF Refuse
  <1>2. Shape' BY <1>1, GenerationAssumption DEF IInv, TypeOK, Shape, Ways
  <1>3. PICK way \in Ways : Covers(way) BY DEF IInv
  <1>4. /\ Targets(way)' = Targets(way)
        /\ \A t : Parsers(way, t)' = Parsers(way, t)
        /\ \A q : Valid(q)' = Valid(q)
    BY RequestStays
  <1>5. Covers(way)' BY <1>1, <1>3, <1>4 DEF Covers
  <1>6. Validated' BY <1>1, <1>4 DEF IInv, Validated
  <1>7. Complete' BY <1>1 DEF IInv, Complete, Results, Ways
  <1> QED BY <1>2, <1>5, <1>6, <1>7, Assembled

\* A comparison keeps all that was made, or drops all.
LEMMA CompareKeeps ==
  ASSUME IInv, Compare
  PROVE  IInv'
  <1>1. CASE AllSimilar
    <2>1. /\ pc = "similar" /\ pc' = "kept"
          /\ UNCHANGED <<request, attempt, todo, tries, made>>
      BY <1>1 DEF Compare
    <2>2. Shape' BY <2>1, GenerationAssumption DEF IInv, TypeOK, Shape, Ways
    <2>3. PICK way \in Ways : Covers(way) BY DEF IInv
    <2>4. /\ Targets(way)' = Targets(way)
          /\ \A t : Parsers(way, t)' = Parsers(way, t)
          /\ \A q : Valid(q)' = Valid(q)
      BY <2>1, RequestStays
    <2>5. Covers(way)' BY <2>1, <2>3, <2>4 DEF Covers, Ways, Results
    <2>6. Validated' BY <2>1, <2>4 DEF IInv, Validated
    <2>7. Complete' BY <2>1 DEF IInv, Complete, Results
    <2> QED BY <2>2, <2>5, <2>6, <2>7, Assembled
  <1>2. CASE ~AllSimilar
    <2>1. pc = "similar" /\ NextAttempt /\ UNCHANGED request BY <1>2 DEF Compare
    <2> QED BY <2>1, NextAttemptKeeps
  <1> QED BY <1>1, <1>2

-----------------------------------------------------------------------------
\* IInv, a type invariant and the account of one attempt, is inductive.
LEMMA InitEstablishes == Init => IInv
  <1> SUFFICES ASSUME Init PROVE IInv OBVIOUS
  <1>1. Covers("css") BY DEF Init, Covers, Ways, Results
  <1>2. TypeOK BY <1>1, GenerationAssumption DEF Init, TypeOK, Covers, Ways
  <1>3. Validated /\ Complete BY DEF Init, Validated, Complete, Results
  <1> QED BY <1>1, <1>2, <1>3 DEF IInv, Ways

LEMMA NextKeeps ==
  ASSUME IInv, [Next]_vars
  PROVE  IInv'
  <1>1. CASE Generate
    <2>1. pc = "generate" /\ UNCHANGED <<request, attempt, made>> BY <1>1 DEF Generate
    <2>2. PICK way \in Ways : Enter(way) BY <1>1 DEF Generate, Ways
    <2>3. made' = {} BY <2>1 DEF IInv, Complete
    <2> QED BY <2>1, <2>2, <2>3, EnterKeeps
  <1>2. CASE TrySelector
    <2>1. pc \in Ways /\ pc # "regex" /\ UNCHANGED request BY <1>2 DEF TrySelector, Ways
    <2>2. CASE todo = {}
      BY <1>2, <2>1, <2>2, NextAttemptKeeps DEF TrySelector, Ways
    <2>3. CASE todo # {}
      <3>1. Accept \/ Refuse(MaxRetries) \/ FallBack BY <1>2, <2>3 DEF TrySelector
      <3>2. CASE Accept BY <2>1, <2>3, <3>2, AcceptKeeps
      <3>3. CASE Refuse(MaxRetries) BY <2>1, <3>3, RefuseKeeps
      <3>4. CASE FallBack
        <4>1. /\ Enter("regex") /\ made' = {} /\ UNCHANGED <<request, attempt>>
              /\ "regex" \in Ways
          BY <2>1, <3>4 DEF FallBack, Ways
        <4>2. pc \notin {"kept", "nothing", "raised"} BY <2>1 DEF Ways
        <4> QED BY <4>1, <4>2, EnterKeeps
      <3> QED BY <3>1, <3>2, <3>3, <3>4
    <2> QED BY <2>2, <2>3
  <1>3. CASE TryRegex
    <2>1. pc = "regex" /\ pc \in Ways /\ UNCHANGED request BY <1>3 DEF TryRegex, Ways
    <2>2. NextAttempt \/ Accept \/ Refuse(MaxIterations - 1) \/ RaiseOut
      BY <1>3 DEF TryRegex, NoRegex
    <2>3. CASE NextAttempt BY <2>1, <2>3, NextAttemptKeeps
    <2>4. CASE RaiseOut BY <2>1, <2>4, RaiseOutKeeps
    <2>5. CASE Refuse(MaxIterations - 1) BY <2>1, <2>5, RefuseKeeps
    <2>6. CASE Accept
      <3>1. todo # {} BY <2>1 DEF IInv, Complete
      <3> QED BY <2>1, <2>6, <3>1, AcceptKeeps
    <2> QED BY <2>2, <2>3, <2>4, <2>5, <2>6
  <1>4. CASE Compare BY <1>4, CompareKeeps
  <1>5. CASE UNCHANGED vars
    <2>1. UNCHANGED <<request, pc, attempt, todo, tries, made>> BY <1>5 DEF vars
    <2>2. Shape' BY <2>1 DEF IInv, TypeOK, Shape
    <2>3. PICK way \in Ways : Covers(way) BY DEF IInv
    <2>4. /\ Targets(way)' = Targets(way)
          /\ \A t : Parsers(way, t)' = Parsers(way, t)
          /\ \A q : Valid(q)' = Valid(q)
      BY <2>1, RequestStays
    <2>5. Covers(way)' BY <2>1, <2>3, <2>4 DEF Covers
    <2>6. Validated' BY <2>1, <2>4 DEF IInv, Validated
    <2>7. Complete' BY <2>1 DEF IInv, Complete
    <2> QED BY <2>2, <2>5, <2>6, <2>7, Assembled
  <1> QED BY <1>1, <1>2, <1>3, <1>4, <1>5 DEF Next, Step, Ended

\* In every reachable state each target has a validated parser or is to do.
THEOREM GenerationInvariant == Spec => []IInv
  <1>1. IInv /\ [Next]_vars => IInv' BY NextKeeps
  <1> QED BY <1>1, InitEstablishes, PTL DEF Spec

\* TypeOK: what was made and what is to do fit together, attempts are counted.
THEOREM TypeCorrect == Spec => []TypeOK
  <1>1. IInv => TypeOK BY DEF IInv
  <1> QED BY <1>1, GenerationInvariant, PTL

-----------------------------------------------------------------------------
(***************************************************************************)
(* What is kept                                                            *)
(***************************************************************************)
\* A selector that is kept passed _validate_selector: it shows half of its
\* examples at least.
THEOREM SelectorsShowExamples == Spec => []KeptShowsExamples
  <1>1. IInv => KeptShowsExamples
    BY DEF IInv, Validated, Valid, ValidSelector, KeptShowsExamples
  <1> QED BY <1>1, GenerationInvariant, PTL

\* What was done in one way is what its targets ask for.
LEMMA CoveredIsWhole ==
  ASSUME IInv, pc = "kept", Several
  PROVE  MapIsWhole
  <1> DEFINE done == UNION {p.of : p \in made}
  <1>1. PICK way \in Ways : Covers(way) BY DEF IInv
  <1>2. todo = {} BY DEF IInv, Complete, Results
  <1>3. \A t \in Targets(way) : t \subseteq done
    <2>1. \A t \in Targets(way) : \E p \in made : p.of = t
      BY <1>1, <1>2 DEF Covers, Results
    <2> QED BY <2>1
  <1>4. CASE way = "jsonpath"
    <2>1. Keys \in Targets(way) BY <1>4 DEF Targets, Split
    <2> QED BY <1>3, <2>1 DEF MapIsWhole
  <1>5. CASE way = "css"
    <2>1. \A f \in request.first : Examples({f}) # {} => {f} \in Targets(way)
      BY <1>5 DEF Targets, Split
    <2> QED BY <1>3, <2>1 DEF MapIsWhole
  <1>6. CASE way = "regex" /\ request.located # {}
    <2>1. \A f \in request.located : {f} \in Targets(way)
      BY <1>6 DEF Targets, Split
    <2> QED BY <1>3, <1>6, <2>1 DEF MapIsWhole
  <1>7. CASE way = "regex" /\ request.located = {}
    <2>1. \A f \in request.first : {f} \in Targets(way)
      BY <1>7 DEF Targets, Split
    <2> QED BY <1>3, <2>1 DEF MapIsWhole
  <1> QED BY <1>4, <1>5, <1>6, <1>7 DEF Ways

\* A field whose generation fails takes the whole map with it, in both
\* strategies: no map is kept that lacks one.
THEOREM NoFieldIsLeftOut == Spec => []MapIsWhole
  <1>1. IInv => MapIsWhole BY CoveredIsWhole DEF MapIsWhole
  <1> QED BY <1>1, GenerationInvariant, PTL

-----------------------------------------------------------------------------
(***************************************************************************)
(* Sums over finite sets. A property of the sum is shown for the smallest  *)
(* set that would not have it.                                             *)
(***************************************************************************)
\* The element that MapThenSumSet takes first.
Pick(s) == CHOOSE x \in s : TRUE

\* The sum of g over s, from the sums h over the smaller sets.
Added(g, h, s) == IF s = {} THEN 0 ELSE g[Pick(s)] + h[s \ {Pick(s)}]

\* h is the sum of g over each subset of S.
IsSum(S, g, h) == h = [s \in SUBSET S |-> Added(g, h, s)]

\* g is at most low for the elements of few and at most high for the others.
Bounded(S, g, few, low, high) ==
  \A x \in S : g[x] \in Int /\ g[x] <= IF x \in few THEN low ELSE high

\* The score of p for f, over all values.
Total(p, f) == MapThenSumSet(LAMBDA e : Score(p, f, e), Compared(f))

\* A set of numbers has a least one.
LEMMA LeastNumber ==
  ASSUME NEW T \in SUBSET Nat, T # {}
  PROVE  \E n \in T : \A m \in T : ~(m < n)
  <1>1. PICK n \in T : \A m \in T : ~(<<m, n>> \in OpToRel(<, Nat))
    BY NatLessThanWellFounded, WFMin
  <1>2. \A m \in Nat : m < n => <<m, n>> \in OpToRel(<, Nat)
    BY DEF OpToRel
  <1> QED
    BY <1>1, <1>2

\* A set without the element taken first is smaller by one.
LEMMA Smaller ==
  ASSUME NEW S, IsFiniteSet(S), NEW s \in SUBSET S, s # {}
  PROVE  /\ Pick(s) \in s
         /\ s \ {Pick(s)} \in SUBSET S
         /\ Cardinality(s) \in Nat /\ Cardinality(s \ {Pick(s)}) \in Nat
         /\ Cardinality(s) = Cardinality(s \ {Pick(s)}) + 1
  <1>1. Pick(s) \in s
    BY DEF Pick
  <1>2. IsFiniteSet(s)
    BY FS_Subset
  <1>3. /\ IsFiniteSet(s \ {Pick(s)})
        /\ Cardinality(s \ {Pick(s)}) = Cardinality(s) - 1
    BY <1>1, <1>2, FS_RemoveElement
  <1>4. Cardinality(s) \in Nat /\ Cardinality(s \ {Pick(s)}) \in Nat
    BY <1>2, <1>3, FS_CardinalityType
  <1> QED
    BY <1>1, <1>3, <1>4

\* Sums exist: those over sets of n elements give those over sets of n + 1.
LEMMA SumExists ==
  ASSUME NEW S, IsFiniteSet(S), NEW g
  PROVE  \E h : IsSum(S, g, h)
  <1> DEFINE Upto(n) == {s \in SUBSET S : Cardinality(s) <= n}
             Solves(h, n) == \A s \in Upto(n) : h[s] = Added(g, h, s)
             Open == {n \in Nat : ~\E h : Solves(h, n)}
  <1>1. Open = {}
    <2> SUFFICES ASSUME Open # {} PROVE FALSE
      OBVIOUS
    <2>1. PICK n \in Open : \A m \in Open : ~(m < n)
      BY LeastNumber
    <2>2. CASE n = 0
      <3> DEFINE h == [s \in SUBSET S |-> 0]
      <3>1. ASSUME NEW s \in Upto(0) PROVE s = {}
        <4>1. s \in SUBSET S /\ Cardinality(s) <= 0
          OBVIOUS
        <4> HIDE DEF Upto
        <4> SUFFICES ASSUME s # {} PROVE FALSE
          OBVIOUS
        <4>2. /\ Cardinality(s) \in Nat /\ Cardinality(s \ {Pick(s)}) \in Nat
              /\ Cardinality(s) = Cardinality(s \ {Pick(s)}) + 1
          BY <4>1, Smaller
        <4> QED
          BY <4>1, <4>2
      <3>2. Solves(h, 0)
        BY <3>1 DEF Added
      <3> QED
        BY <2>1, <2>2, <3>2
    <2>3. CASE n # 0
      <3>1. n - 1 \in Nat /\ n - 1 < n
        BY <2>3
      <3>2. PICK h : Solves(h, n - 1)
        BY <2>1, <3>1
      <3> DEFINE k == [s \in SUBSET S |-> IF s \in Upto(n - 1) THEN h[s] ELSE Added(g, h, s)]
      <3>3. ASSUME NEW s \in Upto(n) PROVE k[s] = Added(g, h, s)
        BY <3>2
      <3>4. ASSUME NEW s \in Upto(n) PROVE Added(g, k, s) = Added(g, h, s)
        <4>1. CASE s = {}
          BY <4>1 DEF Added
        <4>2. CASE s # {}
          <5>1. s \ {Pick(s)} \in Upto(n - 1)
            BY <3>1, <4>2, Smaller
          <5>2. k[s \ {Pick(s)}] = h[s \ {Pick(s)}]
            BY <5>1
          <5> QED
            BY <4>2, <5>2 DEF Added
        <4> QED
          BY <4>1, <4>2
      <3>5. Solves(k, n)
        BY <3>3, <3>4
      <3> QED
        BY <2>1, <3>5
    <2> QED
      BY <2>2, <2>3
  <1>2. Cardinality(S) \in Nat
    BY FS_CardinalityType
  <1>3. PICK h : Solves(h, Cardinality(S))
    BY <1>1, <1>2
  <1>4. SUBSET S \subseteq Upto(Cardinality(S))
    BY FS_Subset
  <1> DEFINE k == [s \in SUBSET S |-> h[s]]
  <1>5. ASSUME NEW s \in SUBSET S PROVE k[s] = Added(g, k, s)
    <2>1. h[s] = Added(g, h, s)
      BY <1>3, <1>4
    <2>2. CASE s = {}
      BY <2>1, <2>2 DEF Added
    <2>3. CASE s # {}
      <3>1. k[s \ {Pick(s)}] = h[s \ {Pick(s)}]
        OBVIOUS
      <3> QED
        BY <2>1, <2>3, <3>1 DEF Added
    <2> QED
      BY <2>2, <2>3
  <1>6. k = [s \in SUBSET S |-> Added(g, k, s)]
    BY <1>5
  <1> QED
    BY <1>6 DEF IsSum

\* The scores are added up by such a function.
LEMMA SumIs ==
  ASSUME NEW p, NEW f, IsFiniteSet(Compared(f))
  PROVE  \E g, h : /\ g = [e \in Compared(f) |-> Score(p, f, e)]
                   /\ IsSum(Compared(f), g, h)
                   /\ Total(p, f) = h[Compared(f)]
  <1>1. PICK g : g = [e \in Compared(f) |-> Score(p, f, e)]
    OBVIOUS
  <1> DEFINE S == Compared(f)
             Then(h, s) == IF s = {} THEN 0 ELSE LET x == CHOOSE x \in s : TRUE
                                                 IN Score(p, f, x) + h[s \ {x}]
             iter == CHOOSE iter : iter = [s \in SUBSET S |-> Then(iter, s)]
  <1> HIDE DEF S
  <1>2. PICK h : IsSum(S, g, h)
    BY SumExists DEF S
  <1>3. ASSUME NEW j, NEW s \in SUBSET S PROVE Then(j, s) = Added(g, j, s)
    <2>1. CASE s = {}
      BY <2>1 DEF Added
    <2>2. CASE s # {}
      <3>1. Pick(s) \in S
        BY <2>2 DEF Pick
      <3>2. g[Pick(s)] = Score(p, f, Pick(s))
        BY <1>1, <3>1 DEF S
      <3> QED
        BY <2>2, <3>2 DEF Added, Pick
    <2> QED
      BY <2>1, <2>2
  <1>4. Total(p, f) = iter[S]
    BY DEF S, Total, MapThenSumSet, MapThenFoldSet
  <1> HIDE DEF Then
  <1>5. h = [s \in SUBSET S |-> Then(h, s)]
    BY <1>2, <1>3 DEF IsSum
  <1>6. iter = [s \in SUBSET S |-> Then(iter, s)]
    BY <1>5
  <1> HIDE DEF iter
  <1>7. iter = [s \in SUBSET S |-> Added(g, iter, s)]
    BY <1>3, <1>6
  <1> WITNESS g, iter
  <1> QED
    BY <1>1, <1>4, <1>7 DEF S, IsSum

\* What is at most low for some elements and at most high for the others adds
\* up to as much.
LEMMA SumBound ==
  ASSUME NEW S, IsFiniteSet(S), NEW g, NEW h, IsSum(S, g, h),
         NEW few \in SUBSET S, NEW low \in Int, NEW high \in Int,
         Bounded(S, g, few, low, high)
  PROVE  \A s \in SUBSET S :
           h[s] \in Int /\ h[s] <= low * Cardinality(s \cap few) + high * Cardinality(s \ few)
  <1> DEFINE Good(s) ==
        h[s] \in Int /\ h[s] <= low * Cardinality(s \cap few) + high * Cardinality(s \ few)
             Open == {n \in Nat : \E s \in SUBSET S : Cardinality(s) = n /\ ~Good(s)}
  <1>1. ASSUME NEW s \in SUBSET S, s = {} \/ Good(s \ {Pick(s)}) PROVE Good(s)
    <2>1. CASE s = {}
      <3>1. h[s] = 0 /\ s \cap few = {} /\ s \ few = {}
        BY <2>1 DEF Added, IsSum
      <3>2. Cardinality(s \cap few) = 0 /\ Cardinality(s \ few) = 0
        BY <3>1, FS_EmptySet
      <3> QED
        BY <3>1, <3>2
    <2>2. CASE s # {}
      <3> DEFINE x == Pick(s)
                 r == s \ {x}
      <3>1. x \in s /\ r \in SUBSET S
        BY <2>2, Smaller
      <3>2. h[s] = g[x] + h[r]
        BY <2>2, Smaller DEF Added, IsSum
      <3>3. IsFiniteSet(r \cap few) /\ IsFiniteSet(r \ few)
            /\ IsFiniteSet(s \cap few) /\ IsFiniteSet(s \ few)
        BY <3>1, FS_Subset
      <3>4. /\ Cardinality(r \cap few) \in Nat /\ Cardinality(r \ few) \in Nat
            /\ Cardinality(s \cap few) \in Nat /\ Cardinality(s \ few) \in Nat
        BY <3>3, FS_CardinalityType
      <3>5. r \cap few = (s \cap few) \ {x} /\ r \ few = (s \ few) \ {x}
        OBVIOUS
      <3> HIDE DEF x, r, Good
      <3>6. /\ Cardinality(r \cap few) =
                 IF x \in few THEN Cardinality(s \cap few) - 1 ELSE Cardinality(s \cap few)
            /\ Cardinality(r \ few) =
                 IF x \in few THEN Cardinality(s \ few) ELSE Cardinality(s \ few) - 1
        <4>1. \A A : IsFiniteSet(A) =>
                Cardinality(A \ {x}) = IF x \in A THEN Cardinality(A) - 1 ELSE Cardinality(A)
          BY FS_RemoveElement
        <4>2. (x \in s \cap few <=> x \in few) /\ (x \in s \ few <=> x \notin few)
          BY <3>1
        <4> QED
          BY <3>3, <3>5, <4>1, <4>2
      <3>7. Good(r)
        BY <1>1, <2>2 DEF r, x
      <3>8. g[x] \in Int /\ g[x] <= IF x \in few THEN low ELSE high
        BY <3>1 DEF Bounded
      <3>9. CASE x \in few
        <4>1. low * Cardinality(s \cap few) = low * Cardinality(r \cap few) + low
          BY <3>4, <3>6, <3>9
        <4>2. high * Cardinality(s \ few) = high * Cardinality(r \ few)
          BY <3>6, <3>9
        <4> QED
          BY <3>2, <3>4, <3>7, <3>8, <3>9, <4>1, <4>2 DEF Good
      <3>10. CASE x \notin few
        <4>1. low * Cardinality(s \cap few) = low * Cardinality(r \cap few)
          BY <3>6, <3>10
        <4>2. high * Cardinality(s \ few) = high * Cardinality(r \ few) + high
          BY <3>4, <3>6, <3>10
        <4> QED
          BY <3>2, <3>4, <3>7, <3>8, <3>10, <4>1, <4>2 DEF Good
      <3> QED
        BY <3>9, <3>10
    <2> QED
      BY <2>1, <2>2
  <1> HIDE DEF Good
  <1>2. Open = {}
    <2> SUFFICES ASSUME Open # {} PROVE FALSE
      OBVIOUS
    <2>1. PICK n \in Open : \A m \in Open : ~(m < n)
      BY LeastNumber
    <2>2. PICK s \in SUBSET S : Cardinality(s) = n /\ ~Good(s)
      BY <2>1
    <2>3. s # {} /\ ~Good(s \ {Pick(s)})
      BY <1>1, <2>2
    <2>4. /\ s \ {Pick(s)} \in SUBSET S
          /\ Cardinality(s \ {Pick(s)}) \in Nat
          /\ Cardinality(s) = Cardinality(s \ {Pick(s)}) + 1
      BY <2>3, Smaller
    <2>5. Cardinality(s \ {Pick(s)}) \in Open
      BY <2>3, <2>4
    <2>6. n \in Nat
      BY <2>1
    <2> HIDE DEF Open
    <2> QED
      BY <2>1, <2>2, <2>4, <2>5, <2>6
  <1>3. ASSUME NEW s \in SUBSET S PROVE Good(s)
    <2>1. Cardinality(s) \in Nat
      BY FS_Subset, FS_CardinalityType
    <2> QED
      BY <1>2, <2>1
  <1> QED
    BY <1>3 DEF Good
-----------------------------------------------------------------------------
(***************************************************************************)
(* The comparison                                                          *)
(***************************************************************************)
\* The values that a field is compared with are finitely many, each with a grade.
LEMMA ComparedIsGraded ==
  ASSUME IInv, NEW p \in made, NEW f \in p.of \cap request.asked
  PROVE  /\ IsFiniteSet(Compared(f))
         /\ \A e \in Compared(f) : p.yields[e] \in Grades
  <1>1. request \in RequestType
    BY GenerationAssumption DEF IInv, TypeOK
  <1>2. PICK way \in Ways : \E t \in Targets(way) : p \in Parsers(way, t)
    BY DEF IInv, Covers
  <1> PICK t \in Targets(way) : p \in Parsers(way, t)
    BY <1>2
  <1>3. p.of = t /\ p.yields \in [Values(t) -> Grades]
    BY DEF Parsers
  <1>4. Compared(f) \subseteq Expected(f)
    <2>1. Values({f}) = Expected(f)
      BY DEF Values
    <2> QED
      BY <2>1 DEF Compared, Examples
  <1>5. Expected(f) \subseteq Values(t)
    BY <1>3 DEF Values
  <1>6. IsFiniteSet(Expected(f))
    <2>1. f \in Fields /\ request.has[f] \subseteq Items
      BY <1>1 DEF RequestType
    <2>2. IsFiniteSet({f}) /\ IsFiniteSet(request.has[f])
      BY <2>1, GenerationAssumption, FS_Singleton, FS_Subset
    <2> QED
      BY <2>2, FS_Product DEF Expected
  <1>7. IsFiniteSet(Compared(f))
    BY <1>4, <1>6, FS_Subset
  <1> QED
    BY <1>3, <1>4, <1>5, <1>7

\* Alike is a similarity, with or without a label.
LEMMA AlikeIsRatio ==
  /\ Alike \in 0 .. 10
  /\ \A g \in Grades : Ratio[<<g, TRUE>>] \in 0 .. 10 /\ Ratio[<<g, FALSE>>] \in 0 .. 10
  <1>1. \A g \in Grades : <<g, TRUE>> \in Grades \X BOOLEAN /\ <<g, FALSE>> \in Grades \X BOOLEAN
    OBVIOUS
  <1>2. "none" \in Grades
    BY DEF Grades
  <1>3. Ratio \in [Grades \X BOOLEAN -> 0 .. 10]
    BY GenerationAssumption
  <1> QED
    BY <1>1, <1>2, <1>3 DEF Alike

\* A value that is missed scores no more than two different values are alike.
LEMMA MissedScoresLow ==
  ASSUME NEW p, NEW f, NEW e, p.yields[e] \in Grades
  PROVE  /\ Score(p, f, e) \in Int
         /\ Score(p, f, e) <= IF p.yields[e] = "none" THEN Alike ELSE 10
  <1> DEFINE y == p.yields[e]
  <1>1. /\ Alike \in 0 .. 10
        /\ Ratio[<<y, TRUE>>] \in 0 .. 10 /\ Ratio[<<y, FALSE>>] \in 0 .. 10
    BY AlikeIsRatio
  <1>2. y = "none" => Ratio[<<y, TRUE>>] <= Alike /\ Ratio[<<y, FALSE>>] <= Alike
    BY <1>1, GenerationAssumption DEF Alike
  <1>3. CASE Labelled(p)
    <2>1. Labelled(p) = TRUE
      BY <1>3 DEF Labelled
    <2>2. Score(p, f, e) \in {0, Ratio[<<y, TRUE>>], Ratio[<<y, FALSE>>]}
      BY <2>1 DEF Score
    <2> QED
      BY <1>1, <1>2, <2>2
  <1>4. CASE ~Labelled(p)
    <2>1. Labelled(p) = FALSE
      BY <1>4 DEF Labelled
    <2>2. Score(p, f, e) \in {0, Ratio[<<y, TRUE>>], Ratio[<<y, FALSE>>]}
      BY <2>1 DEF Score
    <2> QED
      BY <1>1, <1>2, <2>2
  <1> QED
    BY <1>3, <1>4

\* The average over the values decides how many of them are missed.
LEMMA SimilarMissesFew ==
  ASSUME IInv, NEW p \in made, NEW f \in p.of \cap request.asked, SimilarFor(p, f)
  PROVE  (10 - Alike) * Cardinality({e \in Compared(f) : p.yields[e] = "none"})
           <= (10 - Similarity) * Cardinality(Compared(f))
  <1> DEFINE S == Compared(f)
             few == {e \in S : p.yields[e] = "none"}
  <1>1. IsFiniteSet(S) /\ \A e \in S : p.yields[e] \in Grades
    BY ComparedIsGraded
  <1>2. PICK g, h : /\ g = [e \in S |-> Score(p, f, e)]
                    /\ IsSum(S, g, h)
                    /\ Total(p, f) = h[S]
    BY <1>1, SumIs
  <1>3. Bounded(S, g, few, Alike, 10)
    BY <1>1, <1>2, MissedScoresLow DEF Bounded
  <1>4. Alike \in Int /\ Similarity \in Int
    BY AlikeIsRatio, GenerationAssumption
  <1>5. h[S] >= Similarity * Cardinality(S)
    BY <1>2 DEF SimilarFor, Total
  <1> HIDE DEF S
  <1>6. few \in SUBSET S
    OBVIOUS
  <1> HIDE DEF few
  <1>7. h[S] \in Int /\ h[S] <= Alike * Cardinality(S \cap few) + 10 * Cardinality(S \ few)
    <2>1. \A s \in SUBSET S :
            h[s] \in Int /\ h[s] <= Alike * Cardinality(s \cap few) + 10 * Cardinality(s \ few)
      BY <1>1, <1>2, <1>3, <1>4, <1>6, SumBound
    <2> QED
      BY <2>1
  <1>8. S \cap few = few
    BY <1>6
  <1>9. /\ Cardinality(S) \in Nat /\ Cardinality(few) \in Nat /\ Cardinality(S \ few) \in Nat
        /\ Cardinality(S \ few) = Cardinality(S) - Cardinality(few)
    <2>1. /\ IsFiniteSet(few) /\ IsFiniteSet(S \ few)
          /\ Cardinality(S \ few) = Cardinality(S) - Cardinality(S \cap few)
      BY <1>1, <1>6, FS_Subset, FS_Difference
    <2> QED
      BY <1>1, <1>8, <2>1, FS_CardinalityType
  <1>10. ASSUME NEW n \in Nat, NEW m \in Nat, NEW a \in Int, NEW s \in Int, NEW v \in Int,
                v >= s * n, v <= a * m + 10 * (n - m)
         PROVE  (10 - a) * m <= (10 - s) * n
    <2>1. (10 - a) * m = 10 * m - a * m /\ (10 - s) * n = 10 * n - s * n
      OBVIOUS
    <2>2. a * m \in Int /\ s * n \in Int
      OBVIOUS
    <2> QED
      BY <1>10, <2>1, <2>2
  <1>11. (10 - Alike) * Cardinality(few) <= (10 - Similarity) * Cardinality(S)
    BY <1>4, <1>5, <1>7, <1>8, <1>9, <1>10
  <1> QED
    BY <1>11 DEF few, S

\* What is kept passed the comparison, and is not changed any more.
KeptIsSimilar == pc = "kept" => AllSimilar

LEMMA KeptIsSimilarNext ==
  ASSUME IInv, KeptIsSimilar, [Next]_vars
  PROVE  KeptIsSimilar'
  <1>1. ASSUME UNCHANGED <<request, made>> PROVE AllSimilar' = AllSimilar
    <2>1. Several' = Several
      BY <1>1 DEF Several
    <2>2. \A f : Compared(f)' = Compared(f)
      BY <1>1 DEF Compared, Examples, Values, Expected
    <2>3. \A p : HeldTo(p)' = HeldTo(p)
      BY <1>1, <2>2 DEF HeldTo
    <2>4. \A p, f, e : Score(p, f, e)' = Score(p, f, e)
      BY <1>1, <2>1 DEF Score, Single, Labelled
    <2>5. \A p, f : SimilarFor(p, f)' = SimilarFor(p, f)
      BY <2>2, <2>4 DEF SimilarFor, MapThenSumSet, MapThenFoldSet
    <2> QED
      BY <1>1, <2>3, <2>5 DEF AllSimilar
  <1>2. \/ pc' # "kept"
        \/ AllSimilar /\ UNCHANGED <<request, made>>
        \/ UNCHANGED vars
    <2>1. NextAttempt => pc' # "kept"
      BY DEF NextAttempt
    <2>2. RaiseOut => pc' # "kept"
      BY <2>1 DEF RaiseOut
    <2>3. \A way \in Ways : Enter(way) => pc' # "kept"
      BY DEF Enter, Ways
    <2>4. pc \in Ways /\ (Accept \/ \E n : Refuse(n)) => pc' # "kept"
      BY DEF Accept, Refuse, Ways
    <2>5. Generate \/ FallBack => pc' # "kept"
      BY <2>3 DEF Generate, FallBack, Ways
    <2>6. TrySelector => pc' # "kept"
      BY <2>1, <2>4, <2>5 DEF TrySelector, Ways
    <2>7. TryRegex => pc' # "kept"
      BY <2>1, <2>2, <2>4 DEF TryRegex, NoRegex, Ways
    <2>8. Compare => pc' # "kept" \/ (AllSimilar /\ UNCHANGED <<request, made>>)
      BY <2>1 DEF Compare
    <2> QED
      BY <2>5, <2>6, <2>7, <2>8 DEF Next, Step, Ended
  <1> QED
    BY <1>1, <1>2 DEF KeptIsSimilar, vars

\* A kept parser misses few of the values of each field that was asked for:
\* the average similarity it was kept for leaves room for no more.
THEOREM FewValuesMissed == Spec => []KeptMissesFew
  <1>1. Init => KeptIsSimilar
    BY DEF Init, KeptIsSimilar
  <1>2. IInv /\ KeptIsSimilar /\ [Next]_vars => KeptIsSimilar'
    BY KeptIsSimilarNext
  <1>3. IInv /\ KeptIsSimilar => KeptMissesFew
    <2> SUFFICES ASSUME IInv, KeptIsSimilar, NEW p \in made, NEW f \in p.of \cap request.asked,
                        Kept(p)
                 PROVE  (10 - Alike) * Cardinality({e \in Compared(f) : p.yields[e] = "none"})
                          <= (10 - Similarity) * Cardinality(Compared(f))
      BY DEF KeptMissesFew
    <2>1. CASE Compared(f) # {}
      <3>1. SimilarFor(p, f)
        BY <2>1 DEF KeptIsSimilar, Kept, AllSimilar, HeldTo
      <3> QED
        BY <3>1, SimilarMissesFew
    <2>2. CASE Compared(f) = {}
      <3>1. /\ Cardinality(Compared(f)) = 0
            /\ Cardinality({e \in Compared(f) : p.yields[e] = "none"}) = 0
        BY <2>2, FS_EmptySet
      <3>2. Alike \in Int /\ Similarity \in Int
        BY AlikeIsRatio, GenerationAssumption
      <3> QED
        BY <3>1, <3>2
    <2> QED
      BY <2>1, <2>2
  <1> QED
    BY <1>1, <1>2, <1>3, GenerationInvariant, PTL DEF Spec

-----------------------------------------------------------------------------
(***************************************************************************)
(* ParserDraft                                                             *)
(***************************************************************************)
\* The fields of the targets are fields.
LEMMA SplitTargets ==
  ASSUME request \in Requests, NEW way \in Ways, Split(way)
  PROVE  \A t \in Targets(way) : \E f \in Fields : t = {f}
  <1>1. request.first \subseteq Fields /\ request.located \subseteq Fields
    BY GenerationAssumption DEF RequestType
  <1> QED BY <1>1 DEF Targets

\* All that was made in one way has one type.
LEMMA OneKind ==
  ASSUME NEW way \in Ways, Covers(way), made # {}
  PROVE  Kinds = {TypeOf(way)}
  <1>1. \A p \in made : p.type = TypeOf(way) BY ParserOf DEF Covers
  <1> QED BY <1>1 DEF Kinds

\* What is kept is one of the drafts.
IsKept == pc = "kept"

Delivered ==
  \/ Drafted \in Draft!Single
  \/ request.mode = "schema" /\ Drafted \in Draft!Map

LEMMA KeptIsDelivered == IInv /\ IsKept => Delivered
  <1> SUFFICES ASSUME IInv, pc = "kept" PROVE Delivered BY DEF IsKept
  <1>1. PICK way \in Ways : Covers(way) BY DEF IInv
  <1>2. todo = {} /\ made # {} BY DEF IInv, Complete, Results
  <1>3. Kinds = {TypeOf(way)} BY <1>1, <1>2, OneKind
  <1>4. Drafted = [status |-> "made", type |-> TypeOf(way),
                   sets |-> IF Several /\ "JSONPATH" \notin Kinds
                            THEN {p.of : p \in made} ELSE {request.asked}]
    BY <1>3 DEF Drafted
  <1>5. TypeOf(way) \in {"CSS", "JSONPATH", "REGEX"} BY DEF TypeOf
  <1>6. CASE Several /\ "JSONPATH" \notin Kinds
    <2>1. way # "jsonpath" /\ TypeOf(way) \in {"CSS", "REGEX"}
      BY <1>3, <1>6 DEF TypeOf, Ways
    <2>2. Split(way) BY <1>6, <2>1 DEF Split
    <2>3. \A p \in made : \E f \in Fields : p.of = {f}
      BY <1>1, <2>2, SplitTargets, ParserOf DEF IInv, TypeOK, Covers
    <2> DEFINE K == {f \in Fields : \E p \in made : p.of = {f}}
    <2>4. K \in (SUBSET Fields) \ {{}} BY <1>2, <2>3
    <2>5. {p.of : p \in made} = {{f} : f \in K} BY <2>3
    <2>6. Drafted \in Draft!Map BY <1>4, <1>6, <2>1, <2>4, <2>5 DEF Draft!Map
    <2> QED BY <1>6, <2>6 DEF Several, Delivered
  <1>7. CASE ~(Several /\ "JSONPATH" \notin Kinds)
    <2> QED BY <1>4, <1>5, <1>7 DEF Draft!Single, Delivered
  <1> QED BY <1>6, <1>7

LEMMA KeptIsDeliveredNext == IInv' /\ IsKept' => Delivered'
  BY KeptIsDelivered, PTL

\* Before it ends the generation is making.
IsMaking == pc \in Ways \cup {"generate", "similar"}

LEMMA MakingBefore == IsMaking => Draft!Making
  BY DEF IsMaking, Draft!Making, Drafted, Draft!Without, Ways

LEMMA MakingStill == IsMaking' => Draft!Making'
  BY MakingBefore, PTL

\* Only the handler, whose request is a keyword, lets an exception escape.
LEMMA OnlyKeywordsRaise ==
  ASSUME IInv, [Next]_vars, pc # "raised", pc' = "raised"
  PROVE  request.mode = "keywords"
  <1>1. RaiseOut /\ request.mode # "schema"
    <2>1. TypeOK BY DEF IInv
    <2> QED
      BY <2>1, GenerationAssumption
      DEF Next, Step, Ended, vars, Generate, Enter, TrySelector, TryRegex, Compare,
          NextAttempt, NoRegex, RaiseOut, Accept, Refuse, FallBack, TypeOK, Ways
  <1>2. request.mode \in {"schema", "keywords"}
    BY GenerationAssumption DEF IInv, TypeOK, RequestType
  <1> QED BY <1>1, <1>2

\* A step of the generation maps to a step of the draft or to none.
LEMMA StepIsDrafted ==
  ASSUME IInv, IInv', [Next]_vars
  PROVE  [Draft!Next]_(Draft!vars)
  <1>1. UNCHANGED request
    BY DEF Next, Step, Ended, vars, Generate, TrySelector, TryRegex, Compare
  <1>2. UNCHANGED <<request.mode, request.asked>> BY <1>1
  <1>3. CASE ~IsMaking
    <2>1. UNCHANGED vars
      BY <1>3
      DEF IsMaking, Next, Step, Ended, Generate, TrySelector, TryRegex, Compare, Ways
    <2>2. UNCHANGED <<request, pc, made>> BY <2>1 DEF vars
    <2>3. Several' = Several /\ Kinds' = Kinds BY <2>2 DEF Several, Kinds
    <2>4. Drafted' = Drafted BY <2>2, <2>3 DEF Drafted
    <2> QED BY <1>2, <2>4 DEF Draft!vars
  <1>4. CASE IsMaking
    <2>1. Draft!Making BY <1>4, MakingBefore
    <2>2. CASE IsMaking'
      <3>1. Draft!Making' BY <2>2, MakingStill
      <3> QED BY <1>2, <2>1, <3>1 DEF Draft!Making, Draft!vars
    <2>3. CASE pc' = "kept"
      <3>1. Delivered' BY <2>3, KeptIsDeliveredNext DEF IsKept
      <3>2. Draft!Deliver
        BY <1>1, <3>1 DEF Delivered, Draft!Deliver, Draft!Single, Draft!Map
      <3> QED BY <1>2, <2>1, <3>2 DEF Draft!Next
    <2>4. CASE pc' = "nothing"
      <3>1. Draft!Fail BY <2>4 DEF Draft!Fail, Draft!Without, Drafted
      <3> QED BY <1>2, <2>1, <3>1 DEF Draft!Next
    <2>5. CASE pc' = "raised"
      <3>1. request.mode = "keywords"
        BY <1>4, <2>5, OnlyKeywordsRaise DEF IsMaking, Ways
      <3>2. Draft!Raise BY <2>5, <3>1 DEF Draft!Raise, Draft!Without, Drafted
      <3> QED BY <1>2, <2>1, <3>2 DEF Draft!Next
    <2> QED BY <2>2, <2>3, <2>4, <2>5 DEF IInv, TypeOK, IsMaking
  <1> QED BY <1>3, <1>4

\* The generation delivers what ParserDraft promises, and ends as it allows:
\* the safety part of ImplementsDraft.
THEOREM GenerationIsDraft == Spec => Draft!Spec
  <1>1. Init => Draft!Init
    <2> SUFFICES ASSUME Init PROVE Draft!Init OBVIOUS
    <2>1. request \in Requests /\ pc = "generate" BY DEF Init
    <2>2. Draft!Making BY <2>1, MakingBefore DEF IsMaking
    <2>3. request.mode \in {"schema", "keywords"} /\ request.asked \in SUBSET Fields
      BY <2>1, GenerationAssumption DEF RequestType
    <2> QED BY <2>2, <2>3 DEF Draft!Init
  <1>2. IInv /\ IInv' /\ [Next]_vars => [Draft!Next]_(Draft!vars) BY StepIsDrafted
  <1> QED BY <1>1, <1>2, GenerationInvariant, PTL DEF Spec, Draft!Spec
=============================================================================
