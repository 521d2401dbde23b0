-------------------------- MODULE ParserMissProofs --------------------------
(***************************************************************************)
(* What a lookup of ParserCache that finds nothing leaves behind, for all  *)
(* pages, workers, parsers, requests and orders of source types, when no   *)
(* statement fails for reasons of the database: check_cached_parser has    *)
(* tried and invalidated every parser for the whole request that it knew   *)
(* of (MissLeavesNone).                                                    *)
(*                                                                         *)
(* The property speaks of the moment the language model is asked; what has *)
(* to be carried there is Settled: the source types looked up so far have  *)
(* no active parser left among those known.  Other handlers only store     *)
(* parsers that were not known, and make none active again (Grows), so     *)
(* that what is settled stays settled.                                     *)
(***************************************************************************)
EXTENDS ParserCacheProofs

\* No statement fails but those of a poisoned session. (Otherwise an
\* invalidation may fail, which is only logged, and the parser stays active.)
NoDbFaults == "db" \notin Faults

\* The parsers of table p among which r's lookup of the n-th type chooses,
\* and those of them that serve the whole request.
Rivaling(p, r, n) ==
  {i \in Parsers : p[i].stored /\ p[i].url = r.url /\ p[i].type = Passes[n]}

Serving(p, r, n) == {i \in Rivaling(p, r, n) : r.fields \subseteq p[i].fields}

\* An active parser that serves r, and that r knew when it started.
Open(p, r, n, i) == i \in Serving(p, r, n) \cap r.known /\ p[i].active

\* Neither the limit of the query nor that of the lookup leaves any out.
Few(p, r, n) ==
  /\ Cardinality(Rivaling(p, r, n)) <= QueryLimit
  /\ Cardinality(Serving(p, r, n)) <= Limit

\* The first n types that r looked up have no open parser left.
Settled(p, r, n) ==
  \A m \in 1 .. Len(Passes), i \in Parsers :
    m <= n /\ Few(p, r, m) => ~Open(p, r, m, i)

\* The open parsers of r's present type are those that it has still to try.
Listed(p, r) ==
  Few(p, r, r.pass) => \A i \in Parsers : Open(p, r, r.pass, i) => i \in ToSet(r.cands)

MissJob(p, r) ==
  /\ \A i \in r.known : p[i].stored
  /\ ~r.poisoned =>
       /\ r.pc \in {"find", "apply", "legacy", "try"} => Settled(p, r, r.pass - 1)
       /\ r.pc = "try" => Listed(p, r)
       /\ r.pc = "extract" /\ r.fields # {} => Settled(p, r, Len(Passes))

MissInv == IInv /\ \A w \in Workers : MissJob(parser, job[w])

\* The table q may follow the table p: parsers stay what they were made for,
\* and none becomes active.
Grows(p, q) ==
  \A i \in Parsers : p[i].stored =>
    /\ q[i].stored /\ q[i].url = p[i].url /\ q[i].fields = p[i].fields
    /\ q[i].type = p[i].type /\ (q[i].active => p[i].active)

-----------------------------------------------------------------------------
(***************************************************************************)
(* What is settled stays settled.                                          *)
(***************************************************************************)
\* r and s ask for the same, and know the same parsers.
SameQuest(r, s) == s.url = r.url /\ s.fields = r.fields /\ s.known = r.known

LEMMA Onward ==
  ASSUME NEW p, NEW q, NEW r \in JobType, NEW s, Grows(p, q), SameQuest(r, s),
         \A i \in r.known : p[i].stored
  PROVE  /\ \A i \in s.known : q[i].stored
         /\ \A m : Few(q, s, m) => Few(p, r, m)
         /\ \A m, i : Open(q, s, m, i) => Open(p, r, m, i)
         /\ \A n : Settled(p, r, n) => Settled(q, s, n)
  <1>1. r.known \subseteq Parsers
    BY DEF JobType
  <1>2. \A i \in s.known : q[i].stored
    BY <1>1 DEF SameQuest, Grows
  <1>3. ASSUME NEW m, Few(q, s, m) PROVE Few(p, r, m)
    <2>1. /\ Rivaling(p, r, m) \subseteq Rivaling(q, s, m)
          /\ Serving(p, r, m) \subseteq Serving(q, s, m)
          /\ Serving(q, s, m) \subseteq Rivaling(q, s, m)
      BY DEF Rivaling, Serving, SameQuest, Grows
    <2>2. IsFiniteSet(Rivaling(q, s, m)) /\ IsFiniteSet(Serving(q, s, m))
      BY <2>1, CacheAssumption, FS_Subset DEF Rivaling
    <2>3. /\ IsFiniteSet(Rivaling(p, r, m)) /\ IsFiniteSet(Serving(p, r, m))
          /\ Cardinality(Rivaling(p, r, m)) <= Cardinality(Rivaling(q, s, m))
          /\ Cardinality(Serving(p, r, m)) <= Cardinality(Serving(q, s, m))
      BY <2>1, <2>2, FS_Subset
    <2>4. /\ Cardinality(Rivaling(p, r, m)) \in Nat /\ Cardinality(Rivaling(q, s, m)) \in Nat
          /\ Cardinality(Serving(p, r, m)) \in Nat /\ Cardinality(Serving(q, s, m)) \in Nat
          /\ QueryLimit \in Nat /\ Limit \in Nat
      BY <2>2, <2>3, FS_CardinalityType, CacheAssumption
    <2> QED
      BY <1>3, <2>3, <2>4 DEF Few
  <1>4. \A m, i : Open(q, s, m, i) => Open(p, r, m, i)
    BY <1>1 DEF Open, Rivaling, Serving, SameQuest, Grows
  <1>5. \A n : Settled(p, r, n) => Settled(q, s, n)
    BY <1>3, <1>4 DEF Settled
  <1> QED
    BY <1>2, <1>3, <1>4, <1>5

\* The steps of the others do not disturb a handler.
LEMMA MissKeeps ==
  ASSUME NEW p, NEW q, NEW r \in JobType, Grows(p, q), MissJob(p, r)
  PROVE  MissJob(q, r)
  <1>1. SameQuest(r, r) /\ \A i \in r.known : p[i].stored
    BY DEF SameQuest, MissJob
  <1>2. /\ \A i \in r.known : q[i].stored
        /\ \A n : Settled(p, r, n) => Settled(q, r, n)
        /\ Listed(p, r) => Listed(q, r)
    BY <1>1, Onward DEF Listed
  <1> QED
    BY <1>2 DEF MissJob

\* Nor does a step of its own that looks on for the same source type.
LEMMA MissLooksOn ==
  ASSUME NEW p, NEW q, NEW r \in JobType, NEW s, Grows(p, q), MissJob(p, r), SameQuest(r, s),
         r.pc \in {"find", "apply", "legacy", "try"}, s.pc \in {"find", "apply", "legacy"},
         s.pass = r.pass, ~r.poisoned
  PROVE  MissJob(q, s)
  <1>1. \A i \in r.known : p[i].stored
    BY DEF MissJob
  <1>2. Settled(p, r, r.pass - 1)
    BY DEF MissJob
  <1>3. /\ \A i \in s.known : q[i].stored
        /\ \A n : Settled(p, r, n) => Settled(q, s, n)
    BY <1>1, Onward
  <1>4. Settled(q, s, r.pass - 1)
    BY <1>2, <1>3
  <1> QED
    BY <1>3, <1>4 DEF MissJob

\* A handler that looks nothing up any more has nothing to keep.
LEMMA MissFree ==
  ASSUME NEW q, NEW r, r.known = {},
         r.pc \notin {"find", "apply", "legacy", "try", "extract"}
  PROVE  MissJob(q, r)
  BY DEF MissJob

\* When the open parsers of the present source type are those in l, they are
\* tried; without any the source type is settled.
LEMMA MissTrying ==
  ASSUME NEW q, NEW r \in JobType, NEW l,
         \A i \in r.known : q[i].stored,
         Settled(q, r, r.pass - 1),
         Few(q, r, r.pass) => \A i \in Parsers : Open(q, r, r.pass, i) => i \in ToSet(l)
  PROVE  MissJob(q, Trying(r, l))
  <1> DEFINE s == Trying(r, l)
  <1>1. r.pass \in 1 .. Len(Passes) /\ Len(Passes) \in Nat
    BY DEF JobType, Passes
  <1>2. CASE l # <<>>
    <2>1. s = [r EXCEPT !.pc = "try", !.cands = l]
      BY <1>2 DEF Trying
    <2>2. s.pc = "try" /\ s.cands = l /\ s.pass = r.pass /\ SameQuest(r, s)
      BY <2>1 DEF JobType, SameQuest
    <2> HIDE DEF s
    <2>3. ASSUME NEW m
          PROVE  /\ Few(q, s, m) <=> Few(q, r, m)
                 /\ \A i : Open(q, s, m, i) <=> Open(q, r, m, i)
      <3>1. Rivaling(q, s, m) = Rivaling(q, r, m)
        BY <2>2 DEF SameQuest, Rivaling
      <3>2. Serving(q, s, m) = Serving(q, r, m)
        BY <2>2, <3>1 DEF SameQuest, Serving
      <3> QED
        BY <2>2, <3>1, <3>2 DEF SameQuest, Few, Open
    <2>4. Settled(q, s, s.pass - 1) /\ Listed(q, s)
      BY <2>2, <2>3 DEF Settled, Listed
    <2> QED
      BY <2>2, <2>4 DEF MissJob, SameQuest, s
  <1>3. CASE l = <<>>
    <2> DEFINE c == IF r.pass < Len(Passes) THEN "find" ELSE "extract"
               n == IF r.pass < Len(Passes) THEN r.pass + 1 ELSE r.pass
               seen == Idle.seen
    <2>1. s = [r EXCEPT !.cands = <<>>, !.seen = seen, !.todo = r.fields, !.pc = c, !.pass = n]
      BY <1>3 DEF Trying
    <2> HIDE DEF c, n, seen
    <2>2. s.pc = c /\ s.pass = n /\ SameQuest(r, s)
      BY <2>1 DEF JobType, SameQuest
    <2> HIDE DEF s
    <2>3. Settled(q, r, r.pass)
      <3> SUFFICES ASSUME NEW m \in 1 .. Len(Passes), NEW i \in Parsers,
                          m <= r.pass, Few(q, r, m), Open(q, r, m, i)
                   PROVE  FALSE
        BY DEF Settled
      <3>1. m <= r.pass - 1 \/ m = r.pass
        BY <1>1
      <3>2. i \notin ToSet(l)
        BY <1>3 DEF ToSet
      <3> QED
        BY <3>1, <3>2 DEF Settled
    <2>4. Settled(q, s, r.pass)
      BY <2>2, <2>3 DEF SameQuest, Settled, Few, Open, Rivaling, Serving
    <2>5. /\ c = "find" => n - 1 = r.pass
          /\ c = "extract" => r.pass = Len(Passes)
          /\ c \in {"find", "extract"}
      BY <1>1 DEF c, n
    <2> QED
      BY <2>2, <2>4, <2>5 DEF MissJob, SameQuest, s
  <1> QED
    BY <1>2, <1>3

-----------------------------------------------------------------------------
(***************************************************************************)
(* The table                                                               *)
(***************************************************************************)
LEMMA TableGrows ==
  ASSUME IInv, NEW i, NEW c
  PROVE  /\ Grows(parser, parser)
         /\ Grows(parser, Used(i, c))
         /\ Grows(parser, Invalidated(i))
         /\ i \in Parsers => ~Invalidated(i)[i].active
  <1> DEFINE d == IF c < MaxConfidence THEN c + 1 ELSE MaxConfidence
             used == [parser EXCEPT ![i] = [parser[i] EXCEPT !.confidence = d]]
             out == [parser EXCEPT ![i] = [parser[i] EXCEPT !.active = FALSE, !.confidence = 0]]
  <1>1. parser \in [Parsers -> RowType]
    BY DEF IInv, TypeOK
  <1>2. Used(i, c) = used /\ Invalidated(i) = out
    BY <1>1 DEF Used, Invalidated
  <1> HIDE DEF d
  <1>3. ASSUME NEW k \in Parsers
        PROVE  /\ used[k].stored = parser[k].stored /\ used[k].url = parser[k].url
               /\ used[k].fields = parser[k].fields /\ used[k].type = parser[k].type
               /\ used[k].active = parser[k].active
               /\ out[k].stored = parser[k].stored /\ out[k].url = parser[k].url
               /\ out[k].fields = parser[k].fields /\ out[k].type = parser[k].type
               /\ out[k].active => parser[k].active /\ k # i
    BY <1>1 DEF RowType
  <1> QED
    BY <1>2, <1>3 DEF Grows

\* A sequence of all elements of a finite set, cut at a length that has room
\* for all, holds them all.
LEMMA AllOfSet ==
  ASSUME NEW S, IsFiniteSet(S), NEW n \in Nat, Cardinality(S) <= n, NEW s \in SetToSeqs(S)
  PROVE  \A i \in S : i \in ToSet(SubSeq(s, 1, IF Len(s) < n THEN Len(s) ELSE n))
  <1> DEFINE D == 1 .. Cardinality(S)
             q == SubSeq(s, 1, IF Len(s) < n THEN Len(s) ELSE n)
  <1>1. Cardinality(S) \in Nat
    BY FS_CardinalityType
  <1>2. s \in [D -> S] /\ \A a, b \in D : a # b => s[a] # s[b]
    BY DEF SetToSeqs
  <1>3. s \in Injection(D, S)
    BY <1>2 DEF Injection, IsInjective
  <1>4. Cardinality(D) = Cardinality(S)
    BY <1>1, FS_Interval
  <1>5. \A i \in S : \E k \in D : s[k] = i
    <2>1. s \in Surjection(D, S)
      BY <1>1, <1>3, <1>4, FS_Injection
    <2> QED
      BY <2>1 DEF Surjection
  <1>6. s \in Seq(S) /\ Len(s) = Cardinality(S)
    BY <1>1, <1>2
  <1>7. q = s
    BY <1>1, <1>6
  <1>8. DOMAIN q = D
    BY <1>2, <1>7
  <1> HIDE DEF q
  <1>9. \A i \in S : i \in ToSet(q)
    BY <1>5, <1>7, <1>8 DEF ToSet
  <1> QED
    BY <1>9 DEF q

\* What a lookup with room for all returns is all that may be selected and
\* serves the fields.
LEMMA FoundAll ==
  ASSUME NEW u, NEW F, NEW type, NEW n \in Nat, NEW q \in Found(u, F, type, n),
         Cardinality(Selectable(u, type)) <= QueryLimit,
         Cardinality({i \in Selectable(u, type) : F \subseteq parser[i].fields}) <= n
  PROVE  \A i \in Selectable(u, type) : F \subseteq parser[i].fields => i \in ToSet(q)
  <1> DEFINE S == Selectable(u, type)
             R == {i \in S : F \subseteq parser[i].fields}
  <1>1. IsFiniteSet(S) /\ Cardinality(S) \in Nat /\ QueryLimit \in Nat
    BY CacheAssumption, FS_Subset, FS_CardinalityType DEF Selectable, Stored
  <1>2. PICK T \in Queried(u, type, QueryLimit) : q \in Ranked(T, F, n)
    BY DEF Found
  <1>3. T = S
    <2>1. T \in SUBSET S /\ (T = S \/ Cardinality(T) = QueryLimit)
      BY <1>2 DEF Queried
    <2>2. IsFiniteSet(T) /\ Cardinality(T) \in Nat /\ Cardinality(T) <= Cardinality(S)
          /\ (Cardinality(T) = Cardinality(S) => T = S)
      BY <1>1, <2>1, FS_Subset, FS_CardinalityType
    <2>3. Cardinality(S) <= QueryLimit
      OBVIOUS
    <2> HIDE DEF S
    <2> QED
      BY <1>1, <2>1, <2>2, <2>3
  <1>4. PICK s \in SetToSeqs(R) : q = SubSeq(s, 1, IF Len(s) < n THEN Len(s) ELSE n)
    BY <1>2, <1>3 DEF Ranked
  <1>5. IsFiniteSet(R) /\ Cardinality(R) <= n
    BY <1>1, FS_Subset
  <1> HIDE DEF R
  <1>6. \A i \in R : i \in ToSet(q)
    BY <1>4, <1>5, AllOfSet
  <1> QED
    BY <1>6 DEF R

-----------------------------------------------------------------------------
(***************************************************************************)
(* The steps of a handler and of its thread.                               *)
(***************************************************************************)
\* w's step leaves it in a record that is in order, and the table grows.
MissStep(w) ==
  /\ Grows(parser, parser')
  /\ \E r : job' = [job EXCEPT ![w] = r] /\ MissJob(parser', r)

\* A statement that raises does so in a poisoned session, which stays so.
LEMMA MissRaises ==
  ASSUME MissInv, NoDbFaults, NEW w \in Workers, NEW new, NEW r \in JobType,
         \A i \in r.known : parser[i].stored, Raises(w, new, r)
  PROVE  MissStep(w)
  <1> DEFINE s == [r EXCEPT !.poisoned = TRUE]
  <1>1. parser' = parser /\ job' = [job EXCEPT ![w] = s]
    BY DEF Raises, NoDbFaults
  <1>2. s.known = r.known /\ s.poisoned
    BY DEF JobType
  <1> HIDE DEF s
  <1>3. MissJob(parser', s)
    BY <1>1, <1>2 DEF MissJob
  <1>4. Grows(parser, parser')
    BY <1>1, TableGrows DEF MissInv
  <1> QED
    BY <1>1, <1>3, <1>4 DEF MissStep

\* Leaving the cache or idle, a handler knows of nothing.
LEMMA LeavingFree ==
  ASSUME IInv, NEW w \in Workers, NEW pc \in {"persist", "nodata", "failing"}, NEW q
  PROVE  /\ MissJob(q, Leaving(w, pc)) /\ MissJob(q, Idle)
         /\ Leaving(w, pc) \in JobType /\ Leaving(w, pc).known = {}
  <1>1. Leaving(w, pc) = [Idle EXCEPT !.pc = pc, !.poisoned = job[w].poisoned]
    BY DEF Leaving
  <1>2. Leaving(w, pc).known = {} /\ Leaving(w, pc).pc = pc /\ Idle.known = {} /\ Idle.pc = "idle"
    BY <1>1 DEF Idle
  <1>3. Leaving(w, pc) \in JobType
    BY LeavingGood DEF IInv
  <1> QED
    BY <1>2, <1>3, MissFree

\* What a handler that stands in the cache can rely on.
LEMMA MissFacts ==
  ASSUME MissInv, NEW w \in Workers
  PROVE  /\ IInv /\ job[w] \in JobType /\ MissJob(parser, job[w])
         /\ \A i \in job[w].known : parser[i].stored
         /\ Grows(parser, parser)
  BY TableGrows DEF MissInv, IInv, TypeOK, MissJob

LEMMA FindFieldMiss ==
  ASSUME MissInv, NoDbFaults, NEW w \in Workers, NEW f \in Fields, FindFieldParser(w, f)
  PROVE  MissStep(w)
  <1>1. IInv /\ job[w] \in JobType /\ MissJob(parser, job[w]) /\ Grows(parser, parser)
    BY MissFacts
  <1>2. CASE Raises(w, parser, Leaving(w, "failing"))
    BY <1>1, <1>2, LeavingFree, MissRaises
  <1>3. ASSUME NEW i, NEW s \in {Whole(w), Chosen(w, f, i)}, ~job[w].poisoned, parser' = parser,
               job' = [job EXCEPT ![w] = s]
        PROVE  MissStep(w)
    <2>1. /\ s.pc \in {"find", "apply", "legacy"} /\ s.pass = job[w].pass
          /\ SameQuest(job[w], s)
      BY <1>1, <1>3 DEF Whole, Chosen, JobType, SameQuest
    <2>2. job[w].pc = "find"
      BY DEF FindFieldParser
    <2>3. MissJob(parser', s)
      BY <1>1, <1>3, <2>1, <2>2, MissLooksOn
    <2> QED
      BY <1>1, <1>3, <2>3 DEF MissStep
  <1> QED
    BY <1>2, <1>3 DEF FindFieldParser

LEMMA ApplyFieldMiss ==
  ASSUME MissInv, NoDbFaults, NEW w \in Workers, NEW f \in Fields, ApplyFieldParser(w, f)
  PROVE  MissStep(w)
  <1> DEFINE i == job[w].chosen[f]
             new == Used(i, job[w].seen[i])
             missed == job[w].missed \/ ~Matches(w, i)
             r == [job[w] EXCEPT !.todo = job[w].todo \ {f}, !.missed = missed,
                                 !.seen = Reloaded(w)]
  <1>1. IInv /\ job[w] \in JobType /\ MissJob(parser, job[w])
    BY MissFacts
  <1>2. Grows(parser, new)
    BY <1>1, TableGrows
  <1>3. job[w].pc = "apply"
    BY DEF ApplyFieldParser
  <1>4. \/ Raises(w, new, Leaving(w, "failing"))
        \/ /\ ~job[w].poisoned /\ parser' = new
           /\ job' = [job EXCEPT ![w] =
                IF job[w].todo # {f} THEN r
                ELSE IF missed THEN Whole(w) ELSE Leaving(w, "persist")]
    BY DEF ApplyFieldParser
  <1> HIDE DEF new, missed
  <1>5. CASE Raises(w, new, Leaving(w, "failing"))
    BY <1>1, <1>5, LeavingFree, MissRaises
  <1>6. ASSUME NEW s \in {Whole(w), r}, ~job[w].poisoned, parser' = new,
               job' = [job EXCEPT ![w] = s]
        PROVE  MissStep(w)
    <2>1. /\ s.pc \in {"find", "apply", "legacy"} /\ s.pass = job[w].pass
          /\ SameQuest(job[w], s)
      BY <1>1, <1>3, <1>6 DEF Whole, JobType, SameQuest
    <2>2. MissJob(parser', s)
      BY <1>1, <1>2, <1>3, <1>6, <2>1, MissLooksOn
    <2> QED
      BY <1>2, <1>6, <2>2 DEF MissStep
  <1>7. CASE parser' = new /\ job' = [job EXCEPT ![w] = Leaving(w, "persist")]
    BY <1>1, <1>2, <1>7, LeavingFree DEF MissStep
  <1> HIDE DEF r
  <1> QED
    BY <1>4, <1>5, <1>6, <1>7

\* Where the limits leave none out, the lookup returns all that are open.
LEMMA FindMiss ==
  ASSUME MissInv, NoDbFaults, NEW w \in Workers, FindParsers(w)
  PROVE  MissStep(w)
  <1>1. IInv /\ job[w] \in JobType /\ MissJob(parser, job[w]) /\ Grows(parser, parser)
    BY MissFacts
  <1>2. CASE Raises(w, parser, Leaving(w, "failing"))
    BY <1>1, <1>2, LeavingFree, MissRaises
  <1>3. ASSUME NEW q \in Found(job[w].url, Request(w), Type(w), Limit), parser' = parser,
               NEW seen, ~job[w].poisoned,
               job' = [job EXCEPT ![w] = Trying([job[w] EXCEPT !.seen = seen], q)],
               seen = [i \in Parsers |-> IF i \in ToSet(q) THEN parser[i].confidence ELSE 0]
        PROVE  MissStep(w)
    <2> DEFINE r == [job[w] EXCEPT !.seen = seen]
               S == Selectable(job[w].url, Type(w))
    <2>1. /\ job[w].pc = "legacy" /\ (\A i \in job[w].known : parser[i].stored)
          /\ Settled(parser, job[w], job[w].pass - 1)
      BY <1>1, <1>3 DEF FindParsers, MissJob
    <2>2. ASSUME NEW i \in Parsers
          PROVE  parser[i].confidence \in 0 .. MaxConfidence /\ 0 \in 0 .. MaxConfidence
      BY <1>1, CacheAssumption DEF IInv, TypeOK, RowType
    <2>3. seen \in [Parsers -> 0 .. MaxConfidence]
      BY <1>3, <2>2
    <2>4. r \in JobType /\ r.pass = job[w].pass /\ SameQuest(job[w], r)
      BY <1>1, <2>3 DEF JobType, SameQuest
    <2>5. ASSUME Few(parser, job[w], job[w].pass),
                 NEW i \in Parsers, Open(parser, job[w], job[w].pass, i)
          PROVE  i \in ToSet(q)
      <3> DEFINE n == job[w].pass
                 A == Rivaling(parser, job[w], n)
                 B == Serving(parser, job[w], n)
                 R == {k \in S : Request(w) \subseteq parser[k].fields}
      <3>1. S \subseteq A /\ R \subseteq B /\ B \subseteq A
        BY DEF Selectable, Stored, Rivaling, Serving, Type, Request
      <3>2. IsFiniteSet(A) /\ IsFiniteSet(B)
        BY <3>1, CacheAssumption, FS_Subset DEF Rivaling
      <3>3. /\ IsFiniteSet(S) /\ Cardinality(S) <= Cardinality(A)
            /\ IsFiniteSet(R) /\ Cardinality(R) <= Cardinality(B)
        BY <3>1, <3>2, FS_Subset
      <3>4. /\ Cardinality(S) \in Nat /\ Cardinality(A) \in Nat
            /\ Cardinality(R) \in Nat /\ Cardinality(B) \in Nat
            /\ QueryLimit \in Nat /\ Limit \in Nat
        BY <3>2, <3>3, FS_CardinalityType, CacheAssumption
      <3>5. Cardinality(A) <= QueryLimit /\ Cardinality(B) <= Limit
        BY <2>5 DEF Few
      <3>6. i \in S /\ Request(w) \subseteq parser[i].fields
        <4>1. parser[i].stored /\ parser[i].active
          BY <2>5 DEF Open, Rivaling, Serving
        <4>2. parser[i].confidence >= Threshold
          BY <1>1, <4>1 DEF IInv, ActiveIsSelectable, Stored
        <4> QED
          BY <2>5, <4>1, <4>2 DEF Open, Rivaling, Serving, Selectable, Stored, Type, Request
      <3> HIDE DEF A, B
      <3>7. Cardinality(S) <= QueryLimit /\ Cardinality(R) <= Limit
        BY <3>3, <3>4, <3>5
      <3> QED
        BY <1>3, <3>4, <3>6, <3>7, FoundAll
    <2> HIDE DEF r
    <2>6. /\ \A i \in r.known : parser[i].stored
          /\ Settled(parser, r, r.pass - 1)
          /\ Few(parser, r, r.pass) => \A i \in Parsers : Open(parser, r, r.pass, i) => i \in ToSet(q)
      BY <2>1, <2>4, <2>5 DEF SameQuest, Settled, Few, Open, Rivaling, Serving
    <2>7. MissJob(parser, Trying(r, q))
      BY <2>4, <2>6, MissTrying
    <2> QED
      BY <1>1, <1>3, <2>7 DEF MissStep, r
  <1> QED
    BY <1>2, <1>3 DEF FindParsers

LEMMA HitMiss ==
  ASSUME MissInv, NoDbFaults, NEW w \in Workers, HitParser(w)
  PROVE  MissStep(w)
  <1> DEFINE i == Head(job[w].cands)
             new == Used(i, job[w].seen[i])
  <1>1. IInv /\ Grows(parser, new)
    BY MissFacts, TableGrows
  <1>2. \/ parser' = new /\ job' = [job EXCEPT ![w] = Leaving(w, "persist")]
        \/ Raises(w, new, Leaving(w, "persist"))
    BY DEF HitParser
  <1> HIDE DEF new
  <1> QED
    BY <1>1, <1>2, LeavingFree, MissRaises DEF MissStep

\* The parser that was tried is closed; the others are still to be tried.
LEMMA DropMiss ==
  ASSUME MissInv, NoDbFaults, NEW w \in Workers, DropParser(w)
  PROVE  MissStep(w)
  <1> DEFINE cands == job[w].cands
             i == Head(cands)
             left == Tail(cands)
             new == Invalidated(i)
             r == [job[w] EXCEPT !.seen = Reloaded(w)]
  <1>1. IInv /\ job[w] \in JobType /\ MissJob(parser, job[w])
    BY MissFacts
  <1>2. job[w].pc = "try"
    BY DEF DropParser
  <1>3. /\ cands \in Seq(Parsers) /\ cands # <<>>
        /\ \A k \in 1 .. Len(cands) : Held(parser, job[w], cands[k])
    BY <1>1, <1>2 DEF IInv, GoodJob, JobType
  <1>4. left \in Seq(Parsers) /\ i \in Parsers /\ i = cands[1] /\ Len(left) = Len(cands) - 1
    BY <1>3
  <1>5. \A k \in 1 .. Len(left) : left[k] = cands[k + 1] /\ k + 1 \in 1 .. Len(cands)
    BY <1>3, <1>4
  <1>6. ASSUME NEW k \in ToSet(cands), k # i PROVE k \in ToSet(left)
    <2>1. PICK n \in 1 .. Len(cands) : cands[n] = k
      BY <1>3 DEF ToSet
    <2>2. n # 1
      BY <1>4, <1>6, <2>1
    <2> HIDE DEF cands, left, i
    <2>5. n - 1 \in 1 .. Len(left)
      BY <1>3, <1>4, <2>1, <2>2
    <2>3. left[n - 1] = cands[n]
      BY <1>3, <1>5, <2>1, <2>5
    <2> QED
      BY <1>4, <2>1, <2>3, <2>5 DEF ToSet
  <1>7. Grows(parser, new) /\ ~new[i].active
    BY <1>1, <1>4, TableGrows
  <1>8. \/ ~job[w].poisoned /\ parser' = new /\ job' = [job EXCEPT ![w] = Trying(r, left)]
        \/ Raises(w, new, Trying(job[w], left))
        \/ Raises(w, new, Leaving(w, "failing"))
    BY DEF DropParser
  <1> HIDE DEF cands, left, new
  <1>9. CASE ~job[w].poisoned /\ parser' = new /\ job' = [job EXCEPT ![w] = Trying(r, left)]
    <2>1. GoodRows(new, hosts) /\ Later(parser, new)
      BY <1>1, <1>4, InvalidatedGood DEF new
    <2>2. Reloaded(w) \in [Parsers -> 0 .. MaxConfidence]
      BY <1>1, <1>9, <2>1, ReloadedGood
    <2>3. r \in JobType /\ r.pass = job[w].pass /\ r.cands = cands /\ SameQuest(job[w], r)
      BY <1>1, <2>2 DEF JobType, SameQuest, cands
    <2> HIDE DEF r
    <2>4. /\ Settled(parser, job[w], job[w].pass - 1)
          /\ Listed(parser, job[w])
          /\ \A k \in job[w].known : parser[k].stored
      BY <1>1, <1>2, <1>9 DEF MissJob
    <2>5. /\ \A k \in r.known : new[k].stored
          /\ \A m : Few(new, r, m) => Few(parser, job[w], m)
          /\ \A m, k : Open(new, r, m, k) => Open(parser, job[w], m, k)
          /\ \A n : Settled(parser, job[w], n) => Settled(new, r, n)
      BY <1>1, <1>7, <2>3, <2>4, Onward
    <2>6. Settled(new, r, r.pass - 1)
      <3>1. Settled(new, r, job[w].pass - 1)
        BY <2>4, <2>5
      <3> QED
        BY <2>3, <3>1
    <2>7. ASSUME Few(new, r, r.pass), NEW k \in Parsers, Open(new, r, r.pass, k)
          PROVE  k \in ToSet(left)
      <3>1. Few(parser, job[w], job[w].pass) /\ Open(parser, job[w], job[w].pass, k)
        BY <2>3, <2>5, <2>7
      <3>2. k \in ToSet(cands)
        BY <2>4, <3>1 DEF Listed, cands
      <3>3. new[k].active
        BY <2>7 DEF Open
      <3> QED
        BY <1>6, <1>7, <3>2, <3>3
    <2>8. MissJob(new, Trying(r, left))
      BY <2>3, <2>5, <2>6, <2>7, MissTrying
    <2> QED
      BY <1>7, <1>9, <2>8 DEF MissStep
  <1>10. CASE Raises(w, new, Trying(job[w], left))
    <2>1. \A k \in 1 .. Len(left) : Held(parser, job[w], left[k])
      BY <1>3, <1>5
    <2>2. Trying(job[w], left) \in JobType
      BY <1>1, <1>4, <2>1, TryingGood
    <2>3. Trying(job[w], left).known = job[w].known
      BY <1>1 DEF Trying, JobType
    <2> QED
      BY <1>10, <2>2, <2>3, MissFacts, MissRaises
  <1>11. CASE Raises(w, new, Leaving(w, "failing"))
    BY <1>1, <1>11, LeavingFree, MissRaises
  <1> QED
    BY <1>8, <1>9, <1>10, <1>11

\* A handler knows the parsers that are stored when it starts.
LEMMA StartMiss ==
  ASSUME MissInv, NEW w \in Workers, NEW u \in Urls, NEW F \in SUBSET Fields, NEW m \in Modes,
         StartExtraction(w, u, F, m)
  PROVE  MissStep(w)
  <1> DEFINE c == IF F = {} THEN "extract" ELSE "find"
             s(v) == [Idle EXCEPT !.pc = c, !.url = u, !.version = v, !.fields = F,
                                  !.mode = m, !.todo = F, !.known = Stored]
  <1>1. PICK v \in 0 .. page[u] : job' = [job EXCEPT ![w] = s(v)]
    BY DEF StartExtraction
  <1>2. parser' = parser /\ Grows(parser, parser)
    BY MissFacts DEF StartExtraction
  <1>3. (c = "extract" /\ F = {}) \/ (c = "find" /\ F # {})
    OBVIOUS
  <1> HIDE DEF c
  <1>4. s(v).pc = c /\ s(v).fields = F /\ s(v).known = Stored /\ s(v).pass = 1
    BY DEF Idle
  <1> HIDE DEF s
  <1>5. Settled(parser, s(v), s(v).pass - 1)
    BY <1>4 DEF Settled
  <1>6. MissJob(parser, s(v))
    BY <1>3, <1>4, <1>5 DEF MissJob, Stored
  <1> QED
    BY <1>1, <1>2, <1>6 DEF MissStep

\* With its keywords a handler looks nothing up any more.
LEMMA ExtractingMiss ==
  ASSUME MissInv, NEW w \in Workers, Extracting(w)
  PROVE  MissStep(w)
  <1>1. IInv /\ job[w] \in JobType /\ MissJob(parser, job[w]) /\ Grows(parser, parser)
        /\ (\A i \in job[w].known : parser[i].stored)
    BY MissFacts
  <1>2. ASSUME NEW r, job' = [job EXCEPT ![w] = r], MissJob(parser, r), parser' = parser
        PROVE  MissStep(w)
    BY <1>1, <1>2 DEF MissStep
  <1>3. ASSUME ExtractWithModel(w) PROVE MissStep(w)
    <2> DEFINE r == [job[w] EXCEPT !.pc = "keywords", !.known = {}]
    <2>1. r.pc = "keywords" /\ r.known = {}
      BY <1>1 DEF JobType
    <2>2. MissJob(parser, r)
      BY <2>1, MissFree
    <2> QED
      BY <1>1, <1>2, <1>3, <2>2, LeavingFree DEF ExtractWithModel
  <1>4. ASSUME EndKeywords(w) PROVE MissStep(w)
    BY <1>1, <1>2, <1>4, LeavingFree DEF EndKeywords
  <1>5. ASSUME FinishExtraction(w) PROVE MissStep(w)
    BY <1>1, <1>2, <1>5, LeavingFree DEF FinishExtraction
  <1>6. ASSUME NEW f \in Fields, GenerateForKeyword(w, f) PROVE MissStep(w)
    <2> DEFINE r == [job[w] EXCEPT !.todo = job[w].todo \ {f}]
               s == [job[w] EXCEPT !.todo = job[w].todo \ {f}, !.found = TRUE]
    <2>1. job[w].pc = "keywords" /\ parser' = parser
      BY <1>6 DEF GenerateForKeyword
    <2>2. /\ r.pc = "keywords" /\ r.known = job[w].known
          /\ s.pc = "keywords" /\ s.known = job[w].known
      BY <1>1, <2>1 DEF JobType
    <2>3. \/ job' = [job EXCEPT ![w] = r] \/ job' = [job EXCEPT ![w] = s]
          \/ job' = [job EXCEPT ![w] = Leaving(w, "failing")]
      BY <1>6 DEF GenerateForKeyword
    <2> HIDE DEF r, s
    <2>4. MissJob(parser, r) /\ MissJob(parser, s)
      BY <1>1, <2>2 DEF MissJob
    <2> QED
      BY <1>1, <1>2, <2>1, <2>3, <2>4, LeavingFree
  <1> QED
    BY <1>3, <1>4, <1>5, <1>6 DEF Extracting

\* The thread stores parsers that nobody knew, or poisons the session.
LEMMA StoringMiss ==
  ASSUME MissInv, NoDbFaults, NEW w \in Workers, Storing(w)
  PROVE  MissStep(w)
  <1>1. IInv /\ job[w] \in JobType /\ MissJob(parser, job[w]) /\ Grows(parser, parser)
    BY MissFacts
  <1>2. job \in [Workers -> JobType] /\ parser \in [Parsers -> RowType]
    BY <1>1 DEF IInv, TypeOK
  <1>3. ASSUME job' = job, Grows(parser, parser') PROVE MissStep(w)
    <2>1. job' = [job EXCEPT ![w] = job[w]]
      BY <1>2, <1>3
    <2>2. MissJob(parser', job[w])
      BY <1>1, <1>3, MissKeeps
    <2> QED
      BY <1>3, <2>1, <2>2 DEF MissStep
  <1>4. ASSUME NEW p \in BOOLEAN, job[w].poisoned => p, GiveUp(w, p), parser' = parser
        PROVE  MissStep(w)
    <2> DEFINE r == [job[w] EXCEPT !.poisoned = p]
    <2>1. job' = [job EXCEPT ![w] = r]
      BY <1>4 DEF GiveUp
    <2>2. /\ r.poisoned = p /\ r.pc = job[w].pc /\ r.pass = job[w].pass /\ r.cands = job[w].cands
          /\ SameQuest(job[w], r)
      BY <1>1 DEF JobType, SameQuest
    <2> HIDE DEF r
    <2>3. /\ \A n : Settled(parser, job[w], n) => Settled(parser, r, n)
          /\ Listed(parser, job[w]) => Listed(parser, r)
      BY <2>2 DEF SameQuest, Settled, Listed, Few, Open, Rivaling, Serving
    <2>4. MissJob(parser, r)
      BY <1>1, <1>4, <2>2, <2>3 DEF MissJob, SameQuest
    <2> QED
      BY <1>1, <1>4, <2>1, <2>4 DEF MissStep
  <1>5. ASSUME StoreFails(w), parser' = parser PROVE MissStep(w)
    BY <1>4, <1>5 DEF StoreFails
  <1>6. ASSUME InsertParser(w) PROVE MissStep(w)
    <2>1. ASSUME NEW i \in Parsers \ Stored, NEW new, parser' = [parser EXCEPT ![i] = new],
                 job' = job
          PROVE  MissStep(w)
      <3>1. Grows(parser, parser')
        BY <1>2, <2>1 DEF Grows, Stored
      <3> QED
        BY <1>3, <2>1, <3>1
    <2>2. ASSUME ~job[w].poisoned, GiveUp(w, job[w].pc # "idle"), parser' = parser
          PROVE  MissStep(w)
      <3> DEFINE p == job[w].pc # "idle"
      <3>1. p \in BOOLEAN /\ GiveUp(w, p)
        BY <2>2
      <3> HIDE DEF p
      <3> QED
        BY <1>4, <2>2, <3>1
    <2>3. ASSUME ~job[w].poisoned PROVE ~StoreFails(w)
      BY <2>3 DEF StoreFails, NoDbFaults
    <2> QED
      BY <1>5, <1>6, <2>1, <2>2, <2>3 DEF InsertParser, Inserted
  <1>7. ASSUME ReadHost(w) PROVE MissStep(w)
    BY <1>1, <1>3, <1>5, <1>7 DEF ReadHost
  <1>8. ASSUME GenerateForSchema(w) PROVE MissStep(w)
    BY <1>1, <1>3, <1>8 DEF GenerateForSchema
  <1> QED
    BY <1>6, <1>7, <1>8 DEF Storing

-----------------------------------------------------------------------------
(***************************************************************************)
(* The theorems                                                            *)
(***************************************************************************)
LEMMA MissInit == Init => MissInv
  <1> SUFFICES ASSUME Init, NEW w \in Workers PROVE MissJob(parser, job[w])
    BY InitGood DEF MissInv
  <1>1. job[w] = Idle
    BY DEF Init
  <1>2. Idle.known = {} /\ Idle.pc = "idle"
    BY DEF Idle
  <1> QED
    BY <1>1, <1>2, MissFree

LEMMA MissNext ==
  ASSUME NoDbFaults
  PROVE  MissInv /\ [Next]_vars => MissInv'
  <1> SUFFICES ASSUME MissInv, [Next]_vars PROVE MissInv'
    OBVIOUS
  <1>1. IInv' /\ job \in [Workers -> JobType]
    BY StepGood DEF MissInv, IInv, TypeOK
  <1>2. ASSUME NEW w \in Workers, MissStep(w) PROVE MissInv'
    <2>1. PICK r : job' = [job EXCEPT ![w] = r] /\ MissJob(parser', r)
      BY <1>2 DEF MissStep
    <2>2. ASSUME NEW v \in Workers PROVE MissJob(parser', job'[v])
      <3>1. CASE v = w
        BY <1>1, <2>1, <3>1
      <3>2. CASE v # w
        <4>1. job'[v] = job[v]
          BY <1>1, <2>1, <3>2
        <4>2. Grows(parser, parser')
          BY <1>2 DEF MissStep
        <4> QED
          BY <4>1, <4>2, MissFacts, MissKeeps
      <3> QED
        BY <3>1, <3>2
    <2> QED
      BY <1>1, <2>2 DEF MissInv
  <1>3. CASE UNCHANGED <<parser, job>>
    BY <1>1, <1>3 DEF MissInv
  <1>4. ASSUME NEW w \in Workers, LookingUp(w) PROVE MissInv'
    BY <1>2, <1>4, FindFieldMiss, ApplyFieldMiss, FindMiss, HitMiss, DropMiss DEF LookingUp
  <1>5. ASSUME NEW w \in Workers, NEW u \in Urls, NEW r \in Requests,
               StartExtraction(w, u, r[1], r[2])
        PROVE  MissInv'
    <2>1. r[1] \in SUBSET Fields /\ r[2] \in Modes
      BY CacheAssumption
    <2> QED
      BY <1>2, <1>5, <2>1, StartMiss
  <1>6. ASSUME NEW w \in Workers, Extracting(w) \/ Storing(w) PROVE MissInv'
    BY <1>2, <1>6, ExtractingMiss, StoringMiss
  <1> QED
    BY <1>3, <1>4, <1>5, <1>6 DEF Next, ChangePage, vars

\* When no statement fails by itself, what handlers have settled stays so,
\* whatever parsers other handlers use, invalidate and store meanwhile.
THEOREM MissInvariant == NoDbFaults => (Spec => []MissInv)
  <1> SUFFICES ASSUME NoDbFaults PROVE Spec => []MissInv
    OBVIOUS
  <1>1. MissInv /\ [Next]_vars => MissInv'
    BY MissNext
  <1> QED
    BY MissInit, <1>1, PTL DEF Spec

\* When check_cached_parser finds nothing, it has invalidated every parser for
\* the whole request that it knew of, or one of the two limits of the lookup
\* left it out.
THEOREM MissOverlooksNothing == NoDbFaults => (Spec => []MissLeavesNone)
  <1> SUFFICES ASSUME NoDbFaults PROVE Spec => []MissLeavesNone
    OBVIOUS
  <1>1. MissInv => MissLeavesNone
    <2> SUFFICES ASSUME MissInv, NEW w \in Workers, job[w].pc = "extract", Request(w) # {},
                        ~job[w].poisoned, NEW i \in job[w].known,
                        Covers(i, job[w].url, Request(w)), parser[i].type \in ToSet(Passes),
                        parser[i].active,
                        ~(Cardinality(Rivals(i)) > QueryLimit),
                        ~(Cardinality({j \in Rivals(i) : Request(w) \subseteq parser[j].fields}) > Limit)
                 PROVE  FALSE
      BY DEF MissLeavesNone
    <2> DEFINE C == {j \in Rivals(i) : Request(w) \subseteq parser[j].fields}
    <2>1. Settled(parser, job[w], Len(Passes)) /\ i \in Parsers
      BY DEF MissInv, MissJob, Request, IInv, TypeOK, JobType
    <2>2. PICK n \in 1 .. Len(Passes) : parser[i].type = Passes[n]
      BY DEF ToSet, Passes
    <2>3. /\ Rivals(i) = Rivaling(parser, job[w], n)
          /\ C = Serving(parser, job[w], n)
      BY <2>2 DEF Rivals, Rivaling, Serving, Stored, Covers, Request
    <2>4. IsFiniteSet(Rivals(i)) /\ IsFiniteSet(C)
      BY CacheAssumption, FS_Subset DEF Rivals, Stored
    <2>5. Cardinality(Rivals(i)) \in Nat /\ Cardinality(C) \in Nat
      BY <2>4, FS_CardinalityType
    <2>6. Cardinality(Rivals(i)) <= QueryLimit /\ Cardinality(C) <= Limit
      BY <2>5, CacheAssumption
    <2>7. Few(parser, job[w], n)
      BY <2>3, <2>6 DEF Few
    <2>8. Open(parser, job[w], n, i)
      BY <2>1, <2>2 DEF Open, Rivaling, Serving, Covers, Request
    <2>9. n <= Len(Passes)
      OBVIOUS
    <2> QED
      BY <2>1, <2>7, <2>8, <2>9 DEF Settled
  <1> QED
    BY <1>1, MissInvariant, PTL
=============================================================================
