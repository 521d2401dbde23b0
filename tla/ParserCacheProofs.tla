-------------------------- MODULE ParserCacheProofs --------------------------
(***************************************************************************)
(* Theorems about ParserCache, for all pages, workers, parsers and faults: *)
(* its types, that an active parser can be selected, and that an           *)
(* invalidated one stays so.                                               *)
(*                                                                         *)
(* ActiveIsSelectable is not inductive: a use writes a confidence that was *)
(* computed from the one its handler loaded.  What is needed of it is      *)
(* GoodJob: every parser that a handler still has to use is stored, and as *)
(* long as it is active the loaded confidence suffices.  No step makes a   *)
(* parser active again (Later), so that a handler's knowledge keeps.       *)
(***************************************************************************)
EXTENDS ParserCache, FiniteSetTheorems, TLAPS

\* The handler's record r may use parser i of the table p.
Held(p, r, i) == i \in Parsers /\ p[i].stored /\ (p[i].active => r.seen[i] >= Threshold)

GoodJob(p, r) ==
  /\ r.pc = "find" => \A f \in r.fields \ r.todo : Held(p, r, r.chosen[f])
  /\ r.pc = "apply" => \A f \in r.todo : Held(p, r, r.chosen[f])
  /\ r.pc = "try" => r.cands # <<>> /\ \A k \in 1 .. Len(r.cands) : Held(p, r, r.cands[k])

\* ActiveIsSelectable of a table p and hosts h, with the table's type.
GoodRows(p, h) ==
  /\ p \in [Parsers -> RowType]
  /\ \A i \in Parsers : p[i].stored =>
       HostOf[p[i].url] \in h /\ (p[i].active => p[i].confidence >= Threshold)

\* The table q may follow the table p.
Later(p, q) ==
  \A i \in Parsers : p[i].stored => q[i].stored /\ (q[i].active => p[i].active)

IInv ==
  /\ TypeOK
  /\ ActiveIsSelectable
  /\ \A w \in Workers : GoodJob(parser, job[w])

-----------------------------------------------------------------------------
(***************************************************************************)
(* Records                                                                 *)
(***************************************************************************)
\* What a handler knows of its parsers outlives the changes of the others.
LEMMA GoodJobKeeps ==
  ASSUME NEW p, NEW q, NEW r \in JobType, Later(p, q), GoodJob(p, r)
  PROVE  GoodJob(q, r)
  BY DEF Later, GoodJob, Held

\* A record that may use nothing is good.
LEMMA NothingHeld ==
  ASSUME NEW p, NEW r, r.pc \notin {"find", "apply", "try"}
  PROVE  GoodJob(p, r)
  BY DEF GoodJob

\* Idle has its type.
LEMMA IdleType == Idle \in JobType /\ Idle.pc = "idle" /\ ~Idle.poisoned
  <1>1. AnyUrl \in Urls BY CacheAssumption DEF AnyUrl
  <1>2. 0 \in Versions /\ 0 \in 0 .. MaxConfidence BY CacheAssumption DEF Versions
  <1>3. [f \in Fields |-> NoParser] \in [Fields -> Parsers \cup {NoParser}]
        /\ [i \in Parsers |-> 0] \in [Parsers -> 0 .. MaxConfidence]
    BY <1>2
  <1>4. 1 \in 1 .. Len(Passes) BY DEF Passes
  <1> QED BY <1>1, <1>2, <1>3, <1>4 DEF Idle, JobType, Modes

\* NoDraft and NoRow have their types.
LEMMA NoneType == NoDraft \in DraftType /\ NoRow \in RowType
  <1>1. AnyUrl \in Urls BY CacheAssumption DEF AnyUrl
  <1>2. 0 \in Versions /\ 0 \in 0 .. MaxConfidence BY CacheAssumption DEF Versions
  <1> QED BY <1>1, <1>2 DEF NoDraft, NoRow, DraftType, RowType, Modes, SourceTypes

\* A handler that leaves holds nothing.
LEMMA LeavingGood ==
  ASSUME TypeOK, NEW w \in Workers, NEW pc \in {"persist", "nodata", "failing"}, NEW p
  PROVE  Leaving(w, pc) \in JobType /\ Leaving(w, pc).pc = pc /\ GoodJob(p, Leaving(w, pc))
  <1>1. job[w].poisoned \in BOOLEAN BY DEF TypeOK, JobType
  <1>2. Leaving(w, pc) \in JobType BY <1>1, IdleType DEF Leaving, JobType
  <1>3. Leaving(w, pc).pc = pc BY IdleType DEF Leaving, JobType
  <1> QED BY <1>2, <1>3, NothingHeld

\* Turning to the whole request, a handler holds nothing.
LEMMA WholeGood ==
  ASSUME TypeOK, NEW w \in Workers, NEW p
  PROVE  Whole(w) \in JobType /\ Whole(w).pc = "legacy" /\ GoodJob(p, Whole(w))
  <1>1. job[w] \in JobType BY DEF TypeOK
  <1>2. Idle.chosen \in [Fields -> Parsers \cup {NoParser}] /\ Idle.seen \in [Parsers -> 0 .. MaxConfidence]
    BY IdleType DEF JobType
  <1>3. Whole(w) \in JobType BY <1>1, <1>2 DEF Whole, JobType
  <1>4. Whole(w).pc = "legacy" BY <1>1 DEF Whole, JobType
  <1> QED BY <1>3, <1>4, NothingHeld

\* Trying the parsers in q, or going on without.
LEMMA TryingGood ==
  ASSUME NEW r \in JobType, NEW q \in Seq(Parsers), NEW p,
         \A k \in 1 .. Len(q) : Held(p, r, q[k])
  PROVE  /\ Trying(r, q) \in JobType
         /\ Trying(r, q).pc # "idle"
         /\ GoodJob(p, Trying(r, q))
  <1>1. CASE q # <<>>
    <2>1. Trying(r, q) = [r EXCEPT !.pc = "try", !.cands = q] BY <1>1 DEF Trying
    <2>2. [r EXCEPT !.pc = "try", !.cands = q] \in JobType BY DEF JobType
    <2>3. /\ Trying(r, q).pc = "try" /\ Trying(r, q).cands = q
          /\ Trying(r, q).seen = r.seen
      BY <2>1 DEF JobType
    <2> QED BY <1>1, <2>1, <2>2, <2>3 DEF GoodJob, Held
  <1>2. CASE q = <<>>
    <2> DEFINE c == IF r.pass < Len(Passes) THEN "find" ELSE "extract"
               n == IF r.pass < Len(Passes) THEN r.pass + 1 ELSE r.pass
               s == [r EXCEPT !.cands = <<>>, !.seen = Idle.seen, !.todo = r.fields,
                              !.pc = c, !.pass = n]
    <2>1. Trying(r, q) = s BY <1>2 DEF Trying
    <2>2. Idle.seen \in [Parsers -> 0 .. MaxConfidence] BY IdleType DEF JobType
    <2>3. n \in 1 .. Len(Passes) BY DEF JobType, Passes
    <2>4. c \in {"find", "extract"} /\ <<>> \in Seq(Parsers) /\ r.fields \in SUBSET Fields
      BY DEF JobType
    <2> HIDE DEF c, n
    <2>5. s \in JobType BY <2>2, <2>3, <2>4 DEF JobType
    <2>6. s.pc = c /\ s.todo = r.fields /\ s.fields = r.fields BY DEF JobType
    <2> QED BY <2>1, <2>4, <2>5, <2>6 DEF GoodJob
  <1> QED BY <1>1, <1>2

-----------------------------------------------------------------------------
(***************************************************************************)
(* The table                                                               *)
(***************************************************************************)
\* A use writes a confidence above the threshold, if the loaded one was.
LEMMA UsedGood ==
  ASSUME IInv, NEW i \in Parsers, NEW c \in 0 .. MaxConfidence,
         parser[i].stored, parser[i].active => c >= Threshold
  PROVE  GoodRows(Used(i, c), hosts) /\ Later(parser, Used(i, c))
  <1> DEFINE d == IF c < MaxConfidence THEN c + 1 ELSE MaxConfidence
             new == [parser EXCEPT ![i] = [parser[i] EXCEPT !.confidence = d]]
  <1>1. parser \in [Parsers -> RowType] BY DEF IInv, TypeOK
  <1>2. d \in 0 .. MaxConfidence BY CacheAssumption
  <1>3. parser[i].active => d >= Threshold BY CacheAssumption
  <1>4. Used(i, c) = new BY <1>1 DEF Used
  <1> HIDE DEF d
  <1>5. [parser[i] EXCEPT !.confidence = d] \in RowType BY <1>1, <1>2 DEF RowType
  <1>6. new \in [Parsers -> RowType] BY <1>1, <1>5
  <1>7. ASSUME NEW k \in Parsers
        PROVE  /\ new[k].stored = parser[k].stored /\ new[k].url = parser[k].url
               /\ new[k].active = parser[k].active
               /\ new[k].confidence = IF k = i THEN d ELSE parser[k].confidence
    BY <1>1 DEF RowType
  <1>8. GoodRows(new, hosts)
    BY <1>3, <1>6, <1>7 DEF GoodRows, IInv, ActiveIsSelectable, Stored
  <1>9. Later(parser, new) BY <1>7 DEF Later
  <1> QED BY <1>4, <1>8, <1>9

\* So does an invalidation, which leaves nothing active.
LEMMA InvalidatedGood ==
  ASSUME IInv, NEW i \in Parsers
  PROVE  GoodRows(Invalidated(i), hosts) /\ Later(parser, Invalidated(i))
  <1> DEFINE new == [parser EXCEPT ![i] = [parser[i] EXCEPT !.active = FALSE, !.confidence = 0]]
  <1>1. parser \in [Parsers -> RowType] BY DEF IInv, TypeOK
  <1>2. Invalidated(i) = new BY <1>1 DEF Invalidated
  <1>3. 0 \in 0 .. MaxConfidence BY CacheAssumption
  <1>4. [parser[i] EXCEPT !.active = FALSE, !.confidence = 0] \in RowType BY <1>1, <1>3 DEF RowType
  <1>5. new \in [Parsers -> RowType] BY <1>1, <1>4
  <1>6. ASSUME NEW k \in Parsers
        PROVE  /\ new[k].stored = parser[k].stored /\ new[k].url = parser[k].url
               /\ new[k].active => parser[k].active /\ new[k].confidence = parser[k].confidence
    BY <1>1 DEF RowType
  <1>7. GoodRows(new, hosts)
    BY <1>5, <1>6 DEF GoodRows, IInv, ActiveIsSelectable, Stored
  <1>8. Later(parser, new) BY <1>6 DEF Later
  <1> QED BY <1>2, <1>7, <1>8

\* The table as it is.
LEMMA SameGood == ASSUME IInv PROVE GoodRows(parser, hosts) /\ Later(parser, parser)
  BY DEF IInv, TypeOK, GoodRows, ActiveIsSelectable, Stored, Later

\* A good record that was good before the statement and would be after it is
\* good when the statement raises.
LEMMA RaisesGood ==
  ASSUME IInv, NEW w \in Workers, NEW new, NEW r \in JobType, r.pc # "idle",
         GoodRows(new, hosts), Later(parser, new), GoodJob(parser, r),
         Raises(w, new, r)
  PROVE  /\ GoodRows(parser', hosts) /\ Later(parser, parser')
         /\ \E s \in JobType : /\ job' = [job EXCEPT ![w] = s]
                               /\ s.pc # "idle" /\ GoodJob(parser', s)
  <1>1. GoodRows(parser', hosts) /\ Later(parser, parser') BY SameGood DEF Raises
  <1>2. PICK b \in BOOLEAN : job' = [job EXCEPT ![w] = [r EXCEPT !.poisoned = b]] BY DEF Raises
  <1> DEFINE s == [r EXCEPT !.poisoned = b]
  <1>3. s \in JobType BY DEF JobType
  <1>4. /\ s.pc = r.pc /\ s.fields = r.fields /\ s.todo = r.todo /\ s.chosen = r.chosen
        /\ s.cands = r.cands /\ s.seen = r.seen
    BY DEF JobType
  <1> HIDE DEF s
  <1>5. GoodJob(parser, s) BY <1>4 DEF GoodJob, Held
  <1>6. GoodJob(parser', s) BY <1>1, <1>3, <1>5, GoodJobKeeps
  <1> QED BY <1>1, <1>2, <1>3, <1>4, <1>6 DEF s

\* A step of one handler on the table keeps the invariant.
LEMMA HandlerStep ==
  ASSUME IInv, NEW w \in Workers, NEW r \in JobType, job' = [job EXCEPT ![w] = r],
         r.pc # "idle", GoodJob(parser', r),
         GoodRows(parser', hosts), Later(parser, parser'), UNCHANGED <<page, hosts, draft>>
  PROVE  IInv' /\ Later(parser, parser')
  <1>1. TypeOK'
    BY DEF IInv, TypeOK, GoodRows
  <1>2. ActiveIsSelectable' BY DEF GoodRows, ActiveIsSelectable, Stored
  <1>3. ASSUME NEW v \in Workers PROVE GoodJob(parser, job[v])' 
    <2>1. CASE v = w BY <2>1 DEF IInv, TypeOK
    <2>2. CASE v # w
      <3>1. job'[v] = job[v] /\ job[v] \in JobType BY <2>2 DEF IInv, TypeOK
      <3>2. GoodJob(parser, job[v]) BY DEF IInv
      <3> QED BY <3>1, <3>2, GoodJobKeeps
    <2> QED BY <2>1, <2>2
  <1> QED BY <1>1, <1>2, <1>3 DEF IInv

\* A step of a handler that changes no table.
LEMMA QuietHandlerStep ==
  ASSUME IInv, NEW w \in Workers, NEW r \in JobType, job' = [job EXCEPT ![w] = r],
         r.pc # "idle", GoodJob(parser, r), UNCHANGED <<page, hosts, parser, draft>>
  PROVE  IInv' /\ Later(parser, parser')
  BY SameGood, HandlerStep

\* A statement of a handler that raises.
LEMMA RaisingStep ==
  ASSUME IInv, NEW w \in Workers, NEW new, NEW r \in JobType, r.pc # "idle",
         GoodRows(new, hosts), Later(parser, new), GoodJob(parser, r),
         Raises(w, new, r), UNCHANGED <<page, hosts, draft>>
  PROVE  IInv' /\ Later(parser, parser')
  BY RaisesGood, HandlerStep

-----------------------------------------------------------------------------
(***************************************************************************)
(* The lookup                                                              *)
(***************************************************************************)
\* What a lookup returns is stored, active and above the threshold.
LEMMA FoundSelectable ==
  ASSUME IInv, NEW u, NEW F, NEW type, NEW n \in Nat, NEW q \in Found(u, F, type, n)
  PROVE  /\ q \in Seq(Parsers)
         /\ \A k \in 1 .. Len(q) : /\ q[k] \in Parsers /\ parser[q[k]].stored
                                   /\ parser[q[k]].confidence >= Threshold
  <1>0. PICK T \in Queried(u, type, QueryLimit) : q \in Ranked(T, F, n)
    BY DEF Found
  <1> DEFINE S == {i \in T : F \subseteq parser[i].fields}
  <1>1. S \subseteq Parsers
        /\ \A i \in S : parser[i].stored /\ parser[i].confidence >= Threshold
    BY <1>0 DEF Queried, Selectable, Stored
  <1>2. Cardinality(S) \in Nat
    BY <1>1, CacheAssumption, FS_Subset, FS_CardinalityType
  <1>3. PICK s \in SetToSeqs(S) :
          q = SubSeq(s, 1, IF Len(s) < n THEN Len(s) ELSE n)
    BY <1>0 DEF Ranked
  <1> HIDE DEF S
  <1>4. s \in Seq(S) /\ Len(s) \in Nat
    <2>1. s \in [1 .. Cardinality(S) -> S] BY <1>3 DEF SetToSeqs
    <2> QED BY <1>2, <2>1
  <1> DEFINE m == IF Len(s) < n THEN Len(s) ELSE n
  <1>5. m \in 0 .. Len(s) BY <1>4
  <1> HIDE DEF m
  <1>6. q = SubSeq(s, 1, m) BY <1>3 DEF m
  <1>7. q \in Seq(S) /\ \A k \in 1 .. Len(q) : q[k] \in S BY <1>4, <1>5, <1>6
  <1> QED BY <1>1, <1>7

LEMMA FindFieldParserGood ==
  ASSUME IInv, NEW w \in Workers, NEW f \in Fields, FindFieldParser(w, f)
  PROVE  IInv' /\ Later(parser, parser')
  <1> DEFINE last == job[w].todo = {f}
  <1>0. job \in [Workers -> JobType] /\ job[w] \in JobType /\ parser \in [Parsers -> RowType]
    BY DEF IInv, TypeOK
  <1>1. job[w].pc = "find" /\ f \in job[w].todo /\ UNCHANGED <<page, hosts, draft>>
    BY DEF FindFieldParser
  <1>2. CASE Raises(w, parser, Leaving(w, "failing"))
    BY <1>1, <1>2, LeavingGood, SameGood, RaisingStep DEF IInv
  <1>3. ASSUME NEW q \in Found(job[w].url, {f}, Type(w), 1), q = <<>>, parser' = parser,
               job' = [job EXCEPT ![w] = Whole(w)]
        PROVE  IInv' /\ Later(parser, parser')
    BY <1>1, <1>3, WholeGood, QuietHandlerStep DEF IInv
  <1>4. ASSUME NEW q \in Found(job[w].url, {f}, Type(w), 1), q # <<>>, parser' = parser,
               job' = [job EXCEPT ![w] = Chosen(w, f, q[1])]
        PROVE  IInv' /\ Later(parser, parser')
    <2> DEFINE i == q[1]
               c == Chosen(w, f, i)
    <2>1. i \in Parsers /\ parser[i].stored /\ parser[i].confidence >= Threshold
      BY <1>4, FoundSelectable
    <2>2. parser[i].confidence \in 0 .. MaxConfidence BY <1>0, <2>1 DEF RowType
    <2> HIDE DEF i
    <2>3. [job[w].chosen EXCEPT ![f] = i] \in [Fields -> Parsers \cup {NoParser}]
          /\ [job[w].seen EXCEPT ![i] = parser[i].confidence] \in [Parsers -> 0 .. MaxConfidence]
          /\ Request(w) \in SUBSET Fields /\ job[w].todo \ {f} \in SUBSET Fields
      BY <1>0, <2>1, <2>2 DEF JobType, Request
    <2>4. c \in JobType BY <1>0, <2>3 DEF JobType, Chosen
    <2>5. /\ c.pc = (IF last THEN "apply" ELSE "find")
          /\ c.todo = (IF last THEN Request(w) ELSE job[w].todo \ {f})
          /\ c.fields = job[w].fields
          /\ c.chosen = [job[w].chosen EXCEPT ![f] = i]
          /\ c.seen = [job[w].seen EXCEPT ![i] = parser[i].confidence]
      BY <1>0 DEF JobType, Chosen
    <2>6. ASSUME NEW g \in Fields,
                 g = f \/ Held(parser, job[w], job[w].chosen[g])
          PROVE  Held(parser, c, c.chosen[g])
      <3>1. CASE g = f
        BY <1>0, <2>1, <2>2, <2>5, <3>1 DEF Held, JobType
      <3>2. CASE g # f
        <4>1. Held(parser, job[w], job[w].chosen[g]) BY <2>6, <3>2
        <4>2. c.chosen[g] = job[w].chosen[g] BY <1>0, <2>5, <3>2 DEF JobType
        <4> DEFINE k == job[w].chosen[g]
        <4>3. c.seen[k] = IF k = i THEN parser[i].confidence ELSE job[w].seen[k]
          BY <1>0, <2>5, <4>1 DEF JobType, Held
        <4> QED BY <2>1, <4>1, <4>2, <4>3 DEF Held
      <3> QED BY <3>1, <3>2
    <2>7. \A g \in job[w].fields \ job[w].todo : Held(parser, job[w], job[w].chosen[g])
      BY <1>1 DEF IInv, GoodJob
    <2>8. c.pc \in {"find", "apply"} BY <2>5
    <2>9. c.pc = "find" => \A g \in c.fields \ c.todo : Held(parser, c, c.chosen[g])
      BY <1>0, <2>5, <2>6, <2>7 DEF JobType
    <2>10. c.pc = "apply" => \A g \in c.todo : Held(parser, c, c.chosen[g])
      BY <1>0, <2>5, <2>6, <2>7 DEF JobType, Request
    <2>11. GoodJob(parser, c) BY <2>8, <2>9, <2>10 DEF GoodJob
    <2>12. c.pc # "idle" BY <2>8
    <2> QED BY <1>1, <1>4, <2>4, <2>11, <2>12, QuietHandlerStep DEF i
  <1>5. CASE \E q \in Found(job[w].url, {f}, Type(w), 1) :
               /\ parser' = parser
               /\ job' = [job EXCEPT ![w] = IF q = <<>> THEN Whole(w) ELSE Chosen(w, f, q[1])]
    BY <1>3, <1>4, <1>5
  <1>6. \/ \E q \in Found(job[w].url, {f}, Type(w), 1) :
             /\ parser' = parser
             /\ job' = [job EXCEPT ![w] = IF q = <<>> THEN Whole(w) ELSE Chosen(w, f, q[1])]
        \/ Raises(w, parser, Leaving(w, "failing"))
    BY DEF FindFieldParser
  <1> QED BY <1>2, <1>5, <1>6

\* Reloading after a step keeps what the handler may use.
LEMMA ReloadedGood ==
  ASSUME IInv, NEW w \in Workers, GoodRows(parser', hosts), Later(parser, parser')
  PROVE  /\ Reloaded(w) \in [Parsers -> 0 .. MaxConfidence]
         /\ \A i : Held(parser, job[w], i) =>
              /\ i \in Parsers /\ parser'[i].stored
              /\ parser'[i].active => Reloaded(w)[i] >= Threshold
  <1>1. ASSUME NEW i \in Parsers
        PROVE  parser'[i].confidence \in 0 .. MaxConfidence /\ 0 \in 0 .. MaxConfidence
    BY CacheAssumption DEF GoodRows, RowType
  <1>2. Reloaded(w) \in [Parsers -> 0 .. MaxConfidence] BY <1>1 DEF Reloaded
  <1>3. ASSUME NEW i, Held(parser, job[w], i)
        PROVE  /\ i \in Parsers /\ parser'[i].stored
               /\ parser'[i].active => Reloaded(w)[i] >= Threshold
    <2>1. i \in Parsers /\ parser[i].stored /\ (parser[i].active => job[w].seen[i] >= Threshold)
      BY <1>3 DEF Held
    <2>2. parser'[i].stored /\ (parser'[i].active => parser[i].active) BY <2>1 DEF Later
    <2>3. job[w].seen[i] \in Nat BY <2>1 DEF IInv, TypeOK, JobType
    <2>4. Threshold \in Nat \ {0} BY CacheAssumption
    <2>5. parser'[i].active => parser'[i].confidence >= Threshold BY <2>1, <2>2 DEF GoodRows
    <2>6. Reloaded(w)[i] = IF job[w].seen[i] > 0 THEN parser'[i].confidence ELSE 0
      BY <2>1 DEF Reloaded
    <2>7. ASSUME parser'[i].active PROVE Reloaded(w)[i] >= Threshold
      BY <2>1, <2>2, <2>3, <2>4, <2>5, <2>6, <2>7
    <2> QED BY <2>1, <2>2, <2>7
  <1> QED BY <1>2, <1>3

LEMMA ApplyFieldParserGood ==
  ASSUME IInv, NEW w \in Workers, NEW f \in Fields, ApplyFieldParser(w, f)
  PROVE  IInv' /\ Later(parser, parser')
  <1> DEFINE i == job[w].chosen[f]
             new == Used(i, job[w].seen[i])
             missed == job[w].missed \/ ~Matches(w, i)
             r == [job[w] EXCEPT !.todo = job[w].todo \ {f}, !.missed = missed,
                                 !.seen = Reloaded(w)]
  <1>0. job \in [Workers -> JobType] /\ job[w] \in JobType BY DEF IInv, TypeOK
  <1>1. job[w].pc = "apply" /\ f \in job[w].todo /\ UNCHANGED <<page, hosts, draft>>
    BY DEF ApplyFieldParser
  <1>2. \A g \in job[w].todo : Held(parser, job[w], job[w].chosen[g])
    BY <1>1 DEF IInv, GoodJob
  <1>3. Held(parser, job[w], i) BY <1>1, <1>2
  <1>4. job[w].seen[i] \in 0 .. MaxConfidence BY <1>0, <1>3 DEF JobType, Held
  <1>5. GoodRows(new, hosts) /\ Later(parser, new) BY <1>3, <1>4, UsedGood DEF Held
  <1>6. CASE Raises(w, new, Leaving(w, "failing"))
    <2> HIDE DEF new
    <2> QED BY <1>1, <1>5, <1>6, LeavingGood, RaisingStep DEF IInv
  <1>7. ASSUME parser' = new, job[w].todo # {f}, job' = [job EXCEPT ![w] = r]
        PROVE  IInv' /\ Later(parser, parser')
    <2> missed \in BOOLEAN BY <1>0 DEF JobType, Matches
    <2> HIDE DEF new, missed
    <2>1. Reloaded(w) \in [Parsers -> 0 .. MaxConfidence]
      BY <1>5, <1>7, ReloadedGood
    <2>2. r \in JobType BY <1>0, <2>1 DEF JobType
    <2>3. /\ r.pc = "apply" /\ r.todo = job[w].todo \ {f}
          /\ r.chosen = job[w].chosen /\ r.seen = Reloaded(w)
      BY <1>0, <1>1 DEF JobType
    <2> HIDE DEF r
    <2>4. \A g \in r.todo : Held(parser', r, r.chosen[g])
      BY <1>2, <1>5, <1>7, <2>3, ReloadedGood DEF Held
    <2>5. GoodJob(parser', r) BY <2>3, <2>4 DEF GoodJob
    <2> QED BY <1>1, <1>5, <1>7, <2>2, <2>3, <2>5, HandlerStep
  <1>8. ASSUME NEW s \in {Whole(w), Leaving(w, "persist")}, parser' = new,
               job' = [job EXCEPT ![w] = s]
        PROVE  IInv' /\ Later(parser, parser')
    <2> HIDE DEF new
    <2>1. s \in JobType /\ s.pc # "idle" /\ GoodJob(parser', s)
      BY WholeGood, LeavingGood DEF IInv
    <2> QED BY <1>1, <1>5, <1>8, <2>1, HandlerStep
  <1>9. \/ Raises(w, new, Leaving(w, "failing"))
        \/ /\ parser' = new
           /\ job' = [job EXCEPT ![w] =
                IF job[w].todo # {f} THEN r
                ELSE IF missed THEN Whole(w) ELSE Leaving(w, "persist")]
    BY DEF ApplyFieldParser
  <1> HIDE DEF new, missed, r
  <1> QED BY <1>6, <1>7, <1>8, <1>9

LEMMA FindParsersGood ==
  ASSUME IInv, NEW w \in Workers, FindParsers(w)
  PROVE  IInv' /\ Later(parser, parser')
  <1>0. job \in [Workers -> JobType] /\ job[w] \in JobType /\ parser \in [Parsers -> RowType]
    BY DEF IInv, TypeOK
  <1>1. UNCHANGED <<page, hosts, draft>> BY DEF FindParsers
  <1>2. CASE Raises(w, parser, Leaving(w, "failing"))
    BY <1>1, <1>2, LeavingGood, SameGood, RaisingStep DEF IInv
  <1>3. ASSUME NEW q \in Found(job[w].url, Request(w), Type(w), Limit), parser' = parser,
               NEW seen,
               seen = [i \in Parsers |-> IF i \in ToSet(q) THEN parser[i].confidence ELSE 0],
               job' = [job EXCEPT ![w] = Trying([job[w] EXCEPT !.seen = seen], q)]
        PROVE  IInv' /\ Later(parser, parser')
    <2> DEFINE r == [job[w] EXCEPT !.seen = seen]
    <2>1. ASSUME NEW i \in Parsers
          PROVE  parser[i].confidence \in 0 .. MaxConfidence /\ 0 \in 0 .. MaxConfidence
      BY <1>0, CacheAssumption DEF RowType
    <2>2. seen \in [Parsers -> 0 .. MaxConfidence] BY <1>3, <2>1
    <2>3. r \in JobType /\ r.seen = seen BY <1>0, <2>2 DEF JobType
    <2>4. Limit \in Nat BY CacheAssumption
    <2>5. q \in Seq(Parsers) BY <2>4, FoundSelectable
    <2>6. ASSUME NEW k \in 1 .. Len(q) PROVE Held(parser, r, q[k])
      <3>1. q[k] \in Parsers /\ parser[q[k]].stored /\ parser[q[k]].confidence >= Threshold
        BY <2>4, FoundSelectable
      <3>2. q[k] \in ToSet(q) BY <2>5 DEF ToSet
      <3>3. seen[q[k]] = parser[q[k]].confidence BY <1>3, <3>1, <3>2
      <3> QED BY <2>3, <3>1, <3>3 DEF Held
    <2> HIDE DEF r
    <2>7. Trying(r, q) \in JobType /\ Trying(r, q).pc # "idle" /\ GoodJob(parser, Trying(r, q))
      BY <2>3, <2>5, <2>6, TryingGood
    <2> QED BY <1>1, <1>3, <2>7, QuietHandlerStep DEF r
  <1> QED BY <1>2, <1>3 DEF FindParsers

LEMMA HitParserGood ==
  ASSUME IInv, NEW w \in Workers, HitParser(w)
  PROVE  IInv' /\ Later(parser, parser')
  <1> DEFINE i == Head(job[w].cands)
             new == Used(i, job[w].seen[i])
  <1>0. job[w] \in JobType BY DEF IInv, TypeOK
  <1>1. job[w].pc = "try" /\ UNCHANGED <<page, hosts, draft>> BY DEF HitParser
  <1>2. Held(parser, job[w], i)
    <2>1. job[w].cands # <<>> /\ \A k \in 1 .. Len(job[w].cands) : Held(parser, job[w], job[w].cands[k])
      BY <1>1 DEF IInv, GoodJob
    <2>2. job[w].cands \in Seq(Parsers) BY <1>0 DEF JobType
    <2>3. i = job[w].cands[1] /\ 1 \in 1 .. Len(job[w].cands) BY <2>1, <2>2
    <2> QED BY <2>1, <2>3
  <1>3. job[w].seen[i] \in 0 .. MaxConfidence BY <1>0, <1>2 DEF JobType, Held
  <1>4. GoodRows(new, hosts) /\ Later(parser, new) BY <1>2, <1>3, UsedGood DEF Held
  <1>5. \/ parser' = new /\ job' = [job EXCEPT ![w] = Leaving(w, "persist")]
        \/ Raises(w, new, Leaving(w, "persist"))
    BY DEF HitParser
  <1> HIDE DEF new
  <1> QED BY <1>1, <1>4, <1>5, LeavingGood, RaisingStep, HandlerStep DEF IInv

LEMMA DropParserGood ==
  ASSUME IInv, NEW w \in Workers, DropParser(w)
  PROVE  IInv' /\ Later(parser, parser')
  <1> DEFINE i == Head(job[w].cands)
             new == Invalidated(i)
             left == Tail(job[w].cands)
             r == [job[w] EXCEPT !.seen = Reloaded(w)]
  <1>0. job[w] \in JobType BY DEF IInv, TypeOK
  <1>1. job[w].pc = "try" /\ UNCHANGED <<page, hosts, draft>> BY DEF DropParser
  <1>2. job[w].cands # <<>> /\ \A k \in 1 .. Len(job[w].cands) : Held(parser, job[w], job[w].cands[k])
    BY <1>1 DEF IInv, GoodJob
  <1>3. job[w].cands \in Seq(Parsers) BY <1>0 DEF JobType
  <1>4. i \in Parsers BY <1>2, <1>3
  <1>5. left \in Seq(Parsers) /\ \A k \in 1 .. Len(left) : Held(parser, job[w], left[k])
    <2>1. left \in Seq(Parsers) BY <1>2, <1>3
    <2>2. ASSUME NEW k \in 1 .. Len(left)
          PROVE  left[k] = job[w].cands[k + 1] /\ k + 1 \in 1 .. Len(job[w].cands)
      BY <1>2, <1>3
    <2> QED BY <1>2, <2>1, <2>2
  <1>6. GoodRows(new, hosts) /\ Later(parser, new) BY <1>4, InvalidatedGood
  <1> HIDE DEF new, left
  <1>7. CASE parser' = new /\ job' = [job EXCEPT ![w] = Trying(r, left)]
    <2>1. Reloaded(w) \in [Parsers -> 0 .. MaxConfidence] BY <1>1, <1>6, <1>7, ReloadedGood
    <2>2. r \in JobType /\ r.seen = Reloaded(w) BY <1>0, <2>1 DEF JobType
    <2> HIDE DEF r
    <2>3. \A k \in 1 .. Len(left) : Held(parser', r, left[k])
      BY <1>5, <1>6, <1>7, <2>2, ReloadedGood DEF Held
    <2>4. Trying(r, left) \in JobType /\ Trying(r, left).pc # "idle"
          /\ GoodJob(parser', Trying(r, left))
      BY <1>5, <2>2, <2>3, TryingGood
    <2> QED BY <1>1, <1>6, <1>7, <2>4, HandlerStep
  <1>8. CASE Raises(w, new, Trying(job[w], left))
    <2>1. Trying(job[w], left) \in JobType /\ Trying(job[w], left).pc # "idle"
          /\ GoodJob(parser, Trying(job[w], left))
      BY <1>0, <1>5, TryingGood
    <2> QED BY <1>1, <1>6, <1>8, <2>1, RaisingStep
  <1>9. CASE Raises(w, new, Leaving(w, "failing"))
    BY <1>1, <1>6, <1>9, LeavingGood, RaisingStep DEF IInv
  <1>10. \/ parser' = new /\ job' = [job EXCEPT ![w] = Trying(r, left)]
         \/ Raises(w, new, Trying(job[w], left))
         \/ Raises(w, new, Leaving(w, "failing"))
    BY DEF DropParser, new, left
  <1> QED BY <1>7, <1>8, <1>9, <1>10

-----------------------------------------------------------------------------
(***************************************************************************)
(* The extraction                                                          *)
(***************************************************************************)
LEMMA ChangePageGood ==
  ASSUME IInv, NEW u \in Urls, ChangePage(u)
  PROVE  IInv' /\ Later(parser, parser')
  <1>1. page' \in [Urls -> Versions]
    BY CacheAssumption DEF ChangePage, IInv, TypeOK, Versions
  <1>2. UNCHANGED <<hosts, parser, job, draft>> BY DEF ChangePage
  <1>3. TypeOK' /\ ActiveIsSelectable'
    BY <1>1, <1>2 DEF IInv, TypeOK, ActiveIsSelectable, Stored
  <1>4. \A w \in Workers : GoodJob(parser, job[w])'
    BY <1>2 DEF IInv
  <1> QED BY <1>2, <1>3, <1>4, SameGood DEF IInv

LEMMA StartExtractionGood ==
  ASSUME IInv, NEW w \in Workers, NEW u \in Urls, NEW r \in Requests,
         StartExtraction(w, u, r[1], r[2])
  PROVE  IInv' /\ Later(parser, parser')
  <1> DEFINE F == r[1]
             c == IF F = {} THEN "extract" ELSE "find"
             s(v) == [Idle EXCEPT !.pc = c, !.url = u, !.version = v, !.fields = F,
                                  !.mode = r[2], !.todo = F, !.known = Stored]
  <1>1. F \in SUBSET Fields /\ r[2] \in Modes BY CacheAssumption
  <1>2. PICK v \in 0 .. page[u] : job' = [job EXCEPT ![w] = s(v)] BY DEF StartExtraction
  <1>3. v \in Versions BY CacheAssumption DEF IInv, TypeOK, Versions
  <1>4. Stored \in SUBSET Parsers /\ c \in {"extract", "find"} BY DEF Stored
  <1> HIDE DEF F, c
  <1>5. s(v) \in JobType BY <1>1, <1>3, <1>4, IdleType DEF JobType
  <1>6. s(v).pc = c /\ s(v).fields = F /\ s(v).todo = F BY IdleType DEF JobType
  <1> HIDE DEF s
  <1>7. GoodJob(parser, s(v)) BY <1>4, <1>6 DEF GoodJob
  <1>8. UNCHANGED <<page, hosts, parser, draft>> BY DEF StartExtraction
  <1> QED BY <1>2, <1>4, <1>5, <1>6, <1>7, <1>8, QuietHandlerStep

\* A step that leaves the tables alone and gives a worker a good record and
\* a good draft.
LEMMA DraftStep ==
  ASSUME IInv, NEW w \in Workers, NEW r \in JobType, job' = [job EXCEPT ![w] = r],
         r.pc = "idle" => ~r.poisoned, GoodJob(parser, r),
         NEW d \in DraftType, draft' = [draft EXCEPT ![w] = d],
         d.pc = "insert" => d.cur \in d.todo,
         UNCHANGED <<page, hosts, parser>>
  PROVE  IInv' /\ Later(parser, parser')
  <1>1. TypeOK' BY DEF IInv, TypeOK
  <1>2. ActiveIsSelectable' BY DEF IInv, ActiveIsSelectable, Stored
  <1>3. ASSUME NEW v \in Workers PROVE GoodJob(parser, job[v])'
    <2>1. CASE v = w BY <2>1 DEF IInv, TypeOK
    <2>2. CASE v # w BY <2>2 DEF IInv, TypeOK
    <2> QED BY <2>1, <2>2
  <1> QED BY <1>1, <1>2, <1>3, SameGood DEF IInv

\* The same for a worker whose draft, or whose record, stays.
LEMMA KeptDraft ==
  ASSUME IInv, NEW w \in Workers, draft' = draft
  PROVE  /\ draft[w] \in DraftType /\ draft' = [draft EXCEPT ![w] = draft[w]]
         /\ draft[w].pc = "insert" => draft[w].cur \in draft[w].todo
  BY DEF IInv, TypeOK

LEMMA KeptJob ==
  ASSUME IInv, NEW w \in Workers, job' = job
  PROVE  /\ job[w] \in JobType /\ job' = [job EXCEPT ![w] = job[w]]
         /\ job[w].pc = "idle" => ~job[w].poisoned
         /\ GoodJob(parser, job[w])
  BY DEF IInv, TypeOK

LEMMA ExtractWithModelGood ==
  ASSUME IInv, NEW w \in Workers, ExtractWithModel(w)
  PROVE  IInv' /\ Later(parser, parser')
  <1> DEFINE r == [job[w] EXCEPT !.pc = "keywords", !.known = {}]
             d == [NoDraft EXCEPT !.pc = "generate", !.url = job[w].url,
                                  !.version = job[w].version, !.fields = Request(w)]
  <1>0. job[w] \in JobType BY DEF IInv, TypeOK
  <1>1. UNCHANGED <<page, hosts, parser>> BY DEF ExtractWithModel
  <1>2. d \in DraftType /\ d.pc = "generate"
    BY <1>0, NoneType DEF DraftType, JobType, Request
  <1>3. r \in JobType /\ r.pc = "keywords" BY <1>0 DEF JobType
  <1>4. \/ job' = [job EXCEPT ![w] = Leaving(w, "nodata")] /\ draft' = draft
        \/ job' = [job EXCEPT ![w] = Leaving(w, "persist")] /\ draft' = [draft EXCEPT ![w] = d]
        \/ job' = [job EXCEPT ![w] = r] /\ draft' = draft
    BY DEF ExtractWithModel
  <1> HIDE DEF r, d
  <1>5. GoodJob(parser, r) BY <1>3, NothingHeld
  <1>6. CASE job' = [job EXCEPT ![w] = Leaving(w, "nodata")] /\ draft' = draft
    BY <1>1, <1>6, LeavingGood, QuietHandlerStep DEF IInv
  <1>7. CASE job' = [job EXCEPT ![w] = Leaving(w, "persist")] /\ draft' = [draft EXCEPT ![w] = d]
    BY <1>1, <1>2, <1>7, LeavingGood, DraftStep DEF IInv
  <1>8. CASE job' = [job EXCEPT ![w] = r] /\ draft' = draft
    BY <1>1, <1>3, <1>5, <1>8, QuietHandlerStep
  <1> QED BY <1>4, <1>6, <1>7, <1>8

LEMMA GenerateForKeywordGood ==
  ASSUME IInv, NEW w \in Workers, NEW f \in Fields, GenerateForKeyword(w, f)
  PROVE  IInv' /\ Later(parser, parser')
  <1> DEFINE r == [job[w] EXCEPT !.todo = job[w].todo \ {f}]
             s == [job[w] EXCEPT !.todo = job[w].todo \ {f}, !.found = TRUE]
             d(type) == [NoDraft EXCEPT !.pc = "read", !.url = job[w].url,
                                        !.version = job[w].version, !.mode = job[w].mode,
                                        !.type = type, !.todo = {{f}}]
  <1>0. job[w] \in JobType BY DEF IInv, TypeOK
  <1>1. job[w].pc = "keywords" /\ UNCHANGED <<page, hosts, parser>> BY DEF GenerateForKeyword
  <1>2. r \in JobType /\ r.pc = "keywords" BY <1>0, <1>1 DEF JobType
  <1>3. s \in JobType /\ s.pc = "keywords" BY <1>0, <1>1 DEF JobType
  <1>4. ASSUME NEW type \in MadeTypes PROVE d(type) \in DraftType /\ d(type).pc = "read"
    <2>1. type \in SourceTypes /\ {{f}} \in SUBSET SUBSET Fields BY CacheAssumption
    <2> QED BY <1>0, <2>1, NoneType DEF DraftType, JobType
  <1>5. \/ job' = [job EXCEPT ![w] = r] /\ draft' = draft
        \/ job' = [job EXCEPT ![w] = Leaving(w, "failing")] /\ draft' = draft
        \/ /\ job' = [job EXCEPT ![w] = s]
           /\ \E type \in MadeTypes : draft' = [draft EXCEPT ![w] = d(type)]
    BY DEF GenerateForKeyword, Start
  <1> HIDE DEF r, s, d
  <1>6. GoodJob(parser, r) /\ GoodJob(parser, s) BY <1>2, <1>3, NothingHeld
  <1>7. CASE job' = [job EXCEPT ![w] = r] /\ draft' = draft
    BY <1>1, <1>2, <1>6, <1>7, QuietHandlerStep
  <1>8. ASSUME NEW type \in MadeTypes, job' = [job EXCEPT ![w] = s],
               draft' = [draft EXCEPT ![w] = d(type)]
        PROVE  IInv' /\ Later(parser, parser')
    BY <1>1, <1>3, <1>4, <1>6, <1>8, DraftStep
  <1>9. CASE job' = [job EXCEPT ![w] = Leaving(w, "failing")] /\ draft' = draft
    BY <1>1, <1>9, LeavingGood, QuietHandlerStep DEF IInv
  <1> QED BY <1>5, <1>7, <1>8, <1>9

LEMMA EndKeywordsGood ==
  ASSUME IInv, NEW w \in Workers, EndKeywords(w)
  PROVE  IInv' /\ Later(parser, parser')
  <1> DEFINE c == IF job[w].found THEN "persist" ELSE "nodata"
  <1>1. job' = [job EXCEPT ![w] = Leaving(w, c)] /\ UNCHANGED <<page, hosts, parser, draft>>
    BY DEF EndKeywords
  <1>2. c \in {"persist", "nodata"} OBVIOUS
  <1> HIDE DEF c
  <1> QED BY <1>1, <1>2, LeavingGood, QuietHandlerStep DEF IInv

LEMMA FinishExtractionGood ==
  ASSUME IInv, NEW w \in Workers, FinishExtraction(w)
  PROVE  IInv' /\ Later(parser, parser')
  <1>1. job' = [job EXCEPT ![w] = Idle] /\ UNCHANGED <<page, hosts, parser, draft>>
    BY DEF FinishExtraction
  <1>2. GoodJob(parser, Idle) BY IdleType, NothingHeld
  <1> QED BY <1>1, <1>2, IdleType, KeptDraft, DraftStep

-----------------------------------------------------------------------------
(***************************************************************************)
(* The storing                                                             *)
(***************************************************************************)
LEMMA GenerateForSchemaGood ==
  ASSUME IInv, NEW w \in Workers, GenerateForSchema(w)
  PROVE  IInv' /\ Later(parser, parser')
  <1> DEFINE d(type, sets) ==
        [draft[w] EXCEPT !.pc = "read", !.type = type, !.todo = sets, !.fields = {}]
  <1>0. draft[w] \in DraftType BY DEF IInv, TypeOK
  <1>1. UNCHANGED <<page, hosts, parser, job>> BY DEF GenerateForSchema
  <1>2. CASE draft' = [draft EXCEPT ![w] = NoDraft]
    <2>1. NoDraft.pc = "none" BY DEF NoDraft
    <2> QED BY <1>1, <1>2, <2>1, NoneType, KeptJob, DraftStep
  <1>3. ASSUME NEW type \in MadeTypes, NEW sets \in SUBSET SUBSET Fields,
               ToStore(w, type, sets)
        PROVE  IInv' /\ Later(parser, parser')
    <2>1. type \in SourceTypes BY CacheAssumption
    <2>2. d(type, sets) \in DraftType /\ d(type, sets).pc = "read"
      BY <1>0, <2>1 DEF DraftType
    <2>3. draft' = [draft EXCEPT ![w] = d(type, sets)] BY <1>3 DEF ToStore
    <2> HIDE DEF d
    <2> QED BY <1>1, <2>2, <2>3, KeptJob, DraftStep
  <1>4. ASSUME NEW K \in SUBSET Fields
        PROVE  {{f} : f \in K} \in SUBSET SUBSET Fields /\ {draft[w].fields} \in SUBSET SUBSET Fields
    BY <1>0 DEF DraftType
  <1>5. \/ draft' = [draft EXCEPT ![w] = NoDraft]
        \/ \E K \in SUBSET Fields, type \in MadeTypes : ToStore(w, type, {{f} : f \in K})
        \/ \E type \in MadeTypes : ToStore(w, type, {draft[w].fields})
    BY DEF GenerateForSchema
  <1> QED BY <1>2, <1>3, <1>4, <1>5

\* What is left when a parser cannot be stored.
LEMMA GiveUpGood ==
  ASSUME IInv, NEW w \in Workers, NEW b \in BOOLEAN, b => job[w].pc # "idle",
         GiveUp(w, b), UNCHANGED <<page, hosts, parser>>
  PROVE  IInv' /\ Later(parser, parser')
  <1> DEFINE r == [job[w] EXCEPT !.poisoned = b]
  <1>0. job[w] \in JobType /\ GoodJob(parser, job[w]) BY DEF IInv, TypeOK
  <1>1. r \in JobType BY <1>0 DEF JobType
  <1>2. /\ r.pc = job[w].pc /\ r.poisoned = b /\ r.fields = job[w].fields /\ r.todo = job[w].todo
        /\ r.chosen = job[w].chosen /\ r.cands = job[w].cands /\ r.seen = job[w].seen
    BY <1>0 DEF JobType
  <1>3. job' = [job EXCEPT ![w] = r] /\ draft' = [draft EXCEPT ![w] = NoDraft] BY DEF GiveUp
  <1> HIDE DEF r
  <1>4. GoodJob(parser, r) BY <1>0, <1>2 DEF GoodJob, Held
  <1>5. NoDraft.pc = "none" BY DEF NoDraft
  <1> QED BY <1>1, <1>2, <1>3, <1>4, <1>5, NoneType, DraftStep

LEMMA StoreFailsGood ==
  ASSUME IInv, NEW w \in Workers, StoreFails(w), UNCHANGED <<page, hosts, parser>>
  PROVE  IInv' /\ Later(parser, parser')
  BY GiveUpGood DEF StoreFails

LEMMA ReadHostGood ==
  ASSUME IInv, NEW w \in Workers, ReadHost(w)
  PROVE  IInv' /\ Later(parser, parser')
  <1> DEFINE known == HostOf[draft[w].url] \in hosts
             d(F) == [draft[w] EXCEPT !.pc = "insert", !.cur = F,
                                      !.host = known]
  <1>0. draft[w] \in DraftType BY DEF IInv, TypeOK
  <1>1. UNCHANGED <<page, hosts, parser>> BY DEF ReadHost
  <1>2. CASE StoreFails(w) BY <1>1, <1>2, StoreFailsGood
  <1>3. ASSUME NEW F \in draft[w].todo, draft' = [draft EXCEPT ![w] = d(F)], job' = job
        PROVE  IInv' /\ Later(parser, parser')
    <2>1. F \in SUBSET Fields BY <1>0 DEF DraftType
    <2> known \in BOOLEAN OBVIOUS
    <2> HIDE DEF known
    <2>2. d(F) \in DraftType BY <1>0, <2>1 DEF DraftType
    <2>3. d(F).cur = F /\ d(F).todo = draft[w].todo BY <1>0 DEF DraftType
    <2> HIDE DEF d
    <2> QED BY <1>1, <1>3, <2>2, <2>3, KeptJob, DraftStep
  <1> QED BY <1>1, <1>2, <1>3 DEF ReadHost

\* A parser that was stored may be selected, and nothing else changed.
LEMMA StoredGood ==
  ASSUME IInv, NEW i \in Parsers, ~parser[i].stored, NEW row \in RowType,
         row.active => row.confidence >= Threshold, NEW h, hosts \subseteq h, HostOf[row.url] \in h
  PROVE  /\ GoodRows([parser EXCEPT ![i] = row], h)
         /\ Later(parser, [parser EXCEPT ![i] = row])
  BY DEF IInv, TypeOK, GoodRows, ActiveIsSelectable, Stored, Later

\* So an insertion leaves good tables.
LEMMA InsertedGood ==
  ASSUME IInv, NEW w \in Workers, Inserted(w)
  PROVE  /\ GoodRows(parser', hosts') /\ Later(parser, parser')
         /\ hosts' \subseteq Hosts
  <1> DEFINE host == HostOf[draft[w].url]
             row(on) == [stored |-> TRUE, url |-> draft[w].url, fields |-> draft[w].cur,
                         type |-> draft[w].type, on |-> on, active |-> TRUE,
                         confidence |-> Confidence[draft[w].mode]]
  <1>0. draft[w] \in DraftType BY DEF IInv, TypeOK
  <1>1. PICK i \in Parsers \ Stored, on \in SUBSET Versions :
          parser' = [parser EXCEPT ![i] = row(on)]
    BY DEF Inserted
  <1>2. hosts' = hosts \cup {host} BY DEF Inserted
  <1>3. /\ Confidence[draft[w].mode] \in Threshold .. MaxConfidence
        /\ Confidence[draft[w].mode] \in 0 .. MaxConfidence
    BY <1>0, CacheAssumption DEF DraftType
  <1>4. row(on) \in RowType BY <1>0, <1>3 DEF RowType, DraftType
  <1>5. row(on).confidence >= Threshold /\ row(on).url = draft[w].url BY <1>3
  <1> HIDE DEF row
  <1>6. GoodRows(parser', hosts') /\ Later(parser, parser')
    <2>1. i \in Parsers /\ ~parser[i].stored BY DEF Stored
    <2>2. hosts \subseteq hosts' /\ HostOf[row(on).url] \in hosts' BY <1>2, <1>5
    <2> QED BY <1>1, <1>4, <1>5, <2>1, <2>2, StoredGood
  <1>7. hosts' \subseteq Hosts
    BY <1>0, <1>2, CacheAssumption DEF IInv, TypeOK, DraftType
  <1> QED BY <1>6, <1>7

\* The step of an insertion, after which w goes on with the draft d and the
\* handler with r.
LEMMA InsertedStep ==
  ASSUME IInv, NEW w \in Workers, Inserted(w), UNCHANGED page,
         NEW d \in DraftType, d.pc # "insert", draft' = [draft EXCEPT ![w] = d],
         NEW r \in JobType, r.pc = "idle" => ~r.poisoned, GoodJob(parser, r),
         job' = [job EXCEPT ![w] = r]
  PROVE  IInv' /\ Later(parser, parser')
  <1>1. GoodRows(parser', hosts') /\ Later(parser, parser') /\ hosts' \subseteq Hosts
    BY InsertedGood
  <1>2. draft' \in [Workers -> DraftType] /\ job' \in [Workers -> JobType]
    BY DEF IInv, TypeOK
  <1>3. ASSUME NEW v \in Workers
        PROVE  /\ (job[v].pc = "idle" => ~job[v].poisoned)'
               /\ (draft[v].pc = "insert" => draft[v].cur \in draft[v].todo)'
    BY DEF IInv, TypeOK
  <1>4. TypeOK' BY <1>1, <1>2, <1>3 DEF TypeOK, IInv, GoodRows
  <1>5. ActiveIsSelectable' BY <1>1 DEF GoodRows, ActiveIsSelectable, Stored
  <1>6. ASSUME NEW v \in Workers PROVE GoodJob(parser, job[v])'
    <2>1. CASE v = w BY <1>1, <2>1, GoodJobKeeps DEF IInv, TypeOK
    <2>2. CASE v # w BY <1>1, <2>2, GoodJobKeeps DEF IInv, TypeOK
    <2> QED BY <2>1, <2>2
  <1> QED BY <1>1, <1>4, <1>5, <1>6 DEF IInv

LEMMA InsertParserGood ==
  ASSUME IInv, NEW w \in Workers, InsertParser(w)
  PROVE  IInv' /\ Later(parser, parser')
  <1> DEFINE left == draft[w].todo \ {draft[w].cur}
             d == [draft[w] EXCEPT !.pc = "read", !.todo = left]
             next == IF left = {} THEN NoDraft ELSE d
  <1>0. /\ draft[w] \in DraftType /\ job[w] \in JobType /\ GoodJob(parser, job[w])
        /\ (job[w].pc = "idle" => ~job[w].poisoned) /\ job \in [Workers -> JobType]
    BY DEF IInv, TypeOK
  <1>1. UNCHANGED page BY DEF InsertParser
  <1>2. CASE StoreFails(w) /\ UNCHANGED <<hosts, parser>> BY <1>1, <1>2, StoreFailsGood
  <1>3. CASE GiveUp(w, job[w].pc # "idle") /\ UNCHANGED <<hosts, parser>>
    <2> DEFINE b == job[w].pc # "idle"
    <2>1. b \in BOOLEAN /\ (b => job[w].pc # "idle") OBVIOUS
    <2>2. GiveUp(w, b) BY <1>3
    <2> HIDE DEF b
    <2> QED BY <1>1, <1>3, <2>1, <2>2, GiveUpGood
  <1>4. CASE Inserted(w) /\ draft' = [draft EXCEPT ![w] = next] /\ job' = job
    <2>1. left \in SUBSET SUBSET Fields BY <1>0 DEF DraftType
    <2> HIDE DEF left
    <2>2. d \in DraftType /\ d.pc = "read" BY <1>0, <2>1 DEF DraftType
    <2> HIDE DEF d
    <2>3. next \in DraftType /\ next.pc # "insert" BY <2>2, NoneType DEF NoDraft
    <2>4. job' = [job EXCEPT ![w] = job[w]] BY <1>0, <1>4
    <2> HIDE DEF next
    <2> QED BY <1>0, <1>1, <1>4, <2>3, <2>4, InsertedStep
  <1>5. CASE Inserted(w) /\ StoreFails(w)
    <2>1. PICK b \in BOOLEAN : (b => job[w].pc # "idle") /\ GiveUp(w, b)
      BY <1>5 DEF StoreFails
    <2> DEFINE r == [job[w] EXCEPT !.poisoned = b]
    <2>2. job' = [job EXCEPT ![w] = r] /\ draft' = [draft EXCEPT ![w] = NoDraft]
      BY <2>1 DEF GiveUp
    <2>3. r \in JobType BY <1>0 DEF JobType
    <2>4. /\ r.pc = job[w].pc /\ r.poisoned = b /\ r.fields = job[w].fields /\ r.todo = job[w].todo
          /\ r.chosen = job[w].chosen /\ r.cands = job[w].cands /\ r.seen = job[w].seen
      BY <1>0 DEF JobType
    <2> HIDE DEF r
    <2>5. GoodJob(parser, r) BY <1>0, <2>4 DEF GoodJob, Held
    <2>6. NoDraft \in DraftType /\ NoDraft.pc # "insert" BY NoneType DEF NoDraft
    <2> QED BY <1>1, <1>5, <2>1, <2>2, <2>3, <2>4, <2>5, <2>6, InsertedStep
  <1>6. \/ Inserted(w) /\ draft' = [draft EXCEPT ![w] = next] /\ job' = job
        \/ GiveUp(w, job[w].pc # "idle") /\ UNCHANGED <<hosts, parser>>
        \/ StoreFails(w) /\ UNCHANGED <<hosts, parser>>
        \/ Inserted(w) /\ StoreFails(w)
    BY DEF InsertParser
  <1> HIDE DEF next
  <1> QED BY <1>2, <1>3, <1>4, <1>5, <1>6

-----------------------------------------------------------------------------
(***************************************************************************)
(* The theorems                                                            *)
(***************************************************************************)
LEMMA InitGood == Init => IInv
  <1> SUFFICES ASSUME Init PROVE IInv OBVIOUS
  <1>1. page \in [Urls -> Versions] BY CacheAssumption DEF Init, Versions
  <1>2. /\ parser \in [Parsers -> RowType] /\ job \in [Workers -> JobType]
        /\ draft \in [Workers -> DraftType]
    BY IdleType, NoneType DEF Init
  <1>3. \A i \in Parsers : ~parser[i].stored BY DEF Init, NoRow
  <1>4. \A w \in Workers : /\ job[w].pc = "idle" /\ ~job[w].poisoned
                           /\ draft[w].pc = "none"
    BY IdleType DEF Init, NoDraft
  <1>5. TypeOK BY <1>1, <1>2, <1>4 DEF TypeOK, Init
  <1>6. ActiveIsSelectable BY <1>3 DEF ActiveIsSelectable, Stored
  <1>7. \A w \in Workers : GoodJob(parser, job[w]) BY <1>4, NothingHeld
  <1> QED BY <1>5, <1>6, <1>7 DEF IInv

\* Every step keeps the invariant and makes no parser active again.
LEMMA StepGood == IInv /\ [Next]_vars => IInv' /\ Later(parser, parser')
  <1> SUFFICES ASSUME IInv, [Next]_vars PROVE IInv' /\ Later(parser, parser') OBVIOUS
  <1>1. ASSUME NEW u \in Urls, ChangePage(u) PROVE IInv' /\ Later(parser, parser')
    BY <1>1, ChangePageGood
  <1>2. ASSUME NEW w \in Workers, NEW u \in Urls, NEW r \in Requests,
               StartExtraction(w, u, r[1], r[2])
        PROVE  IInv' /\ Later(parser, parser')
    BY <1>2, StartExtractionGood
  <1>3. ASSUME NEW w \in Workers, LookingUp(w) PROVE IInv' /\ Later(parser, parser')
    BY <1>3, FindFieldParserGood, ApplyFieldParserGood, FindParsersGood, HitParserGood,
       DropParserGood DEF LookingUp
  <1>4. ASSUME NEW w \in Workers, Extracting(w) PROVE IInv' /\ Later(parser, parser')
    BY <1>4, ExtractWithModelGood, EndKeywordsGood, FinishExtractionGood,
       GenerateForKeywordGood DEF Extracting
  <1>5. ASSUME NEW w \in Workers, Storing(w) PROVE IInv' /\ Later(parser, parser')
    BY <1>5, GenerateForSchemaGood, ReadHostGood, InsertParserGood DEF Storing
  <1>6. CASE UNCHANGED vars
    <2>1. UNCHANGED <<page, hosts, parser, job, draft>> BY <1>6 DEF vars
    <2>2. TypeOK' BY <2>1 DEF IInv, TypeOK
    <2>3. ActiveIsSelectable' BY <2>1 DEF IInv, ActiveIsSelectable, Stored
    <2>4. \A w \in Workers : GoodJob(parser, job[w])' BY <2>1 DEF IInv
    <2> QED BY <2>1, <2>2, <2>3, <2>4, SameGood DEF IInv
  <1> QED BY <1>1, <1>2, <1>3, <1>4, <1>5, <1>6 DEF Next

\* The conjunction of the types, of ActiveIsSelectable and of what handlers
\* know of the parsers that they still have to use is inductive.
THEOREM CacheInvariant == Spec => []IInv
  <1>1. IInv /\ [Next]_vars => IInv' BY StepGood
  <1> QED BY InitGood, <1>1, PTL DEF Spec

\* The tables, the handlers and their threads keep their shape, and a session
\* is only poisoned while its handler runs (services/ai_worker/workflows.py).
THEOREM TypeCorrect == Spec => []TypeOK
  <1>1. IInv => TypeOK BY DEF IInv
  <1> QED BY <1>1, CacheInvariant, PTL

\* However many handlers use, invalidate and store parsers at once, with any
\* failure of any statement, an active parser stays above the threshold of
\* find_cached_parser_by_fields and its host is known.
THEOREM ActiveStaysSelectable == Spec => []ActiveIsSelectable
  <1>1. IInv => ActiveIsSelectable BY DEF IInv
  <1> QED BY <1>1, CacheInvariant, PTL

\* No late update_parser_usage brings a parser back that invalidate_parser
\* took out of use.
THEOREM InvalidStaysInvalid == Spec => InvalidIsFinal
  <1>1. Later(parser, parser') =>
          \A i \in Parsers : parser[i].stored /\ ~parser[i].active => ~parser'[i].active
    BY DEF Later
  <1>2. IInv /\ [Next]_vars =>
          [\A i \in Parsers : parser[i].stored /\ ~parser[i].active => ~parser'[i].active]_vars
    BY StepGood, <1>1
  <1> QED BY CacheInvariant, <1>2, PTL DEF Spec, InvalidIsFinal
=============================================================================
